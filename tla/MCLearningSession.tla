-------------------------- MODULE MCLearningSession --------------------------
(***************************************************************************)
(* An instance of LearningSession for TLC: a session of two steps and a    *)
(* session of one.  Two envelopes for one aperture differ in their source. *)
(***************************************************************************)
EXTENDS LearningSession, TLC

CONSTANTS s1, s2, a1, a2, high, c1, c2

MCSession == {s1, s2}
MCAperture == {a1, a2}
MCOutcome == {high}
MCClient == {c1, c2}
MCPlanSteps == [s \in Session |-> IF s = s1 THEN 2 ELSE 1]

\* Both sessions start from one aperture.
MCNextAperture(d) == IF d = <<>> THEN a1 ELSE a2

Symmetry == Permutations(MCClient)
=============================================================================
