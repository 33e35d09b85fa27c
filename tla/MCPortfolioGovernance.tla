----------------------- MODULE MCPortfolioGovernance -----------------------
(* Two candidates, five ticks, two stages: enough for one chain (two       *)
(* checkpoints, gate, two stages) with nothing to spare.                       *)
EXTENDS PortfolioGovernance

CONSTANTS b, c1, c2, q, s, g1, g2

MCCandidate == {c1, c2}
MCMetric == {q, s}
MCGuarded == {s}
MCRequired == q :> 1 @@ s :> 0
MCAllowed == q :> 0 @@ s :> 0
MCSubject == 0 .. 3
MCStageSeq == UNION {[1 .. n -> [exposure : {1, 3}, groups : {2}]] : n \in 1 .. 2}

Shows(safety, base, ql, qh, sl, sh) ==
    [level |-> q :> "held" @@ s :> safety, base |-> base,
     lo |-> q :> ql @@ s :> sl, hi |-> q :> qh @@ s :> sh]

Good == Shows("held", "held", 1, 1, 0, 0)
Other == {Shows("open", "held", 1, 1, 0, 0), Shows("violated", "held", 1, 1, 0, 0),
          Shows("held", "held", 0, 1, 0, 0), Shows("held", "held", 0 - 2, 0 - 1, 0, 0)}
Unsound == Shows("held", "violated", 1, 1, 0, 0)
Early == {Good, Unsound, Shows("open", "held", 1, 1, 0, 0), Shows("violated", "held", 1, 1, 0, 0)}

\* One piece of evidence per group, under label x, in a window of its own.
Unit(x, g, w) == [pair |-> <<x, g>>, group |-> g, evidence |-> <<x, g>>, start |-> w, end |-> w]
Asked(c, units, o) == [candidate |-> c, units |-> units, shows |-> o]
At(x, t) == {Unit(x, g1, t), Unit(x, g2, t)}

\* Evidence is of the report's own tick; a report that shows what every authority
\* wants to see may also relabel evidence of an earlier one, span two ticks, or
\* have one group only.  c2 is an early checkpoint of the path.
MCEvaluation ==
    {Asked(c1, At(t, t), Good) : t \in 1 .. 5}
    \cup {Asked(c1, At(t, t), o) : t \in {1, 2, 4, 5}, o \in Other}
    \cup {Asked(c2, At(t, t), o) : t \in 1 .. 2, o \in Early}
    \cup {Asked(c1, At(x, t), Good) : x \in 1 .. 2, t \in 3 .. 5}
    \cup {Asked(c, At(t, t) \cup At(t + 1, t + 1), Good) : c \in MCCandidate, t \in 1 .. 2}
    \cup {Asked(c1, {Unit(t, g1, t)}, Good) : t \in {1, 4}}
    \cup {Asked(c1, At(1, 1) \cup At(1, 2), Good), Asked(b, At(1, 1), Good)}

\* The authorities are functions of the reports they are given, so the order of
\* the calls does not matter to what a chain may contain: they are called in the
\* order PETFC, gate, canary, and a chain that failed is not carried on.
OneChain ==
    /\ petfc # Unsealed => trajectory = petfc.reports
    /\ gate # Unsealed => petfc # Unsealed /\ petfc.verdict = "compatible" /\ gate.verdict = "advance"
    /\ canary # Unsealed => canary.gate = gate
=============================================================================
