------------------------- MODULE NumericalEvolution -------------------------
(***************************************************************************)
(* One capability that learns from numerical attempts.                     *)
(*                                                                         *)
(*   learning/solver_portfolio.rs     the solvers and their report         *)
(*   learning/numerical_evolution.rs  the engine: one solve per revision,  *)
(*                                    its comparison with the incumbent    *)
(*   learning/procedural_memory.rs    the memory of attempts and failures, *)
(*                                    its rebuilding, and the advice       *)
(*   learning/procedural_replay.rs    memory derived from a receipt        *)
(*                                                                         *)
(* The solvers are pure: what each backend makes of a problem is chosen    *)
(* once, in EvolutionInit.  A checkpoint is a number (its digest and its   *)
(* order), a gate decision is free.  An attempt is known by the revision   *)
(* that consumed it, a rejection's receipt by the problem and the number   *)
(* of external proposals.  A call that the code refuses is a step that is  *)
(* not taken.  Not modelled: residuals, the capacities of memory and       *)
(* trajectory, the disposition printed for a cycle.                        *)
(***************************************************************************)
EXTENDS Integers, FiniteSets, Sequences, FiniteSetsExt, SequencesExt

CONSTANTS Problem,            \* training problems
          Checkpoint,         \* weights, numbered in the order of their digests
          BaselineCheckpoint, \* checkpoints that calls give as their baseline
          Suite,              \* sets of evaluation groups
          Workload,           \* per problem, the evaluations its backends may give
          StoredSize(_),      \* how many parameters a checkpoint stores
          MaxProposals,       \* external proposals beyond this many are not looked at
          MaxRevision,        \* bound: solves per behaviour
          NoValue

VARIABLES solves,     \* the evaluation each backend gives, by problem
          incumbent,  \* the checkpoint every candidate is compared with
          revision,   \* the last revision consumed
          research,   \* the reports of the trajectory
          lineages,   \* by problem, ordinal and attempt (its revision) reached
          memory,     \* the attempts and failures the memory holds
          emitted     \* the attempts and failures the cycles returned

evolutionVars == <<solves, incumbent, revision, research, lineages, memory, emitted>>

Backends == {"cholesky", "direct", "external"}

\* What one backend makes of a problem: what it accepts, it has produced.
CandidateEvaluation ==
    [backend : Backends, status : {"accepted", "rejected", "unknown"},
     candidate : Checkpoint \cup {NoValue}]

ASSUME EvolutionAssumption ==
    /\ Checkpoint \subseteq Nat /\ BaselineCheckpoint \subseteq Checkpoint
    /\ \A c \in Checkpoint : StoredSize(c) \in Nat
    /\ MaxProposals \in Nat /\ MaxRevision \in Nat /\ Suite # {}
    /\ \A p \in Problem : \A answers \in Workload[p] :
          /\ answers \subseteq CandidateEvaluation /\ IsFiniteSet(answers)
          /\ \A e \in answers : e.status = "accepted" => e.candidate # NoValue

\* Backends in the order of NumericalBackendRole.
Role(backend) == IF backend = "cholesky" THEN 1 ELSE IF backend = "direct" THEN 2 ELSE 3

\* The memory a refused record leaves.
Refused == NoValue

-----------------------------------------------------------------------------
(* The portfolio. *)

\* The evaluations of a report; one proposal too many and nothing is evaluated.
Evaluations(p, proposals) ==
    IF proposals > MaxProposals THEN {}
    ELSE {e \in solves[p] : e.backend = "external" => proposals > 0}

Accepted(report) == {e \in report : e.status = "accepted"}

\* The smaller representation, then the backend in its order, is selected.
Selected(report) ==
    CHOOSE e \in Accepted(report) : \A d \in Accepted(report) :
        \/ StoredSize(e.candidate) < StoredSize(d.candidate)
        \/ StoredSize(e.candidate) = StoredSize(d.candidate) /\ Role(e.backend) <= Role(d.backend)

Observed(report) == {e \in report : e.status = "rejected" /\ e.candidate # NoValue}

\* The direct solver's rejection speaks for the portfolio, or else that of the
\* candidate whose digest comes first.
ObservedRejection(report) ==
    LET direct == {e \in Observed(report) : e.backend = "direct"}
    IN IF direct # {} THEN CHOOSE e \in direct : TRUE
       ELSE CHOOSE e \in Observed(report) : \A d \in Observed(report) : e.candidate <= d.candidate

Materialized(report) == {e \in report : e.candidate # NoValue}

-----------------------------------------------------------------------------
(* The memory. *)

\* A rejection is known by the run that ended in it, a trial by its revision.
AttemptRecord ==
    [problem : Problem, backend : Backends, candidate : Checkpoint,
     evidence : [kind : {"rejection"}, of : Problem \X Nat] \cup [kind : {"trial"}, of : Seq(Nat)],
     suite : Suite \cup {NoValue}, status : {"validated", "rejected", "inconclusive"},
     revision : Nat, ordinal : Nat, parent : Nat \cup {NoValue}]
FailureRecord == [run : Problem \X Nat, revision : Nat]

ASSUME NoValueIsNothing ==
    /\ NoValue \notin Checkpoint /\ NoValue \notin Suite /\ NoValue \notin Nat
    /\ NoValue \notin [ordinal : Nat, attempt : Nat]
    /\ NoValue \notin [attempts : SUBSET AttemptRecord, failures : SUBSET FailureRecord]

Empty == [attempts |-> {}, failures |-> {}]

\* What an attempt says apart from when it was made and where it hangs.
Meaning(a) ==
    [problem |-> a.problem, backend |-> a.backend, candidate |-> a.candidate,
     evidence |-> a.evidence, suite |-> a.suite, status |-> a.status]

\* Variant: a child may hang from an attempt the memory does not hold.
FollowsAnyone(attempts, a) ==
    /\ ~\E b \in attempts : b.problem = a.problem /\ b.ordinal = a.ordinal
    /\ a.ordinal = 0 <=> a.parent = NoValue

\* The attempt takes the next free place of its lineage.
Follows(attempts, a) ==
    /\ ~\E b \in attempts : b.problem = a.problem /\ b.ordinal = a.ordinal
    /\ a.ordinal = 0 <=> a.parent = NoValue
    /\ a.parent # NoValue => \E b \in attempts : /\ b.revision = a.parent /\ b.problem = a.problem
                                             /\ b.ordinal + 1 = a.ordinal
                                             /\ b.revision < a.revision

\* Variant: an attempt is known by its own digest alone.
RecordedByDigest(m, a) ==
    IF a \in m.attempts THEN m
    ELSE IF Follows(m.attempts, a) THEN [m EXCEPT !.attempts = @ \cup {a}] ELSE Refused

\* An attempt whose evidence the memory has is not taken again.
Recorded(m, a) ==
    LET same == {b \in m.attempts : b.evidence = a.evidence}
    IN IF \E b \in same : Meaning(b) = Meaning(a) THEN m
       ELSE IF same = {} /\ Follows(m.attempts, a) THEN [m EXCEPT !.attempts = @ \cup {a}]
       ELSE Refused

RecordedFailure(m, f) ==
    IF \E g \in m.failures : g.run = f.run THEN m ELSE [m EXCEPT !.failures = @ \cup {f}]

\* Variant: attempts are replayed as they are listed.
RebuiltAsListed(attempts, failures) ==
    LET Add(m, a) == IF m = Refused THEN m ELSE Recorded(m, a)
        All == FoldLeft(Add, Empty, attempts)
    IN IF All = Refused THEN Refused ELSE FoldLeft(RecordedFailure, All, failures)

\* The memory of a list of attempts and one of failures: lineage by lineage, each
\* in its order.  (Failures are taken in the order of digests nobody chose.)
Rebuilt(attempts, failures) ==
    LET Before(a, b) == a.problem < b.problem \/ (a.problem = b.problem /\ a.ordinal < b.ordinal)
        Add(m, a) == IF m = Refused THEN m ELSE Recorded(m, a)
        All == FoldLeft(Add, Empty, SetToSortSeq(Range(attempts), Before))
    IN IF All = Refused THEN Refused ELSE FoldLeft(RecordedFailure, All, failures)

\* The receipt of numerical.evolve lists what the cycles returned and declares
\* how many attempts the memory holds; replay compares the two.
Replayed(receipt, declared) ==
    IF declared # Len(receipt.attempts) THEN Refused
    ELSE Rebuilt(receipt.attempts, receipt.failures)

-----------------------------------------------------------------------------
(* The advice. *)

\* What counts for a query: not the future, not what an external label did, not
\* what was left open, and a solver's rejection for its own problem only.
Heard(query) ==
    {a \in memory.attempts :
        /\ a.revision <= query.revision
        /\ a.backend # "external"
        /\ a.status # "inconclusive"
        /\ a.problem # query.problem => query.transfer /\ a.suite # NoValue}

\* Variant: the last word on a configuration is kept.
KeptLast(query, backend) ==
    {a \in Heard(query) : a.backend = backend
        /\ \A b \in Heard(query) : b.backend = backend => b.revision <= a.revision}

\* A contribution replaces an earlier one of the same design; each rejection is a
\* design of its own.
Kept(query, backend) ==
    LET OneDesign(a, b) == a.suite = b.suite /\ (a.suite = NoValue => a.evidence = b.evidence)
    IN {a \in Heard(query) : a.backend = backend
           /\ \A b \in Heard(query) :
                 b.backend = backend /\ OneDesign(a, b) => b.revision <= a.revision}

\* The dispositions the weights may lead to.
Advice(query, backend) ==
    LET for == {a \in Kept(query, backend) : a.status = "validated"}
        against == {a \in Kept(query, backend) : a.status = "rejected"}
    IN IF for \cup against = {} THEN {}
       ELSE {"observe"} \cup (IF against = {} THEN {"prioritize"} ELSE {"deprioritize"})

-----------------------------------------------------------------------------
(* The engine. *)

\* Whatever an attempt says, it takes the next place of its problem's lineage.
Attempt(p, e, evidence, suite, status) ==
    [problem |-> p, backend |-> e.backend, candidate |-> e.candidate, evidence |-> evidence,
     suite |-> suite, status |-> status, revision |-> revision + 1,
     ordinal |-> IF lineages[p] = NoValue THEN 0 ELSE lineages[p].ordinal + 1,
     parent |-> IF lineages[p] = NoValue THEN NoValue ELSE lineages[p].attempt]

Rejection(p, proposals) ==
    Attempt(p, ObservedRejection(Evaluations(p, proposals)),
            [kind |-> "rejection", of |-> <<p, proposals>>], NoValue, "rejected")

\* The name of an external implementation earns no validation.
StatusOf(gate, backend) ==
    CASE gate = "advance" -> IF backend = "external" THEN "inconclusive" ELSE "validated"
      [] gate = "reject" -> "rejected"
      [] gate = "unknown" -> "inconclusive"

Trial(p, e, suite, gate) ==
    Attempt(p, e, [kind |-> "trial", of |-> <<revision + 1>>], suite, StatusOf(gate, e.backend))

\* Variant: a measured candidate is measured again.
NeverKnown(candidate, suite) == FALSE

Known(candidate, suite) ==
    \E r \in Range(research) : r.candidate = candidate /\ r.suite = suite

\* The trajectory grows by new checkpoints of one suite, later and later.
ExtendsTrajectory(r) ==
    research # <<>> => /\ r.baseline = Last(research).baseline
                       /\ r.suite = Last(research).suite
                       /\ r.revision > Last(research).revision
                       /\ \A s \in Range(research) : s.candidate # r.candidate

EvolutionInit ==
    /\ solves \in {f \in [Problem -> UNION {Workload[p] : p \in Problem}] :
                      \A p \in Problem : f[p] \in Workload[p]}
    /\ incumbent = NoValue /\ revision = 0 /\ research = <<>>
    /\ lineages = [p \in Problem |-> NoValue]
    /\ memory = Empty
    /\ emitted = [attempts |-> <<>>, failures |-> <<>>]

\* A call names the incumbent, or makes its baseline the incumbent, and a call
\* that ends well consumes its revision.
Begin(baseline) ==
    /\ incumbent \in {NoValue, baseline} /\ incumbent' = baseline
    /\ revision < MaxRevision /\ revision' = revision + 1
    /\ UNCHANGED solves

\* The first baseline stays even if the call fails after it.
FailFirst(baseline) ==
    /\ incumbent = NoValue /\ incumbent' = baseline
    /\ UNCHANGED <<solves, revision, research, lineages, memory, emitted>>

Learn(a) ==
    /\ Recorded(memory, a) # Refused
    /\ memory' = Recorded(memory, a)
    /\ lineages' = [lineages EXCEPT ![a.problem] = [ordinal |-> a.ordinal, attempt |-> a.revision]]
    /\ emitted' = [emitted EXCEPT !.attempts = Append(@, a)]

\* Nobody solved the problem and a rejected candidate was measured.
EvolveRejected(p, proposals, baseline) ==
    LET report == Evaluations(p, proposals)
    IN /\ Begin(baseline)
       /\ Accepted(report) = {} /\ Observed(report) # {}
       /\ Learn(Rejection(p, proposals))
       /\ UNCHANGED research

\* There is a candidate and nothing was decided about it.
EvolveUnknown(p, proposals, baseline) ==
    LET report == Evaluations(p, proposals)
    IN /\ Begin(baseline)
       /\ Accepted(report) = {} /\ Observed(report) = {} /\ Materialized(report) # {}
       /\ UNCHANGED <<research, lineages, memory, emitted>>

\* There is no candidate at all.
EvolveFailed(p, proposals, baseline) ==
    LET failure == [run |-> <<p, proposals>>, revision |-> revision + 1]
    IN /\ Begin(baseline)
       /\ Materialized(Evaluations(p, proposals)) = {}
       /\ memory' = RecordedFailure(memory, failure)
       /\ emitted' = [emitted EXCEPT !.failures = Append(@, failure)]
       /\ UNCHANGED <<research, lineages>>

\* The incumbent again, or a candidate this suite has already measured.
EvolveNothingNew(p, proposals, baseline, suite) ==
    LET report == Evaluations(p, proposals)
    IN /\ Begin(baseline)
       /\ Accepted(report) # {}
       /\ Selected(report).candidate = baseline \/ Known(Selected(report).candidate, suite)
       /\ UNCHANGED <<research, lineages, memory, emitted>>

EvolveTrial(p, proposals, baseline, suite, gate) ==
    LET report == Evaluations(p, proposals)
        candidate == Selected(report).candidate
        r == [baseline |-> baseline, candidate |-> candidate, suite |-> suite,
              revision |-> revision + 1]
    IN /\ Begin(baseline)
       /\ Accepted(report) # {}
       /\ candidate # baseline /\ ~Known(candidate, suite)
       /\ ExtendsTrajectory(r)
       /\ Learn(Trial(p, Selected(report), suite, gate))
       /\ research' = Append(research, r)

EvolutionNext ==
    \E baseline \in BaselineCheckpoint :
        \/ FailFirst(baseline)
        \/ \E p \in Problem, proposals \in 0 .. MaxProposals + 1 :
              \/ EvolveRejected(p, proposals, baseline)
              \/ EvolveUnknown(p, proposals, baseline)
              \/ EvolveFailed(p, proposals, baseline)
              \/ \E suite \in Suite :
                    \/ EvolveNothingNew(p, proposals, baseline, suite)
                    \/ \E gate \in {"advance", "reject", "unknown"} :
                          EvolveTrial(p, proposals, baseline, suite, gate)

EvolutionSpec == EvolutionInit /\ [][EvolutionNext]_evolutionVars

\* observe_functional_change compares two reports of one candidate on one suite,
\* the second one later.
Comparable(r, s) ==
    r.candidate = s.candidate /\ r.suite = s.suite /\ r.revision < s.revision

-----------------------------------------------------------------------------
(* Properties. *)

EvolutionTypeOK ==
    /\ incumbent \in BaselineCheckpoint \cup {NoValue} /\ revision \in 0 .. MaxRevision
    /\ \A r \in Range(research) : r.candidate \in Checkpoint /\ r.revision \in 1 .. revision
    /\ \A p \in Problem : lineages[p] # NoValue => lineages[p].attempt \in 1 .. revision
    /\ \A a \in memory.attempts :
          /\ a.problem \in Problem /\ a.backend \in Backends /\ a.revision \in 1 .. revision
          /\ a.status \in {"validated", "rejected", "inconclusive"}
    /\ \A f \in memory.failures : f.revision \in 1 .. revision

\* However often a problem is solved, a receipt is remembered once.
EvidenceCountsOnce ==
    /\ \A a, b \in memory.attempts : a.evidence = b.evidence => a = b
    /\ \A f, g \in memory.failures : f.run = g.run => f = g

\* What memory holds of a problem is one unbroken chain from its first attempt.
LineagesAreChains ==
    \A p \in Problem :
        LET chain == {a \in memory.attempts : a.problem = p}
        IN /\ {a.ordinal : a \in chain} = 0 .. Cardinality(chain) - 1
           /\ \A a, b \in chain : a.ordinal < b.ordinal => a.revision < b.revision

\* The trajectory and the memory tell one story: its reports are the trials
\* remembered, each of a checkpoint of its own against the one incumbent.  So no
\* two of them are ever compared for drift.
TrajectoryIsRemembered ==
    LET trials == {a \in memory.attempts : a.suite # NoValue}
    IN /\ {[c |-> r.candidate, at |-> r.revision] : r \in Range(research)}
             = {[c |-> a.candidate, at |-> a.revision] : a \in trials}
       /\ \A r \in Range(research) : r.baseline = incumbent /\ r.candidate # incumbent
       /\ \A r, s \in Range(research) : ~Comparable(r, s)

\* The engine's memory is sound whatever is solved again.
MemoryIsSound == EvolutionTypeOK /\ EvidenceCountsOnce /\ LineagesAreChains /\ TrajectoryIsRemembered

\* A rejection of p was returned a second time, as a new attempt.
Repeated(p) ==
    \E i, j \in DOMAIN emitted.attempts :
        /\ i < j /\ emitted.attempts[i].problem = p
        /\ emitted.attempts[i].evidence = emitted.attempts[j].evidence

\* New evidence about a problem is always learned, unless a rejection of that
\* problem was repeated: the lineage then hangs from an attempt that the memory
\* did not take, and nothing new about the problem is ever learned again.
EngineGoesOn ==
    \A p \in Problem, proposals \in 0 .. MaxProposals + 1 :
        LET report == Evaluations(p, proposals)
        IN IF Accepted(report) # {}
           THEN LET e == Selected(report)
                    a == Trial(p, e, IF research = <<>> THEN CHOOSE s \in Suite : TRUE
                                     ELSE Last(research).suite, "advance")
                IN e.candidate # incumbent /\ ~Known(e.candidate, a.suite) =>
                       /\ ExtendsTrajectory([baseline |-> incumbent, candidate |-> e.candidate,
                                      suite |-> a.suite, revision |-> a.revision])
                          \/ incumbent = NoValue
                       /\ Recorded(memory, a) # Refused <=> ~Repeated(p)
           ELSE Observed(report) # {} =>
                LET a == Rejection(p, proposals)
                    news == \A b \in memory.attempts : b.evidence # a.evidence
                IN Recorded(memory, a) = Refused <=> news /\ Repeated(p)

\* What the cycles returned rebuilds the memory they left, in whatever order it is
\* listed; but a receipt that repeats a rejection is refused, because it declares
\* the attempts remembered and lists the attempts made.
ReplayAgrees ==
    /\ \A attempts \in {emitted.attempts, Reverse(emitted.attempts)},
          failures \in {emitted.failures, Reverse(emitted.failures)} :
          LET m == Rebuilt(attempts, failures)
          IN /\ m # Refused /\ m.attempts = memory.attempts
             /\ {f.run : f \in m.failures} = {f.run : f \in memory.failures}
    /\ Replayed(emitted, Cardinality(memory.attempts)) = Refused <=> \E p \in Problem : Repeated(p)

\* A configuration is recommended only if it has an own, unlabelled success, and
\* every failure of it that bears on the problem was a trial that a later trial
\* outlived; a configuration is advised against only if it failed.
AdviceIsEarned ==
    \A query \in [problem : Problem, revision : 0 .. revision, transfer : BOOLEAN],
       backend \in Backends :
        LET past == {a \in Range(emitted.attempts) :
                        a.backend = backend /\ a.revision <= query.revision}
            better(a) == \E b \in past : b.status = "validated" /\ b.revision > a.revision
        IN /\ "prioritize" \in Advice(query, backend) =>
                 /\ backend # "external"
                 /\ \E a \in past : a.status = "validated"
                 /\ \A a \in past : a.status = "rejected" /\ a.problem = query.problem =>
                       a.suite # NoValue /\ better(a)
           /\ "deprioritize" \in Advice(query, backend) => \E a \in past : a.status = "rejected"

\* The engine remembers each piece of evidence once, in chains that nothing but a
\* repeated rejection breaks.
EvolutionIsSound == MemoryIsSound /\ EngineGoesOn
=============================================================================
