--------------------------- MODULE KnowledgeInquiry ---------------------------
(***************************************************************************)
(* One inquiry of the knowledge engine: the contract it starts from, the   *)
(* planner that selects the next action, the outcomes an executor can      *)
(* report, and the reducer that turns one authenticated receipt into       *)
(* exactly one successor state.                                            *)
(*                                                                         *)
(* A receipt is named by the revision it leads to.  A predicate is         *)
(* abstracted to whether the observations match it; nodes are numbered in  *)
(* the order of their names.  Planner, reducer and validator are operators *)
(* on a state, so that what the reducer builds can be compared with what   *)
(* the validator accepts.                                                  *)
(***************************************************************************)
EXTENDS Naturals, FiniteSets

CONSTANTS
    Contract,    \* the contracts proposed: plan, claim, family, limit, rank
    Node,        \* nodes of the dependency graph; the obligation derived for one has its name
    None,        \* no obligation, no parent, no reason
    MaxClaims, MaxObligations, MaxHypotheses   \* the hard caps, whatever a contract allows

Predicting == {"causal", "counterexample"}
Method == Predicting \union {"trace", "scenario", "formal", "dependency"}

\* What the types of a contract say of its fields; a derived obligation is named by a
\* digest, its claim too, and one that meets an older one of that name is an integrity error.
Typed(c) ==
    /\ DOMAIN c.claim = DOMAIN c.plan /\ DOMAIN c.plan \intersect Node = {}
    /\ IsFiniteSet(DOMAIN c.plan) /\ \A o \in DOMAIN c.claim : c.claim[o] \notin Node
    /\ \A o \in DOMAIN c.plan :
          /\ c.plan[o].method \in Method /\ c.plan[o].depth \in Nat /\ c.plan[o].maxDepth \in Nat
          /\ c.plan[o].method = "dependency" => c.plan[o].root \in Node
          /\ c.plan[o].method \notin Predicting => c.plan[o].predicts = {}
    /\ c.limit \in [{"actions", "cost", "revision", "evidence", "nodes", "edges", "depth"} -> Nat]
    /\ \A o \in (DOMAIN c.plan) \union Node : c.rank[o] \in Nat

ASSUME NodesAreNumbered == Node \subseteq Nat /\ IsFiniteSet(Node)
ASSUME NoneIsNoName == None \notin Node /\ None \notin {"depth_limit", "node_limit"}
ASSUME HardCapsAreNumbers == {MaxClaims, MaxObligations, MaxHypotheses} \subseteq Nat
ASSUME ContractsAreTyped == \A c \in Contract : Typed(c)

VARIABLES
    contract,    \* fixed by initialize
    state,       \* KnowledgeState
    reported,    \* history: the dependency edges the receipts have reported
    verdicts,    \* history: how each prediction of a hypothesis has turned out
    confirmed,   \* history: the receipts that matched their criterion
    contradicted, \* history: the receipts that contradicted it
    oversized    \* history: whether a receipt was issued whose successor exceeds a hard cap

vars == <<contract, state, reported, verdicts, confirmed, contradicted, oversized>>

MaxAttempts == 3

Cost(plan) ==
    CASE plan.method = "trace" -> 2 [] plan.method = "causal" -> 5
      [] plan.method = "counterexample" -> 4 [] plan.method = "formal" -> 8
      [] OTHER -> 3

Rivals(c, h) == {g \in DOMAIN c.family : c.family[g] = c.family[h]}

PlanInBounds(c, plan) ==
    /\ plan.method \in Predicting => Cardinality(plan.predicts) >= 2
    /\ plan.method = "dependency" =>
          /\ plan.maxDepth \in 1..c.limit.depth
          /\ plan.depth <= plan.maxDepth

\* Each plan that predicts covers one whole family of rivals; each family is predicted.
FamiliesCovered(c, plans) ==
    /\ \A h \in DOMAIN c.family :
          /\ Cardinality(Rivals(c, h)) >= 2
          /\ \E o \in DOMAIN plans : h \in plans[o].predicts
    /\ \A o \in DOMAIN plans :
          /\ plans[o].predicts \subseteq DOMAIN c.family
          /\ \A h \in plans[o].predicts : plans[o].predicts = Rivals(c, h)

Claimed(claim) == {claim[o] : o \in DOMAIN claim}

\* What contract and state alike may hold; every obligation is of one claim.
FitsHardCaps(claim, hypothesis) ==
    /\ Cardinality(Claimed(claim)) <= MaxClaims
    /\ Cardinality(DOMAIN claim) <= MaxObligations
    /\ Cardinality(DOMAIN hypothesis) <= MaxHypotheses

ValidContract(c) ==
    /\ FitsHardCaps(c.claim, c.family)
    /\ \A f \in DOMAIN c.limit : c.limit[f] > 0
    /\ DOMAIN c.plan # {}
    /\ \A o \in DOMAIN c.plan :
          /\ PlanInBounds(c, c.plan[o])
          /\ c.plan[o].method = "dependency" => c.plan[o].depth = 0
    /\ FamiliesCovered(c, c.plan)

Expansions(plans) == {o \in DOMAIN plans : plans[o].method = "dependency"}
Untried == [status |-> "open", attempts |-> 0, witnesses |-> {}, reason |-> None]
Viable == [status |-> "viable", supporting |-> {}, refuting |-> {}]

Initial(c) ==
    LET roots == {c.plan[o].root : o \in Expansions(c.plan)}
    IN [revision |-> 0, actions |-> 0, cost |-> 0, evidence |-> 0,
        plan |-> c.plan, claim |-> c.claim,
        duty |-> [o \in DOMAIN c.plan |-> Untried],
        hypothesis |-> [h \in DOMAIN c.family |-> Viable],
        depth |-> [n \in roots |-> 0], parent |-> [n \in roots |-> None],
        edges |-> {}, bounded |-> None]
-----------------------------------------------------------------------------
(* The dependency graph *)

\* Variant: only an edge to the node itself, or straight back, is taken for a cycle.
ReachableInOneStep(edges, a, b) == a = b \/ <<a, b>> \in edges

\* What the reducer asks: b is in every set of nodes that contains a and follows the edges.
Reachable(edges, a, b) ==
    \A closed \in SUBSET Node :
        (a \in closed /\ \A e \in edges : e[1] \in closed => e[2] \in closed) => b \in closed

\* What the validator asks: among any nodes there is one that none of them leads to.
Acyclic(edges) ==
    \A nodes \in (SUBSET Node) \ {{}} : \E n \in nodes : \A m \in nodes : <<m, n>> \notin edges
-----------------------------------------------------------------------------
(* Assessments *)

DutiesOf(s, claim) == {o \in DOMAIN s.claim : s.claim[o] = claim}
Contradictory(d) == d.status = "blocked" /\ d.reason = "contradiction"

Assessment(s, claim) ==
    IF \E o \in DutiesOf(s, claim) : Contradictory(s.duty[o]) THEN "contradicted"
    ELSE IF \A o \in DutiesOf(s, claim) : s.duty[o].status = "satisfied" THEN "established"
    ELSE "unresolved"

\* Variant: the last verdict wins.
JudgeByLast(h, holds, receipt) ==
    [status |-> IF holds THEN "supported" ELSE "refuted",
     supporting |-> IF holds THEN h.supporting \union {receipt} ELSE h.supporting,
     refuting |-> IF holds THEN h.refuting ELSE h.refuting \union {receipt}]

Judge(h, holds, receipt) ==
    LET verdict == IF holds THEN "supported" ELSE "refuted"
    IN [status |-> IF h.status \in {"viable", verdict} THEN verdict ELSE "conflicted",
        supporting |-> IF holds THEN h.supporting \union {receipt} ELSE h.supporting,
        refuting |-> IF holds THEN h.refuting ELSE h.refuting \union {receipt}]

FamiliesResolved(c, s) ==
    \A h \in DOMAIN s.hypothesis :
        /\ Cardinality({g \in Rivals(c, h) : s.hypothesis[g].status = "supported"}) = 1
        /\ Cardinality({g \in Rivals(c, h) : s.hypothesis[g].status = "refuted"})
              = Cardinality(Rivals(c, h)) - 1
-----------------------------------------------------------------------------
(* The planner *)

Open(s) == {o \in DOMAIN s.duty : s.duty[o].status = "open"}
AllSatisfied(s) == \A o \in DOMAIN s.duty : s.duty[o].status = "satisfied"
Blockers(s) ==
    {o \in DOMAIN s.duty : \/ s.duty[o].status = "blocked"
                           \/ \E h \in s.plan[o].predicts : s.hypothesis[h].status = "conflicted"}
OpenExpansion(s) == Open(s) \intersect Expansions(s.plan) # {}

\* Variant: completion is looked at before the reason that bounds the inquiry.
TerminalIgnoringBound(c, s) ==
    IF Blockers(s) # {} THEN "blocked"
    ELSE IF AllSatisfied(s) /\ FamiliesResolved(c, s) THEN "complete"
    ELSE IF s.actions >= c.limit.actions THEN "action_budget" ELSE "none"

\* Variant: the limit on revisions is forgotten.
TerminalWithoutRevisions(c, s) ==
    IF Blockers(s) # {} THEN "blocked"
    ELSE IF s.bounded # None THEN s.bounded
    ELSE IF AllSatisfied(s) /\ FamiliesResolved(c, s) THEN "complete"
    ELSE IF s.actions >= c.limit.actions THEN "action_budget"
    ELSE IF AllSatisfied(s) THEN "no_admissible_invocation" ELSE "none"

\* Why the inquiry has ended, "none" while it goes on: the first reason that holds.
Terminal(c, s) ==
    IF Blockers(s) # {} THEN "blocked"
    ELSE IF s.bounded # None THEN s.bounded
    ELSE IF AllSatisfied(s) /\ FamiliesResolved(c, s) THEN "complete"
    ELSE IF s.actions >= c.limit.actions THEN "action_budget"
    ELSE IF s.revision >= c.limit.revision THEN "revision_limit"
    ELSE IF s.evidence >= c.limit.evidence THEN "evidence_limit"
    ELSE IF \E o \in Open(s) : s.duty[o].attempts >= MaxAttempts THEN "attempt_limit"
    ELSE IF Cardinality(DOMAIN s.depth) >= c.limit.nodes /\ OpenExpansion(s) THEN "node_limit"
    ELSE IF Cardinality(s.edges) >= c.limit.edges /\ OpenExpansion(s) THEN "edge_limit"
    ELSE IF AllSatisfied(s) THEN "no_admissible_invocation" ELSE "none"

Affordable(c, s) == {o \in Open(s) : s.cost + Cost(s.plan[o]) <= c.limit.cost}

\* The obligation of the next invocation: the first by name that can be paid for.
Planned(c, s) ==
    IF Terminal(c, s) # "none" \/ Affordable(c, s) = {} THEN None
    ELSE CHOOSE o \in Affordable(c, s) : \A p \in Affordable(c, s) : c.rank[o] <= c.rank[p]
-----------------------------------------------------------------------------
(* The validator *)

\* The limits of the contract, and the accounting.
WithinBudget(c, s) ==
    /\ s.revision <= c.limit.revision /\ s.actions <= c.limit.actions
    /\ s.cost <= c.limit.cost /\ s.evidence <= c.limit.evidence
    /\ Cardinality(DOMAIN s.depth) <= c.limit.nodes
    /\ Cardinality(s.edges) <= c.limit.edges
    /\ s.revision = s.actions
    /\ s.revision = 0 => s = Initial(c)

WitnessesApplied(s) ==
    /\ \A o \in DOMAIN s.duty : s.duty[o].witnesses \subseteq 1..s.revision
    /\ \A h \in DOMAIN s.hypothesis :
          s.hypothesis[h].supporting \union s.hypothesis[h].refuting \subseteq 1..s.revision

PlansIndexed(c, s) ==
    /\ DOMAIN s.plan = DOMAIN s.duty /\ DOMAIN s.claim = DOMAIN s.duty
    /\ \A o \in DOMAIN s.plan : PlanInBounds(c, s.plan[o])
    /\ \A o \in Expansions(s.plan) :
          /\ s.plan[o].root \in (DOMAIN s.depth) \intersect (DOMAIN s.parent)
          /\ s.depth[s.plan[o].root] = s.plan[o].depth

GraphIndexed(c, s) ==
    /\ DOMAIN s.parent = DOMAIN s.depth
    /\ s.edges \subseteq (DOMAIN s.depth) \X (DOMAIN s.depth)
    /\ Acyclic(s.edges)
    /\ \A n \in DOMAIN s.depth :
          /\ s.depth[n] <= c.limit.depth
          /\ s.parent[n] # None =>
                /\ s.parent[n] \in DOMAIN s.depth
                /\ s.depth[n] = s.depth[s.parent[n]] + 1
                /\ <<s.parent[n], n>> \in s.edges

\* All that validate_state asks beside the hard caps.
Consistent(c, s) ==
    WithinBudget(c, s) /\ WitnessesApplied(s) /\ PlansIndexed(c, s)
        /\ FamiliesCovered(c, s.plan) /\ GraphIndexed(c, s)

ValidState(c, s) == FitsHardCaps(s.claim, s.hypothesis) /\ Consistent(c, s)
-----------------------------------------------------------------------------
(* The executor *)

Outcome(kind, holds, observed, targets) ==
    [kind |-> kind, holds |-> holds, observed |-> observed, targets |-> targets]

Observed(plan) == [plan.predicts -> BOOLEAN]

\* Evidence of a trace, a scenario or an intervention shows what was observed.
Measured(plan) == {Outcome("completed", holds, obs, {}) : holds \in BOOLEAN, obs \in Observed(plan)}

\* Variant: a search that found nothing completes and confirms its target.
SearchedInSilence(plan) == Measured(plan)

\* Evidence of a search completes it only with a counterexample of the target.
Searched(plan) == {Outcome("completed", FALSE, obs, {}) : obs \in Observed(plan)}

\* Evidence of dependencies names the targets of the root, within the edge budget.
Traversed(c, s) ==
    {Outcome("completed", TRUE, <<>>, targets) :
        targets \in {t \in SUBSET Node : Cardinality(s.edges) + Cardinality(t) <= c.limit.edges}}

\* What a registered verifier derives from evidence; none accepts a formal certificate.
Completions(c, s, o) ==
    CASE s.plan[o].method = "formal" -> {}
      [] s.plan[o].method = "counterexample" -> Searched(s.plan[o])
      [] s.plan[o].method = "dependency" -> Traversed(c, s)
      [] OTHER -> Measured(s.plan[o])

NoResult == Outcome("no_result", FALSE, <<>>, {})
Refusal == Outcome("refused", FALSE, <<>>, {})
-----------------------------------------------------------------------------
(* The reducer *)

\* The targets of an expansion that are new to the graph and find room in it.
Admitted(c, s, o, targets) ==
    LET fresh == {t \in targets \ (DOMAIN s.depth) : t # s.plan[o].root}
        child == s.plan[o].depth + 1
        room == c.limit.nodes - Cardinality(DOMAIN s.depth)
    IN IF child > s.plan[o].maxDepth \/ child > c.limit.depth THEN {}
       ELSE {t \in fresh : Cardinality({u \in fresh : u < t}) < room}

\* reduce_dependency_expansion, on a state that has counted the receipt.
Expanded(c, s, o, targets) ==
    LET root == s.plan[o].root
        cyclic == {t \in targets : Reachable(s.edges, t, root)}
        known == (targets \ cyclic) \intersect (DOMAIN s.depth)
        admitted == Admitted(c, s, o, targets \ cyclic)
        dropped == (targets \ cyclic) \ (known \union admitted)
        child == s.plan[o].depth + 1
        derived == [method |-> "dependency", root |-> 0, depth |-> child,
                    maxDepth |-> s.plan[o].maxDepth, predicts |-> {}]
        ids == (DOMAIN s.duty) \union admitted
        nodes == (DOMAIN s.depth) \union admitted
    IN [revision |-> s.revision, actions |-> s.actions, cost |-> s.cost, evidence |-> s.evidence,
        plan |-> [p \in ids |-> IF p \in admitted THEN [derived EXCEPT !.root = p] ELSE s.plan[p]],
        claim |-> [p \in ids |-> IF p \in admitted THEN p ELSE s.claim[p]],
        duty |-> [p \in ids |->
                    IF p \in admitted THEN Untried
                    ELSE IF p = o /\ cyclic # {}
                    THEN [s.duty[o] EXCEPT !.status = "blocked", !.reason = "cycle"]
                    ELSE s.duty[p]],
        hypothesis |-> s.hypothesis,
        depth |-> [n \in nodes |-> IF n \in admitted THEN child ELSE s.depth[n]],
        parent |-> [n \in nodes |-> IF n \in admitted THEN root ELSE s.parent[n]],
        edges |-> s.edges \union {<<root, t>> : t \in known \union admitted},
        bounded |-> IF dropped = {} THEN s.bounded
                    ELSE IF child > s.plan[o].maxDepth \/ child > c.limit.depth
                    THEN "depth_limit" ELSE "node_limit"]

\* Variant: an obligation without a result is not charged an attempt.
DutyAfterUncounted(d, out, receipt) ==
    [status |-> CASE out.kind = "completed" /\ out.holds -> "satisfied"
                  [] out.kind = "no_result" -> "open" [] OTHER -> "blocked",
     attempts |-> IF out.kind = "no_result" THEN d.attempts ELSE d.attempts + 1,
     witnesses |-> d.witnesses \union {receipt},
     reason |-> CASE out.kind = "refused" -> "executor"
                  [] out.kind = "completed" /\ ~out.holds -> "contradiction" [] OTHER -> None]

\* Variant: an obligation that runs out of attempts gets a status of its own.
DutyAfterExhausted(d, out, receipt) ==
    [status |-> CASE out.kind = "completed" /\ out.holds -> "satisfied"
                  [] out.kind = "no_result" ->
                       IF d.attempts + 1 = MaxAttempts THEN "exhausted" ELSE "open"
                  [] OTHER -> "blocked",
     attempts |-> d.attempts + 1,
     witnesses |-> d.witnesses \union {receipt},
     reason |-> CASE out.kind = "refused" -> "executor"
                  [] out.kind = "completed" /\ ~out.holds -> "contradiction" [] OTHER -> None]

DutyAfter(d, out, receipt) ==
    [status |-> CASE out.kind = "completed" /\ out.holds -> "satisfied"
                  [] out.kind = "no_result" -> "open" [] OTHER -> "blocked",
     attempts |-> d.attempts + 1,
     witnesses |-> d.witnesses \union {receipt},
     reason |-> CASE out.kind = "refused" -> "executor"
                  [] out.kind = "completed" /\ ~out.holds -> "contradiction" [] OTHER -> None]

\* What every receipt changes: the usage, its obligation, the hypotheses it bears on.
Counted(s, o, out) ==
    LET receipt == s.revision + 1
    IN [s EXCEPT
            !.revision = receipt, !.actions = s.actions + 1,
            !.cost = s.cost + Cost(s.plan[o]), !.evidence = s.evidence + 1,
            !.duty = [s.duty EXCEPT ![o] = DutyAfter(s.duty[o], out, receipt)],
            !.hypothesis = [h \in DOMAIN s.hypothesis |->
                IF h \in DOMAIN out.observed
                THEN Judge(s.hypothesis[h], out.observed[h], receipt) ELSE s.hypothesis[h]]]

\* The reduction of advance: the one state that a receipt of obligation o leads to.
Reduce(c, s, o, out) ==
    IF o \in Expansions(s.plan) /\ out.kind = "completed"
    THEN Expanded(c, Counted(s, o, out), o, out.targets) ELSE Counted(s, o, out)

\* A successor that the validator refuses is an error, and the inquiry stays where it is.
Successor(c, s, o, out) == {next \in {Reduce(c, s, o, out)} : ValidState(c, next)}
-----------------------------------------------------------------------------
Init ==
    /\ contract \in {c \in Contract : ValidContract(c)}
    /\ state = Initial(contract) /\ ValidState(contract, state)
    /\ reported = {}
    /\ verdicts = [h \in DOMAIN contract.family |-> {}]
    /\ confirmed = {} /\ contradicted = {} /\ oversized = FALSE

\* execute, issue_action_receipt and advance for one outcome.
Advance(out) ==
    \E o \in {Planned(contract, state)} : \E next \in Successor(contract, state, o, out) :
        /\ state' = next
        /\ reported' = reported \union {<<state.plan[o].root, t>> : t \in out.targets}
        /\ verdicts' = [h \in DOMAIN verdicts |->
               IF h \in DOMAIN out.observed THEN verdicts[h] \union {out.observed[h]} ELSE verdicts[h]]
        /\ confirmed' = IF out.kind = "completed" /\ out.holds
                        THEN confirmed \union {next.revision} ELSE confirmed
        /\ contradicted' = IF out.kind = "completed" /\ ~out.holds
                           THEN contradicted \union {next.revision} ELSE contradicted
        /\ UNCHANGED <<contract, oversized>>

Running == Planned(contract, state) # None

Complete ==
    /\ Running
    /\ \E out \in Completions(contract, state, Planned(contract, state)) : Advance(out)

\* The executor reports that it found nothing within its bounds.
GiveUp ==
    /\ Running
    /\ state.plan[Planned(contract, state)].method # "formal"
    /\ Advance(NoResult)

\* The executor reports that it cannot run.
Block == Running /\ Advance(Refusal)

\* A receipt is issued for evidence whose nodes the hard caps leave no room for: the
\* reducer inserts them all, advance fails, and the inquiry stays at its revision.
Overflow ==
    /\ Running
    /\ \E out \in Completions(contract, state, Planned(contract, state)) :
          LET next == Reduce(contract, state, Planned(contract, state), out)
          IN ~FitsHardCaps(next.claim, next.hypothesis)
    /\ oversized' = TRUE
    /\ UNCHANGED <<contract, state, reported, verdicts, confirmed, contradicted>>

Next == Complete \/ GiveUp \/ Block \/ Overflow

Spec == Init /\ [][Next]_vars

\* Whoever drives the inquiry asks for the next action as long as there is one.
FairSpec == Spec /\ WF_vars(Next)
-----------------------------------------------------------------------------
(* Types: statuses, and a finite graph over the nodes. *)
TypeOK ==
    /\ contract \in Contract
    /\ state.bounded \in {None, "depth_limit", "node_limit"}
    /\ \A o \in DOMAIN state.duty : state.duty[o].status \in {"open", "satisfied", "blocked"}
    /\ \A h \in DOMAIN state.hypothesis :
          state.hypothesis[h].status \in {"viable", "supported", "refuted", "conflicted"}
    /\ state.edges \subseteq Node \X Node /\ state.edges \subseteq reported
    /\ confirmed \union contradicted \subseteq 1..state.revision
    /\ oversized \in BOOLEAN

\* The caps leave room for an obligation and a claim for every node the contract allows.
Roomy(c) ==
    /\ Cardinality(Claimed(c.claim)) + c.limit.nodes <= MaxClaims
    /\ Cardinality(DOMAIN c.plan) + c.limit.nodes <= MaxObligations

(* Whatever the verifiers let an executor report for the planned action,   *)
(* the state the reducer builds from it passes validate_state, so that the *)
(* receipt can be applied; but for the nodes of an expansion that take the *)
(* claims or obligations over a hard cap, which the reducer does not look  *)
(* at, and which happens only to a contract without room for its nodes.    *)
ReducerOutputIsValid ==
    Running =>
        LET o == Planned(contract, state)
            silent == IF state.plan[o].method = "formal" THEN {Refusal} ELSE {Refusal, NoResult}
        IN \A out \in Completions(contract, state, o) \union silent :
              LET next == Reduce(contract, state, o, out)
              IN \/ ValidState(contract, next)
                 \/ /\ o \in Expansions(state.plan) /\ out.kind = "completed"
                    /\ ~FitsHardCaps(next.claim, next.hypothesis) /\ ~Roomy(contract)

(* Each receipt that was applied is a witness of exactly one obligation,   *)
(* an obligation has been attempted as often as it has witnesses, and      *)
(* never more than the policy allows.                                      *)
EachReceiptCountsOnce ==
    /\ \A r \in 1..state.revision : Cardinality({o \in DOMAIN state.duty : r \in state.duty[o].witnesses}) = 1
    /\ \A o \in DOMAIN state.duty :
          /\ state.duty[o].attempts = Cardinality(state.duty[o].witnesses)
          /\ state.duty[o].attempts <= MaxAttempts

(* An edge that evidence reported and the reducer could not record, since  *)
(* it closes a cycle or exceeds a limit, ends the inquiry, and not as      *)
(* complete: the planner never goes on with a graph that misses a part.    *)
DroppedEdgeEnds == reported # state.edges => Terminal(contract, state) \notin {"none", "complete"}

(* An inquiry that ends as complete has recorded every reported edge, and  *)
(* has expanded every node it has heard of.                                *)
CompleteMeansClosed ==
    Terminal(contract, state) = "complete" =>
        /\ state.edges = reported
        /\ \A e \in reported : \E o \in Expansions(state.plan) :
              state.plan[o].root = e[2] /\ state.duty[o].witnesses \intersect confirmed # {}

(* A claim is established by observations that matched the criterion of    *)
(* each of its obligations, never by a failed search, an unchecked         *)
(* certificate or an executor that gave up.                                *)
NoClaimFromSilence ==
    \A claim \in Claimed(state.claim) : Assessment(state, claim) = "established" =>
        \A o \in DutiesOf(state, claim) :
            /\ state.duty[o].witnesses \intersect confirmed # {}
            /\ state.duty[o].witnesses \intersect contradicted = {}
            /\ state.plan[o].method \notin {"counterexample", "formal"}

(* The assessment of a hypothesis depends on the verdicts alone and not on *)
(* the order in which they came in.                                        *)
JudgementIsOrderFree ==
    \A h \in DOMAIN verdicts :
        state.hypothesis[h].status =
            CASE verdicts[h] = {} -> "viable" [] verdicts[h] = {TRUE} -> "supported"
              [] verdicts[h] = {FALSE} -> "refuted" [] OTHER -> "conflicted"

(* Every inquiry that is driven on ends, unless it is given evidence too    *)
(* large for the hard caps, which a repeated execution would give again.   *)
InquiryEnds == <>(Planned(contract, state) = None \/ oversized)

(* Each successor an advance can build is a state that loads and advances,  *)
(* or exceeds a hard cap; in each state every receipt counts once.          *)
InquiryIsSound == TypeOK /\ EachReceiptCountsOnce /\ ReducerOutputIsValid

(* An inquiry does not end as complete over a part that was dropped.        *)
CompletionIsHonest == DroppedEdgeEnds /\ CompleteMeansClosed

(* Claims and hypotheses follow the verdicts, all of them, in any order.    *)
AssessmentsAreEarned == NoClaimFromSilence /\ JudgementIsOrderFree
=============================================================================
