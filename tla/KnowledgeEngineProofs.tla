------------------------ MODULE KnowledgeEngineProofs ------------------------
(***************************************************************************)
(* What the runs check of the knowledge engine.  Of an inquiry, for every  *)
(* set of contracts, every finite set of nodes and any hard caps; the      *)
(* heart is one fact about the reducer: what it builds from a sound state, *)
(* the validator accepts, unless an expansion outgrows a hard cap, and it  *)
(* cannot outgrow one that leaves room for the nodes of the contract.  Of  *)
(* its canonical head, for any number of callers, any genesis and          *)
(* receipts, and lineages of any bounded length.  Of the residence decided *)
(* from an inquiry, for every history of claims, every target and every    *)
(* matrix of facts.                                                        *)
(***************************************************************************)
EXTENDS KnowledgeInquiry, KnowledgeHead, ResidencyDecision, FiniteSetTheorems,
        SequenceTheorems, WellFoundedInduction, TLAPS

-----------------------------------------------------------------------------
(* Finite sets and graphs *)

\* Among things that carry numbers there is one with the least.
LEMMA LeastExists ==
    ASSUME NEW S, S # {}, NEW rank, \A x \in S : rank[x] \in Nat
    PROVE  \E x \in S : \A y \in S : rank[x] <= rank[y]
  <1> DEFINE T == {rank[x] : x \in S}
  <1>1. T \subseteq Nat /\ T # {}
    OBVIOUS
  <1>2. \E m \in T : \A n \in T : ~(<<n, m>> \in OpToRel(<, Nat))
    BY <1>1, NatLessThanWellFounded, WFMin
  <1>3. PICK m \in T : \A n \in T : ~(<<n, m>> \in OpToRel(<, Nat))
    BY <1>2
  <1>4. \A n \in T : m <= n
    <2> SUFFICES ASSUME NEW n \in T PROVE m <= n
      OBVIOUS
    <2>1. <<n, m>> \in Nat \X Nat /\ <<n, m>>[1] = n /\ <<n, m>>[2] = m
      BY <1>1
    <2>2. ~(n < m)
      BY <1>3, <2>1 DEF OpToRel
    <2> QED BY <1>1, <2>2
  <1> QED BY <1>4

\* Of numbered things, those with fewer than room before them fit into the room.
LEMMA FirstFit ==
    ASSUME NEW fresh \in SUBSET Nat, IsFiniteSet(fresh), NEW room \in Nat
    PROVE  Cardinality({t \in fresh : Cardinality({u \in fresh : u < t}) < room}) <= room
  <1> DEFINE Below(t) == {u \in fresh : u < t}
             first == {t \in fresh : Cardinality(Below(t)) < room}
             place == [t \in first |-> Cardinality(Below(t))]
  <1>1. \A t \in fresh : IsFiniteSet(Below(t)) /\ Cardinality(Below(t)) \in Nat
    BY FS_Subset, FS_CardinalityType
  <1>2. \A t, u \in fresh : t < u => Cardinality(Below(t)) # Cardinality(Below(u))
    <2> SUFFICES ASSUME NEW t \in fresh, NEW u \in fresh, t < u
                 PROVE  Cardinality(Below(t)) # Cardinality(Below(u))
      OBVIOUS
    <2>0. t \in Nat /\ u \in Nat /\ ~(t < t) /\ \A x \in Nat : x < t => x < u
      OBVIOUS
    <2>1. Below(t) \in SUBSET Below(u) /\ t \in Below(u) /\ t \notin Below(t)
      BY <2>0
    <2>2. Cardinality(Below(u)) = Cardinality(Below(t)) => Below(u) = Below(t)
      BY <1>1, <2>1, FS_Subset
    <2> QED BY <2>1, <2>2
  <1>3. place \in Injection(first, 0 .. room - 1)
    <2>1. \A t \in first : Cardinality(Below(t)) \in 0 .. room - 1
      <3> SUFFICES ASSUME NEW t \in first PROVE Cardinality(Below(t)) \in 0 .. room - 1
        OBVIOUS
      <3>1. Cardinality(Below(t)) \in Nat /\ Cardinality(Below(t)) < room
        BY <1>1
      <3> HIDE DEF Below
      <3> QED BY <3>1
    <2>2. \A t, u \in first : place[t] = place[u] => t = u
      BY <1>2
    <2>3. place \in [first -> 0 .. room - 1]
      <3> HIDE DEF Below, first
      <3> QED BY <2>1
    <2> QED BY <2>2, <2>3 DEF Injection, IsInjective
  <1>4. IsFiniteSet(0 .. room - 1) /\ Cardinality(0 .. room - 1) = room
    BY FS_Interval
  <1>5. Cardinality(first) <= Cardinality(0 .. room - 1)
    BY <1>3, <1>4, FS_Injection
  <1> QED BY <1>4, <1>5

\* As many edges are added as targets are named, or fewer.
LEMMA EdgesAdded ==
    ASSUME NEW edges, IsFiniteSet(edges), NEW root, NEW targets, IsFiniteSet(targets),
           NEW kept \in SUBSET targets
    PROVE  LET added == edges \union {<<root, t>> : t \in kept}
           IN  /\ IsFiniteSet(added) /\ Cardinality(added) \in Nat
               /\ Cardinality(added) <= Cardinality(edges) + Cardinality(targets)
  <1> DEFINE new == {<<root, t>> : t \in kept}
             to == [t \in kept |-> <<root, t>>]
  <1>1. IsFiniteSet(kept) /\ Cardinality(kept) <= Cardinality(targets)
        /\ Cardinality(kept) \in Nat /\ Cardinality(targets) \in Nat
        /\ Cardinality(edges) \in Nat
    BY FS_Subset, FS_CardinalityType
  <1>2. to \in Surjection(kept, new)
    BY DEF Surjection
  <1>3. IsFiniteSet(new) /\ Cardinality(new) <= Cardinality(kept) /\ Cardinality(new) \in Nat
    BY <1>1, <1>2, FS_Surjection, FS_CardinalityType
  <1>4. IsFiniteSet(edges \intersect new) /\ Cardinality(edges \intersect new) \in Nat
    BY FS_Intersection, FS_CardinalityType
  <1>5. IsFiniteSet(edges \union new)
        /\ Cardinality(edges \union new)
             = Cardinality(edges) + Cardinality(new) - Cardinality(edges \intersect new)
    BY <1>3, FS_Union
  <1>6. Cardinality(edges \union new) \in Nat
    BY <1>5, FS_CardinalityType
  <1> QED BY <1>1, <1>3, <1>4, <1>5, <1>6

\* A node reached is a node from which the walk goes on.
LEMMA ReachableFurther ==
    ASSUME NEW edges, NEW a, NEW m, NEW n, Reachable(edges, a, m), <<m, n>> \in edges
    PROVE  Reachable(edges, a, n)
  BY DEF Reachable

LEMMA ReachableHere ==
    ASSUME NEW edges, NEW a
    PROVE  Reachable(edges, a, a)
  BY DEF Reachable

\* What the reducer asks of each target is what keeps the graph as the validator wants it.
LEMMA StaysAcyclic ==
    ASSUME NEW edges, Acyclic(edges), NEW root, NEW new,
           \A t \in new : ~Reachable(edges, t, root)
    PROVE  Acyclic(edges \union {<<root, t>> : t \in new})
  <1> DEFINE grown == edges \union {<<root, t>> : t \in new}
  <1> SUFFICES ASSUME NEW nodes \in (SUBSET Node) \ {{}},
                      \A n \in nodes : \E m \in nodes : <<m, n>> \in grown
               PROVE  FALSE
    BY DEF Acyclic
  <1> DEFINE reached == {n \in nodes : \E t \in new : Reachable(edges, t, n)}
             rest == nodes \ reached
  <1>1. \A n \in rest : \E m \in rest : <<m, n>> \in edges
    <2> SUFFICES ASSUME NEW n \in rest PROVE \E m \in rest : <<m, n>> \in edges
      OBVIOUS
    <2>1. n \notin new
      BY ReachableHere
    <2>2. PICK m \in nodes : <<m, n>> \in grown
      OBVIOUS
    <2>3. <<m, n>> \in edges
      BY <2>1, <2>2
    <2>4. m \notin reached
      BY <2>3, ReachableFurther
    <2> QED BY <2>3, <2>4
  <1>2. rest = {}
    <2> SUFFICES ASSUME rest # {} PROVE FALSE
      OBVIOUS
    <2>1. rest \in (SUBSET Node) \ {{}}
      OBVIOUS
    <2>2. PICK n \in rest : \A m \in rest : <<m, n>> \notin edges
      BY <2>1 DEF Acyclic
    <2> QED BY <1>1, <2>2
  <1>3. root \notin nodes
    BY <1>2
  <1>4. \A n \in nodes : \E m \in nodes : <<m, n>> \in edges
    BY <1>3
  <1> QED BY <1>4 DEF Acyclic

-----------------------------------------------------------------------------
(* The inductive invariant: of the state alone, then of its history *)

\* The fields of a state, and what their values are taken from.
Shape(c, s) ==
    /\ s = [revision |-> s.revision, actions |-> s.actions, cost |-> s.cost,
            evidence |-> s.evidence, plan |-> s.plan, claim |-> s.claim, duty |-> s.duty,
            hypothesis |-> s.hypothesis, depth |-> s.depth, parent |-> s.parent,
            edges |-> s.edges, bounded |-> s.bounded]
    /\ s.revision \in Nat /\ s.cost \in Nat /\ s.evidence \in Nat
    /\ s.bounded \in {None, "depth_limit", "node_limit"}
    /\ DOMAIN s.depth \subseteq Node /\ \A n \in DOMAIN s.depth : s.depth[n] \in Nat
    /\ DOMAIN s.hypothesis = DOMAIN c.family
    /\ \A h \in DOMAIN s.hypothesis :
          s.hypothesis[h].status \in {"viable", "supported", "refuted", "conflicted"}

\* An obligation is one of the contract or is named by a node of the graph; so is its claim.
DutiesAreKnown(c, s) ==
    /\ DOMAIN s.duty \subseteq (DOMAIN c.plan) \union (DOMAIN s.depth)
    /\ \A o \in DOMAIN s.claim : s.claim[o] \in Claimed(c.claim) \union (DOMAIN s.depth)
    /\ \A o \in Expansions(s.plan) :
          /\ s.plan[o].root \in Node /\ s.plan[o].predicts = {}
          /\ s.plan[o].depth \in Nat /\ s.plan[o].maxDepth \in Nat

\* Every node of the graph has an obligation to expand it.
NodesAreCovered(s) == \A n \in DOMAIN s.depth : \E o \in Expansions(s.plan) : s.plan[o].root = n

\* The witnesses of the obligations share the receipts out among them.
ReceiptsAreShared(s) ==
    /\ \A o \in DOMAIN s.duty :
          /\ s.duty[o].status \in {"open", "satisfied", "blocked"}
          /\ s.duty[o].attempts = Cardinality(s.duty[o].witnesses)
          /\ s.duty[o].attempts <= MaxAttempts
    /\ \A r \in 1 .. s.revision : \E o \in DOMAIN s.duty : r \in s.duty[o].witnesses
    /\ \A o, d \in DOMAIN s.duty :
          o # d => s.duty[o].witnesses \intersect s.duty[d].witnesses = {}

Sound(c, s) ==
    /\ Shape(c, s) /\ DutiesAreKnown(c, s) /\ NodesAreCovered(s) /\ ReceiptsAreShared(s)
    /\ Consistent(c, s)

\* A reported edge is in the graph, unless something says that the inquiry has ended.
EdgesAreRemembered ==
    /\ state.edges \subseteq reported
    /\ reported # state.edges =>
          \/ state.bounded # None
          \/ \E o \in DOMAIN state.duty : state.duty[o].status = "blocked"

\* An obligation is satisfied by a receipt that matched; one that contradicts it blocks it.
SatisfactionIsEarned ==
    /\ confirmed \union contradicted \subseteq 1 .. state.revision
    /\ \A o \in DOMAIN state.duty :
          /\ state.duty[o].status = "satisfied" =>
                /\ state.duty[o].witnesses \intersect confirmed # {}
                /\ state.plan[o].method \notin {"counterexample", "formal"}
          /\ state.duty[o].status # "blocked" =>
                state.duty[o].witnesses \intersect contradicted = {}

VerdictsAreCounted ==
    /\ DOMAIN verdicts = DOMAIN contract.family
    /\ \A h \in DOMAIN verdicts : verdicts[h] \subseteq BOOLEAN
    /\ JudgementIsOrderFree

IInv ==
    /\ contract \in Contract /\ Sound(contract, state)
    /\ FitsHardCaps(state.claim, state.hypothesis) /\ oversized \in BOOLEAN
    /\ EdgesAreRemembered /\ SatisfactionIsEarned /\ VerdictsAreCounted
-----------------------------------------------------------------------------
(* The planner *)

\* What the planner has made sure of when it goes on.
LEMMA GoesOn ==
    ASSUME NEW c, NEW s, Terminal(c, s) = "none", Shape(c, s)
    PROVE  /\ Blockers(s) = {} /\ s.bounded = None
           /\ ~(s.actions >= c.limit.actions) /\ ~(s.revision >= c.limit.revision)
           /\ ~(s.evidence >= c.limit.evidence)
           /\ \A o \in Open(s) : ~(s.duty[o].attempts >= MaxAttempts)
  <1>1. Blockers(s) = {}
    BY DEF Terminal
  <1>2. s.bounded = None
    BY <1>1 DEF Terminal, Shape
  <1>3. ~(AllSatisfied(s) /\ FamiliesResolved(c, s))
    BY <1>1, <1>2 DEF Terminal
  <1>4. ~(s.actions >= c.limit.actions)
    BY <1>1, <1>2, <1>3 DEF Terminal
  <1>5. ~(s.revision >= c.limit.revision)
    BY <1>1, <1>2, <1>3, <1>4 DEF Terminal
  <1>6. ~(s.evidence >= c.limit.evidence)
    BY <1>1, <1>2, <1>3, <1>4, <1>5 DEF Terminal
  <1>7. ~(\E o \in Open(s) : s.duty[o].attempts >= MaxAttempts)
    BY <1>1, <1>2, <1>3, <1>4, <1>5, <1>6 DEF Terminal
  <1> QED BY <1>1, <1>2, <1>4, <1>5, <1>6, <1>7

\* The planned obligation is open and can be paid for.
LEMMA PlannedIsAffordable ==
    ASSUME NEW c \in Contract, NEW s, Sound(c, s), Planned(c, s) # None
    PROVE  Planned(c, s) \in Affordable(c, s) /\ Terminal(c, s) = "none"
  <1> DEFINE A == Affordable(c, s)
  <1>1. Terminal(c, s) = "none" /\ A # {}
        /\ Planned(c, s) = CHOOSE o \in A : \A p \in A : c.rank[o] <= c.rank[p]
    BY DEF Planned
  <1>2. \A o \in A : c.rank[o] \in Nat
    <2>1. DOMAIN s.duty \subseteq (DOMAIN c.plan) \union Node
      BY DEF Sound, Shape, DutiesAreKnown
    <2> QED BY <2>1, ContractsAreTyped DEF Typed, Affordable, Open
  <1> HIDE DEF A
  <1>3. \E o \in A : \A p \in A : c.rank[o] <= c.rank[p]
    BY <1>1, <1>2, LeastExists
  <1>4. Planned(c, s) \in A
    BY <1>1, <1>3
  <1> QED BY <1>1, <1>4 DEF A

-----------------------------------------------------------------------------
(* The outcomes an executor can report *)

\* What the verifiers let through, as far as the reducer depends on it.
Reportable(c, s, o, out) ==
    /\ out.kind \in {"completed", "no_result", "refused"} /\ out.holds \in BOOLEAN
    /\ \A h \in DOMAIN out.observed : out.observed[h] \in BOOLEAN
    /\ out.targets \subseteq Node
    /\ out.kind = "completed" /\ out.holds => s.plan[o].method \notin {"counterexample", "formal"}
    /\ IF out.kind = "completed" /\ s.plan[o].method = "dependency"
       THEN out.holds /\ Cardinality(s.edges) + Cardinality(out.targets) <= c.limit.edges
       ELSE out.targets = {}

LEMMA CompletionsAreReportable ==
    ASSUME NEW c, NEW s, NEW o, NEW out \in Completions(c, s, o)
    PROVE  Reportable(c, s, o, out) /\ out.kind = "completed"
  <1> DEFINE plan == s.plan[o]
  <1>1. CASE plan.method = "formal"
    BY <1>1 DEF Completions
  <1>2. CASE plan.method = "counterexample"
    <2>1. PICK obs \in Observed(plan) : out = Outcome("completed", FALSE, obs, {})
      BY <1>2 DEF Completions, Searched
    <2> QED BY <1>2, <2>1 DEF Outcome, Observed, Reportable
  <1>3. CASE plan.method = "dependency"
    <2>1. PICK t \in SUBSET Node : /\ out = Outcome("completed", TRUE, <<>>, t)
                                   /\ Cardinality(s.edges) + Cardinality(t) <= c.limit.edges
      BY <1>3 DEF Completions, Traversed
    <2>2. DOMAIN out.observed = {}
      BY <2>1 DEF Outcome
    <2> QED BY <1>3, <2>1, <2>2 DEF Outcome, Reportable
  <1>4. CASE plan.method \notin {"formal", "counterexample", "dependency"}
    <2>1. PICK holds \in BOOLEAN, obs \in Observed(plan) :
             out = Outcome("completed", holds, obs, {})
      BY <1>4 DEF Completions, Measured
    <2> QED BY <1>4, <2>1 DEF Outcome, Observed, Reportable
  <1> QED BY <1>1, <1>2, <1>3, <1>4

LEMMA SilenceIsReportable ==
    ASSUME NEW c, NEW s, NEW o, NEW out \in {NoResult, Refusal}
    PROVE  Reportable(c, s, o, out) /\ out.kind # "completed"
  <1>1. out.observed = <<>> /\ out.targets = {} /\ out.holds = FALSE
        /\ out.kind \in {"no_result", "refused"}
    BY DEF NoResult, Refusal, Outcome
  <1>2. DOMAIN out.observed = {}
    BY <1>1
  <1> QED BY <1>1, <1>2 DEF Reportable
-----------------------------------------------------------------------------
(* The reducer: what every receipt changes *)

\* The state that counts a receipt of obligation o, field by field.
IsCounted(k, s, o, out) ==
    LET receipt == s.revision + 1
    IN
    /\ k.revision = receipt /\ k.actions = s.actions + 1
    /\ k.cost = s.cost + Cost(s.plan[o]) /\ k.evidence = s.evidence + 1
    /\ k.plan = s.plan /\ k.claim = s.claim
    /\ k.depth = s.depth /\ k.parent = s.parent
    /\ k.edges = s.edges /\ k.bounded = s.bounded
    /\ k.duty = [p \in DOMAIN s.duty |->
                   IF p = o THEN DutyAfter(s.duty[o], out, receipt) ELSE s.duty[p]]
    /\ k.hypothesis = [h \in DOMAIN s.hypothesis |->
         IF h \in DOMAIN out.observed
         THEN Judge(s.hypothesis[h], out.observed[h], receipt) ELSE s.hypothesis[h]]
    /\ k = [revision |-> k.revision, actions |-> k.actions, cost |-> k.cost,
            evidence |-> k.evidence, plan |-> k.plan, claim |-> k.claim,
            duty |-> k.duty, hypothesis |-> k.hypothesis, depth |-> k.depth,
            parent |-> k.parent, edges |-> k.edges, bounded |-> k.bounded]

LEMMA CountedFields ==
    ASSUME NEW c, NEW s, Shape(c, s), NEW o \in DOMAIN s.duty, NEW out
    PROVE  IsCounted(Counted(s, o, out), s, o, out)
  <1> DEFINE receipt == s.revision + 1
             duty == [s.duty EXCEPT ![o] = DutyAfter(s.duty[o], out, receipt)]
             hypothesis == [h \in DOMAIN s.hypothesis |->
                    IF h \in DOMAIN out.observed
                    THEN Judge(s.hypothesis[h], out.observed[h], receipt) ELSE s.hypothesis[h]]
             charged == s.cost + Cost(s.plan[o])
  <1>1. duty = [p \in DOMAIN s.duty |->
                  IF p = o THEN DutyAfter(s.duty[o], out, receipt) ELSE s.duty[p]]
    OBVIOUS
  <1>2. Counted(s, o, out) = [s EXCEPT !.revision = receipt, !.actions = s.actions + 1,
            !.cost = charged, !.evidence = s.evidence + 1, !.duty = duty,
            !.hypothesis = hypothesis]
    BY DEF Counted
  <1> HIDE DEF duty, hypothesis, charged, receipt
  <1>3. Counted(s, o, out) =
           [revision |-> receipt, actions |-> s.actions + 1, cost |-> charged,
            evidence |-> s.evidence + 1, plan |-> s.plan, claim |-> s.claim, duty |-> duty,
            hypothesis |-> hypothesis, depth |-> s.depth, parent |-> s.parent,
            edges |-> s.edges, bounded |-> s.bounded]
    BY <1>2 DEF Shape
  <1> QED BY <1>1, <1>3 DEF hypothesis, charged, receipt, IsCounted

\* The verdict is one of the statuses, and the receipt joins the ones it rests on.
LEMMA JudgeResult ==
    ASSUME NEW h, NEW holds \in BOOLEAN, NEW receipt
    PROVE  LET j == Judge(h, holds, receipt)
           IN  /\ j.status \in {"supported", "refuted", "conflicted"}
               /\ j.status = IF h.status \in {"viable", IF holds THEN "supported" ELSE "refuted"}
                             THEN IF holds THEN "supported" ELSE "refuted" ELSE "conflicted"
               /\ j.supporting \subseteq h.supporting \union {receipt}
               /\ j.refuting \subseteq h.refuting \union {receipt}
  BY DEF Judge

LEMMA DutyAfterResult ==
    ASSUME NEW d, NEW out, NEW receipt
    PROVE  LET after == DutyAfter(d, out, receipt)
           IN  /\ after.status \in {"open", "satisfied", "blocked"}
               /\ after.status = "satisfied" => out.kind = "completed" /\ out.holds
               /\ out.kind = "completed" /\ ~out.holds => after.status = "blocked"
               /\ out.kind = "completed" /\ out.holds => after.status = "satisfied"
               /\ after.attempts = d.attempts + 1
               /\ after.witnesses = d.witnesses \union {receipt}
  BY DEF DutyAfter
LEMMA CostIsNatural ==
    ASSUME NEW plan
    PROVE  Cost(plan) \in Nat
  BY DEF Cost

\* A receipt of the planned obligation, counted: what else it changes is still to come.
LEMMA CountedIsSound ==
    ASSUME NEW c \in Contract, NEW s, Sound(c, s), Planned(c, s) # None,
           NEW out, Reportable(c, s, Planned(c, s), out)
    PROVE  Sound(c, Counted(s, Planned(c, s), out))
  <1> DEFINE o == Planned(c, s)
             k == Counted(s, o, out)
             receipt == s.revision + 1
  <1>1. Shape(c, s) /\ DutiesAreKnown(c, s) /\ NodesAreCovered(s) /\ ReceiptsAreShared(s)
        /\ WithinBudget(c, s) /\ WitnessesApplied(s) /\ PlansIndexed(c, s)
        /\ FamiliesCovered(c, s.plan) /\ GraphIndexed(c, s)
    BY DEF Sound, Consistent
  <1>2. o \in Affordable(c, s) /\ Terminal(c, s) = "none"
    BY PlannedIsAffordable
  <1>3. o \in DOMAIN s.duty /\ s.duty[o].status = "open"
        /\ s.cost + Cost(s.plan[o]) <= c.limit.cost
    BY <1>2 DEF Affordable, Open
  <1>4. s.revision \in Nat /\ s.cost \in Nat /\ s.evidence \in Nat /\ s.actions = s.revision
        /\ c.limit.revision \in Nat /\ c.limit.actions \in Nat /\ c.limit.evidence \in Nat
        /\ c.limit.cost \in Nat /\ Cost(s.plan[o]) \in Nat
    <2>1. s.revision \in Nat /\ s.cost \in Nat /\ s.evidence \in Nat
      BY <1>1 DEF Shape
    <2>2. s.actions = s.revision
      BY <1>1 DEF WithinBudget
    <2>3. c.limit.revision \in Nat /\ c.limit.actions \in Nat /\ c.limit.evidence \in Nat
          /\ c.limit.cost \in Nat
      BY ContractsAreTyped DEF Typed
    <2> QED BY <2>1, <2>2, <2>3, CostIsNatural
  <1>5. s.bounded = None
        /\ ~(s.actions >= c.limit.actions) /\ ~(s.revision >= c.limit.revision)
        /\ ~(s.evidence >= c.limit.evidence) /\ ~(s.duty[o].attempts >= MaxAttempts)
    BY <1>1, <1>2, <1>3, GoesOn DEF Open
  <1>6. /\ k.revision = receipt /\ k.actions = s.actions + 1
        /\ k.cost = s.cost + Cost(s.plan[o]) /\ k.evidence = s.evidence + 1
        /\ k.plan = s.plan /\ k.claim = s.claim
        /\ k.depth = s.depth /\ k.parent = s.parent
        /\ k.edges = s.edges /\ k.bounded = s.bounded
        /\ k.duty = [p \in DOMAIN s.duty |->
                       IF p = o THEN DutyAfter(s.duty[o], out, receipt) ELSE s.duty[p]]
        /\ k.hypothesis = [h \in DOMAIN s.hypothesis |->
             IF h \in DOMAIN out.observed
             THEN Judge(s.hypothesis[h], out.observed[h], receipt) ELSE s.hypothesis[h]]
        /\ k = [revision |-> k.revision, actions |-> k.actions, cost |-> k.cost,
                evidence |-> k.evidence, plan |-> k.plan, claim |-> k.claim,
                duty |-> k.duty, hypothesis |-> k.hypothesis, depth |-> k.depth,
                parent |-> k.parent, edges |-> k.edges, bounded |-> k.bounded]
    <2>1. IsCounted(k, s, o, out)
      BY <1>1, <1>3, CountedFields
    <2> HIDE DEF k
    <2> QED BY <2>1 DEF IsCounted
  <1>7. \A h \in DOMAIN s.hypothesis :
           LET j == Judge(s.hypothesis[h], out.observed[h], receipt)
           IN  h \in DOMAIN out.observed =>
                  /\ j.status \in {"supported", "refuted", "conflicted"}
                  /\ j.supporting \subseteq s.hypothesis[h].supporting \union {receipt}
                  /\ j.refuting \subseteq s.hypothesis[h].refuting \union {receipt}
    BY JudgeResult DEF Reportable
  <1>8. LET d == DutyAfter(s.duty[o], out, receipt)
        IN  /\ d.status \in {"open", "satisfied", "blocked"}
            /\ d.attempts = s.duty[o].attempts + 1
            /\ d.witnesses = s.duty[o].witnesses \union {receipt}
    BY DutyAfterResult
  <1>9. DOMAIN k.duty = DOMAIN s.duty /\ DOMAIN k.hypothesis = DOMAIN s.hypothesis
        /\ (\A p \in DOMAIN s.duty : p # o => k.duty[p] = s.duty[p])
        /\ k.duty[o] = DutyAfter(s.duty[o], out, receipt)
        /\ \A h \in DOMAIN s.hypothesis : k.hypothesis[h] =
              IF h \in DOMAIN out.observed
              THEN Judge(s.hypothesis[h], out.observed[h], receipt) ELSE s.hypothesis[h]
    BY <1>3, <1>6
  <1> HIDE DEF k, o
  <1>10. Shape(c, k)
    <2>1. \A h \in DOMAIN k.hypothesis :
             k.hypothesis[h].status \in {"viable", "supported", "refuted", "conflicted"}
      BY <1>1, <1>7, <1>9 DEF Shape
    <2>2. k.revision \in Nat /\ k.cost \in Nat /\ k.evidence \in Nat
      BY <1>4, <1>6
    <2>3. k.bounded \in {None, "depth_limit", "node_limit"} /\ DOMAIN k.depth \subseteq Node
          /\ (\A n \in DOMAIN k.depth : k.depth[n] \in Nat) /\ DOMAIN k.hypothesis = DOMAIN c.family
      BY <1>1, <1>6, <1>9 DEF Shape
    <2>4. k = [revision |-> k.revision, actions |-> k.actions, cost |-> k.cost,
               evidence |-> k.evidence, plan |-> k.plan, claim |-> k.claim,
               duty |-> k.duty, hypothesis |-> k.hypothesis, depth |-> k.depth,
               parent |-> k.parent, edges |-> k.edges, bounded |-> k.bounded]
      BY <1>6
    <2> QED BY <2>1, <2>2, <2>3, <2>4 DEF Shape
  <1>11. DutiesAreKnown(c, k) /\ NodesAreCovered(k)
    BY <1>1, <1>6, <1>9 DEF DutiesAreKnown, NodesAreCovered
  <1>12. ReceiptsAreShared(k)
    <2> DEFINE W(p) == s.duty[p].witnesses
    <2>1. \A p \in DOMAIN s.duty : W(p) \subseteq 1 .. s.revision
      BY <1>1 DEF WitnessesApplied
    <2>2. receipt \notin 1 .. s.revision /\ 1 .. k.revision = (1 .. s.revision) \union {receipt}
      BY <1>4, <1>6
    <2>3. IsFiniteSet(W(o)) /\ Cardinality(W(o)) \in Nat
          /\ Cardinality(W(o) \union {receipt}) = Cardinality(W(o)) + 1
      <3>1. IsFiniteSet(1 .. s.revision)
        <4>1. 1 \in Int /\ s.revision \in Int
          BY <1>4
        <4> QED BY <4>1, FS_Interval
      <3>2. IsFiniteSet(W(o))
        BY <1>3, <2>1, <3>1, FS_Subset
      <3> QED BY <1>3, <2>1, <2>2, <3>2, FS_CardinalityType, FS_AddElement
    <2>4. k.duty[o].attempts = Cardinality(k.duty[o].witnesses)
          /\ k.duty[o].attempts <= MaxAttempts
      <3>1. s.duty[o].attempts = Cardinality(W(o))
        BY <1>1, <1>3 DEF ReceiptsAreShared
      <3>2. k.duty[o].attempts = Cardinality(W(o)) + 1
            /\ k.duty[o].witnesses = W(o) \union {receipt}
        BY <1>8, <1>9, <3>1
      <3>3. Cardinality(W(o)) + 1 <= MaxAttempts
        BY <1>5, <2>3, <3>1 DEF MaxAttempts
      <3> QED BY <2>3, <3>2, <3>3
    <2>5. \A p \in DOMAIN k.duty :
             /\ k.duty[p].status \in {"open", "satisfied", "blocked"}
             /\ k.duty[p].attempts = Cardinality(k.duty[p].witnesses)
             /\ k.duty[p].attempts <= MaxAttempts
      BY <1>1, <1>8, <1>9, <2>4 DEF ReceiptsAreShared
    <2>6. \A r \in 1 .. k.revision : \E p \in DOMAIN k.duty : r \in k.duty[p].witnesses
      <3> SUFFICES ASSUME NEW r \in 1 .. k.revision
                   PROVE  \E p \in DOMAIN k.duty : r \in k.duty[p].witnesses
        OBVIOUS
      <3>1. CASE r = receipt
        BY <1>3, <1>8, <1>9, <3>1
      <3>2. CASE r \in 1 .. s.revision
        <4>1. PICK p \in DOMAIN s.duty : r \in s.duty[p].witnesses
          BY <1>1, <3>2 DEF ReceiptsAreShared
        <4>2. r \in k.duty[p].witnesses
          <5>1. CASE p = o
            BY <1>8, <1>9, <4>1, <5>1
          <5>2. CASE p # o
            BY <1>9, <4>1, <5>2
          <5> QED BY <5>1, <5>2
        <4> QED BY <1>9, <4>1, <4>2
      <3> QED BY <2>2, <3>1, <3>2
    <2>7. \A p, d \in DOMAIN k.duty :
             p # d => k.duty[p].witnesses \intersect k.duty[d].witnesses = {}
      <3> SUFFICES ASSUME NEW p \in DOMAIN k.duty, NEW d \in DOMAIN k.duty, p # d
                   PROVE  k.duty[p].witnesses \intersect k.duty[d].witnesses = {}
        OBVIOUS
      <3>1. W(p) \intersect W(d) = {} /\ receipt \notin W(p) /\ receipt \notin W(d)
        BY <1>1, <1>9, <2>1, <2>2 DEF ReceiptsAreShared
      <3>2. k.duty[p].witnesses = W(p) \/ (p = o /\ k.duty[p].witnesses = W(p) \union {receipt})
        BY <1>8, <1>9
      <3>3. k.duty[d].witnesses = W(d) \/ (d = o /\ k.duty[d].witnesses = W(d) \union {receipt})
        BY <1>8, <1>9
      <3> HIDE DEF receipt
      <3> QED BY <3>1, <3>2, <3>3
    <2> QED BY <2>5, <2>6, <2>7 DEF ReceiptsAreShared
  <1>13. WithinBudget(c, k)
    <2>1. Cardinality(DOMAIN k.depth) <= c.limit.nodes /\ Cardinality(k.edges) <= c.limit.edges
      BY <1>1, <1>6 DEF WithinBudget
    <2>2. k.revision = k.actions /\ k.revision # 0
          /\ k.revision <= c.limit.revision /\ k.actions <= c.limit.actions
          /\ k.cost <= c.limit.cost /\ k.evidence <= c.limit.evidence
      BY <1>3, <1>4, <1>5, <1>6
    <2> QED BY <2>1, <2>2 DEF WithinBudget
  <1>14. WitnessesApplied(k)
    <2>1. 1 .. k.revision = (1 .. s.revision) \union {receipt}
      BY <1>4, <1>6
    <2>2. \A p \in DOMAIN k.duty : k.duty[p].witnesses \subseteq 1 .. k.revision
      <3>1. \A p \in DOMAIN s.duty : s.duty[p].witnesses \subseteq 1 .. s.revision
        BY <1>1 DEF WitnessesApplied
      <3> QED BY <1>3, <1>8, <1>9, <2>1, <3>1
    <2>3. \A h \in DOMAIN k.hypothesis :
             k.hypothesis[h].supporting \union k.hypothesis[h].refuting \subseteq 1 .. k.revision
      <3>1. \A h \in DOMAIN s.hypothesis :
               s.hypothesis[h].supporting \union s.hypothesis[h].refuting \subseteq 1 .. s.revision
        BY <1>1 DEF WitnessesApplied
      <3> QED BY <1>7, <1>9, <2>1, <3>1
    <2> QED BY <2>2, <2>3 DEF WitnessesApplied
  <1>15. PlansIndexed(c, k) /\ FamiliesCovered(c, k.plan) /\ GraphIndexed(c, k)
    BY <1>1, <1>6, <1>9 DEF PlansIndexed, GraphIndexed
  <1> QED BY <1>10, <1>11, <1>12, <1>13, <1>14, <1>15 DEF Sound, Consistent, k, o
-----------------------------------------------------------------------------
(* The reducer: what an expansion of dependencies changes *)

\* The targets of an expansion: refused, already in the graph, new to it, without room.
Cyclic(k, o, targets) == {t \in targets : Reachable(k.edges, t, k.plan[o].root)}
Known(k, o, targets) == (targets \ Cyclic(k, o, targets)) \intersect (DOMAIN k.depth)
New(c, k, o, targets) == Admitted(c, k, o, targets \ Cyclic(k, o, targets))
Dropped(c, k, o, targets) ==
    (targets \ Cyclic(k, o, targets)) \ (Known(k, o, targets) \union New(c, k, o, targets))

\* An obligation as the reducer builds it.
IsDuty(d) ==
    d = [status |-> d.status, attempts |-> d.attempts,
         witnesses |-> d.witnesses, reason |-> d.reason]

LEMMA BlockedDuty ==
    ASSUME NEW d, IsDuty(d)
    PROVE  [d EXCEPT !.status = "blocked", !.reason = "cycle"] =
             [status |-> "blocked", attempts |-> d.attempts,
              witnesses |-> d.witnesses, reason |-> "cycle"]
  <1>1. DOMAIN d = {"status", "attempts", "witnesses", "reason"}
    BY DEF IsDuty
  <1>2. [d EXCEPT !.status = "blocked", !.reason = "cycle"] =
           [x \in {"status", "attempts", "witnesses", "reason"} |->
              IF x = "reason" THEN "cycle" ELSE IF x = "status" THEN "blocked" ELSE d[x]]
    BY <1>1
  <1>3. [status |-> "blocked", attempts |-> d.attempts, witnesses |-> d.witnesses, reason |-> "cycle"] =
           [x \in {"status", "attempts", "witnesses", "reason"} |->
              IF x = "reason" THEN "cycle" ELSE IF x = "status" THEN "blocked" ELSE d[x]]
    OBVIOUS
  <1> QED BY <1>2, <1>3

\* The state that the expansion of obligation o builds, field by field.
IsExpansion(e, c, k, o, targets) ==
    LET new == New(c, k, o, targets)
        root == k.plan[o].root
        child == k.plan[o].depth + 1
    IN
    /\ e.revision = k.revision /\ e.actions = k.actions /\ e.cost = k.cost
    /\ e.evidence = k.evidence /\ e.hypothesis = k.hypothesis
    /\ e.plan = [p \in (DOMAIN k.duty) \union new |->
          IF p \in new
          THEN [method |-> "dependency", root |-> p, depth |-> child,
                maxDepth |-> k.plan[o].maxDepth, predicts |-> {}]
          ELSE k.plan[p]]
    /\ e.claim = [p \in (DOMAIN k.duty) \union new |->
                     IF p \in new THEN p ELSE k.claim[p]]
    /\ e.duty = [p \in (DOMAIN k.duty) \union new |->
          IF p \in new THEN Untried
          ELSE IF p = o /\ Cyclic(k, o, targets) # {}
          THEN [status |-> "blocked", attempts |-> k.duty[o].attempts,
                witnesses |-> k.duty[o].witnesses, reason |-> "cycle"]
          ELSE k.duty[p]]
    /\ e.depth = [n \in (DOMAIN k.depth) \union new |->
                     IF n \in new THEN child ELSE k.depth[n]]
    /\ e.parent = [n \in (DOMAIN k.depth) \union new |->
                     IF n \in new THEN root ELSE k.parent[n]]
    /\ e.edges = k.edges \union {<<root, t>> : t \in Known(k, o, targets) \union new}
    /\ e.bounded \in {k.bounded, "depth_limit", "node_limit"}
    /\ Dropped(c, k, o, targets) # {} => e.bounded \in {"depth_limit", "node_limit"}
    /\ Dropped(c, k, o, targets) = {} => e.bounded = k.bounded
    /\ e = [revision |-> e.revision, actions |-> e.actions, cost |-> e.cost,
            evidence |-> e.evidence, plan |-> e.plan, claim |-> e.claim,
            duty |-> e.duty, hypothesis |-> e.hypothesis, depth |-> e.depth,
            parent |-> e.parent, edges |-> e.edges, bounded |-> e.bounded]

LEMMA ExpandedFields ==
    ASSUME NEW c, NEW k, NEW o \in DOMAIN k.duty, NEW targets, IsDuty(k.duty[o])
    PROVE  IsExpansion(Expanded(c, k, o, targets), c, k, o, targets)
  <1> DEFINE new == New(c, k, o, targets)
             child == k.plan[o].depth + 1
             derived == [method |-> "dependency", root |-> 0, depth |-> child,
                         maxDepth |-> k.plan[o].maxDepth, predicts |-> {}]
  <1>1. \A p : [derived EXCEPT !.root = p] =
                  [method |-> "dependency", root |-> p, depth |-> child,
                   maxDepth |-> k.plan[o].maxDepth, predicts |-> {}]
    OBVIOUS
  <1>2. [k.duty[o] EXCEPT !.status = "blocked", !.reason = "cycle"] =
           [status |-> "blocked", attempts |-> k.duty[o].attempts,
            witnesses |-> k.duty[o].witnesses, reason |-> "cycle"]
    BY BlockedDuty
  <1>3. Expanded(c, k, o, targets) =
          [revision |-> k.revision, actions |-> k.actions, cost |-> k.cost,
           evidence |-> k.evidence,
           plan |-> [p \in (DOMAIN k.duty) \union new |->
                       IF p \in new THEN [derived EXCEPT !.root = p] ELSE k.plan[p]],
           claim |-> [p \in (DOMAIN k.duty) \union new |->
                       IF p \in new THEN p ELSE k.claim[p]],
           duty |-> [p \in (DOMAIN k.duty) \union new |->
                      IF p \in new THEN Untried
                      ELSE IF p = o /\ Cyclic(k, o, targets) # {}
                      THEN [k.duty[o] EXCEPT !.status = "blocked", !.reason = "cycle"]
                      ELSE k.duty[p]],
           hypothesis |-> k.hypothesis,
           depth |-> [n \in (DOMAIN k.depth) \union new |->
                        IF n \in new THEN child ELSE k.depth[n]],
           parent |-> [n \in (DOMAIN k.depth) \union new |->
                        IF n \in new THEN k.plan[o].root ELSE k.parent[n]],
           edges |-> k.edges \union
                        {<<k.plan[o].root, t>> : t \in Known(k, o, targets) \union new},
           bounded |-> IF Dropped(c, k, o, targets) = {} THEN k.bounded
                       ELSE IF child > k.plan[o].maxDepth \/ child > c.limit.depth
                       THEN "depth_limit" ELSE "node_limit"]
    BY Zenon DEF Expanded, New, Known, Cyclic, Dropped
  <1> HIDE DEF new, child, derived
  <1>4. [p \in (DOMAIN k.duty) \union new |->
           IF p \in new THEN [derived EXCEPT !.root = p] ELSE k.plan[p]]
        = [p \in (DOMAIN k.duty) \union new |->
             IF p \in new
             THEN [method |-> "dependency", root |-> p, depth |-> child,
                   maxDepth |-> k.plan[o].maxDepth, predicts |-> {}]
             ELSE k.plan[p]]
    BY <1>1
  <1> QED BY <1>2, <1>3, <1>4 DEF new, child, IsExpansion

\* What is new to the graph has no obligation yet, is not too deep, and closes no cycle.
LEMMA NewNodes ==
    ASSUME NEW c \in Contract, NEW k, Sound(c, k), NEW o \in Expansions(k.plan),
           NEW targets \in SUBSET Node
    PROVE  LET new == New(c, k, o, targets)
               child == k.plan[o].depth + 1
           IN  /\ new \subseteq targets /\ new \subseteq Node
               /\ new \intersect DOMAIN k.depth = {} /\ new \intersect DOMAIN k.duty = {}
               /\ Known(k, o, targets) \subseteq targets \intersect DOMAIN k.depth
               /\ \A t \in Known(k, o, targets) \union new :
                     ~Reachable(k.edges, t, k.plan[o].root)
               /\ \A t \in new : child <= k.plan[o].maxDepth /\ child <= c.limit.depth
               /\ Cardinality((DOMAIN k.depth) \union new) <= c.limit.nodes
  <1> DEFINE new == New(c, k, o, targets)
             nodes == DOMAIN k.depth
             child == k.plan[o].depth + 1
             fresh == {t \in (targets \ Cyclic(k, o, targets)) \ nodes : t # k.plan[o].root}
             room == c.limit.nodes - Cardinality(nodes)
             first == {t \in fresh : Cardinality({u \in fresh : u < t}) < room}
  <1>1. Shape(c, k) /\ DutiesAreKnown(c, k) /\ Cardinality(nodes) <= c.limit.nodes
    BY DEF Sound, Consistent, WithinBudget
  <1>2. new = IF child > k.plan[o].maxDepth \/ child > c.limit.depth THEN {} ELSE first
    BY Zenon DEF New, Admitted
  <1>3. /\ child \in Nat /\ k.plan[o].maxDepth \in Nat
        /\ c.limit.nodes \in Nat /\ c.limit.depth \in Nat
    BY <1>1, ContractsAreTyped DEF DutiesAreKnown, Typed
  <1> HIDE DEF new, child, first
  <1>4. new \subseteq first
    BY <1>2
  <1>5. first \subseteq fresh /\ fresh \subseteq targets /\ fresh \intersect nodes = {}
    BY DEF first
  <1>6. new \intersect DOMAIN k.duty = {}
    <2>1. DOMAIN k.duty \subseteq (DOMAIN c.plan) \union nodes /\ DOMAIN c.plan \intersect Node = {}
      BY <1>1, ContractsAreTyped DEF DutiesAreKnown, Typed
    <2> QED BY <1>4, <1>5, <2>1
  <1>7. \A t \in Known(k, o, targets) \union new : ~Reachable(k.edges, t, k.plan[o].root)
    <2>1. \A t \in fresh : t \in targets \ Cyclic(k, o, targets)
      OBVIOUS
    <2> QED BY <1>4, <1>5, <2>1 DEF Known, Cyclic
  <1>8. \A t \in new : child <= k.plan[o].maxDepth /\ child <= c.limit.depth
    BY <1>2, <1>3
  <1>9. Cardinality(nodes \union new) <= c.limit.nodes
    <2>1. IsFiniteSet(nodes) /\ Cardinality(nodes) \in Nat /\ room \in Nat
      <3>1. nodes \in SUBSET Node
        BY <1>1 DEF Shape
      <3>2. IsFiniteSet(nodes) /\ Cardinality(nodes) \in Nat
        BY <3>1, NodesAreNumbered, FS_Subset, FS_CardinalityType
      <3> QED BY <1>1, <1>3, <3>2
    <2>2. fresh \in SUBSET Nat /\ IsFiniteSet(fresh)
      <3>1. fresh \in SUBSET Node
        BY <1>5
      <3> HIDE DEF fresh
      <3> QED BY <3>1, NodesAreNumbered, FS_Subset
    <2>3. Cardinality(first) <= room
      <3> HIDE DEF fresh, room
      <3> QED BY <2>1, <2>2, FirstFit DEF first
    <2>4. IsFiniteSet(first) /\ Cardinality(first) \in Nat
      <3> HIDE DEF fresh
      <3> QED BY <1>5, <2>2, FS_Subset, FS_CardinalityType
    <2>5. IsFiniteSet(new) /\ Cardinality(new) \in Nat /\ Cardinality(new) <= Cardinality(first)
      BY <1>4, <2>4, FS_Subset, FS_CardinalityType
    <2>6. nodes \intersect new = {} /\ Cardinality(nodes \intersect new) = 0
      BY <1>4, <1>5, FS_EmptySet
    <2>7. Cardinality(nodes \union new) = Cardinality(nodes) + Cardinality(new)
      <3>1. Cardinality(nodes \union new)
              = Cardinality(nodes) + Cardinality(new) - Cardinality(nodes \intersect new)
        <4> HIDE DEF nodes
        <4> QED BY <2>1, <2>5, FS_Union
      <3> QED BY <2>1, <2>5, <2>6, <3>1
    <2> QED BY <1>3, <2>1, <2>3, <2>4, <2>5, <2>7
  <1>10. new \subseteq targets /\ new \subseteq Node /\ new \intersect nodes = {}
         /\ Known(k, o, targets) \subseteq targets \intersect nodes
    BY <1>4, <1>5 DEF Known
  <1> QED BY <1>6, <1>7, <1>8, <1>9, <1>10 DEF new, child
\* What an expansion builds from a counted receipt, the validator accepts.
LEMMA ExpandedIsSound ==
    ASSUME NEW c \in Contract, NEW k, Sound(c, k), k.revision # 0,
           NEW o \in Expansions(k.plan), IsDuty(k.duty[o]), NEW targets \in SUBSET Node,
           Cardinality(k.edges) + Cardinality(targets) <= c.limit.edges
    PROVE  Sound(c, Expanded(c, k, o, targets))
  <1> DEFINE e == Expanded(c, k, o, targets)
             new == New(c, k, o, targets)
             known == Known(k, o, targets)
             root == k.plan[o].root
             child == k.plan[o].depth + 1
             ids == (DOMAIN k.duty) \union new
             nodes == (DOMAIN k.depth) \union new
  <1>1. Shape(c, k) /\ DutiesAreKnown(c, k) /\ NodesAreCovered(k) /\ ReceiptsAreShared(k)
        /\ WithinBudget(c, k) /\ WitnessesApplied(k) /\ PlansIndexed(c, k)
        /\ FamiliesCovered(c, k.plan) /\ GraphIndexed(c, k)
    BY DEF Sound, Consistent
  <1>2. o \in DOMAIN k.duty /\ o \in DOMAIN k.plan /\ DOMAIN k.plan = DOMAIN k.duty
        /\ DOMAIN k.claim = DOMAIN k.duty
        /\ root \in DOMAIN k.depth /\ k.depth[root] = k.plan[o].depth
    BY <1>1 DEF PlansIndexed, Expansions
  <1>3. /\ new \subseteq targets /\ new \subseteq Node
        /\ new \intersect DOMAIN k.depth = {} /\ new \intersect DOMAIN k.duty = {}
        /\ known \subseteq targets \intersect DOMAIN k.depth
        /\ \A t \in known \union new : ~Reachable(k.edges, t, root)
        /\ \A t \in new : child <= k.plan[o].maxDepth /\ child <= c.limit.depth
        /\ Cardinality(nodes) <= c.limit.nodes
    BY NewNodes
  <1>4. /\ e.revision = k.revision /\ e.actions = k.actions /\ e.cost = k.cost
        /\ e.evidence = k.evidence /\ e.hypothesis = k.hypothesis
        /\ e.plan = [p \in ids |->
              IF p \in new THEN [method |-> "dependency", root |-> p, depth |-> child,
                                 maxDepth |-> k.plan[o].maxDepth, predicts |-> {}]
              ELSE k.plan[p]]
        /\ e.claim = [p \in ids |-> IF p \in new THEN p ELSE k.claim[p]]
        /\ e.duty = [p \in ids |->
              IF p \in new THEN Untried
              ELSE IF p = o /\ Cyclic(k, o, targets) # {}
              THEN [status |-> "blocked", attempts |-> k.duty[o].attempts,
                    witnesses |-> k.duty[o].witnesses, reason |-> "cycle"]
              ELSE k.duty[p]]
        /\ e.depth = [n \in nodes |-> IF n \in new THEN child ELSE k.depth[n]]
        /\ e.parent = [n \in nodes |-> IF n \in new THEN root ELSE k.parent[n]]
        /\ e.edges = k.edges \union {<<root, t>> : t \in known \union new}
        /\ e.bounded \in {k.bounded, "depth_limit", "node_limit"}
        /\ e = [revision |-> e.revision, actions |-> e.actions, cost |-> e.cost,
                evidence |-> e.evidence, plan |-> e.plan, claim |-> e.claim,
                duty |-> e.duty, hypothesis |-> e.hypothesis, depth |-> e.depth,
                parent |-> e.parent, edges |-> e.edges, bounded |-> e.bounded]
    <2>1. IsExpansion(e, c, k, o, targets)
      BY <1>2, ExpandedFields
    <2> HIDE DEF e
    <2> QED BY <2>1 DEF IsExpansion
  <1>5. k.plan[o].depth \in Nat /\ k.plan[o].maxDepth \in Nat /\ child \in Nat
        /\ root \in Node /\ c.limit.depth \in Nat
    BY <1>1, ContractsAreTyped DEF DutiesAreKnown, Typed
  <1> HIDE DEF e, new, known, child, root
  <1>6. DOMAIN e.plan = ids /\ DOMAIN e.claim = ids /\ DOMAIN e.duty = ids
        /\ DOMAIN e.depth = nodes /\ DOMAIN e.parent = nodes
    BY <1>4
  <1>7. /\ \A p \in DOMAIN k.duty : e.plan[p] = k.plan[p]
        /\ \A p \in new :
              /\ e.plan[p] = [method |-> "dependency", root |-> p, depth |-> child,
                              maxDepth |-> k.plan[o].maxDepth, predicts |-> {}]
              /\ e.plan[p].method = "dependency" /\ e.plan[p].root = p
              /\ e.plan[p].depth = child /\ e.plan[p].maxDepth = k.plan[o].maxDepth
              /\ e.plan[p].predicts = {}
    BY <1>3, <1>4
  <1>8. /\ \A p \in new : e.duty[p] = Untried
        /\ \A p \in DOMAIN k.duty :
              /\ e.duty[p].attempts = k.duty[p].attempts
              /\ e.duty[p].witnesses = k.duty[p].witnesses
              /\ e.duty[p].status \in {"blocked", k.duty[p].status}
    BY <1>3, <1>4
  <1>9. /\ \A n \in new : e.depth[n] = child /\ e.parent[n] = root
        /\ \A n \in DOMAIN k.depth : e.depth[n] = k.depth[n] /\ e.parent[n] = k.parent[n]
    BY <1>3, <1>4
  <1>10. Expansions(e.plan) = Expansions(k.plan) \union new
         /\ \A p \in Expansions(k.plan) : p \in DOMAIN k.duty
    <2>1. Expansions(e.plan) = {p \in ids : e.plan[p].method = "dependency"}
      BY <1>6 DEF Expansions
    <2>2. Expansions(k.plan) = {p \in DOMAIN k.duty : k.plan[p].method = "dependency"}
      BY <1>2 DEF Expansions
    <2> HIDE DEF ids
    <2>3. \A p : p \in ids <=> (p \in DOMAIN k.duty \/ p \in new)
      BY DEF ids
    <2>4. \A p : p \in Expansions(e.plan) <=> p \in Expansions(k.plan) \union new
      BY <1>7, <2>1, <2>2, <2>3
    <2> QED BY <2>2, <2>4
  <1>11. Untried.status = "open" /\ Untried.attempts = 0 /\ Untried.witnesses = {}
    BY DEF Untried
  <1>12. Shape(c, e)
    <2>1. e.revision \in Nat /\ e.cost \in Nat /\ e.evidence \in Nat
          /\ DOMAIN e.hypothesis = DOMAIN c.family
          /\ \A h \in DOMAIN e.hypothesis :
                e.hypothesis[h].status \in {"viable", "supported", "refuted", "conflicted"}
      BY <1>1, <1>4 DEF Shape
    <2>2. e.bounded \in {None, "depth_limit", "node_limit"}
      BY <1>1, <1>4 DEF Shape
    <2>3. DOMAIN e.depth \subseteq Node /\ \A n \in DOMAIN e.depth : e.depth[n] \in Nat
      BY <1>1, <1>3, <1>5, <1>6, <1>9 DEF Shape
    <2>4. e = [revision |-> e.revision, actions |-> e.actions, cost |-> e.cost,
               evidence |-> e.evidence, plan |-> e.plan, claim |-> e.claim,
               duty |-> e.duty, hypothesis |-> e.hypothesis, depth |-> e.depth,
               parent |-> e.parent, edges |-> e.edges, bounded |-> e.bounded]
      BY <1>4
    <2> QED BY <2>1, <2>2, <2>3, <2>4 DEF Shape
  <1>13. DutiesAreKnown(c, e)
    <2>1. DOMAIN e.duty \subseteq (DOMAIN c.plan) \union (DOMAIN e.depth)
      BY <1>1, <1>6 DEF DutiesAreKnown
    <2>2. \A p \in Expansions(k.plan) :
             /\ e.plan[p].root \in Node /\ e.plan[p].predicts = {}
             /\ e.plan[p].depth \in Nat /\ e.plan[p].maxDepth \in Nat
      BY <1>1, <1>7, <1>10 DEF DutiesAreKnown
    <2>3. \A p \in Expansions(e.plan) :
             /\ e.plan[p].root \in Node /\ e.plan[p].predicts = {}
             /\ e.plan[p].depth \in Nat /\ e.plan[p].maxDepth \in Nat
      <3>1. \A p \in new : /\ e.plan[p].root \in Node /\ e.plan[p].predicts = {}
                           /\ e.plan[p].depth \in Nat /\ e.plan[p].maxDepth \in Nat
        BY <1>3, <1>5, <1>7
      <3> QED BY <1>10, <2>2, <3>1
    <2>4. \A p \in DOMAIN e.claim : e.claim[p] \in Claimed(c.claim) \union (DOMAIN e.depth)
      <3>1. \A p \in DOMAIN k.duty : k.claim[p] \in Claimed(c.claim) \union (DOMAIN k.depth)
        BY <1>1, <1>2 DEF DutiesAreKnown
      <3>2. \A p \in DOMAIN e.claim : e.claim[p] = IF p \in new THEN p ELSE k.claim[p]
        BY <1>4, <1>6
      <3>3. DOMAIN e.claim = (DOMAIN k.duty) \union new /\ DOMAIN e.depth = (DOMAIN k.depth) \union new
        BY <1>6
      <3> HIDE DEF ids, nodes
      <3> QED BY <3>1, <3>2, <3>3
    <2> QED BY <2>1, <2>3, <2>4 DEF DutiesAreKnown
  <1>14. NodesAreCovered(e)
    <2> SUFFICES ASSUME NEW n \in DOMAIN e.depth
                 PROVE  \E p \in Expansions(e.plan) : e.plan[p].root = n
      BY DEF NodesAreCovered
    <2>1. CASE n \in new
      BY <1>7, <1>10, <2>1
    <2>2. CASE n \in DOMAIN k.depth
      <3>1. PICK p \in Expansions(k.plan) : k.plan[p].root = n
        BY <1>1, <2>2 DEF NodesAreCovered
      <3>2. p \in DOMAIN k.duty
        BY <1>2 DEF Expansions
      <3> QED BY <1>7, <1>10, <3>1, <3>2
    <2> QED BY <1>6, <2>1, <2>2
  <1>15. ReceiptsAreShared(e)
    <2>1. \A p \in DOMAIN e.duty :
             /\ e.duty[p].status \in {"open", "satisfied", "blocked"}
             /\ e.duty[p].attempts = Cardinality(e.duty[p].witnesses)
             /\ e.duty[p].attempts <= MaxAttempts
      <3>1. \A p \in new : /\ e.duty[p].status \in {"open", "satisfied", "blocked"}
                           /\ e.duty[p].attempts = Cardinality(e.duty[p].witnesses)
                           /\ e.duty[p].attempts <= MaxAttempts
        BY <1>8, <1>11, FS_EmptySet DEF MaxAttempts
      <3>2. \A p \in DOMAIN k.duty : /\ e.duty[p].status \in {"open", "satisfied", "blocked"}
                                     /\ e.duty[p].attempts = Cardinality(e.duty[p].witnesses)
                                     /\ e.duty[p].attempts <= MaxAttempts
        BY <1>1, <1>8 DEF ReceiptsAreShared
      <3> QED BY <1>6, <3>1, <3>2
    <2>2. \A r \in 1 .. e.revision : \E p \in DOMAIN e.duty : r \in e.duty[p].witnesses
      <3> SUFFICES ASSUME NEW r \in 1 .. k.revision
                   PROVE  \E p \in DOMAIN e.duty : r \in e.duty[p].witnesses
        BY <1>4
      <3>1. PICK p \in DOMAIN k.duty : r \in k.duty[p].witnesses
        BY <1>1 DEF ReceiptsAreShared
      <3> QED BY <1>6, <1>8, <3>1
    <2>3. \A p, d \in DOMAIN e.duty :
             p # d => e.duty[p].witnesses \intersect e.duty[d].witnesses = {}
      BY <1>1, <1>6, <1>8, <1>11 DEF ReceiptsAreShared
    <2> QED BY <2>1, <2>2, <2>3 DEF ReceiptsAreShared
  <1>16. WithinBudget(c, e)
    <2>1. Cardinality(DOMAIN e.depth) <= c.limit.nodes
      BY <1>3, <1>6
    <2>2. Cardinality(e.edges) <= c.limit.edges
      <3>1. k.edges \in SUBSET (Node \X Node)
        BY <1>1 DEF Shape, GraphIndexed
      <3>2. IsFiniteSet(k.edges) /\ IsFiniteSet(targets)
        BY <3>1, NodesAreNumbered, FS_Product, FS_Subset
      <3>3. known \union new \in SUBSET targets
        BY <1>3
      <3>4. Cardinality(e.edges) <= Cardinality(k.edges) + Cardinality(targets)
            /\ Cardinality(e.edges) \in Nat
        <4>1. LET added == k.edges \union {<<root, t>> : t \in known \union new}
              IN  /\ IsFiniteSet(added) /\ Cardinality(added) \in Nat
                  /\ Cardinality(added) <= Cardinality(k.edges) + Cardinality(targets)
          BY <3>2, <3>3, EdgesAdded
        <4>2. e.edges = k.edges \union {<<root, t>> : t \in known \union new}
          BY <1>4
        <4> QED BY <4>1, <4>2
      <3>5. Cardinality(k.edges) \in Nat /\ Cardinality(targets) \in Nat /\ c.limit.edges \in Nat
        BY <3>2, FS_CardinalityType, ContractsAreTyped DEF Typed
      <3> QED BY <3>4, <3>5
    <2>3. e.revision <= c.limit.revision /\ e.actions <= c.limit.actions
          /\ e.cost <= c.limit.cost /\ e.evidence <= c.limit.evidence
          /\ e.revision = e.actions /\ e.revision # 0
      BY <1>1, <1>4 DEF WithinBudget
    <2> QED BY <2>1, <2>2, <2>3 DEF WithinBudget
  <1>17. WitnessesApplied(e)
    BY <1>1, <1>4, <1>6, <1>8, <1>11 DEF WitnessesApplied
  <1>18. PlansIndexed(c, e)
    <2>1. \A p \in DOMAIN e.plan : PlanInBounds(c, e.plan[p])
      <3>1. \A p \in DOMAIN k.duty : PlanInBounds(c, e.plan[p])
        BY <1>1, <1>2, <1>7 DEF PlansIndexed
      <3>2. k.plan[o].maxDepth \in 1 .. c.limit.depth
        BY <1>1, <1>2 DEF PlansIndexed, PlanInBounds, Expansions
      <3>3. \A p \in new : PlanInBounds(c, e.plan[p])
        BY <1>3, <1>7, <3>2 DEF PlanInBounds, Predicting
      <3> QED BY <1>6, <3>1, <3>3
    <2>2. \A p \in Expansions(e.plan) :
             /\ e.plan[p].root \in (DOMAIN e.depth) \intersect (DOMAIN e.parent)
             /\ e.depth[e.plan[p].root] = e.plan[p].depth
      <3>1. \A p \in new : /\ e.plan[p].root \in (DOMAIN e.depth) \intersect (DOMAIN e.parent)
                           /\ e.depth[e.plan[p].root] = e.plan[p].depth
        <4> SUFFICES ASSUME NEW p \in new
                     PROVE  /\ e.plan[p].root \in (DOMAIN e.depth) \intersect (DOMAIN e.parent)
                            /\ e.depth[e.plan[p].root] = e.plan[p].depth
          OBVIOUS
        <4>1. e.plan[p].root = p /\ e.plan[p].depth = child /\ e.depth[p] = child /\ p \in nodes
          BY <1>7, <1>9
        <4> QED BY <1>6, <4>1
      <3>2. \A p \in Expansions(k.plan) :
               /\ p \in DOMAIN k.duty /\ k.plan[p].root \in DOMAIN k.depth
               /\ k.depth[k.plan[p].root] = k.plan[p].depth
        BY <1>1, <1>2 DEF PlansIndexed, Expansions
      <3> QED BY <1>6, <1>7, <1>9, <1>10, <3>1, <3>2
    <2> QED BY <1>6, <2>1, <2>2 DEF PlansIndexed
  <1>19. FamiliesCovered(c, e.plan)
    <2>1. \A h \in DOMAIN c.family :
             Cardinality(Rivals(c, h)) >= 2 /\ \E p \in DOMAIN e.plan : h \in e.plan[p].predicts
      BY <1>1, <1>2, <1>6, <1>7 DEF FamiliesCovered
    <2>2. \A p \in DOMAIN e.plan :
             /\ e.plan[p].predicts \subseteq DOMAIN c.family
             /\ \A h \in e.plan[p].predicts : e.plan[p].predicts = Rivals(c, h)
      <3>1. \A p \in DOMAIN k.duty : k.plan[p].predicts \subseteq DOMAIN c.family
               /\ \A h \in k.plan[p].predicts : k.plan[p].predicts = Rivals(c, h)
        BY <1>1, <1>2 DEF FamiliesCovered
      <3>2. \A p \in DOMAIN e.plan : \/ p \in new /\ e.plan[p].predicts = {}
                                     \/ p \in DOMAIN k.duty /\ e.plan[p] = k.plan[p]
        BY <1>6, <1>7
      <3> QED BY <3>1, <3>2
    <2> QED BY <2>1, <2>2 DEF FamiliesCovered
  <1>20. GraphIndexed(c, e)
    <2>1. DOMAIN k.parent = DOMAIN k.depth /\ k.edges \subseteq (DOMAIN k.depth) \X (DOMAIN k.depth)
          /\ Acyclic(k.edges)
      BY <1>1 DEF GraphIndexed
    <2>2. e.edges \subseteq (DOMAIN e.depth) \X (DOMAIN e.depth)
      BY <1>2, <1>3, <1>4, <1>6, <2>1
    <2>3. Acyclic(e.edges)
      <3>1. \A t \in known \union new : ~Reachable(k.edges, t, root)
        BY <1>3
      <3>2. Acyclic(k.edges \union {<<root, t>> : t \in known \union new})
        BY <2>1, <3>1, StaysAcyclic
      <3>3. e.edges = k.edges \union {<<root, t>> : t \in known \union new}
        BY <1>4
      <3> QED BY <3>2, <3>3
    <2>4. \A n \in DOMAIN e.depth :
             /\ e.depth[n] <= c.limit.depth
             /\ e.parent[n] # None =>
                   /\ e.parent[n] \in DOMAIN e.depth
                   /\ e.depth[n] = e.depth[e.parent[n]] + 1
                   /\ <<e.parent[n], n>> \in e.edges
      <3>1. \A n \in new : /\ e.depth[n] <= c.limit.depth
                           /\ e.parent[n] \in DOMAIN e.depth
                           /\ e.depth[n] = e.depth[e.parent[n]] + 1
                           /\ <<e.parent[n], n>> \in e.edges
        BY <1>2, <1>3, <1>4, <1>6, <1>9 DEF child
      <3>2. \A n \in DOMAIN k.depth :
               /\ e.depth[n] <= c.limit.depth
               /\ e.parent[n] # None =>
                     /\ e.parent[n] \in DOMAIN e.depth
                     /\ e.depth[n] = e.depth[e.parent[n]] + 1
                     /\ <<e.parent[n], n>> \in e.edges
        <4> SUFFICES ASSUME NEW n \in DOMAIN k.depth
                     PROVE  /\ e.depth[n] <= c.limit.depth
                            /\ e.parent[n] # None =>
                                  /\ e.parent[n] \in DOMAIN e.depth
                                  /\ e.depth[n] = e.depth[e.parent[n]] + 1
                                  /\ <<e.parent[n], n>> \in e.edges
          OBVIOUS
        <4>1. e.depth[n] = k.depth[n] /\ e.parent[n] = k.parent[n]
          BY <1>9
        <4>2. /\ k.depth[n] <= c.limit.depth
              /\ k.parent[n] # None =>
                    /\ k.parent[n] \in DOMAIN k.depth
                    /\ k.depth[n] = k.depth[k.parent[n]] + 1
                    /\ <<k.parent[n], n>> \in k.edges
          BY <1>1 DEF GraphIndexed
        <4>3. k.parent[n] # None => e.depth[k.parent[n]] = k.depth[k.parent[n]]
          BY <1>9, <4>2
        <4> QED BY <1>4, <1>6, <4>1, <4>2, <4>3
      <3> QED BY <1>6, <3>1, <3>2
    <2> QED BY <1>6, <2>2, <2>3, <2>4 DEF GraphIndexed
  <1> QED BY <1>12, <1>13, <1>14, <1>15, <1>16, <1>17, <1>18, <1>19, <1>20 DEF Sound, Consistent, e
-----------------------------------------------------------------------------
(* The reducer as a whole *)

LEMMA DutyAfterIsDuty ==
    ASSUME NEW d, NEW out, NEW receipt
    PROVE  IsDuty(DutyAfter(d, out, receipt))
  BY DEF IsDuty, DutyAfter

\* Whatever a verifier lets through, the reducer builds a sound state from it.
LEMMA ReduceIsSound ==
    ASSUME NEW c \in Contract, NEW s, Sound(c, s), Planned(c, s) # None,
           NEW out, Reportable(c, s, Planned(c, s), out)
    PROVE  /\ Sound(c, Reduce(c, s, Planned(c, s), out))
           /\ Planned(c, s) \in DOMAIN s.duty
  <1> DEFINE o == Planned(c, s)
             k == Counted(s, o, out)
  <1>1. Sound(c, k)
    BY CountedIsSound
  <1>2. o \in DOMAIN s.duty /\ Shape(c, s)
    BY PlannedIsAffordable DEF Affordable, Open, Sound
  <1>3. k.plan = s.plan /\ k.edges = s.edges /\ k.revision = s.revision + 1
        /\ k.duty[o] = DutyAfter(s.duty[o], out, s.revision + 1)
    <2>1. IsCounted(k, s, o, out)
      BY <1>2, CountedFields
    <2> HIDE DEF k
    <2> QED BY <1>2, <2>1 DEF IsCounted
  <1>4. k.revision # 0 /\ IsDuty(k.duty[o])
    BY <1>2, <1>3, DutyAfterIsDuty DEF Shape
  <1> HIDE DEF k, o
  <1>5. CASE o \in Expansions(s.plan) /\ out.kind = "completed"
    <2>1. out.targets \in SUBSET Node
          /\ Cardinality(k.edges) + Cardinality(out.targets) <= c.limit.edges
      BY <1>3, <1>5 DEF Reportable, Expansions, o
    <2>2. Sound(c, Expanded(c, k, o, out.targets))
      BY <1>1, <1>3, <1>4, <1>5, <2>1, ExpandedIsSound
    <2> QED BY <1>2, <1>5, <2>2 DEF Reduce, k, o
  <1>6. CASE ~(o \in Expansions(s.plan) /\ out.kind = "completed")
    BY <1>1, <1>2, <1>6 DEF Reduce, k, o
  <1> QED BY <1>5, <1>6

\* The history that a step adds to, by what became of the obligation it was about.
LEMMA ReducedDuties ==
    ASSUME NEW c \in Contract, NEW s, Sound(c, s), Planned(c, s) # None,
           NEW out, Reportable(c, s, Planned(c, s), out)
    PROVE  LET o == Planned(c, s)
               next == Reduce(c, s, o, out)
               receipt == s.revision + 1
           IN  /\ s.duty[o].status = "open"
               /\ next.revision = receipt
               /\ next.hypothesis = [h \in DOMAIN s.hypothesis |->
                    IF h \in DOMAIN out.observed
                    THEN Judge(s.hypothesis[h], out.observed[h], receipt) ELSE s.hypothesis[h]]
               /\ DOMAIN s.duty \subseteq DOMAIN next.duty
               /\ \A p \in DOMAIN s.duty : next.plan[p] = s.plan[p]
               /\ \A p \in (DOMAIN s.duty) \ {o} : next.duty[p] = s.duty[p]
               /\ \A p \in (DOMAIN next.duty) \ (DOMAIN s.duty) :
                     next.duty[p].status = "open" /\ next.duty[p].witnesses = {}
               /\ next.duty[o].witnesses = s.duty[o].witnesses \union {receipt}
               /\ next.duty[o].status = "satisfied" => out.kind = "completed" /\ out.holds
               /\ out.kind = "completed" /\ ~out.holds => next.duty[o].status = "blocked"
  <1> DEFINE o == Planned(c, s)
             k == Counted(s, o, out)
             receipt == s.revision + 1
             next == Reduce(c, s, o, out)
  <1>1. o \in DOMAIN s.duty /\ s.duty[o].status = "open" /\ Shape(c, s)
        /\ DOMAIN s.plan = DOMAIN s.duty
    BY PlannedIsAffordable DEF Affordable, Open, Sound, Consistent, PlansIndexed
  <1>2. k.plan = s.plan /\ k.edges = s.edges /\ k.revision = receipt
        /\ k.duty = [p \in DOMAIN s.duty |->
                       IF p = o THEN DutyAfter(s.duty[o], out, receipt) ELSE s.duty[p]]
        /\ k.hypothesis = [h \in DOMAIN s.hypothesis |->
             IF h \in DOMAIN out.observed
             THEN Judge(s.hypothesis[h], out.observed[h], receipt) ELSE s.hypothesis[h]]
    <2>1. IsCounted(k, s, o, out)
      BY <1>1, CountedFields
    <2> HIDE DEF k
    <2> QED BY <2>1 DEF IsCounted
  <1>3. DOMAIN k.duty = DOMAIN s.duty /\ k.duty[o] = DutyAfter(s.duty[o], out, receipt)
        /\ \A p \in (DOMAIN s.duty) \ {o} : k.duty[p] = s.duty[p]
    BY <1>1, <1>2
  <1>4. LET d == DutyAfter(s.duty[o], out, receipt)
        IN  /\ d.status = "satisfied" => out.kind = "completed" /\ out.holds
            /\ out.kind = "completed" /\ ~out.holds => d.status = "blocked"
            /\ d.witnesses = s.duty[o].witnesses \union {receipt}
            /\ IsDuty(d)
    BY DutyAfterResult, DutyAfterIsDuty
  <1> HIDE DEF k, o, receipt
  <1>5. CASE o \in Expansions(s.plan) /\ out.kind = "completed"
    <2> DEFINE new == New(c, k, o, out.targets)
    <2>1. next = Expanded(c, k, o, out.targets)
      BY <1>5 DEF Reduce, k, o
    <2>2. IsExpansion(next, c, k, o, out.targets)
      BY <1>1, <1>3, <1>4, <2>1, ExpandedFields
    <2>3. new \intersect DOMAIN k.duty = {}
      <3>1. Sound(c, k)
        BY CountedIsSound DEF k, o
      <3>2. out.targets \in SUBSET Node /\ o \in Expansions(k.plan)
        BY <1>2, <1>5 DEF Reportable, o
      <3> QED BY <3>1, <3>2, NewNodes
    <2> HIDE DEF new, next
    <2>4. /\ next.revision = k.revision /\ next.hypothesis = k.hypothesis
          /\ DOMAIN next.duty = (DOMAIN k.duty) \union new
          /\ \A p \in DOMAIN k.duty : next.plan[p] = k.plan[p]
          /\ \A p \in (DOMAIN k.duty) \ {o} : next.duty[p] = k.duty[p]
          /\ \A p \in new : next.duty[p] = Untried
          /\ next.duty[o].witnesses = k.duty[o].witnesses
          /\ next.duty[o].status \in {"blocked", k.duty[o].status}
      BY <1>1, <1>3, <2>2, <2>3 DEF IsExpansion, new
    <2>5. out.holds
      BY <1>5 DEF Reportable, Expansions, o
    <2>6. Untried.status = "open" /\ Untried.witnesses = {}
      BY DEF Untried
    <2> QED BY <1>1, <1>2, <1>3, <1>4, <2>3, <2>4, <2>5, <2>6 DEF next, o, receipt
  <1>6. CASE ~(o \in Expansions(s.plan) /\ out.kind = "completed")
    <2>1. next = k
      BY <1>6 DEF Reduce, k, o
    <2> QED BY <1>1, <1>2, <1>3, <1>4, <2>1 DEF next, o, receipt
  <1> QED BY <1>5, <1>6
LEMMA ReducedRevision ==
    ASSUME NEW c \in Contract, NEW s, Sound(c, s), Planned(c, s) # None,
           NEW out, Reportable(c, s, Planned(c, s), out)
    PROVE  Reduce(c, s, Planned(c, s), out).revision = s.revision + 1
  <1> DEFINE o == Planned(c, s)
             k == Counted(s, o, out)
  <1>1. o \in DOMAIN s.duty /\ Shape(c, s)
    BY PlannedIsAffordable DEF Affordable, Open, Sound
  <1>2. k.revision = s.revision + 1
    <2>1. IsCounted(k, s, o, out)
      BY <1>1, CountedFields
    <2> HIDE DEF k
    <2> QED BY <2>1 DEF IsCounted
  <1> HIDE DEF k, o
  <1>3. Expanded(c, k, o, out.targets).revision = k.revision
    BY DEF Expanded
  <1> QED BY <1>2, <1>3 DEF Reduce, k, o

\* The edges a step records are reported, and all of them, unless the inquiry ends.
LEMMA ReducedEdges ==
    ASSUME NEW c \in Contract, NEW s, Sound(c, s), Planned(c, s) # None,
           NEW out, Reportable(c, s, Planned(c, s), out)
    PROVE  LET o == Planned(c, s)
               next == Reduce(c, s, o, out)
               named == s.edges \union {<<s.plan[o].root, t>> : t \in out.targets}
           IN  /\ next.edges \subseteq named
               /\ next.edges # named =>
                     \/ next.bounded # None
                     \/ \E p \in DOMAIN next.duty : next.duty[p].status = "blocked"
  <1> DEFINE o == Planned(c, s)
             k == Counted(s, o, out)
             next == Reduce(c, s, o, out)
             root == s.plan[o].root
  <1>1. o \in DOMAIN s.duty /\ Shape(c, s) /\ DOMAIN s.plan = DOMAIN s.duty
    BY PlannedIsAffordable DEF Affordable, Open, Sound, Consistent, PlansIndexed
  <1>2. k.plan = s.plan /\ k.edges = s.edges /\ DOMAIN k.duty = DOMAIN s.duty
        /\ k.duty[o] = DutyAfter(s.duty[o], out, s.revision + 1)
    <2>1. IsCounted(k, s, o, out)
      BY <1>1, CountedFields
    <2> HIDE DEF k
    <2> QED BY <1>1, <2>1 DEF IsCounted
  <1> HIDE DEF k, o
  <1>3. CASE o \in Expansions(s.plan) /\ out.kind = "completed"
    <2> DEFINE new == New(c, k, o, out.targets)
               known == Known(k, o, out.targets)
               cyclic == Cyclic(k, o, out.targets)
               dropped == Dropped(c, k, o, out.targets)
    <2>1. next = Expanded(c, k, o, out.targets)
      BY <1>3 DEF Reduce, k, o
    <2>2. IsExpansion(next, c, k, o, out.targets)
      BY <1>1, <1>2, <2>1, DutyAfterIsDuty, ExpandedFields
    <2>3. new \subseteq out.targets /\ known \subseteq out.targets
          /\ new \intersect DOMAIN k.duty = {}
      <3>1. Sound(c, k)
        BY CountedIsSound DEF k, o
      <3>2. out.targets \in SUBSET Node /\ o \in Expansions(k.plan)
        BY <1>2, <1>3 DEF Reportable, o
      <3> QED BY <3>1, <3>2, NewNodes
    <2>4. out.targets = cyclic \union known \union new \union dropped
      BY <2>3 DEF Cyclic, Dropped
    <2> HIDE DEF new, known, cyclic, dropped, next
    <2>5. next.edges = s.edges \union {<<root, t>> : t \in known \union new}
      BY <1>2, <2>2 DEF IsExpansion, new, known
    <2>6. dropped # {} => next.bounded # None
      BY <2>2, NoneIsNoName DEF IsExpansion, dropped
    <2>7. cyclic # {} => o \in DOMAIN next.duty /\ next.duty[o].status = "blocked"
      BY <1>1, <1>2, <2>2, <2>3 DEF IsExpansion, cyclic, new
    <2>8. dropped = {} /\ cyclic = {} =>
             next.edges = s.edges \union {<<root, t>> : t \in out.targets}
      BY <2>4, <2>5
    <2>9. next.edges \subseteq s.edges \union {<<root, t>> : t \in out.targets}
      BY <2>3, <2>5
    <2> QED BY <2>6, <2>7, <2>8, <2>9 DEF next, o
  <1>4. CASE ~(o \in Expansions(s.plan) /\ out.kind = "completed")
    <2>1. next = k
      BY <1>4 DEF Reduce, k, o
    <2>2. out.targets = {}
      BY <1>1, <1>4 DEF Reportable, Expansions, o
    <2> QED BY <1>2, <2>1, <2>2 DEF next, o
  <1> QED BY <1>3, <1>4

-----------------------------------------------------------------------------
(* The invariant is one *)

LEMMA InitEstablishes == Init => IInv
  <1> SUFFICES ASSUME Init PROVE IInv
    OBVIOUS
  <1> DEFINE c == contract
             roots == {c.plan[o].root : o \in Expansions(c.plan)}
  <1>1. c \in Contract /\ ValidContract(c) /\ state = Initial(c) /\ ValidState(c, state)
        /\ reported = {} /\ verdicts = [h \in DOMAIN c.family |-> {}]
        /\ confirmed = {} /\ contradicted = {} /\ oversized = FALSE
    BY DEF Init
  <1>2. Typed(c)
    BY <1>1, ContractsAreTyped
  <1> HIDE DEF c
  <1>3. /\ state.revision = 0 /\ state.cost = 0 /\ state.evidence = 0
        /\ state.plan = c.plan /\ state.bounded = None /\ state.edges = {}
        /\ state.duty = [o \in DOMAIN c.plan |-> Untried]
        /\ state.hypothesis = [h \in DOMAIN c.family |-> Viable]
        /\ state.depth = [n \in roots |-> 0]
        /\ state = [revision |-> state.revision, actions |-> state.actions, cost |-> state.cost,
                    evidence |-> state.evidence, plan |-> state.plan, claim |-> state.claim,
                    duty |-> state.duty, hypothesis |-> state.hypothesis,
                    depth |-> state.depth, parent |-> state.parent, edges |-> state.edges,
                    bounded |-> state.bounded]
    BY <1>1 DEF Initial
  <1>4. roots \subseteq Node
    BY <1>2 DEF Typed, Expansions
  <1>5. Untried.status = "open" /\ Untried.attempts = 0 /\ Untried.witnesses = {}
        /\ Viable.status = "viable"
    BY DEF Untried, Viable
  <1>6. Shape(c, state)
    BY <1>3, <1>4, <1>5 DEF Shape
  <1>7. DutiesAreKnown(c, state)
    <2>1. DOMAIN state.duty \subseteq DOMAIN c.plan
      BY <1>3
    <2>2. \A o \in Expansions(c.plan) : o \in DOMAIN c.plan /\ c.plan[o].method = "dependency"
      BY DEF Expansions
    <2>3. \A o \in DOMAIN state.claim : state.claim[o] \in Claimed(c.claim)
      BY <1>1 DEF Initial, Claimed
    <2> QED BY <1>2, <1>3, <2>1, <2>2, <2>3 DEF DutiesAreKnown, Typed, Predicting
  <1>8. NodesAreCovered(state)
    BY <1>3 DEF NodesAreCovered
  <1>9. ReceiptsAreShared(state)
    <2>1. 1 .. state.revision = {}
      BY <1>3
    <2>2. \A o \in DOMAIN state.duty : state.duty[o] = Untried
      BY <1>3
    <2> QED BY <1>5, <2>1, <2>2, FS_EmptySet DEF ReceiptsAreShared, MaxAttempts
  <1>10. EdgesAreRemembered /\ SatisfactionIsEarned
    BY <1>1, <1>3, <1>5 DEF EdgesAreRemembered, SatisfactionIsEarned
  <1>11. VerdictsAreCounted
    BY <1>1, <1>3, <1>5 DEF VerdictsAreCounted, JudgementIsOrderFree, c
  <1>12. Consistent(c, state) /\ FitsHardCaps(state.claim, state.hypothesis)
    BY <1>1 DEF ValidState
  <1> QED BY <1>1, <1>6, <1>7, <1>8, <1>9, <1>10, <1>11, <1>12 DEF IInv, Sound, c
\* What a set of verdicts says of a hypothesis, whatever their order.
Weighed(seen) ==
    CASE seen = {} -> "viable" [] seen = {TRUE} -> "supported"
      [] seen = {FALSE} -> "refuted" [] OTHER -> "conflicted"

LEMMA JudgeIsOrderFree ==
    ASSUME NEW h, NEW seen \in SUBSET BOOLEAN, NEW holds \in BOOLEAN, NEW receipt,
           h.status = Weighed(seen)
    PROVE  Judge(h, holds, receipt).status = Weighed(seen \union {holds})
  <1>1. seen \in {{}, {TRUE}, {FALSE}, {TRUE, FALSE}}
    OBVIOUS
  <1>2. Judge(h, holds, receipt).status =
           IF h.status \in {"viable", IF holds THEN "supported" ELSE "refuted"}
           THEN IF holds THEN "supported" ELSE "refuted" ELSE "conflicted"
    BY JudgeResult
  <1>3. {} # {TRUE} /\ {} # {FALSE} /\ {TRUE} # {FALSE} /\ {TRUE, FALSE} # {}
        /\ {TRUE, FALSE} # {TRUE} /\ {TRUE, FALSE} # {FALSE}
    OBVIOUS
  <1>4. Weighed({}) = "viable" /\ Weighed({TRUE}) = "supported"
        /\ Weighed({FALSE}) = "refuted" /\ Weighed({TRUE, FALSE}) = "conflicted"
    BY <1>3 DEF Weighed
  <1>5. CASE holds = TRUE
    <2>1. seen \union {holds} = IF FALSE \in seen THEN {TRUE, FALSE} ELSE {TRUE}
      BY <1>1, <1>5
    <2> QED BY <1>1, <1>2, <1>4, <1>5, <2>1
  <1>6. CASE holds = FALSE
    <2>1. seen \union {holds} = IF TRUE \in seen THEN {TRUE, FALSE} ELSE {FALSE}
      BY <1>1, <1>6
    <2> QED BY <1>1, <1>2, <1>4, <1>6, <2>1
  <1> QED BY <1>5, <1>6

\* Every step applies one reportable outcome of the planned obligation.
LEMMA AdvancePreserves ==
    ASSUME IInv, Running, NEW out,
           Reportable(contract, state, Planned(contract, state), out), Advance(out)
    PROVE  IInv'
  <1> DEFINE o == Planned(contract, state)
             next == Reduce(contract, state, o, out)
             receipt == state.revision + 1
             won == out.kind = "completed" /\ out.holds
             lost == out.kind = "completed" /\ ~out.holds
  <1>1. contract \in Contract /\ Sound(contract, state) /\ o # None /\ o \in DOMAIN state.duty
    BY ReduceIsSound DEF IInv, Running
  <1>2. /\ state' = next /\ contract' = contract
        /\ reported' = reported \union {<<state.plan[o].root, t>> : t \in out.targets}
        /\ verdicts' = [h \in DOMAIN verdicts |->
              IF h \in DOMAIN out.observed THEN verdicts[h] \union {out.observed[h]} ELSE verdicts[h]]
        /\ confirmed' = IF won THEN confirmed \union {next.revision} ELSE confirmed
        /\ contradicted' = IF lost THEN contradicted \union {next.revision} ELSE contradicted
    BY DEF Advance, Successor
  <1>3. Sound(contract, next) /\ oversized' \in BOOLEAN
        /\ FitsHardCaps(next.claim, next.hypothesis)
    BY <1>1, ReduceIsSound DEF Advance, Successor, ValidState, IInv
  <1>4. /\ state.duty[o].status = "open"
        /\ next.revision = receipt
        /\ next.hypothesis = [h \in DOMAIN state.hypothesis |->
             IF h \in DOMAIN out.observed
             THEN Judge(state.hypothesis[h], out.observed[h], receipt) ELSE state.hypothesis[h]]
        /\ DOMAIN state.duty \subseteq DOMAIN next.duty
        /\ \A p \in DOMAIN state.duty : next.plan[p] = state.plan[p]
        /\ \A p \in (DOMAIN state.duty) \ {o} : next.duty[p] = state.duty[p]
        /\ \A p \in (DOMAIN next.duty) \ (DOMAIN state.duty) :
              next.duty[p].status = "open" /\ next.duty[p].witnesses = {}
        /\ next.duty[o].witnesses = state.duty[o].witnesses \union {receipt}
        /\ next.duty[o].status = "satisfied" => won
        /\ lost => next.duty[o].status = "blocked"
    BY <1>1, ReducedDuties
  <1>5. LET named == state.edges \union {<<state.plan[o].root, t>> : t \in out.targets}
        IN  /\ next.edges \subseteq named
            /\ next.edges # named =>
                  \/ next.bounded # None
                  \/ \E p \in DOMAIN next.duty : next.duty[p].status = "blocked"
    BY <1>1, ReducedEdges
  <1>6. reported = state.edges
    <2>1. Terminal(contract, state) = "none" /\ Shape(contract, state)
      BY <1>1, PlannedIsAffordable DEF Sound
    <2>2. state.bounded = None /\ Blockers(state) = {}
      BY <2>1, GoesOn
    <2> QED BY <2>2 DEF IInv, EdgesAreRemembered, Blockers
  <1>7. receipt \in Nat /\ state.revision \in Nat /\ receipt \notin 1 .. state.revision
        /\ (1 .. state.revision) \union {receipt} = 1 .. receipt
    BY <1>1 DEF Sound, Shape
  <1> HIDE DEF next, o, receipt, won, lost
  <1>8. EdgesAreRemembered'
    BY <1>2, <1>5, <1>6 DEF EdgesAreRemembered
  <1>9. SatisfactionIsEarned'
    <2>1. confirmed \union contradicted \subseteq 1 .. state.revision
      BY DEF IInv, SatisfactionIsEarned
    <2>2. confirmed' \union contradicted' \subseteq 1 .. state'.revision
      BY <1>2, <1>4, <1>7, <2>1
    <2>3. \A p \in DOMAIN state.duty : receipt \notin state.duty[p].witnesses
      BY <1>1, <1>7 DEF Sound, Consistent, WitnessesApplied
    <2>4. ASSUME NEW p \in DOMAIN next.duty
          PROVE  /\ next.duty[p].status = "satisfied" =>
                       /\ next.duty[p].witnesses \intersect confirmed' # {}
                       /\ next.plan[p].method \notin {"counterexample", "formal"}
                 /\ next.duty[p].status # "blocked" =>
                       next.duty[p].witnesses \intersect contradicted' = {}
      <3>1. CASE p \in (DOMAIN state.duty) \ {o}
        <4>1. /\ state.duty[p].status = "satisfied" =>
                    /\ state.duty[p].witnesses \intersect confirmed # {}
                    /\ state.plan[p].method \notin {"counterexample", "formal"}
              /\ state.duty[p].status # "blocked" =>
                    state.duty[p].witnesses \intersect contradicted = {}
          BY <3>1 DEF IInv, SatisfactionIsEarned
        <4>2. next.duty[p] = state.duty[p] /\ next.plan[p] = state.plan[p]
          BY <1>4, <3>1
        <4>3. confirmed \subseteq confirmed' /\ contradicted' \subseteq contradicted \union {receipt}
          BY <1>2, <1>4
        <4> QED BY <2>3, <3>1, <4>1, <4>2, <4>3
      <3>2. CASE p = o
        <4>1. state.duty[o].witnesses \intersect contradicted = {}
          BY <1>1, <1>4 DEF IInv, SatisfactionIsEarned
        <4>2. won => receipt \in confirmed' /\ state.plan[o].method \notin {"counterexample", "formal"}
          BY <1>2, <1>4 DEF Reportable, won, o
        <4>3. ~lost => contradicted' = contradicted
          BY <1>2
        <4>4. next.plan[o] = state.plan[o] /\ receipt \notin contradicted
          BY <1>1, <1>4, <1>7, <2>1
        <4> QED BY <1>4, <3>2, <4>1, <4>2, <4>3, <4>4
      <3>3. CASE p \notin DOMAIN state.duty
        BY <1>4, <3>3
      <3> QED BY <3>1, <3>2, <3>3
    <2> QED BY <1>2, <2>2, <2>4 DEF SatisfactionIsEarned
  <1>10. VerdictsAreCounted'
    <2>1. DOMAIN verdicts = DOMAIN contract.family /\ DOMAIN state.hypothesis = DOMAIN contract.family
          /\ DOMAIN verdicts' = DOMAIN verdicts
          /\ \A h \in DOMAIN verdicts : verdicts[h] \subseteq BOOLEAN
                /\ state.hypothesis[h].status = Weighed(verdicts[h])
      BY <1>1, <1>2 DEF IInv, VerdictsAreCounted, JudgementIsOrderFree, Weighed, Sound, Shape
    <2>2. ASSUME NEW h \in DOMAIN verdicts
          PROVE  verdicts'[h] \subseteq BOOLEAN
                 /\ next.hypothesis[h].status = Weighed(verdicts'[h])
      <3>1. CASE h \in DOMAIN out.observed
        <4>1. out.observed[h] \in BOOLEAN
          BY <3>1 DEF Reportable
        <4>2. verdicts'[h] = verdicts[h] \union {out.observed[h]}
              /\ next.hypothesis[h] = Judge(state.hypothesis[h], out.observed[h], receipt)
          BY <1>2, <1>4, <2>1, <3>1
        <4> QED BY <2>1, <4>1, <4>2, JudgeIsOrderFree
      <3>2. CASE h \notin DOMAIN out.observed
        BY <1>2, <1>4, <2>1, <3>2
      <3> QED BY <3>1, <3>2
    <2> QED BY <1>2, <2>1, <2>2 DEF VerdictsAreCounted, JudgementIsOrderFree, Weighed
  <1> QED BY <1>1, <1>2, <1>3, <1>8, <1>9, <1>10 DEF IInv

LEMMA NextPreserves == IInv /\ [Next]_vars => IInv'
  <1> SUFFICES ASSUME IInv, [Next]_vars PROVE IInv'
    OBVIOUS
  <1>1. CASE Complete
    <2>1. PICK out \in Completions(contract, state, Planned(contract, state)) : Advance(out)
      BY <1>1 DEF Complete
    <2> QED BY <1>1, <2>1, CompletionsAreReportable, AdvancePreserves DEF Complete
  <1>2. CASE GiveUp
    BY <1>2, SilenceIsReportable, AdvancePreserves DEF GiveUp
  <1>3. CASE Block
    BY <1>3, SilenceIsReportable, AdvancePreserves DEF Block
  <1>4. CASE Overflow \/ UNCHANGED vars
    <2>1. UNCHANGED <<contract, state, reported, verdicts, confirmed, contradicted>>
          /\ oversized' \in BOOLEAN
      BY <1>4 DEF Overflow, vars, IInv
    <2> QED BY <2>1 DEF IInv, EdgesAreRemembered, SatisfactionIsEarned, VerdictsAreCounted,
                        JudgementIsOrderFree
  <1> QED BY <1>1, <1>2, <1>3, <1>4 DEF Next
-----------------------------------------------------------------------------
(* What follows from it *)

LEMMA InvariantTypes == IInv => TypeOK
  <1> SUFFICES ASSUME IInv PROVE TypeOK
    OBVIOUS
  <1>1. Shape(contract, state) /\ ReceiptsAreShared(state)
        /\ state.edges \subseteq (DOMAIN state.depth) \X (DOMAIN state.depth)
    BY DEF IInv, Sound, Consistent, GraphIndexed
  <1>2. state.edges \subseteq Node \X Node
    BY <1>1 DEF Shape
  <1>3. /\ state.bounded \in {None, "depth_limit", "node_limit"}
        /\ \A o \in DOMAIN state.duty : state.duty[o].status \in {"open", "satisfied", "blocked"}
        /\ \A h \in DOMAIN state.hypothesis :
              state.hypothesis[h].status \in {"viable", "supported", "refuted", "conflicted"}
    BY <1>1 DEF Shape, ReceiptsAreShared
  <1>4. state.edges \subseteq reported /\ confirmed \union contradicted \subseteq 1 .. state.revision
        /\ contract \in Contract /\ oversized \in BOOLEAN
    BY DEF IInv, EdgesAreRemembered, SatisfactionIsEarned
  <1> QED BY <1>2, <1>3, <1>4 DEF TypeOK

LEMMA InvariantCounts == IInv => EachReceiptCountsOnce
  <1> SUFFICES ASSUME IInv PROVE EachReceiptCountsOnce
    OBVIOUS
  <1>1. ReceiptsAreShared(state)
    BY DEF IInv, Sound
  <1>2. ASSUME NEW r \in 1 .. state.revision
        PROVE  Cardinality({o \in DOMAIN state.duty : r \in state.duty[o].witnesses}) = 1
    <2>1. PICK o \in DOMAIN state.duty : r \in state.duty[o].witnesses
      BY <1>1 DEF ReceiptsAreShared
    <2>2. \A d \in DOMAIN state.duty : r \in state.duty[d].witnesses => d = o
      BY <1>1, <2>1 DEF ReceiptsAreShared
    <2>3. {d \in DOMAIN state.duty : r \in state.duty[d].witnesses} = {o}
      BY <2>1, <2>2
    <2> QED BY <2>3, FS_Singleton
  <1> QED BY <1>1, <1>2 DEF EachReceiptCountsOnce, ReceiptsAreShared

\* The obligations and claims of a sound state are those of the contract and one of each
\* for the nodes, so that caps with room for all of these hold.
LEMMA RoomIsEnough ==
    ASSUME NEW c \in Contract, NEW s, Sound(c, s), Roomy(c),
           Cardinality(DOMAIN s.hypothesis) <= MaxHypotheses
    PROVE  FitsHardCaps(s.claim, s.hypothesis)
  <1> DEFINE nodes == DOMAIN s.depth
             plans == DOMAIN c.plan
             claims == Claimed(c.claim)
  <1>1. /\ DOMAIN s.claim \subseteq plans \union nodes
        /\ Claimed(s.claim) \subseteq claims \union nodes
        /\ nodes \subseteq Node /\ Cardinality(nodes) <= c.limit.nodes
    BY DEF Sound, Shape, DutiesAreKnown, Consistent, PlansIndexed, WithinBudget, Claimed
  <1>2. IsFiniteSet(plans) /\ DOMAIN c.claim = plans /\ c.limit.nodes \in Nat
    BY ContractsAreTyped DEF Typed
  <1>3. IsFiniteSet(claims)
    <2> DEFINE name == [o \in plans |-> c.claim[o]]
    <2>1. name \in Surjection(plans, claims)
      BY <1>2 DEF Surjection, Claimed
    <2> QED BY <1>2, <2>1, FS_Surjection
  <1>4. IsFiniteSet(nodes)
    BY <1>1, NodesAreNumbered, FS_Subset
  <1> HIDE DEF nodes, plans, claims
  <1>5. ASSUME NEW own, IsFiniteSet(own), NEW all \in SUBSET (own \union nodes)
        PROVE  /\ Cardinality(all) \in Nat /\ Cardinality(own) \in Nat
               /\ Cardinality(all) <= Cardinality(own) + c.limit.nodes
    <2>1. /\ IsFiniteSet(own \union nodes) /\ Cardinality(own \union nodes)
              = Cardinality(own) + Cardinality(nodes) - Cardinality(own \intersect nodes)
          /\ IsFiniteSet(own \intersect nodes)
      BY <1>4, <1>5, FS_Union, FS_Intersection
    <2>2. IsFiniteSet(all) /\ Cardinality(all) <= Cardinality(own \union nodes)
      BY <2>1, FS_Subset
    <2>3. /\ Cardinality(all) \in Nat /\ Cardinality(own) \in Nat /\ Cardinality(nodes) \in Nat
          /\ Cardinality(own \union nodes) \in Nat /\ Cardinality(own \intersect nodes) \in Nat
      BY <1>4, <1>5, <2>1, <2>2, FS_CardinalityType
    <2> QED BY <1>1, <1>2, <2>1, <2>2, <2>3
  <1>6. Cardinality(DOMAIN s.claim) <= MaxObligations
    <2>1. /\ Cardinality(DOMAIN s.claim) \in Nat /\ Cardinality(plans) \in Nat
          /\ Cardinality(DOMAIN s.claim) <= Cardinality(plans) + c.limit.nodes
      BY <1>1, <1>2, <1>5
    <2>2. Cardinality(plans) + c.limit.nodes <= MaxObligations
      BY DEF Roomy, plans
    <2> QED BY <1>2, <2>1, <2>2, HardCapsAreNumbers
  <1>7. Cardinality(Claimed(s.claim)) <= MaxClaims
    <2>1. /\ Cardinality(Claimed(s.claim)) \in Nat /\ Cardinality(claims) \in Nat
          /\ Cardinality(Claimed(s.claim)) <= Cardinality(claims) + c.limit.nodes
      BY <1>1, <1>3, <1>5
    <2>2. Cardinality(claims) + c.limit.nodes <= MaxClaims
      BY DEF Roomy, claims
    <2> QED BY <1>2, <2>1, <2>2, HardCapsAreNumbers
  <1> QED BY <1>6, <1>7 DEF FitsHardCaps

\* Only a completed expansion adds obligations or claims; nothing adds hypotheses.
LEMMA ReducedClaims ==
    ASSUME NEW c \in Contract, NEW s, Sound(c, s), Planned(c, s) # None, NEW out
    PROVE  LET o == Planned(c, s)
               next == Reduce(c, s, o, out)
           IN  /\ DOMAIN next.hypothesis = DOMAIN s.hypothesis
               /\ ~(o \in Expansions(s.plan) /\ out.kind = "completed") => next.claim = s.claim
  <1> DEFINE o == Planned(c, s)
             k == Counted(s, o, out)
  <1>1. o \in DOMAIN s.duty /\ Shape(c, s)
    BY PlannedIsAffordable DEF Affordable, Open, Sound
  <1>2. k.claim = s.claim /\ DOMAIN k.hypothesis = DOMAIN s.hypothesis
    <2>1. IsCounted(k, s, o, out)
      BY <1>1, CountedFields
    <2> HIDE DEF k
    <2> QED BY <2>1 DEF IsCounted
  <1> HIDE DEF k, o
  <1>3. Expanded(c, k, o, out.targets).hypothesis = k.hypothesis
    BY DEF Expanded
  <1> QED BY <1>2, <1>3 DEF Reduce, k, o

LEMMA InvariantReduces == IInv => ReducerOutputIsValid
  <1> SUFFICES ASSUME IInv, Running PROVE ReducerOutputIsValid
    BY DEF ReducerOutputIsValid
  <1> DEFINE o == Planned(contract, state)
             next(out) == Reduce(contract, state, o, out)
             grows(out) == o \in Expansions(state.plan) /\ out.kind = "completed"
             fits(out) == FitsHardCaps(next(out).claim, next(out).hypothesis)
  <1>1. /\ contract \in Contract /\ Sound(contract, state) /\ o # None
        /\ FitsHardCaps(state.claim, state.hypothesis)
    BY DEF IInv, Running
  <1>2. ASSUME NEW out, Reportable(contract, state, o, out)
        PROVE  /\ fits(out) => ValidState(contract, next(out))
               /\ ~fits(out) => grows(out) /\ ~Roomy(contract)
    <2>1. Sound(contract, next(out))
      BY <1>1, <1>2, ReduceIsSound
    <2>2. DOMAIN next(out).hypothesis = DOMAIN state.hypothesis
          /\ (~grows(out) => next(out).claim = state.claim)
      BY <1>1, ReducedClaims
    <2> HIDE DEF next, grows, o
    <2>3. ~grows(out) => fits(out)
      BY <1>1, <2>2 DEF FitsHardCaps
    <2>4. Roomy(contract) => fits(out)
      BY <1>1, <2>1, <2>2, RoomIsEnough DEF FitsHardCaps
    <2> QED BY <2>1, <2>3, <2>4 DEF Sound, ValidState
  <1>3. \A out \in Completions(contract, state, o) \union {Refusal, NoResult} :
           Reportable(contract, state, o, out)
    BY CompletionsAreReportable, SilenceIsReportable
  <1>4. \A out \in Completions(contract, state, o) \union {Refusal, NoResult} :
           \/ ValidState(contract, next(out))
           \/ grows(out) /\ ~fits(out) /\ ~Roomy(contract)
    BY <1>2, <1>3
  <1> HIDE DEF o
  <1> QED BY <1>4 DEF ReducerOutputIsValid, o

LEMMA InvariantCompletes == IInv => CompletionIsHonest
  <1> SUFFICES ASSUME IInv PROVE CompletionIsHonest
    OBVIOUS
  <1>1. /\ Shape(contract, state) /\ NodesAreCovered(state) /\ PlansIndexed(contract, state)
        /\ state.edges \subseteq (DOMAIN state.depth) \X (DOMAIN state.depth)
        /\ EdgesAreRemembered /\ SatisfactionIsEarned
    BY DEF IInv, Sound, Consistent, GraphIndexed
  <1>2. (\E o \in DOMAIN state.duty : state.duty[o].status = "blocked") =>
           Terminal(contract, state) = "blocked"
    BY DEF Terminal, Blockers
  <1>3. state.bounded # None => Terminal(contract, state) \in {"blocked", "depth_limit", "node_limit"}
    BY <1>1 DEF Terminal, Shape
  <1>4. DroppedEdgeEnds
    BY <1>1, <1>2, <1>3 DEF DroppedEdgeEnds, EdgesAreRemembered
  <1>5. ASSUME Terminal(contract, state) = "complete"
        PROVE  /\ state.edges = reported
               /\ \A e \in reported : \E o \in Expansions(state.plan) :
                     state.plan[o].root = e[2] /\ state.duty[o].witnesses \intersect confirmed # {}
    <2>1. state.edges = reported
      BY <1>4, <1>5 DEF DroppedEdgeEnds
    <2>2. AllSatisfied(state)
      BY <1>3, <1>5 DEF Terminal
    <2>3. ASSUME NEW e \in reported
          PROVE  \E o \in Expansions(state.plan) :
                    state.plan[o].root = e[2] /\ state.duty[o].witnesses \intersect confirmed # {}
      <3>1. e[2] \in DOMAIN state.depth
        BY <1>1, <2>1
      <3>2. PICK o \in Expansions(state.plan) : state.plan[o].root = e[2]
        BY <1>1, <3>1 DEF NodesAreCovered
      <3>3. o \in DOMAIN state.duty
        BY <1>1 DEF Expansions, PlansIndexed
      <3> QED BY <1>1, <2>2, <3>2, <3>3 DEF AllSatisfied, SatisfactionIsEarned
    <2> QED BY <2>1, <2>3
  <1> QED BY <1>4, <1>5 DEF CompletionIsHonest, CompleteMeansClosed

LEMMA InvariantAssesses == IInv => AssessmentsAreEarned
  <1> SUFFICES ASSUME IInv PROVE AssessmentsAreEarned
    OBVIOUS
  <1>1. SatisfactionIsEarned /\ DOMAIN state.claim = DOMAIN state.duty
    BY DEF IInv, Sound, Consistent, PlansIndexed
  <1>2. ASSUME NEW claim, Assessment(state, claim) = "established", NEW o \in DutiesOf(state, claim)
        PROVE  /\ state.duty[o].witnesses \intersect confirmed # {}
               /\ state.duty[o].witnesses \intersect contradicted = {}
               /\ state.plan[o].method \notin {"counterexample", "formal"}
    <2>1. state.duty[o].status = "satisfied" /\ o \in DOMAIN state.duty
      BY <1>1, <1>2 DEF Assessment, DutiesOf
    <2> QED BY <1>1, <2>1 DEF SatisfactionIsEarned
  <1>3. JudgementIsOrderFree
    BY DEF IInv, VerdictsAreCounted
  <1> QED BY <1>2, <1>3 DEF AssessmentsAreEarned, NoClaimFromSilence

-----------------------------------------------------------------------------
(* The theorems *)

\* In every state of an inquiry the validator accepts it, and its history bears it out.
THEOREM InvariantHolds == Spec => []IInv
  BY InitEstablishes, NextPreserves, PTL DEF Spec

\* A receipt counts once, and the successor that the reducer builds from any outcome a
\* verifier lets through is one that validate_state accepts, unless an expansion takes the
\* claims or obligations over a hard cap; it cannot for a contract that leaves room for the
\* nodes it allows: there advance is never stuck.
THEOREM InquiryStaysSound == Spec => []InquiryIsSound
  <1>1. IInv => InquiryIsSound
    BY InvariantTypes, InvariantCounts, InvariantReduces DEF InquiryIsSound
  <1> QED BY <1>1, InvariantHolds, PTL

\* An inquiry that derive_terminal calls complete has recorded every dependency that was
\* reported, and has expanded every node it names.
THEOREM CompletionStaysHonest == Spec => []CompletionIsHonest
  BY InvariantCompletes, InvariantHolds, PTL

\* derive_claim_assessment establishes a claim by matching observations alone, and
\* reduce_hypothesis_assessment comes to the same in whatever order they arrive.
THEOREM AssessmentsStayEarned == Spec => []AssessmentsAreEarned
  BY InvariantAssesses, InvariantHolds, PTL

\* Every advance that goes through uses up one of the revisions the contract allows; that the
\* inquiry ends follows, for whoever goes on driving it.
THEOREM EveryStepUsesARevision ==
    Spec => [][/\ contract' = contract
               /\ state'.revision = state.revision + 1
               /\ state'.revision <= contract.limit.revision]_<<contract, state>>
  <1> DEFINE Spent == /\ contract' = contract
                      /\ state'.revision = state.revision + 1
                      /\ state'.revision <= contract.limit.revision
  <1>1. IInv /\ [Next]_vars => [Spent]_<<contract, state>>
    <2>1. ASSUME IInv, Running, NEW out,
                 Reportable(contract, state, Planned(contract, state), out), Advance(out)
          PROVE  Spent
      <3> DEFINE next == Reduce(contract, state, Planned(contract, state), out)
      <3>1. contract' = contract /\ state' = next /\ ValidState(contract, next)
        BY <2>1 DEF Advance, Successor
      <3>2. next.revision = state.revision + 1
        <4>1. contract \in Contract /\ Sound(contract, state) /\ Planned(contract, state) # None
          BY <2>1 DEF IInv, Running
        <4>2. Reportable(contract, state, Planned(contract, state), out)
          BY <2>1
        <4>3. Reduce(contract, state, Planned(contract, state), out).revision = state.revision + 1
          BY <4>1, <4>2, ReducedRevision
        <4> QED BY <4>3
      <3> QED BY <3>1, <3>2 DEF ValidState, Consistent, WithinBudget
    <2>2. ASSUME IInv, Complete PROVE Spent
      <3>1. PICK out \in Completions(contract, state, Planned(contract, state)) : Advance(out)
        BY <2>2 DEF Complete
      <3> QED BY <2>1, <2>2, <3>1, CompletionsAreReportable DEF Complete
    <2>3. ASSUME IInv, GiveUp \/ Block PROVE Spent
      BY <2>1, <2>3, SilenceIsReportable DEF GiveUp, Block
    <2>4. Overflow \/ UNCHANGED vars => UNCHANGED <<contract, state>>
      BY DEF Overflow, vars
    <2> HIDE DEF Spent
    <2> QED BY <2>2, <2>3, <2>4 DEF Next
  <1> QED BY <1>1, InvariantHolds, PTL DEF Spec

-----------------------------------------------------------------------------
(* Lineages. *)

\* A lineage has room for a genesis.
LEMMA MaxLengthIsPositive == MaxLength \in Nat /\ MaxLength > 0
BY KnowledgeHeadAssumption

\* A lineage is a sequence that is not empty and not too long.
LEMMA LineageIsSeq ==
    ASSUME NEW l \in Lineage
    PROVE  /\ l \in Seq(Genesis \union Receipt)
           /\ Len(l) \in 1..MaxLength
           /\ l # <<>>
           /\ l[1] \in Genesis /\ \A i \in 2..Len(l) : l[i] \in Receipt
<1>1. PICK n \in 1..MaxLength : l \in [1..n -> Genesis \union Receipt]
  BY DEF Lineage
<1>2. n \in Nat /\ MaxLength \in Nat
  BY MaxLengthIsPositive
<1>3. l \in Seq(Genesis \union Receipt) /\ Len(l) = n
  BY <1>1, <1>2
<1> QED BY <1>1, <1>2, <1>3 DEF Lineage

\* What starts with a genesis and goes on with receipts is a lineage.
LEMMA SeqIsLineage ==
    ASSUME NEW l \in Seq(Genesis \union Receipt), Len(l) \in 1..MaxLength,
           l[1] \in Genesis, \A i \in 2..Len(l) : l[i] \in Receipt
    PROVE  l \in Lineage
<1>1. l \in [1..Len(l) -> Genesis \union Receipt]
  OBVIOUS
<1> QED BY <1>1 DEF Lineage

\* A genesis alone is a lineage.
LEMMA GenesisIsLineage ==
    ASSUME NEW g \in Genesis
    PROVE  <<g>> \in Lineage /\ Len(<<g>>) = 1 /\ <<g>> # <<>>
<1> DEFINE l == <<g>>
<1>1. l \in Seq(Genesis \union Receipt) /\ Len(l) = 1 /\ l[1] \in Genesis /\ l # <<>>
  OBVIOUS
<1> HIDE DEF l
<1>2. Len(l) \in 1..MaxLength /\ \A i \in 2..Len(l) : l[i] \in Receipt
  BY <1>1, MaxLengthIsPositive
<1>3. l \in Lineage
  BY <1>1, <1>2, SeqIsLineage
<1> QED BY <1>1, <1>3 DEF l

\* A prefix of a lineage is a lineage; the longest is the lineage itself.
LEMMA PrefixIsLineage ==
    ASSUME NEW l \in Lineage, NEW n \in 1..Len(l)
    PROVE  /\ SubSeq(l, 1, n) \in Lineage
           /\ Len(SubSeq(l, 1, n)) = n
           /\ SubSeq(l, 1, Len(l)) = l
<1>1. l \in Seq(Genesis \union Receipt) /\ Len(l) \in 1..MaxLength /\ MaxLength \in Nat
  BY LineageIsSeq, MaxLengthIsPositive
<1>2. \A i \in 1..n : l[i] \in Genesis \union Receipt
  BY <1>1, ElementOfSeq
<1> DEFINE s == SubSeq(l, 1, n)
<1>3. /\ s \in Seq(Genesis \union Receipt) /\ Len(s) = n
      /\ \A i \in 1..n : s[i] = l[i]
  BY <1>1, <1>2, SubSeqProperties
<1>4. s[1] \in Genesis /\ \A i \in 2..Len(s) : s[i] \in Receipt
  BY <1>1, <1>3, LineageIsSeq
<1>5. s \in Lineage
  <2>1. Len(s) \in 1..MaxLength
    BY <1>1, <1>3
  <2> HIDE DEF s
  <2> QED BY <1>3, <1>4, <2>1, SeqIsLineage
<1>6. SubSeq(l, 1, Len(l)) = l
  BY <1>1, SubSeqFull
<1> QED BY <1>3, <1>5, <1>6

\* The prefixes of a lineage are lineages, and it is one of them.
LEMMA PrefixesAreLineages ==
    ASSUME NEW l \in Lineage
    PROVE  Ancestry(l) \subseteq Lineage /\ l \in Ancestry(l)
<1>1. Len(l) \in 1..Len(l)
  BY LineageIsSeq, MaxLengthIsPositive
<1> QED BY <1>1, PrefixIsLineage DEF Ancestry

\* Before the first state there is nothing.
LEMMA PrefixesOfNothing == Ancestry(<<>>) = {}
BY DEF Ancestry

\* A genesis has no parent.
LEMMA ParentOfGenesis ==
    ASSUME NEW l \in Lineage, Len(l) = 1
    PROVE  Parent(l) = <<>> /\ Ancestry(l) = {l}
<1>1. Parent(l) = <<>>
  BY SubSeqEmpty DEF Parent
<1>2. SubSeq(l, 1, 1) = l
  BY PrefixIsLineage
<1> QED BY <1>1, <1>2 DEF Ancestry

\* A later state adds itself to the lineage of its parent.
LEMMA ParentOfAdvance ==
    ASSUME NEW l \in Lineage, Len(l) # 1
    PROVE  /\ Parent(l) \in Lineage /\ Len(Parent(l)) = Len(l) - 1
           /\ Ancestry(l) = Ancestry(Parent(l)) \union {l}
<1>1. l \in Seq(Genesis \union Receipt) /\ Len(l) \in Nat /\ Len(l) - 1 \in 1..Len(l)
  <2>1. l \in Seq(Genesis \union Receipt) /\ Len(l) \in 1..MaxLength
    BY LineageIsSeq
  <2>2. \A n \in 1..MaxLength : n # 1 => n \in Nat /\ n - 1 \in 1..n
    BY MaxLengthIsPositive
  <2> QED BY <2>1, <2>2
<1>2. Parent(l) \in Lineage /\ Len(Parent(l)) = Len(l) - 1
  BY <1>1, PrefixIsLineage DEF Parent
<1>3. \A n \in 1..Len(l) - 1 : SubSeq(Parent(l), 1, n) = SubSeq(l, 1, n)
  <2> SUFFICES ASSUME NEW n \in 1..Len(l) - 1
               PROVE  SubSeq(Parent(l), 1, n) = SubSeq(l, 1, n)
    OBVIOUS
  <2>1. /\ 1 \in 1..Len(l) /\ 1 \in 1..(Len(l) - 1) - 1 + 1
        /\ n \in 1..(Len(l) - 1) - 1 + 1
    BY <1>1
  <2>2. SubSeq(SubSeq(l, 1, Len(l) - 1), 1, n) = SubSeq(l, 1 + 1 - 1, 1 + n - 1)
    BY <1>1, <2>1, SubSeqOfSubSeq
  <2> QED BY <2>2 DEF Parent
<1>4. 1..Len(l) = 1..(Len(l) - 1) \union {Len(l)}
  BY <1>1
<1>5. SubSeq(l, 1, Len(l)) = l
  BY <1>1, PrefixIsLineage
<1> QED BY <1>2, <1>3, <1>4, <1>5 DEF Ancestry

\* An advance of a lineage with room left is a lineage, and remembers it.
LEMMA AdvanceIsLineage ==
    ASSUME NEW h \in Lineage, NEW r \in Receipt, Len(h) < MaxLength
    PROVE  Append(h, r) \in Lineage /\ Len(Append(h, r)) = Len(h) + 1
<1>1. /\ h \in Seq(Genesis \union Receipt) /\ Len(h) \in 1..MaxLength /\ MaxLength \in Nat
      /\ h[1] \in Genesis /\ \A i \in 2..Len(h) : h[i] \in Receipt
  BY LineageIsSeq, MaxLengthIsPositive
<1> DEFINE l == Append(h, r)
<1>2. /\ l \in Seq(Genesis \union Receipt) /\ Len(l) = Len(h) + 1
      /\ \A i \in 1..Len(h) : l[i] = h[i]
      /\ l[Len(h) + 1] = r
  BY <1>1, AppendProperties
<1>3. l[1] \in Genesis /\ \A i \in 2..Len(l) : l[i] \in Receipt
  BY <1>1, <1>2
<1>4. Len(l) \in 1..MaxLength
  BY <1>1, <1>2
<1> HIDE DEF l
<1>5. l \in Lineage
  BY <1>2, <1>3, <1>4, SeqIsLineage
<1> QED BY <1>2, <1>5 DEF l

-----------------------------------------------------------------------------
(***************************************************************************)
(* The inductive invariant: types, mutual exclusion, and what a caller has *)
(* established by the point it has reached.                                *)
(***************************************************************************)

\* A call names a state exactly while it lasts.
CallMatchesPC == \A p \in Process : pc[p] = "idle" <=> call[p] = <<>>

\* A caller that has replaced the pointer still holds the lock over it.
PublishedIsHead == \A p \in Process : pc[p] = "published" => pointer = call[p]

HeadIInv == HeadTypeOK /\ CallMatchesPC /\ PublishedIsHead /\ HeadAlwaysLoads /\ AcknowledgedStays

\* An inquiry without a head satisfies the invariant.
LEMMA HeadInitIInv == HeadInit => HeadIInv
BY KnowledgeHeadAssumption, PrefixesOfNothing
   DEF HeadInit, HeadIInv, HeadTypeOK, CallMatchesPC, PublishedIsHead, HeadAlwaysLoads, AcknowledgedStays

\* A genesis is proposed, or the action of a head loaded now or earlier is
\* executed: a receipt is written, the head is not touched.
LEMMA CallIInv ==
    ASSUME HeadIInv, NEW p \in Process, ProposeGenesis(p) \/ Execute(p)
    PROVE  /\ HeadIInv'
           /\ call'[p] \in Lineage /\ Len(call'[p]) - 1 \in 0..Len(pointer)
           /\ call' = [call EXCEPT ![p] = call'[p]]
<1>1. CASE ProposeGenesis(p)
  <2>1. PICK g \in Genesis : call' = [call EXCEPT ![p] = <<g>>]
    BY <1>1 DEF ProposeGenesis
  <2>2. <<g>> \in Lineage /\ Len(<<g>>) = 1 /\ <<g>> # <<>>
    BY GenesisIsLineage
  <2>3. Len(pointer) \in Nat
    <3>1. pointer = <<>> \/ Len(pointer) \in 1..MaxLength
      BY LineageIsSeq DEF HeadIInv, HeadTypeOK
    <3> QED BY <3>1
  <2>4. call'[p] = <<g>>
    BY <2>1 DEF HeadIInv, HeadTypeOK
  <2>5. HeadIInv'
    BY <1>1, <2>1, <2>2 DEF ProposeGenesis, files, HeadIInv, HeadTypeOK, CallMatchesPC, PublishedIsHead,
       HeadAlwaysLoads, AcknowledgedStays
  <2>6. call'[p] \in Lineage /\ Len(call'[p]) = 1
    BY <2>2, <2>4
  <2>7. Len(call'[p]) - 1 \in 0..Len(pointer)
    BY <2>3, <2>6
  <2>8. call' = [call EXCEPT ![p] = call'[p]]
    BY <2>1, <2>4
  <2> QED BY <2>5, <2>6, <2>7, <2>8
<1>2. CASE Execute(p)
  <2>1. PICK h \in Ancestry(pointer), r \in Receipt :
           /\ call' = [call EXCEPT ![p] = Append(h, r)]
           /\ receipts' = receipts \union {Append(h, r)}
    BY <1>2 DEF Execute
  <2>2. pointer \in Lineage /\ h \in Lineage /\ Len(h) \in 1..Len(pointer)
    <3>1. pointer # <<>>
      BY <2>1, PrefixesOfNothing
    <3>2. pointer \in Lineage
      BY <3>1 DEF HeadIInv, HeadTypeOK
    <3>3. PICK n \in 1..Len(pointer) : h = SubSeq(pointer, 1, n)
      BY <2>1 DEF Ancestry
    <3> QED BY <3>2, <3>3, PrefixIsLineage
  <2>3. Len(pointer) \in Nat /\ Len(pointer) < MaxLength
    BY <1>2, <2>2, LineageIsSeq, MaxLengthIsPositive DEF Execute
  <2>4. /\ Append(h, r) \in Lineage /\ Append(h, r) # <<>>
        /\ Len(Append(h, r)) = Len(h) + 1
    <3>1. Len(h) < MaxLength
      BY <2>2, <2>3, MaxLengthIsPositive
    <3> QED BY <2>2, <3>1, AdvanceIsLineage, LineageIsSeq
  <2>5. call'[p] = Append(h, r)
    BY <2>1 DEF HeadIInv, HeadTypeOK
  <2>6. HeadIInv'
    BY <1>2, <2>1, <2>4 DEF Execute, HeadIInv, HeadTypeOK, CallMatchesPC, PublishedIsHead,
       HeadAlwaysLoads, AcknowledgedStays
  <2>7. Len(call'[p]) - 1 \in 0..Len(pointer)
    BY <2>2, <2>3, <2>4, <2>5
  <2> QED BY <2>1, <2>4, <2>5, <2>6, <2>7
<1> QED BY <1>1, <1>2

\* The state is persisted, then the lock is taken: the head is not touched.
LEMMA WaitIInv ==
    ASSUME HeadIInv, NEW p \in Process, Persist(p) \/ Acquire(p)
    PROVE  HeadIInv'
<1> USE KnowledgeHeadAssumption DEF Persist, Acquire, files
<1>1. call[p] \in Lineage
  BY DEF HeadIInv, HeadTypeOK, CallMatchesPC
<1>2. HeadTypeOK'
  BY <1>1 DEF HeadIInv, HeadTypeOK
<1>3. CallMatchesPC' /\ PublishedIsHead' /\ HeadAlwaysLoads' /\ AcknowledgedStays'
  BY DEF HeadIInv, HeadTypeOK, CallMatchesPC, PublishedIsHead, HeadAlwaysLoads, AcknowledgedStays
<1> QED BY <1>2, <1>3 DEF HeadIInv

\* The pointer moves from the parent of a state to the state.
LEMMA PublishIInv ==
    ASSUME HeadIInv, NEW p \in Process, Publish(p)
    PROVE  HeadIInv'
<1> USE DEF Publish, Swappable
<1>1. call[p] \in Lineage /\ pc[p] = "locked"
  BY DEF HeadIInv, HeadTypeOK, CallMatchesPC
<1>2. Ancestry(pointer) \subseteq Ancestry(call[p])
  BY <1>1, ParentOfGenesis, ParentOfAdvance, PrefixesOfNothing
<1>3. HeadTypeOK'
  BY <1>1 DEF HeadIInv, HeadTypeOK
<1>4. CallMatchesPC'
  BY <1>1 DEF HeadIInv, HeadTypeOK, CallMatchesPC
<1>5. PublishedIsHead'
  BY <1>1, KnowledgeHeadAssumption DEF HeadIInv, HeadTypeOK, PublishedIsHead
<1>6. HeadAlwaysLoads'
  BY DEF HeadAlwaysLoads, Authentic
<1>7. AcknowledgedStays'
  BY <1>2 DEF HeadIInv, AcknowledgedStays
<1> QED BY <1>3, <1>4, <1>5, <1>6, <1>7 DEF HeadIInv

\* The call ends: with an answer, with the new head, or abandoned anywhere.
LEMMA EndOfCallIInv ==
    ASSUME HeadIInv, NEW p \in Process, Answer(p) \/ Return(p) \/ Abandon(p)
    PROVE  HeadIInv'
<1> USE KnowledgeHeadAssumption DEF Answer, Return, Abandon, Finish, files
<1>1. promised' \subseteq promised \union (Ancestry(pointer) \intersect Lineage)
  <2>1. pointer = call[p] /\ pc[p] # "idle" => call[p] \in Ancestry(pointer) \intersect Lineage
    BY PrefixesAreLineages DEF HeadIInv, HeadTypeOK, CallMatchesPC
  <2>2. pc[p] = "published" => pointer = call[p]
    BY DEF HeadIInv, PublishedIsHead
  <2> QED BY <2>1, <2>2
<1>2. HeadTypeOK'
  BY <1>1 DEF HeadIInv, HeadTypeOK
<1>3. CallMatchesPC' /\ PublishedIsHead'
  BY DEF HeadIInv, HeadTypeOK, CallMatchesPC, PublishedIsHead
<1>4. HeadAlwaysLoads' /\ AcknowledgedStays'
  BY <1>1 DEF HeadIInv, HeadAlwaysLoads, AcknowledgedStays
<1> QED BY <1>2, <1>3, <1>4 DEF HeadIInv

\* No step of a caller, nor a stutter, breaks the invariant.
LEMMA HeadNextIInv == HeadIInv /\ [HeadNext]_headVars => HeadIInv'
<1> SUFFICES ASSUME HeadIInv, [HeadNext]_headVars PROVE HeadIInv'
  OBVIOUS
<1>1. CASE HeadNext
  BY <1>1, CallIInv, WaitIInv, PublishIInv, EndOfCallIInv DEF HeadNext, Serve
<1>2. CASE UNCHANGED headVars
  BY <1>2 DEF headVars, HeadIInv, HeadTypeOK, CallMatchesPC, PublishedIsHead, HeadAlwaysLoads, AcknowledgedStays
<1> QED BY <1>1, <1>2

\* The strengthened invariant holds in every reachable state.
THEOREM HeadInvariance == HeadSpec => []HeadIInv
BY HeadInitIInv, HeadNextIInv, PTL DEF HeadSpec

\* Wherever calls of establish_canonical_genesis and commit_canonical_advance were
\* cut short, the head loads and keeps what callers were told.
THEOREM HeadStaysSound == HeadSpec => []HeadIsSound
<1>1. HeadIInv => HeadIsSound
  BY DEF HeadIInv, HeadIsSound
<1> QED BY <1>1, HeadInvariance, PTL

-----------------------------------------------------------------------------
(* HeadRefines: Publish is the commit point, answers are promises.          *)

\* The history that a head stands for, and the request of a call.
LineageOf(l) == [n \in 1..Len(l) |-> SubSeq(l, 1, n)]
RequestOf(p) == IF pc[p] = "idle" THEN Nobody ELSE [op |-> call[p], expected |-> Len(call[p]) - 1]

\* The history of a lineage is as long as it is, and ends with it.
LEMMA HistoryOfLineage ==
    ASSUME NEW l \in Lineage \union {<<>>}
    PROVE  /\ LineageOf(l) \in Seq(Lineage) /\ Len(LineageOf(l)) = Len(l)
           /\ Len(l) \in Nat
           /\ l # <<>> => Len(l) \in 1..Len(l) /\ LineageOf(l)[Len(l)] = l
<1>1. Len(l) \in Nat
  <2>1. CASE l = <<>>
    BY <2>1
  <2>2. CASE l \in Lineage
    <3>1. Len(l) \in 1..MaxLength
      BY <2>2, LineageIsSeq
    <3> QED BY <3>1
  <2> QED BY <2>1, <2>2
<1>2. l # <<>> => l \in Lineage /\ Len(l) \in 1..Len(l)
  BY <1>1, LineageIsSeq, MaxLengthIsPositive
<1>3. \A n \in 1..Len(l) : SubSeq(l, 1, n) \in Lineage
  BY <1>2, PrefixIsLineage
<1> DEFINE h == LineageOf(l)
<1>4. h \in [1..Len(l) -> Lineage]
  BY <1>3 DEF LineageOf
<1>5. h \in Seq(Lineage) /\ Len(h) = Len(l)
  BY <1>1, <1>4
<1>6. l # <<>> => h[Len(l)] = l
  BY <1>2, PrefixIsLineage DEF LineageOf
<1> QED BY <1>1, <1>2, <1>5, <1>6

\* The history of a state is that of its parent, and the state.
LEMMA HistoryOfAdvance ==
    ASSUME NEW l \in Lineage
    PROVE  /\ LineageOf(l) = Append(LineageOf(Parent(l)), l)
           /\ Len(l) - 1 = Len(LineageOf(Parent(l)))
<1>1. Len(l) \in Nat /\ Len(l) \in 1..Len(l) /\ l \in Seq(Genesis \union Receipt)
  BY LineageIsSeq, MaxLengthIsPositive
<1>2. Parent(l) \in Lineage \union {<<>>} /\ Len(Parent(l)) = Len(l) - 1
  <2>1. CASE Len(l) = 1
    BY <2>1, ParentOfGenesis
  <2>2. CASE Len(l) # 1
    BY <2>2, ParentOfAdvance
  <2> QED BY <2>1, <2>2
<1> DEFINE h == LineageOf(l)
           k == LineageOf(Parent(l))
<1>3. /\ h \in Seq(Lineage) /\ Len(h) = Len(l) /\ h[Len(l)] = l
      /\ k \in Seq(Lineage) /\ Len(k) = Len(l) - 1
  BY <1>1, <1>2, HistoryOfLineage
<1>4. \A n \in 1..Len(l) - 1 : k[n] = h[n]
  <2> SUFFICES ASSUME NEW n \in 1..Len(l) - 1
               PROVE  SubSeq(Parent(l), 1, n) = SubSeq(l, 1, n)
    BY <1>1, <1>2 DEF LineageOf
  <2>1. /\ Len(l) - 1 \in 1..Len(l) /\ 1 \in 1..Len(l) /\ 1 \in 1..(Len(l) - 1) - 1 + 1
        /\ n \in 1..(Len(l) - 1) - 1 + 1
    BY <1>1
  <2>2. SubSeq(SubSeq(l, 1, Len(l) - 1), 1, n) = SubSeq(l, 1 + 1 - 1, 1 + n - 1)
    BY <1>1, <2>1, SubSeqOfSubSeq
  <2> QED BY <2>2 DEF Parent
<1> HIDE DEF h, k
<1>5. Append(k, l) \in Seq(Lineage) /\ Len(Append(k, l)) = Len(h)
  BY <1>1, <1>3, AppendProperties
<1>6. \A n \in 1..Len(h) : h[n] = Append(k, l)[n]
  BY <1>1, <1>3, <1>4
<1>7. h = Append(k, l)
  BY <1>3, <1>5, <1>6, SeqEqual
<1> QED BY <1>3, <1>7 DEF h, k

\* An answered caller finds the state it wanted at the end of the history.
LEMMA AnsweredIsInHistory ==
    ASSUME HeadIInv, NEW p \in Process, pc[p] # "idle", pointer = call[p]
    PROVE  \E r \in 1..Len(LineageOf(pointer)) : LineageOf(pointer)[r] = call[p]
<1>1. call[p] \in Lineage
  BY DEF HeadIInv, HeadTypeOK, CallMatchesPC
<1> QED BY <1>1, HistoryOfLineage, LineageIsSeq

\* A caller that is in a call has a request, for the state it named.
LEMMA RequestOfCall ==
    ASSUME HeadIInv, NEW p \in Process, pc[p] # "idle"
    PROVE  /\ RequestOf(p) # Nobody
           /\ RequestOf(p).op = call[p] /\ RequestOf(p).expected = Len(call[p]) - 1
<1>1. call[p] \in Lineage
  BY DEF HeadIInv, HeadTypeOK, CallMatchesPC
<1>2. Len(call[p]) - 1 \in Nat
  <2>1. Len(call[p]) \in 1..MaxLength
    BY <1>1, LineageIsSeq
  <2> QED BY <2>1, MaxLengthIsPositive
<1>3. RequestOf(p) \in [op : Lineage, expected : Nat]
  BY <1>1, <1>2 DEF RequestOf
<1>4. RequestOf(p) # Nobody
  BY <1>3, KnowledgeHeadAssumption
<1> QED BY <1>4 DEF RequestOf

\* A call that starts submits a request against a state of the history.
LEMMA CallSubmits ==
    ASSUME HeadIInv, NEW p \in Process, ProposeGenesis(p) \/ Execute(p)
    PROVE  Abstract!Submit(p)
<1>1. /\ call'[p] \in Lineage /\ Len(call'[p]) - 1 \in 0..Len(pointer)
      /\ call' = [call EXCEPT ![p] = call'[p]]
  BY CallIInv
<1>2. /\ pc[p] = "idle" /\ pc' = [pc EXCEPT ![p] = "called"]
      /\ UNCHANGED <<pointer, promised>>
  BY DEF ProposeGenesis, Execute, files
<1>3. /\ pc \in [Process -> {"idle", "called", "waiting", "locked", "published"}]
      /\ call \in [Process -> Lineage \union {<<>>}]
      /\ pointer \in Lineage \union {<<>>}
  BY DEF HeadIInv, HeadTypeOK
<1>4. Len(LineageOf(pointer)) = Len(pointer)
  BY <1>3, HistoryOfLineage
<1> DEFINE expected == Len(call'[p]) - 1
           op == call'[p]
<1>5. [c \in Process |-> RequestOf(c)'] =
      [[c \in Process |-> RequestOf(c)] EXCEPT ![p] = [op |-> op, expected |-> expected]]
  BY <1>1, <1>2, <1>3 DEF RequestOf
<1>6. [c \in Process |-> RequestOf(c)][p] = Nobody
  BY <1>2 DEF RequestOf
<1> HIDE DEF expected, op
<1> QED BY <1>1, <1>2, <1>4, <1>5, <1>6 DEF Abstract!Submit, RequestOf, LineageOf, expected, op

\* The pointer moves when the request that expected this head is committed.
LEMMA PublishCommits ==
    ASSUME HeadIInv, NEW p \in Process, Publish(p)
    PROVE  Abstract!Commit(p)
<1>1. /\ pc[p] = "locked" /\ pointer = Parent(call[p]) /\ pointer' = call[p]
      /\ pc' = [pc EXCEPT ![p] = "published"] /\ UNCHANGED <<call, promised>>
  BY DEF Publish, Swappable
<1>2. /\ pc \in [Process -> {"idle", "called", "waiting", "locked", "published"}]
      /\ call[p] \in Lineage
  BY <1>1 DEF HeadIInv, HeadTypeOK, CallMatchesPC
<1>3. /\ LineageOf(pointer') = Append(LineageOf(pointer), call[p])
      /\ Len(call[p]) - 1 = Len(LineageOf(pointer))
  BY <1>1, <1>2, HistoryOfAdvance
<1>4. [c \in Process |-> RequestOf(c)'] = [c \in Process |-> RequestOf(c)]
  BY <1>1, <1>2 DEF RequestOf
<1>5. /\ RequestOf(p) # Nobody
      /\ RequestOf(p).op = call[p] /\ RequestOf(p).expected = Len(call[p]) - 1
  BY <1>1, RequestOfCall
<1> QED BY <1>1, <1>3, <1>4, <1>5 DEF Abstract!Commit, RequestOf, LineageOf

\* A call that ends withdraws its request.
LEMMA EndWithdraws ==
    ASSUME HeadIInv, NEW p \in Process, Finish(p)
    PROVE  [c \in Process |-> RequestOf(c)'] = [[c \in Process |-> RequestOf(c)] EXCEPT ![p] = Nobody]
BY DEF Finish, HeadIInv, HeadTypeOK, RequestOf

\* A call ends with a promise only for a state that is in the history.
LEMMA EndAnswers ==
    ASSUME HeadIInv, NEW p \in Process, Answer(p) \/ Return(p) \/ Abandon(p)
    PROVE  Abstract!Acknowledge(p) \/ Abstract!Fail(p)
<1>1. /\ pc[p] # "idle" /\ Finish(p) /\ pointer' = pointer
      /\ \/ promised' = promised
         \/ promised' = promised \union {call[p]} /\ pointer = call[p]
  BY DEF Answer, Return, Abandon, files, HeadIInv, PublishedIsHead
<1>2. [c \in Process |-> RequestOf(c)'] = [[c \in Process |-> RequestOf(c)] EXCEPT ![p] = Nobody]
  BY <1>1, EndWithdraws
<1>3. RequestOf(p) # Nobody /\ RequestOf(p).op = call[p]
  BY <1>1, RequestOfCall
<1>4. CASE promised' = promised
  BY <1>1, <1>2, <1>3, <1>4 DEF Abstract!Fail, RequestOf, LineageOf
<1>5. CASE promised' = promised \union {call[p]} /\ pointer = call[p]
  <2>1. \E r \in 1..Len(LineageOf(pointer)) : LineageOf(pointer)[r] = call[p]
    BY <1>1, <1>5, AnsweredIsInHistory
  <2> QED BY <1>1, <1>2, <1>3, <1>5, <2>1 DEF Abstract!Acknowledge, RequestOf, LineageOf
<1> QED BY <1>1, <1>4, <1>5

\* Persisting a state and taking the lock are not seen by the history.
LEMMA WaitStutters ==
    ASSUME HeadIInv, NEW p \in Process, Persist(p) \/ Acquire(p)
    PROVE  UNCHANGED Abstract!vars
<1>1. [c \in Process |-> RequestOf(c)'] = [c \in Process |-> RequestOf(c)]
  BY DEF Persist, Acquire, HeadIInv, HeadTypeOK, RequestOf
<1>2. UNCHANGED <<pointer, promised>>
  BY DEF Persist, Acquire, files
<1> QED BY <1>1, <1>2 DEF Abstract!vars, RequestOf

\* Every step of the code is a step of the abstract history or leaves it alone.
LEMMA HeadStepRefines == HeadIInv /\ [HeadNext]_headVars => [Abstract!Next]_(Abstract!vars)
<1> SUFFICES ASSUME HeadIInv, [HeadNext]_headVars
             PROVE  Abstract!Next \/ UNCHANGED Abstract!vars
  OBVIOUS
<1>1. ASSUME NEW p \in Process,
             ProposeGenesis(p) \/ Execute(p) \/ Acquire(p) \/ Serve(p) \/ Abandon(p)
      PROVE  \/ Abstract!Submit(p) \/ Abstract!Commit(p)
             \/ Abstract!Acknowledge(p) \/ Abstract!Fail(p)
             \/ UNCHANGED Abstract!vars
  BY <1>1, CallSubmits, PublishCommits, EndAnswers, WaitStutters DEF Serve
<1>2. ASSUME UNCHANGED headVars
      PROVE  UNCHANGED Abstract!vars
  BY <1>2 DEF headVars, Abstract!vars
<1> QED BY <1>1, <1>2 DEF HeadNext, Abstract!Next

\* The pointer, its lock and the retries (establish_canonical_genesis and
\* commit_canonical_advance) implement an atomic compare-and-swap history.
THEOREM HeadRefines == HeadSpec => ImplementsCasHistory
<1>1. HeadInit => Abstract!Init
  BY DEF HeadInit, Abstract!Init
<1> QED BY <1>1, HeadStepRefines, HeadInvariance, PTL DEF HeadSpec, ImplementsCasHistory, Abstract!Spec
-----------------------------------------------------------------------------
(***************************************************************************)
(* Residency: the policy on a matrix of facts.                             *)
(***************************************************************************)

TypedMatrix(m) ==
    /\ m = [dimension |-> m.dimension, representable |-> m.representable, fits |-> m.fits]
    /\ m.dimension \in [Dimension -> Value]
    /\ m.representable \in [Candidate -> {"yes", "no", "open"}]
    /\ m.fits \in [Candidate -> {"yes", "no", "open"}]

IsPreferred(m, c) == Eligible(m, c) /\ \A d \in Candidate : Eligible(m, d) => Rank(c) <= Rank(d)

LEMMA RanksDiffer ==
    /\ \A c \in Candidate : Rank(c) \in 0 .. 2
    /\ \A c, d \in Candidate : Rank(c) = Rank(d) => c = d
  <1>1. Rank("weights") = 0 /\ Rank("hybrid") = 1 /\ Rank("software") = 2
    BY DEF Rank
  <1>2. \A c \in Candidate : c = "weights" \/ c = "hybrid" \/ c = "software"
    BY DEF Candidate
  <1>3. \A c \in Candidate : Rank(c) \in 0 .. 2
    BY <1>1, <1>2
  <1>4. \A c, d \in Candidate : Rank(c) = Rank(d) => c = d
    BY <1>1, <1>2
  <1> QED BY <1>3, <1>4

LEMMA OneIsFirst ==
    ASSUME NEW S \in SUBSET Candidate, S # {}
    PROVE  \E c \in S : \A d \in S : Rank(c) <= Rank(d)
  <1>1. CASE "weights" \in S
    BY <1>1, RanksDiffer DEF Rank, Candidate
  <1>2. CASE "weights" \notin S /\ "hybrid" \in S
    BY <1>2, RanksDiffer DEF Rank, Candidate
  <1>3. CASE "weights" \notin S /\ "hybrid" \notin S
    BY <1>3, RanksDiffer DEF Rank, Candidate
  <1> QED BY <1>1, <1>2, <1>3

LEMMA FloorIsHighest ==
    ASSUME NEW m, m.dimension \in [Dimension -> Value]
    PROVE  /\ Floor(m) \in 0 .. 3
           /\ \A c \in Candidate :
                 Rank(c) >= Floor(m) <=> \A d \in Dimension : m.dimension[d] <= Rank(c)
  <1> DEFINE S == {m.dimension[d] : d \in Dimension}
  <1>1. S \subseteq 0 .. 3 /\ S # {}
    <2>1. "effects" \in Dimension
      BY DEF Dimension
    <2> QED BY <2>1 DEF Value, Unknown
  <1>2. \E x \in S : \A y \in S : x >= y
    <2> HIDE DEF S
    <2>1. CASE 3 \in S
      BY <2>1, <1>1
    <2>2. CASE 3 \notin S /\ 2 \in S
      BY <2>2, <1>1
    <2>3. CASE 3 \notin S /\ 2 \notin S /\ 1 \in S
      BY <2>3, <1>1
    <2>4. CASE 3 \notin S /\ 2 \notin S /\ 1 \notin S
      <3>1. \A y \in S : y = 0
        <4> SUFFICES ASSUME NEW y \in S PROVE y = 0
          OBVIOUS
        <4>1. y \in 0 .. 3 /\ y # 1 /\ y # 2 /\ y # 3
          BY <2>4, <1>1
        <4> QED BY <4>1
      <3>2. PICK x \in S : TRUE
        BY <1>1
      <3>3. \A y \in S : x = 0 /\ y = 0
        BY <3>1, <3>2
      <3>4. \A y \in S : x >= y
        BY <3>3
      <3> QED BY <3>4
    <2> QED BY <2>1, <2>2, <2>3, <2>4
  <1>3. Max(S) \in S /\ \A y \in S : Max(S) >= y
    <2> HIDE DEF S
    <2> QED BY <1>2 DEF Max
  <1>4. Floor(m) = Max(S)
    BY DEF Floor
  <1>5. Floor(m) \in 0 .. 3 /\ (\A d \in Dimension : m.dimension[d] \in 0 .. 3 /\ Floor(m) >= m.dimension[d])
    BY <1>1, <1>3, <1>4
  <1>6. PICK d \in Dimension : Floor(m) = m.dimension[d]
    BY <1>3, <1>4
  <1> SUFFICES ASSUME NEW c \in Candidate
               PROVE  Rank(c) >= Floor(m) <=> \A e \in Dimension : m.dimension[e] <= Rank(c)
    BY <1>5
  <1>7. Rank(c) \in 0 .. 2
    BY RanksDiffer
  <1> QED BY <1>5, <1>6, <1>7

\* The policy assigns the eligible candidate of the least rank, and otherwise tells
\* "not known" from "none".
LEMMA PolicyDecides ==
    ASSUME NEW m, UnknownDimensions(m) = {}
    PROVE  /\ (\E c \in Candidate : Eligible(m, c)) =>
                 \E c \in Candidate : IsPreferred(m, c) /\ Classified(m) = Lives(c)
           /\ ~(\E c \in Candidate : Eligible(m, c)) =>
                 Classified(m) = IF Incomplete(m) # {} THEN Bounded("candidates")
                                 ELSE Blocked("candidates")
  <1>1. CASE \E c \in Candidate : Eligible(m, c)
    <2> DEFINE S == {c \in Candidate : Eligible(m, c)}
    <2>1. \E c \in S : \A d \in S : Rank(c) <= Rank(d)
      <3>1. S \in SUBSET Candidate /\ S # {}
        BY <1>1
      <3> HIDE DEF S
      <3> QED BY <3>1, OneIsFirst
    <2>2. \E c \in Candidate : Eligible(m, c) /\ \A d \in Candidate : Eligible(m, d) => Rank(c) <= Rank(d)
      BY <2>1
    <2> DEFINE b == CHOOSE c \in Candidate :
                        Eligible(m, c) /\ \A d \in Candidate : Eligible(m, d) => Rank(c) <= Rank(d)
    <2>3. b \in Candidate /\ IsPreferred(m, b)
      BY <2>2 DEF IsPreferred
    <2>4. Classified(m) = Lives(b)
      BY <1>1 DEF Classified
    <2> QED BY <1>1, <2>3, <2>4
  <1>2. CASE ~(\E c \in Candidate : Eligible(m, c))
    BY <1>2 DEF Classified
  <1> QED BY <1>1, <1>2

LEMMA DecisionsDiffer ==
    /\ \A c, x : Lives(c)[1] = "lives" /\ Lives(c)[2] = c /\ Lives(c) # Bounded(x) /\ Lives(c) # Blocked(x)
    /\ \A x, y : Bounded(x) # Blocked(y) /\ Bounded(x)[1] = "bounded" /\ Blocked(x)[1] = "blocked"
  <1>1. \A c : Lives(c)[1] = "lives" /\ Lives(c)[2] = c
    BY DEF Lives
  <1>2. \A x : Bounded(x)[1] = "bounded" /\ Blocked(x)[1] = "blocked"
    BY DEF Bounded, Blocked
  <1>3. "lives" # "bounded" /\ "lives" # "blocked" /\ "bounded" # "blocked"
    OBVIOUS
  <1> QED BY <1>1, <1>2, <1>3

\* The two extreme ways in which the open facts of a matrix may turn out.
AllTo(facts, answer) == [c \in Candidate |-> IF facts[c] = "open" THEN answer ELSE facts[c]]
Settling(m, answer) ==
    [dimension |-> m.dimension, representable |-> AllTo(m.representable, answer),
     fits |-> AllTo(m.fits, answer)]

LEMMA FactsMayTurnOut ==
    ASSUME NEW m, TypedMatrix(m), NEW answer \in {"yes", "no"}
    PROVE  Settling(m, answer) \in PossibleFacts(m)
  <1> DEFINE settle(facts) == {f \in [Candidate -> {"yes", "no"}] :
                                  \A c \in Candidate : facts[c] \in {"open", f[c]}}
  <1>1. AllTo(m.representable, answer) \in settle(m.representable)
    BY DEF AllTo, TypedMatrix
  <1>2. AllTo(m.fits, answer) \in settle(m.fits)
    BY DEF AllTo, TypedMatrix
  <1>3. PossibleFacts(m) = [dimension : {m.dimension}, representable : settle(m.representable),
                            fits : settle(m.fits)]
    BY DEF PossibleFacts
  <1> HIDE DEF settle
  <1> QED BY <1>1, <1>2, <1>3 DEF Settling

LEMMA PossibleFactsAgree ==
    ASSUME NEW m, NEW n \in PossibleFacts(m)
    PROVE  /\ n.dimension = m.dimension
           /\ \A c \in Candidate :
                 /\ n.representable[c] \in {"yes", "no"} /\ n.fits[c] \in {"yes", "no"}
                 /\ m.representable[c] \in {"open", n.representable[c]}
                 /\ m.fits[c] \in {"open", n.fits[c]}
  <1> DEFINE settle(facts) == {f \in [Candidate -> {"yes", "no"}] :
                                  \A c \in Candidate : facts[c] \in {"open", f[c]}}
  <1>1. n \in [dimension : {m.dimension}, representable : settle(m.representable),
               fits : settle(m.fits)]
    BY DEF PossibleFacts
  <1>2. n.dimension = m.dimension /\ n.representable \in settle(m.representable) /\ n.fits \in settle(m.fits)
    <2> HIDE DEF settle
    <2> QED BY <1>1
  <1> QED BY <1>2

\* Eligible is admissible whatever turns out, rejected is admissible in no case, and
\* the two extremes show it.
LEMMA EligibleIsCertain ==
    ASSUME NEW m, TypedMatrix(m), NEW c \in Candidate
    PROVE  /\ \A n \in PossibleFacts(m) : Eligible(m, c) => Admissible(n, c)
           /\ \A n \in PossibleFacts(m) : Admissible(n, c) => ~Rejected(m, c)
           /\ Admissible(Settling(m, "no"), c) <=> Eligible(m, c)
           /\ Admissible(Settling(m, "yes"), c) <=> ~Rejected(m, c)
  <1>1. Rank(c) >= Floor(m) <=> \A d \in Dimension : m.dimension[d] <= Rank(c)
    BY FloorIsHighest DEF TypedMatrix
  <1>2. Rank(c) < Floor(m) <=> ~(Rank(c) >= Floor(m))
    <2>1. Floor(m) \in 0 .. 3
      BY FloorIsHighest DEF TypedMatrix
    <2>2. Rank(c) \in Int
      BY RanksDiffer
    <2> QED BY <2>1, <2>2
  <1>3. /\ m.representable[c] \in {"yes", "no", "open"} /\ m.fits[c] \in {"yes", "no", "open"}
    BY DEF TypedMatrix
  <1>4. ASSUME NEW n \in PossibleFacts(m) PROVE Eligible(m, c) => Admissible(n, c)
    BY <1>1, PossibleFactsAgree DEF Eligible, Admissible
  <1>5. ASSUME NEW n \in PossibleFacts(m) PROVE Admissible(n, c) => ~Rejected(m, c)
    BY <1>1, <1>2, PossibleFactsAgree DEF Rejected, Admissible
  <1>6. \A answer : /\ Settling(m, answer).dimension = m.dimension
                    /\ Settling(m, answer).representable[c] =
                          IF m.representable[c] = "open" THEN answer ELSE m.representable[c]
                    /\ Settling(m, answer).fits[c] = IF m.fits[c] = "open" THEN answer ELSE m.fits[c]
    BY DEF Settling, AllTo
  <1>7. Admissible(Settling(m, "no"), c) <=> Eligible(m, c)
    BY <1>1, <1>3, <1>6 DEF Eligible, Admissible
  <1>8. Admissible(Settling(m, "yes"), c) <=> ~Rejected(m, c)
    BY <1>1, <1>2, <1>3, <1>6 DEF Rejected, Admissible
  <1> QED BY <1>4, <1>5, <1>7, <1>8

LEMMA IdealIsOne ==
    ASSUME NEW n
    PROVE  /\ \A c \in Candidate : Ideal(n) = {c} => Admissible(n, c)
           /\ Ideal(n) = {} <=> \A c \in Candidate : ~Admissible(n, c)
           /\ Ideal(n) \subseteq Candidate
  <1> DEFINE S == {c \in Candidate : Admissible(n, c)}
  <1>1. S # {} => \E c \in S : \A d \in S : Rank(c) <= Rank(d)
    <2>1. S \in SUBSET Candidate
      OBVIOUS
    <2> HIDE DEF S
    <2> QED BY <2>1, OneIsFirst
  <1>2. Ideal(n) = {c \in S : \A d \in S : Rank(c) <= Rank(d)}
    BY DEF Ideal
  <1> QED BY <1>1, <1>2

LEMMA CandidatesAreThree == IsFiniteSet(Candidate)
  <1>1. Candidate = {"weights"} \cup {"hybrid"} \cup {"software"}
    BY DEF Candidate
  <1>2. IsFiniteSet({"weights"} \cup {"hybrid"} \cup {"software"})
    BY FS_Singleton, FS_Union
  <1> QED BY <1>1, <1>2

LEMMA PairHasTwo ==
    ASSUME NEW x, NEW y, x # y
    PROVE  IsFiniteSet({x, y}) /\ Cardinality({x, y}) = 2
  <1>1. IsFiniteSet({x}) /\ Cardinality({x}) = 1
    BY FS_Singleton
  <1>2. IsFiniteSet({x} \cup {y}) /\ Cardinality({x} \cup {y}) = 2
    BY <1>1, FS_AddElement
  <1>3. {x, y} = {x} \cup {y}
    OBVIOUS
  <1> QED BY <1>2, <1>3

\* The policy on known semantics decides what further evidence cannot change.
LEMMA SelectionHolds ==
    ASSUME NEW m, TypedMatrix(m), UnknownDimensions(m) = {}
    PROVE  LET answers == {Ideal(n) : n \in PossibleFacts(m)}
               decision == Classified(m)
           IN /\ decision[1] = "lives" => \A n \in PossibleFacts(m) : Admissible(n, decision[2])
              /\ \A c \in Candidate : answers = {{c}} => decision = Lives(c)
              /\ answers = {{}} <=> decision = Blocked("candidates")
              /\ decision = Bounded("candidates") => Cardinality(answers) > 1
  <1> DEFINE answers == {Ideal(n) : n \in PossibleFacts(m)}
             decision == Classified(m)
             no == Settling(m, "no")
             yes == Settling(m, "yes")
  <1>1. no \in PossibleFacts(m) /\ yes \in PossibleFacts(m)
    BY FactsMayTurnOut
  <1>2. Ideal(no) \in answers /\ Ideal(yes) \in answers
    BY <1>1
  <1>3. \A c \in Candidate : (Admissible(no, c) <=> Eligible(m, c)) /\ (Admissible(yes, c) <=> ~Rejected(m, c))
    BY EligibleIsCertain
  <1> HIDE DEF no, yes
  <1>4. CASE \E c \in Candidate : Eligible(m, c)
    <2>1. PICK b \in Candidate : IsPreferred(m, b) /\ decision = Lives(b)
      BY <1>4, PolicyDecides
    <2>2. \A n \in PossibleFacts(m) : Admissible(n, b)
      BY <2>1, EligibleIsCertain DEF IsPreferred
    <2>3. \A c \in Candidate : answers = {{c}} => decision = Lives(c)
      <3> SUFFICES ASSUME NEW c \in Candidate, answers = {{c}} PROVE c = b
        BY <2>1
      <3>1. Ideal(no) = {c}
        BY <1>2
      <3>2. Admissible(no, c) /\ \A d \in Candidate : Admissible(no, d) => Rank(c) <= Rank(d)
        BY <3>1 DEF Ideal
      <3>3. Rank(c) <= Rank(b) /\ Rank(b) <= Rank(c)
        BY <2>1, <3>2, <1>3 DEF IsPreferred
      <3> QED BY <3>3, RanksDiffer
    <2>4. answers # {{}}
      <3>1. Ideal(no) # {}
        BY <1>3, <1>4, IdealIsOne
      <3> QED BY <3>1, <1>2
    <2> HIDE DEF answers, decision
    <2>5. decision[1] = "lives" /\ decision[2] = b
      BY <2>1, DecisionsDiffer
    <2>6. decision # Blocked("candidates") /\ decision # Bounded("candidates")
      BY <2>1, DecisionsDiffer
    <2> QED BY <2>2, <2>3, <2>4, <2>5, <2>6 DEF answers, decision
  <1>5. CASE ~(\E c \in Candidate : Eligible(m, c))
    <2>1. decision = IF Incomplete(m) # {} THEN Bounded("candidates") ELSE Blocked("candidates")
      BY <1>5, PolicyDecides
    <2>2. Ideal(no) = {}
      BY <1>3, <1>5, IdealIsOne
    <2>3. \A c : answers # {{c}}
      BY <1>2, <2>2
    <2>4. CASE Incomplete(m) # {}
      <3>1. PICK c \in Candidate : ~Rejected(m, c)
        BY <2>4 DEF Incomplete
      <3>2. Ideal(yes) # {}
        BY <3>1, <1>3, IdealIsOne
      <3>3. Cardinality(answers) > 1
        <4>1. answers \subseteq SUBSET Candidate
          BY IdealIsOne
        <4>2. IsFiniteSet(Candidate)
          BY CandidatesAreThree
        <4>3. IsFiniteSet(answers)
          <5>1. IsFiniteSet(SUBSET Candidate)
            BY <4>2, FS_SUBSET
          <5> HIDE DEF answers
          <5> QED BY <4>1, <5>1, FS_Subset
        <4> DEFINE two == {Ideal(no), Ideal(yes)}
        <4>4. IsFiniteSet(two) /\ Cardinality(two) = 2
          BY <2>2, <3>2, PairHasTwo
        <4>5. two \subseteq answers
          BY <1>2
        <4> HIDE DEF two, answers
        <4>6. Cardinality(two) <= Cardinality(answers)
          BY <4>3, <4>5, FS_Subset
        <4>7. Cardinality(answers) \in Nat
          BY <4>3, FS_CardinalityType
        <4> QED BY <4>4, <4>6, <4>7
      <3>4. answers # {{}}
        BY <3>2, <1>2
      <3> HIDE DEF answers, decision
      <3>5. decision = Bounded("candidates")
        BY <2>1, <2>4
      <3>6. decision # Blocked("candidates") /\ decision[1] # "lives"
        BY <3>5, DecisionsDiffer
      <3> QED BY <2>3, <3>3, <3>4, <3>6 DEF answers, decision
    <2>5. CASE Incomplete(m) = {}
      <3>1. \A c \in Candidate : Rejected(m, c)
        BY <2>5, <1>5 DEF Incomplete
      <3>2. \A n \in PossibleFacts(m) : \A c \in Candidate : ~Admissible(n, c)
        BY <3>1, EligibleIsCertain
      <3>3. \A n \in PossibleFacts(m) : Ideal(n) = {}
        BY <3>2, IdealIsOne
      <3>4. answers = {{}}
        BY <3>3, <1>1
      <3> HIDE DEF answers, decision
      <3>5. decision = Blocked("candidates")
        BY <2>1, <2>5
      <3>6. decision # Bounded("candidates") /\ decision[1] # "lives"
        BY <3>5, DecisionsDiffer
      <3> QED BY <2>3, <3>4, <3>5, <3>6 DEF answers, decision
    <2> QED BY <2>4, <2>5
  <1> QED BY <1>4, <1>5

-----------------------------------------------------------------------------
(* Residency: the authority beside a moving inquiry. *)

Verdicts == {"none", "complete", "bounded_unknown", "blocked"}

\* The inquiry has ended at most in its last state.
ChainEndsOnce ==
    /\ chain \in Seq(Range(chain)) /\ chain # <<>>
    /\ \A i \in 1 .. Len(chain) : TypedClaims(chain[i].claims) /\ chain[i].verdict \in Verdicts
    /\ \A i \in 1 .. Len(chain) - 1 : chain[i].verdict = "none"

\* A record is the decision about the state it names.
IsOfItsState(r) ==
    /\ r \in [round : Round, target : Target, revision : Nat, decision : Decision]
    /\ r.revision \in 1 .. Len(chain)
    /\ r.decision = Derived(chain[r.revision], r.target)

RecordsAreOfTheirStates ==
    /\ \A r \in records : IsOfItsState(r)
    /\ \A c \in Decider : calls[c] # Nothing =>
          /\ calls[c] = [pc |-> calls[c].pc, record |-> calls[c].record]
          /\ IsOfItsState(calls[c].record)

ResidencyInv ==
    /\ ChainEndsOnce /\ RecordsAreOfTheirStates
    /\ DOMAIN calls = Decider
    /\ asked # Nothing => asked \in Query /\ records = {} /\ \A c \in Decider : calls[c] = Nothing

-----------------------------------------------------------------------------

LEMMA DerivedIsADecision ==
    ASSUME NEW state1, state1.verdict \in Verdicts, NEW t
    PROVE  Derived(state1, t) \in Decision
  <1>1. \A m : Classified(m) \in Decision
    <2> SUFFICES ASSUME NEW m PROVE Classified(m) \in Decision
      OBVIOUS
    <2>1. CASE UnknownDimensions(m) # {}
      BY <2>1 DEF Classified, Decision
    <2>2. CASE UnknownDimensions(m) = {} /\ \E c \in Candidate : Eligible(m, c)
      BY <2>2, PolicyDecides DEF Decision
    <2>3. CASE UnknownDimensions(m) = {} /\ ~\E c \in Candidate : Eligible(m, c)
      BY <2>3, PolicyDecides DEF Decision
    <2> QED BY <2>1, <2>2, <2>3
  <1> QED BY <1>1 DEF Derived, Decision, Verdicts

LEMMA Reseq ==
    ASSUME NEW S, NEW s \in Seq(S), NEW T, \A i \in 1 .. Len(s) : s[i] \in T
    PROVE  s \in Seq(T)
  OBVIOUS

\* A longer history tells of its earlier states what it told before.
LEMMA HistoryGrows ==
    ASSUME NEW s, s \in Seq(Range(s)), NEW e
    PROVE  /\ Append(s, e) \in Seq(Range(Append(s, e))) /\ Append(s, e) # <<>>
           /\ Len(Append(s, e)) = Len(s) + 1 /\ Len(s) \in Nat
           /\ Append(s, e)[Len(s) + 1] = e
           /\ \A i \in 1 .. Len(s) : Append(s, e)[i] = s[i]
  <1> DEFINE S == Range(s) \cup {e}
             n == Append(s, e)
  <1>1. s \in Seq(S)
    <2>1. \A i \in 1 .. Len(s) : s[i] \in S
      OBVIOUS
    <2> HIDE DEF S
    <2> QED BY <2>1, Reseq
  <1>2. e \in S
    OBVIOUS
  <1> HIDE DEF S
  <1>3. /\ n \in Seq(S) /\ n # <<>> /\ Len(n) = Len(s) + 1 /\ Len(s) \in Nat
        /\ n[Len(s) + 1] = e /\ \A i \in 1 .. Len(s) : n[i] = s[i]
    BY <1>1, <1>2, AppendProperties
  <1>4. \A i \in 1 .. Len(n) : n[i] \in Range(n)
    <2>1. DOMAIN n = 1 .. Len(n)
      BY <1>3
    <2> HIDE DEF n
    <2> QED BY <2>1 DEF Range
  <1> HIDE DEF n
  <1>5. n \in Seq(Range(n))
    BY <1>3, <1>4, Reseq
  <1> QED BY <1>3, <1>5 DEF n

\* What the head named stays where it was.
LEMMA RecordsStay ==
    ASSUME NEW r, IsOfItsState(r), UNCHANGED bundle, Len(chain) \in Nat, Len(chain') \in Nat,
           Len(chain) <= Len(chain'), \A i \in 1 .. Len(chain) : chain'[i] = chain[i]
    PROVE  IsOfItsState(r)'
  <1>1. r.revision \in 1 .. Len(chain') /\ chain'[r.revision] = chain[r.revision]
    BY DEF IsOfItsState
  <1>2. Derived(chain[r.revision], r.target)' = Derived(chain'[r.revision], r.target)
    BY DEF Derived
  <1>3. Derived(chain'[r.revision], r.target) = Derived(chain[r.revision], r.target)
    BY <1>1
  <1> QED BY <1>1, <1>2, <1>3 DEF IsOfItsState

LEMMA ResidencyStarts == ResidencyInit => ResidencyInv
  <1> SUFFICES ASSUME ResidencyInit PROVE ResidencyInv
    OBVIOUS
  <1>1. PICK s \in Start : chain = <<s>>
    <2>1. (CHOOSE s \in Start : TRUE) \in Start
      BY ResidencyAssumption
    <2> QED BY <2>1 DEF ResidencyInit
  <1>2. TypedClaims(s.claims) /\ s.verdict \in Verdicts
    BY ResidencyAssumption DEF Verdicts
  <1>3. ChainEndsOnce
    <2>1. chain \in Seq({s}) /\ Len(chain) = 1 /\ chain[1] = s /\ chain # <<>> /\ DOMAIN chain = {1}
      BY <1>1
    <2>2. Range(chain) = {s}
      BY <2>1 DEF Range
    <2>3. \A i \in 1 .. Len(chain) : chain[i] = s
      BY <2>1
    <2>4. \A i \in 1 .. Len(chain) - 1 : FALSE
      BY <2>1
    <2> QED BY <2>1, <2>2, <2>3, <2>4, <1>2 DEF ChainEndsOnce
  <1> QED BY <1>3 DEF ResidencyInit, ResidencyInv, RecordsAreOfTheirStates

\* A claim assessed anew says what it said.
LEMMA AssessedStaysTyped ==
    ASSUME NEW claims, TypedClaims(claims), NEW f \in Fact, NEW a
    PROVE  TypedClaims([claims EXCEPT ![f].assessment = a])
  <1> DEFINE new == [claims EXCEPT ![f].assessment = a]
  <1>1. DOMAIN new = Fact /\ (\A g \in Fact : g # f => new[g] = claims[g])
        /\ new[f] = [claims[f] EXCEPT !.assessment = a]
    BY DEF TypedClaims
  <1>2. claims[f] = [domain |-> claims[f].domain, says |-> claims[f].says,
                     assessment |-> claims[f].assessment]
    BY DEF TypedClaims
  <1>3. new[f] = [domain |-> claims[f].domain, says |-> claims[f].says, assessment |-> a]
    BY <1>1, <1>2
  <1>4. \A g \in Fact : /\ new[g] = [domain |-> new[g].domain, says |-> new[g].says,
                                     assessment |-> new[g].assessment]
                        /\ new[g].domain = claims[g].domain /\ new[g].says = claims[g].says
    BY <1>1, <1>3 DEF TypedClaims
  <1> HIDE DEF new
  <1>5. TypedClaims(new)
    BY <1>1, <1>4 DEF TypedClaims
  <1> QED BY <1>5 DEF new

LEMMA LastOfChain ==
    ASSUME ChainEndsOnce
    PROVE  /\ Len(chain) \in Nat \ {0} /\ Len(chain) \in 1 .. Len(chain)
           /\ Last(chain) = chain[Len(chain)]
           /\ TypedClaims(Last(chain).claims) /\ Last(chain).verdict \in Verdicts
  <1>1. Len(chain) \in Nat \ {0} /\ Last(chain) = chain[Len(chain)]
    BY DEF ChainEndsOnce, Last
  <1>2. Len(chain) \in 1 .. Len(chain)
    BY <1>1
  <1> QED BY <1>1, <1>2 DEF ChainEndsOnce

LEMMA InquiryMovesOn ==
    ASSUME ResidencyInv, MoveOn
    PROVE  ResidencyInv'
  <1>1. PICK f \in Contested, a \in {"unresolved", "established", "contradicted"}, v \in Verdicts :
            chain' = Append(chain, [claims |-> [Last(chain).claims EXCEPT ![f].assessment = a],
                                    verdict |-> v])
    BY DEF MoveOn, Verdicts
  <1>2. Last(chain).verdict = "none" /\ asked = Nothing /\ UNCHANGED <<bundle, calls, records, asked>>
    BY DEF MoveOn
  <1> DEFINE e == [claims |-> [Last(chain).claims EXCEPT ![f].assessment = a], verdict |-> v]
  <1>3. ChainEndsOnce /\ Last(chain) = chain[Len(chain)] /\ Len(chain) \in Nat \ {0}
    BY LastOfChain DEF ResidencyInv
  <1>4. TypedClaims(e.claims) /\ e.verdict = v
    BY LastOfChain, AssessedStaysTyped, ResidencyAssumption, <1>3
  <1> HIDE DEF e
  <1>5. /\ chain' \in Seq(Range(chain')) /\ chain' # <<>> /\ Len(chain') = Len(chain) + 1
        /\ chain'[Len(chain) + 1] = e
        /\ \A i \in 1 .. Len(chain) : chain'[i] = chain[i]
    BY <1>1, <1>3, HistoryGrows DEF ChainEndsOnce, e
  <1>6. ChainEndsOnce'
    <2>1. \A i \in 1 .. Len(chain') : i = Len(chain) + 1 \/ i \in 1 .. Len(chain)
      BY <1>3, <1>5
    <2>2. \A i \in 1 .. Len(chain') : TypedClaims(chain'[i].claims) /\ chain'[i].verdict \in Verdicts
      BY <2>1, <1>3, <1>4, <1>5 DEF ChainEndsOnce
    <2>3. \A i \in 1 .. Len(chain') - 1 : i = Len(chain) \/ i \in 1 .. Len(chain) - 1
      BY <1>3, <1>5
    <2>4. \A i \in 1 .. Len(chain') - 1 : chain'[i].verdict = "none"
      <3> SUFFICES ASSUME NEW i \in 1 .. Len(chain') - 1 PROVE chain'[i].verdict = "none"
        OBVIOUS
      <3>1. i \in 1 .. Len(chain)
        BY <2>3, <1>3
      <3>2. chain[i].verdict = "none"
        BY <2>3, <1>2, <1>3 DEF ChainEndsOnce
      <3> QED BY <3>1, <3>2, <1>5
    <2>5. ChainEndsOnce' <=> /\ chain' \in Seq(Range(chain')) /\ chain' # <<>>
                             /\ \A i \in 1 .. Len(chain') : TypedClaims(chain'[i].claims)
                                                            /\ chain'[i].verdict \in Verdicts
                             /\ \A i \in 1 .. Len(chain') - 1 : chain'[i].verdict = "none"
      BY DEF ChainEndsOnce, Range, TypedClaims
    <2> QED BY <2>2, <2>4, <2>5, <1>5
  <1>7. \A r : IsOfItsState(r) => IsOfItsState(r)'
    BY <1>2, <1>3, <1>5, RecordsStay
  <1>8. RecordsAreOfTheirStates'
    <2>1. \A r \in records : IsOfItsState(r)'
      BY <1>7 DEF ResidencyInv, RecordsAreOfTheirStates
    <2>2. \A c \in Decider : calls[c] # Nothing =>
             /\ calls[c] = [pc |-> calls[c].pc, record |-> calls[c].record]
             /\ IsOfItsState(calls[c].record)
      BY DEF ResidencyInv, RecordsAreOfTheirStates
    <2>3. \A c \in Decider : calls'[c] # Nothing =>
             /\ calls'[c] = [pc |-> calls'[c].pc, record |-> calls'[c].record]
             /\ \E r : r = calls'[c].record /\ IsOfItsState(r)'
      BY <2>2, <1>2, <1>7
    <2>4. \A c \in Decider : calls'[c] # Nothing => IsOfItsState(calls[c].record)'
      BY <2>3 DEF IsOfItsState, Derived
    <2> QED BY <2>1, <2>3, <2>4, <1>2 DEF RecordsAreOfTheirStates
  <1> QED BY <1>2, <1>6, <1>8 DEF ResidencyInv

LEMMA DeciderActs ==
    ASSUME ResidencyInv, NEW c \in Decider, Begin(c) \/ Recheck(c) \/ Write(c)
    PROVE  ResidencyInv'
  <1>1. UNCHANGED <<chain, bundle, asked>>
    BY DEF Begin, Recheck, Write
  <1>2. ChainEndsOnce /\ ChainEndsOnce' /\ DOMAIN calls = Decider
    BY <1>1 DEF ResidencyInv, ChainEndsOnce
  <1>3. \A r : IsOfItsState(r) => IsOfItsState(r)'
    BY <1>1, <1>2, LastOfChain, RecordsStay
  <1>4. /\ \A r \in records : IsOfItsState(r)
        /\ \A d \in Decider : calls[d] # Nothing =>
              /\ calls[d] = [pc |-> calls[d].pc, record |-> calls[d].record]
              /\ IsOfItsState(calls[d].record)
    BY DEF ResidencyInv, RecordsAreOfTheirStates
  <1>5. ASSUME Begin(c)
        PROVE  /\ UNCHANGED records /\ asked = Nothing
               /\ \E x : /\ calls' = [calls EXCEPT ![c] = x]
                         /\ x = [pc |-> x.pc, record |-> x.record] /\ IsOfItsState(x.record)
    <2>1. PICK round \in Round, target \in Target :
              calls' = [calls EXCEPT ![c] = [pc |-> "decided",
                                             record |-> Decide(round, target, Len(chain))]]
      BY <1>5 DEF Begin
    <2> DEFINE r == [round |-> round, target |-> target, revision |-> Len(chain),
                     decision |-> Derived(chain[Len(chain)], target)]
               x == [pc |-> "decided", record |-> r]
    <2>2. Decide(round, target, Len(chain)) = r
      BY DEF Decide
    <2>3. Derived(chain[Len(chain)], target) \in Decision /\ Len(chain) \in 1 .. Len(chain) /\ Len(chain) \in Nat
      BY <1>2, LastOfChain, DerivedIsADecision
    <2>4. IsOfItsState(r)
      BY <2>3 DEF IsOfItsState
    <2>5. x = [pc |-> x.pc, record |-> x.record] /\ x.record = r
      OBVIOUS
    <2>6. UNCHANGED records /\ asked = Nothing
      BY <1>5 DEF Begin
    <2> HIDE DEF r
    <2> QED BY <2>1, <2>2, <2>4, <2>5, <2>6
  <1>6. ASSUME Recheck(c)
        PROVE  /\ UNCHANGED records
               /\ \E x : /\ calls' = [calls EXCEPT ![c] = x]
                         /\ x # Nothing => x = [pc |-> x.pc, record |-> x.record] /\ IsOfItsState(x.record)
    <2>1. /\ calls[c] # Nothing /\ UNCHANGED records
          /\ \/ calls' = [calls EXCEPT ![c] = [calls[c] EXCEPT !.pc = "writing"]]
             \/ calls' = [calls EXCEPT ![c] = Nothing]
      BY <1>6 DEF Recheck
    <2>2. [calls[c] EXCEPT !.pc = "writing"] = [pc |-> "writing", record |-> calls[c].record]
      <3>1. \A z, r : [[pc |-> z, record |-> r] EXCEPT !.pc = "writing"] = [pc |-> "writing", record |-> r]
        OBVIOUS
      <3>2. calls[c] = [pc |-> calls[c].pc, record |-> calls[c].record]
        BY <1>4, <2>1
      <3> DEFINE z == calls[c].pc
                 r == calls[c].record
      <3>3. [calls[c] EXCEPT !.pc = "writing"] = [[pc |-> z, record |-> r] EXCEPT !.pc = "writing"]
        BY <3>2
      <3> HIDE DEF z
      <3> QED BY <3>1, <3>3
    <2>3. IsOfItsState(calls[c].record)
      BY <1>4, <2>1
    <2> DEFINE x == [pc |-> "writing", record |-> calls[c].record]
    <2>4. x = [pc |-> x.pc, record |-> x.record] /\ IsOfItsState(x.record)
      BY <2>3
    <2>5. calls' = [calls EXCEPT ![c] = x] \/ calls' = [calls EXCEPT ![c] = Nothing]
      BY <2>1, <2>2
    <2> HIDE DEF x
    <2> QED BY <2>1, <2>4, <2>5
  <1>7. ASSUME Write(c)
        PROVE  /\ calls[c] # Nothing /\ records' = records \union {calls[c].record}
               /\ calls' = [calls EXCEPT ![c] = Nothing]
    BY <1>7 DEF Write
  <1>8. \E x : /\ calls' = [calls EXCEPT ![c] = x]
               /\ x # Nothing => x = [pc |-> x.pc, record |-> x.record] /\ IsOfItsState(x.record)
    BY <1>5, <1>6, <1>7
  <1>9. /\ DOMAIN calls' = Decider
        /\ \A d \in Decider : calls'[d] # Nothing =>
              /\ calls'[d] = [pc |-> calls'[d].pc, record |-> calls'[d].record]
              /\ \E r : r = calls'[d].record /\ IsOfItsState(r)
    BY <1>2, <1>4, <1>8
  <1>10. \A r \in records' : IsOfItsState(r)
    BY <1>4, <1>5, <1>6, <1>7
  <1>11. RecordsAreOfTheirStates'
    <2>1. \A r : IsOfItsState(r) => IsOfItsState(r)'
      BY <1>3
    <2>2. \A r \in records' : IsOfItsState(r)'
      BY <2>1, <1>10
    <2>3. \A d \in Decider : calls'[d] # Nothing => \E r : r = calls'[d].record /\ IsOfItsState(r)'
      BY <2>1, <1>9
    <2>4. \A d \in Decider : calls'[d] # Nothing => IsOfItsState(calls[d].record)'
      BY <2>3 DEF IsOfItsState, Derived
    <2> QED BY <2>2, <2>4, <1>9 DEF RecordsAreOfTheirStates
  <1>12. asked = Nothing
    BY <1>5, <1>6, <1>7 DEF ResidencyInv, Recheck
  <1> QED BY <1>1, <1>2, <1>9, <1>11, <1>12 DEF ResidencyInv

LEMMA ResidencySteps == ResidencyInv /\ [ResidencyNext]_residencyVars => ResidencyInv'
  <1> SUFFICES ASSUME ResidencyInv, [ResidencyNext]_residencyVars PROVE ResidencyInv'
    OBVIOUS
  <1>1. CASE MoveOn
    BY <1>1, InquiryMovesOn
  <1>2. CASE \E c \in Decider : Begin(c) \/ Recheck(c) \/ Write(c)
    BY <1>2, DeciderActs
  <1>3. CASE UNCHANGED residencyVars
    BY <1>3 DEF residencyVars, ResidencyInv, ChainEndsOnce, RecordsAreOfTheirStates, IsOfItsState, Derived
  <1> QED BY <1>1, <1>2, <1>3 DEF ResidencyNext

-----------------------------------------------------------------------------
(* Residency: what a record says. *)

LEMMA FactsHaveKinds ==
    /\ \A d \in Dimension : Semantic(d) \in Fact /\ Semantic(d) \in Required
                            /\ Semantic(d)[1] = "semantics" /\ Statement(Semantic(d)) = Value
    /\ \A c \in Candidate : /\ Representable(c) \in Fact /\ Representable(c)[1] = "representability"
                            /\ Statement(Representable(c)) = BOOLEAN
                            /\ Fits(c) \in Fact /\ Fits(c)[1] = "target"
                            /\ Statement(Fits(c)) = Target \X BOOLEAN
  <1>1. \A d \in Dimension : Semantic(d) \in Fact /\ Semantic(d) \in Required
    BY DEF Fact, Required
  <1>2. \A c \in Candidate : Representable(c) \in Fact /\ Fits(c) \in Fact
    BY DEF Fact
  <1>3. \A d : Semantic(d)[1] = "semantics" /\ Representable(d)[1] = "representability" /\ Fits(d)[1] = "target"
    BY DEF Semantic, Representable, Fits
  <1>4. \A f : /\ f[1] = "semantics" => Statement(f) = Value
               /\ f[1] = "representability" => Statement(f) = BOOLEAN
               /\ f[1] = "target" => Statement(f) = Target \X BOOLEAN
    BY DEF Statement
  <1> QED BY <1>1, <1>2, <1>3, <1>4

\* A fact is given for a residence exactly when its claim proves it.
LEMMA GivenIsProven ==
    ASSUME NEW claims, TypedClaims(claims), NEW t \in Target
    PROVE  /\ \A d \in Dimension : Given(claims, Semantic(d), t) =>
                 /\ claims[Semantic(d)].says \in Value
                 /\ Proves(claims, Semantic(d), claims[Semantic(d)].says)
           /\ \A c \in Candidate :
                 /\ CandidateFact(claims, Representable(c), t) = "yes" <=> Proves(claims, Representable(c), TRUE)
                 /\ CandidateFact(claims, Fits(c), t) = "yes" <=> Proves(claims, Fits(c), <<t, TRUE>>)
  <1>1. \A f \in Fact :
           /\ claims[f] = [domain |-> claims[f].domain, says |-> claims[f].says,
                           assessment |-> claims[f].assessment]
           /\ claims[f].domain = f[1] /\ claims[f].says # Nothing => claims[f].says \in Statement(f)
    BY DEF TypedClaims
  <1>2. ASSUME NEW d \in Dimension, Given(claims, Semantic(d), t)
        PROVE  /\ claims[Semantic(d)].says \in Value
               /\ Proves(claims, Semantic(d), claims[Semantic(d)].says)
    <2> DEFINE f == Semantic(d)
    <2>1. f \in Fact /\ f[1] = "semantics" /\ Statement(f) = Value
      BY FactsHaveKinds
    <2> HIDE DEF f
    <2>2. claims[f].domain = f[1] /\ claims[f].assessment = "established" /\ claims[f].says # Nothing
      BY <1>2, <2>1 DEF Given, Established, WellFormed, f
    <2>3. claims[f].says \in Value /\ Proves(claims, f, claims[f].says)
      BY <1>1, <2>1, <2>2 DEF Proves
    <2> QED BY <2>3 DEF f
  <1>3. ASSUME NEW c \in Candidate
        PROVE  CandidateFact(claims, Representable(c), t) = "yes" <=> Proves(claims, Representable(c), TRUE)
    <2> DEFINE f == Representable(c)
    <2>1. f \in Fact /\ f[1] = "representability" /\ Statement(f) = BOOLEAN
      BY FactsHaveKinds
    <2>2. Nothing \notin BOOLEAN
      BY <2>1, NothingIsNoStatement
    <2> HIDE DEF f
    <2>3. CandidateFact(claims, f, t) = "yes" <=>
             /\ claims[f].domain = f[1] /\ claims[f].assessment = "established"
             /\ claims[f].says # Nothing /\ claims[f].says
      BY <2>1 DEF CandidateFact, Given, Established, WellFormed
    <2>4. CandidateFact(claims, f, t) = "yes" => Proves(claims, f, TRUE)
      <3> SUFFICES ASSUME CandidateFact(claims, f, t) = "yes" PROVE Proves(claims, f, TRUE)
        OBVIOUS
      <3>1. claims[f].says \in BOOLEAN
        BY <1>1, <2>1, <2>3
      <3>2. claims[f].says = TRUE
        BY <3>1, <2>3
      <3> QED BY <3>2, <1>1, <2>1, <2>3 DEF Proves
    <2>5. Proves(claims, f, TRUE) => CandidateFact(claims, f, t) = "yes"
      <3> SUFFICES ASSUME Proves(claims, f, TRUE) PROVE CandidateFact(claims, f, t) = "yes"
        OBVIOUS
      <3>1. claims[f].says = TRUE /\ claims[f].domain = f[1] /\ claims[f].assessment = "established"
        BY DEF Proves
      <3>2. TRUE # Nothing
        BY <2>2
      <3> QED BY <3>1, <3>2, <2>3
    <2> QED BY <2>4, <2>5 DEF f
  <1>4. ASSUME NEW c \in Candidate
        PROVE  CandidateFact(claims, Fits(c), t) = "yes" <=> Proves(claims, Fits(c), <<t, TRUE>>)
    <2> DEFINE f == Fits(c)
    <2>1. f \in Fact /\ f[1] = "target" /\ Statement(f) = Target \X BOOLEAN
      BY FactsHaveKinds
    <2>2. Nothing \notin Target \X BOOLEAN
      BY <2>1, NothingIsNoStatement
    <2> HIDE DEF f
    <2>3. CandidateFact(claims, f, t) = "yes" <=>
             /\ claims[f].domain = f[1] /\ claims[f].assessment = "established"
             /\ claims[f].says # Nothing /\ claims[f].says[1] = t /\ claims[f].says[2]
      BY <2>1 DEF CandidateFact, Given, Established, WellFormed
    <2>4. CandidateFact(claims, f, t) = "yes" => Proves(claims, f, <<t, TRUE>>)
      <3> SUFFICES ASSUME CandidateFact(claims, f, t) = "yes" PROVE Proves(claims, f, <<t, TRUE>>)
        OBVIOUS
      <3>1. claims[f].says \in Target \X BOOLEAN
        BY <1>1, <2>1, <2>3
      <3>2. claims[f].says = <<claims[f].says[1], claims[f].says[2]>> /\ claims[f].says[2] \in BOOLEAN
        BY <3>1
      <3>3. claims[f].says[2] = TRUE
        BY <3>2, <2>3
      <3>4. claims[f].says = <<t, TRUE>>
        BY <3>2, <3>3, <2>3
      <3> QED BY <3>4, <1>1, <2>1, <2>3 DEF Proves
    <2>5. Proves(claims, f, <<t, TRUE>>) => CandidateFact(claims, f, t) = "yes"
      <3> SUFFICES ASSUME Proves(claims, f, <<t, TRUE>>) PROVE CandidateFact(claims, f, t) = "yes"
        OBVIOUS
      <3> DEFINE x == <<t, TRUE>>
      <3>0. Proves(claims, f, x)
        OBVIOUS
      <3> HIDE DEF x
      <3>1. claims[f].says = x /\ claims[f].domain = f[1] /\ claims[f].assessment = "established"
        <4>1. claims[f] = [domain |-> f[1], says |-> x, assessment |-> "established"]
          BY <3>0 DEF Proves
        <4> QED BY <4>1
      <3>2. <<t, TRUE>> \in Target \X BOOLEAN /\ <<t, TRUE>>[1] = t /\ <<t, TRUE>>[2] = TRUE
        OBVIOUS
      <3>3. <<t, TRUE>> # Nothing
        BY <2>2, <3>2
      <3> QED BY <3>1, <3>2, <3>3, <2>3 DEF x
    <2> QED BY <2>4, <2>5 DEF f
  <1> QED BY <1>2, <1>3, <1>4

\* A residence that is derived is supported, and none that is preferred is.
LEMMA DerivedIsSupported ==
    ASSUME NEW s, TypedClaims(s.claims), s.verdict \in Verdicts, NEW t \in Target,
           Derived(s, t)[1] = "lives"
    PROVE  /\ bundle /\ s.verdict = "complete"
           /\ Supports(s.claims, Derived(s, t)[2], t)
           /\ \A c \in Candidate : Rank(c) < Rank(Derived(s, t)[2]) => ~Supports(s.claims, c, t)
  <1> DEFINE m == Matrix(s.claims, t)
  <1>1. bundle /\ s.verdict = "complete" /\ Gaps(s.claims, t) = {} /\ Derived(s, t) = Classified(m)
    BY DecisionsDiffer DEF Derived, Verdicts
  <1>2. \A d \in Dimension : Given(s.claims, Semantic(d), t)
    BY <1>1, FactsHaveKinds DEF Gaps
  <1>3. /\ m.dimension = [d \in Dimension |-> s.claims[Semantic(d)].says]
        /\ \A c \in Candidate : /\ m.representable[c] = CandidateFact(s.claims, Representable(c), t)
                                /\ m.fits[c] = CandidateFact(s.claims, Fits(c), t)
    BY DEF Matrix
  <1>4. m.dimension \in [Dimension -> Value]
    BY <1>2, <1>3, GivenIsProven
  <1> HIDE DEF m
  <1>5. \A c \in Candidate : Eligible(m, c) => Supports(s.claims, c, t)
    <2> SUFFICES ASSUME NEW c \in Candidate, Eligible(m, c) PROVE Supports(s.claims, c, t)
      OBVIOUS
    <2>1. Rank(c) >= Floor(m) /\ m.representable[c] = "yes" /\ m.fits[c] = "yes"
      BY DEF Eligible
    <2>2. \A d \in Dimension : m.dimension[d] <= Rank(c)
      BY <2>1, <1>4, FloorIsHighest
    <2>3. ASSUME NEW d \in Dimension PROVE \E v \in 0 .. Rank(c) : Proves(s.claims, Semantic(d), v)
      <3>1. m.dimension[d] = s.claims[Semantic(d)].says /\ m.dimension[d] \in 0 .. 3
        BY <1>3, <1>4 DEF Value, Unknown
      <3>2. m.dimension[d] \in 0 .. Rank(c)
        BY <3>1, <2>2, RanksDiffer
      <3> QED BY <3>1, <3>2, <1>2, GivenIsProven
    <2>4. Proves(s.claims, Representable(c), TRUE) /\ Proves(s.claims, Fits(c), <<t, TRUE>>)
      BY <2>1, <1>3, GivenIsProven
    <2> QED BY <2>3, <2>4 DEF Supports
  <1>6. \A c \in Candidate : Supports(s.claims, c, t) => Eligible(m, c)
    <2> SUFFICES ASSUME NEW c \in Candidate, Supports(s.claims, c, t) PROVE Eligible(m, c)
      OBVIOUS
    <2>1. \A d \in Dimension : m.dimension[d] <= Rank(c)
      <3> SUFFICES ASSUME NEW d \in Dimension PROVE m.dimension[d] <= Rank(c)
        OBVIOUS
      <3>1. PICK v \in 0 .. Rank(c) : Proves(s.claims, Semantic(d), v)
        BY DEF Supports
      <3>2. s.claims[Semantic(d)].says = v
        BY <3>1 DEF Proves
      <3>3. m.dimension[d] = v
        BY <3>2, <1>3
      <3> QED BY <3>3, RanksDiffer
    <2>2. m.representable[c] = "yes" /\ m.fits[c] = "yes"
      BY <1>3, GivenIsProven DEF Supports
    <2>3. Rank(c) >= Floor(m)
      BY <2>1, <1>4, FloorIsHighest
    <2> QED BY <2>2, <2>3 DEF Eligible
  <1>7. UnknownDimensions(m) = {}
    <2>1. UnknownDimensions(m) # {} => Classified(m) = Bounded("dimensions")
      BY DEF Classified
    <2>2. Bounded("dimensions")[1] # "lives"
      BY DecisionsDiffer
    <2> QED BY <2>1, <2>2, <1>1
  <1>8. PICK b \in Candidate : IsPreferred(m, b) /\ Classified(m) = Lives(b)
    <2>1. ~(\E c \in Candidate : Eligible(m, c)) => Classified(m)[1] # "lives"
      BY <1>7, PolicyDecides, DecisionsDiffer
    <2> QED BY <2>1, <1>1, <1>7, PolicyDecides
  <1>9. Derived(s, t)[2] = b
    BY <1>1, <1>8, DecisionsDiffer
  <1>10. \A c \in Candidate : Rank(c) < Rank(b) => ~Eligible(m, c)
    BY <1>8, RanksDiffer DEF IsPreferred
  <1>11. Supports(s.claims, b, t)
    BY <1>5, <1>8 DEF IsPreferred
  <1>12. \A c \in Candidate : Rank(c) < Rank(b) => ~Supports(s.claims, c, t)
    BY <1>6, <1>10
  <1> HIDE DEF m
  <1> QED BY <1>1, <1>9, <1>11, <1>12

LEMMA RecordFacts ==
    ASSUME ResidencyInv, NEW r \in records
    PROVE  /\ IsOfItsState(r) /\ r.target \in Target /\ r.revision \in 1 .. Len(chain)
           /\ r.decision = Derived(chain[r.revision], r.target)
           /\ TypedClaims(chain[r.revision].claims) /\ chain[r.revision].verdict \in Verdicts
           /\ chain[r.revision].verdict # "none" => r.revision = Len(chain)
  <1>1. /\ IsOfItsState(r) /\ r.target \in Target /\ r.revision \in 1 .. Len(chain)
        /\ r.decision = Derived(chain[r.revision], r.target)
    BY DEF ResidencyInv, RecordsAreOfTheirStates, IsOfItsState
  <1>2. /\ ChainEndsOnce /\ Len(chain) \in Nat \ {0}
    BY LastOfChain DEF ResidencyInv
  <1>3. r.revision = Len(chain) \/ r.revision \in 1 .. Len(chain) - 1
    BY <1>1, <1>2
  <1> QED BY <1>1, <1>2, <1>3 DEF ChainEndsOnce

LEMMA ProvenOnly == ResidencyInv => OnlyProven
  <1> SUFFICES ASSUME ResidencyInv, NEW r \in records, LivesSomewhere(r)
               PROVE  LET s == chain[r.revision]
                      IN /\ bundle /\ s.verdict = "complete"
                         /\ Supports(s.claims, r.decision[2], r.target)
                         /\ \A c \in Candidate :
                               Rank(c) < Rank(r.decision[2]) => ~Supports(s.claims, c, r.target)
    BY DEF OnlyProven
  <1>1. Derived(chain[r.revision], r.target)[1] = "lives"
    BY RecordFacts DEF LivesSomewhere
  <1> QED BY <1>1, RecordFacts, DerivedIsSupported

LEMMA OneResidenceOnly == ResidencyInv => OneResidence
  <1> SUFFICES ASSUME ResidencyInv, NEW r \in records, NEW x \in records,
                      LivesSomewhere(r), LivesSomewhere(x), r.target = x.target
               PROVE  r.decision = x.decision
    BY DEF OneResidence
  <1>1. chain[r.revision].verdict = "complete" /\ chain[x.revision].verdict = "complete"
    BY RecordFacts, DerivedIsSupported DEF LivesSomewhere
  <1>2. r.revision = Len(chain) /\ x.revision = Len(chain)
    BY <1>1, RecordFacts
  <1> QED BY <1>2, RecordFacts

LEMMA AcceptedOnlyCurrent == ResidencyInv => AcceptedIsCurrent
  <1> SUFFICES ASSUME ResidencyInv, NEW r \in records
               PROVE  /\ chain[r.revision].verdict # "none" => AuthenticRecord(r, r.round)
                      /\ AuthenticRecord(r, r.round) => r.decision = Derived(Last(chain), r.target)
    BY DEF AcceptedIsCurrent
  <1>1. r \in [round : Round, target : Target, revision : Nat, decision : Decision]
        /\ r.decision = Derived(chain[r.revision], r.target)
    BY RecordFacts DEF IsOfItsState
  <1>2. r = [round |-> r.round, target |-> r.target, revision |-> r.revision,
             decision |-> Derived(chain[r.revision], r.target)]
    BY <1>1
  <1>3. r # Nothing
    BY <1>1, NothingIsNoRecord
  <1>4. AuthenticRecord(r, r.round) <=> r.revision = Len(chain)
    BY <1>2, <1>3 DEF AuthenticRecord, Decide
  <1>5. Last(chain) = chain[Len(chain)]
    BY LastOfChain DEF ResidencyInv
  <1> QED BY <1>1, <1>4, <1>5, RecordFacts

LEMMA SelectedRightly == ResidencyInv => SelectionIsRight
  <1> SUFFICES ASSUME ResidencyInv, asked # Nothing, UnknownDimensions(asked) = {}
               PROVE  LET answers == {Ideal(n) : n \in PossibleFacts(asked)}
                          decision == Classified(asked)
                      IN /\ decision[1] = "lives" =>
                               \A n \in PossibleFacts(asked) : Admissible(n, decision[2])
                         /\ \A c \in Candidate : answers = {{c}} => decision = Lives(c)
                         /\ answers = {{}} <=> decision = Blocked("candidates")
                         /\ decision = Bounded("candidates") => Cardinality(answers) > 1
    BY DEF SelectionIsRight
  <1>1. TypedMatrix(asked)
    BY ResidencyAssumption DEF ResidencyInv, TypedMatrix
  <1> QED BY <1>1, SelectionHolds

\* Whatever the inquiry, its claims and the moment of each call: a residence on file is
\* what a completed inquiry proved, one per target, and is accepted as long as it would
\* be decided again; and the policy decides what further facts cannot change
\* (ResidencyDecisionAuthority, evaluate_fact_matrix).
THEOREM ResidencyStaysSound == ResidencySpec => []ResidencyIsSound
  <1>1. ResidencySpec => []ResidencyInv
    BY ResidencyStarts, ResidencySteps, PTL DEF ResidencySpec
  <1>2. ResidencyInv => ResidencyIsSound
    BY ProvenOnly, OneResidenceOnly, AcceptedOnlyCurrent, SelectedRightly
    DEF ResidencyIsSound, ResidencyIsProven
  <1> QED BY <1>1, <1>2, PTL
=============================================================================
