------------------------- MODULE PortfolioSelection -------------------------
(***************************************************************************)
(* What is done with several candidates that passed their gates            *)
(* (learning/portfolio_governance.rs): the Pareto front of a list of       *)
(* candidates, and the plan that spends an experimental budget on them.    *)
(*                                                                         *)
(* A Pareto candidate is its id, its bindings (baseline, catalogue,        *)
(* policies, design: one value) and its conservative objectives.  A trial  *)
(* candidate is its id, the cost of a trial, the most trials it may get    *)
(* and its history of gates, each with or without the priority metric.     *)
(*                                                                         *)
(* The score of a trial, an upper confidence bound in f64, is left open    *)
(* but for what its formula fixes: it depends on the history, the cost and *)
(* the number of trials already counted, and does not rise as that number  *)
(* grows.  Rounding may absorb the exploration term, so that scores of     *)
(* different numbers are equal: "telling" says of a policy that, for the   *)
(* histories at hand, its exploration is strong enough to keep them apart. *)
(***************************************************************************)
EXTENDS Integers, FiniteSets, Sequences, FiniteSetsExt, SequencesExt, Functions

CONSTANTS Id,            \* candidate ids, ordered as numbers from 1
          ParetoLists,   \* the lists given to deterministic_pareto_front
          TrialLists,    \* the lists given to allocate_adaptive_budget
          Policies,      \* the budget policies
          MaxWork        \* the largest estimate of candidates and gates to go through

VARIABLES list,    \* the Pareto candidates
          front,   \* the selected ids in order, Refused or Pending
          trials,  \* the trial candidates
          policy,  \* the budget policy
          plan     \* the plan being made

vars == <<list, front, trials, policy, plan>>

Refused == <<0>>

Pending == <<0, 0>>

-----------------------------------------------------------------------------
(* The Pareto front. *)

\* Variant: a tie dominates.
DominatesOrTies(x, y) == \A m \in DOMAIN x.objectives : x.objectives[m] >= y.objectives[m]

Dominates(x, y) ==
    /\ \A m \in DOMAIN x.objectives : x.objectives[m] >= y.objectives[m]
    /\ \E m \in DOMAIN x.objectives : x.objectives[m] > y.objectives[m]

\* Variant: the last candidate of an id replaces the earlier ones.
ComparableLast(l) ==
    /\ l # <<>>
    /\ \A i \in DOMAIN l : DOMAIN l[i].objectives = DOMAIN l[1].objectives

\* One catalogue, one baseline, one set of policies, and no id twice.
Comparable(l) ==
    /\ l # <<>>
    /\ \A i \in DOMAIN l : /\ DOMAIN l[i].objectives = DOMAIN l[1].objectives
                           /\ l[i].bindings = l[1].bindings
    /\ \A i, j \in DOMAIN l : l[i].id = l[j].id => i = j

\* Variant: the selected are listed as they came.
FrontAsGiven(l) ==
    IF ~Comparable(l) THEN Refused
    ELSE LET best == SelectSeq(l, LAMBDA x : \A y \in Range(l) : ~Dominates(y, x))
         IN [i \in DOMAIN best |-> best[i].id]

ParetoFront(l) ==
    IF ~Comparable(l) THEN Refused
    ELSE LET best == {x \in Range(l) : \A y \in Range(l) : ~Dominates(y, x)}
         IN SetToSortSeq({x.id : x \in best}, <)

-----------------------------------------------------------------------------
(* The budget. *)

\* AdaptiveBudgetPolicy::new
ValidPolicy(p) == p.reserve < p.total /\ p.least > 0 /\ p.most > 0

Allocatable == policy.total - policy.reserve

Candidates == {trials[i].id : i \in DOMAIN trials}

\* What is known of a candidate; a list with a repeated id gets no further.
Trial(c) == trials[CHOOSE i \in DOMAIN trials : trials[i].id = c]

Funded == FoldFunctionOnSet(+, 0, plan.count, Candidates)

MandatoryCost == FoldFunctionOnSet(+, 0, [c \in Candidates |-> Trial(c).cost * policy.least], Candidates)

\* Variant: the number of trials is not looked at.
CoverableByCost == MandatoryCost <= policy.total

Coverable ==
    MandatoryCost <= Allocatable /\ Cardinality(Candidates) * policy.least <= policy.most

\* Variant: a trial that would spend the budget exactly is not bought.
ViableWithin == {c \in Candidates : /\ plan.count[c] < Trial(c).most
                                    /\ Trial(c).cost < Allocatable - plan.consumed}

\* Candidates that may get another trial.
Viable == {c \in Candidates : /\ plan.count[c] < Trial(c).most
                              /\ Trial(c).cost <= Allocatable - plan.consumed}

Gates == FoldFunctionOnSet(+, 0, [c \in Candidates |-> Len(Trial(c).history)], Candidates)

\* A repeated id, a candidate that may not get its mandatory trials, too much work.
Refusable ==
    \/ Cardinality(Candidates) < Len(trials)
    \/ \E c \in Candidates : Trial(c).most < policy.least
    \/ policy.most * (Cardinality(Candidates) + Gates) + Gates > MaxWork

\* A gate of another evaluation has no value of the priority metric.
Scorable(c) == "foreign" \notin Range(Trial(c).history)

Twins(c, d) == Trial(c).cost = Trial(d).cost /\ Trial(c).history = Trial(d).history

\* Variant: the score looks at the history alone.
BestByHistory == {c \in Viable : \A d \in Viable \ {c} : Twins(c, d) => c < d}

\* Variant: an equal score replaces the best one so far.
BestIsLast == {c \in Viable : \A d \in Viable \ {c} :
                  Twins(c, d) => \/ plan.count[c] < plan.count[d]
                                 \/ c > d /\ (policy.telling => plan.count[c] = plan.count[d])}

\* Of two candidates with one history and one cost, the one with fewer trials does not
\* score less, and scores more if the policy tells the numbers apart; equal scores go to
\* the smaller id.
Best == {c \in Viable : \A d \in Viable \ {c} :
            Twins(c, d) => \/ plan.count[c] < plan.count[d]
                           \/ c < d /\ (policy.telling => plan.count[c] = plan.count[d])}

Unplanned == [stage |-> "open", count |-> [c \in Id |-> 0], consumed |-> 0]

-----------------------------------------------------------------------------
\* The functions are pure: a behaviour is one call of one of them.
Init ==
    /\ front = Pending /\ plan = Unplanned
    /\ policy \in {p \in Policies : ValidPolicy(p)}
    /\ \/ list \in ParetoLists /\ trials = <<>>
       \/ list = <<>> /\ trials \in TrialLists

\* deterministic_pareto_front
Select ==
    /\ list # <<>> /\ front = Pending
    /\ front' = ParetoFront(list)
    /\ UNCHANGED <<list, trials, policy, plan>>

\* allocate_adaptive_budget, the checks of the candidates.
Refuse ==
    /\ trials # <<>> /\ plan.stage = "open" /\ Refusable
    /\ plan' = [plan EXCEPT !.stage = "refused"]
    /\ UNCHANGED <<list, front, trials, policy>>

\* The mandatory rounds, or the empty plan when they do not fit.
Cover ==
    /\ trials # <<>> /\ plan.stage = "open" /\ ~Refusable
    /\ plan' = IF Coverable
               THEN [stage |-> "exploring",
                     count |-> [c \in Id |-> IF c \in Candidates THEN policy.least ELSE 0],
                     consumed |-> MandatoryCost]
               ELSE [plan EXCEPT !.stage = "uncovered"]
    /\ UNCHANGED <<list, front, trials, policy>>

\* A score that is not finite, or has no metric to be derived from, is an error of the call:
\* the trials planned so far are forgotten.
FailToScore ==
    /\ plan.stage = "exploring" /\ Funded < policy.most /\ Viable # {}
    /\ plan' = [Unplanned EXCEPT !.stage = "failed"]
    /\ UNCHANGED <<list, front, trials, policy>>

Explore ==
    /\ plan.stage = "exploring" /\ Funded < policy.most
    /\ \A c \in Viable : Scorable(c)
    /\ \E c \in Best :
          plan' = [plan EXCEPT !.count[c] = @ + 1, !.consumed = @ + Trial(c).cost]
    /\ UNCHANGED <<list, front, trials, policy>>

\* Variant: the loop waits for the last trial.
FinishAtLimit ==
    /\ plan.stage = "exploring" /\ Funded >= policy.most
    /\ plan' = [plan EXCEPT !.stage = "planned"]
    /\ UNCHANGED <<list, front, trials, policy>>

Finish ==
    /\ plan.stage = "exploring" /\ (Funded >= policy.most \/ Viable = {})
    /\ plan' = [plan EXCEPT !.stage = "planned"]
    /\ UNCHANGED <<list, front, trials, policy>>

Next == Select \/ Refuse \/ Cover \/ FailToScore \/ Explore \/ Finish

Spec == Init /\ [][Next]_vars /\ WF_vars(Next)

-----------------------------------------------------------------------------
(* Properties. *)

\* A front is refused or an increasing list of ids; a plan counts trials of its
\* candidates only.
TypeOK ==
    /\ front \notin {Pending, Refused} =>
          front \in Seq(Id) /\ \A i \in 1 .. Len(front) - 1 : front[i] < front[i + 1]
    /\ plan.stage \in {"open", "refused", "uncovered", "exploring", "failed", "planned"}
    /\ \A c \in Id : plan.count[c] \in Nat /\ (plan.count[c] > 0 => c \in Candidates)

\* The front of comparable candidates is never empty, holds nobody another
\* candidate dominates, and somebody in it dominates each candidate left out.
FrontIsMaximal ==
    front \notin {Pending, Refused} =>
        \A x \in Range(list) :
            x.id \in Range(front) <=> ~\E y \in Range(list) : y.id \in Range(front) /\ Dominates(y, x)

\* The selection is a function of the set of candidates: any order of the same
\* list selects the same ids, and a list with an ambiguous id selects nobody.
FrontIgnoresOrder ==
    front # Pending =>
        /\ \A p \in {f \in [DOMAIN list -> DOMAIN list] : \A i, j \in DOMAIN f : f[i] = f[j] => i = j} :
              ParetoFront([i \in DOMAIN list |-> list[p[i]]]) = front
        /\ front # Refused => Cardinality({x.id : x \in Range(list)}) = Cardinality(Range(list))

\* Whatever the scores, a plan never touches the holdout reserve, pays each of
\* its trials, and keeps every candidate between its mandatory and its largest
\* number of trials.
PlanIsAffordable ==
    /\ plan.consumed =
          FoldFunctionOnSet(+, 0, [c \in Candidates |-> plan.count[c] * Trial(c).cost], Candidates)
    /\ plan.consumed + policy.reserve <= policy.total
    /\ plan.stage \in {"exploring", "planned"} =>
          /\ \A c \in Candidates : plan.count[c] \in policy.least .. Trial(c).most
          /\ Funded <= policy.most
    /\ plan.stage \in {"refused", "uncovered", "failed"} => Funded = 0

\* A finished plan left nothing on the table: there is no candidate below its
\* limit that the unspent budget pays, unless the trials are used up.
PlanIsFull ==
    plan.stage = "planned" =>
        \/ Funded = policy.most
        \/ \A c \in Candidates : \/ plan.count[c] = Trial(c).most
                                 \/ plan.consumed + Trial(c).cost + policy.reserve > policy.total

\* Of candidates with one history and one cost, neither of which is at its limit, the
\* larger id is never ahead, whatever rounding does to the scores; and where the policy
\* tells the numbers of trials apart, they differ by one trial at most.  (Where it does
\* not, the smaller id may get every trial.)
EqualsTakeTurns ==
    \A c, d \in Candidates :
        Twins(c, d) /\ plan.count[c] < Trial(c).most =>
            /\ c < d => plan.count[d] <= plan.count[c]
            /\ policy.telling => plan.count[d] <= plan.count[c] + 1

\* The greedy loop ends: every call answers.
EveryCallAnswers == <>(front # Pending \/ plan.stage \in {"refused", "uncovered", "failed", "planned"})

\* The front is the maximal candidates and nothing else, in whatever order they
\* are listed.
FrontIsRight == TypeOK /\ FrontIsMaximal /\ FrontIgnoresOrder

\* A plan spends what it may, all of it and with equals in turn: the greedy loop neither
\* goes into the reserve nor stops while a trial is still affordable, and it ends.
PlanIsExact ==
    [](PlanIsAffordable /\ PlanIsFull /\ EqualsTakeTurns) /\ EveryCallAnswers
=============================================================================
