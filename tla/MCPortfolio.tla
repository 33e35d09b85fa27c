----------------------------- MODULE MCPortfolio -----------------------------
(***************************************************************************)
(* What is decided from numerical evidence, in one instance.  A behaviour  *)
(* takes candidates through the authorities (PortfolioGovernance), or      *)
(* makes one call of the selection or of the budget (PortfolioSelection),  *)
(* or lets an engine solve problems and remember (NumericalEvolution).     *)
(***************************************************************************)
EXTENDS MCPortfolioGovernance, NumericalEvolution

CONSTANT Id

VARIABLES part, list, front, trials, policy, plan

selection == <<list, front, trials, policy, plan>>

\* Two objectives of three levels; lists with a repeated id and with a foreign
\* binding are among those tried.
MCPareto == {[id |-> i, bindings |-> "ours", objectives |-> <<x, y>>] :
                i \in Id, x \in 0 .. 2, y \in 0 .. 1}
MCParetoLists ==
    {<<x, y, z>> : x \in MCPareto, y \in {p \in MCPareto : p.id = 2}, z \in MCPareto}
    \cup {<<[x EXCEPT !.bindings = "other"], y>> : x \in MCPareto, y \in MCPareto}

Offers(i, most, histories) ==
    {[id |-> i, cost |-> x, most |-> m, history |-> h] : x \in {1, 2}, m \in most, h \in histories}

\* Two or three candidates, with every kind of history; a repeated id.
Mixed(i) == Offers(i, {1, 3}, {<<>>, <<"improved">>, <<"foreign">>})
Scored(i) == Offers(i, {1, 3}, {<<>>, <<"improved">>})
MCTrialLists ==
    {<<x, y>> : x \in Mixed(2), y \in Mixed(1)} \cup {<<x, x>> : x \in Mixed(1)}
    \cup {<<x, y, z>> : x \in Scored(1), y \in Scored(2), z \in Offers(3, {1, 3}, {<<>>})}

\* Of two trials none is left to explore with, and nothing to tell apart.
MCPolicies == {p \in [total : {4, 7}, reserve : {1, 4}, least : {1, 2}, most : {2, 5},
                      telling : BOOLEAN] : p.telling \/ p.most = 5}

S == INSTANCE PortfolioSelection
        WITH ParetoLists <- MCParetoLists, TrialLists <- MCTrialLists, Policies <- MCPolicies,
             MaxWork <- 26

Gives(x, verdict, c) == [backend |-> x, status |-> verdict, candidate |-> c]
Gone == Gives("direct", "unknown", NoValue)
Unfit == Gives("cholesky", "rejected", NoValue)

\* The first problem meets every answer of the portfolio, the second one is
\* solved by the direct solver or by an external candidate.
MCWorkload ==
    1 :> {{Gone, Gives("external", "rejected", 2)}, {Gone, Gives("external", "accepted", 1)},
          {Unfit, Gives("direct", "unknown", 1), Gives("external", "unknown", NoValue)},
          {Gives("cholesky", "accepted", 2), Gives("direct", "accepted", 1),
           Gives("external", "unknown", NoValue)},
          {Gives("cholesky", "rejected", 2), Gives("direct", "rejected", 1),
           Gives("external", "accepted", 1)}}
         \cup {{Unfit, Gives("direct", "rejected", 1), Gives("external", v, 2)} :
                  v \in {"accepted", "rejected"}}
         \cup {{Unfit, Gives("direct", "accepted", x), Gives("external", "accepted", 2)} :
                  x \in {0, 1}}
    @@ 2 :> {{Unfit, Gives("direct", "accepted", 2), Gives("external", "accepted", 1)}}

MCStoredSize(x) == IF x = 2 THEN 1 ELSE 2

MCProblem == {1, 2}
MCCheckpoint == 0 .. 2
MCBaselineCheckpoint == 0 .. 1
MCSuite == {"one", "another"}

GovernanceIdle ==
    /\ stages = <<[exposure |-> 1, groups |-> 2]>>
    /\ trajectory = <<>> /\ petfc = Unsealed /\ gate = Unsealed /\ canary = Unsealed

SelectionIdle ==
    /\ list = <<>> /\ trials = <<>> /\ policy = CHOOSE p \in MCPolicies : S!ValidPolicy(p)
    /\ front = S!Pending /\ plan = S!Unplanned

\* An engine that was not called, and whose backends answer nothing.
NumericsIdle ==
    /\ solves = [p \in Problem |-> {}]
    /\ incumbent = NoValue /\ revision = 0 /\ research = <<>>
    /\ lineages = [p \in Problem |-> NoValue] /\ memory = Empty
    /\ emitted = [attempts |-> <<>>, failures |-> <<>>]

MCInit ==
    \/ part = "governance" /\ GovernanceInit /\ SelectionIdle /\ NumericsIdle
    \/ part = "selection" /\ S!Init /\ GovernanceIdle /\ NumericsIdle
    \/ part = "numerics" /\ EvolutionInit /\ GovernanceIdle /\ SelectionIdle

Selecting == part = "selection" /\ S!Next /\ UNCHANGED <<part, governanceVars, evolutionVars>>

MCNext ==
    \/ part = "governance" /\ GovernanceNext /\ UNCHANGED <<part, selection, evolutionVars>>
    \/ Selecting
    \/ part = "numerics" /\ EvolutionNext /\ UNCHANGED <<part, governanceVars, selection>>

MCSpec == MCInit /\ [][MCNext]_<<part, governanceVars, selection, evolutionVars>>
          /\ WF_<<part, governanceVars, selection, evolutionVars>>(Selecting)

\* The front is the maximal candidates and nothing else, in any order of the list.
FrontIsRight == part = "selection" => S!FrontIsRight

\* A plan spends what it may and all of it, equals take turns as far as the
\* score tells them apart, and the call ends.
PlanIsExact == part = "selection" => S!PlanIsExact

\* What was learned can be derived again from what was returned, and what is
\* advised was earned.
ExperienceIsHonest == part = "numerics" => ReplayAgrees /\ AdviceIsEarned
=============================================================================
