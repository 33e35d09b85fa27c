-------------------------- MODULE MCKnowledgeInquiry --------------------------
(* Contracts for KnowledgeInquiry: closures that branch, meet and come back,  *)
(* rival hypotheses tested twice, obligations that cannot be met, budgets     *)
(* that run out in the middle, and closures that outgrow the hard caps.  A    *)
(* behaviour follows one such inquiry to its end, or is about the residence   *)
(* decided from one (ResidencyDecision).                                      *)
EXTENDS KnowledgeInquiry, ResidencyDecision

CONSTANTS o1, o2, o3, o4, o5, p, q, p3, p4, h1, h2, f, t1, t2

VARIABLE part

MCNode == 1..4
Wide == [actions |-> 9, cost |-> 40, revision |-> 9, evidence |-> 9,
         nodes |-> 4, edges |-> 6, depth |-> 3]
MCRank == [x \in {o1, o2, o3, o4, o5} \union MCNode |->
            CASE x = o1 -> 1 [] x = o2 -> 5 [] x = o3 -> 6 [] x = o4 -> 7 [] x = o5 -> 8
              [] OTHER -> 1 + x]
Closure(root, deepest) ==
    [method |-> "dependency", root |-> root, depth |-> 0, maxDepth |-> deepest, predicts |-> {}]
Try(method, predicted) ==
    [method |-> method, root |-> 0, depth |-> 0, maxDepth |-> 0, predicts |-> predicted]
Of(plan, claim, family, limit) ==
    [plan |-> plan, claim |-> claim, family |-> family, limit |-> limit, rank |-> MCRank]
Rivalry == [h \in {h1, h2} |-> f]
NoFamily == [h \in {} |-> f]
OneClaim == [o \in {o1, o2} |-> p]
Any3 == [o \in {o1, o2, o3} |-> IF o = o3 THEN q ELSE p]

\* A closure over three nodes, then a trace of the same claim.
Branching == Of([o \in {o1, o2} |-> IF o = o1 THEN Closure(1, 2) ELSE Try("trace", {})],
                OneClaim, NoFamily, Wide)
\* Two closures with different depths over the same root, and no room for the fourth node.
Narrow == Of([o \in {o1, o2} |-> IF o = o1 THEN Closure(1, 1) ELSE Closure(1, 2)],
             OneClaim, NoFamily, [Wide EXCEPT !.nodes = 3, !.edges = 3])
\* Two roots that may turn out to depend on each other.
TwoRoots == Of([o \in {o1, o2} |-> IF o = o1 THEN Closure(1, 2) ELSE Closure(2, 2)],
               [o \in {o1, o2} |-> IF o = o1 THEN p ELSE q], NoFamily, [Wide EXCEPT !.depth = 2])
\* Two interventions on one family of rivals, and a scenario.
Rivals2 == Of([o \in {o1, o2, o3} |-> IF o = o3 THEN Try("scenario", {}) ELSE Try("causal", {h1, h2})],
              Any3, Rivalry, Wide)
\* Obligations that no executor of the build can satisfy, after one that can be.
Unmeetable == Of([o \in {o1, o2, o3} |-> CASE o = o1 -> Try("trace", {})
                     [] o = o2 -> Try("counterexample", {h1, h2}) [] OTHER -> Try("formal", {})],
                 Any3, Rivalry, Wide)
\* Budgets that end the inquiry first: cost, revisions, evidence.
Poor == Of(Rivals2.plan, Any3, Rivalry, [Wide EXCEPT !.cost = 12])
Brief == Of(Rivals2.plan, Any3, Rivalry, [Wide EXCEPT !.revision = 4])
Scant == Of(Branching.plan, OneClaim, NoFamily, [Wide EXCEPT !.evidence = 3])
\* A closure beside so many claims, or obligations of one claim, that the caps leave no room
\* for all of its nodes.
Beside(claim) ==
    Of([o \in DOMAIN claim |-> IF o = o1 THEN Closure(1, 2) ELSE Try("trace", {})],
       claim, NoFamily, [Wide EXCEPT !.actions = 4])
ManyClaims == Beside([o \in {o1, o2, o3, o4} |->
                        CASE o = o1 -> p [] o = o2 -> q [] o = o3 -> p3 [] OTHER -> p4])
ManyDuties == Beside([o \in {o1, o2, o3, o4, o5} |-> p])

MCContract == {Branching, Narrow, TwoRoots, Rivals2, Unmeetable, Poor, Brief, Scant,
               ManyClaims, ManyDuties}

-----------------------------------------------------------------------------
(* Claims that prove a hybrid for t1, and heads that lack a piece of it: an    *)
(* assessment that is still open, a statement about the other receiver, a      *)
(* claim in a domain that is not its own, one that is missing or says nothing, *)
(* a dimension established to be unknown.                                      *)

Proved(domain, says) == [domain |-> domain, says |-> says, assessment |-> "established"]

Plain == [x \in {<<"semantics", d>> : d \in Dimension}
                \cup {<<d, c>> : d \in {"representability", "target"}, c \in Candidate} |->
            Proved(x[1], CASE x[1] = "semantics" -> IF x[2] = "effects" THEN 1 ELSE 0
                           [] x[1] = "representability" -> TRUE
                           [] x[1] = "target" -> <<t1, TRUE>>)]

Effects == <<"semantics", "effects">>
HybridFits == <<"target", "hybrid">>
WeightsDo == <<"representability", "weights">>

\* An inquiry is asked while something is still open.
Pending == [Plain EXCEPT ![HybridFits].assessment = "unresolved"]

MCStart ==
    {[claims |-> c, verdict |-> "none"] : c \in
        {Pending,
         [Plain EXCEPT ![HybridFits].says = <<t2, TRUE>>, ![Effects].assessment = "unresolved"],
         [Pending EXCEPT ![Effects].says = 0, ![WeightsDo].domain = "semantics"],
         [Pending EXCEPT ![Effects].says = 0, ![<<"target", "software">>].says = Nothing,
                         ![WeightsDo] = [domain |-> "none", says |-> Nothing,
                                         assessment |-> "unresolved"]],
         [Pending EXCEPT ![Effects].domain = "target"],
         [Pending EXCEPT ![<<"semantics", "observability">>].says = 3]}}

MCQuery == [dimension : {m \in [Dimension -> 0 .. 3] :
                            /\ m["requirements"] \in {0, 1} /\ m["external_state"] = 0
                            /\ m["observability"] \in {0, 3}},
            representable : [Candidate -> {"yes", "no", "open"}],
            fits : [Candidate -> {"yes", "no", "open"}]]

MCDeciders == {1}
MCTargets == {t1, t2}
MCRounds == {1, 2}
MCContested == {HybridFits, Effects}

-----------------------------------------------------------------------------

InquiryIdle ==
    /\ contract = CHOOSE c \in {k \in Contract : ValidContract(k)} : TRUE
    /\ state = Initial(contract)
    /\ reported = {} /\ verdicts = <<>> /\ confirmed = {} /\ contradicted = {}
    /\ oversized = FALSE

ResidencyIdle ==
    chain = <<>> /\ bundle = FALSE /\ calls = <<>> /\ records = {} /\ asked = Nothing

MCInit ==
    \/ part = "inquiry" /\ Init /\ ResidencyIdle
    \/ part = "residency" /\ ResidencyInit /\ InquiryIdle

Inquiring == part = "inquiry" /\ Next /\ UNCHANGED <<part, residencyVars>>

MCNext ==
    \/ Inquiring
    \/ part = "residency" /\ ResidencyNext /\ UNCHANGED <<part, vars>>

MCSpec == MCInit /\ [][MCNext]_<<part, vars, residencyVars>>
          /\ WF_<<part, vars, residencyVars>>(Inquiring)

\* No executor goes unanswered for ever: the inquiry comes to its end.
EveryInquiryEnds == part = "inquiry" => InquiryEnds
=============================================================================
