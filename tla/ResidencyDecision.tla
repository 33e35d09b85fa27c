------------------------- MODULE ResidencyDecision -------------------------
(***************************************************************************)
(* Where a capability may live (governance/residency_decision.rs): in the  *)
(* weights, in a hybrid, in software, or nowhere that is known yet.        *)
(*                                                                         *)
(* The authority derives the answer from the claims of one inquiry, at its *)
(* canonical head, and writes it down; whoever is handed the record later  *)
(* has it derived again.  The inquiry goes on meanwhile: `chain` is its    *)
(* canonical history, and MoveOn is what the knowledge engine does to it   *)
(* (modules KnowledgeInquiry and KnowledgeHead).                           *)
(*                                                                         *)
(* A value of a semantic dimension is its rank; candidates carry the rank  *)
(* that the floor is compared with.  Not modelled: digests, paths, the     *)
(* witnesses listed with a record and the rejections in its basis.         *)
(***************************************************************************)
EXTENDS Integers, FiniteSets, Sequences, FiniteSetsExt, SequencesExt

CONSTANTS Target,      \* receivers a decision may be about
          Round,       \* decision rounds
          Decider,     \* processes that decide
          Start,       \* heads the inquiry may have when it is first asked
          Query,       \* fact matrices handed to decide_from_fact_inputs
          Contested,   \* facts whose claims are still under investigation
          MaxRevision, \* bound: length of the history
          MaxRecords,  \* bound: decision files
          Nothing

VARIABLES chain,    \* the states the canonical head has named, oldest first
          bundle,   \* is the representation of the capability closed?
          calls,    \* per caller, the record it is about to write
          records,  \* the decision files
          asked     \* a fact matrix classified without an inquiry, or Nothing

residencyVars == <<chain, bundle, calls, records, asked>>

Dimension == {"requirements", "effects", "external_state", "observability"}
Candidate == {"weights", "hybrid", "software"}
Rank(c) == CASE c = "weights" -> 0 [] c = "hybrid" -> 1 [] c = "software" -> 2

\* The rank of a dimension, or that it was established to be unknown.
Unknown == 3
Value == 0 .. Unknown

Semantic(d) == <<"semantics", d>>
Representable(c) == <<"representability", c>>
Fits(c) == <<"target", c>>
Required == {Semantic(d) : d \in Dimension}
Fact == Required \union {Representable(c) : c \in Candidate} \union {Fits(c) : c \in Candidate}

\* What the claim of a fact's own domain says, if it says anything.
Statement(fact) ==
    CASE fact[1] = "semantics" -> Value
      [] fact[1] = "representability" -> BOOLEAN
      [] fact[1] = "target" -> Target \X BOOLEAN

\* Every fact has a claim, or none with a name.
TypedClaims(claims) ==
    /\ DOMAIN claims = Fact
    /\ \A f \in Fact :
          /\ claims[f] = [domain |-> claims[f].domain, says |-> claims[f].says,
                          assessment |-> claims[f].assessment]
          /\ claims[f].domain = f[1] /\ claims[f].says # Nothing => claims[f].says \in Statement(f)

ASSUME ResidencyAssumption ==
    /\ Contested \subseteq Fact /\ MaxRevision \in Nat /\ Start # {}
    /\ \A s \in Start : /\ s.verdict \in {"none", "complete", "bounded_unknown", "blocked"}
                         /\ TypedClaims(s.claims)
    /\ \A m \in Query : /\ m = [dimension |-> m.dimension, representable |-> m.representable,
                                 fits |-> m.fits]
                         /\ m.dimension \in [Dimension -> Value]
                         /\ m.representable \in [Candidate -> {"yes", "no", "open"}]
                         /\ m.fits \in [Candidate -> {"yes", "no", "open"}]
ASSUME NothingIsNoStatement == \A f \in Fact : Nothing \notin Statement(f)

-----------------------------------------------------------------------------
(* The policy. *)

UnknownDimensions(m) == {d \in Dimension : m.dimension[d] = Unknown}
Floor(m) == Max({m.dimension[d] : d \in Dimension})

Rejected(m, c) ==
    \/ Rank(c) < Floor(m)
    \/ m.representable[c] = "no"
    \/ m.fits[c] = "no"

\* Variant: missing evidence counts for the candidate.
EligibleUnlessRejected(m, c) == ~Rejected(m, c)

Eligible(m, c) ==
    /\ Rank(c) >= Floor(m)
    /\ m.representable[c] = "yes"
    /\ m.fits[c] = "yes"

Incomplete(m) == {c \in Candidate : ~Rejected(m, c) /\ ~Eligible(m, c)}

Lives(c) == <<"lives", c>>
Bounded(reason) == <<"bounded", reason>>
Blocked(reason) == <<"blocked", reason>>

Decision == {Lives(c) : c \in Candidate}
            \union {Bounded(x) : x \in {"dimensions", "candidates", "knowledge"}}
            \union {Blocked(x) : x \in {"bundle", "facts", "candidates", "knowledge",
                                        "knowledge_not_terminal"}}

ASSUME NothingIsNoRecord ==
    Nothing \notin [round : Round, target : Target, revision : Nat, decision : Decision]

\* The first eligible candidate in the policy's order; silence is no rejection.
Classified(m) ==
    IF UnknownDimensions(m) # {} THEN Bounded("dimensions")
    ELSE IF \E c \in Candidate : Eligible(m, c)
         THEN Lives(CHOOSE c \in Candidate :
                        Eligible(m, c) /\ \A d \in Candidate : Eligible(m, d) => Rank(c) <= Rank(d))
    ELSE IF Incomplete(m) # {} THEN Bounded("candidates") ELSE Blocked("candidates")

-----------------------------------------------------------------------------
(* Facts from claims.  A claim says something in a domain; a fact takes it only *)
(* from its own domain and only when it is established.                         *)

Missing == [domain |-> "none", says |-> Nothing, assessment |-> "unresolved"]

\* Variant: the claim's name is enough.
EstablishedAnywhere(claims, fact) == claims[fact].assessment = "established"

Established(claims, fact) ==
    claims[fact].domain = fact[1] /\ claims[fact].assessment = "established"

\* Whether a statement answers the fact's question, for this target.
WellFormed(fact, says, target) ==
    IF fact[1] = "target" THEN says # Nothing /\ says[1] = target ELSE says # Nothing

Given(claims, fact, target) ==
    Established(claims, fact) /\ WellFormed(fact, claims[fact].says, target)

CandidateFact(claims, fact, target) ==
    IF ~Given(claims, fact, target) THEN "open"
    ELSE LET says == claims[fact].says
         IN IF (IF fact[1] = "target" THEN says[2] ELSE says) THEN "yes" ELSE "no"

Gaps(claims, target) == {f \in Required : ~Given(claims, f, target)}

Matrix(claims, target) ==
    [dimension |-> [d \in Dimension |-> claims[Semantic(d)].says],
     representable |-> [c \in Candidate |-> CandidateFact(claims, Representable(c), target)],
     fits |-> [c \in Candidate |-> CandidateFact(claims, Fits(c), target)]]

-----------------------------------------------------------------------------
(* The authority. *)

\* Variant: what is established so far is enough.
DerivedEarly(state, target) ==
    IF ~bundle THEN Blocked("bundle")
    ELSE IF Gaps(state.claims, target) # {} THEN Blocked("facts")
    ELSE Classified(Matrix(state.claims, target))

Derived(state, target) ==
    IF ~bundle THEN Blocked("bundle")
    ELSE CASE state.verdict = "none" -> Blocked("knowledge_not_terminal")
           [] state.verdict = "bounded_unknown" -> Bounded("knowledge")
           [] state.verdict = "blocked" -> Blocked("knowledge")
           [] state.verdict = "complete" ->
                IF Gaps(state.claims, target) # {} THEN Blocked("facts")
                ELSE Classified(Matrix(state.claims, target))

\* Variant: any state of the inquiry will do.
DecideOfAny(round, target, revision) ==
    [round |-> round, target |-> target, revision |-> revision,
     decision |-> Derived(chain[revision], target)]

\* decide: only of the state that the canonical head names.
Decide(round, target, revision) ==
    IF revision # Len(chain) THEN Nothing
    ELSE [round |-> round, target |-> target, revision |-> revision,
          decision |-> Derived(chain[revision], target)]

\* What authenticate_decision accepts: a record for the expected round that
\* would be written again, word for word, now.
AuthenticRecord(record, round) ==
    record.round = round /\ Decide(record.round, record.target, record.revision) = record

ResidencyInit ==
    /\ \/ asked = Nothing /\ chain \in {<<s>> : s \in Start} /\ bundle \in BOOLEAN
       \/ asked \in Query /\ chain = <<CHOOSE s \in Start : TRUE>> /\ bundle = TRUE
    /\ calls = [c \in Decider |-> Nothing]
    /\ records = {}

\* A caller seals a manifest about the head and has it decided.
Begin(c) ==
    /\ asked = Nothing /\ calls[c] = Nothing
    /\ \E round \in Round, target \in Target :
          calls' = [calls EXCEPT ![c] = [pc |-> "decided",
                                         record |-> Decide(round, target, Len(chain))]]
    /\ UNCHANGED <<chain, bundle, records, asked>>

\* persist_decision decides again before it writes, and gives up when the answer
\* is no longer the same.
Recheck(c) ==
    /\ calls[c] # Nothing /\ calls[c].pc = "decided"
    /\ LET r == calls[c].record
       IN calls' = [calls EXCEPT ![c] =
                       IF Decide(r.round, r.target, r.revision) = r THEN [@ EXCEPT !.pc = "writing"]
                       ELSE Nothing]
    /\ UNCHANGED <<chain, bundle, records, asked>>

Write(c) ==
    /\ calls[c] # Nothing /\ calls[c].pc = "writing"
    /\ Cardinality(records) < MaxRecords
    /\ records' = records \union {calls[c].record}
    /\ calls' = [calls EXCEPT ![c] = Nothing]
    /\ UNCHANGED <<chain, bundle, asked>>

\* A claim without an open obligation is established; all of them are when an
\* inquiry is complete, and some is not while it goes on.
Settled(claims) == \A f \in Fact : claims[f] # Missing => claims[f].assessment = "established"

\* The knowledge engine assesses a claim anew, and may end the inquiry.  Claims are
\* those of the contract: only their assessment changes.
MoveOn ==
    /\ asked = Nothing
    /\ Last(chain).verdict = "none" /\ Len(chain) < MaxRevision
    /\ \E f \in {g \in Contested : Last(chain).claims[g] # Missing},
          a \in {"unresolved", "established", "contradicted"},
          v \in {"none", "complete", "bounded_unknown", "blocked"} :
          LET claims == [Last(chain).claims EXCEPT ![f].assessment = a]
          IN /\ v # "bounded_unknown" => (Settled(claims) <=> v = "complete")
             /\ chain' = Append(chain, [claims |-> claims, verdict |-> v])
    /\ UNCHANGED <<bundle, calls, records, asked>>

ResidencyNext ==
    \/ MoveOn
    \/ \E c \in Decider : Begin(c) \/ Recheck(c) \/ Write(c)

ResidencySpec == ResidencyInit /\ [][ResidencyNext]_residencyVars

-----------------------------------------------------------------------------
(* Properties. *)

LivesSomewhere(record) == record.decision[1] = "lives"

Proves(claims, fact, says) ==
    claims[fact] = [domain |-> fact[1], says |-> says, assessment |-> "established"]

Supports(claims, c, target) ==
    /\ \A d \in Dimension : \E v \in 0 .. Rank(c) : Proves(claims, Semantic(d), v)
    /\ Proves(claims, Representable(c), TRUE)
    /\ Proves(claims, Fits(c), <<target, TRUE>>)

\* A residence is assigned only when a completed inquiry proved, each claim in its
\* own domain and for this very target, all that it takes, and proved it for no
\* residence that the policy prefers (evaluate_fact_matrix, established_claim,
\* target_compatibility).
OnlyProven ==
    \A r \in {x \in records : LivesSomewhere(x)} :
        LET s == chain[r.revision]
        IN /\ bundle /\ s.verdict = "complete"
           /\ Supports(s.claims, r.decision[2], r.target)
           /\ \A c \in Candidate :
                 Rank(c) < Rank(r.decision[2]) => ~Supports(s.claims, c, r.target)

\* Rounds, callers and the moment make no difference: one target of an inquiry is
\* never given two residences.
OneResidence ==
    \A r, x \in {y \in records : LivesSomewhere(y)} :
        r.target = x.target => r.decision = x.decision

\* A decision about an inquiry that had ended is accepted ever after; any decision
\* that is accepted is the one that would be taken now (authenticate_decision).
AcceptedIsCurrent ==
    \A r \in records :
        /\ chain[r.revision].verdict # "none" => AuthenticRecord(r, r.round)
        /\ AuthenticRecord(r, r.round) => r.decision = Derived(Last(chain), r.target)

\* What is written down about an inquiry, while it goes on, is proven and stays.
ResidencyIsProven == OnlyProven /\ OneResidence /\ AcceptedIsCurrent

\* What the open facts of a matrix may turn out to be.
PossibleFacts(m) ==
    LET settle(facts) == {f \in [Candidate -> {"yes", "no"}] :
                             \A c \in Candidate : facts[c] \in {"open", f[c]}}
    IN [dimension : {m.dimension}, representable : settle(m.representable), fits : settle(m.fits)]

Admissible(m, c) ==
    /\ \A d \in Dimension : m.dimension[d] <= Rank(c)
    /\ m.representable[c] = "yes" /\ m.fits[c] = "yes"

Ideal(m) ==
    {c \in Candidate : Admissible(m, c) /\ \A d \in Candidate : Admissible(m, d) => Rank(c) <= Rank(d)}

\* With known semantics, the policy decides what further evidence cannot change: a
\* residence it assigns stays admissible whatever the open facts turn out to be,
\* what they leave no choice about is assigned, and it says that there is none, or
\* that it is not known, exactly when that is so (evaluate_fact_matrix).
SelectionIsRight ==
    asked # Nothing /\ UnknownDimensions(asked) = {} =>
        LET answers == {Ideal(m) : m \in PossibleFacts(asked)}
            decision == Classified(asked)
        IN /\ decision[1] = "lives" => \A m \in PossibleFacts(asked) : Admissible(m, decision[2])
           /\ \A c \in Candidate : answers = {{c}} => decision = Lives(c)
           /\ answers = {{}} <=> decision = Blocked("candidates")
           /\ decision = Bounded("candidates") => Cardinality(answers) > 1

\* A residence is what the evidence proves, for matrices and for inquiries.
ResidencyIsSound == ResidencyIsProven /\ SelectionIsRight
=============================================================================
