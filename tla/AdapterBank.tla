---------------------------- MODULE AdapterBank ----------------------------
(***************************************************************************)
(* The lifecycle the adapter bank governs: registration and composition of *)
(* adapter manifests, candidate materialization, promotion permits,        *)
(* activation, transitive revocation, rollback, and the resolution of the  *)
(* adapter active in a slot.                                               *)
(*                                                                         *)
(* Publication is atomic here: AdapterBankJournal shows that the files     *)
(* implement a compare-and-swap history.  Every operation builds a child   *)
(* of the current snapshot; the child is published only if the bank's own  *)
(* validators accept it, and they are kept apart from the operations so    *)
(* that the two can be compared.                                           *)
(***************************************************************************)
EXTENDS Naturals, Sequences, FiniteSets

CONSTANTS
    Manifest,        \* immutable adapter manifests
    IdOf,            \* adapter.adapter_id of each manifest
    GenerationOf,    \* adapter.generation
    LineageOf,       \* lineage_id
    CapabilityOf,    \* capability_id
    ModelOf,         \* receiver_model with its parameter layout
    DeltaOf,         \* dense_delta
    TermsOf,         \* the manifests an exact composition sums, {} for an import
    Promotable,      \* manifests whose capability bundle is representation-closed
    Candidate,       \* bound: the manifests someone asks to materialize
    None,            \* no adapter, no permit
    MaxRevision      \* MAX_HISTORY_REVISIONS

ASSUME AdapterBankAssumption ==
    /\ GenerationOf \in [Manifest -> Nat \ {0}]
    /\ TermsOf \in [Manifest -> SUBSET Manifest]
    /\ Promotable \subseteq Manifest /\ Candidate \subseteq Manifest
    /\ None \notin Manifest
    /\ MaxRevision \in Nat \ {0}

VARIABLES
    history,         \* the committed snapshots; history[r] has revision r
    materialized,    \* manifests with an authenticated candidate materialization
    permits,         \* sealed promotion authorizations
    composing        \* compositions whose manifest is persisted, not yet committed

vars == <<history, materialized, permits, composing>>

Permit == [manifest : Manifest, against : 1..MaxRevision]
Version(m) == <<IdOf[m], GenerationOf[m]>>
Slot(m) == <<ModelOf[m], CapabilityOf[m]>>
Slots == {Slot(m) : m \in Manifest}

Empty == [revision |-> 0, op |-> [kind |-> "empty"], entries |-> {}, active |-> {}, revoked |-> {}]
Current == IF history = <<>> THEN Empty ELSE history[Len(history)]

RevokedIn(s) == {r.manifest : r \in s.revoked}
ActiveIn(s, slot) == {x \in s.active : Slot(x.manifest) = slot}
AdapterIn(s, slot) ==
    IF ActiveIn(s, slot) = {} THEN None
    ELSE (CHOOSE x \in ActiveIn(s, slot) : TRUE).manifest

Init ==
    /\ history = <<>>
    /\ materialized = {}
    /\ permits = {}
    /\ composing = {}

-----------------------------------------------------------------------------
(* What each operation demands and the child snapshot it builds.           *)

\* Variant: any later generation of the same adapter is accepted.
GenerationGrows(s, m) ==
    \A e \in s.entries : IdOf[e] = IdOf[m] => GenerationOf[m] > GenerationOf[e]

\* commit_registration, after the idempotent answer and the expectation.
GenerationFits(s, m) ==
    LET same == {e \in s.entries : IdOf[e] = IdOf[m]}
    IN  IF same = {} THEN GenerationOf[m] = 1
        ELSE LET previous == CHOOSE e \in same :
                                \A f \in same : GenerationOf[f] <= GenerationOf[e]
             IN  /\ GenerationOf[m] = GenerationOf[previous] + 1
                 /\ CapabilityOf[m] = CapabilityOf[previous]
                 /\ LineageOf[m] = LineageOf[previous]
                 /\ ModelOf[m] = ModelOf[previous]

\* Variant: revoked adapters are not compared with.
DuplicateOfLive(s, m) ==
    \E e \in s.entries \ RevokedIn(s) : CapabilityOf[e] = CapabilityOf[m] /\ ModelOf[e] = ModelOf[m]
                                        /\ DeltaOf[e] = DeltaOf[m]

OperationalDuplicate(s, m) ==
    \E e \in s.entries : CapabilityOf[e] = CapabilityOf[m] /\ ModelOf[e] = ModelOf[m]
                         /\ DeltaOf[e] = DeltaOf[m]

Registrable(s, m) ==
    /\ \A e \in s.entries : Version(e) # Version(m)
    /\ GenerationFits(s, m)
    /\ \A e \in s.entries : LineageOf[e] = LineageOf[m] => GenerationOf[e] # GenerationOf[m]
    /\ ~OperationalDuplicate(s, m)

RegisterChild(s, m) ==
    [revision |-> s.revision + 1,
     op |-> [kind |-> IF TermsOf[m] = {} THEN "register" ELSE "compose", manifest |-> m],
     entries |-> s.entries \union {m}, active |-> s.active, revoked |-> s.revoked]

\* The sources a composition may sum, in the snapshot compose_exact reads.
Composable(s, m) ==
    /\ Cardinality(TermsOf[m]) >= 2
    /\ TermsOf[m] \subseteq s.entries \ RevokedIn(s)
    /\ \A t \in TermsOf[m] : ModelOf[t] = ModelOf[m]

\* Variant: a permit issued against an older index is honoured.
ActivatableLater(s, p) ==
    /\ p.manifest \in s.entries \ RevokedIn(s)
    /\ p.against <= s.revision

\* activate: the permit binds the adapter to the index current when it was issued.
Activatable(s, p) ==
    /\ p.manifest \in s.entries \ RevokedIn(s)
    /\ p.against = s.revision

ActivateChild(s, p) ==
    [revision |-> s.revision + 1, op |-> [kind |-> "activate", permit |-> p],
     entries |-> s.entries, revoked |-> s.revoked,
     active |-> (s.active \ ActiveIn(s, Slot(p.manifest)))
                   \union {[manifest |-> p.manifest, permit |-> p, epoch |-> s.revision + 1]}]

\* The least set with root that contains every composition of one of its members.
Affected(s, root) ==
    LET Closed(set) == \A m \in s.entries : TermsOf[m] \intersect set # {} => m \in set
    IN  {m \in s.entries : \A set \in SUBSET s.entries : root \in set /\ Closed(set) => m \in set}

RevokeChild(s, root) ==
    LET affected == Affected(s, root)
    IN  [revision |-> s.revision + 1,
         op |-> [kind |-> "revoke", root |-> root, affected |-> affected],
         entries |-> s.entries,
         active |-> {x \in s.active : x.manifest \notin affected},
         revoked |-> s.revoked \union {[manifest |-> m, at |-> s.revision + 1, root |-> root] :
                                          m \in affected \ RevokedIn(s)}]

\* rollback: the slot returns to what it held at the target revision, under a
\* fresh permit, or becomes empty, without one.
RollbackAllowed(s, slot, target, permit) ==
    LET to == AdapterIn(history[target], slot)
    IN  /\ to # AdapterIn(s, slot)
        /\ IF to = None THEN permit = None
           ELSE /\ to \notin RevokedIn(s)
                /\ permit # None
                /\ permit.manifest = to
                /\ permit.against = s.revision

RollbackChild(s, slot, target, permit) ==
    LET to == AdapterIn(history[target], slot)
    IN  [revision |-> s.revision + 1,
         op |-> [kind |-> "rollback", slot |-> slot, target |-> target,
                 from |-> AdapterIn(s, slot), to |-> to, permit |-> permit],
         entries |-> s.entries, revoked |-> s.revoked,
         active |-> (s.active \ ActiveIn(s, slot)) \union
                       IF to = None THEN {}
                       ELSE {[manifest |-> to, permit |-> permit, epoch |-> s.revision + 1]}]

-----------------------------------------------------------------------------
(* What the bank demands of any snapshot and of any transition, on         *)
(* publication and again on every load.                                    *)

ContractValid(s) ==
    /\ \A m, n \in s.entries : m # n => Version(m) # Version(n)
    /\ \A m, n \in s.entries : m # n => <<LineageOf[m], GenerationOf[m]>> # <<LineageOf[n], GenerationOf[n]>>
    /\ \A r \in s.revoked : r.manifest \in s.entries /\ r.at \in 1..s.revision
    /\ \A q, r \in s.revoked : q.manifest = r.manifest => q = r
    /\ \A m \in s.entries : TermsOf[m] \intersect RevokedIn(s) # {} => m \in RevokedIn(s)
    /\ \A x, y \in s.active : Slot(x.manifest) = Slot(y.manifest) => x = y
    /\ \A x \in s.active : /\ x.manifest \in s.entries \ RevokedIn(s)
                           /\ x.epoch \in 1..s.revision
                           /\ x.permit \in permits
                           /\ x.permit.manifest = x.manifest
                           /\ x.manifest \in Promotable

RegistrationValid(parent, child) ==
    /\ child.active = parent.active /\ child.revoked = parent.revoked
    /\ child.entries = parent.entries \union {child.op.manifest}
    /\ child.op.manifest \notin parent.entries
    /\ (child.op.kind = "register") = (TermsOf[child.op.manifest] = {})

SlotMoved(parent, child, slot, m, permit) ==
    \E x \in ActiveIn(child, slot) :
        /\ x = [manifest |-> m, permit |-> permit, epoch |-> child.revision]
        /\ child.active = (parent.active \ ActiveIn(parent, slot)) \union {x}

ActivationValid(parent, child) ==
    LET p == child.op.permit
    IN  /\ child.entries = parent.entries /\ child.revoked = parent.revoked
        /\ p.manifest \in child.entries
        /\ SlotMoved(parent, child, Slot(p.manifest), p.manifest, p)

RevocationValid(parent, child) ==
    LET added == child.revoked \ parent.revoked
    IN  /\ child.entries = parent.entries
        /\ child.op.root \in child.op.affected
        /\ parent.revoked \subseteq child.revoked
        /\ {r.manifest : r \in added} = child.op.affected
        /\ \A r \in added : r.root = child.op.root /\ r.at = child.revision
        /\ child.active = {x \in parent.active : x.manifest \notin child.op.affected}

RollbackValid(parent, child) ==
    LET op == child.op
    IN  /\ child.entries = parent.entries /\ child.revoked = parent.revoked
        /\ op.target \in 1..parent.revision - 1
        /\ AdapterIn(parent, op.slot) = op.from
        /\ AdapterIn(history[op.target], op.slot) = op.to
        /\ IF op.to = None
           THEN op.permit = None /\ child.active = parent.active \ ActiveIn(parent, op.slot)
           ELSE op.permit # None /\ SlotMoved(parent, child, op.slot, op.to, op.permit)

TransitionValid(parent, child) ==
    /\ child.revision = parent.revision + 1
    /\ \/ child.op.kind \in {"register", "compose"} /\ RegistrationValid(parent, child)
       \/ child.op.kind = "activate" /\ ActivationValid(parent, child)
       \/ child.op.kind = "revoke" /\ RevocationValid(parent, child)
       \/ child.op.kind = "rollback" /\ RollbackValid(parent, child)

\* Variant: the history limit is not enforced.
PublishUnbounded(child) ==
    /\ TransitionValid(Current, child)
    /\ ContractValid(child)
    /\ history' = Append(history, child)

\* publish_snapshot: a refused child changes nothing.
Publish(child) ==
    /\ child.revision <= MaxRevision
    /\ TransitionValid(Current, child)
    /\ ContractValid(child)
    /\ history' = Append(history, child)

-----------------------------------------------------------------------------
(* Actions.  A call whose expectation is stale, or that fails a check, is   *)
(* refused and changes nothing, so only calls that pass are steps.         *)

Import(m) ==
    /\ TermsOf[m] = {}
    /\ Registrable(Current, m)
    /\ Publish(RegisterChild(Current, m))
    /\ UNCHANGED <<materialized, permits, composing>>

\* compose_exact reads the bank without the lock, sums the deltas and persists
\* the manifest ...
ComposeRead(m) ==
    /\ Composable(Current, m)
    /\ composing' = composing \union {[manifest |-> m, expected |-> Current.revision]}
    /\ UNCHANGED <<history, materialized, permits>>

\* Variant: the expectation is compared only when the bank was read.
ExpectationOnceMet(expected) == expected <= Current.revision

\* The expectation is compared again under the lock.
ExpectationMet(expected) == expected = Current.revision

\* ... and commits it under the lock, against the revision the caller named.
ComposeCommit(c) ==
    /\ ExpectationMet(c.expected)
    /\ Registrable(Current, c.manifest)
    /\ Publish(RegisterChild(Current, c.manifest))
    /\ composing' = composing \ {c}
    /\ UNCHANGED <<materialized, permits>>

\* The composing process is refused, fails or dies.
ComposeAbandon(c) ==
    /\ composing' = composing \ {c}
    /\ UNCHANGED <<history, materialized, permits>>

\* materialize_candidate: evidence about the bank, no change of its state.
Materialize(m) ==
    /\ m \in Candidate
    /\ m \in Current.entries \ RevokedIn(Current)
    /\ materialized' = materialized \union {m}
    /\ UNCHANGED <<history, permits, composing>>

\* Variant: the candidate is not looked up again in the current snapshot.
PermissibleAsObserved(m) == m \in materialized /\ m \in Promotable

\* Who may be granted a permit, once the gate, PETFC and canary witnesses agree.
Permissible(m) ==
    /\ m \in materialized
    /\ m \in Current.entries \ RevokedIn(Current)
    /\ m \in Promotable

\* authorize_governed_promotion, under the lock.
Authorize(m) ==
    /\ Permissible(m)
    /\ permits' = permits \union {[manifest |-> m, against |-> Current.revision]}
    /\ UNCHANGED <<history, materialized, composing>>

Activate(p) ==
    /\ \A x \in Current.active : x.permit # p
    /\ Activatable(Current, p)
    /\ Publish(ActivateChild(Current, p))
    /\ UNCHANGED <<materialized, permits, composing>>

Revoke(root) ==
    /\ root \in Current.entries \ RevokedIn(Current)
    /\ Publish(RevokeChild(Current, root))
    /\ UNCHANGED <<materialized, permits, composing>>

Rollback(slot, target, permit) ==
    /\ target < Current.revision
    /\ RollbackAllowed(Current, slot, target, permit)
    /\ Publish(RollbackChild(Current, slot, target, permit))
    /\ UNCHANGED <<materialized, permits, composing>>

Next ==
    \/ \E m \in Manifest : Import(m) \/ ComposeRead(m) \/ Materialize(m) \/ Authorize(m) \/ Revoke(m)
    \/ \E c \in composing : ComposeCommit(c) \/ ComposeAbandon(c)
    \/ \E p \in permits : Activate(p)
    \/ \E slot \in Slots, target \in 1..Len(history), permit \in permits \union {None} :
          Rollback(slot, target, permit)

Spec == Init /\ [][Next]_vars

-----------------------------------------------------------------------------
(* Readers: resolve_active and authenticate_execution_resolution.          *)

\* What resolve_active returned for a slot when the bank was at revision r.
Resolution(r, slot) == [revision |-> r, selection |-> CHOOSE x \in ActiveIn(history[r], slot) : TRUE]

\* Variant: only the adapter is compared.
SameAdapter(old, new) == old.selection.manifest = new.selection.manifest

\* A resolution authenticates if resolving its slot again gives the same one.
SameResolution(old, new) == old = new

StillResolves(r, slot) ==
    /\ ActiveIn(Current, slot) # {}
    /\ SameResolution(Resolution(r, slot), Resolution(Current.revision, slot))

-----------------------------------------------------------------------------
(* Properties.                                                             *)

Selection == [manifest : Manifest, permit : Permit, epoch : 1..MaxRevision]
Revocation == [manifest : Manifest, at : 1..MaxRevision, root : Manifest]
Operation ==
    [kind : {"register", "compose"}, manifest : Manifest]
    \union [kind : {"activate"}, permit : Permit]
    \union [kind : {"revoke"}, root : Manifest, affected : SUBSET Manifest]
    \union [kind : {"rollback"}, slot : Slots, target : 1..MaxRevision,
            from : Manifest \union {None}, to : Manifest \union {None}, permit : Permit \union {None}]

\* The snapshots, permits and pending compositions are well formed, and the
\* journal numbers its revisions without a gap.
TypeOK ==
    /\ Len(history) <= MaxRevision
    /\ \A r \in 1..Len(history) :
          /\ history[r].revision = r
          /\ history[r].op \in Operation
          /\ history[r].entries \subseteq Manifest
          /\ history[r].active \subseteq Selection
          /\ history[r].revoked \subseteq Revocation
    /\ materialized \subseteq Manifest
    /\ permits \subseteq Permit
    /\ composing \subseteq [manifest : Manifest, expected : 0..MaxRevision]

\* A revocation whose dependents were revoked before, through another source.
RevokesAgain(root) == Affected(Current, root) \intersect RevokedIn(Current) # {}

\* Whatever the sequence of calls, an operation that passes its own checks
\* builds a snapshot that the bank's validators accept: the caller is never
\* told that the bank lost its integrity by a legal call.  Revocations that
\* reach an adapter revoked before are the exception stated below.
OperationsPassValidation ==
    LET Accepted(child) == TransitionValid(Current, child) /\ ContractValid(child)
    IN  /\ \A m \in Manifest : Registrable(Current, m) /\ TermsOf[m] = {} =>
                               Accepted(RegisterChild(Current, m))
        /\ \A c \in composing : ExpectationMet(c.expected) /\ Registrable(Current, c.manifest) =>
                                Accepted(RegisterChild(Current, c.manifest))
        /\ \A p \in permits : Activatable(Current, p) => Accepted(ActivateChild(Current, p))
        /\ \A m \in Current.entries \ RevokedIn(Current) :
              ~RevokesAgain(m) => Accepted(RevokeChild(Current, m))
        /\ \A slot \in Slots, target \in 1..Len(history) - 1, permit \in permits \union {None} :
              RollbackAllowed(Current, slot, target, permit) =>
                 Accepted(RollbackChild(Current, slot, target, permit))

\* A permit moves a slot at most once, at the revision right after the index it
\* was issued against: not after another change, and never again.
PermitSpentOnce ==
    \A r \in 1..Len(history) :
        history[r].op.kind \in {"activate", "rollback"} =>
            history[r].op.permit = None \/ history[r].op.permit.against = r - 1

\* No permit was ever issued to an adapter that was revoked at that moment or
\* whose capability bundle is open, however long before it was materialized.
PermitsOnlyToTheLiving ==
    \A p \in permits : /\ p.manifest \in history[p.against].entries
                       /\ p.manifest \notin RevokedIn(history[p.against])
                       /\ p.manifest \in Promotable

\* The generations of an adapter are registered 1, 2, 3, ... and all have its
\* capability, lineage and receiver.
GenerationsContiguous ==
    \A m \in Current.entries :
        \A g \in 1..GenerationOf[m] - 1 :
            \E e \in Current.entries :
                /\ IdOf[e] = IdOf[m] /\ GenerationOf[e] = g
                /\ Slot(e) = Slot(m) /\ LineageOf[e] = LineageOf[m]

\* The weights of a revoked adapter never come back to its slot under another
\* name: for one capability and receiver a delta is registered once.
RevokedWeightsStayOut ==
    \A m \in RevokedIn(Current), e \in Current.entries :
        Slot(e) = Slot(m) /\ DeltaOf[e] = DeltaOf[m] => e = m

\* A resolution obtained before any change of its slot does not authenticate
\* after it, even if the same adapter is active again.
ResolutionsAreFenced ==
    \A r \in 1..Len(history) : \A x \in history[r].active :
        LET slot == Slot(x.manifest)
        IN  StillResolves(r, slot) =>
              \A s \in r..Len(history) : ActiveIn(history[s], slot) = {x}

\* Every adapter can be withdrawn: revoking one that is registered and not yet
\* revoked builds a snapshot the bank accepts.
RevocationIsNeverRefused ==
    \A m \in Current.entries \ RevokedIn(Current) :
        TransitionValid(Current, RevokeChild(Current, m))

\* The entries of every snapshot: well formed, generations in order, and revoked
\* weights stay out of their slot.
EntriesAreSound == TypeOK /\ GenerationsContiguous /\ RevokedWeightsStayOut

\* Nothing kept from an earlier snapshot is worth anything after a change: not a
\* permit, not a materialization, not a resolution (A-B-A included).
NoStaleAuthority == PermitSpentOnce /\ PermitsOnlyToTheLiving /\ ResolutionsAreFenced
=============================================================================
