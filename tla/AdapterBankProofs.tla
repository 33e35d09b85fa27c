-------------------------- MODULE AdapterBankProofs --------------------------
(***************************************************************************)
(* Proofs about the lifecycle of the adapter bank, for any manifests, any  *)
(* depth of composition and any history limit.                             *)
(***************************************************************************)
EXTENDS AdapterBank, TLAPS

Snapshot ==
    [revision : 1..MaxRevision, op : Operation, entries : SUBSET Manifest,
     active : SUBSET Selection, revoked : SUBSET Revocation]

\* What Current may be: a snapshot of the history, or the empty one.
SnapshotOrEmpty ==
    [revision : 0..MaxRevision, op : Operation \union {Empty.op}, entries : SUBSET Manifest,
     active : SUBSET Selection, revoked : SUBSET Revocation]

(***************************************************************************)
(* The inductive invariant.                                                *)
(***************************************************************************)

\* The history is a sequence of snapshots numbered by their revisions.
HistoryOK ==
    /\ history \in Seq(Snapshot)
    /\ Len(history) <= MaxRevision
    /\ \A r \in 1..Len(history) : history[r].revision = r

\* Every permit names a committed revision.
PermitsCommitted ==
    /\ permits \subseteq Permit
    /\ \A p \in permits : p.against \in 1..Len(history)

\* In every snapshot a slot has at most one selection.
OneSelection ==
    \A r \in 1..Len(history) : \A x, y \in history[r].active :
        Slot(x.manifest) = Slot(y.manifest) => x = y

\* Every adapter has a latest generation, to which the next one is compared.
LatestExists ==
    \A m \in Current.entries : \E e \in Current.entries :
        /\ IdOf[e] = IdOf[m]
        /\ \A f \in Current.entries : IdOf[f] = IdOf[m] => GenerationOf[f] <= GenerationOf[e]

\* A pending composition that may still be committed has sources that live.
ComposingFresh ==
    \A c \in composing : /\ c.expected <= Len(history)
                         /\ c.expected = Len(history) => Composable(Current, c.manifest)

\* A delta is registered once for a slot.
DeltaOnce ==
    \A m, e \in Current.entries : Slot(e) = Slot(m) /\ DeltaOf[e] = DeltaOf[m] => e = m

IInv ==
    /\ HistoryOK
    /\ materialized \subseteq Manifest
    /\ composing \subseteq [manifest : Manifest, expected : 0..MaxRevision]
    /\ ComposingFresh
    /\ PermitsCommitted
    /\ PermitSpentOnce
    /\ PermitsOnlyToTheLiving
    /\ OneSelection
    /\ LatestExists
    /\ GenerationsContiguous
    /\ DeltaOnce
    /\ ContractValid(Current)

-----------------------------------------------------------------------------
(* The current snapshot and its child.                                     *)

\* The current snapshot is the last of the history, or the empty one.
LEMMA CurrentIsLast ==
    ASSUME HistoryOK
    PROVE  /\ Current \in SnapshotOrEmpty
           /\ Current.revision = Len(history)
           /\ Len(history) > 0 => Current = history[Len(history)]
           /\ Len(history) = 0 => Current = Empty
<1>1. CASE history = <<>>
  BY <1>1, AdapterBankAssumption DEF Current, Empty, SnapshotOrEmpty
<1>2. CASE history # <<>>
  <2>1. Len(history) \in 1..MaxRevision
    BY <1>2, AdapterBankAssumption DEF HistoryOK
  <2>2. Current = history[Len(history)] /\ history[Len(history)] \in Snapshot
    BY <1>2, <2>1 DEF Current, HistoryOK
  <2> QED BY <2>1, <2>2, AdapterBankAssumption DEF HistoryOK, Snapshot, SnapshotOrEmpty
<1> QED BY <1>1, <1>2

\* Publishing makes the child current and leaves the past as it was.
LEMMA PublishAppends ==
    ASSUME HistoryOK, NEW child \in Snapshot, Publish(child)
    PROVE  /\ HistoryOK'
           /\ Len(history') = Len(history) + 1
           /\ Current' = child
           /\ child.revision = Len(history) + 1
           /\ \A r \in 1..Len(history) : history'[r] = history[r]
           /\ history'[Len(history) + 1] = child
<1>1. child.revision = Len(history) + 1 /\ history' = Append(history, child)
  BY CurrentIsLast DEF Publish, TransitionValid
<1>2. Len(history) \in Nat /\ Len(history) + 1 <= MaxRevision
  BY <1>1 DEF HistoryOK, Publish
<1>3. history' \in Seq(Snapshot) /\ Len(history') = Len(history) + 1
  BY <1>1 DEF HistoryOK
<1>4. /\ \A r \in 1..Len(history) : history'[r] = history[r]
      /\ history'[Len(history) + 1] = child
  BY <1>1 DEF HistoryOK
<1>5. HistoryOK'
  BY <1>1, <1>2, <1>3, <1>4 DEF HistoryOK
<1>6. Current' = child
  BY <1>2, <1>3, <1>4 DEF Current
<1> QED BY <1>1, <1>3, <1>4, <1>5, <1>6

\* A child is published only while the history has room for it.
LEMMA RoomToPublish ==
    ASSUME NEW child, Publish(child)
    PROVE  Current.revision + 1 <= MaxRevision
BY DEF Publish, TransitionValid

-----------------------------------------------------------------------------
(* The children the operations build.                                      *)

\* The snapshot after a registration.
LEMMA RegisterChildIs ==
    ASSUME NEW s \in SnapshotOrEmpty, NEW m \in Manifest
    PROVE  LET child == RegisterChild(s, m)
           IN  /\ child.revision = s.revision + 1
               /\ child.entries = s.entries \union {m}
               /\ child.active = s.active /\ child.revoked = s.revoked
               /\ child.op = [kind |-> IF TermsOf[m] = {} THEN "register" ELSE "compose", manifest |-> m]
               /\ s.revision + 1 <= MaxRevision => child \in Snapshot
<1>1. [kind |-> IF TermsOf[m] = {} THEN "register" ELSE "compose", manifest |-> m] \in Operation
  BY DEF Operation
<1> QED BY <1>1 DEF RegisterChild, SnapshotOrEmpty, Snapshot

\* The snapshot after an activation.
LEMMA ActivateChildIs ==
    ASSUME NEW s \in SnapshotOrEmpty, NEW p \in Permit
    PROVE  LET child == ActivateChild(s, p)
               x == [manifest |-> p.manifest, permit |-> p, epoch |-> s.revision + 1]
           IN  /\ child.revision = s.revision + 1
               /\ child.entries = s.entries /\ child.revoked = s.revoked
               /\ child.active = (s.active \ ActiveIn(s, Slot(p.manifest))) \union {x}
               /\ child.op = [kind |-> "activate", permit |-> p]
               /\ s.revision + 1 <= MaxRevision => child \in Snapshot
<1> DEFINE x == [manifest |-> p.manifest, permit |-> p, epoch |-> s.revision + 1]
<1>1. [kind |-> "activate", permit |-> p] \in Operation
  BY DEF Operation
<1>2. s.revision + 1 <= MaxRevision => x \in Selection
  BY AdapterBankAssumption DEF Selection, Permit, SnapshotOrEmpty
<1> QED BY <1>1, <1>2 DEF ActivateChild, SnapshotOrEmpty, Snapshot

\* The snapshot after a revocation.
LEMMA RevokeChildIs ==
    ASSUME NEW s \in SnapshotOrEmpty, NEW root \in Manifest
    PROVE  LET child == RevokeChild(s, root)
               affected == Affected(s, root)
           IN  /\ affected \subseteq s.entries
               /\ child.revision = s.revision + 1
               /\ child.entries = s.entries
               /\ child.active = {x \in s.active : x.manifest \notin affected}
               /\ child.revoked = s.revoked \union
                     {[manifest |-> m, at |-> s.revision + 1, root |-> root] :
                         m \in affected \ RevokedIn(s)}
               /\ child.op = [kind |-> "revoke", root |-> root, affected |-> affected]
               /\ s.revision + 1 <= MaxRevision => child \in Snapshot
<1> DEFINE affected == Affected(s, root)
           added == {[manifest |-> m, at |-> s.revision + 1, root |-> root] :
                        m \in affected \ RevokedIn(s)}
<1>1. affected \subseteq s.entries /\ s.entries \subseteq Manifest
  BY DEF Affected, SnapshotOrEmpty
<1>2. [kind |-> "revoke", root |-> root, affected |-> affected] \in Operation
  BY <1>1 DEF Operation
<1>3. s.revision + 1 <= MaxRevision => added \subseteq Revocation
  BY <1>1, AdapterBankAssumption DEF Revocation, SnapshotOrEmpty
<1> HIDE DEF affected, added
<1>4. RevokeChild(s, root) =
        [revision |-> s.revision + 1,
         op |-> [kind |-> "revoke", root |-> root, affected |-> affected],
         entries |-> s.entries,
         active |-> {x \in s.active : x.manifest \notin affected},
         revoked |-> s.revoked \union added]
  BY DEF RevokeChild, affected, added
<1>5. /\ RevokeChild(s, root).revision = s.revision + 1
      /\ RevokeChild(s, root).entries = s.entries
      /\ RevokeChild(s, root).active = {x \in s.active : x.manifest \notin affected}
      /\ RevokeChild(s, root).revoked = s.revoked \union added
      /\ RevokeChild(s, root).op = [kind |-> "revoke", root |-> root, affected |-> affected]
      /\ s.revision + 1 <= MaxRevision => RevokeChild(s, root) \in Snapshot
  BY <1>1, <1>2, <1>3, <1>4 DEF SnapshotOrEmpty, Snapshot
<1> QED BY <1>1, <1>5 DEF affected, added

\* What a slot held is a registered adapter or none.
LEMMA AdapterInIs ==
    ASSUME NEW s \in SnapshotOrEmpty, NEW slot \in Slots
    PROVE  \/ AdapterIn(s, slot) = None /\ ActiveIn(s, slot) = {}
           \/ AdapterIn(s, slot) \in Manifest /\ Slot(AdapterIn(s, slot)) = slot
<1>1. CASE ActiveIn(s, slot) = {}
  BY <1>1 DEF AdapterIn
<1>2. CASE ActiveIn(s, slot) # {}
  <2> DEFINE x == CHOOSE x \in ActiveIn(s, slot) : TRUE
  <2>1. x \in ActiveIn(s, slot)
    BY <1>2
  <2>2. AdapterIn(s, slot) = x.manifest
    BY <1>2 DEF AdapterIn
  <2> HIDE DEF x
  <2> QED BY <2>1, <2>2 DEF ActiveIn, SnapshotOrEmpty, Selection
<1> QED BY <1>1, <1>2

\* The snapshot after a rollback.
LEMMA RollbackChildIs ==
    ASSUME HistoryOK, NEW slot \in Slots, NEW target \in 1..Len(history),
           NEW permit \in Permit \union {None}, RollbackAllowed(Current, slot, target, permit)
    PROVE  LET s == Current
               child == RollbackChild(s, slot, target, permit)
               to == AdapterIn(history[target], slot)
           IN  /\ to = None => permit = None
               /\ to # None => /\ permit \in Permit /\ to \in Manifest /\ Slot(to) = slot
                               /\ permit.manifest = to /\ permit.against = s.revision
               /\ child.revision = s.revision + 1
               /\ child.entries = s.entries /\ child.revoked = s.revoked
               /\ child.active = (s.active \ ActiveIn(s, slot)) \union
                     IF to = None THEN {}
                     ELSE {[manifest |-> to, permit |-> permit, epoch |-> s.revision + 1]}
               /\ child.op = [kind |-> "rollback", slot |-> slot, target |-> target,
                              from |-> AdapterIn(s, slot), to |-> to, permit |-> permit]
               /\ s.revision + 1 <= MaxRevision => child \in Snapshot
<1> DEFINE s == Current
           to == AdapterIn(history[target], slot)
           op == [kind |-> "rollback", slot |-> slot, target |-> target,
                  from |-> AdapterIn(s, slot), to |-> to, permit |-> permit]
           held == IF to = None THEN {}
                   ELSE {[manifest |-> to, permit |-> permit, epoch |-> s.revision + 1]}
<1>1. s \in SnapshotOrEmpty /\ history[target] \in SnapshotOrEmpty
  <2>1. history[target] \in Snapshot
    BY DEF HistoryOK
  <2>2. Snapshot \subseteq SnapshotOrEmpty
    BY AdapterBankAssumption DEF Snapshot, SnapshotOrEmpty
  <2> QED BY <2>1, <2>2, CurrentIsLast
<1>2. AdapterIn(s, slot) \in Manifest \union {None}
  BY <1>1, AdapterInIs
<1>3. \/ to = None
      \/ to \in Manifest /\ to # None /\ Slot(to) = slot
  BY <1>1, AdapterInIs, AdapterBankAssumption
<1>4. /\ to = None => permit = None
      /\ to # None => permit \in Permit /\ permit.manifest = to /\ permit.against = s.revision
  BY DEF RollbackAllowed
<1> HIDE DEF to, s
<1>5. target \in 1..MaxRevision
  BY AdapterBankAssumption DEF HistoryOK
<1>6. op \in Operation
  BY <1>2, <1>3, <1>5 DEF Operation
<1>7. s.revision + 1 <= MaxRevision => held \subseteq Selection
  BY <1>1, <1>3, <1>4, AdapterBankAssumption DEF Selection, SnapshotOrEmpty
<1> HIDE DEF op, held
<1>8. RollbackChild(s, slot, target, permit) =
        [revision |-> s.revision + 1, op |-> op, entries |-> s.entries, revoked |-> s.revoked,
         active |-> (s.active \ ActiveIn(s, slot)) \union held]
  BY DEF RollbackChild, op, held, to
<1>9. LET child == RollbackChild(s, slot, target, permit)
      IN  /\ child.revision = s.revision + 1
          /\ child.entries = s.entries /\ child.revoked = s.revoked
          /\ child.active = (s.active \ ActiveIn(s, slot)) \union held
          /\ child.op = op
          /\ s.revision + 1 <= MaxRevision => child \in Snapshot
  BY <1>1, <1>6, <1>7, <1>8 DEF SnapshotOrEmpty, Snapshot
<1> QED BY <1>3, <1>4, <1>9 DEF op, held, to, s

-----------------------------------------------------------------------------
(* Steps.                                                                  *)

\* What publication preserves, whatever the operation.
LEMMA PublishKeeps ==
    ASSUME IInv, NEW child \in Snapshot, Publish(child),
           UNCHANGED <<materialized, permits>>, composing' \subseteq composing,
           child.op.kind \in {"activate", "rollback"} =>
              child.op.permit = None \/ child.op.permit.against = Len(history)
    PROVE  /\ HistoryOK' /\ Current' = child
           /\ (materialized \subseteq Manifest)'
           /\ (composing \subseteq [manifest : Manifest, expected : 0..MaxRevision])'
           /\ ComposingFresh' /\ PermitsCommitted' /\ PermitSpentOnce'
           /\ PermitsOnlyToTheLiving' /\ OneSelection'
           /\ ContractValid(Current)'
<1>1. /\ HistoryOK'
      /\ Len(history) \in Nat
      /\ Len(history') = Len(history) + 1
      /\ Current' = child
      /\ \A r \in 1..Len(history) : history'[r] = history[r]
      /\ history'[Len(history) + 1] = child
  BY PublishAppends DEF IInv, HistoryOK
<1>2. /\ (materialized \subseteq Manifest)'
      /\ (composing \subseteq [manifest : Manifest, expected : 0..MaxRevision])'
  BY DEF IInv
<1>3. ComposingFresh'
  <2>1. SUFFICES ASSUME NEW c \in composing PROVE c.expected < Len(history) + 1
    BY <1>1, AdapterBankAssumption DEF ComposingFresh, IInv
  <2>2. c.expected \in Nat /\ c.expected <= Len(history)
    BY AdapterBankAssumption DEF ComposingFresh, IInv
  <2> QED BY <1>1, <2>2
<1>4. PermitsCommitted' /\ PermitsOnlyToTheLiving'
  BY <1>1 DEF IInv, PermitsCommitted, PermitsOnlyToTheLiving
<1>5. PermitSpentOnce'
  BY <1>1 DEF IInv, PermitSpentOnce
<1>6. ContractValid(Current)'
  <2>1. ContractValid(child) /\ permits' = permits
    BY DEF Publish
  <2> QED BY <1>1, <2>1 DEF ContractValid
<1>7. OneSelection'
  <2>1. \A x, y \in child.active : Slot(x.manifest) = Slot(y.manifest) => x = y
    BY DEF Publish, ContractValid
  <2> QED BY <1>1, <2>1 DEF IInv, OneSelection
<1> QED BY <1>1, <1>2, <1>3, <1>4, <1>5, <1>6, <1>7

\* An operation that registers nothing keeps what is said of the entries.
LEMMA EntriesKept ==
    ASSUME IInv, Current'.entries = Current.entries
    PROVE  LatestExists' /\ GenerationsContiguous' /\ DeltaOnce'
BY DEF IInv, LatestExists, GenerationsContiguous, DeltaOnce

\* A registration extends the generations of one adapter by one.
LEMMA RegisterKeeps ==
    ASSUME IInv, NEW m \in Manifest, Registrable(Current, m),
           Current'.entries = Current.entries \union {m}
    PROVE  LatestExists' /\ GenerationsContiguous' /\ DeltaOnce'
<1> DEFINE E == Current.entries
           same == {e \in E : IdOf[e] = IdOf[m]}
           previous == CHOOSE e \in same : \A f \in same : GenerationOf[f] <= GenerationOf[e]
<1>1. E \subseteq Manifest /\ \A e \in E \union {m} : GenerationOf[e] \in Nat \ {0}
  BY CurrentIsLast, AdapterBankAssumption DEF IInv, SnapshotOrEmpty
<1>2. \/ same = {} /\ GenerationOf[m] = 1
      \/ /\ previous \in E /\ IdOf[previous] = IdOf[m]
         /\ \A f \in same : GenerationOf[f] <= GenerationOf[previous]
         /\ GenerationOf[m] = GenerationOf[previous] + 1
         /\ Slot(m) = Slot(previous) /\ LineageOf[m] = LineageOf[previous]
  <2>1. CASE same = {}
    BY <2>1 DEF Registrable, GenerationFits
  <2>2. CASE same # {}
    <3>1. \E e \in same : \A f \in same : GenerationOf[f] <= GenerationOf[e]
      BY <2>2 DEF IInv, LatestExists
    <3>2. previous \in same /\ \A f \in same : GenerationOf[f] <= GenerationOf[previous]
      BY <3>1
    <3>3. /\ GenerationOf[m] = GenerationOf[previous] + 1
          /\ CapabilityOf[m] = CapabilityOf[previous]
          /\ LineageOf[m] = LineageOf[previous]
          /\ ModelOf[m] = ModelOf[previous]
      BY <2>2 DEF Registrable, GenerationFits
    <3> QED BY <3>2, <3>3 DEF Slot
  <2> QED BY <2>1, <2>2
<1> HIDE DEF previous
<1>3. LatestExists'
  <2>1. SUFFICES ASSUME NEW n \in E \union {m}
                 PROVE  \E e \in E \union {m} :
                           /\ IdOf[e] = IdOf[n]
                           /\ \A f \in E \union {m} :
                                 IdOf[f] = IdOf[n] => GenerationOf[f] <= GenerationOf[e]
    BY DEF LatestExists
  <2>2. CASE IdOf[n] = IdOf[m]
    <3>1. \A f \in E \union {m} : IdOf[f] = IdOf[n] => GenerationOf[f] <= GenerationOf[m]
      BY <1>1, <1>2, <2>2
    <3> QED BY <2>2, <3>1
  <2>3. CASE IdOf[n] # IdOf[m]
    <3>1. n \in E
      BY <2>3
    <3>2. PICK e \in E : /\ IdOf[e] = IdOf[n]
                         /\ \A f \in E : IdOf[f] = IdOf[n] => GenerationOf[f] <= GenerationOf[e]
      BY <3>1 DEF IInv, LatestExists
    <3> QED BY <2>3, <3>2
  <2> QED BY <2>2, <2>3
<1>4. GenerationsContiguous'
  <2>1. SUFFICES ASSUME NEW n \in E \union {m}, NEW g \in 1..GenerationOf[n] - 1
                 PROVE  \E e \in E \union {m} :
                           /\ IdOf[e] = IdOf[n] /\ GenerationOf[e] = g
                           /\ Slot(e) = Slot(n) /\ LineageOf[e] = LineageOf[n]
    BY DEF GenerationsContiguous
  <2>2. \A k \in E : \A h \in 1..GenerationOf[k] - 1 :
           \E e \in E : /\ IdOf[e] = IdOf[k] /\ GenerationOf[e] = h
                       /\ Slot(e) = Slot(k) /\ LineageOf[e] = LineageOf[k]
    BY DEF IInv, GenerationsContiguous
  <2>3. CASE n \in E
    BY <2>2, <2>3
  <2>4. CASE n = m /\ GenerationOf[m] = 1
    BY <2>4
  <2>5. CASE n = m /\ GenerationOf[m] # 1
    <3>1. /\ previous \in E /\ IdOf[previous] = IdOf[m]
          /\ GenerationOf[m] = GenerationOf[previous] + 1
          /\ Slot(m) = Slot(previous) /\ LineageOf[m] = LineageOf[previous]
      BY <1>2, <2>5
    <3>2. g = GenerationOf[previous] \/ g \in 1..GenerationOf[previous] - 1
      BY <1>1, <2>5, <3>1
    <3> QED BY <2>2, <2>5, <3>1, <3>2
  <2> QED BY <2>3, <2>4, <2>5
<1>5. DeltaOnce'
  <2>1. \A e \in E : ~(Slot(e) = Slot(m) /\ DeltaOf[e] = DeltaOf[m])
    BY DEF Registrable, OperationalDuplicate, Slot
  <2> QED BY <2>1 DEF IInv, DeltaOnce
<1> QED BY <1>3, <1>4, <1>5

\* The invariant holds of the empty bank.
LEMMA InitEstablishes == Init => IInv
<1> SUFFICES ASSUME Init PROVE IInv
  OBVIOUS
<1>1. Current = Empty /\ Len(history) = 0
  BY DEF Init, Current
<1>2. HistoryOK /\ ComposingFresh /\ PermitsCommitted
  BY <1>1, AdapterBankAssumption DEF Init, HistoryOK, ComposingFresh, PermitsCommitted
<1>3. PermitSpentOnce /\ PermitsOnlyToTheLiving /\ OneSelection
  BY <1>1 DEF Init, PermitSpentOnce, PermitsOnlyToTheLiving, OneSelection
<1>4. LatestExists /\ GenerationsContiguous /\ DeltaOnce
  BY <1>1 DEF Empty, LatestExists, GenerationsContiguous, DeltaOnce
<1>5. ContractValid(Current)
  BY <1>1 DEF Empty, ContractValid, RevokedIn
<1> QED BY <1>2, <1>3, <1>4, <1>5 DEF Init, IInv

\* A registration, direct or at the end of a composition, keeps the invariant.
LEMMA RegistrationSteps ==
    ASSUME IInv, NEW m \in Manifest, Registrable(Current, m), Publish(RegisterChild(Current, m)),
           UNCHANGED <<materialized, permits>>, composing' \subseteq composing
    PROVE  IInv'
<1> DEFINE child == RegisterChild(Current, m)
<1>0. Current \in SnapshotOrEmpty /\ Current.revision + 1 <= MaxRevision
  BY CurrentIsLast, RoomToPublish DEF IInv
<1>1. /\ child \in Snapshot /\ child.entries = Current.entries \union {m}
      /\ child.op.kind \notin {"activate", "rollback"}
  <2>1. child \in Snapshot
    BY <1>0, RegisterChildIs
  <2> QED BY <2>1 DEF RegisterChild
<1> HIDE DEF child
<1>2. Publish(child)
  BY DEF child
<1>3. /\ HistoryOK' /\ Current' = child
      /\ (materialized \subseteq Manifest)'
      /\ (composing \subseteq [manifest : Manifest, expected : 0..MaxRevision])'
      /\ ComposingFresh' /\ PermitsCommitted' /\ PermitSpentOnce'
      /\ PermitsOnlyToTheLiving' /\ OneSelection'
      /\ ContractValid(Current)'
  BY <1>1, <1>2, PublishKeeps
<1>4. LatestExists' /\ GenerationsContiguous' /\ DeltaOnce'
  BY <1>1, <1>3, RegisterKeeps
<1> QED BY <1>3, <1>4 DEF IInv

\* An activation, revocation or rollback keeps the invariant.
LEMMA OtherPublications ==
    ASSUME IInv, NEW child \in Snapshot, Publish(child), child.entries = Current.entries,
           UNCHANGED <<materialized, permits, composing>>,
           child.op.kind \in {"activate", "rollback"} =>
              child.op.permit = None \/ child.op.permit.against = Len(history)
    PROVE  IInv'
<1>1. /\ HistoryOK' /\ Current' = child
      /\ (materialized \subseteq Manifest)'
      /\ (composing \subseteq [manifest : Manifest, expected : 0..MaxRevision])'
      /\ ComposingFresh' /\ PermitsCommitted' /\ PermitSpentOnce'
      /\ PermitsOnlyToTheLiving' /\ OneSelection'
      /\ ContractValid(Current)'
  BY PublishKeeps
<1>2. LatestExists' /\ GenerationsContiguous' /\ DeltaOnce'
  BY <1>1, EntriesKept
<1> QED BY <1>1, <1>2 DEF IInv

\* A step that publishes nothing keeps what is said of the snapshots.
LEMMA QuietSteps ==
    ASSUME IInv, history' = history, permits \subseteq permits'
    PROVE  /\ HistoryOK' /\ PermitSpentOnce' /\ OneSelection' /\ Current' = Current
           /\ LatestExists' /\ GenerationsContiguous' /\ DeltaOnce'
           /\ ContractValid(Current)'
<1>1. Current' = Current
  BY DEF Current
<1>2. HistoryOK' /\ PermitSpentOnce' /\ OneSelection'
  BY DEF IInv, HistoryOK, PermitSpentOnce, OneSelection
<1>3. LatestExists' /\ GenerationsContiguous' /\ DeltaOnce'
  BY <1>1, EntriesKept
<1>4. ContractValid(Current)'
  BY <1>1 DEF IInv, ContractValid
<1> QED BY <1>1, <1>2, <1>3, <1>4

\* Every step keeps the invariant.
LEMMA NextPreserves == IInv /\ [Next]_vars => IInv'
<1> SUFFICES ASSUME IInv, [Next]_vars PROVE IInv'
  OBVIOUS
<1>a. Current \in SnapshotOrEmpty /\ Current.revision = Len(history) /\ Len(history) \in 0..MaxRevision
  BY CurrentIsLast, AdapterBankAssumption DEF IInv, HistoryOK
<1>b. Current.entries \subseteq Manifest /\ permits \subseteq Permit
  BY <1>a DEF SnapshotOrEmpty, IInv, PermitsCommitted
<1>1. ASSUME NEW m \in Manifest, Import(m) PROVE IInv'
  BY <1>1, RegistrationSteps DEF Import
<1>2. ASSUME NEW m \in Manifest, ComposeRead(m) PROVE IInv'
  <2>1. history' = history /\ permits' = permits /\ materialized' = materialized
    BY <1>2 DEF ComposeRead
  <2>2. (composing \subseteq [manifest : Manifest, expected : 0..MaxRevision])'
    BY <1>2, <1>a DEF ComposeRead, IInv
  <2>3. ComposingFresh'
    <3> DEFINE K == [manifest |-> m, expected |-> Len(history)]
    <3>1. /\ Composable(Current, m) /\ Current' = Current
          /\ composing' = composing \union {K} /\ history' = history
      BY <1>2, <1>a, <2>1, QuietSteps DEF ComposeRead
    <3>2. SUFFICES ASSUME NEW c \in composing \union {K}
                   PROVE  /\ c.expected <= Len(history)
                          /\ c.expected = Len(history) => Composable(Current, c.manifest)
      BY <3>1 DEF ComposingFresh, Composable
    <3>3. CASE c \in composing
      BY <3>3 DEF IInv, ComposingFresh
    <3>4. CASE c = K
      BY <1>a, <3>1, <3>4
    <3> QED BY <3>3, <3>4
  <2>4. (materialized \subseteq Manifest)' /\ PermitsCommitted' /\ PermitsOnlyToTheLiving'
    BY <2>1 DEF IInv, PermitsCommitted, PermitsOnlyToTheLiving
  <2> QED BY <2>1, <2>2, <2>3, <2>4, QuietSteps DEF IInv
<1>3. ASSUME NEW m \in Manifest, Materialize(m) PROVE IInv'
  <2>1. history' = history /\ permits' = permits /\ composing' = composing
    BY <1>3 DEF Materialize
  <2>2. (materialized \subseteq Manifest)'
    BY <1>3 DEF Materialize, IInv
  <2>3. /\ (composing \subseteq [manifest : Manifest, expected : 0..MaxRevision])'
        /\ PermitsCommitted' /\ PermitsOnlyToTheLiving'
    BY <2>1 DEF IInv, PermitsCommitted, PermitsOnlyToTheLiving
  <2>4. ComposingFresh'
    BY <2>1, QuietSteps DEF IInv, ComposingFresh, Composable
  <2> QED BY <2>1, <2>2, <2>3, <2>4, QuietSteps DEF IInv
<1>4. ASSUME NEW m \in Manifest, Authorize(m) PROVE IInv'
  <2> DEFINE p == [manifest |-> m, against |-> Current.revision]
  <2>1. /\ history' = history /\ permits' = permits \union {p}
        /\ composing' = composing /\ materialized' = materialized
    BY <1>4 DEF Authorize
  <2>2. m \in Current.entries /\ m \notin RevokedIn(Current) /\ m \in Promotable
    BY <1>4 DEF Authorize, Permissible
  <2>3. Len(history) \in 1..Len(history) /\ Current = history[Len(history)]
    BY <1>a, <2>2, CurrentIsLast DEF IInv, Empty
  <2>4. p \in Permit /\ p.manifest = m /\ p.against = Len(history)
    BY <1>a, <2>3 DEF Permit
  <2> HIDE DEF p
  <2>5. PermitsCommitted'
    BY <2>1, <2>3, <2>4 DEF IInv, PermitsCommitted
  <2>6. PermitsOnlyToTheLiving'
    BY <2>1, <2>2, <2>3, <2>4 DEF IInv, PermitsOnlyToTheLiving
  <2>7. /\ (composing \subseteq [manifest : Manifest, expected : 0..MaxRevision])'
        /\ (materialized \subseteq Manifest)'
    BY <2>1 DEF IInv
  <2>8. ComposingFresh'
    BY <2>1, QuietSteps DEF IInv, ComposingFresh, Composable
  <2> QED BY <2>1, <2>5, <2>6, <2>7, <2>8, QuietSteps DEF IInv
<1>5. ASSUME NEW root \in Manifest, Revoke(root) PROVE IInv'
  <2> DEFINE child == RevokeChild(Current, root)
  <2>1. /\ child.entries = Current.entries /\ child.op.kind \notin {"activate", "rollback"}
        /\ child \in Snapshot
    <3>1. Current.revision + 1 <= MaxRevision
      BY <1>5, RoomToPublish DEF Revoke
    <3>2. child \in Snapshot
      BY <1>a, <3>1, RevokeChildIs
    <3> QED BY <3>2 DEF RevokeChild
  <2> HIDE DEF child
  <2>2. Publish(child) /\ UNCHANGED <<materialized, permits, composing>>
    BY <1>5 DEF Revoke, child
  <2> QED BY <2>1, <2>2, OtherPublications
<1>6. ASSUME NEW c \in composing, ComposeCommit(c) PROVE IInv'
  <2>1. c.manifest \in Manifest
    BY DEF IInv
  <2> QED BY <1>6, <2>1, RegistrationSteps DEF ComposeCommit
<1>7. ASSUME NEW c \in composing, ComposeAbandon(c) PROVE IInv'
  <2>1. /\ history' = history /\ permits' = permits /\ materialized' = materialized
        /\ composing' \subseteq composing
    BY <1>7 DEF ComposeAbandon
  <2>2. /\ (composing \subseteq [manifest : Manifest, expected : 0..MaxRevision])'
        /\ (materialized \subseteq Manifest)'
        /\ PermitsCommitted' /\ PermitsOnlyToTheLiving'
    BY <2>1 DEF IInv, PermitsCommitted, PermitsOnlyToTheLiving
  <2>3. ComposingFresh'
    BY <2>1, QuietSteps DEF IInv, ComposingFresh, Composable
  <2> QED BY <2>1, <2>2, <2>3, QuietSteps DEF IInv
<1>8. ASSUME NEW p \in permits, Activate(p) PROVE IInv'
  <2> DEFINE child == ActivateChild(Current, p)
  <2>1. /\ child.entries = Current.entries /\ child.op.permit.against = Len(history)
        /\ child \in Snapshot
    <3>1. Current.revision + 1 <= MaxRevision /\ p.against = Len(history) /\ p \in Permit
      BY <1>8, <1>a, <1>b, RoomToPublish DEF Activate, Activatable
    <3>2. child \in Snapshot
      BY <1>a, <3>1, ActivateChildIs
    <3> QED BY <3>1, <3>2 DEF ActivateChild
  <2> HIDE DEF child
  <2>2. Publish(child) /\ UNCHANGED <<materialized, permits, composing>>
    BY <1>8 DEF Activate, child
  <2> QED BY <2>1, <2>2, OtherPublications
<1>9. ASSUME NEW slot \in Slots, NEW target \in 1..Len(history), NEW permit \in permits \union {None},
             Rollback(slot, target, permit)
      PROVE  IInv'
  <2> DEFINE child == RollbackChild(Current, slot, target, permit)
  <2>1. RollbackAllowed(Current, slot, target, permit) /\ permit \in Permit \union {None}
    BY <1>9, <1>b DEF Rollback
  <2>2. /\ child.entries = Current.entries
        /\ child.op.permit = None \/ child.op.permit.against = Len(history)
        /\ child \in Snapshot
    <3>1. Current.revision + 1 <= MaxRevision /\ HistoryOK
      BY <1>9, RoomToPublish DEF Rollback, IInv
    <3>2. child \in Snapshot
      BY <1>a, <2>1, <3>1, RollbackChildIs
    <3>3. permit = None \/ permit.against = Len(history)
      BY <1>a, <2>1 DEF RollbackAllowed
    <3> QED BY <3>2, <3>3 DEF RollbackChild
  <2> HIDE DEF child
  <2>3. Publish(child) /\ UNCHANGED <<materialized, permits, composing>>
    BY <1>9 DEF Rollback, child
  <2> QED BY <2>2, <2>3, OtherPublications
<1>10. CASE UNCHANGED vars
  <2>1. /\ history' = history /\ permits' = permits /\ materialized' = materialized
        /\ composing' = composing
    BY <1>10 DEF vars
  <2>2. PermitsCommitted' /\ PermitsOnlyToTheLiving'
    BY <2>1 DEF IInv, PermitsCommitted, PermitsOnlyToTheLiving
  <2>3. ComposingFresh'
    BY <2>1, QuietSteps DEF IInv, ComposingFresh, Composable
  <2> QED BY <2>1, <2>2, <2>3, QuietSteps DEF IInv
<1> QED BY <1>1, <1>2, <1>3, <1>4, <1>5, <1>6, <1>7, <1>8, <1>9, <1>10 DEF Next

-----------------------------------------------------------------------------
(* An operation that passes its own checks builds a snapshot the           *)
(* validators accept.                                                      *)

Accepted(child) == TransitionValid(Current, child) /\ ContractValid(child)

\* A registration whose sources live is accepted.
LEMMA RegistrationAccepted ==
    ASSUME IInv, NEW m \in Manifest, Registrable(Current, m),
           TermsOf[m] \intersect RevokedIn(Current) = {}
    PROVE  Accepted(RegisterChild(Current, m))
<1> DEFINE s == Current
           child == RegisterChild(s, m)
<1>1. s \in SnapshotOrEmpty /\ ContractValid(s)
  BY CurrentIsLast DEF IInv
<1>2. /\ child.revision = s.revision + 1 /\ child.entries = s.entries \union {m}
      /\ child.active = s.active /\ child.revoked = s.revoked
      /\ child.op.manifest = m
      /\ child.op.kind = IF TermsOf[m] = {} THEN "register" ELSE "compose"
  BY DEF RegisterChild
<1>3. /\ \A e \in s.entries : Version(e) # Version(m)
      /\ \A e \in s.entries : LineageOf[e] = LineageOf[m] => GenerationOf[e] # GenerationOf[m]
  BY DEF Registrable
<1>4. RevokedIn(child) = RevokedIn(s)
  BY <1>2 DEF RevokedIn
<1> HIDE DEF child, s
<1>5. TransitionValid(s, child)
  BY <1>2, <1>3 DEF TransitionValid, RegistrationValid
<1>6. ContractValid(child)
  <2>1. \A n, k \in child.entries : n # k => Version(n) # Version(k)
    BY <1>1, <1>2, <1>3 DEF ContractValid
  <2>2. \A n, k \in child.entries :
           n # k => <<LineageOf[n], GenerationOf[n]>> # <<LineageOf[k], GenerationOf[k]>>
    BY <1>1, <1>2, <1>3 DEF ContractValid
  <2>3. \A r \in child.revoked : r.manifest \in child.entries /\ r.at \in 1..child.revision
    BY <1>1, <1>2 DEF ContractValid, SnapshotOrEmpty
  <2>4. \A n \in child.entries :
           TermsOf[n] \intersect RevokedIn(child) # {} => n \in RevokedIn(child)
    BY <1>1, <1>2, <1>4 DEF ContractValid, s
  <2>5. \A x \in child.active : /\ x.manifest \in child.entries \ RevokedIn(child)
                                /\ x.epoch \in 1..child.revision
                                /\ x.permit \in permits
                                /\ x.permit.manifest = x.manifest
                                /\ x.manifest \in Promotable
    BY <1>1, <1>2, <1>4 DEF ContractValid, SnapshotOrEmpty
  <2> QED BY <1>1, <1>2, <2>1, <2>2, <2>3, <2>4, <2>5 DEF ContractValid
<1> QED BY <1>5, <1>6 DEF Accepted, child, s

\* A slot that moves to a live, promotable adapter under a permit for it keeps
\* the contract.
LEMMA MoveKeepsContract ==
    ASSUME IInv, NEW slot \in Slots, NEW m \in Manifest, NEW p \in permits, NEW child,
           m \in Current.entries \ RevokedIn(Current), Slot(m) = slot, p.manifest = m, m \in Promotable,
           child.revision = Current.revision + 1,
           child.entries = Current.entries, child.revoked = Current.revoked,
           child.active = (Current.active \ ActiveIn(Current, slot))
              \union {[manifest |-> m, permit |-> p, epoch |-> Current.revision + 1]}
    PROVE  ContractValid(child) /\ SlotMoved(Current, child, slot, m, p)
<1> DEFINE s == Current
           x0 == [manifest |-> m, permit |-> p, epoch |-> s.revision + 1]
<1>1. s \in SnapshotOrEmpty /\ ContractValid(s) /\ s.revision \in Nat
  BY CurrentIsLast, AdapterBankAssumption DEF IInv, SnapshotOrEmpty
<1>2. RevokedIn(child) = RevokedIn(s)
  BY DEF RevokedIn
<1>3. x0.manifest = m /\ x0.permit = p /\ x0.epoch = s.revision + 1
  OBVIOUS
<1>4. child.active = (s.active \ ActiveIn(s, slot)) \union {x0}
  OBVIOUS
<1> HIDE DEF s, x0
<1>5. \A x, y \in child.active : Slot(x.manifest) = Slot(y.manifest) => x = y
  BY <1>1, <1>3, <1>4 DEF ContractValid, ActiveIn
<1>6. \A x \in child.active : /\ x.manifest \in child.entries \ RevokedIn(child)
                              /\ x.epoch \in 1..child.revision
                              /\ x.permit \in permits
                              /\ x.permit.manifest = x.manifest
                              /\ x.manifest \in Promotable
  BY <1>1, <1>2, <1>3, <1>4 DEF ContractValid, s
<1>7. \A r \in child.revoked : r.manifest \in child.entries /\ r.at \in 1..child.revision
  BY <1>1 DEF ContractValid, s
<1>8. ContractValid(child)
  BY <1>1, <1>2, <1>5, <1>6, <1>7 DEF ContractValid, s
<1>9. SlotMoved(s, child, slot, m, p)
  <2>1. x0 \in ActiveIn(child, slot)
    BY <1>3, <1>4 DEF ActiveIn
  <2>2. x0 = [manifest |-> m, permit |-> p, epoch |-> child.revision]
    BY DEF x0, s
  <2> QED BY <1>4, <2>1, <2>2 DEF SlotMoved
<1> QED BY <1>8, <1>9 DEF s

\* A permit issued against the current index leads to an accepted activation.
LEMMA ActivationAccepted ==
    ASSUME IInv, NEW p \in permits, Activatable(Current, p)
    PROVE  Accepted(ActivateChild(Current, p))
<1> DEFINE child == ActivateChild(Current, p)
<1>1. /\ p \in Permit /\ p.manifest \in Manifest
      /\ p.manifest \in Current.entries \ RevokedIn(Current) /\ p.manifest \in Promotable
  BY DEF IInv, PermitsCommitted, PermitsOnlyToTheLiving, Activatable, Permit
<1>2. Slot(p.manifest) \in Slots
  BY <1>1 DEF Slots
<1>3. /\ child.revision = Current.revision + 1
      /\ child.entries = Current.entries /\ child.revoked = Current.revoked
      /\ child.active = (Current.active \ ActiveIn(Current, Slot(p.manifest)))
            \union {[manifest |-> p.manifest, permit |-> p, epoch |-> Current.revision + 1]}
      /\ child.op.kind = "activate" /\ child.op.permit = p
  BY DEF ActivateChild
<1> HIDE DEF child
<1>4. ContractValid(child) /\ SlotMoved(Current, child, Slot(p.manifest), p.manifest, p)
  BY <1>1, <1>2, <1>3, MoveKeepsContract
<1>5. ActivationValid(Current, child)
  BY <1>1, <1>3, <1>4 DEF ActivationValid
<1> QED BY <1>3, <1>4, <1>5 DEF Accepted, TransitionValid, child

\* The affected adapters: the root, and every composition of one of them.
LEMMA AffectedIsClosed ==
    ASSUME NEW s, NEW root \in s.entries
    PROVE  /\ root \in Affected(s, root) /\ Affected(s, root) \subseteq s.entries
           /\ \A m \in s.entries : TermsOf[m] \intersect Affected(s, root) # {} => m \in Affected(s, root)
<1> DEFINE Closed(set) == \A m \in s.entries : TermsOf[m] \intersect set # {} => m \in set
           affected == {m \in s.entries : \A set \in SUBSET s.entries : root \in set /\ Closed(set) => m \in set}
<1>1. Affected(s, root) = affected
  BY DEF Affected
<1>2. ASSUME NEW m \in s.entries, NEW t \in TermsOf[m], t \in affected
      PROVE  m \in affected
  <2>1. SUFFICES ASSUME NEW set \in SUBSET s.entries, root \in set, Closed(set) PROVE m \in set
    OBVIOUS
  <2>2. t \in set
    BY <1>2, <2>1
  <2> QED BY <2>1, <2>2
<1> QED BY <1>1, <1>2

\* A revocation that reaches no adapter revoked before is accepted.
LEMMA RevocationAccepted ==
    ASSUME IInv, NEW root \in Current.entries \ RevokedIn(Current), ~RevokesAgain(root)
    PROVE  Accepted(RevokeChild(Current, root))
<1> DEFINE s == Current
           child == RevokeChild(s, root)
           affected == Affected(s, root)
           Record(m) == [manifest |-> m, at |-> s.revision + 1, root |-> root]
           added == {Record(m) : m \in affected \ RevokedIn(s)}
<1>1. s \in SnapshotOrEmpty /\ ContractValid(s) /\ s.revision \in Nat
  BY CurrentIsLast, AdapterBankAssumption DEF IInv, SnapshotOrEmpty
<1>2. /\ root \in affected /\ affected \subseteq s.entries
      /\ \A m \in s.entries : TermsOf[m] \intersect affected # {} => m \in affected
  BY AffectedIsClosed
<1>3. affected \intersect RevokedIn(s) = {}
  BY DEF RevokesAgain
<1>4. /\ child.revision = s.revision + 1 /\ child.entries = s.entries
      /\ child.active = {x \in s.active : x.manifest \notin affected}
      /\ child.revoked = s.revoked \union added
      /\ child.op.kind = "revoke" /\ child.op.root = root /\ child.op.affected = affected
  BY DEF RevokeChild
<1> HIDE DEF child, s, affected
<1>5. \A r \in added : /\ r.manifest \in affected /\ r.root = root /\ r.at = s.revision + 1
                       /\ r = Record(r.manifest)
  OBVIOUS
<1>6. {r.manifest : r \in added} = affected
  <2>1. \A m \in affected : Record(m) \in added /\ Record(m).manifest = m
    BY <1>3
  <2> HIDE DEF added, Record
  <2> QED BY <1>5, <2>1
<1> HIDE DEF added, Record
<1>7. RevokedIn(child) = RevokedIn(s) \union affected
  BY <1>4, <1>6 DEF RevokedIn
<1>8. RevocationValid(s, child)
  <2>1. child.revoked \ s.revoked = added
    BY <1>3, <1>4, <1>5 DEF RevokedIn
  <2> QED BY <1>2, <1>4, <1>5, <1>6, <2>1 DEF RevocationValid
<1>9. ContractValid(child)
  <2>1. \A r \in child.revoked : r.manifest \in child.entries /\ r.at \in 1..child.revision
    BY <1>1, <1>2, <1>4, <1>5 DEF ContractValid
  <2>2. \A q, r \in child.revoked : q.manifest = r.manifest => q = r
    <3>1. SUFFICES ASSUME NEW q \in child.revoked, NEW r \in child.revoked, q.manifest = r.manifest
                   PROVE  q = r
      OBVIOUS
    <3>2. CASE q \in s.revoked /\ r \in s.revoked
      BY <1>1, <3>1, <3>2 DEF ContractValid
    <3>3. CASE q \in added /\ r \in added
      BY <1>5, <3>1, <3>3
    <3>4. CASE (q \in added /\ r \in s.revoked) \/ (q \in s.revoked /\ r \in added)
      BY <1>3, <1>5, <3>1, <3>4 DEF RevokedIn
    <3> QED BY <1>4, <3>2, <3>3, <3>4
  <2>3. \A m \in child.entries : TermsOf[m] \intersect RevokedIn(child) # {} => m \in RevokedIn(child)
    BY <1>1, <1>2, <1>4, <1>7 DEF ContractValid
  <2>4. \A x \in child.active : /\ x.manifest \in child.entries \ RevokedIn(child)
                                /\ x.epoch \in 1..child.revision
                                /\ x.permit \in permits
                                /\ x.permit.manifest = x.manifest
                                /\ x.manifest \in Promotable
    BY <1>1, <1>4, <1>7 DEF ContractValid
  <2>5. \A x, y \in child.active : Slot(x.manifest) = Slot(y.manifest) => x = y
    BY <1>1, <1>4 DEF ContractValid
  <2> QED BY <1>1, <1>4, <2>1, <2>2, <2>3, <2>4, <2>5 DEF ContractValid
<1> QED BY <1>4, <1>8, <1>9 DEF Accepted, TransitionValid, child, s

\* A rollback whose target and permit pass is accepted.
LEMMA RollbackAccepted ==
    ASSUME IInv, NEW slot \in Slots, NEW target \in 1..Len(history) - 1,
           NEW permit \in permits \union {None}, RollbackAllowed(Current, slot, target, permit)
    PROVE  Accepted(RollbackChild(Current, slot, target, permit))
<1> DEFINE s == Current
           child == RollbackChild(s, slot, target, permit)
           to == AdapterIn(history[target], slot)
<1>1. /\ s \in SnapshotOrEmpty /\ ContractValid(s) /\ s.revision = Len(history)
      /\ Len(history) \in Nat /\ history[Len(history)] = s
  BY CurrentIsLast DEF IInv, HistoryOK
<1>2. /\ to = None => permit = None
      /\ to # None => /\ permit \in permits /\ permit # None /\ to \in Manifest /\ Slot(to) = slot
                      /\ permit.manifest = to /\ permit.against = s.revision
                      /\ to \notin RevokedIn(s)
  <2>1. permit \in Permit \union {None} /\ target \in 1..Len(history)
    BY <1>1 DEF IInv, PermitsCommitted
  <2>2. to # None => to \in Manifest /\ Slot(to) = slot
    BY <2>1, RollbackChildIs DEF IInv
  <2> QED BY <2>2 DEF RollbackAllowed
<1>3. /\ child.revision = s.revision + 1
      /\ child.entries = s.entries /\ child.revoked = s.revoked
      /\ child.active = (s.active \ ActiveIn(s, slot)) \union
            IF to = None THEN {}
            ELSE {[manifest |-> to, permit |-> permit, epoch |-> s.revision + 1]}
      /\ child.op.kind = "rollback" /\ child.op.slot = slot /\ child.op.target = target
      /\ child.op.from = AdapterIn(s, slot) /\ child.op.to = to /\ child.op.permit = permit
  BY DEF RollbackChild
<1> HIDE DEF child, to, s
<1>4. CASE to = None
  <2>1. child.active = s.active \ ActiveIn(s, slot) /\ RevokedIn(child) = RevokedIn(s)
    BY <1>3, <1>4 DEF RevokedIn
  <2>2. ContractValid(child)
    <3>1. \A r \in child.revoked : r.manifest \in child.entries /\ r.at \in 1..child.revision
      BY <1>1, <1>3 DEF ContractValid
    <3>2. \A x \in child.active : /\ x.manifest \in child.entries \ RevokedIn(child)
                                  /\ x.epoch \in 1..child.revision
                                  /\ x.permit \in permits
                                  /\ x.permit.manifest = x.manifest
                                  /\ x.manifest \in Promotable
      BY <1>1, <1>3, <2>1 DEF ContractValid
    <3> QED BY <1>1, <1>3, <2>1, <3>1, <3>2 DEF ContractValid
  <2>3. RollbackValid(s, child)
    BY <1>1, <1>2, <1>3, <1>4, <2>1 DEF RollbackValid, to
  <2> QED BY <1>3, <2>2, <2>3 DEF Accepted, TransitionValid, child, s
<1>5. CASE to # None
  <2>1. to \in s.entries \ RevokedIn(s) /\ to \in Promotable
    BY <1>1, <1>2, <1>5 DEF IInv, PermitsOnlyToTheLiving
  <2>2. child.active = (s.active \ ActiveIn(s, slot))
           \union {[manifest |-> to, permit |-> permit, epoch |-> s.revision + 1]}
    BY <1>3, <1>5
  <2>3. ContractValid(child) /\ SlotMoved(s, child, slot, to, permit)
    BY <1>2, <1>3, <1>5, <2>1, <2>2, MoveKeepsContract DEF s
  <2>4. RollbackValid(s, child)
    BY <1>1, <1>2, <1>3, <1>5, <2>3 DEF RollbackValid, to
  <2> QED BY <1>3, <2>3, <2>4 DEF Accepted, TransitionValid, child, s
<1> QED BY <1>4, <1>5

-----------------------------------------------------------------------------
(* What the invariant implies, and the theorems.                           *)

\* A resolution carries the revision it was made at, so it authenticates only
\* while the bank is still at that revision.
LEMMA ResolutionFencing == IInv => ResolutionsAreFenced
<1> SUFFICES ASSUME IInv, NEW r \in 1..Len(history), NEW x \in history[r].active,
                    StillResolves(r, Slot(x.manifest)), NEW q \in r..Len(history)
             PROVE  ActiveIn(history[q], Slot(x.manifest)) = {x}
  BY DEF ResolutionsAreFenced
<1>1. Current.revision = Len(history) /\ Len(history) \in Nat
  BY CurrentIsLast DEF IInv, HistoryOK
<1>2. Resolution(r, Slot(x.manifest)) = Resolution(Current.revision, Slot(x.manifest))
  BY DEF StillResolves, SameResolution
<1>3. Resolution(r, Slot(x.manifest)).revision = r
  BY DEF Resolution
<1>4. Resolution(Current.revision, Slot(x.manifest)).revision = Len(history)
  BY <1>1 DEF Resolution
<1>5. q = r
  BY <1>1, <1>2, <1>3, <1>4
<1> QED BY <1>5 DEF IInv, OneSelection, ActiveIn

\* What TypeOK says of each revision and of the other variables.
LEMMA IInvTypes == IInv => TypeOK
<1> SUFFICES ASSUME IInv PROVE TypeOK
  OBVIOUS
<1>1. ASSUME NEW r \in 1..Len(history)
      PROVE  history[r] \in Snapshot /\ history[r].revision = r
  BY DEF IInv, HistoryOK
<1>2. ASSUME NEW r \in 1..Len(history)
      PROVE  /\ history[r].op \in Operation /\ history[r].entries \subseteq Manifest
             /\ history[r].active \subseteq Selection /\ history[r].revoked \subseteq Revocation
  BY <1>1 DEF Snapshot
<1> QED BY <1>1, <1>2 DEF TypeOK, IInv, HistoryOK, PermitsCommitted

\* The weights of a revoked adapter are registered, so no other adapter of the
\* slot has them.
LEMMA RevokedAreRegistered == IInv => RevokedWeightsStayOut
BY DEF IInv, ContractValid, DeltaOnce, RevokedWeightsStayOut, RevokedIn

\* The children of calls that pass their checks are accepted.
LEMMA OperationsAccepted == IInv => OperationsPassValidation
<1> SUFFICES ASSUME IInv PROVE OperationsPassValidation
  OBVIOUS
<1>1. \A m \in Manifest : Registrable(Current, m) /\ TermsOf[m] = {} => Accepted(RegisterChild(Current, m))
  BY RegistrationAccepted
<1>2. ASSUME NEW c \in composing, ExpectationMet(c.expected), Registrable(Current, c.manifest)
      PROVE  Accepted(RegisterChild(Current, c.manifest))
  <2>1. c.manifest \in Manifest /\ c.expected = Len(history)
    BY <1>2, CurrentIsLast DEF IInv, ExpectationMet
  <2>2. TermsOf[c.manifest] \subseteq Current.entries \ RevokedIn(Current)
    BY <2>1 DEF IInv, ComposingFresh, Composable
  <2> QED BY <1>2, <2>1, <2>2, RegistrationAccepted
<1>3. \A p \in permits : Activatable(Current, p) => Accepted(ActivateChild(Current, p))
  BY ActivationAccepted
<1>4. \A m \in Current.entries \ RevokedIn(Current) : ~RevokesAgain(m) => Accepted(RevokeChild(Current, m))
  BY RevocationAccepted
<1>5. \A slot \in Slots, target \in 1..Len(history) - 1, permit \in permits \union {None} :
         RollbackAllowed(Current, slot, target, permit) =>
            Accepted(RollbackChild(Current, slot, target, permit))
  BY RollbackAccepted
<1> QED BY <1>1, <1>2, <1>3, <1>4, <1>5 DEF OperationsPassValidation, Accepted

\* The invariant holds in every reachable state.
THEOREM BankInvariant == Spec => []IInv
BY InitEstablishes, NextPreserves, PTL DEF Spec

\* Snapshots, permits and compositions are well formed at every revision,
\* whatever the sequence of registrations, activations, revocations and
\* rollbacks.
THEOREM BankTypes == Spec => []TypeOK
BY BankInvariant, IInvTypes, PTL

\* A call that passes the checks of its operation is never answered with a
\* failure of the bank's own validators, apart from revocations that reach an
\* adapter revoked before.
THEOREM LegalCallsAreAccepted == Spec => []OperationsPassValidation
BY BankInvariant, OperationsAccepted, PTL

\* A promotion permit moves a slot at most once, right after the index it was
\* issued against.
THEOREM PermitsAreSpentOnce == Spec => []PermitSpentOnce
<1>1. IInv => PermitSpentOnce
  BY DEF IInv
<1> QED BY <1>1, BankInvariant, PTL

\* authorize_governed_promotion seals a permit only for an adapter registered,
\* not revoked and representation-closed in the index it names.
THEOREM PermitsNameTheLiving == Spec => []PermitsOnlyToTheLiving
<1>1. IInv => PermitsOnlyToTheLiving
  BY DEF IInv
<1> QED BY <1>1, BankInvariant, PTL

\* commit_registration leaves no gap in the generations of an adapter and never
\* changes its slot or lineage from one generation to another.
THEOREM GenerationsHaveNoGap == Spec => []GenerationsContiguous
<1>1. IInv => GenerationsContiguous
  BY DEF IInv
<1> QED BY <1>1, BankInvariant, PTL

\* Revoked weights are never registered for their slot under another name.
THEOREM RevokedWeightsNeverReturn == Spec => []RevokedWeightsStayOut
BY BankInvariant, RevokedAreRegistered, PTL

\* authenticate_execution_resolution refuses a resolution made before any later
\* publication of the bank.
THEOREM ResolutionsStayFenced == Spec => []ResolutionsAreFenced
BY BankInvariant, ResolutionFencing, PTL

\* The entries of every snapshot: types, generations and revoked weights.
THEOREM EntriesStaySound == Spec => []EntriesAreSound
<1>1. TypeOK /\ GenerationsContiguous /\ RevokedWeightsStayOut => EntriesAreSound
  BY DEF EntriesAreSound
<1> QED BY <1>1, BankTypes, GenerationsHaveNoGap, RevokedWeightsNeverReturn, PTL

\* Neither a permit, nor a candidate materialized when it was live, nor a
\* resolution has any authority over a slot that has changed since.
THEOREM NoAuthorityIsStale == Spec => []NoStaleAuthority
<1>1. PermitSpentOnce /\ PermitsOnlyToTheLiving /\ ResolutionsAreFenced => NoStaleAuthority
  BY DEF NoStaleAuthority
<1> QED BY <1>1, PermitsAreSpentOnce, PermitsNameTheLiving, ResolutionsStayFenced, PTL
=============================================================================
