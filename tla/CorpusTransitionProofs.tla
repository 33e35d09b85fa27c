------------------------ MODULE CorpusTransitionProofs ------------------------
(***************************************************************************)
(* Proofs about the replacement of the active corpus and its recovery, for *)
(* any corpora and finalization inputs, whatever stops and wherever.       *)
(***************************************************************************)
EXTENDS CorpusTransition, SequenceTheorems, TLAPS

-----------------------------------------------------------------------------
(***************************************************************************)
(* The inductive invariant.  An open transition is in one of three states, *)
(* which the files alone tell, and the call that holds the lock knows      *)
(* which one.                                                              *)
(***************************************************************************)

\* The live pointers are those of this corpus, or absent.
PointersOf(corpus) == \A p \in Pointer : pointer[p] \in {corpus, None}

\* Each required pointer of the prior corpus is live or in the archive.
Kept(op) == \A p \in Required : pointer[p] = op.prior \/ p \in Archived(op)

\* The prior corpus is live: it has not been retired, or has been restored.
PriorLive(op) ==
    /\ live = op.prior /\ "observations" \notin Archived(op)
    /\ PointersOf(op.prior) /\ Kept(op)

\* No corpus is live, the prior one is in the archive.
Retired(op) ==
    /\ live = None /\ "observations" \in Archived(op)
    /\ PointersOf(op.prior) /\ Kept(op)

\* The new corpus is live, the prior one is archived with all its pointers.  The
\* store stays like this: a finalization wants a skill bank.
Published(op) ==
    /\ live = New(op) /\ PointersOf(New(op)) /\ pointer["skill_bank"] = None
    /\ Required \cup {"observations", "observations_manifest"} \subseteq Archived(op)
    /\ inflight \subseteq {op}
    /\ op \in intent \/ (op \in receipts /\ "transition_intent" \in Archived(op))

OpenIsOneOfThree ==
    \A op \in inflight : /\ inflight = {op} /\ op.prior # New(op)
                         /\ PriorLive(op) \/ Retired(op) \/ Published(op)

ReceiptsArePublished ==
    \A op \in receipts :
        /\ Published(op) /\ New(op) \in commits
        /\ Event("commit_transaction", New(op)) \in ledger
        /\ Event("learning_corpus_transition", op) \in ledger

JournalIsPublished ==
    \A op \in Operation :
        journal[op] \in {"NewCorpusPublished", "CommitSealed", "ReceiptSealed"} => Published(op)

Preparing == {"open", "intent", "IntentRecorded", "set_head", "archive_dir", "retire"}
Moving == {"manifest", "archive"}
Moved == {"PriorArchived", "NewCorpusStaged", "publish"}
Committing == {"NewCorpusPublished", "commit_event", "commit_memory", "commit_shadow",
               "commit_receipt", "keep_head", "CommitSealed", "transition_event", "receipt"}
Authorized == Committing \ {"NewCorpusPublished", "commit_event"}
Committed == {"keep_head", "CommitSealed", "transition_event", "receipt"}
Sealing == {"seal", "ReceiptSealed", "close"}
Restoring == {"restore_pointers", "restore_unlink", "abort"}

\* What the call in progress knows of the files.
CallKnows ==
    LET op == call.op IN
    /\ call.at \in Preparing =>
          /\ live = op.prior /\ PointersOf(op.prior) /\ op.prior # New(op)
          /\ \A p \in Required : pointer[p] = op.prior
          /\ call.left = PointerOrder
          /\ archive[op] = IF call.at = "retire" THEN {} ELSE None
          /\ inflight = IF call.at = "open" THEN {} ELSE {op}
          /\ call.at \notin {"open", "intent"} => op \in intent
    /\ call.at \in Moving =>
          /\ Retired(op) /\ op \in intent
          /\ call.at = "manifest" => call.left = PointerOrder
          /\ call.at = "archive" => /\ "observations_manifest" \in Archived(op)
                                    /\ call.left # <<>>
          \* What is not left to move is no longer live.
          /\ \A p \in Pointer : pointer[p] # None => \E n \in 1..Len(call.left) : call.left[n] = p
    /\ call.at \in Moved =>
          /\ Retired(op) /\ op \in intent /\ "observations_manifest" \in Archived(op)
          /\ \A p \in Pointer : pointer[p] = None
    /\ call.at \in Committing => Published(op) /\ op \in intent
    /\ call.at \in Authorized => Event("commit_transaction", New(op)) \in ledger
    /\ call.at \in Committed => New(op) \in commits
    /\ call.at = "receipt" => Event("learning_corpus_transition", op) \in ledger
    /\ call.at \in Sealing => op \in receipts
    /\ call.at = "restore" => Retired(op) /\ op \in intent
    /\ call.at \in Restoring => PriorLive(op) /\ op \in intent
    /\ call.at \in {"restore_pointers", "restore_unlink"} => call.left # <<>> /\ archive[op] # None
    /\ call.at = "restore_unlink" => pointer[Head(call.left)] = op.prior

IInv ==
    /\ TypeOK /\ OpenIsVisible /\ JournalIsBehind
    /\ OpenIsOneOfThree /\ ReceiptsArePublished /\ JournalIsPublished /\ CallKnows

-----------------------------------------------------------------------------
(* The pointers, the archive and the call. *)

LEMMA PointerNames ==
    /\ Pointer = {"skill_bank", "shadow_skill_bank", "memory_current", "sleep_state",
                  "sleep_evidence_current"}
    /\ Required = {"skill_bank", "memory_current", "sleep_state", "sleep_evidence_current"}
    /\ Pointer \subseteq Label /\ {"observations", "observations_manifest", "transition_intent"} \subseteq Label
    /\ {"observations", "observations_manifest", "transition_intent"} \intersect Pointer = {}
BY DEF Pointer, PointerOrder, Required, Label

LEMMA PointerSequence ==
    /\ PointerOrder \in Seq(Pointer) /\ PointerOrder # <<>>
    /\ \A p \in Pointer : \E n \in 1..Len(PointerOrder) : PointerOrder[n] = p
<1>1. /\ Len(PointerOrder) = 5 /\ PointerOrder # <<>>
      /\ PointerOrder \in Seq({"skill_bank", "shadow_skill_bank", "memory_current", "sleep_state",
                               "sleep_evidence_current"})
  BY DEF PointerOrder
<1>2. PointerOrder \in Seq(Pointer)
  BY <1>1, PointerNames
<1>3. \A p \in Pointer : \E n \in 1..Len(PointerOrder) : PointerOrder[n] = p
  BY DEF Pointer
<1> QED BY <1>1, <1>2, <1>3

LEMMA OperationIsTyped ==
    ASSUME NEW op \in Operation
    PROVE  op.prior \in Corpus /\ New(op) \in Corpus /\ op # None /\ None \notin Corpus
BY CorpusTransitionAssumption DEF Operation, New

Calls == [at : At, op : Operation \cup {None}, left : Seq(Pointer), recovery : BOOLEAN]

LEMMA Shape ==
    ASSUME TypeOK
    PROVE  /\ call \in Calls /\ (call.at # "idle" => call.op \in Operation)
           /\ pointer \in [Pointer -> Corpus \cup {None}]
           /\ archive \in [Operation -> {None} \cup (SUBSET Label)]
           /\ journal \in [Operation -> {Phase[n] : n \in 1..Len(Phase)} \cup {None}]
           /\ intent \subseteq inflight /\ inflight \subseteq Operation /\ receipts \subseteq Operation
BY DEF TypeOK, Calls

LEMMA ArchiveIsTyped ==
    ASSUME TypeOK, NEW op \in Operation
    PROVE  Archived(op) \subseteq Label
<1>1. archive[op] \in SUBSET Label \/ archive[op] = None
  BY Shape
<1> QED BY <1>1 DEF Archived

\* A call that goes on keeps its operation and what it has left.
LEMMA GoLeaves ==
    ASSUME TypeOK, NEW place \in At
    PROVE  /\ Go(place) \in Calls
           /\ Go(place).at = place /\ Go(place).op = call.op
           /\ Go(place).left = call.left /\ Go(place).recovery = call.recovery
BY Shape DEF Go, Calls

\* Names that are added to, or taken from, the archive of one operation.
LEMMA ArchiveChanges ==
    ASSUME TypeOK, NEW op \in Operation, archive[op] # None, NEW names \in SUBSET Label,
           archive' = [archive EXCEPT ![op] = names]
    PROVE  /\ archive' \in [Operation -> {None} \cup (SUBSET Label)]
           /\ Archived(op) = archive[op]
           /\ archive'[op] = names /\ archive'[op] # None
           /\ \A o \in Operation \ {op} : archive'[o] = archive[o]
BY Shape, NoneIsNoFile DEF Archived

LEMMA PhaseNames ==
    {Phase[n] : n \in 1..Len(Phase)} = {"IntentRecorded", "PriorArchived", "NewCorpusStaged",
        "NewCorpusPublished", "CommitSealed", "ReceiptSealed"}
BY DEF Phase

-----------------------------------------------------------------------------
(* Before the new corpus is published nothing has been. *)

LEMMA NothingPublished ==
    ASSUME IInv,
           \/ call.at \in Preparing \cup Moving \cup Moved \cup Restoring
           \/ call.at = "restore"
    PROVE  /\ \A op \in Operation : ~Published(op)
           /\ receipts = {}
           /\ \A op \in Operation :
                  journal[op] \notin {"NewCorpusPublished", "CommitSealed", "ReceiptSealed"}
<1>1. call.op \in Operation /\ CallKnows
  BY Shape DEF IInv, Preparing, Moving, Moved, Restoring
<1>2. \A op \in Operation : ~Published(op)
  <2> SUFFICES ASSUME NEW op \in Operation, Published(op) PROVE FALSE
    OBVIOUS
  <2>1. live # None /\ "observations" \in Archived(op) /\ pointer["skill_bank"] = None
        /\ inflight \subseteq {op}
    BY OperationIsTyped DEF Published
  <2>2. CASE call.at \in Preparing
    BY <1>1, <2>1, <2>2, PointerNames, OperationIsTyped DEF CallKnows
  <2>3. CASE call.at \in Moving \cup Moved \/ call.at = "restore"
    BY <1>1, <2>1, <2>3 DEF CallKnows, Retired
  <2>4. CASE call.at \in Restoring
    BY <1>1, <2>1, <2>4, Shape DEF CallKnows, PriorLive, IInv
  <2> QED BY <2>2, <2>3, <2>4
<1>3. receipts = {}
  BY <1>2, Shape DEF IInv, ReceiptsArePublished
<1> QED BY <1>2, <1>3 DEF IInv, JournalIsPublished

\* An operation that publishes is the only one.
LEMMA OnePublished ==
    ASSUME IInv, NEW op \in Operation, Published(op), op \in inflight,
           NEW o \in Operation, Published(o)
    PROVE  o = op
BY DEF Published

\* A step that moves no file.
LEMMA FilesSame ==
    ASSUME IInv, UNCHANGED <<live, pointer, archive, inflight, intent>>, receipts \subseteq receipts'
    PROVE  /\ OpenIsVisible' /\ OpenIsOneOfThree'
           /\ \A op : /\ Published(op) => Published(op)'
                      /\ Retired(op)' = Retired(op) /\ PriorLive(op)' = PriorLive(op)
                      /\ Archived(op)' = Archived(op)
           /\ \A c : PointersOf(c)' = PointersOf(c)
<1>1. \A op : /\ Published(op) => Published(op)'
              /\ Retired(op)' = Retired(op) /\ PriorLive(op)' = PriorLive(op)
              /\ Archived(op)' = Archived(op)
  BY DEF Published, Retired, PriorLive, PointersOf, Kept, Archived
<1>2. OpenIsOneOfThree'
  BY <1>1 DEF IInv, OpenIsOneOfThree
<1> QED BY <1>1, <1>2 DEF IInv, OpenIsVisible, PointersOf

\* A step before the publication leaves receipts and journal behind it.
LEMMA UnpublishedStep ==
    ASSUME receipts = {}, receipts' = receipts,
           \A op \in Operation :
               journal'[op] \notin {"NewCorpusPublished", "CommitSealed", "ReceiptSealed"}
    PROVE  ReceiptsArePublished' /\ JournalIsPublished' /\ JournalIsBehind'
BY DEF ReceiptsArePublished, JournalIsPublished, JournalIsBehind

-----------------------------------------------------------------------------
(* What the call knows where it goes to, by the kind of place. *)

LEMMA NowPreparing ==
    ASSUME NEW op \in Operation, call' \in Calls, call'.op = op,
           call'.at \in Preparing, call'.left = PointerOrder,
           live' = op.prior, op.prior # New(op),
           \A p \in Pointer : pointer'[p] \in {op.prior, None},
           \A p \in Required : pointer'[p] = op.prior,
           archive'[op] = IF call'.at = "retire" THEN {} ELSE None,
           inflight' = IF call'.at = "open" THEN {} ELSE {op},
           call'.at \notin {"open", "intent"} => op \in intent'
    PROVE  CallKnows'
BY DEF CallKnows, PointersOf, Preparing, Moving, Moved, Committing, Authorized, Committed, Sealing, Restoring

LEMMA NowMoving ==
    ASSUME NEW op \in Operation, call' \in Calls, call'.op = op,
           call'.at \in Moving, Retired(op)', op \in intent',
           call'.at = "manifest" => call'.left = PointerOrder,
           call'.at = "archive" => "observations_manifest" \in Archived(op)' /\ call'.left # <<>>,
           \A p \in Pointer : pointer'[p] # None => \E n \in 1..Len(call'.left) : call'.left[n] = p
    PROVE  CallKnows'
BY DEF CallKnows, Preparing, Moving, Moved, Committing, Authorized, Committed, Sealing, Restoring

LEMMA NowMoved ==
    ASSUME NEW op \in Operation, call' \in Calls, call'.op = op,
           call'.at \in Moved, Retired(op)', op \in intent',
           "observations_manifest" \in Archived(op)',
           \A p \in Pointer : pointer'[p] = None
    PROVE  CallKnows'
BY DEF CallKnows, Preparing, Moving, Moved, Committing, Authorized, Committed, Sealing, Restoring

LEMMA NowCommitting ==
    ASSUME NEW op \in Operation, call' \in Calls, call'.op = op,
           call'.at \in Committing, Published(op)', op \in intent',
           call'.at \in Authorized => Event("commit_transaction", New(op)) \in ledger',
           call'.at \in Committed => New(op) \in commits',
           call'.at = "receipt" => Event("learning_corpus_transition", op) \in ledger'
    PROVE  CallKnows'
BY DEF CallKnows, Preparing, Moving, Moved, Committing, Authorized, Committed, Sealing, Restoring

LEMMA NowSealing ==
    ASSUME NEW op \in Operation, call' \in Calls, call'.op = op,
           call'.at \in Sealing, op \in receipts'
    PROVE  CallKnows'
BY DEF CallKnows, Preparing, Moving, Moved, Committing, Authorized, Committed, Sealing, Restoring

LEMMA NowRestoring ==
    ASSUME NEW op \in Operation, call' \in Calls, call'.op = op,
           call'.at \in Restoring, PriorLive(op)', op \in intent',
           call'.at \in {"restore_pointers", "restore_unlink"} => call'.left # <<>> /\ archive'[op] # None,
           call'.at = "restore_unlink" => pointer'[Head(call'.left)] = op.prior
    PROVE  CallKnows'
BY DEF CallKnows, Preparing, Moving, Moved, Committing, Authorized, Committed, Sealing, Restoring

\* Elsewhere it knows nothing, and needs nothing.
LEMMA NowElsewhere ==
    ASSUME call'.at \in {"idle", "clear_head"}
    PROVE  CallKnows'
BY DEF CallKnows, Preparing, Moving, Moved, Committing, Authorized, Committed, Sealing, Restoring

-----------------------------------------------------------------------------
(* The steps of a finalization. *)

\* What a call that prepares knows.
LEMMA PreparingKnows ==
    ASSUME IInv, call.at \in Preparing
    PROVE  LET op == call.op IN
           /\ op \in Operation /\ op # None /\ op.prior \in Corpus /\ op.prior # New(op)
           /\ live = op.prior /\ PointersOf(op.prior) /\ Kept(op)
           /\ \A p \in Pointer : pointer[p] \in {op.prior, None}
           /\ \A p \in Required : pointer[p] = op.prior
           /\ call.left = PointerOrder /\ Archived(op) = {}
           /\ archive[op] = IF call.at = "retire" THEN {} ELSE None
           /\ inflight = IF call.at = "open" THEN {} ELSE {op}
           /\ call.at \notin {"open", "intent"} => op \in intent
           /\ receipts = {}
           /\ \A o \in Operation :
                  journal[o] \notin {"NewCorpusPublished", "CommitSealed", "ReceiptSealed"}
<1>1. call.op \in Operation /\ CallKnows
  BY Shape DEF IInv, Preparing
<1>2. Archived(call.op) = {}
  BY <1>1 DEF CallKnows, Archived
<1> QED BY <1>1, <1>2, OperationIsTyped, NothingPublished DEF CallKnows, PointersOf, Kept

LEMMA OpenIntentIInv ==
    ASSUME IInv, OpenIntent
    PROVE  IInv'
<1> DEFINE op == call.op
<1>1. /\ UNCHANGED <<live, pointer, archive, intent, aborted, journal, ledger, commits, receipts, head, stops>>
      /\ call' = Go("intent") /\ call.at = "open" /\ "open" \in Preparing
  BY DEF OpenIntent, Preparing
<1>2. /\ op \in Operation /\ op # None /\ op.prior # New(op)
      /\ live = op.prior /\ PointersOf(op.prior) /\ Kept(op)
      /\ \A p \in Pointer : pointer[p] \in {op.prior, None}
      /\ \A p \in Required : pointer[p] = op.prior
      /\ call.left = PointerOrder /\ Archived(op) = {} /\ archive[op] = None
      /\ inflight = {} /\ receipts = {}
      /\ \A o \in Operation :
             journal[o] \notin {"NewCorpusPublished", "CommitSealed", "ReceiptSealed"}
  BY <1>1, PreparingKnows
<1>3. inflight' = {op}
  BY <1>2 DEF OpenIntent
<1>4. call' \in Calls /\ call'.at = "intent" /\ call'.op = op /\ call'.left = PointerOrder
  BY <1>1, <1>2, GoLeaves DEF IInv, At
<1>5. TypeOK'
  BY <1>1, <1>2, <1>3, <1>4 DEF IInv, TypeOK, Calls, Archived
<1>6. OpenIsVisible'
  BY <1>3 DEF OpenIsVisible
<1>7. OpenIsOneOfThree'
  BY <1>1, <1>2, <1>3 DEF OpenIsOneOfThree, PriorLive, PointersOf, Kept, Archived
<1>8. CallKnows'
  BY <1>1, <1>2, <1>3, <1>4, NowPreparing DEF Preparing
<1> QED BY <1>1, <1>2, <1>5, <1>6, <1>7, <1>8, UnpublishedStep DEF IInv

LEMMA WriteIntentIInv ==
    ASSUME IInv, WriteIntent
    PROVE  IInv'
<1> DEFINE op == call.op
<1>1. /\ UNCHANGED <<live, pointer, archive, inflight, aborted, journal, ledger, commits, receipts, head, stops>>
      /\ call' = Go("IntentRecorded") /\ call.at = "intent" /\ "intent" \in Preparing
      /\ intent' = intent \cup {op}
  BY DEF WriteIntent, Preparing
<1>2. /\ op \in Operation /\ op # None /\ op.prior # New(op)
      /\ live = op.prior /\ PointersOf(op.prior) /\ Kept(op)
      /\ \A p \in Pointer : pointer[p] \in {op.prior, None}
      /\ \A p \in Required : pointer[p] = op.prior
      /\ call.left = PointerOrder /\ Archived(op) = {} /\ archive[op] = None
      /\ inflight = {op} /\ receipts = {}
      /\ \A o \in Operation :
             journal[o] \notin {"NewCorpusPublished", "CommitSealed", "ReceiptSealed"}
  BY <1>1, PreparingKnows
<1>3. call' \in Calls /\ call'.at = "IntentRecorded" /\ call'.op = op /\ call'.left = PointerOrder
  BY <1>1, <1>2, GoLeaves, PhaseNames DEF IInv, At
<1>4. TypeOK'
  BY <1>1, <1>2, <1>3 DEF IInv, TypeOK, Calls, Archived
<1>5. OpenIsVisible'
  BY <1>1, <1>2 DEF OpenIsVisible
<1>6. OpenIsOneOfThree'
  BY <1>1, <1>2 DEF OpenIsOneOfThree, PriorLive, PointersOf, Kept, Archived
<1>7. CallKnows'
  BY <1>1, <1>2, <1>3, NowPreparing DEF Preparing
<1> QED BY <1>1, <1>2, <1>4, <1>5, <1>6, <1>7, UnpublishedStep DEF IInv

-----------------------------------------------------------------------------
(* The steps that move no file of the store. *)

Files == <<live, pointer, archive, inflight, intent>>

LEMMA QuietStep ==
    ASSUME IInv, TypeOK', CallKnows', UNCHANGED Files,
           receipts \subseteq receipts', commits \subseteq commits', ledger \subseteq ledger',
           \A op \in receipts' \ receipts :
               /\ op \in Operation /\ Published(op) /\ New(op) \in commits'
               /\ Event("commit_transaction", New(op)) \in ledger'
               /\ Event("learning_corpus_transition", op) \in ledger',
           \A op \in Operation : journal'[op] # journal[op] =>
               /\ journal'[op] \in {"NewCorpusPublished", "CommitSealed", "ReceiptSealed"} => Published(op)
               /\ journal'[op] \in {"CommitSealed", "ReceiptSealed"} => New(op) \in commits'
               /\ journal'[op] = "ReceiptSealed" => op \in receipts'
    PROVE  IInv'
<1>1. UNCHANGED <<live, pointer, archive, inflight, intent>>
  BY DEF Files
<1>2. /\ OpenIsVisible' /\ OpenIsOneOfThree'
      /\ \A op : Published(op) => Published(op)'
  BY <1>1, FilesSame
<1>3. ReceiptsArePublished'
  BY <1>2 DEF IInv, ReceiptsArePublished
<1>4. JournalIsPublished'
  BY <1>2 DEF IInv, JournalIsPublished
<1>5. JournalIsBehind'
  BY <1>1 DEF IInv, JournalIsBehind, Published
<1> QED BY <1>2, <1>3, <1>4, <1>5 DEF IInv

\* What a call knows from the publication to the receipt.
LEMMA CommittingKnows ==
    ASSUME IInv, call.at \in Committing
    PROVE  LET op == call.op IN
           /\ op \in Operation /\ op # None /\ New(op) \in Corpus
           /\ Published(op) /\ op \in intent
           /\ call.at \in Authorized => Event("commit_transaction", New(op)) \in ledger
           /\ call.at \in Committed => New(op) \in commits
           /\ call.at = "receipt" => Event("learning_corpus_transition", op) \in ledger
<1>1. call.op \in Operation /\ CallKnows
  BY Shape DEF IInv, Committing
<1> QED BY <1>1, OperationIsTyped DEF CallKnows

\* What the head may name is what is live.
LEMMA SnapshotIsTyped ==
    ASSUME TypeOK, NEW o \in Operation \cup {None}
    PROVE  Snapshot(o) \in [corpus : Corpus \cup {None}, pointers : [Required -> Corpus \cup {None}],
                            incomplete : Operation \cup {None}]
<1>1. [p \in Required |-> pointer[p]] \in [Required -> Corpus \cup {None}]
  BY Shape, PointerNames
<1> QED BY <1>1 DEF Snapshot, TypeOK

LEMMA WriteJournalIInv ==
    ASSUME IInv, WriteJournal
    PROVE  IInv'
<1> DEFINE op == call.op
<1>1. /\ UNCHANGED <<live, pointer, archive, inflight, intent, aborted, ledger, commits, receipts, head, stops>>
      /\ journal' = [journal EXCEPT ![op] = call.at]
      /\ \/ call.at = "IntentRecorded" /\ call' = Go("set_head")
         \/ call.at = "PriorArchived" /\ call' = Go("NewCorpusStaged")
         \/ call.at = "NewCorpusStaged" /\ call' = Go("publish")
         \/ call.at = "NewCorpusPublished" /\ call' = Go("commit_event")
         \/ call.at = "CommitSealed" /\ call' = Go("transition_event")
         \/ call.at = "ReceiptSealed" /\ call' = Go("clear_head")
  BY DEF WriteJournal, AfterPhase
<1>2. op \in Operation /\ op # None
  BY <1>1, Shape, OperationIsTyped DEF IInv
<1>3. /\ call' \in Calls /\ call'.op = op /\ call'.left = call.left
      /\ \/ call.at = "IntentRecorded" /\ call'.at = "set_head"
         \/ call.at = "PriorArchived" /\ call'.at = "NewCorpusStaged"
         \/ call.at = "NewCorpusStaged" /\ call'.at = "publish"
         \/ call.at = "NewCorpusPublished" /\ call'.at = "commit_event"
         \/ call.at = "CommitSealed" /\ call'.at = "transition_event"
         \/ call.at = "ReceiptSealed" /\ call'.at = "clear_head"
  BY <1>1, GoLeaves, PhaseNames DEF IInv, At
<1>4. /\ journal'[op] = call.at /\ \A o \in Operation \ {op} : journal'[o] = journal[o]
      /\ journal' \in [Operation -> {Phase[n] : n \in 1..Len(Phase)} \cup {None}]
  BY <1>1, <1>2, Shape, PhaseNames DEF IInv
<1>5. TypeOK'
  <2>1. call.left # <<>> => call.at = "IntentRecorded"
    BY <1>1 DEF IInv, TypeOK
  <2> QED BY <1>1, <1>2, <1>3, <1>4, <2>1 DEF IInv, TypeOK, Calls, Archived
<1>6. UNCHANGED Files
  BY <1>1 DEF Files
<1>7. CASE call.at = "IntentRecorded"
  <2>1. CallKnows'
    BY <1>1, <1>2, <1>3, <1>7, PreparingKnows, NowPreparing DEF Preparing
  <2> QED BY <1>1, <1>4, <1>5, <1>6, <1>7, <2>1, QuietStep
<1>8. CASE call.at \in {"PriorArchived", "NewCorpusStaged"}
  <2>1. /\ Retired(op) /\ op \in intent /\ "observations_manifest" \in Archived(op)
        /\ \A p \in Pointer : pointer[p] = None
    BY <1>8 DEF IInv, CallKnows, Moved
  <2>2. Retired(op)' /\ Archived(op)' = Archived(op)
    BY <1>1, <1>3, <2>1 DEF Retired, PointersOf, Kept, Archived
  <2>3. call'.at \in Moved
    BY <1>3, <1>8 DEF Moved
  <2>4. CallKnows'
    BY <1>1, <1>2, <1>3, <2>1, <2>2, <2>3, NowMoved
  <2> QED BY <1>1, <1>4, <1>5, <1>6, <1>8, <2>4, QuietStep
<1>9. CASE call.at \in {"NewCorpusPublished", "CommitSealed"}
  <2>1. /\ Published(op) /\ op \in intent
        /\ call.at \in Authorized => Event("commit_transaction", New(op)) \in ledger
        /\ call.at \in Committed => New(op) \in commits
    BY <1>9, CommittingKnows DEF Committing
  <2>2. Published(op)'
    BY <1>1, <1>3, <2>1 DEF Published, PointersOf, Archived
  <2>3. /\ call'.at \in Committing /\ call'.at # "receipt"
        /\ call'.at \in Authorized => call.at \in Authorized
        /\ call'.at \in Committed => call.at \in Committed
    BY <1>3, <1>9 DEF Committing, Authorized, Committed
  <2>4. CallKnows'
    BY <1>1, <1>2, <1>3, <2>1, <2>2, <2>3, NowCommitting
  <2>5. call.at = "CommitSealed" => New(op) \in commits
    BY <2>1 DEF Committed
  <2> QED BY <1>1, <1>4, <1>5, <1>6, <1>9, <2>1, <2>4, <2>5, QuietStep
<1>10. CASE call.at = "ReceiptSealed"
  <2>1. op \in receipts /\ Published(op) /\ New(op) \in commits
    BY <1>10 DEF IInv, CallKnows, Sealing, ReceiptsArePublished
  <2>2. CallKnows'
    BY <1>3, <1>10, NowElsewhere
  <2> QED BY <1>1, <1>4, <1>5, <1>6, <1>10, <2>1, <2>2, QuietStep
<1> QED BY <1>3, <1>7, <1>8, <1>9, <1>10

LEMMA SetHeadIInv ==
    ASSUME IInv, SetHead
    PROVE  IInv'
<1> DEFINE op == call.op
<1>1. /\ UNCHANGED <<live, pointer, archive, inflight, intent, aborted, journal, ledger, commits, receipts, stops>>
      /\ head' = Snapshot(op) /\ call' = Go("archive_dir")
      /\ call.at = "set_head" /\ "set_head" \in Preparing
  BY DEF SetHead, Preparing
<1>2. op \in Operation /\ op # None
  BY <1>1, PreparingKnows
<1>3. call' \in Calls /\ call'.op = op /\ call'.left = call.left /\ call'.at = "archive_dir"
  BY <1>1, GoLeaves DEF IInv, At
<1>4. head' \in [corpus : Corpus \cup {None}, pointers : [Required -> Corpus \cup {None}],
                 incomplete : Operation \cup {None}]
  BY <1>1, <1>2, SnapshotIsTyped DEF IInv
<1>5. TypeOK'
  BY <1>1, <1>2, <1>3, <1>4 DEF IInv, TypeOK, Calls, Archived
<1>6. CallKnows'
  BY <1>1, <1>2, <1>3, PreparingKnows, NowPreparing DEF Preparing
<1> QED BY <1>1, <1>5, <1>6, QuietStep DEF Files

\* A step between publication and receipt that adds what it was for.
LEMMA CommittingGoesOn ==
    ASSUME IInv, call.at \in Committing, NEW place \in Committing, call' = Go(place),
           UNCHANGED <<live, pointer, archive, inflight, intent, aborted, journal, receipts, stops>>,
           commits \subseteq commits', ledger \subseteq ledger',
           commits' \subseteq commits \cup {New(call.op)},
           ledger' \subseteq ledger \cup {Event("commit_transaction", New(call.op)),
                                          Event("learning_corpus_transition", call.op)},
           head' = head \/ head' = Snapshot(head.incomplete),
           place \in Authorized => \/ call.at \in Authorized
                                   \/ Event("commit_transaction", New(call.op)) \in ledger',
           place \in Committed => call.at \in Committed \/ New(call.op) \in commits',
           place = "receipt" => Event("learning_corpus_transition", call.op) \in ledger'
    PROVE  IInv'
<1> DEFINE op == call.op
<1>1. /\ op \in Operation /\ op # None /\ New(op) \in Corpus
      /\ Published(op) /\ op \in intent
      /\ call.at \in Authorized => Event("commit_transaction", New(op)) \in ledger
      /\ call.at \in Committed => New(op) \in commits
  BY CommittingKnows
<1>2. place \in At /\ place # "idle" /\ call.left = <<>>
  BY PhaseNames DEF Committing, At, IInv, TypeOK
<1>3. call' \in Calls /\ call'.op = op /\ call'.left = <<>> /\ call'.at = place
  BY <1>2, GoLeaves DEF IInv
<1>4. head' \in [corpus : Corpus \cup {None}, pointers : [Required -> Corpus \cup {None}],
                 incomplete : Operation \cup {None}]
  BY SnapshotIsTyped DEF IInv, TypeOK
<1>5. TypeOK'
  BY <1>1, <1>2, <1>3, <1>4 DEF IInv, TypeOK, Calls, Archived
<1>6. Published(op)'
  BY <1>1, <1>3 DEF Published, PointersOf, Archived
<1>7. CallKnows'
  BY <1>1, <1>3, <1>6, NowCommitting
<1> QED BY <1>5, <1>7, QuietStep DEF Files

LEMMA CommitEventIInv ==
    ASSUME IInv, CommitEvent
    PROVE  IInv'
BY CommittingGoesOn DEF CommitEvent, Committing, Committed, Authorized

LEMMA WriteCommitIInv ==
    ASSUME IInv, WriteCommit
    PROVE  IInv'
BY CommittingGoesOn DEF WriteCommit, Committing, Committed, Authorized

LEMMA KeepHeadIInv ==
    ASSUME IInv, KeepHead
    PROVE  IInv'
BY CommittingGoesOn DEF KeepHead, Committing, Committed, Authorized

LEMMA TransitionEventIInv ==
    ASSUME IInv, TransitionEvent
    PROVE  IInv'
BY CommittingGoesOn DEF TransitionEvent, Committing, Committed, Authorized

LEMMA WriteReceiptIInv ==
    ASSUME IInv, WriteReceipt
    PROVE  IInv'
<1> DEFINE op == call.op
<1>1. /\ UNCHANGED <<live, pointer, archive, inflight, intent, aborted, journal, ledger, commits, head, stops>>
      /\ receipts' = receipts \cup {op} /\ call' = Go("seal") /\ call.at = "receipt"
  BY DEF WriteReceipt
<1>2. /\ op \in Operation /\ op # None /\ Published(op)
      /\ Event("commit_transaction", New(op)) \in ledger /\ New(op) \in commits
      /\ Event("learning_corpus_transition", op) \in ledger
  BY <1>1, CommittingKnows DEF Committing, Authorized, Committed
<1>3. call' \in Calls /\ call'.op = op /\ call'.left = call.left /\ call'.at = "seal"
  BY <1>1, GoLeaves DEF IInv, At
<1>4. call.left = <<>>
  BY <1>1 DEF IInv, TypeOK
<1>5. TypeOK'
  BY <1>1, <1>2, <1>3, <1>4 DEF IInv, TypeOK, Calls, Archived
<1>6. CallKnows'
  BY <1>1, <1>2, <1>3, NowSealing DEF Sealing
<1> QED BY <1>1, <1>2, <1>5, <1>6, QuietStep DEF Files

\* The calls begin and end.
LEMMA IdleCall ==
    /\ Idle \in Calls /\ Idle.at = "idle" /\ Idle.op = None /\ Idle.left = <<>>
BY DEF Idle, Calls, At

LEMMA ClearHeadIInv ==
    ASSUME IInv, ClearHead
    PROVE  IInv'
<1>1. /\ UNCHANGED <<live, pointer, archive, inflight, intent, aborted, journal, ledger, commits, receipts, stops>>
      /\ head' = Snapshot(None) /\ call' = Idle
  BY DEF ClearHead
<1>2. head' \in [corpus : Corpus \cup {None}, pointers : [Required -> Corpus \cup {None}],
                 incomplete : Operation \cup {None}]
  BY <1>1, SnapshotIsTyped DEF IInv
<1>3. TypeOK'
  BY <1>1, <1>2, IdleCall DEF IInv, TypeOK, Calls, Archived
<1>4. CallKnows'
  BY <1>1, IdleCall, NowElsewhere
<1> QED BY <1>1, <1>3, <1>4, QuietStep DEF Files

\* A call that begins changes nothing else.
LEMMA CallChanges ==
    ASSUME IInv, UNCHANGED store, stops' \in 0..MaxStops,
           call' \in Calls, call'.op = None <=> call'.at = "idle",
           call'.left = <<>> \/ call'.at = "open", CallKnows'
    PROVE  IInv'
<1>1. UNCHANGED <<live, pointer, archive, inflight, intent, aborted, journal, ledger, commits, receipts, head>>
  BY DEF store
<1>2. TypeOK'
  BY <1>1 DEF IInv, TypeOK, Calls, Archived
<1> QED BY <1>1, <1>2, QuietStep DEF Files

LEMMA StopIInv ==
    ASSUME IInv, Stop
    PROVE  IInv'
<1>1. stops' \in 0..MaxStops
  BY CorpusTransitionAssumption DEF Stop, IInv, TypeOK
<1>2. CallKnows'
  BY IdleCall, NowElsewhere DEF Stop
<1> QED BY <1>1, <1>2, IdleCall, CallChanges DEF Stop

LEMMA FinalizeIInv ==
    ASSUME IInv, NEW input \in Input, Finalize(input)
    PROVE  IInv'
<1> DEFINE op == [input |-> input, prior |-> live]
           new == [at |-> "open", op |-> op, left |-> PointerOrder, recovery |-> FALSE]
<1>1. /\ inflight = {} /\ live # None /\ live # Target[input] /\ archive[op] = None
      /\ \A p \in Required : pointer[p] = live
      /\ call' = new /\ UNCHANGED <<store, stops>>
  BY DEF Finalize, RevokedAndHealthy
<1>2. live \in Corpus /\ \A p \in Pointer : pointer[p] \in {live, None}
  BY <1>1 DEF IInv, TypeOK, OpenIsVisible
<1>3. op \in Operation /\ op.prior = live /\ New(op) = Target[input]
  BY <1>2 DEF Operation, New
<1> HIDE DEF op
<1>4. op # None /\ new \in Calls /\ new.at = "open" /\ new.op = op /\ new.left = PointerOrder
  BY <1>3, OperationIsTyped, PointerSequence DEF Calls, At
<1> HIDE DEF new
<1>5. UNCHANGED <<live, pointer, archive, inflight, intent>> /\ "open" \in Preparing /\ stops' \in 0..MaxStops
  BY <1>1 DEF store, Preparing, IInv, TypeOK
<1>6. CallKnows'
  BY <1>1, <1>2, <1>3, <1>4, <1>5, NowPreparing
<1> QED BY <1>1, <1>4, <1>5, <1>6, CallChanges

\* A recovery or a replay that begins.
LEMMA Begins ==
    ASSUME IInv, NEW op \in Operation, NEW at \in {"close", "restore", "abort"}, NEW b \in BOOLEAN,
           call' = [at |-> at, op |-> op, left |-> <<>>, recovery |-> b],
           UNCHANGED <<store, stops>>,
           at = "close" => op \in receipts,
           at = "restore" => Retired(op) /\ op \in intent,
           at = "abort" => PriorLive(op) /\ op \in intent
    PROVE  IInv'
<1>1. /\ op # None /\ call' \in Calls /\ call'.at = at /\ call'.op = op /\ call'.left = <<>>
  BY OperationIsTyped DEF Calls, At
<1>2. /\ UNCHANGED <<live, pointer, archive, inflight, intent, receipts>> /\ stops' \in 0..MaxStops
  BY DEF store, IInv, TypeOK
<1>3. /\ Retired(op)' = Retired(op) /\ PriorLive(op)' = PriorLive(op)
  BY <1>2, FilesSame
<1>4. CallKnows'
  <2>1. CASE at = "close"
    BY <1>1, <1>2, <2>1, NowSealing DEF Sealing
  <2>2. CASE at = "restore"
    BY <1>1, <1>2, <1>3, <2>2
       DEF CallKnows, Preparing, Moving, Moved, Committing, Authorized, Committed, Sealing, Restoring
  <2>3. CASE at = "abort"
    BY <1>1, <1>2, <1>3, <2>3, NowRestoring DEF Restoring
  <2> QED BY <2>1, <2>2, <2>3
<1> QED BY <1>1, <1>2, <1>4, CallChanges

LEMMA ReplayIInv ==
    ASSUME IInv, NEW input \in Input, Replay(input)
    PROVE  IInv'
<1>1. PICK op \in receipts :
          call' = [at |-> "close", op |-> op, left |-> <<>>, recovery |-> FALSE]
  BY DEF Replay
<1>2. op \in Operation
  BY <1>1, Shape DEF IInv
<1> QED BY <1>1, <1>2, Begins DEF Replay

LEMMA RecoverIInv ==
    ASSUME IInv, Recover
    PROVE  IInv'
<1>1. PICK op \in inflight : \E at \in Decision(op) :
          call' = [at |-> at, op |-> op, left |-> <<>>, recovery |-> TRUE]
  BY DEF Recover
<1>2. PICK at \in Decision(op) :
          call' = [at |-> at, op |-> op, left |-> <<>>, recovery |-> TRUE]
  BY <1>1
<1>3. op \in Operation /\ op.prior # None /\ New(op) # None /\ op.prior # New(op)
  BY Shape, OperationIsTyped DEF IInv, OpenIsOneOfThree
<1>4. PriorLive(op) \/ Retired(op) \/ Published(op)
  BY DEF IInv, OpenIsOneOfThree
<1>5. at \in {"close", "restore", "abort"} /\ (at = "close" => op \in receipts)
  BY <1>2 DEF Decision
<1>6. at = "restore" => Retired(op) /\ op \in intent
  BY <1>2, <1>3, <1>4 DEF Decision, RestorePriorCorpus, PriorLive, Published
<1>7. at = "abort" => PriorLive(op) /\ op \in intent
  <2>1. ASSUME at = "abort" PROVE op \in intent /\ "observations" \notin Archived(op)
    BY <1>2, <2>1 DEF Decision, RollBackIntent
  <2> QED BY <1>4, <2>1 DEF Retired, Published
<1> QED BY <1>2, <1>3, <1>5, <1>6, <1>7, Begins DEF Recover

-----------------------------------------------------------------------------
(* The steps that move the files. *)

LEMMA MakeArchiveIInv ==
    ASSUME IInv, MakeArchive
    PROVE  IInv'
<1> DEFINE op == call.op
<1>1. /\ UNCHANGED <<live, pointer, inflight, intent, aborted, journal, ledger, commits, receipts, head, stops>>
      /\ archive' = [archive EXCEPT ![op] = {}] /\ call' = Go("retire")
      /\ call.at = "archive_dir" /\ "archive_dir" \in Preparing
  BY DEF MakeArchive, Preparing
<1>2. /\ op \in Operation /\ op # None /\ op.prior # New(op)
      /\ live = op.prior
      /\ \A p \in Pointer : pointer[p] \in {op.prior, None}
      /\ \A p \in Required : pointer[p] = op.prior
      /\ call.left = PointerOrder
      /\ inflight = {op} /\ op \in intent /\ receipts = {}
      /\ \A o \in Operation :
             journal[o] \notin {"NewCorpusPublished", "CommitSealed", "ReceiptSealed"}
  BY <1>1, PreparingKnows
<1>3. call' \in Calls /\ call'.at = "retire" /\ call'.op = op /\ call'.left = PointerOrder
  BY <1>1, <1>2, GoLeaves DEF IInv, At
<1>4. /\ archive' \in [Operation -> {None} \cup (SUBSET Label)] /\ archive'[op] = {}
      /\ Archived(op)' = {}
  <2>1. archive' \in [Operation -> {None} \cup (SUBSET Label)] /\ archive'[op] = {}
    BY <1>1, <1>2, Shape DEF IInv
  <2> QED BY <1>3, <2>1 DEF Archived
<1>5. TypeOK'
  BY <1>1, <1>2, <1>3, <1>4 DEF IInv, TypeOK, Calls, Archived
<1>6. OpenIsVisible'
  BY <1>1, <1>2 DEF OpenIsVisible
<1>7. OpenIsOneOfThree'
  BY <1>1, <1>2, <1>3, <1>4 DEF OpenIsOneOfThree, PriorLive, PointersOf, Kept, Archived
<1>8. CallKnows'
  BY <1>1, <1>2, <1>3, <1>4, NowPreparing DEF Preparing
<1> QED BY <1>1, <1>2, <1>5, <1>6, <1>7, <1>8, UnpublishedStep DEF IInv

LEMMA RetireCorpusIInv ==
    ASSUME IInv, RetireCorpus
    PROVE  IInv'
<1> DEFINE op == call.op
<1>1. /\ UNCHANGED <<pointer, inflight, intent, aborted, journal, ledger, commits, receipts, head, stops>>
      /\ live' = None /\ archive' = [archive EXCEPT ![op] = @ \cup {"observations"}]
      /\ call' = Go("manifest") /\ call.at = "retire" /\ "retire" \in Preparing
  BY DEF RetireCorpus, Preparing
<1>2. /\ op \in Operation /\ op # None /\ op.prior # New(op)
      /\ \A p \in Pointer : pointer[p] \in {op.prior, None}
      /\ \A p \in Required : pointer[p] = op.prior
      /\ call.left = PointerOrder /\ archive[op] = {}
      /\ inflight = {op} /\ op \in intent /\ receipts = {}
      /\ \A o \in Operation :
             journal[o] \notin {"NewCorpusPublished", "CommitSealed", "ReceiptSealed"}
  BY <1>1, PreparingKnows
<1>3. call' \in Calls /\ call'.at = "manifest" /\ call'.op = op /\ call'.left = PointerOrder
  BY <1>1, <1>2, GoLeaves DEF IInv, At
<1>4. /\ archive' \in [Operation -> {None} \cup (SUBSET Label)] /\ archive'[op] = {"observations"}
      /\ archive'[op] # None
  BY <1>1, <1>2, Shape, PointerNames, NoneIsNoFile DEF IInv
<1>5. TypeOK'
  BY <1>1, <1>2, <1>3, <1>4 DEF IInv, TypeOK, Calls, Archived
<1>6. OpenIsVisible'
  BY <1>1, <1>2 DEF OpenIsVisible
<1>7. Retired(op)'
  BY <1>1, <1>2, <1>3, <1>4 DEF Retired, PointersOf, Kept, Archived
<1>8. OpenIsOneOfThree'
  BY <1>1, <1>2, <1>3, <1>7 DEF OpenIsOneOfThree
<1>9. CallKnows'
  BY <1>1, <1>2, <1>3, <1>7, PointerSequence, NowMoving DEF Moving
<1> QED BY <1>1, <1>2, <1>5, <1>6, <1>8, <1>9, UnpublishedStep DEF IInv

\* What a call that moves the pointers knows.
LEMMA MovingKnows ==
    ASSUME IInv, call.at \in Moving \cup Moved
    PROVE  LET op == call.op IN
           /\ op \in Operation /\ op # None /\ op.prior \in Corpus /\ op.prior # None
           /\ Retired(op) /\ op \in intent
           /\ inflight = {op} /\ op.prior # New(op)
           /\ archive[op] # None /\ Archived(op) = archive[op] /\ archive[op] \subseteq Label
           /\ receipts = {}
           /\ \A o \in Operation :
                  journal[o] \notin {"NewCorpusPublished", "CommitSealed", "ReceiptSealed"}
<1>1. call.op \in Operation /\ CallKnows
  BY Shape DEF IInv, Moving, Moved
<1>2. Retired(call.op) /\ call.op \in intent
  BY <1>1 DEF CallKnows
<1>3. inflight = {call.op} /\ call.op.prior # New(call.op)
  BY <1>2, Shape DEF IInv, OpenIsOneOfThree
<1>4. archive[call.op] # None /\ Archived(call.op) = archive[call.op]
  BY <1>2 DEF Retired, Archived
<1> QED BY <1>1, <1>2, <1>3, <1>4, OperationIsTyped, NothingPublished, ArchiveIsTyped DEF IInv

LEMMA WriteManifestIInv ==
    ASSUME IInv, WriteManifest
    PROVE  IInv'
<1> DEFINE op == call.op
           names == archive[op] \cup {"observations_manifest"}
<1>1. /\ UNCHANGED <<live, pointer, inflight, intent, aborted, journal, ledger, commits, receipts, head, stops>>
      /\ archive' = [archive EXCEPT ![op] = names]
      /\ call' = Go("archive") /\ call.at = "manifest" /\ "manifest" \in Moving
  BY DEF WriteManifest, Moving
<1>2. /\ op \in Operation /\ op # None /\ Retired(op) /\ op \in intent
      /\ inflight = {op} /\ op.prior # New(op)
      /\ archive[op] # None /\ Archived(op) = archive[op] /\ archive[op] \subseteq Label
      /\ receipts = {}
      /\ \A o \in Operation :
             journal[o] \notin {"NewCorpusPublished", "CommitSealed", "ReceiptSealed"}
  BY <1>1, MovingKnows
<1>3. call.left = PointerOrder
  BY <1>1 DEF IInv, CallKnows, Moving
<1>4. call' \in Calls /\ call'.at = "archive" /\ call'.op = op /\ call'.left = PointerOrder
  BY <1>1, <1>3, GoLeaves DEF IInv, At
<1>5. names \in SUBSET Label
  BY <1>2, PointerNames
<1>6. /\ archive' \in [Operation -> {None} \cup (SUBSET Label)]
      /\ archive'[op] = names /\ archive'[op] # None
      /\ \A o \in Operation \ {op} : archive'[o] = archive[o]
  BY <1>1, <1>2, <1>5, ArchiveChanges DEF IInv
<1>7. Archived(op)' = Archived(op) \cup {"observations_manifest"}
  BY <1>2, <1>4, <1>6 DEF Archived
<1>8. TypeOK'
  BY <1>1, <1>2, <1>4, <1>6 DEF IInv, TypeOK, Calls, Archived
<1>9. OpenIsVisible'
  BY <1>1, <1>2 DEF OpenIsVisible
<1>10. Retired(op)'
  BY <1>1, <1>2, <1>4, <1>7 DEF Retired, PointersOf, Kept
<1>11. OpenIsOneOfThree'
  BY <1>1, <1>2, <1>4, <1>10 DEF OpenIsOneOfThree
<1>12. CallKnows'
  BY <1>1, <1>2, <1>4, <1>7, <1>10, PointerSequence, NowMoving DEF Moving
<1> QED BY <1>1, <1>2, <1>8, <1>9, <1>11, <1>12, UnpublishedStep DEF IInv

\* A loop over the pointers goes on with those that are left.
LEMMA NextPointerLeaves ==
    ASSUME TypeOK, call.left # <<>>, NEW after \in At
    PROVE  /\ Head(call.left) \in Pointer
           /\ NextPointer(after) \in Calls
           /\ NextPointer(after).op = call.op
           /\ NextPointer(after).left = Tail(call.left)
           /\ NextPointer(after).at = IF Tail(call.left) = <<>> THEN after ELSE call.at
           /\ \A n \in 1..Len(call.left) : \/ call.left[n] = Head(call.left)
                                           \/ \E m \in 1..Len(Tail(call.left)) : Tail(call.left)[m] = call.left[n]
<1>1. call \in Calls /\ call.left \in Seq(Pointer) /\ call.at \in At
  BY Shape DEF Calls
<1>2. /\ Head(call.left) \in Pointer /\ Tail(call.left) \in Seq(Pointer)
      /\ (Len(call.left) = 1) <=> (Tail(call.left) = <<>>)
  <2>1. Head(call.left) \in Pointer /\ Tail(call.left) \in Seq(Pointer)
    BY <1>1
  <2>2. Len(Tail(call.left)) = Len(call.left) - 1 /\ Len(call.left) \in Nat
    BY <1>1
  <2>3. (Tail(call.left) = <<>>) <=> (Len(Tail(call.left)) = 0)
    BY <2>1, EmptySeq
  <2> QED BY <2>1, <2>2, <2>3
<1>3. \A n \in 1..Len(call.left) : \/ call.left[n] = Head(call.left)
                                   \/ \E m \in 1..Len(Tail(call.left)) : Tail(call.left)[m] = call.left[n]
  <2> SUFFICES ASSUME NEW n \in 1..Len(call.left), n # 1
               PROVE  \E m \in 1..Len(Tail(call.left)) : Tail(call.left)[m] = call.left[n]
    BY <1>1
  <2>1. n - 1 \in 1..Len(Tail(call.left)) /\ Tail(call.left)[n - 1] = call.left[n]
    BY <1>1
  <2> QED BY <2>1
<1> QED BY <1>1, <1>2, <1>3 DEF NextPointer, Calls

LEMMA ArchivePointerIInv ==
    ASSUME IInv, ArchivePointer
    PROVE  IInv'
<1> DEFINE op == call.op
           p == Head(call.left)
<1>1. /\ UNCHANGED <<live, inflight, intent, aborted, journal, ledger, commits, receipts, head, stops>>
      /\ call.at = "archive" /\ "archive" \in Moving
  BY DEF ArchivePointer, Moving
<1>2. /\ op \in Operation /\ op # None /\ Retired(op) /\ op \in intent
      /\ inflight = {op} /\ op.prior # New(op)
      /\ archive[op] # None /\ Archived(op) = archive[op] /\ archive[op] \subseteq Label
      /\ receipts = {}
      /\ \A o \in Operation :
             journal[o] \notin {"NewCorpusPublished", "CommitSealed", "ReceiptSealed"}
  BY <1>1, MovingKnows
<1>3. /\ "observations_manifest" \in archive[op] /\ call.left # <<>>
      /\ \A q \in Pointer : pointer[q] # None => \E n \in 1..Len(call.left) : call.left[n] = q
  BY <1>1, <1>2 DEF IInv, CallKnows, Moving
<1>4. /\ p \in Pointer /\ "PriorArchived" \in At
      /\ NextPointer("PriorArchived") \in Calls /\ NextPointer("PriorArchived").op = op
      /\ NextPointer("PriorArchived").left = Tail(call.left)
      /\ NextPointer("PriorArchived").at = IF Tail(call.left) = <<>> THEN "PriorArchived" ELSE "archive"
      /\ \A n \in 1..Len(call.left) : \/ call.left[n] = p
                                      \/ \E m \in 1..Len(Tail(call.left)) : Tail(call.left)[m] = call.left[n]
  BY <1>1, <1>3, PhaseNames, NextPointerLeaves DEF IInv, At
<1>5. /\ pointer \in [Pointer -> Corpus \cup {None}]
      /\ archive \in [Operation -> {None} \cup (SUBSET Label)] /\ call \in Calls
      /\ "transition_intent" \notin archive[op]
  BY <1>2, Shape DEF IInv, TypeOK
<1>6. \/ /\ pointer[p] = None /\ UNCHANGED <<pointer, archive>> /\ call' = NextPointer("PriorArchived")
      \/ /\ pointer[p] # None /\ UNCHANGED <<pointer, call>>
         /\ archive' = [archive EXCEPT ![op] = archive[op] \cup {p}]
      \/ /\ pointer[p] # None /\ p \in archive[op] /\ UNCHANGED archive
         /\ pointer' = [pointer EXCEPT ![p] = None] /\ call' = NextPointer("PriorArchived")
  BY DEF ArchivePointer
<1> HIDE DEF p
\* What is no longer live is in the archive, and no longer left to move.
<1>7. /\ pointer' \in [Pointer -> Corpus \cup {None}]
      /\ \A q \in Pointer : pointer'[q] = pointer[q] \/ (pointer'[q] = None /\ q \in archive[op])
  BY <1>4, <1>5, <1>6
<1>8. /\ archive' \in [Operation -> {None} \cup (SUBSET Label)] /\ archive'[op] # None
      /\ archive[op] \subseteq archive'[op] /\ archive'[op] \subseteq archive[op] \cup Pointer
  <2>1. CASE UNCHANGED archive
    BY <1>2, <1>5, <2>1
  <2>2. CASE archive' = [archive EXCEPT ![op] = archive[op] \cup {p}]
    <3>1. archive[op] \cup {p} \in SUBSET Label
      BY <1>2, <1>4, PointerNames
    <3>2. archive'[op] = archive[op] \cup {p} /\ archive'[op] # None
          /\ archive' \in [Operation -> {None} \cup (SUBSET Label)]
      BY <1>2, <2>2, <3>1, ArchiveChanges DEF IInv
    <3> QED BY <1>4, <3>2
  <2> QED BY <1>6, <2>1, <2>2
<1>9. /\ call' \in Calls /\ call'.op = op
      /\ \/ call'.at = "archive" /\ call'.left # <<>>
         \/ call'.at = "PriorArchived" /\ call'.left = <<>>
  BY <1>1, <1>3, <1>4, <1>5, <1>6
<1>10. \A q \in Pointer : pointer'[q] # None => \E n \in 1..Len(call'.left) : call'.left[n] = q
  <2>1. CASE UNCHANGED <<pointer, call>>
    BY <1>3, <2>1
  <2>2. CASE call' = NextPointer("PriorArchived") /\ pointer'[p] = None
    <3> SUFFICES ASSUME NEW q \in Pointer, pointer'[q] # None
                 PROVE  \E m \in 1..Len(Tail(call.left)) : Tail(call.left)[m] = q
      BY <1>4, <2>2
    <3>1. pointer[q] # None /\ q # p
      BY <1>7, <2>2
    <3> QED BY <1>3, <1>4, <3>1
  <2>3. pointer'[p] = None \/ UNCHANGED <<pointer, call>>
    BY <1>4, <1>5, <1>6
  <2> QED BY <1>6, <2>1, <2>2, <2>3
<1>11. /\ Archived(op)' = archive'[op] /\ "transition_intent" \notin archive'[op]
  BY <1>5, <1>8, <1>9, PointerNames DEF Archived
<1>12. TypeOK'
  BY <1>1, <1>2, <1>7, <1>8, <1>9, <1>11 DEF IInv, TypeOK, Calls, Archived
<1>13. OpenIsVisible'
  BY <1>1, <1>2 DEF OpenIsVisible
<1>14. Retired(op)'
  <2>1. live = None /\ "observations" \in archive[op] /\ PointersOf(op.prior) /\ Kept(op)
    BY <1>2 DEF Retired
  <2>2. \A q \in Pointer : pointer'[q] \in {op.prior, None}
    BY <1>7, <2>1 DEF PointersOf
  <2>3. \A q \in Required : pointer'[q] = op.prior \/ q \in archive'[op]
    BY <1>2, <1>7, <1>8, <2>1, PointerNames DEF Kept
  <2> QED BY <1>1, <1>8, <1>9, <1>11, <2>1, <2>2, <2>3 DEF Retired, PointersOf, Kept
<1>15. OpenIsOneOfThree'
  BY <1>1, <1>2, <1>9, <1>14 DEF OpenIsOneOfThree
<1>16. CallKnows'
  <2>1. CASE call'.at = "archive"
    BY <1>1, <1>2, <1>3, <1>8, <1>9, <1>10, <1>11, <1>14, <2>1, NowMoving DEF Moving
  <2>2. CASE call'.at = "PriorArchived" /\ call'.left = <<>>
    <3>1. \A q \in Pointer : pointer'[q] = None
      BY <1>10, <2>2
    <3> QED BY <1>1, <1>2, <1>3, <1>8, <1>9, <1>11, <1>14, <2>2, <3>1, NowMoved DEF Moved
  <2> QED BY <1>9, <2>1, <2>2
<1> QED BY <1>1, <1>2, <1>12, <1>13, <1>15, <1>16, UnpublishedStep DEF IInv

LEMMA PublishCorpusIInv ==
    ASSUME IInv, PublishCorpus
    PROVE  IInv'
<1> DEFINE op == call.op
<1>1. /\ UNCHANGED <<pointer, archive, inflight, intent, aborted, journal, ledger, commits, receipts, head, stops>>
      /\ live' = New(op) /\ call' = Go("NewCorpusPublished")
      /\ call.at = "publish" /\ "publish" \in Moved
  BY DEF PublishCorpus, Moved
<1>2. /\ op \in Operation /\ op # None /\ Retired(op) /\ op \in intent
      /\ inflight = {op} /\ op.prior # New(op)
      /\ receipts = {}
      /\ \A o \in Operation :
             journal[o] \notin {"NewCorpusPublished", "CommitSealed", "ReceiptSealed"}
  BY <1>1, MovingKnows
<1>3. /\ "observations_manifest" \in Archived(op) /\ \A p \in Pointer : pointer[p] = None
      /\ call.left = <<>>
  BY <1>1, <1>2 DEF IInv, CallKnows, TypeOK
<1>4. call' \in Calls /\ call'.at = "NewCorpusPublished" /\ call'.op = op /\ call'.left = <<>>
  BY <1>1, <1>3, PhaseNames, GoLeaves DEF IInv, At
<1>5. TypeOK'
  BY <1>1, <1>2, <1>4, OperationIsTyped DEF IInv, TypeOK, Calls, Archived
<1>6. OpenIsVisible'
  BY <1>1, <1>2 DEF OpenIsVisible
<1>7. Published(op)'
  <2>1. \A p \in Required : p \in Archived(op)
    BY <1>2, <1>3, PointerNames, OperationIsTyped DEF Retired, Kept
  <2>2. "observations" \in Archived(op)
    BY <1>2 DEF Retired
  <2> QED BY <1>1, <1>2, <1>3, <1>4, <2>1, <2>2, PointerNames DEF Published, PointersOf, Archived
<1>8. OpenIsOneOfThree'
  BY <1>1, <1>2, <1>4, <1>7 DEF OpenIsOneOfThree
<1>9. CallKnows'
  BY <1>1, <1>2, <1>4, <1>7, NowCommitting DEF Committing, Authorized, Committed
<1> QED BY <1>1, <1>2, <1>5, <1>6, <1>8, <1>9, UnpublishedStep DEF IInv

\* A pointer of the new corpus, installed after the event that authorizes it.
LEMMA InstallPointerIInv ==
    ASSUME IInv, NEW at \in {"commit_memory", "commit_shadow"}, NEW p \in Pointer \ {"skill_bank"},
           NEW after \in {"commit_shadow", "commit_receipt"}, InstallPointer(at, p, after)
    PROVE  IInv'
<1> DEFINE op == call.op
<1>1. /\ UNCHANGED <<live, archive, inflight, intent, aborted, journal, ledger, commits, receipts, head, stops>>
      /\ pointer' = [pointer EXCEPT ![p] = New(op)] /\ call' = Go(after) /\ call.at = at
  BY DEF InstallPointer
<1>2. /\ op \in Operation /\ op # None /\ New(op) \in Corpus
      /\ Published(op) /\ op \in intent
      /\ Event("commit_transaction", New(op)) \in ledger
  BY <1>1, CommittingKnows DEF Committing, Authorized
<1>3. op \in inflight /\ inflight = {op} /\ op.prior # New(op)
  BY <1>2, Shape DEF IInv, OpenIsOneOfThree
<1>4. call' \in Calls /\ call'.at = after /\ call'.op = op /\ call'.left = call.left
  BY <1>1, GoLeaves DEF IInv, At
<1>5. call.left = <<>>
  BY <1>1 DEF IInv, TypeOK
<1>6. pointer' \in [Pointer -> Corpus \cup {None}]
      /\ \A q \in Pointer : pointer'[q] = pointer[q] \/ (pointer'[q] = New(op) /\ q # "skill_bank")
  BY <1>1, <1>2, Shape DEF IInv
<1>7. TypeOK'
  BY <1>1, <1>2, <1>4, <1>5, <1>6 DEF IInv, TypeOK, Calls, Archived
<1>8. OpenIsVisible'
  BY <1>1, <1>3 DEF OpenIsVisible
<1>9. Published(op)'
  BY <1>1, <1>2, <1>4, <1>6, PointerNames DEF Published, PointersOf, Archived
<1>10. \A o \in Operation : Published(o) => o = op
  BY <1>2, <1>3, OnePublished
<1>11. OpenIsOneOfThree'
  BY <1>1, <1>3, <1>4, <1>9 DEF OpenIsOneOfThree
<1>12. ReceiptsArePublished'
  BY <1>1, <1>4, <1>9, <1>10, Shape DEF IInv, ReceiptsArePublished
<1>13. JournalIsPublished'
  BY <1>1, <1>4, <1>9, <1>10 DEF IInv, JournalIsPublished
<1>14. JournalIsBehind'
  BY <1>1 DEF IInv, JournalIsBehind
<1>15. CallKnows'
  BY <1>1, <1>2, <1>4, <1>9, NowCommitting DEF Committing, Authorized, Committed
<1> QED BY <1>7, <1>8, <1>11, <1>12, <1>13, <1>14, <1>15 DEF IInv

\* The intent of a receipt leaves the open transitions.
LEMMA CloseIntentIInv ==
    ASSUME IInv, NEW op \in receipts, CloseIntent(op), CallKnows',
           UNCHANGED <<live, pointer, aborted, journal, ledger, commits, receipts, head, stops>>,
           call' \in Calls, call'.op = None <=> call'.at = "idle", call'.left = <<>>
    PROVE  IInv'
<1>1. /\ inflight' = inflight \ {op} /\ intent' = intent \ {op}
      /\ archive' = [archive EXCEPT ![op] = archive[op] \cup {"transition_intent"}]
  BY DEF CloseIntent
<1>2. op \in Operation /\ Published(op)
  BY Shape DEF IInv, ReceiptsArePublished
<1>3. archive[op] # None /\ Archived(op) = archive[op] /\ archive[op] \subseteq Label
  BY <1>2, ArchiveIsTyped DEF IInv, Published, Archived
<1>4. archive[op] \cup {"transition_intent"} \in SUBSET Label
  BY <1>3, PointerNames
<1>5. /\ archive' \in [Operation -> {None} \cup (SUBSET Label)]
      /\ archive'[op] = archive[op] \cup {"transition_intent"} /\ archive'[op] # None
      /\ \A o \in Operation \ {op} : archive'[o] = archive[o]
  BY <1>1, <1>2, <1>3, <1>4, ArchiveChanges DEF IInv
<1>6. /\ Archived(op)' = archive[op] \cup {"transition_intent"}
      /\ \A o \in Operation \ {op} : Archived(o)' = Archived(o)
  BY <1>5 DEF Archived
<1>7. inflight \subseteq {op} /\ inflight' = {} /\ intent' = {}
  BY <1>1, <1>2, Shape DEF IInv, Published
<1>8. TypeOK'
  BY <1>1, <1>5, <1>7 DEF IInv, TypeOK, Calls
<1>9. OpenIsVisible'
  BY <1>2, OperationIsTyped DEF OpenIsVisible, Published, PointersOf
<1>10. OpenIsOneOfThree'
  BY <1>7 DEF OpenIsOneOfThree
\* Any operation that published has this one's receipt or its own.
<1>11. \A o \in Operation : Published(o) => Published(o)'
  <2> SUFFICES ASSUME NEW o \in Operation, Published(o) PROVE Published(o)'
    OBVIOUS
  <2>1. o = op \/ o \notin intent
    BY <1>2, Shape DEF IInv, Published
  <2>2. /\ Archived(o) \subseteq Archived(o)'
        /\ o = op => "transition_intent" \in Archived(o)'
    BY <1>3, <1>6
  <2> QED BY <1>7, <2>1, <2>2 DEF Published, PointersOf
<1>12. ReceiptsArePublished' /\ JournalIsPublished'
  BY <1>11, Shape DEF IInv, ReceiptsArePublished, JournalIsPublished
<1>13. JournalIsBehind'
  BY DEF IInv, JournalIsBehind
<1> QED BY <1>8, <1>9, <1>10, <1>12, <1>13 DEF IInv

LEMMA SealTransitionIInv ==
    ASSUME IInv, SealTransition
    PROVE  IInv'
<1> DEFINE op == call.op
<1>1. /\ UNCHANGED <<live, pointer, aborted, journal, ledger, commits, receipts, head, stops>>
      /\ CloseIntent(op) /\ call' = Go("ReceiptSealed") /\ call.at = "seal"
  BY DEF SealTransition
<1>2. op \in receipts /\ op \in Operation /\ op # None /\ call.left = <<>>
  BY <1>1, Shape, OperationIsTyped DEF IInv, CallKnows, Sealing, TypeOK
<1>3. call' \in Calls /\ call'.at = "ReceiptSealed" /\ call'.op = op /\ call'.left = <<>>
  BY <1>1, <1>2, PhaseNames, GoLeaves DEF IInv, At
<1>4. CallKnows'
  BY <1>1, <1>2, <1>3, NowSealing DEF Sealing
<1> QED BY <1>1, <1>2, <1>3, <1>4, CloseIntentIInv

LEMMA CloseVerifiedIInv ==
    ASSUME IInv, CloseVerified
    PROVE  IInv'
<1> DEFINE op == call.op
<1>1. /\ UNCHANGED <<live, pointer, aborted, journal, ledger, commits, receipts, head, stops>>
      /\ CloseIntent(op) /\ call.at = "close"
      /\ call' = Go("clear_head") \/ call' = Idle
  BY DEF CloseVerified
<1>2. op \in receipts /\ op \in Operation /\ op # None /\ call.left = <<>>
  BY <1>1, Shape, OperationIsTyped DEF IInv, CallKnows, Sealing, TypeOK
<1>3. /\ call' \in Calls /\ call'.left = <<>> /\ call'.at \in {"clear_head", "idle"}
      /\ (call'.op = None) <=> (call'.at = "idle")
  BY <1>1, <1>2, IdleCall, GoLeaves DEF IInv, At
<1>4. CallKnows'
  BY <1>3, NowElsewhere
<1> QED BY <1>1, <1>2, <1>3, <1>4, CloseIntentIInv

-----------------------------------------------------------------------------
(* The steps of a recovery. *)

\* What a recovery that puts the prior corpus back knows.
LEMMA RestoringKnows ==
    ASSUME IInv, call.at \in Restoring
    PROVE  LET op == call.op IN
           /\ op \in Operation /\ op # None /\ op.prior \in Corpus /\ op.prior # None
           /\ PriorLive(op) /\ op \in intent
           /\ inflight = {op} /\ op.prior # New(op)
           /\ receipts = {}
           /\ \A o \in Operation :
                  journal[o] \notin {"NewCorpusPublished", "CommitSealed", "ReceiptSealed"}
<1>1. call.op \in Operation /\ CallKnows
  BY Shape DEF IInv, Restoring
<1>2. PriorLive(call.op) /\ call.op \in intent
  BY <1>1 DEF CallKnows
<1>3. inflight = {call.op} /\ call.op.prior # New(call.op)
  BY <1>2, Shape DEF IInv, OpenIsOneOfThree
<1> QED BY <1>1, <1>2, <1>3, OperationIsTyped, NothingPublished

LEMMA RestoreCorpusIInv ==
    ASSUME IInv, RestoreCorpus
    PROVE  IInv'
<1> DEFINE op == call.op
           names == archive[op] \ {"observations"}
<1>1. /\ UNCHANGED <<pointer, inflight, intent, aborted, journal, ledger, commits, receipts, head, stops>>
      /\ live' = op.prior /\ archive' = [archive EXCEPT ![op] = names]
      /\ call' = [Go("restore_pointers") EXCEPT !.left = PointerOrder] /\ call.at = "restore"
  BY DEF RestoreCorpus
<1>2. op \in Operation /\ op # None /\ op.prior \in Corpus /\ Retired(op) /\ op \in intent
  BY <1>1, Shape, OperationIsTyped DEF IInv, CallKnows
<1>3. inflight = {op} /\ op.prior # New(op)
  BY <1>2, Shape DEF IInv, OpenIsOneOfThree
<1>4. /\ receipts = {}
      /\ \A o \in Operation :
             journal[o] \notin {"NewCorpusPublished", "CommitSealed", "ReceiptSealed"}
  BY <1>1, NothingPublished
<1>5. /\ archive[op] # None /\ Archived(op) = archive[op] /\ archive[op] \subseteq Label
  BY <1>2, ArchiveIsTyped DEF IInv, Retired, Archived
<1>6. names \in SUBSET Label
  BY <1>5
<1>7. /\ archive' \in [Operation -> {None} \cup (SUBSET Label)]
      /\ archive'[op] = names /\ archive'[op] # None
      /\ \A o \in Operation \ {op} : archive'[o] = archive[o]
  BY <1>1, <1>2, <1>5, <1>6, ArchiveChanges DEF IInv
<1>8. /\ call' \in Calls /\ call'.at = "restore_pointers" /\ call'.op = op
      /\ call'.left = PointerOrder /\ call'.left # <<>>
  <2>1. /\ Go("restore_pointers") \in Calls /\ Go("restore_pointers").at = "restore_pointers"
        /\ Go("restore_pointers").op = op
    BY GoLeaves DEF IInv, At
  <2> QED BY <1>1, <2>1, PointerSequence DEF Calls
<1>9. Archived(op)' = archive[op] \ {"observations"}
  BY <1>7, <1>8 DEF Archived
<1>10. TypeOK'
  BY <1>1, <1>2, <1>3, <1>5, <1>7, <1>8, <1>9 DEF IInv, TypeOK, Calls
<1>11. OpenIsVisible'
  BY <1>1, <1>3 DEF OpenIsVisible
<1>12. PriorLive(op)'
  <2>1. \A p \in Required : pointer[p] = op.prior \/ p \in archive'[op]
    BY <1>2, <1>5, <1>7, PointerNames DEF Retired, Kept
  <2> QED BY <1>1, <1>2, <1>7, <1>8, <1>9, <2>1 DEF PriorLive, Retired, PointersOf, Kept
<1>13. OpenIsOneOfThree'
  BY <1>1, <1>3, <1>8, <1>12 DEF OpenIsOneOfThree
<1>14. CallKnows'
  BY <1>1, <1>2, <1>7, <1>8, <1>12, NowRestoring DEF Restoring
<1> QED BY <1>1, <1>4, <1>10, <1>11, <1>13, <1>14, UnpublishedStep DEF IInv

LEMMA RestorePointerIInv ==
    ASSUME IInv, RestorePointer
    PROVE  IInv'
<1> DEFINE op == call.op
           p == Head(call.left)
<1>1. /\ UNCHANGED <<live, inflight, intent, aborted, journal, ledger, commits, receipts, head, stops>>
      /\ call.at \in {"restore_pointers", "restore_unlink"} /\ call.at \in Restoring
  BY DEF RestorePointer, Restoring
<1>2. /\ op \in Operation /\ op # None /\ op.prior \in Corpus /\ op.prior # None
      /\ PriorLive(op) /\ op \in intent
      /\ inflight = {op} /\ op.prior # New(op)
      /\ receipts = {}
      /\ \A o \in Operation :
             journal[o] \notin {"NewCorpusPublished", "CommitSealed", "ReceiptSealed"}
  BY <1>1, RestoringKnows
<1>3. /\ call.left # <<>> /\ archive[op] # None
      /\ call.at = "restore_unlink" => pointer[p] = op.prior
  BY <1>1 DEF IInv, CallKnows
<1>4. /\ p \in Pointer
      /\ NextPointer("abort") \in Calls /\ NextPointer("abort").op = op
      /\ NextPointer("abort").left = Tail(call.left)
      /\ NextPointer("abort").at = IF Tail(call.left) = <<>> THEN "abort" ELSE call.at
  BY <1>3, NextPointerLeaves DEF IInv, At
<1>5. /\ Go("restore_unlink") \in Calls /\ Go("restore_unlink").at = "restore_unlink"
      /\ Go("restore_unlink").op = op /\ Go("restore_unlink").left = call.left
  BY GoLeaves DEF IInv, At
<1>6. /\ pointer \in [Pointer -> Corpus \cup {None}]
      /\ archive \in [Operation -> {None} \cup (SUBSET Label)] /\ call \in Calls
      /\ "transition_intent" \notin Archived(op) /\ Archived(op) \subseteq Label
  BY <1>2, Shape, ArchiveIsTyped DEF IInv, TypeOK
<1>7. \/ /\ UNCHANGED <<pointer, archive>> /\ call.at = "restore_pointers"
         /\ call' = NextPointer("abort") \/ call' = Idle
      \/ /\ pointer' = [pointer EXCEPT ![p] = op.prior] /\ UNCHANGED archive
         /\ call' = Go("restore_unlink")
      \/ /\ call.at = "restore_unlink" /\ UNCHANGED pointer
         /\ archive' = [archive EXCEPT ![op] = archive[op] \ {p}]
         /\ call' = [NextPointer("abort") EXCEPT !.at = IF @ = "abort" THEN @ ELSE "restore_pointers"]
  BY DEF RestorePointer
<1> HIDE DEF p
<1>8. /\ call' \in Calls
      /\ \/ call' = Idle
         \/ /\ call'.op = op
            /\ \/ call'.at = "restore_pointers" /\ call'.left # <<>>
               \/ call'.at = "restore_unlink" /\ call'.left = call.left /\ pointer'[p] = op.prior
               \/ call'.at = "abort" /\ call'.left = <<>>
  <2>1. CASE call' = Idle
    BY <2>1, IdleCall
  <2>2. CASE call' = NextPointer("abort") /\ call.at = "restore_pointers"
    BY <1>4, <2>2
  <2>3. CASE pointer' = [pointer EXCEPT ![p] = op.prior] /\ call' = Go("restore_unlink")
    BY <1>4, <1>5, <1>6, <2>3
  <2>4. CASE /\ call.at = "restore_unlink"
             /\ call' = [NextPointer("abort") EXCEPT !.at = IF @ = "abort" THEN @ ELSE "restore_pointers"]
    BY <1>4, <2>4 DEF Calls, At
  <2> QED BY <1>7, <2>1, <2>2, <2>3, <2>4
<1>9. /\ pointer' \in [Pointer -> Corpus \cup {None}]
      /\ \A q \in Pointer : pointer'[q] = pointer[q] \/ pointer'[q] = op.prior
  BY <1>2, <1>4, <1>6, <1>7
\* A name leaves the archive when its pointer is live.
<1>10. /\ archive' \in [Operation -> {None} \cup (SUBSET Label)]
       /\ archive'[op] # None
       /\ \/ archive'[op] = archive[op]
          \/ archive'[op] = archive[op] \ {p} /\ pointer'[p] = op.prior
  <2>1. CASE UNCHANGED archive
    BY <1>3, <1>6, <2>1
  <2>2. CASE archive' = [archive EXCEPT ![op] = archive[op] \ {p}] /\ pointer'[p] = op.prior
    <3>1. archive[op] \ {p} \in SUBSET Label
      BY <1>3, <1>6 DEF Archived
    <3> QED BY <1>2, <1>3, <2>2, <3>1, ArchiveChanges DEF IInv
  <2> QED BY <1>3, <1>7, <2>1, <2>2
<1>11. /\ archive'[op] \subseteq archive[op] /\ Archived(op) = archive[op]
       /\ \A q \in archive[op] \ archive'[op] : pointer'[q] = op.prior
  BY <1>3, <1>10 DEF Archived
<1>13. TypeOK'
  <2>1. \A o \in inflight' : "transition_intent" \notin (IF archive'[o] = None THEN {} ELSE archive'[o])
    BY <1>1, <1>2, <1>6, <1>10, <1>11
  <2>2. /\ (call'.op = None) <=> (call'.at = "idle")
        /\ call'.left # <<>> => call'.at \in {"restore_pointers", "restore_unlink"}
    BY <1>2, <1>8, IdleCall
  <2> QED BY <1>1, <1>8, <1>9, <1>10, <2>1, <2>2 DEF IInv, TypeOK, Calls, Archived
<1>14. OpenIsVisible'
  BY <1>1, <1>2 DEF OpenIsVisible
<1>15. /\ live' = op.prior /\ "observations" \notin archive'[op] /\ archive'[op] # None
       /\ \A q \in Pointer : pointer'[q] \in {op.prior, None}
       /\ \A q \in Required : pointer'[q] = op.prior \/ q \in archive'[op]
  <2>1. live = op.prior /\ "observations" \notin archive[op] /\ PointersOf(op.prior) /\ Kept(op)
    BY <1>2, <1>11 DEF PriorLive
  <2>2. \A q \in Pointer : pointer'[q] \in {op.prior, None}
    BY <1>9, <2>1 DEF PointersOf
  <2>3. \A q \in Required : pointer'[q] = op.prior \/ q \in archive'[op]
    <3> SUFFICES ASSUME NEW q \in Required PROVE pointer'[q] = op.prior \/ q \in archive'[op]
      OBVIOUS
    <3>1. q \in Pointer /\ (pointer[q] = op.prior \/ q \in archive[op])
      BY <1>11, <2>1, PointerNames DEF Kept
    <3> QED BY <1>9, <1>11, <3>1
  <2> QED BY <1>1, <1>10, <1>11, <2>1, <2>2, <2>3
<1>16. OpenIsOneOfThree'
  BY <1>1, <1>2, <1>15 DEF OpenIsOneOfThree, PriorLive, PointersOf, Kept, Archived
<1>17. CallKnows'
  <2>1. CASE call' = Idle
    BY <2>1, IdleCall, NowElsewhere
  <2>2. CASE call' # Idle
    <3>1. call'.op = op /\ call'.at \in Restoring
      BY <1>8, <2>2 DEF Restoring
    <3>2. PriorLive(call.op)'
      BY <1>15, <3>1 DEF PriorLive, PointersOf, Kept, Archived
    <3>3. /\ call'.at \in {"restore_pointers", "restore_unlink"} => call'.left # <<>> /\ archive'[op] # None
          /\ call'.at = "restore_unlink" => pointer'[Head(call'.left)] = op.prior
      BY <1>3, <1>8, <1>10, <2>2 DEF p
    <3> HIDE DEF op
    <3> QED BY <1>1, <1>2, <1>8, <3>1, <3>2, <3>3, NowRestoring
  <2> QED BY <2>1, <2>2
<1> QED BY <1>1, <1>2, <1>13, <1>14, <1>16, <1>17, UnpublishedStep DEF IInv

LEMMA AbortIntentIInv ==
    ASSUME IInv, AbortIntent
    PROVE  IInv'
<1> DEFINE op == call.op
<1>1. /\ UNCHANGED <<live, pointer, archive, journal, ledger, commits, receipts, head, stops>>
      /\ call.at = "abort" /\ call.at \in Restoring
  BY DEF AbortIntent, Restoring
<1>2. /\ op \in Operation /\ op # None /\ op.prior # None
      /\ PriorLive(op) /\ op \in intent /\ inflight = {op} /\ receipts = {}
      /\ \A o \in Operation :
             journal[o] \notin {"NewCorpusPublished", "CommitSealed", "ReceiptSealed"}
  BY <1>1, RestoringKnows
<1>3. call.left = <<>>
  BY <1>1 DEF IInv, TypeOK
<1>4. CASE op \in aborted
  <2>1. call' = Idle /\ UNCHANGED <<inflight, intent, aborted>>
    BY <1>4 DEF AbortIntent
  <2>2. UNCHANGED store /\ stops' \in 0..MaxStops
    BY <1>1, <2>1 DEF store, IInv, TypeOK
  <2>3. CallKnows'
    BY <2>1, IdleCall, NowElsewhere
  <2> QED BY <2>1, <2>2, <2>3, IdleCall, CallChanges
<1>5. CASE op \notin aborted
  <2>1. /\ inflight' = inflight \ {op} /\ intent' = intent \ {op}
        /\ aborted' = aborted \cup {op} /\ call' = Go("clear_head")
    BY <1>5 DEF AbortIntent
  <2>2. inflight' = {} /\ intent' = {}
    BY <1>2, <2>1, Shape DEF IInv
  <2>3. /\ call' \in Calls /\ call'.at = "clear_head" /\ call'.op = op /\ call'.left = <<>>
    BY <1>3, <2>1, GoLeaves DEF IInv, At
  <2>4. TypeOK'
    BY <1>1, <1>2, <2>1, <2>2, <2>3 DEF IInv, TypeOK, Calls
  <2>5. OpenIsVisible'
    BY <1>1, <1>2 DEF OpenIsVisible, PriorLive, PointersOf
  <2>6. OpenIsOneOfThree'
    BY <2>2 DEF OpenIsOneOfThree
  <2>7. CallKnows'
    BY <2>3, NowElsewhere
  <2> QED BY <1>1, <1>2, <2>4, <2>5, <2>6, <2>7, UnpublishedStep DEF IInv
<1> QED BY <1>4, <1>5

-----------------------------------------------------------------------------
(* Every state and every step. *)

LEMMA InitIInv == Init => IInv
<1> SUFFICES ASSUME Init PROVE IInv
  OBVIOUS
<1>1. /\ live = Initial /\ Initial \in Corpus /\ None \notin Corpus
      /\ inflight = {} /\ intent = {} /\ aborted = {}
      /\ ledger = {} /\ commits = {} /\ receipts = {} /\ stops = 0 /\ call = Idle
  BY CorpusTransitionAssumption DEF Init
<1>2. \A op \in Operation : archive[op] = None /\ journal[op] = None
  BY DEF Init
<1>3. /\ pointer \in [Pointer -> Corpus \cup {None}]
      /\ \A p \in Pointer : pointer[p] \in {live, None}
  BY <1>1 DEF Init
<1>4. /\ archive \in [Operation -> {None} \cup (SUBSET Label)]
      /\ journal \in [Operation -> {Phase[n] : n \in 1..Len(Phase)} \cup {None}]
      /\ head \in [corpus : Corpus \cup {None}, pointers : [Required -> Corpus \cup {None}],
                   incomplete : Operation \cup {None}]
  BY <1>1 DEF Init
<1>5. TypeOK
  BY <1>1, <1>3, <1>4, IdleCall, CorpusTransitionAssumption DEF TypeOK, Calls
<1>6. OpenIsVisible
  BY <1>1, <1>3 DEF OpenIsVisible
<1>7. JournalIsBehind /\ JournalIsPublished
  <2>1. None \notin {"NewCorpusPublished", "CommitSealed", "ReceiptSealed"}
    BY PhaseNames, NoneIsNoFile
  <2> QED BY <1>2, <2>1 DEF JournalIsBehind, JournalIsPublished
<1>8. OpenIsOneOfThree /\ ReceiptsArePublished
  BY <1>1 DEF OpenIsOneOfThree, ReceiptsArePublished
<1>9. CallKnows
  BY <1>1, IdleCall
     DEF CallKnows, Preparing, Moving, Moved, Committing, Authorized, Committed, Sealing, Restoring
<1> QED BY <1>5, <1>6, <1>7, <1>8, <1>9 DEF IInv

LEMMA StutterIInv ==
    ASSUME IInv, UNCHANGED vars
    PROVE  IInv'
<1>1. UNCHANGED <<live, pointer, archive, inflight, intent, aborted, journal, ledger, commits, receipts,
                  head, call, stops>>
  BY DEF vars, store
<1>2. TypeOK'
  BY <1>1 DEF IInv, TypeOK, Archived
<1>3. CallKnows'
  BY <1>1 DEF IInv, CallKnows, Retired, PriorLive, Published, PointersOf, Kept, Archived
<1> QED BY <1>1, <1>2, <1>3, QuietStep DEF Files

LEMMA NextIInv ==
    ASSUME IInv, [Next]_vars
    PROVE  IInv'
<1>1. ASSUME NEW input \in Input, Finalize(input) \/ Replay(input) PROVE IInv'
  BY <1>1, FinalizeIInv, ReplayIInv
<1>2. CASE OpenIntent \/ WriteIntent \/ WriteJournal \/ SetHead \/ MakeArchive \/ RetireCorpus
  BY <1>2, OpenIntentIInv, WriteIntentIInv, WriteJournalIInv, SetHeadIInv, MakeArchiveIInv, RetireCorpusIInv
<1>3. CASE WriteManifest \/ ArchivePointer \/ PublishCorpus \/ CommitEvent \/ WriteCommit \/ KeepHead
  BY <1>3, WriteManifestIInv, ArchivePointerIInv, PublishCorpusIInv, CommitEventIInv, WriteCommitIInv,
     KeepHeadIInv
<1>4. CASE InstallMemory \/ InstallShadow
  <2>1. {"memory_current", "shadow_skill_bank"} \subseteq Pointer \ {"skill_bank"}
    BY PointerNames
  <2> QED BY <1>4, <2>1, InstallPointerIInv DEF InstallMemory, InstallShadow
<1>5. CASE TransitionEvent \/ WriteReceipt \/ SealTransition \/ ClearHead \/ CloseVerified
  BY <1>5, TransitionEventIInv, WriteReceiptIInv, SealTransitionIInv, ClearHeadIInv, CloseVerifiedIInv
<1>6. CASE RestoreCorpus \/ RestorePointer \/ AbortIntent \/ Recover \/ Stop
  BY <1>6, RestoreCorpusIInv, RestorePointerIInv, AbortIntentIInv, RecoverIInv, StopIInv
<1>7. CASE UNCHANGED vars
  BY <1>7, StutterIInv
<1> QED BY <1>1, <1>2, <1>3, <1>4, <1>5, <1>6, <1>7 DEF Next, Step

\* The files of the store, the journal and the call that holds the engine's
\* authority lock agree in every reachable state, whatever stopped and where.
THEOREM Invariance == Spec => []IInv
<1>1. Init => IInv
  BY InitIInv
<1>2. IInv /\ [Next]_vars => IInv'
  BY NextIInv
<1> QED BY <1>1, <1>2, PTL DEF Spec

\* While no transition is open the store holds one whole corpus, and a phase of
\* write_transition_journal is only read when what it names is on disk.
THEOREM TransitionStaysVisible == Spec => []TransitionIsVisible
<1>1. IInv => TransitionIsVisible
  BY DEF IInv, TransitionIsVisible
<1> QED BY <1>1, Invariance, PTL

\* No stop during the archival of the prior corpus, or during
\* restore_archived_prior_corpus, loses a file of it.
THEOREM PriorStaysKept == Spec => []PriorIsKept
<1>1. IInv => PriorIsKept
  <2> SUFFICES ASSUME IInv, NEW op \in inflight \cup receipts
               PROVE  /\ live = op.prior \/ "observations" \in Archived(op)
                      /\ \A p \in Required : \/ pointer[p] = op.prior
                                             \/ \E o \in Operation : o.prior = op.prior /\ p \in Archived(o)
    BY DEF PriorIsKept
  <2>1. op \in Operation
    BY Shape DEF IInv
  <2>2. PriorLive(op) \/ Retired(op) \/ Published(op)
    BY DEF IInv, OpenIsOneOfThree, ReceiptsArePublished
  <2>3. live = op.prior \/ "observations" \in Archived(op)
    BY <2>2 DEF PriorLive, Retired, Published
  <2>4. \A p \in Required : pointer[p] = op.prior \/ p \in Archived(op)
    BY <2>2 DEF PriorLive, Retired, Published, Kept
  <2> QED BY <2>1, <2>3, <2>4
<1> QED BY <1>1, Invariance, PTL

\* load_verified_learning_finalization_receipt_under_root accepts every receipt
\* from the moment it is written, so the recovery can close its transition.
THEOREM ReceiptsStayAuthentic == Spec => []ReceiptsAuthenticate
<1>1. IInv => ReceiptsAuthenticate
  <2> SUFFICES ASSUME IInv, NEW op \in receipts PROVE Authentic(op)
    BY DEF ReceiptsAuthenticate
  <2>1. /\ Published(op) /\ New(op) \in commits
        /\ Event("commit_transaction", New(op)) \in ledger
        /\ Event("learning_corpus_transition", op) \in ledger
    BY DEF IInv, ReceiptsArePublished
  <2>2. IF op \in inflight THEN op \in intent ELSE "transition_intent" \in Archived(op)
    BY <2>1 DEF IInv, TypeOK, Published
  <2> QED BY <2>1, <2>2 DEF Authentic, Published
<1> QED BY <1>1, Invariance, PTL
=============================================================================
