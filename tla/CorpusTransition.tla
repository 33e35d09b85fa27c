-------------------------- MODULE CorpusTransition --------------------------
(***************************************************************************)
(* The replacement of the engine's active corpus by the corpus of a        *)
(* finalized learning session, and the recovery of an interrupted          *)
(* replacement.  Both run under the engine's authority lock, so one call   *)
(* is in progress at a time; what makes them hard is that a call may stop  *)
(* between any two changes of the files, by the death of its process or by *)
(* an error, and that the next call finds only the files.                  *)
(*                                                                         *)
(* A corpus stands for its observation set digest.  An artifact is         *)
(* identified by the corpus it was derived from.  Contents, digests and    *)
(* the analysis of the observations are left out: an input is one whose    *)
(* reconstruction is promotable, and every corpus but those published here *)
(* has been put to sleep and revoked.                                      *)
(***************************************************************************)
EXTENDS Naturals, Sequences, FiniteSets

CONSTANTS
    Corpus,       \* observation set digests
    Input,        \* verified finalization inputs
    Target,       \* the corpus that each input carries
    Initial,      \* the revoked corpus the store starts with
    MaxStops,     \* bound: how many calls stop half-way
    None

ASSUME CorpusTransitionAssumption ==
    /\ Target \in [Input -> Corpus]
    /\ Initial \in Corpus
    /\ None \notin Corpus \cup [input : Input, prior : Corpus]
    /\ MaxStops \in Nat

VARIABLES
    live,       \* the corpus in state/observations, None without the directory
    pointer,    \* the live pointer files, by the corpus they belong to
    archive,    \* by-operation/<key>: the names in it, None without the directory
    inflight,   \* the directories in corpus_transitions/inflight
    intent,     \* those of them that hold intent.json
    aborted,    \* the directories in corpus_transitions/aborted
    journal,    \* the phase in the journal of each operation
    ledger,     \* the events the two transactions append
    commits,    \* the corpora with a commit receipt
    receipts,   \* the operations with a finalization receipt
    head,       \* the canonical engine head
    call,       \* the call that holds the authority lock
    stops       \* how many calls have stopped half-way

store == <<live, pointer, archive, inflight, intent, aborted, journal, ledger, commits, receipts, head>>
vars == <<store, call, stops>>

\* The live pointers in the order in which they are archived and restored.
PointerOrder == <<"skill_bank", "shadow_skill_bank", "memory_current", "sleep_state",
                  "sleep_evidence_current">>
Pointer == {PointerOrder[n] : n \in 1..Len(PointerOrder)}
\* A revoked runtime has all of them, but for the shadow bank.
Required == Pointer \ {"shadow_skill_bank"}
Label == Pointer \cup {"observations", "observations_manifest", "transition_intent"}

Phase == <<"IntentRecorded", "PriorArchived", "NewCorpusStaged", "NewCorpusPublished",
           "CommitSealed", "ReceiptSealed">>

ASSUME NoneIsNoFile ==
    /\ \A names \in SUBSET Label : names # None
    /\ \A n \in 1..Len(Phase) : Phase[n] # None

\* The operation key binds the input, the prior corpus and the new one.
Operation == [input : Input, prior : Corpus]
New(op) == Target[op.input]

Event(kind, of) == [kind |-> kind, of |-> of]
Archived(op) == IF archive[op] = None THEN {} ELSE archive[op]

\* What the head names: the live pointers, and the transition it believes open.
Snapshot(incomplete) ==
    [corpus |-> live, pointers |-> [p \in Required |-> pointer[p]], incomplete |-> incomplete]
HeadVerifies == \E o \in Operation \cup {None} :
    /\ head = Snapshot(o)
    /\ IF o = None THEN inflight = {} ELSE inflight = {o}

Idle == [at |-> "idle", op |-> None, left |-> <<>>, recovery |-> FALSE]
Go(at) == [call EXCEPT !.at = at]
\* The next pointer of a loop over them, and what follows the last.
NextPointer(after) ==
    [call EXCEPT !.left = Tail(@), !.at = IF Len(call.left) = 1 THEN after ELSE @]

Init ==
    /\ live = Initial
    /\ \E shadow \in {Initial, None} :
           pointer = [p \in Pointer |-> IF p = "shadow_skill_bank" THEN shadow ELSE Initial]
    /\ archive = [op \in Operation |-> None]
    /\ inflight = {} /\ intent = {} /\ aborted = {}
    /\ journal = [op \in Operation |-> None]
    /\ ledger = {} /\ commits = {} /\ receipts = {}
    /\ head = [corpus |-> Initial, pointers |-> [p \in Required |-> Initial], incomplete |-> None]
    /\ call = Idle
    /\ stops = 0

(***************************************************************************)
(* commit_finalized_learning_session.                                      *)
(***************************************************************************)

\* runtime_integrity_health of a revoked prior: the head verifies, no
\* transition is open, and every pointer belongs to the live corpus.
RevokedAndHealthy ==
    /\ HeadVerifies
    /\ inflight = {}
    /\ \A p \in Required : pointer[p] = live

\* A call that is refused, or answered from a receipt whose intent is already
\* closed, changes nothing and is no step of the model.
Finalize(input) ==
    LET op == [input |-> input, prior |-> live] IN
    /\ call.at = "idle"
    /\ ~ \E o \in receipts : o.input = input
    /\ inflight = {}
    /\ live # None /\ live # Target[input]
    /\ RevokedAndHealthy
    /\ archive[op] = None
    /\ call' = [at |-> "open", op |-> op, left |-> PointerOrder, recovery |-> FALSE]
    /\ UNCHANGED <<store, stops>>

\* The same input after its receipt was written: the intent is closed first.
Replay(input) ==
    /\ call.at = "idle"
    /\ \E op \in receipts :
           /\ op.input = input /\ op \in inflight
           /\ call' = [at |-> "close", op |-> op, left |-> <<>>, recovery |-> FALSE]
    /\ UNCHANGED <<store, stops>>

OpenIntent ==
    /\ call.at = "open"
    /\ inflight' = inflight \cup {call.op}
    /\ call' = Go("intent")
    /\ UNCHANGED <<live, pointer, archive, intent, aborted, journal, ledger, commits, receipts, head, stops>>

WriteIntent ==
    /\ call.at = "intent"
    /\ intent' = intent \cup {call.op}
    /\ call' = Go("IntentRecorded")
    /\ UNCHANGED <<live, pointer, archive, inflight, aborted, journal, ledger, commits, receipts, head, stops>>

\* Variant: the receipt is written without the event of the transition.
AfterPhaseUnrecorded ==
    [IntentRecorded |-> "set_head", PriorArchived |-> "NewCorpusStaged", NewCorpusStaged |-> "publish",
     NewCorpusPublished |-> "commit_event", CommitSealed |-> "receipt",
     ReceiptSealed |-> "clear_head"]
\* Where the call continues after each phase of the journal.
AfterPhase ==
    [IntentRecorded |-> "set_head", PriorArchived |-> "NewCorpusStaged", NewCorpusStaged |-> "publish",
     NewCorpusPublished |-> "commit_event", CommitSealed |-> "transition_event",
     ReceiptSealed |-> "clear_head"]

\* Variant: the phase is recorded before the corpus is published.
WriteJournalEarly ==
    /\ call.at \in DOMAIN AfterPhase
    /\ journal' = [journal EXCEPT ![call.op] =
           IF call.at = "NewCorpusStaged" THEN "NewCorpusPublished" ELSE call.at]
    /\ call' = Go(AfterPhase[call.at])
    /\ UNCHANGED <<live, pointer, archive, inflight, intent, aborted, ledger, commits, receipts, head, stops>>
\* write_transition_journal.
WriteJournal ==
    /\ call.at \in DOMAIN AfterPhase
    /\ journal' = [journal EXCEPT ![call.op] = call.at]
    /\ call' = Go(AfterPhase[call.at])
    /\ UNCHANGED <<live, pointer, archive, inflight, intent, aborted, ledger, commits, receipts, head, stops>>

SetHead ==
    /\ call.at = "set_head"
    /\ head' = Snapshot(call.op)
    /\ call' = Go("archive_dir")
    /\ UNCHANGED <<live, pointer, archive, inflight, intent, aborted, journal, ledger, commits, receipts, stops>>

MakeArchive ==
    /\ call.at = "archive_dir"
    /\ archive' = [archive EXCEPT ![call.op] = {}]
    /\ call' = Go("retire")
    /\ UNCHANGED <<live, pointer, inflight, intent, aborted, journal, ledger, commits, receipts, head, stops>>

\* One rename of the directory.
RetireCorpus ==
    /\ call.at = "retire"
    /\ live' = None
    /\ archive' = [archive EXCEPT ![call.op] = @ \cup {"observations"}]
    /\ call' = Go("manifest")
    /\ UNCHANGED <<pointer, inflight, intent, aborted, journal, ledger, commits, receipts, head, stops>>

WriteManifest ==
    /\ call.at = "manifest"
    /\ archive' = [archive EXCEPT ![call.op] = @ \cup {"observations_manifest"}]
    /\ call' = Go("archive")
    /\ UNCHANGED <<live, pointer, inflight, intent, aborted, journal, ledger, commits, receipts, head, stops>>

\* Variant: the old name is removed before the new one is there.
ArchivePointerRemovedFirst ==
    /\ call.at = "archive"
    /\ LET p == Head(call.left) IN
       \/ /\ pointer[p] = None
          /\ archive' = [archive EXCEPT ![call.op] = @ \cup {p}]
          /\ call' = NextPointer("PriorArchived")
          /\ UNCHANGED pointer
       \/ /\ pointer[p] # None
          /\ pointer' = [pointer EXCEPT ![p] = None]
          /\ UNCHANGED <<archive, call>>
    /\ UNCHANGED <<live, inflight, intent, aborted, journal, ledger, commits, receipts, head, stops>>
\* A file is moved by a link at its new name and the removal of the old one;
\* an absent shadow bank is passed over.  No required pointer is absent: it
\* was there when the call began, and the call holds the lock.
ArchivePointer ==
    /\ call.at = "archive"
    /\ LET p == Head(call.left) IN
       \/ /\ pointer[p] = None
          /\ call' = NextPointer("PriorArchived")
          /\ UNCHANGED <<pointer, archive>>
       \/ /\ pointer[p] # None /\ p \notin archive[call.op]
          /\ archive' = [archive EXCEPT ![call.op] = @ \cup {p}]
          /\ UNCHANGED <<pointer, call>>
       \/ /\ pointer[p] # None /\ p \in archive[call.op]
          /\ pointer' = [pointer EXCEPT ![p] = None]
          /\ call' = NextPointer("PriorArchived")
          /\ UNCHANGED archive
    /\ UNCHANGED <<live, inflight, intent, aborted, journal, ledger, commits, receipts, head, stops>>

\* persist_observations with no live directory: the staged directory is
\* complete before one rename makes it live.
PublishCorpus ==
    /\ call.at = "publish"
    /\ live' = New(call.op)
    /\ call' = Go("NewCorpusPublished")
    /\ UNCHANGED <<pointer, archive, inflight, intent, aborted, journal, ledger, commits, receipts, head, stops>>

\* commit_after_verified_corpus_transition: the event authorizes the pointers,
\* the receipt follows them.  Its own resumption of an interrupted commit is
\* left out: see the module's README entry.
CommitEvent ==
    /\ call.at = "commit_event"
    /\ pointer["shadow_skill_bank"] = None
    /\ ledger' = ledger \cup {Event("commit_transaction", New(call.op))}
    /\ call' = Go("commit_memory")
    /\ UNCHANGED <<live, pointer, archive, inflight, intent, aborted, journal, commits, receipts, head, stops>>

InstallPointer(at, p, after) ==
    /\ call.at = at
    /\ pointer' = [pointer EXCEPT ![p] = New(call.op)]
    /\ call' = Go(after)
    /\ UNCHANGED <<live, archive, inflight, intent, aborted, journal, ledger, commits, receipts, head, stops>>
InstallMemory == InstallPointer("commit_memory", "memory_current", "commit_shadow")
InstallShadow == InstallPointer("commit_shadow", "shadow_skill_bank", "commit_receipt")

WriteCommit ==
    /\ call.at = "commit_receipt"
    /\ commits' = commits \cup {New(call.op)}
    /\ call' = Go("keep_head")
    /\ UNCHANGED <<live, pointer, archive, inflight, intent, aborted, journal, ledger, receipts, head, stops>>

KeepHead ==
    /\ call.at = "keep_head"
    /\ head' = Snapshot(head.incomplete)
    /\ call' = Go("CommitSealed")
    /\ UNCHANGED <<live, pointer, archive, inflight, intent, aborted, journal, ledger, commits, receipts, stops>>

TransitionEvent ==
    /\ call.at = "transition_event"
    /\ ledger' = ledger \cup {Event("learning_corpus_transition", call.op)}
    /\ call' = Go("receipt")
    /\ UNCHANGED <<live, pointer, archive, inflight, intent, aborted, journal, commits, receipts, head, stops>>

WriteReceipt ==
    /\ call.at = "receipt"
    /\ receipts' = receipts \cup {call.op}
    /\ call' = Go("seal")
    /\ UNCHANGED <<live, pointer, archive, inflight, intent, aborted, journal, ledger, commits, head, stops>>

\* Variant: the directory is listed as moved, its file stays.
CloseIntentKeepsFile(op) ==
    /\ inflight' = inflight \ {op}
    /\ intent' = intent
    /\ archive' = [archive EXCEPT ![op] = @ \cup {"transition_intent"}]
\* The intent leaves inflight for the archive of its operation.
CloseIntent(op) ==
    /\ inflight' = inflight \ {op}
    /\ intent' = intent \ {op}
    /\ archive' = [archive EXCEPT ![op] = @ \cup {"transition_intent"}]

SealTransition ==
    /\ call.at = "seal"
    /\ CloseIntent(call.op)
    /\ call' = Go("ReceiptSealed")
    /\ UNCHANGED <<live, pointer, aborted, journal, ledger, commits, receipts, head, stops>>

ClearHead ==
    /\ call.at = "clear_head"
    /\ head' = Snapshot(None)
    /\ call' = Idle
    /\ UNCHANGED <<live, pointer, archive, inflight, intent, aborted, journal, ledger, commits, receipts, stops>>

\* load_verified_learning_finalization_receipt_under_root.
Authentic(op) ==
    /\ live = New(op)
    /\ New(op) \in commits
    /\ Event("commit_transaction", New(op)) \in ledger
    /\ Event("learning_corpus_transition", op) \in ledger
    /\ Required \cup {"observations", "observations_manifest"} \subseteq Archived(op)
    /\ IF op \in inflight THEN op \in intent ELSE "transition_intent" \in Archived(op)

\* close_verified_learning_finalization_inflight.  The recovery then clears the
\* head; a replayed finalization answers and leaves it as it is.
CloseVerified ==
    /\ call.at = "close"
    /\ Authentic(call.op)
    /\ CloseIntent(call.op)
    /\ call' = IF call.recovery THEN Go("clear_head") ELSE Idle
    /\ UNCHANGED <<live, pointer, aborted, journal, ledger, commits, receipts, head, stops>>

(***************************************************************************)
(* recover_incomplete_corpus_transition.                                   *)
(***************************************************************************)

\* Variant: only when the journal says that the archive is complete.
RestoreByJournal(op) == journal[op] = "PriorArchived" /\ "observations" \in Archived(op)

\* classify_unsealed_corpus_recovery.
RestorePriorCorpus(op) == live = None /\ "observations" \in Archived(op)
\* Variant: the archive is not looked at.
RollBackByLive(op) == live \in {None, op.prior}
RollBackIntent(op) == live \in {None, op.prior} /\ "observations" \notin Archived(op)

\* What a recovery decides to do about an open transition.  Where it answers
\* that it cannot go on nothing changes, and there is no step: a directory
\* without its intent, the new corpus already live, a corpus both live and
\* archived, an operation that was aborted once before.
Decision(op) ==
    IF op \in receipts THEN {"close"}
    ELSE {at \in {"restore", "abort"} :
              /\ op \in intent
              /\ at = "restore" => RestorePriorCorpus(op)
              /\ at = "abort" => RollBackIntent(op) /\ op \notin aborted}

Recover ==
    /\ call.at = "idle"
    /\ \E op \in inflight : \E at \in Decision(op) :
           call' = [at |-> at, op |-> op, left |-> <<>>, recovery |-> TRUE]
    /\ UNCHANGED <<store, stops>>

\* restore_archived_prior_corpus: the corpus in one rename, then each pointer.
RestoreCorpus ==
    /\ call.at = "restore"
    /\ live' = call.op.prior
    /\ archive' = [archive EXCEPT ![call.op] = @ \ {"observations"}]
    /\ call' = [Go("restore_pointers") EXCEPT !.left = PointerOrder]
    /\ UNCHANGED <<pointer, inflight, intent, aborted, journal, ledger, commits, receipts, head, stops>>

\* The link, then the removal, of an archived pointer.  A pointer found in
\* both places when its turn comes ends the call with an error.
RestorePointer ==
    /\ call.at \in {"restore_pointers", "restore_unlink"}
    /\ LET p == Head(call.left) IN
       \/ /\ call.at = "restore_pointers" /\ p \notin archive[call.op]
          /\ call' = NextPointer("abort")
          /\ UNCHANGED <<pointer, archive>>
       \/ /\ call.at = "restore_pointers" /\ p \in archive[call.op] /\ pointer[p] = None
          /\ pointer' = [pointer EXCEPT ![p] = call.op.prior]
          /\ call' = Go("restore_unlink")
          /\ UNCHANGED archive
       \/ /\ call.at = "restore_pointers" /\ p \in archive[call.op] /\ pointer[p] # None
          /\ call' = Idle
          /\ UNCHANGED <<pointer, archive>>
       \/ /\ call.at = "restore_unlink"
          /\ archive' = [archive EXCEPT ![call.op] = @ \ {p}]
          /\ call' = [NextPointer("abort") EXCEPT !.at = IF @ = "abort" THEN @ ELSE "restore_pointers"]
          /\ UNCHANGED pointer
    /\ UNCHANGED <<live, inflight, intent, aborted, journal, ledger, commits, receipts, head, stops>>

\* abort_inflight_transition: one rename, refused when the operation was
\* aborted before.
AbortIntent ==
    /\ call.at = "abort"
    /\ IF call.op \in aborted
       THEN call' = Idle /\ UNCHANGED <<inflight, intent, aborted>>
       ELSE /\ inflight' = inflight \ {call.op}
            /\ intent' = intent \ {call.op}
            /\ aborted' = aborted \cup {call.op}
            /\ call' = Go("clear_head")
    /\ UNCHANGED <<live, pointer, archive, journal, ledger, commits, receipts, head, stops>>

\* The process dies, or a file operation fails, between two changes.
Stop ==
    /\ call.at # "idle"
    /\ stops < MaxStops
    /\ call' = Idle
    /\ stops' = stops + 1
    /\ UNCHANGED store

Step ==
    \/ OpenIntent \/ WriteIntent \/ WriteJournal \/ SetHead \/ MakeArchive
    \/ RetireCorpus \/ WriteManifest \/ ArchivePointer \/ PublishCorpus
    \/ CommitEvent \/ InstallMemory \/ InstallShadow \/ WriteCommit \/ KeepHead
    \/ TransitionEvent \/ WriteReceipt \/ SealTransition \/ ClearHead
    \/ CloseVerified \/ RestoreCorpus \/ RestorePointer \/ AbortIntent

Next ==
    \/ \E input \in Input : Finalize(input) \/ Replay(input)
    \/ Recover \/ Step \/ Stop

Spec == Init /\ [][Next]_vars

\* A call that is not stopped goes on, and those who depend on the engine keep
\* calling the recovery and the finalization until they are through.
FairSpec ==
    /\ Spec
    /\ WF_vars(Step)
    /\ WF_vars(Recover)
    /\ \A input \in Input : WF_vars(Finalize(input) \/ Replay(input))

(***************************************************************************)
(* Properties.                                                             *)
(***************************************************************************)

At == {"idle", "open", "intent", "set_head", "archive_dir", "retire", "manifest", "archive", "publish",
       "commit_event", "commit_memory", "commit_shadow", "commit_receipt", "keep_head",
       "transition_event", "receipt", "seal", "clear_head", "close", "restore", "restore_pointers",
       "restore_unlink", "abort"} \cup {Phase[n] : n \in 1..Len(Phase)}

\* Types; a call has pointers left exactly while it moves them, an intent file
\* is only in an open directory, and no operation is both open and closed.
TypeOK ==
    /\ live \in Corpus \cup {None}
    /\ pointer \in [Pointer -> Corpus \cup {None}]
    /\ archive \in [Operation -> {None} \cup (SUBSET Label)]
    /\ inflight \subseteq Operation /\ intent \subseteq inflight /\ aborted \subseteq Operation
    /\ journal \in [Operation -> {Phase[n] : n \in 1..Len(Phase)} \cup {None}]
    /\ commits \subseteq Corpus /\ receipts \subseteq Operation
    /\ ledger \subseteq {Event("commit_transaction", c) : c \in Corpus}
                      \cup {Event("learning_corpus_transition", op) : op \in Operation}
    /\ head \in [corpus : Corpus \cup {None}, pointers : [Required -> Corpus \cup {None}],
                incomplete : Operation \cup {None}]
    /\ call \in [at : At, op : Operation \cup {None}, left : Seq(Pointer), recovery : BOOLEAN]
    /\ (call.op = None) <=> (call.at = "idle")
    /\ (call.left # <<>>) => call.at \in {"open", "intent", "IntentRecorded", "set_head", "archive_dir",
           "retire", "manifest", "archive", "restore_pointers", "restore_unlink"}
    /\ \A op \in inflight : "transition_intent" \notin Archived(op)
    /\ stops \in 0..MaxStops

\* While no transition is open, the store holds one corpus and no pointer of
\* another: whoever passes require_no_incomplete_corpus_transition never acts
\* on a half-replaced corpus, wherever a transition or its recovery stopped.
OpenIsVisible ==
    inflight = {} => live # None /\ \A p \in Pointer : pointer[p] \in {live, None}

\* The prior corpus of an open or sealed transition, and each of its required
\* pointers, exist at every moment, live or in the archive: no stop during the
\* move or the restoration loses a file.
PriorIsKept ==
    \A op \in inflight \cup receipts :
        /\ live = op.prior \/ "observations" \in Archived(op)
        /\ \A p \in Required : \/ pointer[p] = op.prior
                               \/ \E o \in Operation : o.prior = op.prior /\ p \in Archived(o)

\* A receipt authenticates from the moment it is written, by the same checks
\* that close_verified_learning_finalization_inflight makes: wherever the call
\* stops after it, the recovery can close the transition.
ReceiptsAuthenticate == \A op \in receipts : Authentic(op)

\* The journal never runs ahead of the files: a phase from NewCorpusPublished
\* on is only read when what it names is on disk.  (PriorArchived is not such a
\* phase: a restoration leaves it behind.)
JournalIsBehind ==
    \A op \in Operation :
        /\ journal[op] \in {"NewCorpusPublished", "CommitSealed", "ReceiptSealed"} => live = New(op)
        /\ journal[op] \in {"CommitSealed", "ReceiptSealed"} => New(op) \in commits
        /\ journal[op] = "ReceiptSealed" => op \in receipts

\* An interrupted transition whose intent is written, and whose operation was
\* never aborted before, is eventually closed, rolled back or restored, unless
\* the new corpus was published without its receipt.
RecoveryResolves ==
    \A op \in Operation :
        (op \in inflight /\ op \in intent /\ op \notin aborted)
            ~> (op \notin inflight \/ (live = New(op) /\ op \notin receipts))

\* A transition under way is visible as such, and no further than its journal.
TransitionIsVisible == TypeOK /\ OpenIsVisible /\ JournalIsBehind
=============================================================================
