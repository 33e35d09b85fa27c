------------------------- MODULE AdapterBankJournal -------------------------
(***************************************************************************)
(* How the adapter bank publishes a revision: the index file, the commit   *)
(* hard-linked into the revision journal, the head cache, all under the    *)
(* bank's advisory lock, with writers that crash or fail between any two   *)
(* writes, and readers that take no lock.                                  *)
(*                                                                         *)
(* The content of a snapshot is abstracted to the operation that produced  *)
(* it: along the one chain of committed parents, the revision and the      *)
(* operation determine the bytes, hence the digest.                        *)
(***************************************************************************)
EXTENDS Naturals, Sequences, FiniteSets

CONSTANTS
    Writer,          \* processes and threads that call a mutating operation
    Reader,          \* callers of snapshot, query, resolve_active, ...
    Sticky,          \* register, compose and revoke: they hold for ever
    Activation,      \* activate: holds until the slot is taken again
    Reversal,        \* rollback to an empty slot: never answered idempotently
    None,            \* no file, no lock holder, no request
    MaxRevision      \* MAX_HISTORY_REVISIONS

Op == Sticky \union Activation \union Reversal
Revision == 0..MaxRevision
Request == [op : Op, expected : Revision]
Index == [revision : 1..MaxRevision, op : Op]

ASSUME ConstantsAssumption ==
    /\ MaxRevision \in Nat \ {0}
    /\ None \notin Writer \union Request \union Index
    /\ Sticky \intersect (Activation \union Reversal) = {}
    /\ Activation \intersect Reversal = {}

VARIABLES
    journal,     \* commits/by-revision: journal[r] is the operation of revision r
    indexes,     \* indexes/by-sha: the snapshot files, committed or orphaned
    head,        \* head.json
    lock,        \* the holder of authority.lock
    pc,          \* where each writer is in its call
    permit,      \* the revision each activation was authorized against, 0: none
    call,        \* the request each writer is serving
    promised,    \* operations acknowledged to some caller
    scan         \* each reader's progress

vars == <<journal, indexes, head, lock, permit, pc, call, promised, scan>>
files == <<journal, indexes, head>>

Tip == Len(journal)
IndexAt(r) == [revision |-> r, op |-> journal[r]]

WriterPC == {"idle", "waiting", "locked", "built", "indexed", "linked", "cached"}
Critical == WriterPC \ {"idle", "waiting"}

ReadOutcome == {"none", "ok", "head_invalid", "head_mismatch", "head_without_journal"}
NoScan == [at |-> "idle", tip |-> 0, outcome |-> "none"]

Init ==
    /\ journal = <<>>
    /\ indexes = {}
    /\ head = None
    /\ lock = None
    /\ permit = [op \in Activation |-> 0]
    /\ pc = [w \in Writer |-> "idle"]
    /\ call = [w \in Writer |-> None]
    /\ promised = {}
    /\ scan = [r \in Reader |-> NoScan]

-----------------------------------------------------------------------------
(* current(): the tip of the journal checked against the head cache.       *)

\* The verdict of authenticate_head_cache for a caller that listed the journal
\* when its tip was tip, and of the empty-journal branch of current().
HeadVerdict(tip) ==
    IF head = None THEN "ok"
    ELSE IF tip = 0 THEN "head_without_journal"
    ELSE IF head.revision > tip THEN "head_invalid"
    ELSE IF head.op = journal[head.revision] THEN "ok"
    ELSE "head_mismatch"

\* Variant: an index file on disk is taken for a commit.
HoldsByIndexFile(op) == \E file \in indexes : file.op = op

\* Whether the effect of op still stands, so that a repeated request is
\* answered without publishing.  Every activation here is of the same slot.
Holds(op) ==
    \/ op \in Sticky /\ \E r \in 1..Tip : journal[r] = op
    \/ /\ op \in Activation
       /\ \E r \in 1..Tip : /\ journal[r] = op
                            /\ \A s \in r+1..Tip : journal[s] \in Sticky

-----------------------------------------------------------------------------
(* Writers.                                                                *)

Finish(w) ==
    /\ pc' = [pc EXCEPT ![w] = "idle"]
    /\ call' = [call EXCEPT ![w] = None]

\* A caller issues a request against a revision it has observed; a retry
\* after a crash or an error is the same request again.
Submit(w) ==
    /\ pc[w] = "idle"
    /\ \E op \in Op, expected \in 0..Tip :
          call' = [call EXCEPT ![w] = [op |-> op, expected |-> expected]]
    /\ pc' = [pc EXCEPT ![w] = "waiting"]
    /\ UNCHANGED <<files, lock, permit, promised, scan>>

\* Variant: an existing lock file is not waited for.
AcquireUnlocked(w) ==
    /\ pc[w] = "waiting"
    /\ lock' = w
    /\ pc' = [pc EXCEPT ![w] = "locked"]
    /\ UNCHANGED <<files, permit, call, promised, scan>>

\* flock(LOCK_EX) on authority.lock.
Acquire(w) ==
    /\ pc[w] = "waiting"
    /\ lock = None
    /\ lock' = w
    /\ pc' = [pc EXCEPT ![w] = "locked"]
    /\ UNCHANGED <<files, permit, call, promised, scan>>

\* Variant: the expectation is not compared with the current revision.
ExpectedAnything(w) ==
    call[w].op \in Activation => permit[call[w].op] = Tip /\ Tip > 0

\* What the operations demand before they build a successor: the caller's
\* expectation names the current revision, and the permit of an activation was
\* issued against that revision's index.
Expected(w) ==
    /\ call[w].expected = Tip
    /\ call[w].op \in Activation => permit[call[w].op] = Tip /\ Tip > 0

\* authorize_governed_promotion runs under the lock, publishes no revision and
\* binds its permit to the index current at that moment.
Authorize(op) ==
    /\ lock = None
    /\ permit[op] = 0
    /\ Tip > 0
    /\ HeadVerdict(Tip) = "ok"
    /\ permit' = [permit EXCEPT ![op] = Tip]
    /\ UNCHANGED <<files, lock, pc, call, promised, scan>>

\* Variant: a stale expectation is left without an answer.
AnswerOnlyIdempotent(w) ==
    /\ pc[w] = "locked"
    /\ HeadVerdict(Tip) = "ok" /\ Holds(call[w].op)
    /\ promised' = promised \union {call[w].op}
    /\ Finish(w)
    /\ lock' = None
    /\ UNCHANGED <<files, permit, scan>>

\* Variant: an early answer returns without releasing the lock.
AnswerKeepsLock(w) ==
    /\ pc[w] = "locked"
    /\ promised' = IF HeadVerdict(Tip) = "ok" /\ Holds(call[w].op)
                   THEN promised \union {call[w].op} ELSE promised
    /\ Finish(w)
    /\ UNCHANGED <<files, lock, permit, scan>>

\* Load the bank and answer without publishing: the effect already stands, or
\* the expectation is stale, or the history is full, or the bank does not
\* authenticate.
Answer(w) ==
    /\ pc[w] = "locked"
    /\ LET op == call[w].op
           done == HeadVerdict(Tip) = "ok" /\ Holds(op)
       IN  /\ \/ done
              \/ HeadVerdict(Tip) # "ok"
              \/ ~Expected(w)
              \/ Tip = MaxRevision
           /\ promised' = IF done THEN promised \union {op} ELSE promised
    /\ Finish(w)
    /\ lock' = None
    /\ UNCHANGED <<files, permit, scan>>

\* Variants: the history limit is not enforced; the lookup of an operation that
\* already stands is skipped.
BuildPastLimit(w) ==
    /\ pc[w] = "locked"
    /\ HeadVerdict(Tip) = "ok"
    /\ ~Holds(call[w].op)
    /\ Expected(w)
    /\ pc' = [pc EXCEPT ![w] = "built"]
    /\ UNCHANGED <<files, lock, permit, call, promised, scan>>

BuildTwice(w) ==
    /\ pc[w] = "locked"
    /\ HeadVerdict(Tip) = "ok"
    /\ Expected(w)
    /\ Tip < MaxRevision
    /\ pc' = [pc EXCEPT ![w] = "built"]
    /\ UNCHANGED <<files, lock, permit, call, promised, scan>>

\* The expectation is met and the history has room: build the successor.
Build(w) ==
    /\ pc[w] = "locked"
    /\ HeadVerdict(Tip) = "ok"
    /\ ~Holds(call[w].op)
    /\ Expected(w)
    /\ Tip < MaxRevision
    /\ pc' = [pc EXCEPT ![w] = "built"]
    /\ UNCHANGED <<files, lock, permit, call, promised, scan>>

\* Variant: the head cache is replaced before the commit is linked.
WriteIndexAndHead(w) ==
    /\ pc[w] = "built"
    /\ LET index == [revision |-> Tip + 1, op |-> call[w].op]
       IN  indexes' = indexes \union {index} /\ head' = index
    /\ pc' = [pc EXCEPT ![w] = "indexed"]
    /\ UNCHANGED <<journal, lock, permit, call, promised, scan>>

\* persist_snapshot: install the index file, or find the same bytes there.
WriteIndex(w) ==
    /\ pc[w] = "built"
    /\ indexes' = indexes \union {[revision |-> Tip + 1, op |-> call[w].op]}
    /\ pc' = [pc EXCEPT ![w] = "indexed"]
    /\ UNCHANGED <<journal, head, lock, permit, call, promised, scan>>

\* Variant: the commit file is renamed over the one at the tip.
LinkOverTip(w) ==
    /\ pc[w] = "indexed"
    /\ journal' = IF Tip = 0 THEN <<call[w].op>> ELSE [journal EXCEPT ![Tip] = call[w].op]
    /\ pc' = [pc EXCEPT ![w] = "linked"]
    /\ UNCHANGED <<indexes, head, lock, permit, call, promised, scan>>

\* persist_revision_commit: hard-link the commit at its revision, never over
\* an existing one.  From here on the operation is committed.
LinkCommit(w) ==
    /\ pc[w] = "indexed"
    /\ journal' = Append(journal, call[w].op)
    /\ pc' = [pc EXCEPT ![w] = "linked"]
    /\ UNCHANGED <<indexes, head, lock, permit, call, promised, scan>>

\* replace_private_file_atomic on head.json.
ReplaceHead(w) ==
    /\ pc[w] = "linked"
    /\ head' = IndexAt(Tip)
    /\ pc' = [pc EXCEPT ![w] = "cached"]
    /\ UNCHANGED <<journal, indexes, lock, permit, call, promised, scan>>

\* Reopen through current(), compare with what was published, unlock, answer.
Reopen(w) ==
    /\ pc[w] = "cached"
    /\ promised' = IF HeadVerdict(Tip) = "ok" /\ journal[Tip] = call[w].op
                   THEN promised \union {call[w].op} ELSE promised
    /\ Finish(w)
    /\ lock' = None
    /\ UNCHANGED <<files, permit, scan>>

\* The process dies, or a file operation fails and the error is returned: the
\* kernel or the error path releases the lock; what was written stays.
Abandon(w) ==
    /\ pc[w] # "idle"
    /\ Finish(w)
    /\ lock' = IF lock = w THEN None ELSE lock
    /\ UNCHANGED <<files, permit, promised, scan>>

-----------------------------------------------------------------------------
(* Readers and the environment.                                            *)

\* journal_revisions: list the commits.
ListJournal(r) ==
    /\ scan[r].at = "idle"
    /\ scan' = [scan EXCEPT ![r] =
                  [at |-> "listed", tip |-> Tip, outcome |-> "none"]]
    /\ UNCHANGED <<files, lock, permit, pc, call, promised>>

\* authenticate_head_cache, with no lock held since the listing.
ReadHead(r) ==
    /\ scan[r].at = "listed"
    /\ scan' = [scan EXCEPT ![r] = [at |-> "read", tip |-> scan[r].tip,
                                    outcome |-> HeadVerdict(scan[r].tip)]]
    /\ UNCHANGED <<files, lock, permit, pc, call, promised>>

\* The reader uses its answer and starts over.
Forget(r) ==
    /\ scan[r].at = "read"
    /\ scan' = [scan EXCEPT ![r] = NoScan]
    /\ UNCHANGED <<files, lock, permit, pc, call, promised>>

\* Outside the program: head.json is removed or restored from an older copy.
LoseHead ==
    /\ head # None
    /\ head' \in {None} \union {IndexAt(r) : r \in 1..head.revision - 1}
    /\ UNCHANGED <<journal, indexes, lock, permit, pc, call, promised, scan>>

-----------------------------------------------------------------------------
Serve(w) == \/ Answer(w) \/ Build(w) \/ WriteIndex(w) \/ LinkCommit(w)
            \/ ReplaceHead(w) \/ Reopen(w)

Read(r) == ListJournal(r) \/ ReadHead(r) \/ Forget(r)

Next ==
    \/ \E w \in Writer : Submit(w) \/ Acquire(w) \/ Serve(w) \/ Abandon(w)
    \/ \E op \in Activation : Authorize(op)
    \/ \E r \in Reader : Read(r)
    \/ LoseHead

Spec == Init /\ [][Next]_vars

\* A writer that holds the lock runs to the end of its critical section, and a
\* free lock is eventually given to someone who waits for it.
FairSpec ==
    /\ Spec
    /\ \A w \in Writer : WF_vars(Serve(w))
    /\ WF_vars(\E w \in Writer : Acquire(w))

-----------------------------------------------------------------------------
(* Properties.                                                             *)

\* Types of the files, of the writers' and of the readers' state.
TypeOK ==
    /\ journal \in Seq(Op) /\ Tip <= MaxRevision
    /\ indexes \subseteq Index
    /\ head \in Index \union {None}
    /\ lock \in Writer \union {None}
    /\ permit \in [Activation -> Revision]
    /\ pc \in [Writer -> WriterPC]
    /\ call \in [Writer -> Request \union {None}]
    /\ promised \subseteq Op
    /\ scan \in [Reader -> [at : {"idle", "listed", "read"}, tip : Revision,
                            outcome : ReadOutcome]]

\* At most one writer is between load and answer, and it holds the lock.
LockDiscipline ==
    \A w \in Writer : pc[w] \in Critical <=> lock = w

\* Whatever a crash left behind, the next caller that takes the lock finds a
\* bank that authenticates: every commit has its index file, and the head
\* cache never runs ahead of the journal.
Recoverable ==
    /\ HeadVerdict(Tip) = "ok"
    /\ \A r \in 1..Tip : IndexAt(r) \in indexes

\* A caller that was told its operation took effect, at once or on a retry,
\* finds it in the journal, even if its process died right afterwards.
AcknowledgedIsCommitted ==
    promised \subseteq {journal[r] : r \in 1..Tip}

\* Whatever a reader without the lock interleaves with, it never finds the head
\* cache naming another snapshot than the journal does at the same revision.
NoReaderSeesAFork ==
    \A r \in Reader : scan[r].outcome # "head_mismatch"

\* Retrying a request, after a crash, after an error, or by two callers at
\* once, never publishes the same lasting operation or the same permit twice.
NoDoublePublish ==
    \A r, s \in 1..Tip : journal[r] = journal[s] /\ journal[r] \notin Reversal => r = s

\* The bank implements an atomic compare-and-swap history: writes, crashes and
\* retries never replace a committed revision, commit an operation against a
\* revision its caller did not name, or promise what is not committed.
Abstract == INSTANCE CasHistory WITH history <- journal, Caller <- Writer
ImplementsCasHistory == Abstract!Spec

\* No ownership marker outlives its process: the lock is always released.
LockIsReleased == \A w \in Writer : lock = w ~> lock # w

\* The lock and the retries cannot stall every caller at once: when all of them
\* are inside a call, one of them gets its answer.
SomeoneIsServed ==
    (\A w \in Writer : pc[w] # "idle") ~> (\E w \in Writer : pc[w] = "idle")

\* The files and the lock, wherever a publication was cut short: one writer at a
\* time, and a bank that authenticates for whoever comes next.
JournalIsSound == TypeOK /\ LockDiscipline /\ Recoverable

\* What callers and readers are told is what the journal has and keeps.
AnswersAreTrue == AcknowledgedIsCommitted /\ NoReaderSeesAFork

\* The lock never outlives its process, and the retries cannot stall everyone.
ServiceGoesOn == LockIsReleased /\ SomeoneIsServed
=============================================================================
