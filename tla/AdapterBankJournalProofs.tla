---------------------- MODULE AdapterBankJournalProofs ----------------------
(***************************************************************************)
(* Proofs about the publication protocol of the adapter bank, for any      *)
(* number of writers and readers and any history limit.                    *)
(***************************************************************************)
EXTENDS AdapterBankJournal, TLAPS

(***************************************************************************)
(* The inductive invariant.  Besides types and mutual exclusion it says    *)
(* what a writer has established by the point it has reached, which is     *)
(* exactly what a crash at that point leaves behind.                       *)
(***************************************************************************)

\* A writer serves a request exactly while it is inside a call.
CallMatchesPC == \A w \in Writer : call[w] = None <=> pc[w] = "idle"

\* Every commit has its index file and the head cache names a commit.
FilesAgree ==
    /\ \A r \in 1..Tip : IndexAt(r) \in indexes
    /\ head # None => /\ head.revision \in 1..Tip
                      /\ head.op = journal[head.revision]

\* A permit was issued against a committed revision, and an activation sits
\* right after the revision its permit names.
PermitsBound ==
    /\ \A op \in Activation : permit[op] <= Tip
    /\ \A r \in 1..Tip : journal[r] \in Activation => permit[journal[r]] = r - 1 /\ r > 1

\* A writer about to commit still holds the expectation it checked, and its
\* operation does not stand yet.
ReadyToCommit ==
    \A w \in Writer : pc[w] \in {"built", "indexed"} =>
        /\ Expected(w)
        /\ Tip < MaxRevision
        /\ call[w].op \in Sticky => \A r \in 1..Tip : journal[r] # call[w].op
        /\ pc[w] = "indexed" => [revision |-> Tip + 1, op |-> call[w].op] \in indexes

\* A writer that has committed finds its operation at the tip.
Committed ==
    \A w \in Writer : pc[w] \in {"linked", "cached"} =>
        Tip > 0 /\ journal[Tip] = call[w].op

\* No lasting operation is committed twice.
StickyOnce ==
    \A r, s \in 1..Tip : journal[r] = journal[s] /\ journal[r] \in Sticky => r = s

IInv ==
    /\ TypeOK
    /\ CallMatchesPC
    /\ LockDiscipline
    /\ FilesAgree
    /\ PermitsBound
    /\ ReadyToCommit
    /\ Committed
    /\ StickyOnce
    /\ AcknowledgedIsCommitted
    /\ NoReaderSeesAFork

-----------------------------------------------------------------------------
\* The head cache of an authentic bank passes current() for the owner of the
\* lock, and is never taken for a fork by a caller with an older listing.
LEMMA HeadIsValid ==
    ASSUME TypeOK, FilesAgree
    PROVE  /\ HeadVerdict(Tip) = "ok"
           /\ \A tip \in Revision : tip <= Tip => HeadVerdict(tip) # "head_mismatch"
BY ConstantsAssumption DEF TypeOK, FilesAgree, HeadVerdict, Tip, Index, Revision

\* The empty bank satisfies the invariant.
LEMMA InitIInv == Init => IInv
BY ConstantsAssumption DEF Init, IInv, TypeOK, CallMatchesPC, LockDiscipline, FilesAgree,
   PermitsBound, ReadyToCommit, Committed, StickyOnce, AcknowledgedIsCommitted,
   NoReaderSeesAFork, Tip, Revision, Critical, WriterPC, NoScan, ReadOutcome, Op, Request, Index

-----------------------------------------------------------------------------
(* Preservation, one action at a time.                                     *)

\* A request enters, the lock is taken, a successor is built: no file moves.
LEMMA QuietStepsIInv ==
    ASSUME IInv, NEW w \in Writer, Submit(w) \/ Acquire(w) \/ Build(w)
    PROVE  IInv'
<1> USE ConstantsAssumption DEF Submit, Acquire, Build, files, Tip, IndexAt
<1>1. TypeOK'
  <2>1. Tip \in Revision
    BY DEF IInv, TypeOK, Revision
  <2>2. call' \in [Writer -> Request \union {None}]
    <3>1. CASE Submit(w)
      <4>1. PICK op \in Op, expected \in 0..Tip :
               call' = [call EXCEPT ![w] = [op |-> op, expected |-> expected]]
        BY <3>1
      <4>2. [op |-> op, expected |-> expected] \in Request
        BY <2>1, <4>1 DEF Request, Revision
      <4> QED BY <4>1, <4>2 DEF IInv, TypeOK
    <3>2. CASE ~Submit(w)
      BY <3>2 DEF IInv, TypeOK
    <3> QED BY <3>1, <3>2
  <2> QED BY <2>2 DEF IInv, TypeOK, WriterPC
<1>2. CallMatchesPC' /\ LockDiscipline'
  BY DEF IInv, TypeOK, CallMatchesPC, LockDiscipline, Critical, WriterPC, Request, Revision
<1>3. FilesAgree' /\ PermitsBound' /\ StickyOnce' /\ AcknowledgedIsCommitted' /\ NoReaderSeesAFork'
  BY DEF IInv, FilesAgree, PermitsBound, StickyOnce, AcknowledgedIsCommitted, NoReaderSeesAFork
<1>4. ReadyToCommit' /\ Committed'
  BY DEF IInv, TypeOK, ReadyToCommit, Committed, Expected, Holds, CallMatchesPC, Request
<1> QED BY <1>1, <1>2, <1>3, <1>4 DEF IInv

\* The call ends: with an answer under the lock, or abandoned at any point.
LEMMA EndOfCallIInv ==
    ASSUME IInv, NEW w \in Writer, Answer(w) \/ Reopen(w) \/ Abandon(w)
    PROVE  IInv'
<1> USE ConstantsAssumption DEF Answer, Reopen, Abandon, Finish, files, Tip, IndexAt
<1>1. TypeOK'
  BY DEF IInv, TypeOK, Request, Revision, WriterPC, CallMatchesPC
<1>2. CallMatchesPC'
  BY DEF IInv, TypeOK, CallMatchesPC
<1>3. LockDiscipline'
  BY DEF IInv, TypeOK, LockDiscipline, Critical, WriterPC
<1>4. FilesAgree' /\ PermitsBound' /\ StickyOnce' /\ NoReaderSeesAFork'
  BY DEF IInv, FilesAgree, PermitsBound, StickyOnce, NoReaderSeesAFork
<1>5. ReadyToCommit' /\ Committed'
  <2>1. \A v \in Writer : pc'[v] # "idle" => pc'[v] = pc[v] /\ call'[v] = call[v]
    BY DEF IInv, TypeOK
  <2>2. UNCHANGED <<journal, indexes, permit>>
    OBVIOUS
  <2> QED BY <2>1, <2>2 DEF IInv, ReadyToCommit, Committed, Expected
<1>6. AcknowledgedIsCommitted'
  <2>1. promised' \subseteq promised \union {journal[r] : r \in 1..Tip}
    BY DEF Holds, IInv, Committed, TypeOK
  <2> QED BY <2>1 DEF IInv, AcknowledgedIsCommitted
<1> QED BY <1>1, <1>2, <1>3, <1>4, <1>5, <1>6 DEF IInv

\* The index file is installed before anything refers to it.
LEMMA WriteIndexIInv ==
    ASSUME IInv, NEW w \in Writer, WriteIndex(w)
    PROVE  IInv'
<1> USE ConstantsAssumption DEF WriteIndex, Tip, IndexAt
<1>1. TypeOK'
  <2>1. call[w].op \in Op
    BY DEF IInv, TypeOK, Request, CallMatchesPC
  <2>2. Tip \in Nat /\ Tip < MaxRevision
    <3>1. pc[w] = "built" /\ ReadyToCommit
      BY DEF IInv
    <3>2. Tip < MaxRevision
      BY <3>1 DEF ReadyToCommit
    <3> QED BY <3>2 DEF IInv, TypeOK
  <2>3. [revision |-> Tip + 1, op |-> call[w].op] \in Index
    BY <2>1, <2>2 DEF Index
  <2> QED BY <2>3 DEF IInv, TypeOK, WriterPC
<1>2. CallMatchesPC' /\ LockDiscipline'
  BY DEF IInv, TypeOK, CallMatchesPC, LockDiscipline, Critical, WriterPC
<1>3. FilesAgree' /\ PermitsBound' /\ StickyOnce' /\ AcknowledgedIsCommitted' /\ NoReaderSeesAFork'
  BY DEF IInv, FilesAgree, PermitsBound, StickyOnce, AcknowledgedIsCommitted, NoReaderSeesAFork
<1>4. ReadyToCommit' /\ Committed'
  BY DEF IInv, TypeOK, ReadyToCommit, Committed, Expected
<1> QED BY <1>1, <1>2, <1>3, <1>4 DEF IInv

\* The commit point: the journal grows by the operation of the lock's owner.
LEMMA LinkCommitIInv ==
    ASSUME IInv, NEW w \in Writer, LinkCommit(w)
    PROVE  IInv'
<1> USE ConstantsAssumption DEF LinkCommit
<1> DEFINE op == call[w].op
<1>0. /\ journal \in Seq(Op) /\ op \in Op /\ Tip \in Nat /\ Tip < MaxRevision
      /\ Expected(w)
      /\ op \in Sticky => \A r \in 1..Tip : journal[r] # op
      /\ [revision |-> Tip + 1, op |-> op] \in indexes
      /\ \A v \in Writer \ {w} : pc[v] \notin Critical
  BY DEF IInv, TypeOK, CallMatchesPC, ReadyToCommit, LockDiscipline, Critical, WriterPC, Request, Tip
<1>1. /\ journal' = Append(journal, op)
      /\ Tip' = Tip + 1
      /\ \A r \in 1..Tip : journal'[r] = journal[r]
      /\ journal'[Tip + 1] = op
      /\ 1..Tip' = 1..Tip \union {Tip + 1}
  BY <1>0 DEF Tip
<1>2. TypeOK'
  BY <1>0, <1>1 DEF IInv, TypeOK, Revision, WriterPC, Tip
<1>3. CallMatchesPC' /\ LockDiscipline'
  BY DEF IInv, TypeOK, CallMatchesPC, LockDiscipline, Critical, WriterPC
<1>4. FilesAgree'
  BY <1>0, <1>1 DEF IInv, TypeOK, FilesAgree, IndexAt, Tip, Index
<1>5. PermitsBound'
  <2>1. \A a \in Activation : permit'[a] <= Tip'
    BY <1>0, <1>1 DEF IInv, TypeOK, PermitsBound, Revision
  <2>2. ASSUME NEW r \in 1..Tip', journal'[r] \in Activation
        PROVE  permit'[journal'[r]] = r - 1 /\ r > 1
    <3>1. CASE r \in 1..Tip
      BY <1>1, <2>2, <3>1 DEF IInv, PermitsBound
    <3>2. CASE r = Tip + 1
      <4>1. journal'[r] = op /\ op \in Activation
        BY <1>1, <2>2, <3>2
      <4>2. permit[op] = Tip /\ Tip > 0 /\ permit' = permit
        BY <1>0, <4>1 DEF Expected
      <4>3. r - 1 = Tip /\ r > 1
        BY <1>0, <3>2, <4>2
      <4> QED BY <4>1, <4>2, <4>3
    <3> QED BY <1>1, <3>1, <3>2
  <2> QED BY <2>1, <2>2 DEF PermitsBound
<1>6. ReadyToCommit' /\ Committed'
  <2>1. \A v \in Writer : pc'[v] \in {"built", "indexed", "linked", "cached"} => v = w
    BY <1>0 DEF IInv, TypeOK, Critical, WriterPC
  <2>2. pc'[w] = "linked" /\ call' = call /\ Tip' > 0
    BY <1>0, <1>1 DEF IInv, TypeOK
  <2> QED BY <1>1, <2>1, <2>2 DEF ReadyToCommit, Committed
<1>7. StickyOnce'
  BY <1>0, <1>1 DEF IInv, StickyOnce
<1>8. AcknowledgedIsCommitted' /\ NoReaderSeesAFork'
  <2>1. ASSUME NEW p \in promised
        PROVE  \E r \in 1..Tip' : journal'[r] = p
    <3>1. PICK r \in 1..Tip : journal[r] = p
      BY DEF IInv, AcknowledgedIsCommitted
    <3> QED BY <1>1, <3>1
  <2>2. AcknowledgedIsCommitted'
    BY <2>1 DEF AcknowledgedIsCommitted
  <2>3. NoReaderSeesAFork'
    BY DEF IInv, NoReaderSeesAFork
  <2> QED BY <2>2, <2>3
<1> QED BY <1>2, <1>3, <1>4, <1>5, <1>6, <1>7, <1>8 DEF IInv

\* The head cache is replaced by the tip.
LEMMA ReplaceHeadIInv ==
    ASSUME IInv, NEW w \in Writer, ReplaceHead(w)
    PROVE  IInv'
<1> USE ConstantsAssumption DEF ReplaceHead
<1>0. /\ Tip \in 1..MaxRevision /\ Tip' = Tip /\ journal[Tip] \in Op
      /\ head' = [revision |-> Tip, op |-> journal[Tip]]
  BY DEF IInv, TypeOK, Committed, Tip, IndexAt
<1>1. TypeOK'
  BY <1>0 DEF IInv, TypeOK, Index, WriterPC
<1>2. CallMatchesPC' /\ LockDiscipline'
  BY DEF IInv, TypeOK, CallMatchesPC, LockDiscipline, Critical, WriterPC
<1>3. FilesAgree'
  BY <1>0 DEF IInv, TypeOK, FilesAgree, IndexAt
<1>4. PermitsBound' /\ StickyOnce' /\ AcknowledgedIsCommitted' /\ NoReaderSeesAFork'
  BY DEF IInv, PermitsBound, StickyOnce, AcknowledgedIsCommitted, NoReaderSeesAFork, Tip
<1>5. ReadyToCommit' /\ Committed'
  BY DEF IInv, TypeOK, ReadyToCommit, Committed, Expected, Tip
<1> QED BY <1>1, <1>2, <1>3, <1>4, <1>5 DEF IInv

\* The head cache is lost, or restored to an earlier committed revision.
LEMMA LoseHeadIInv ==
    ASSUME IInv, LoseHead
    PROVE  IInv'
<1> USE ConstantsAssumption DEF LoseHead
<1>0. Tip' = Tip /\ Tip \in Nat /\ head.revision \in 1..Tip
  BY DEF IInv, TypeOK, FilesAgree, Tip
<1>1. \/ head' = None
      \/ \E r \in 1..Tip : head' = [revision |-> r, op |-> journal[r]]
  BY <1>0 DEF IndexAt
<1>2. TypeOK'
  BY <1>0, <1>1 DEF IInv, TypeOK, Index, Tip
<1>3. FilesAgree'
  BY <1>0, <1>1 DEF IInv, FilesAgree, IndexAt
<1>4. CallMatchesPC' /\ LockDiscipline' /\ PermitsBound' /\ StickyOnce'
      /\ AcknowledgedIsCommitted' /\ NoReaderSeesAFork' /\ ReadyToCommit' /\ Committed'
  BY DEF IInv, CallMatchesPC, LockDiscipline, PermitsBound, StickyOnce, AcknowledgedIsCommitted,
     NoReaderSeesAFork, ReadyToCommit, Committed, Expected, Tip
<1> QED BY <1>2, <1>3, <1>4 DEF IInv

\* A permit is issued against the current revision.
LEMMA AuthorizeIInv ==
    ASSUME IInv, NEW op \in Activation, Authorize(op)
    PROVE  IInv'
<1> USE ConstantsAssumption DEF Authorize, files, Tip, IndexAt
<1>1. TypeOK'
  BY DEF IInv, TypeOK, Revision
<1>2. CallMatchesPC' /\ LockDiscipline' /\ FilesAgree' /\ Committed'
      /\ StickyOnce' /\ AcknowledgedIsCommitted' /\ NoReaderSeesAFork'
  BY DEF IInv, CallMatchesPC, LockDiscipline, FilesAgree, Committed, StickyOnce,
     AcknowledgedIsCommitted, NoReaderSeesAFork
<1>3. PermitsBound'
  BY DEF IInv, TypeOK, PermitsBound, Revision
<1>4. ReadyToCommit'
  BY DEF IInv, TypeOK, ReadyToCommit, LockDiscipline, Critical, WriterPC
<1> QED BY <1>1, <1>2, <1>3, <1>4 DEF IInv

\* A reader changes nothing but its own progress, whatever the writers do.
LEMMA ReadIInv ==
    ASSUME IInv, NEW r \in Reader, Read(r)
    PROVE  IInv'
<1> USE ConstantsAssumption DEF Read, ListJournal, ReadHead, Forget, files
<1>1. TypeOK'
  <2>1. Tip \in Revision /\ \A tip \in Revision : HeadVerdict(tip) \in ReadOutcome
    BY DEF IInv, TypeOK, HeadVerdict, ReadOutcome, Revision, Tip
  <2> DEFINE Scan == [at : {"idle", "listed", "read"}, tip : Revision, outcome : ReadOutcome]
  <2>2. /\ NoScan \in Scan
        /\ [at |-> "listed", tip |-> Tip, outcome |-> "none"] \in Scan
        /\ [at |-> "read", tip |-> scan[r].tip, outcome |-> HeadVerdict(scan[r].tip)] \in Scan
    BY <2>1 DEF IInv, TypeOK, NoScan, ReadOutcome, Revision
  <2>3. scan' \in [Reader -> Scan]
    BY <2>2 DEF IInv, TypeOK
  <2> QED BY <2>3 DEF IInv, TypeOK, Tip
<1>2. CallMatchesPC' /\ LockDiscipline' /\ FilesAgree' /\ PermitsBound' /\ ReadyToCommit'
      /\ Committed' /\ StickyOnce' /\ AcknowledgedIsCommitted'
  BY DEF IInv, CallMatchesPC, LockDiscipline, FilesAgree, PermitsBound, ReadyToCommit, Expected,
     Committed, StickyOnce, AcknowledgedIsCommitted, Tip, IndexAt
<1>3. NoReaderSeesAFork'
  BY DEF IInv, TypeOK, NoReaderSeesAFork, FilesAgree, HeadVerdict, NoScan
<1> QED BY <1>1, <1>2, <1>3 DEF IInv

LEMMA NextIInv == IInv /\ [Next]_vars => IInv'
<1> SUFFICES ASSUME IInv, [Next]_vars PROVE IInv'
  OBVIOUS
<1>1. CASE \E w \in Writer : Submit(w) \/ Acquire(w) \/ Serve(w) \/ Abandon(w)
  BY <1>1, QuietStepsIInv, EndOfCallIInv, WriteIndexIInv, LinkCommitIInv, ReplaceHeadIInv DEF Serve
<1>2. CASE \E op \in Activation : Authorize(op)
  BY <1>2, AuthorizeIInv
<1>3. CASE \E r \in Reader : Read(r)
  BY <1>3, ReadIInv
<1>4. CASE LoseHead
  BY <1>4, LoseHeadIInv
<1>5. CASE UNCHANGED vars
  BY <1>5 DEF vars, IInv, TypeOK, CallMatchesPC, LockDiscipline, FilesAgree, PermitsBound,
     ReadyToCommit, Expected, Committed, StickyOnce, AcknowledgedIsCommitted,
     NoReaderSeesAFork, Tip, IndexAt
<1> QED BY <1>1, <1>2, <1>3, <1>4, <1>5 DEF Next

\* The strengthened invariant holds in every reachable state.
THEOREM Invariance == Spec => []IInv
BY InitIInv, NextIInv, PTL DEF Spec

\* Variables keep their types (TypeOK).
THEOREM TypeCorrect == Spec => []TypeOK
BY Invariance, PTL DEF IInv

\* with_private_authority_lock: never two writers inside the critical section.
THEOREM MutualExclusion == Spec => []LockDiscipline
BY Invariance, PTL DEF IInv

\* After a crash or an error at any point of publish_snapshot, the bank opens:
\* current() accepts it and every commit has its index file.
THEOREM CrashRecovery == Spec => []Recoverable
<1>1. IInv => Recoverable
  BY HeadIsValid DEF IInv, FilesAgree, Recoverable
<1> QED BY <1>1, Invariance, PTL

\* An acknowledged operation is in the journal for good.
THEOREM Acknowledged == Spec => []AcknowledgedIsCommitted
BY Invariance, PTL DEF IInv

\* A lock-free reader may be refused, but never because of a fork.
THEOREM NoFork == Spec => []NoReaderSeesAFork
BY Invariance, PTL DEF IInv

\* Types, mutual exclusion and recovery, for any writers, readers and limit.
THEOREM JournalStaysSound == Spec => []JournalIsSound
<1>1. TypeOK /\ LockDiscipline /\ Recoverable => JournalIsSound
  BY DEF JournalIsSound
<1> QED BY <1>1, TypeCorrect, MutualExclusion, CrashRecovery, PTL

\* What callers were promised and what readers see is what the journal has.
THEOREM AnswersStayTrue == Spec => []AnswersAreTrue
<1>1. AcknowledgedIsCommitted /\ NoReaderSeesAFork => AnswersAreTrue
  BY DEF AnswersAreTrue
<1> QED BY <1>1, Acknowledged, NoFork, PTL

\* Retries of registrations, revocations and activations publish once.
THEOREM PublishedOnce == Spec => []NoDoublePublish
<1>1. IInv => NoDoublePublish
  <2> SUFFICES ASSUME IInv, NEW r \in 1..Tip, NEW s \in 1..Tip,
                      journal[r] = journal[s], journal[r] \notin Reversal
               PROVE  r = s
    BY DEF NoDoublePublish
  <2>1. journal[r] \in Sticky \/ journal[r] \in Activation
    BY DEF IInv, TypeOK, Op, Tip
  <2>2. CASE journal[r] \in Sticky
    BY <2>2 DEF IInv, StickyOnce
  <2>3. CASE journal[r] \in Activation
    BY <2>3 DEF IInv, PermitsBound
  <2> QED BY <2>1, <2>2, <2>3
<1> QED BY <1>1, Invariance, PTL

-----------------------------------------------------------------------------
(* Refinement: LinkCommit is the commit point, answers are promises.       *)

\* Each step of the files is a step of the compare-and-swap history.
LEMMA StepRefines == IInv /\ [Next]_vars => [Abstract!Next]_(Abstract!vars)
<1> SUFFICES ASSUME IInv, [Next]_vars
             PROVE  Abstract!Next \/ UNCHANGED <<journal, call, promised>>
  BY DEF Abstract!vars
<1> USE DEF Abstract!Next
<1>1. ASSUME NEW w \in Writer, Submit(w)
      PROVE  Abstract!Submit(w)
  BY <1>1 DEF Submit, Abstract!Submit, IInv, CallMatchesPC, Tip, files
<1>2. ASSUME NEW w \in Writer, LinkCommit(w)
      PROVE  Abstract!Commit(w)
  BY <1>2 DEF LinkCommit, Abstract!Commit, IInv, CallMatchesPC, ReadyToCommit, Expected, Tip
<1>3. ASSUME NEW w \in Writer, Answer(w)
      PROVE  Abstract!Acknowledge(w) \/ Abstract!Fail(w)
  BY <1>3 DEF Answer, Finish, files, Holds, Tip, IInv, CallMatchesPC,
     Abstract!Acknowledge, Abstract!Fail
<1>4. ASSUME NEW w \in Writer, Reopen(w)
      PROVE  Abstract!Acknowledge(w) \/ Abstract!Fail(w)
  <2>1. call[w] # None /\ Tip \in 1..Len(journal) /\ journal[Tip] = call[w].op
    BY <1>4 DEF Reopen, IInv, TypeOK, CallMatchesPC, Committed, Tip
  <2> QED BY <1>4, <2>1 DEF Reopen, Finish, files, Abstract!Acknowledge, Abstract!Fail
<1>5. ASSUME NEW w \in Writer, Abandon(w)
      PROVE  Abstract!Fail(w)
  BY <1>5 DEF Abandon, Finish, files, IInv, CallMatchesPC, Abstract!Fail
<1>6. ASSUME NEW w \in Writer, Acquire(w) \/ Build(w) \/ WriteIndex(w) \/ ReplaceHead(w)
      PROVE  UNCHANGED <<journal, call, promised>>
  BY <1>6 DEF Acquire, Build, WriteIndex, ReplaceHead, files
<1>7. ASSUME \/ \E op \in Activation : Authorize(op)
             \/ \E r \in Reader : Read(r)
             \/ LoseHead
             \/ UNCHANGED vars
      PROVE  UNCHANGED <<journal, call, promised>>
  BY <1>7 DEF Authorize, Read, ListJournal, ReadHead, Forget, LoseHead, files, vars
<1> QED BY <1>1, <1>2, <1>3, <1>4, <1>5, <1>6, <1>7 DEF Next, Serve

\* The files, the lock and the retries implement an atomic compare-and-swap
\* history (publish_snapshot under with_private_authority_lock).
THEOREM Refinement == Spec => ImplementsCasHistory
<1>1. Init => Abstract!Init
  BY DEF Init, Abstract!Init
<1> QED BY <1>1, StepRefines, Invariance, PTL DEF Spec, ImplementsCasHistory, Abstract!Spec
=============================================================================
