-------------------------- MODULE OperatorJobsProofs --------------------------
(***************************************************************************)
(* Proofs about jobs of the operator control plane, for any set of jobs,   *)
(* requests, processes and callers that cancel, with crashes and failures. *)
(***************************************************************************)
EXTENDS OperatorJobs, FiniteSetTheorems, TLAPS

-----------------------------------------------------------------------------
(***************************************************************************)
(* The inductive invariant: what ties a start call, a thread, its place in *)
(* the registry, its child and the recovery of a server together.          *)
(***************************************************************************)

\* The steps of a start call, and of a thread, that need their process.
Starts == {"listed", "persisted", "registered", "rejecting"}
Works == {"spawned", "running", "settling", "settled", "unsaved"}

\* Start calls and threads run in a process that is up, one after the other.
ThreadsLive ==
    \A j \in Job :
        /\ starter[j] \in Starts \/ worker[j] \in Works => Alive(j)
        /\ worker[j] # "none" => starter[j] = "returned"

\* The registry of a process holds its jobs from registration to release ...
PlacesMatch ==
    \A p \in Process :
        registry[p] = {j \in Job : /\ HomeOf[j] = p
                                   /\ starter[j] = "registered" \/ worker[j] \in Works}

\* ... within the limit.
PlacesBounded == \A p \in Process : Cardinality(registry[p]) <= MaxJobs

\* What a thread learnt of its run is true of its child.
OutcomesAreTrue ==
    \A j \in Job :
        /\ worker[j] = "settling" => outcome[j] # "none"
        /\ outcome[j] = "succeeded" => child[j] = "succeeded"
        /\ outcome[j] = "cancelled" => flag[j] /\ child[j] = "killed"

\* What may be written to the status file of a job.
Sound(j, r) ==
    /\ r \in Records /\ Verifies(r)
    /\ r.state \in Terminal => r.receipt # None
    /\ r.state = "completed" => r.run = "succeeded" /\ child[j] = "succeeded"
    /\ r.state = "cancelled" => flag[j] /\ child[j] = "killed"

RecordsHold == \A j \in Job : record[j] # None => Sound(j, record[j])

\* A cancel call holds a record that was sound and not settled when it was read.
CancelsReadUnsettled ==
    \A c \in Canceller : cancel[c] # None =>
        cancel[c].read.state \notin Terminal /\ Verifies(cancel[c].read)

\* A recovering server knows every unsettled record of the calls it once served.
RecoveryKnows ==
    /\ \A p \in Process : \A j \in unrecovered[p] : record[j] \in Records
    /\ \A j \in Job : Unsettled(j) /\ process[HomeOf[j]] = "recovering" =>
           j \in unrecovered[HomeOf[j]] \/ record[j].error = "cancellation requested"

IInv ==
    /\ TypeOK /\ ThreadsLive /\ PlacesMatch /\ PlacesBounded /\ OutcomesAreTrue
    /\ RecordsHold /\ CancelsReadUnsettled /\ RecoveryKnows /\ NobodyForgotten

-----------------------------------------------------------------------------
(* Records and registries. *)

\* The shape of the state, without the values.
LEMMA Shape ==
    ASSUME IInv
    PROVE  /\ DOMAIN record = Job /\ DOMAIN process = Process /\ DOMAIN unrecovered = Process
           /\ DOMAIN registry = Process /\ DOMAIN flag = Job /\ DOMAIN starter = Job
           /\ DOMAIN worker = Job /\ DOMAIN outcome = Job /\ DOMAIN child = Job
           /\ DOMAIN cancel = Canceller
BY DEF IInv, TypeOK

\* A record without a receipt, and one sealed with the receipt of its state and run.
LEMMA OpenRecord ==
    ASSUME NEW state \in State
    PROVE  Open(state) \in Records /\ Verifies(Open(state)) /\ Open(state).state = state
BY DEF Open, Records, Run, Verifies

LEMMA SealedRecord ==
    ASSUME NEW state \in State, NEW run \in Run, NEW error \in {"none", "limit", "run", "recovered"}
    PROVE  LET r == Sealed(state, run, error)
           IN  /\ r \in Records /\ Verifies(r) /\ r.state = state /\ r.run = run /\ r.receipt # None
<1>1. Receipt(state, run) \in Receipts /\ Receipt(state, run) # None
  BY NoneIsNoReceipt DEF Receipt, Receipts
<1> QED BY <1>1 DEF Sealed, Records, Verifies

\* A sound record that replaces the record of a job leaves the others sound.
LEMMA WriteIsSound ==
    ASSUME IInv, NEW j \in Job, NEW r, Sound(j, r),
           record' = [record EXCEPT ![j] = r], UNCHANGED <<child, flag>>
    PROVE  /\ RecordsHold' /\ record' \in [Job -> Records \union {None}]
           /\ record'[j] = r /\ \A k \in Job \ {j} : record'[k] = record[k]
<1>1. record'[j] = r /\ \A k \in Job \ {j} : record'[k] = record[k]
  BY Shape
<1>2. record' \in [Job -> Records \union {None}]
  BY DEF IInv, TypeOK, Sound
<1>3. RecordsHold'
  BY <1>1 DEF IInv, RecordsHold, Sound
<1> QED BY <1>1, <1>2, <1>3

\* What takes no place keeps the limit.
LEMMA FewerPlaces ==
    ASSUME IInv, \A p \in Process : registry'[p] \subseteq registry[p]
    PROVE  PlacesBounded'
<1> SUFFICES ASSUME NEW p \in Process PROVE Cardinality(registry'[p]) <= MaxJobs
  BY DEF PlacesBounded
<1>1. IsFiniteSet(registry[p])
  BY OperatorJobsAssumption, FS_Subset DEF IInv, TypeOK
<1>2. /\ IsFiniteSet(registry'[p]) /\ Cardinality(registry'[p]) <= Cardinality(registry[p])
  BY <1>1, FS_Subset
<1>3. Cardinality(registry[p]) \in Nat /\ Cardinality(registry'[p]) \in Nat
  BY <1>1, <1>2, FS_CardinalityType
<1> QED BY <1>2, <1>3, OperatorJobsAssumption DEF IInv, PlacesBounded

-----------------------------------------------------------------------------
(* The steps of a start call. *)

\* start_operator_job lists the records, registers the job and spawns its thread.
LEMMA StartIInv ==
    ASSUME IInv, NEW j \in Job, List(j) \/ Register(j) \/ Spawn(j)
    PROVE  IInv'
<1> USE OperatorJobsAssumption DEF List, Register, Spawn, Room, Deregister, Alive
<1>1. UNCHANGED <<record, process, unrecovered, flag, outcome, child, cancel>>
  OBVIOUS
<1>2. TypeOK'
  BY <1>1 DEF IInv, TypeOK
<1>3. ThreadsLive' /\ OutcomesAreTrue'
  BY <1>1, Shape DEF IInv, ThreadsLive, Starts, Works, OutcomesAreTrue
<1>4. PlacesMatch'
  <2>1. CASE List(j)
    BY <1>1, <2>1, Shape DEF IInv, PlacesMatch
  <2>2. CASE Register(j)
    BY <1>1, <2>2, Shape DEF IInv, PlacesMatch, ThreadsLive, Works
  <2>3. CASE Spawn(j)
    BY <1>1, <2>3, Shape DEF IInv, PlacesMatch, ThreadsLive, Works
  <2> QED BY <2>1, <2>2, <2>3
<1>5. PlacesBounded'
  <2>1. CASE List(j) \/ Spawn(j)
    BY <2>1, Shape, FewerPlaces
  <2>2. CASE Register(j)
    <3> DEFINE T == registry[HomeOf[j]]
    <3>1. IsFiniteSet(T) /\ Cardinality(T) \in Nat
      BY FS_Subset, FS_CardinalityType DEF IInv, TypeOK
    <3> HIDE DEF T
    <3>2. Cardinality(T \union {j}) = Cardinality(T) \/ Cardinality(T \union {j}) = Cardinality(T) + 1
      BY <3>1, FS_AddElement
    <3>3. Cardinality(T) < MaxJobs => Cardinality(T \union {j}) <= MaxJobs
      BY <3>1, <3>2
    <3>4. Room(HomeOf[j]) => Cardinality(registry[HomeOf[j]] \union {j}) <= MaxJobs
      BY <3>3 DEF T
    <3> QED BY <2>2, <3>4, Shape DEF IInv, PlacesBounded
  <2> QED BY <2>1, <2>2
<1>6. RecordsHold' /\ CancelsReadUnsettled' /\ RecoveryKnows'
  BY <1>1 DEF IInv, RecordsHold, Sound, CancelsReadUnsettled, RecoveryKnows, Unsettled
<1>7. NobodyForgotten'
  BY <1>1, Shape DEF IInv, NobodyForgotten, Unsettled
<1> QED BY <1>2, <1>3, <1>4, <1>5, <1>6, <1>7 DEF IInv

\* The queued record is written, or the refusal.
LEMMA StartWriteIInv ==
    ASSUME IInv, NEW j \in Job, PersistQueued(j) \/ Reject(j)
    PROVE  IInv'
<1> USE OperatorJobsAssumption DEF PersistQueued, Reject, Alive
<1>1. UNCHANGED <<process, unrecovered, registry, flag, worker, outcome, child, cancel>>
  OBVIOUS
<1>2. /\ Sound(j, Open("queued"))
      /\ Sound(j, Sealed("failed", "none", "limit")) /\ Sealed("failed", "none", "limit").state = "failed"
  BY OpenRecord, SealedRecord DEF Sound, State, Run, Terminal
<1>3. /\ RecordsHold' /\ record' \in [Job -> Records \union {None}]
      /\ \A k \in Job \ {j} : record'[k] = record[k]
      /\ record'[j] = record[j] \/ record'[j] \in Records
  <2>1. CASE UNCHANGED record
    BY <1>1, <2>1 DEF IInv, TypeOK, RecordsHold, Sound
  <2>2. CASE Write(j, Open("queued"))
    BY <1>1, <1>2, <2>2, WriteIsSound DEF Write, Sound
  <2>3. CASE Write(j, Sealed("failed", "none", "limit"))
    BY <1>1, <1>2, <2>3, WriteIsSound DEF Write, Sound
  <2> QED BY <2>1, <2>2, <2>3
<1>4. TypeOK'
  BY <1>1, <1>3 DEF IInv, TypeOK
<1>5. ThreadsLive' /\ OutcomesAreTrue' /\ CancelsReadUnsettled'
  BY <1>1, Shape DEF IInv, ThreadsLive, Starts, Works, OutcomesAreTrue, CancelsReadUnsettled
<1>6. PlacesMatch' /\ PlacesBounded'
  BY <1>1, Shape DEF IInv, PlacesMatch, PlacesBounded, ThreadsLive, Works
<1>7. RecoveryKnows'
  <2>1. \A p \in Process : \A k \in unrecovered'[p] : record'[k] \in Records
    BY <1>1, <1>3, OperatorJobsAssumption DEF IInv, RecoveryKnows, TypeOK
  <2>2. \A k \in Job : record'[k] # None /\ record'[k].state \notin Terminal /\ process'[HomeOf[k]] = "recovering" =>
            k \in unrecovered'[HomeOf[k]] \/ record'[k].error = "cancellation requested"
    BY <1>1, <1>3 DEF IInv, RecoveryKnows, Unsettled
  <2> QED BY <2>1, <2>2 DEF RecoveryKnows, Unsettled
<1>8. NobodyForgotten'
  <2>1. starter'[j] \in {"persisted", "failed"} \/ record'[j].state \in Terminal
    BY <1>2, Shape DEF Write, Terminal
  <2> QED BY <1>1, <1>3, <2>1, Shape DEF IInv, NobodyForgotten, Unsettled
<1> QED BY <1>3, <1>4, <1>5, <1>6, <1>7, <1>8 DEF IInv

-----------------------------------------------------------------------------
(* The steps of a thread and its child. *)

\* The child is launched, exits, or is killed; the thread learns how it ended.
LEMMA RunIInv ==
    ASSUME IInv, NEW j \in Job,
           Launch(j) \/ ChildExits(j) \/ Reap(j) \/ KillOnCancel(j) \/ KillOnTimeout(j)
    PROVE  IInv'
<1> USE DEF Launch, ChildExits, Reap, KillOnCancel, KillOnTimeout, Ended, StatusOf, Alive
<1>1. UNCHANGED <<record, process, unrecovered, registry, flag, starter, cancel>>
  OBVIOUS
<1>2. TypeOK'
  <2>1. /\ outcome' \in [Job -> Outcome]
        /\ child' \in [Job -> {"none", "alive", "succeeded", "failed", "killed"}]
    BY DEF IInv, TypeOK, Outcome
  <2>2. worker' \in [Job -> {"none", "spawned", "running", "settling", "settled", "finished",
                             "unsaved", "lost", "died"}]
    BY DEF IInv, TypeOK
  <2> QED BY <1>1, <2>1, <2>2 DEF IInv, TypeOK
<1>3. ThreadsLive' /\ OutcomesAreTrue'
  BY <1>1, Shape DEF IInv, ThreadsLive, Starts, Works, OutcomesAreTrue
<1>4. PlacesMatch' /\ PlacesBounded'
  BY <1>1, Shape DEF IInv, PlacesMatch, PlacesBounded, Works
<1>5. RecordsHold'
  BY <1>1, Shape DEF IInv, RecordsHold, Sound
<1>6. CancelsReadUnsettled' /\ RecoveryKnows'
  BY <1>1 DEF IInv, CancelsReadUnsettled, RecoveryKnows, Unsettled
<1>7. NobodyForgotten'
  BY <1>1, Shape DEF IInv, NobodyForgotten, Unsettled
<1> QED BY <1>2, <1>3, <1>4, <1>5, <1>6, <1>7 DEF IInv

\* The thread writes that the job runs, and in the end what became of it.
LEMMA WorkWriteIInv ==
    ASSUME IInv, NEW j \in Job, WorkerStart(j) \/ Settle(j)
    PROVE  IInv'
<1> USE OperatorJobsAssumption DEF WorkerStart, Settle, Deregister, Alive
<1>1. UNCHANGED <<process, unrecovered, flag, starter, outcome, child, cancel>>
  OBVIOUS
<1>2. Sound(j, Open("running"))
  BY OpenRecord DEF Sound, State, Terminal
<1>3. worker[j] = "settling" => Sound(j, FinalRecord(j)) /\ FinalRecord(j).state \in Terminal
  <2>1. worker[j] = "settling" => outcome[j] \in Outcome \ {"none"}
    BY DEF IInv, TypeOK, OutcomesAreTrue
  <2> QED BY <2>1, SealedRecord
          DEF FinalRecord, Outcome, State, Run, Terminal, Sound, IInv, OutcomesAreTrue
<1>4. /\ RecordsHold' /\ record' \in [Job -> Records \union {None}]
      /\ \A k \in Job \ {j} : record'[k] = record[k]
      /\ record'[j] = record[j] \/ record'[j] \in Records
  <2>1. CASE UNCHANGED record
    BY <1>1, <2>1 DEF IInv, TypeOK, RecordsHold, Sound
  <2>2. CASE Write(j, Open("running"))
    BY <1>1, <1>2, <2>2, WriteIsSound DEF Write, Sound
  <2>3. CASE worker[j] = "settling" /\ Write(j, FinalRecord(j))
    BY <1>1, <1>3, <2>3, WriteIsSound DEF Write, Sound
  <2> QED BY <2>1, <2>2, <2>3
<1>5. TypeOK'
  BY <1>1, <1>4 DEF IInv, TypeOK
<1>6. ThreadsLive' /\ OutcomesAreTrue' /\ CancelsReadUnsettled'
  BY <1>1, Shape DEF IInv, ThreadsLive, Starts, Works, OutcomesAreTrue, CancelsReadUnsettled
<1>7. PlacesMatch'
  BY <1>1, Shape DEF IInv, PlacesMatch, ThreadsLive, Works
<1>8. PlacesBounded'
  BY Shape, FewerPlaces
<1>9. RecoveryKnows'
  <2>1. \A p \in Process : \A k \in unrecovered'[p] : record'[k] \in Records
    BY <1>1, <1>4, OperatorJobsAssumption DEF IInv, RecoveryKnows, TypeOK
  <2>2. \A k \in Job : record'[k] # None /\ record'[k].state \notin Terminal /\ process'[HomeOf[k]] = "recovering" =>
            k \in unrecovered'[HomeOf[k]] \/ record'[k].error = "cancellation requested"
    BY <1>1, <1>4 DEF IInv, RecoveryKnows, Unsettled, ThreadsLive, Works
  <2> QED BY <2>1, <2>2 DEF RecoveryKnows, Unsettled
<1>10. NobodyForgotten'
  <2>1. worker'[j] \in {"running", "lost", "unsaved"} \/ record'[j].state \in Terminal
    BY <1>3, Shape DEF Write
  <2> QED BY <1>1, <1>4, <2>1, Shape DEF IInv, NobodyForgotten, Unsettled
<1> QED BY <1>4, <1>5, <1>6, <1>7, <1>8, <1>9, <1>10 DEF IInv

\* The thread gives its place back and ends.
LEMMA ReleaseIInv ==
    ASSUME IInv, NEW j \in Job, Release(j)
    PROVE  IInv'
<1> USE OperatorJobsAssumption DEF Release, Deregister, Alive
<1>1. TypeOK'
  BY DEF IInv, TypeOK
<1>2. ThreadsLive' /\ OutcomesAreTrue' /\ RecordsHold' /\ CancelsReadUnsettled'
  BY Shape DEF IInv, ThreadsLive, Starts, Works, OutcomesAreTrue, RecordsHold, Sound, CancelsReadUnsettled
<1>3. PlacesMatch'
  BY Shape DEF IInv, PlacesMatch, ThreadsLive, Works
<1>4. PlacesBounded'
  BY Shape, FewerPlaces
<1>5. RecoveryKnows' /\ NobodyForgotten'
  BY Shape DEF IInv, RecoveryKnows, NobodyForgotten, Unsettled
<1> QED BY <1>1, <1>2, <1>3, <1>4, <1>5 DEF IInv

-----------------------------------------------------------------------------
(* The steps of a cancel call. *)

\* cancel_operator_job reads an unsettled record.
LEMMA CancelLoadIInv ==
    ASSUME IInv, NEW c \in Canceller, NEW p \in Process, NEW j \in Job, CancelLoad(c, p, j)
    PROVE  IInv'
<1> USE DEF CancelLoad, Alive
<1>1. UNCHANGED <<record, process, unrecovered, registry, flag, starter, worker, outcome, child>>
  OBVIOUS
<1>2. record[j] \in Records /\ record[j].state \notin Terminal /\ Verifies(record[j])
  BY DEF IInv, TypeOK, Unsettled
<1>3. TypeOK'
  BY <1>1, <1>2 DEF IInv, TypeOK
<1>4. CancelsReadUnsettled'
  BY <1>2, Shape DEF IInv, CancelsReadUnsettled
<1>5. ThreadsLive' /\ PlacesMatch' /\ PlacesBounded' /\ OutcomesAreTrue'
  BY <1>1 DEF IInv, ThreadsLive, PlacesMatch, PlacesBounded, OutcomesAreTrue
<1>6. RecordsHold' /\ RecoveryKnows' /\ NobodyForgotten'
  BY <1>1 DEF IInv, RecordsHold, Sound, RecoveryKnows, NobodyForgotten, Unsettled
<1> QED BY <1>3, <1>4, <1>5, <1>6 DEF IInv

\* It sets the flag, or finds no entry.
LEMMA CancelFlagIInv ==
    ASSUME IInv, NEW c \in Canceller, CancelFlag(c)
    PROVE  IInv'
<1> USE DEF CancelFlag, Alive
<1>1. UNCHANGED <<record, process, unrecovered, registry, starter, worker, outcome, child>>
  OBVIOUS
<1>2. /\ cancel[c] \in [in : Process, job : Job, read : Records, flagged : BOOLEAN]
      /\ cancel' = [cancel EXCEPT ![c] = None] \/ cancel' = [cancel EXCEPT ![c].flagged = TRUE]
      /\ flag' = flag \/ flag' = [flag EXCEPT ![cancel[c].job] = TRUE]
  BY DEF IInv, TypeOK
<1>3. TypeOK'
  <2>1. cancel' \in [Canceller -> {None} \union
            [in : Process, job : Job, read : Records, flagged : BOOLEAN]]
    <3> DEFINE Calls == {None} \union [in : Process, job : Job, read : Records, flagged : BOOLEAN]
    <3>1. [cancel[c] EXCEPT !.flagged = TRUE] \in Calls /\ None \in Calls
      BY <1>2
    <3>2. cancel \in [Canceller -> Calls]
      BY DEF IInv, TypeOK
    <3> HIDE DEF Calls
    <3>3. cancel' \in [Canceller -> Calls]
      BY <1>2, <3>1, <3>2
    <3> QED BY <3>3 DEF Calls
  <2>2. flag' \in [Job -> BOOLEAN]
    BY <1>2 DEF IInv, TypeOK
  <2> QED BY <1>1, <2>1, <2>2 DEF IInv, TypeOK
<1>4. CancelsReadUnsettled'
  BY <1>2, Shape DEF IInv, CancelsReadUnsettled
<1>5. \A j \in Job : flag[j] => flag'[j]
  BY <1>2, Shape DEF IInv, TypeOK
<1>6. ThreadsLive' /\ PlacesMatch' /\ PlacesBounded' /\ OutcomesAreTrue' /\ RecordsHold'
  BY <1>1, <1>5 DEF IInv, ThreadsLive, PlacesMatch, PlacesBounded, OutcomesAreTrue, RecordsHold, Sound
<1>7. RecoveryKnows' /\ NobodyForgotten'
  BY <1>1 DEF IInv, RecoveryKnows, NobodyForgotten, Unsettled
<1> QED BY <1>3, <1>4, <1>6, <1>7 DEF IInv

\* It writes back the record it read.
LEMMA CancelPersistIInv ==
    ASSUME IInv, NEW c \in Canceller, CancelPersist(c)
    PROVE  IInv'
<1> DEFINE j == cancel[c].job
           r == [cancel[c].read EXCEPT !.error = "cancellation requested"]
<1>1. UNCHANGED <<process, unrecovered, registry, flag, starter, worker, outcome, child>>
  BY DEF CancelPersist
<1>2. cancel[c] # None /\ cancel[c] \in [in : Process, job : Job, read : Records, flagged : BOOLEAN]
  BY DEF CancelPersist, IInv, TypeOK
<1>3. j \in Job /\ r \in Records /\ r.error = "cancellation requested" /\ r.state \notin Terminal
  BY <1>2 DEF Records, IInv, CancelsReadUnsettled
<1>4. Sound(j, r)
  BY <1>2, <1>3 DEF Sound, Terminal, Records, Verifies, IInv, CancelsReadUnsettled
<1>5. UNCHANGED record \/ record' = [record EXCEPT ![j] = r]
  BY DEF CancelPersist, Write
<1>6. cancel' = [cancel EXCEPT ![c] = None]
  BY DEF CancelPersist
<1> HIDE DEF j, r
<1>7. /\ RecordsHold' /\ record' \in [Job -> Records \union {None}]
      /\ \A k \in Job \ {j} : record'[k] = record[k]
      /\ record'[j] = record[j] \/ record'[j] = r
  <2>1. CASE UNCHANGED record
    BY <1>1, <2>1 DEF IInv, TypeOK, RecordsHold, Sound
  <2>2. CASE record' = [record EXCEPT ![j] = r]
    BY <1>1, <1>3, <1>4, <2>2, WriteIsSound
  <2> QED BY <1>5, <2>1, <2>2
<1>8. TypeOK'
  BY <1>1, <1>6, <1>7 DEF IInv, TypeOK
<1>9. ThreadsLive' /\ PlacesMatch' /\ PlacesBounded' /\ OutcomesAreTrue'
  BY <1>1 DEF IInv, ThreadsLive, PlacesMatch, PlacesBounded, OutcomesAreTrue, Alive
<1>10. CancelsReadUnsettled'
  BY <1>6, Shape DEF IInv, CancelsReadUnsettled
<1>11. RecoveryKnows'
  <2>1. \A p \in Process : \A k \in unrecovered'[p] : record'[k] \in Records
    BY <1>1, <1>3, <1>7, OperatorJobsAssumption DEF IInv, RecoveryKnows, TypeOK
  <2>2. \A k \in Job : record'[k] # None /\ record'[k].state \notin Terminal /\ process'[HomeOf[k]] = "recovering" =>
            k \in unrecovered'[HomeOf[k]] \/ record'[k].error = "cancellation requested"
    BY <1>1, <1>3, <1>7 DEF IInv, RecoveryKnows, Unsettled
  <2> QED BY <2>1, <2>2 DEF RecoveryKnows, Unsettled
<1>12. NobodyForgotten'
  BY <1>1, <1>3, <1>7 DEF IInv, NobodyForgotten, Unsettled
<1> QED BY <1>7, <1>8, <1>9, <1>10, <1>11, <1>12 DEF IInv

-----------------------------------------------------------------------------
(* The steps of a process. *)

\* A process dies: its jobs are left to the recovery.
LEMMA CrashIInv ==
    ASSUME IInv, NEW p \in Process, Crash(p)
    PROVE  IInv'
<1> USE OperatorJobsAssumption DEF Crash, Alive
<1>1. UNCHANGED <<record, flag, outcome, child>>
  OBVIOUS
<1>2. TypeOK'
  BY <1>1 DEF IInv, TypeOK
<1>3. ThreadsLive' /\ OutcomesAreTrue' /\ RecordsHold' /\ CancelsReadUnsettled'
  BY <1>1, Shape DEF IInv, ThreadsLive, Starts, Works, OutcomesAreTrue, RecordsHold, Sound,
     CancelsReadUnsettled
<1>4. PlacesMatch'
  <2> SUFFICES ASSUME NEW q \in Process
               PROVE  registry'[q] = {j \in Job : /\ HomeOf[j] = q
                                                  /\ starter'[j] = "registered" \/ worker'[j] \in Works}
    BY DEF PlacesMatch
  <2>1. CASE q = p
    BY <2>1, Shape DEF IInv, ThreadsLive, Works
  <2>2. CASE q # p
    BY <2>2, Shape DEF IInv, PlacesMatch, Works
  <2> QED BY <2>1, <2>2
<1>5. PlacesBounded'
  BY Shape, FewerPlaces
<1>6. RecoveryKnows'
  BY <1>1, Shape DEF IInv, RecoveryKnows, Unsettled
<1>7. NobodyForgotten'
  BY <1>1, Shape DEF IInv, NobodyForgotten, Unsettled
<1> QED BY <1>2, <1>3, <1>4, <1>5, <1>6, <1>7 DEF IInv

\* A server starts to recover, or has recovered and binds its address.
LEMMA ServeIInv ==
    ASSUME IInv, NEW p \in Process, Restart(p) \/ Bind(p)
    PROVE  IInv'
<1> USE OperatorJobsAssumption DEF Restart, Bind, Alive
<1>1. UNCHANGED <<record, registry, flag, starter, worker, outcome, child, cancel>>
  OBVIOUS
<1>2. process[p] # "up" /\ \A q \in Process \ {p} : process'[q] = process[q]
  BY Shape
<1>3. TypeOK'
  BY <1>1 DEF IInv, TypeOK
<1>4. ThreadsLive'
  BY <1>1, <1>2 DEF IInv, ThreadsLive
<1>5. PlacesMatch' /\ PlacesBounded' /\ OutcomesAreTrue' /\ RecordsHold' /\ CancelsReadUnsettled'
  BY <1>1 DEF IInv, PlacesMatch, PlacesBounded, OutcomesAreTrue, RecordsHold, Sound, CancelsReadUnsettled
<1>6. RecoveryKnows'
  <2>1. \A q \in Process : \A k \in unrecovered'[q] : record'[k] \in Records
    <3>1. \A k \in Job : record[k] # None => record[k] \in Records
      BY DEF IInv, TypeOK
    <3>2. \A q \in Process : \A k \in unrecovered'[q] :
             k \in unrecovered[q] \/ (k \in Job /\ record[k] # None)
      BY Shape
    <3> QED BY <1>1, <3>1, <3>2 DEF IInv, RecoveryKnows
  <2>2. \A k \in Job : Unsettled(k) /\ process'[HomeOf[k]] = "recovering" =>
            k \in unrecovered'[HomeOf[k]] \/ record[k].error = "cancellation requested"
    <3>1. CASE Restart(p)
      BY <3>1, Shape DEF IInv, RecoveryKnows, Unsettled, Incomplete
    <3>2. CASE Bind(p)
      BY <3>2, Shape DEF IInv, RecoveryKnows
    <3> QED BY <3>1, <3>2
  <2> QED BY <1>1, <2>1, <2>2 DEF RecoveryKnows, Unsettled
<1>7. NobodyForgotten'
  <2> SUFFICES ASSUME NEW k \in Job, Unsettled(k)
               PROVE  \/ starter[k] \in {"persisted", "rejecting", "registered"}
                      \/ worker[k] \in {"spawned", "running", "settling"}
                      \/ process'[HomeOf[k]] # "up"
                      \/ starter[k] = "failed" \/ worker[k] \in {"unsaved", "lost"}
                      \/ record[k].error = "cancellation requested"
    BY <1>1 DEF NobodyForgotten, Unsettled
  <2>1. CASE HomeOf[k] = p
    BY <2>1, Shape DEF IInv, RecoveryKnows
  <2>2. CASE HomeOf[k] # p
    BY <1>2, <2>2 DEF IInv, NobodyForgotten
  <2> QED BY <2>1, <2>2
<1> QED BY <1>3, <1>4, <1>5, <1>6, <1>7 DEF IInv

\* A recovering server rewrites a record it has read.
LEMMA RecoverIInv ==
    ASSUME IInv, NEW p \in Process, NEW j \in Job, Recover(p, j)
    PROVE  IInv'
<1> USE OperatorJobsAssumption DEF Recover, Alive
<1>1. /\ UNCHANGED <<process, registry, flag, starter, worker, outcome, child, cancel>>
      /\ record' = [record EXCEPT ![j] = Recovered(record[j])]
      /\ unrecovered' = [unrecovered EXCEPT ![p] = @ \ {j}]
  BY DEF Write
<1>2. Sound(j, Recovered(record[j])) /\ Recovered(record[j]).state = "failed"
  <2>1. record[j] \in Records
    BY DEF IInv, RecoveryKnows
  <2>2. record[j].run \in Run
    BY <2>1 DEF Records
  <2> QED BY <2>2, SealedRecord DEF Recovered, Sound, State, Terminal
<1> DEFINE r == Recovered(record[j])
<1> HIDE DEF r
<1>3. /\ RecordsHold' /\ record' \in [Job -> Records \union {None}]
      /\ record'[j] = r /\ \A k \in Job \ {j} : record'[k] = record[k]
  BY <1>1, <1>2, WriteIsSound DEF r
<1>4. TypeOK'
  BY <1>1, <1>3 DEF IInv, TypeOK
<1>5. ThreadsLive' /\ PlacesMatch' /\ PlacesBounded' /\ OutcomesAreTrue' /\ CancelsReadUnsettled'
  BY <1>1 DEF IInv, ThreadsLive, PlacesMatch, PlacesBounded, OutcomesAreTrue, CancelsReadUnsettled
<1>6. r \in Records /\ r.state \in Terminal
  BY <1>2 DEF Sound, Terminal, r
<1>7. RecoveryKnows'
  <2>1. \A q \in Process : \A k \in unrecovered'[q] : record'[k] \in Records
    <3>1. \A q \in Process : unrecovered'[q] \subseteq unrecovered[q] /\ unrecovered[q] \subseteq Job
      BY <1>1, Shape DEF IInv, TypeOK
    <3> QED BY <1>3, <1>6, <3>1 DEF IInv, RecoveryKnows
  <2>2. \A k \in Job : record'[k] # None /\ record'[k].state \notin Terminal /\ process'[HomeOf[k]] = "recovering" =>
            k \in unrecovered'[HomeOf[k]] \/ record'[k].error = "cancellation requested"
    <3>1. \A k \in Job \ {j} : k \in unrecovered[HomeOf[k]] => k \in unrecovered'[HomeOf[k]]
      BY <1>1, Shape
    <3> QED BY <1>1, <1>3, <1>6, <3>1 DEF IInv, RecoveryKnows, Unsettled
  <2> QED BY <2>1, <2>2 DEF RecoveryKnows, Unsettled
<1>8. NobodyForgotten'
  BY <1>1, <1>3, <1>6 DEF IInv, NobodyForgotten, Unsettled
<1> QED BY <1>3, <1>4, <1>5, <1>7, <1>8 DEF IInv

-----------------------------------------------------------------------------
(* The theorems. *)

\* A home without jobs satisfies the invariant.
LEMMA InitIInv == Init => IInv
<1> SUFFICES ASSUME Init PROVE IInv
  OBVIOUS
<1>1. Cardinality({}) <= MaxJobs
  BY OperatorJobsAssumption, FS_EmptySet
<1>2. TypeOK
  BY DEF Init, TypeOK, Outcome
<1> QED BY <1>1, <1>2, OperatorJobsAssumption
        DEF Init, IInv, ThreadsLive, Starts, Works, PlacesMatch, PlacesBounded, OutcomesAreTrue,
            RecordsHold, CancelsReadUnsettled, RecoveryKnows, NobodyForgotten, Unsettled

\* No step of a caller, a thread, a child or a process breaks the invariant.
LEMMA NextIInv == IInv /\ [Next]_vars => IInv'
<1> SUFFICES ASSUME IInv, [Next]_vars PROVE IInv'
  OBVIOUS
<1>1. ASSUME NEW j \in Job, Starting(j) \/ Working(j) \/ ChildExits(j) \/ KillOnTimeout(j)
      PROVE  IInv'
  BY <1>1, StartIInv, StartWriteIInv, RunIInv, WorkWriteIInv, ReleaseIInv DEF Starting, Working
<1>2. ASSUME NEW c \in Canceller,
             Cancelling(c) \/ \E p \in Process, j \in Job : CancelLoad(c, p, j)
      PROVE  IInv'
  BY <1>2, CancelLoadIInv, CancelFlagIInv, CancelPersistIInv DEF Cancelling
<1>3. ASSUME NEW p \in Process, Crash(p) \/ Serving(p)
      PROVE  IInv'
  BY <1>3, CrashIInv, ServeIInv, RecoverIInv DEF Serving
<1>4. ASSUME UNCHANGED vars
      PROVE  IInv'
  BY <1>4 DEF vars, IInv, TypeOK, ThreadsLive, Alive, PlacesMatch, PlacesBounded, OutcomesAreTrue,
              RecordsHold, Sound, CancelsReadUnsettled, RecoveryKnows, NobodyForgotten, Unsettled
<1> QED BY <1>1, <1>2, <1>3, <1>4 DEF Next

\* The strengthened invariant holds in every reachable state.
THEOREM Invariance == Spec => []IInv
BY InitIInv, NextIInv, PTL DEF Spec

\* Whatever start_operator_job, its thread, cancel_operator_job and
\* recover_incomplete_operator_jobs do to a status file, what is read from it is
\* sealed, true, and somebody's business until it is settled.
THEOREM RecordsStaySound == Spec => []RecordsAreSound
<1>1. IInv => SettledIsSealed /\ RecordsTellTheTruth
  BY DEF IInv, RecordsHold, Sound, SettledIsSealed, RecordsTellTheTruth
<1>2. IInv => RecordsAreSound
  BY <1>1 DEF IInv, RecordsAreSound
<1> QED BY <1>2, Invariance, PTL

\* MAX_CONCURRENT_OPERATOR_JOBS bounds the children that a process supervises.
THEOREM ChildrenStayBounded == Spec => []ChildrenBounded
<1>1. IInv => ChildrenBounded
  <2> SUFFICES ASSUME IInv, NEW p \in Process
               PROVE  Cardinality({j \in Job : /\ HomeOf[j] = p
                                               /\ worker[j] = "running" /\ child[j] = "alive"}) <= MaxJobs
    BY DEF ChildrenBounded
  <2> DEFINE running == {j \in Job : HomeOf[j] = p /\ worker[j] = "running" /\ child[j] = "alive"}
  <2>1. running \subseteq registry[p] /\ IsFiniteSet(registry[p])
    BY OperatorJobsAssumption, FS_Subset DEF IInv, PlacesMatch, Works
  <2>2. IsFiniteSet(running) /\ Cardinality(running) <= Cardinality(registry[p])
    BY <2>1, FS_Subset
  <2>3. Cardinality(registry[p]) \in Nat /\ Cardinality(running) \in Nat
    BY <2>1, <2>2, FS_CardinalityType
  <2> QED BY <2>2, <2>3, OperatorJobsAssumption DEF IInv, PlacesBounded
<1> QED BY <1>1, Invariance, PTL

-----------------------------------------------------------------------------
(***************************************************************************)
(* With one process the settled records are final.  (A second server that  *)
(* starts on the same home settles the jobs of the first, whose threads    *)
(* overwrite what it wrote.)                                               *)
(***************************************************************************)

InProgress(j) == \/ starter[j] \in {"persisted", "registered", "rejecting"}
                 \/ worker[j] \in {"spawned", "running", "settling"}

\* A job has a status file, is cancelled or recovered only once it is queued.
FilesAreStarted ==
    /\ \A j \in Job : record[j] # None => starter[j] \notin {"idle", "listed"}
    /\ \A c \in Canceller : cancel[c] # None => starter[cancel[c].job] \notin {"idle", "listed"}
    /\ \A p \in Process : \A j \in unrecovered[p] : starter[j] \notin {"idle", "listed"}

\* The record of a call in progress is not settled.
OpenWhileInProgress ==
    \A j \in Job : InProgress(j) /\ record[j] # None => record[j].state \notin Terminal

\* A server has records to rewrite only while it recovers, and none is settled.
RecoversUnsettled ==
    \A p \in Process :
        /\ process[p] # "recovering" => unrecovered[p] = {}
        /\ \A j \in unrecovered[p] : record[j] # None => record[j].state \notin Terminal

OneInv == IInv /\ FilesAreStarted /\ OpenWhileInProgress /\ RecoversUnsettled

\* A start call and its thread write only to a record that is not settled.
LEMMA ThreadWrites ==
    ASSUME OneInv, NEW j \in Job,
           \/ List(j) \/ PersistQueued(j) \/ Register(j) \/ Reject(j) \/ Spawn(j)
           \/ WorkerStart(j) \/ Settle(j) \/ Release(j)
    PROVE  /\ FilesAreStarted' /\ OpenWhileInProgress'
           /\ \A k \in Job : record[k] # None /\ record[k].state \in Terminal => record'[k] = record[k]
<1> USE DEF List, PersistQueued, Register, Reject, Spawn, WorkerStart, Settle, Release, Alive, Write
<1>1. UNCHANGED <<process, unrecovered, flag, outcome, child, cancel>> /\ Alive(j)
  BY DEF OneInv, IInv, ThreadsLive, Works
<1>2. Open("queued").state = "queued" /\ Open("running").state = "running"
  BY DEF Open
<1>3. \A k \in Job \ {j} : record'[k] = record[k] /\ starter'[k] = starter[k] /\ worker'[k] = worker[k]
  BY Shape DEF OneInv
<1>4. \/ UNCHANGED record
      \/ starter[j] = "listed" \/ InProgress(j)
  BY DEF InProgress
<1>5. \/ record'[j] = record[j] /\ (InProgress(j)' => InProgress(j) \/ record[j] = None)
      \/ record'[j] = Open("queued") \/ record'[j] = Open("running")
      \/ ~InProgress(j)'
  BY Shape DEF OneInv, InProgress, IInv, ThreadsLive, FilesAreStarted
<1>6. starter'[j] \in {"idle", "listed"} => starter[j] \in {"idle", "listed"} /\ UNCHANGED record
  BY Shape DEF OneInv, IInv, ThreadsLive
<1>7. FilesAreStarted'
  <2>1. \A k \in Job : starter'[k] \in {"idle", "listed"} =>
            starter[k] \in {"idle", "listed"} /\ record'[k] = record[k]
    BY <1>3, <1>6
  <2>2. /\ \A c \in Canceller : cancel[c] # None => cancel[c].job \in Job
        /\ \A q \in Process : unrecovered[q] \subseteq Job
    BY DEF OneInv, IInv, TypeOK
  <2> QED BY <1>1, <2>1, <2>2 DEF OneInv, FilesAreStarted
<1>8. OpenWhileInProgress'
  BY <1>2, <1>3, <1>5 DEF OneInv, OpenWhileInProgress, InProgress, Terminal
<1>9. \A k \in Job : record[k] # None /\ record[k].state \in Terminal => record'[k] = record[k]
  BY <1>3, <1>4 DEF OneInv, FilesAreStarted, OpenWhileInProgress
<1> QED BY <1>7, <1>8, <1>9

\* What a start call or a thread does, a recovering server does not see: no
\* process is up.
LEMMA ThreadOneInv ==
    ASSUME NEW p \in Process, Process = {p}, OneInv, NEW j \in Job,
           Starting(j) \/ Working(j) \/ ChildExits(j) \/ KillOnTimeout(j)
    PROVE  /\ OneInv'
           /\ \A k \in Job : record[k] # None /\ record[k].state \in Terminal => record'[k] = record[k]
<1>1. IInv'
  BY NextIInv DEF OneInv, Next
<1>2. CASE \/ List(j) \/ PersistQueued(j) \/ Register(j) \/ Reject(j) \/ Spawn(j)
           \/ WorkerStart(j) \/ Settle(j) \/ Release(j)
  <2>1. process[p] = "up" /\ UNCHANGED <<process, unrecovered>>
    BY <1>2, OperatorJobsAssumption
       DEF OneInv, IInv, ThreadsLive, Works, List, PersistQueued, Register, Reject, Spawn,
           WorkerStart, Settle, Release, Alive
  <2>2. RecoversUnsettled'
    BY <2>1 DEF OneInv, RecoversUnsettled
  <2> QED BY <1>1, <1>2, <2>2, ThreadWrites DEF OneInv
<1>3. CASE Launch(j) \/ Reap(j) \/ KillOnCancel(j) \/ ChildExits(j) \/ KillOnTimeout(j)
  <2>1. /\ UNCHANGED <<record, process, unrecovered, starter, cancel>>
        /\ \A k \in Job : worker'[k] = worker[k] \/ worker[k] = "running"
    BY <1>3, Shape DEF Launch, Reap, KillOnCancel, ChildExits, KillOnTimeout, Ended, OneInv
  <2> QED BY <1>1, <2>1 DEF OneInv, FilesAreStarted, OpenWhileInProgress, InProgress, RecoversUnsettled
<1> QED BY <1>2, <1>3 DEF Starting, Working

\* A cancel call writes a record that is not settled.
LEMMA CancelOneInv ==
    ASSUME OneInv, NEW c \in Canceller,
           Cancelling(c) \/ \E p \in Process, j \in Job : CancelLoad(c, p, j)
    PROVE  /\ OneInv'
           /\ \A k \in Job : record'[k] = record[k]
                             \/ (cancel[c] # None /\ cancel[c].job = k /\ cancel'[c] = None)
<1>1. IInv'
  BY NextIInv DEF OneInv, Next
<1>2. CASE CancelFlag(c) \/ \E p \in Process, j \in Job : CancelLoad(c, p, j)
  <2>1. UNCHANGED <<record, process, unrecovered, starter, worker>>
    BY <1>2 DEF CancelFlag, CancelLoad
  <2>2. \A d \in Canceller : cancel'[d] # None =>
            \/ cancel[d] # None /\ cancel'[d].job = cancel[d].job
            \/ record[cancel'[d].job] # None /\ cancel'[d].job \in Job
    <3>1. CASE CancelFlag(c)
      <4>1. cancel[c] \in [in : Process, job : Job, read : Records, flagged : BOOLEAN]
        BY <3>1 DEF CancelFlag, OneInv, IInv, TypeOK
      <4>2. [cancel[c] EXCEPT !.flagged = TRUE].job = cancel[c].job
        BY <4>1
      <4> QED BY <3>1, <4>2, Shape DEF CancelFlag, OneInv
    <3>2. CASE \E q \in Process, j \in Job : CancelLoad(c, q, j)
      BY <3>2, Shape DEF CancelLoad, Unsettled, OneInv
    <3> QED BY <1>2, <3>1, <3>2
  <2>3. FilesAreStarted'
    BY <2>1, <2>2 DEF OneInv, FilesAreStarted
  <2> QED BY <1>1, <2>1, <2>3 DEF OneInv, OpenWhileInProgress, InProgress, RecoversUnsettled
<1>3. CASE CancelPersist(c)
  <2> DEFINE j == cancel[c].job
             r == [cancel[c].read EXCEPT !.error = "cancellation requested"]
  <2>1. cancel[c] # None /\ cancel[c] \in [in : Process, job : Job, read : Records, flagged : BOOLEAN]
    BY <1>3 DEF CancelPersist, OneInv, IInv, TypeOK
  <2>2. j \in Job /\ r.state \notin Terminal
    BY <2>1 DEF Records, OneInv, IInv, CancelsReadUnsettled
  <2>3. UNCHANGED record \/ record' = [record EXCEPT ![j] = r]
    BY <1>3 DEF CancelPersist, Write
  <2>4. UNCHANGED <<process, unrecovered, starter, worker>> /\ cancel' = [cancel EXCEPT ![c] = None]
    BY <1>3 DEF CancelPersist
  <2>5. starter[j] \notin {"idle", "listed"}
    BY <2>1 DEF OneInv, FilesAreStarted
  <2>6. j = cancel[c].job
    OBVIOUS
  <2> HIDE DEF j, r
  <2>7. /\ \A k \in Job \ {j} : record'[k] = record[k]
        /\ record'[j] = record[j] \/ record'[j] = r
        /\ \A d \in Canceller : cancel'[d] = cancel[d] \/ cancel'[d] = None
        /\ cancel'[c] = None
    BY <2>2, <2>3, <2>4, Shape DEF OneInv
  <2>8. FilesAreStarted'
    BY <2>4, <2>5, <2>7 DEF OneInv, FilesAreStarted
  <2>9. OpenWhileInProgress'
    BY <2>2, <2>4, <2>7 DEF OneInv, OpenWhileInProgress, InProgress
  <2>10. RecoversUnsettled'
    <3>1. \A q \in Process : unrecovered[q] \subseteq Job
      BY DEF OneInv, IInv, TypeOK
    <3> QED BY <2>2, <2>4, <2>7, <3>1 DEF OneInv, RecoversUnsettled
  <2> QED BY <1>1, <2>1, <2>6, <2>7, <2>8, <2>9, <2>10 DEF OneInv
<1> QED BY <1>2, <1>3 DEF Cancelling

\* A process dies or recovers; only it could have had calls in progress.
LEMMA ProcessOneInv ==
    ASSUME NEW p \in Process, Process = {p}, OneInv, Crash(p) \/ Serving(p)
    PROVE  /\ OneInv'
           /\ \A k \in Job : record[k] # None /\ record[k].state \in Terminal => record'[k] = record[k]
<1>1. IInv'
  BY NextIInv DEF OneInv, Next
<1>2. CASE Crash(p)
  <2>1. /\ UNCHANGED record /\ unrecovered'[p] = {}
        /\ \A k \in Job : starter'[k] = starter[k] \/ starter'[k] = "returned"
        /\ \A k \in Job : worker'[k] = worker[k] \/ worker'[k] = "died"
        /\ \A c \in Canceller : cancel'[c] = cancel[c] \/ cancel'[c] = None
    BY <1>2, Shape DEF Crash, OneInv
  <2>2. /\ \A c \in Canceller : cancel[c] # None => cancel[c].job \in Job
        /\ \A q \in Process : unrecovered[q] \subseteq Job
    BY DEF OneInv, IInv, TypeOK
  <2>3. FilesAreStarted'
    BY <2>1, <2>2 DEF OneInv, FilesAreStarted
  <2>4. OpenWhileInProgress' /\ RecoversUnsettled'
    BY <2>1 DEF OneInv, OpenWhileInProgress, InProgress, RecoversUnsettled
  <2> QED BY <1>1, <2>1, <2>3, <2>4 DEF OneInv
<1>3. CASE Restart(p)
  <2>1. /\ UNCHANGED <<record, starter, worker, cancel>> /\ process'[p] = "recovering"
        /\ unrecovered'[p] = {j \in Job : record[j] # None /\ Incomplete(record[j])}
    BY <1>3, Shape DEF Restart, OneInv
  <2>2. \A j \in Job : record[j] # None /\ Incomplete(record[j]) => record[j].state \notin Terminal
    BY DEF OneInv, IInv, RecordsHold, Sound, Incomplete
  <2>3. FilesAreStarted' /\ OpenWhileInProgress' /\ RecoversUnsettled'
    BY <2>1, <2>2 DEF OneInv, FilesAreStarted, OpenWhileInProgress, InProgress, RecoversUnsettled
  <2> QED BY <1>1, <2>1, <2>3 DEF OneInv
<1>4. CASE Bind(p)
  <2>1. UNCHANGED <<record, unrecovered, starter, worker, cancel>> /\ unrecovered[p] = {}
    BY <1>4 DEF Bind
  <2>2. FilesAreStarted' /\ OpenWhileInProgress' /\ RecoversUnsettled'
    BY <2>1 DEF OneInv, FilesAreStarted, OpenWhileInProgress, InProgress, RecoversUnsettled
  <2> QED BY <1>1, <2>1, <2>2 DEF OneInv
<1>5. ASSUME NEW j \in Job, Recover(p, j)
      PROVE  /\ OneInv'
             /\ \A k \in Job : record[k] # None /\ record[k].state \in Terminal => record'[k] = record[k]
  <2>1. /\ UNCHANGED <<process, starter, worker, cancel>>
        /\ process[p] = "recovering" /\ j \in unrecovered[p]
        /\ unrecovered'[p] = unrecovered[p] \ {j}
        /\ \A k \in Job \ {j} : record'[k] = record[k]
    BY <1>5, Shape DEF Recover, Write, OneInv
  <2>2. record[j] # None => record[j].state \notin Terminal
    BY <2>1 DEF OneInv, RecoversUnsettled
  <2>3. ~InProgress(j)
    BY <2>1, OperatorJobsAssumption DEF OneInv, IInv, ThreadsLive, Starts, Works, Alive, InProgress
  <2>4. unrecovered[p] \subseteq Job
    BY DEF OneInv, IInv, TypeOK
  <2>5. FilesAreStarted'
    BY <2>1 DEF OneInv, FilesAreStarted
  <2>6. OpenWhileInProgress' /\ RecoversUnsettled'
    BY <2>1, <2>3, <2>4 DEF OneInv, OpenWhileInProgress, InProgress, RecoversUnsettled
  <2> QED BY <1>1, <2>1, <2>2, <2>5, <2>6 DEF OneInv
<1> QED BY <1>2, <1>3, <1>4, <1>5 DEF Serving

\* In one process a settled record is rewritten only by a cancel call that read
\* it earlier: by no start, no thread and no recovery.
THEOREM SettledStaysFinal ==
    ASSUME NEW p \in Process, Process = {p}
    PROVE  Spec => SettledIsFinal
<1>1. Init => OneInv
  BY InitIInv DEF Init, OneInv, FilesAreStarted, OpenWhileInProgress, RecoversUnsettled
<1>2. ASSUME OneInv, [Next]_vars
      PROVE  /\ OneInv'
             /\ \A j \in Job : record[j] # None /\ record[j].state \in Terminal =>
                   \/ record'[j] = record[j]
                   \/ \E c \in Canceller : cancel[c] # None /\ cancel[c].job = j /\ cancel'[c] = None
  <2>1. CASE UNCHANGED vars
    <3>1. IInv'
      BY <1>2, NextIInv DEF OneInv
    <3> QED BY <1>2, <2>1, <3>1
            DEF vars, OneInv, FilesAreStarted, OpenWhileInProgress, InProgress, RecoversUnsettled
  <2>2. CASE Next
    BY <1>2, <2>2, ThreadOneInv, CancelOneInv, ProcessOneInv DEF Next
  <2> QED BY <1>2, <2>1, <2>2
<1> QED BY <1>1, <1>2, PTL DEF Spec, SettledIsFinal
=============================================================================
