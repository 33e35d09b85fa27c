---------------------------- MODULE OperatorJobs ----------------------------
(***************************************************************************)
(* Jobs of the operator control plane: the status file of each job, the    *)
(* registry of cancellation flags that also bounds concurrency, the caller *)
(* that starts a job, the thread and the child process that run it, the    *)
(* callers that cancel it, crashes of the process, and the recovery a      *)
(* server performs before it binds its address.                            *)
(*                                                                         *)
(* A status file is replaced atomically; no lock spans a read and a write  *)
(* of it.  Reading all the status files is one step: every read precedes   *)
(* every decision and every write that follows from it.                    *)
(***************************************************************************)
EXTENDS Naturals, FiniteSets

CONSTANTS
    Job,          \* one identity per start call: digest of instant, operation and request
    Request,      \* request digests
    RequestOf,    \* the request each call carries
    Process,      \* operating-system processes that share one home
    Server,       \* those that run serve; the others call the library
    HomeOf,       \* the process in which each call is made
    Canceller,    \* concurrent cancel calls
    MaxJobs,      \* MAX_CONCURRENT_OPERATOR_JOBS
    Faults,       \* whether writing a status file and spawning a thread may fail
    Crashes,      \* whether a process may die
    None

ASSUME OperatorJobsAssumption ==
    /\ RequestOf \in [Job -> Request]
    /\ HomeOf \in [Job -> Process]
    /\ Server \subseteq Process
    /\ MaxJobs \in Nat \ {0}
    /\ Faults \in BOOLEAN /\ Crashes \in BOOLEAN
    /\ IsFiniteSet(Job)

VARIABLES
    record,       \* the status file of each job, None before the first write
    process,      \* "down", "recovering" or "up"
    unrecovered,  \* the records each recovering server has read and not yet rewritten
    registry,     \* the jobs with an entry in each process's registry
    flag,         \* the cancellation flag of each job
    starter,      \* where each start call is
    worker,       \* where the thread of each job is
    outcome,      \* what the thread learnt of its run
    child,        \* the child process of each job
    cancel        \* the cancel calls in progress

vars == <<record, process, unrecovered, registry, flag, starter, worker, outcome, child, cancel>>

Outcome == {"none", "succeeded", "failed", "error", "cancelled"}
State == {"queued", "running", "completed", "failed", "cancelled"}
Terminal == {"completed", "failed", "cancelled"}

Run == {"none", "succeeded", "failed"}

\* The evidence receipt binds the state and the run it was built for.
Receipts == [state : State, run : Run]
ASSUME NoneIsNoReceipt == None \notin Receipts

Receipt(state, run) == [state |-> state, run |-> run]
Open(state) == [state |-> state, run |-> "none", error |-> "none", receipt |-> None]
Sealed(state, run, error) ==
    [state |-> state, run |-> run, error |-> error, receipt |-> Receipt(state, run)]

Unsettled(j) == record[j] # None /\ record[j].state \notin Terminal
\* load_job_record and list_job_records refuse a record whose receipt disagrees.
Verifies(r) == r.receipt # None => r.receipt = Receipt(r.state, r.run)
Listable == \A j \in Job : record[j] # None => Verifies(record[j])

Init ==
    /\ record = [j \in Job |-> None]
    /\ process = [p \in Process |-> IF p \in Server THEN "down" ELSE "up"]
    /\ unrecovered = [p \in Process |-> {}]
    /\ registry = [p \in Process |-> {}]
    /\ flag = [j \in Job |-> FALSE]
    /\ starter = [j \in Job |-> "idle"]
    /\ worker = [j \in Job |-> "none"]
    /\ outcome = [j \in Job |-> "none"]
    /\ child = [j \in Job |-> "none"]
    /\ cancel = [c \in Canceller |-> None]

-----------------------------------------------------------------------------
(* start_operator_job.                                                     *)

Alive(j) == process[HomeOf[j]] = "up"
Write(j, r) == record' = [record EXCEPT ![j] = r]
Deregister(j) == registry' = [registry EXCEPT ![HomeOf[j]] = @ \ {j}]

\* Answer with an unsettled job of the same request, if one is listed.
List(j) ==
    /\ Alive(j) /\ starter[j] = "idle" /\ Listable
    /\ starter' = [starter EXCEPT ![j] =
          IF \E k \in Job : RequestOf[k] = RequestOf[j] /\ Unsettled(k) THEN "returned" ELSE "listed"]
    /\ UNCHANGED <<record, process, unrecovered, registry, flag, worker, outcome, child, cancel>>

PersistQueued(j) ==
    /\ Alive(j) /\ starter[j] = "listed"
    /\ \/ Write(j, Open("queued")) /\ starter' = [starter EXCEPT ![j] = "persisted"]
       \/ Faults /\ starter' = [starter EXCEPT ![j] = "failed"] /\ UNCHANGED record
    /\ UNCHANGED <<process, unrecovered, registry, flag, worker, outcome, child, cancel>>

\* Variant: one registration too many.
RoomPlusOne(p) == Cardinality(registry[p]) <= MaxJobs

Room(p) == Cardinality(registry[p]) < MaxJobs

Register(j) ==
    /\ Alive(j) /\ starter[j] = "persisted"
    /\ IF Room(HomeOf[j])
       THEN /\ registry' = [registry EXCEPT ![HomeOf[j]] = @ \union {j}]
            /\ starter' = [starter EXCEPT ![j] = "registered"]
       ELSE /\ starter' = [starter EXCEPT ![j] = "rejecting"]
            /\ UNCHANGED registry
    /\ UNCHANGED <<record, process, unrecovered, flag, worker, outcome, child, cancel>>

Reject(j) ==
    /\ Alive(j) /\ starter[j] = "rejecting"
    /\ \/ /\ Write(j, Sealed("failed", "none", "limit"))
          /\ starter' = [starter EXCEPT ![j] = "returned"]
       \/ Faults /\ starter' = [starter EXCEPT ![j] = "failed"] /\ UNCHANGED record
    /\ UNCHANGED <<process, unrecovered, registry, flag, worker, outcome, child, cancel>>

Spawn(j) ==
    /\ Alive(j) /\ starter[j] = "registered"
    /\ \/ /\ worker' = [worker EXCEPT ![j] = "spawned"]
          /\ starter' = [starter EXCEPT ![j] = "returned"]
          /\ UNCHANGED registry
       \/ Faults /\ Deregister(j) /\ starter' = [starter EXCEPT ![j] = "failed"] /\ UNCHANGED worker
    /\ UNCHANGED <<record, process, unrecovered, flag, outcome, child, cancel>>

-----------------------------------------------------------------------------
(* The thread of a job and its child process.                              *)

WorkerStart(j) ==
    /\ worker[j] = "spawned"
    /\ \/ Write(j, Open("running")) /\ worker' = [worker EXCEPT ![j] = "running"] /\ UNCHANGED registry
       \/ Faults /\ worker' = [worker EXCEPT ![j] = "lost"] /\ Deregister(j) /\ UNCHANGED record
    /\ UNCHANGED <<process, unrecovered, flag, starter, outcome, child, cancel>>

\* The request is validated and rendered; the child is spawned or an error ends the run.
Launch(j) ==
    /\ worker[j] = "running" /\ child[j] = "none" /\ outcome[j] = "none"
    /\ \/ child' = [child EXCEPT ![j] = "alive"] /\ UNCHANGED <<worker, outcome>>
       \/ /\ worker' = [worker EXCEPT ![j] = "settling"]
          /\ outcome' = [outcome EXCEPT ![j] = "error"]
          /\ UNCHANGED child
    /\ UNCHANGED <<record, process, unrecovered, registry, flag, starter, cancel>>

\* A child outlives the process that spawned it.
ChildExits(j) ==
    /\ child[j] = "alive"
    /\ \E status \in {"succeeded", "failed"} : child' = [child EXCEPT ![j] = status]
    /\ UNCHANGED <<record, process, unrecovered, registry, flag, starter, worker, outcome, cancel>>

Ended(j, result) ==
    /\ worker' = [worker EXCEPT ![j] = "settling"]
    /\ outcome' = [outcome EXCEPT ![j] = result]
    /\ UNCHANGED <<record, process, unrecovered, registry, flag, starter, cancel>>

\* Variant: any child that ended is a success.
StatusOfAny(j) == "succeeded"

StatusOf(j) == child[j]

\* try_wait reports the exit; the receipt is written, or an error replaces it.
Reap(j) ==
    /\ worker[j] = "running" /\ child[j] \in {"succeeded", "failed"}
    /\ Ended(j, StatusOf(j)) \/ Ended(j, "error")
    /\ UNCHANGED child

\* Variant: the run is executed without the flag, as execute_operator_run does.
KillWithoutFlag(j) == FALSE

KillOnCancel(j) ==
    /\ worker[j] = "running" /\ child[j] = "alive" /\ flag[j]
    /\ child' = [child EXCEPT ![j] = "killed"]
    /\ Ended(j, "cancelled")

KillOnTimeout(j) ==
    /\ worker[j] = "running" /\ child[j] = "alive" /\ ~flag[j]
    /\ child' = [child EXCEPT ![j] = "killed"]
    /\ Ended(j, "error")

\* Variant: the outcome of the run is taken for the state of the job.
FinalRecordOfOutcome(j) == Sealed(outcome[j], "none", "run")

FinalRecord(j) ==
    CASE outcome[j] = "succeeded" -> Sealed("completed", "succeeded", "none")
      [] outcome[j] = "failed" -> Sealed("failed", "failed", "run")
      [] outcome[j] = "error" -> Sealed("failed", "none", "run")
      [] outcome[j] = "cancelled" -> Sealed("cancelled", "none", "run")

\* The thread overwrites the whole record; a failed write is ignored.
Settle(j) ==
    /\ worker[j] = "settling"
    /\ \/ Write(j, FinalRecord(j)) /\ worker' = [worker EXCEPT ![j] = "settled"]
       \/ Faults /\ worker' = [worker EXCEPT ![j] = "unsaved"] /\ UNCHANGED record
    /\ UNCHANGED <<process, unrecovered, registry, flag, starter, outcome, child, cancel>>

\* Variant: the registry entry is left behind.
ReleaseNothing(j) ==
    /\ worker[j] \in {"settled", "unsaved"}
    /\ worker' = [worker EXCEPT ![j] = IF @ = "settled" THEN "finished" ELSE "lost"]
    /\ UNCHANGED <<record, process, unrecovered, registry, flag, starter, outcome, child, cancel>>

Release(j) ==
    /\ worker[j] \in {"settled", "unsaved"}
    /\ worker' = [worker EXCEPT ![j] = IF @ = "settled" THEN "finished" ELSE "lost"]
    /\ Deregister(j)
    /\ UNCHANGED <<record, process, unrecovered, flag, starter, outcome, child, cancel>>

-----------------------------------------------------------------------------
(* cancel_operator_job: the record is read, the flag is set, the record    *)
(* that was read is written back.                                          *)

CancelLoad(c, p, j) ==
    /\ process[p] = "up" /\ cancel[c] = None
    /\ Unsettled(j) /\ Verifies(record[j])
    /\ cancel' = [cancel EXCEPT ![c] = [in |-> p, job |-> j, read |-> record[j], flagged |-> FALSE]]
    /\ UNCHANGED <<record, process, unrecovered, registry, flag, starter, worker, outcome, child>>

\* The flag is found in the registry of this process, or the call is refused.
CancelFlag(c) ==
    /\ cancel[c] # None /\ ~cancel[c].flagged
    /\ LET j == cancel[c].job
       IN  IF j \in registry[cancel[c].in]
           THEN /\ flag' = [flag EXCEPT ![j] = TRUE]
                /\ cancel' = [cancel EXCEPT ![c].flagged = TRUE]
           ELSE /\ cancel' = [cancel EXCEPT ![c] = None]
                /\ UNCHANGED flag
    /\ UNCHANGED <<record, process, unrecovered, registry, starter, worker, outcome, child>>

CancelPersist(c) ==
    /\ cancel[c] # None /\ cancel[c].flagged
    /\ \/ Write(cancel[c].job, [cancel[c].read EXCEPT !.error = "cancellation requested"])
       \/ Faults /\ UNCHANGED record
    /\ cancel' = [cancel EXCEPT ![c] = None]
    /\ UNCHANGED <<process, unrecovered, registry, flag, starter, worker, outcome, child>>

-----------------------------------------------------------------------------
(* Processes.                                                              *)

\* A process dies: its threads and its registry vanish, children and files stay.
Crash(p) ==
    /\ Crashes /\ process[p] # "down"
    /\ process' = [process EXCEPT ![p] = "down"]
    /\ unrecovered' = [unrecovered EXCEPT ![p] = {}]
    /\ registry' = [registry EXCEPT ![p] = {}]
    /\ starter' = [j \in Job |-> IF HomeOf[j] = p /\ starter[j] # "idle" THEN "returned" ELSE starter[j]]
    /\ worker' = [j \in Job |-> IF HomeOf[j] = p /\ worker[j] \notin {"none", "finished"}
                                THEN "died" ELSE worker[j]]
    /\ cancel' = [c \in Canceller |-> IF cancel[c] # None /\ cancel[c].in = p THEN None ELSE cancel[c]]
    /\ UNCHANGED <<record, flag, outcome, child>>

\* Variant: a queued record is left for its thread, which is gone.
RunningOnly(r) == r.state = "running"

\* Variant: whatever has no run was interrupted.
WithoutRun(r) == r.run = "none"

\* What a recovering server rewrites: unfinished records and a legacy inconsistency.
Incomplete(r) == r.state \notin Terminal \/ (r.state = "completed" /\ r.run # "succeeded")

\* serve: recover_incomplete_operator_jobs reads every record ...
Restart(p) ==
    /\ p \in Server /\ process[p] = "down" /\ Listable
    /\ process' = [process EXCEPT ![p] = "recovering"]
    /\ unrecovered' = [unrecovered EXCEPT ![p] =
          {j \in Job : record[j] # None /\ Incomplete(record[j])}]
    /\ UNCHANGED <<record, registry, flag, starter, worker, outcome, child, cancel>>

\* Variant: the receipt of the new state is not built.
RecoveredUnsealed(r) == [r EXCEPT !.state = "failed", !.error = "recovered"]

Recovered(r) == Sealed("failed", r.run, "recovered")

\* ... and rewrites the incomplete ones; a failed write ends the server.
Recover(p, j) ==
    /\ process[p] = "recovering" /\ j \in unrecovered[p]
    /\ Write(j, Recovered(record[j]))
    /\ unrecovered' = [unrecovered EXCEPT ![p] = @ \ {j}]
    /\ UNCHANGED <<process, registry, flag, starter, worker, outcome, child, cancel>>

\* The address is bound last: a second server ends here.
Bind(p) ==
    /\ process[p] = "recovering" /\ unrecovered[p] = {}
    /\ process' = [process EXCEPT ![p] =
          IF \E q \in Server \ {p} : process[q] = "up" THEN "down" ELSE "up"]
    /\ UNCHANGED <<record, unrecovered, registry, flag, starter, worker, outcome, child, cancel>>

Starting(j) == List(j) \/ PersistQueued(j) \/ Register(j) \/ Reject(j) \/ Spawn(j)
Working(j) == WorkerStart(j) \/ Launch(j) \/ Reap(j) \/ KillOnCancel(j) \/ Settle(j) \/ Release(j)
Cancelling(c) == CancelFlag(c) \/ CancelPersist(c)
Serving(p) == Restart(p) \/ Bind(p) \/ \E j \in Job : Recover(p, j)

Next ==
    \/ \E j \in Job : Starting(j) \/ Working(j) \/ ChildExits(j) \/ KillOnTimeout(j)
    \/ \E c \in Canceller : Cancelling(c) \/ \E p \in Process, j \in Job : CancelLoad(c, p, j)
    \/ \E p \in Process : Crash(p) \/ Serving(p)

Spec == Init /\ [][Next]_vars

\* A thread that is not killed keeps running, and so does a cancel call.  That a
\* child ends by itself is not assumed.
Threads ==
    /\ \A j \in Job : WF_vars(Working(j)) /\ WF_vars(Spawn(j))
    /\ \A c \in Canceller : WF_vars(Cancelling(c))

\* Threads run and maximum_runtime_seconds passes.
LiveSpec == Spec /\ Threads /\ \A j \in Job : WF_vars(KillOnTimeout(j))

-----------------------------------------------------------------------------
(* Properties.                                                             *)

Records ==
    [state : State, run : Run,
     error : {"none", "limit", "run", "recovered", "cancellation requested"},
     receipt : {None} \union Receipts]

TypeOK ==
    /\ record \in [Job -> Records \union {None}]
    /\ process \in [Process -> {"down", "recovering", "up"}]
    /\ unrecovered \in [Process -> SUBSET Job]
    /\ registry \in [Process -> SUBSET Job]
    /\ flag \in [Job -> BOOLEAN]
    /\ starter \in [Job -> {"idle", "listed", "persisted", "registered", "rejecting", "returned", "failed"}]
    /\ worker \in [Job -> {"none", "spawned", "running", "settling", "settled", "finished",
                            "unsaved", "lost", "died"}]
    /\ outcome \in [Job -> Outcome]
    /\ child \in [Job -> {"none", "alive", "succeeded", "failed", "killed"}]
    /\ cancel \in [Canceller -> {None} \union
          [in : Process, job : Job, read : Records, flagged : BOOLEAN]]

\* However starts, failures and crashes interleave, the children that a process
\* itself supervises never exceed its limit.
ChildrenBounded ==
    \A p \in Process :
        Cardinality({j \in Job : HomeOf[j] = p /\ worker[j] = "running" /\ child[j] = "alive"}) <= MaxJobs

\* A settled record carries the receipt of exactly its state and run, whoever
\* settled it (thread, refusal, recovery), so that no listing is ever refused.
SettledIsSealed ==
    \A j \in Job : record[j] # None =>
        /\ Verifies(record[j])
        /\ record[j].state \in Terminal => record[j].receipt # None

\* What a settled record claims of the child is true: a completed job's child
\* succeeded, a cancelled job was asked to stop and nothing of it still runs.
RecordsTellTheTruth ==
    \A j \in Job : record[j] # None =>
        /\ record[j].state = "completed" => child[j] = "succeeded"
        /\ record[j].state = "cancelled" => flag[j] /\ child[j] = "killed"

\* An unsettled record is somebody's business: a start call or a thread that
\* will settle it, or the recovery of the server that died.  Left alone are only
\* the records whose last write, or whose thread, could not be had, and those
\* that a cancel call wrote back.
NobodyForgotten ==
    \A j \in Job : Unsettled(j) =>
        \/ starter[j] \in {"persisted", "rejecting", "registered"}
        \/ worker[j] \in {"spawned", "running", "settling"}
        \/ process[HomeOf[j]] # "up"
        \/ starter[j] = "failed" \/ worker[j] \in {"unsaved", "lost"}
        \/ record[j].error = "cancellation requested"

\* A settled record is final for threads, refusals and recoveries; only a cancel
\* call that read it earlier still overwrites it.
SettledIsFinal ==
    [][\A j \in Job : record[j] # None /\ record[j].state \in Terminal =>
          \/ record'[j] = record[j]
          \/ \E c \in Canceller : cancel[c] # None /\ cancel[c].job = j /\ cancel'[c] = None]_vars

\* A place in the registry is always given back.
SlotsAreReleased == \A p \in Process, j \in Job : j \in registry[p] ~> j \notin registry[p]

\* A job that was asked to stop stops, without waiting for its child; its timeout
\* cannot help, since the flag is looked at first.  Only the child of a process
\* that died is out of reach.
CancelStopsTheChild == \A j \in Job : flag[j] ~> child[j] # "alive" \/ worker[j] = "died"

\* A record that is read is sealed and, when it is settled, true; one that is not
\* settled is somebody's business.
RecordsAreSound == TypeOK /\ SettledIsSealed /\ RecordsTellTheTruth /\ NobodyForgotten

\* The places of the registry bound the children of a process at every moment,
\* and each place is given back, whatever fails between taking it and the end.
PlacesAreKept == []ChildrenBounded /\ SlotsAreReleased
=============================================================================
