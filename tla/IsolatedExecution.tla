------------------------- MODULE IsolatedExecution -------------------------
(***************************************************************************)
(* One sandboxed execution (runtime/isolated_execution.rs): the monitor    *)
(* that polls the child, the two reader threads that drain its pipes into  *)
(* one shared budget, and the child with the processes it forked.          *)
(*                                                                         *)
(* Every shared access is a step: a pipe read, the load and the compare-   *)
(* exchange of the budget, the overflow flag, the clock, the poll.  The    *)
(* processes of the sandbox share one pid namespace whose init is the      *)
(* child's, so that those left behind die after it; the kernel, the clock  *)
(* and the payload are the environment.  Payload bytes are counted.        *)
(***************************************************************************)
EXTENDS Integers

CONSTANTS Stdout,     \* the stream whose reader is spawned and joined first
          Stderr,     \* the other stream
          Limit,      \* IsolationLimits::output_bytes
          Chunk,      \* the most a read returns
          Capacity,   \* the room of a pipe
          MaxWritten, \* bound of the model: what the payload writes in all
          None

Status == {"success", "nonzero", "signaled"}

ASSUME LimitAssumption ==
    /\ Stdout # Stderr
    /\ {Limit, Chunk, Capacity} \subseteq Nat \ {0} /\ MaxWritten \in Nat
    /\ None \notin Status \cup {"overflow", "timeout", "error"}

VARIABLES monitor,   \* where the call is
          child,     \* "none", "running", "killed", "exited", "reaped"
          status,    \* the exit status of the child, None before
          alive,     \* TRUE while a process of the sandbox holds the pipes
          pipe,      \* bytes in each pipe
          written,   \* bytes ever written to each pipe
          reader,    \* per stream: pc, count (read), seen (budget loaded)
          kept,      \* bytes each reader retained
          truncated, \* whether each reader dropped bytes
          retained,  \* the shared budget used: retained_bytes
          overflow,  \* the shared flag
          expired,   \* whether the wall limit elapsed
          forced,    \* the termination the monitor forced, or None
          observed,  \* the status the monitor waited for, or None
          answer     \* the report or the error of the call, or None

proc == <<child, status, alive>>
data == <<pipe, written>>
io == <<reader, kept, truncated, retained, overflow>>
verdict == <<forced, observed, answer>>
vars == <<monitor, proc, data, io, expired, verdict>>

Stream == {Stdout, Stderr}
Total(bytes) == bytes[Stdout] + bytes[Stderr]
Least(m, n) == IF m <= n THEN m ELSE n

Idle == [pc |-> "none", count |-> 0, seen |-> 0]
Reading == [pc |-> "reading", count |-> 0, seen |-> 0]
Done == [pc |-> "done", count |-> 0, seen |-> 0]

-----------------------------------------------------------------------------
(* The child and its processes (external). *)

Write(s, n) ==
    /\ alive /\ child \in {"running", "exited", "reaped"}
    /\ pipe[s] + n <= Capacity
    /\ Total(written) + n <= MaxWritten
    /\ pipe' = [pipe EXCEPT ![s] = @ + n]
    /\ written' = [written EXCEPT ![s] = @ + n]
    /\ UNCHANGED <<monitor, proc, io, expired, verdict>>

\* The child ends by itself; processes it forked may hold the pipes a while.
Exit(how, left) ==
    /\ child = "running"
    /\ child' = "exited" /\ status' = how /\ alive' = left
    /\ UNCHANGED <<monitor, data, io, expired, verdict>>

\* A kill takes effect.
Die ==
    /\ child = "killed"
    /\ child' = "exited" /\ status' = "signaled"
    /\ UNCHANGED <<monitor, alive, data, io, expired, verdict>>

\* The namespace goes with its init: the pipes are closed.
NamespaceEnds ==
    /\ child \in {"exited", "reaped"} /\ alive
    /\ alive' = FALSE
    /\ UNCHANGED <<monitor, child, status, data, io, expired, verdict>>

Elapse ==
    /\ monitor # "launch" /\ ~expired
    /\ expired' = TRUE
    /\ UNCHANGED <<monitor, proc, data, io, verdict>>

-----------------------------------------------------------------------------
(* The readers. *)

Read(s) ==
    /\ reader[s].pc = "reading"
    /\ \/ \E n \in 1 .. Chunk :
             /\ n <= pipe[s]
             /\ pipe' = [pipe EXCEPT ![s] = @ - n]
             /\ reader' = [reader EXCEPT ![s] = [pc |-> "load", count |-> n, seen |-> 0]]
       \/ /\ pipe[s] = 0 /\ ~alive
          /\ reader' = [reader EXCEPT ![s] = Done] /\ UNCHANGED pipe
    /\ UNCHANGED <<monitor, proc, written, kept, truncated, retained, overflow, expired, verdict>>

ReadFails(s) ==
    /\ reader[s].pc = "reading"
    /\ reader' = [reader EXCEPT ![s].pc = "failed"]
    /\ UNCHANGED <<monitor, proc, data, kept, truncated, retained, overflow, expired, verdict>>

Load(s) ==
    /\ reader[s].pc = "load"
    /\ reader' = [reader EXCEPT ![s].seen = retained, ![s].pc = "claim"]
    /\ UNCHANGED <<monitor, proc, data, kept, truncated, retained, overflow, expired, verdict>>

\* Variant: the budget is per stream.
GrantedPerStream(s) == Least(Limit - kept[s], reader[s].count)

Granted(s) == Least(Limit - reader[s].seen, reader[s].count)

\* Variant: the budget is a plain load and store.
ClaimBlindly(s) ==
    /\ reader[s].pc = "claim"
    /\ retained' = reader[s].seen + Granted(s)
    /\ kept' = [kept EXCEPT ![s] = @ + Granted(s)]
    /\ reader' = [reader EXCEPT ![s].pc =
                     IF Granted(s) = reader[s].count THEN "reading" ELSE "flag"]
    /\ UNCHANGED <<monitor, proc, data, truncated, overflow, expired, verdict>>

\* compare_exchange_weak: it may fail spuriously, and then tells what it saw.
Claim(s) ==
    /\ reader[s].pc = "claim"
    /\ \/ /\ Granted(s) = 0 \/ retained = reader[s].seen
          /\ retained' = retained + Granted(s)
          /\ kept' = [kept EXCEPT ![s] = @ + Granted(s)]
          /\ reader' = [reader EXCEPT ![s].pc =
                           IF Granted(s) = reader[s].count THEN "reading" ELSE "flag"]
       \/ /\ Granted(s) > 0
          /\ reader' = [reader EXCEPT ![s].seen = retained]
          /\ UNCHANGED <<retained, kept>>
    /\ UNCHANGED <<monitor, proc, data, truncated, overflow, expired, verdict>>

Flag(s) ==
    /\ reader[s].pc = "flag"
    /\ truncated' = [truncated EXCEPT ![s] = TRUE]
    /\ overflow' = TRUE
    /\ reader' = [reader EXCEPT ![s] = Reading]
    /\ UNCHANGED <<monitor, proc, data, kept, retained, expired, verdict>>

-----------------------------------------------------------------------------
(* The call. *)

Init ==
    /\ monitor = "launch" /\ child = "none" /\ status = None /\ alive = FALSE
    /\ pipe = [s \in Stream |-> 0] /\ written = [s \in Stream |-> 0]
    /\ reader = [s \in Stream |-> Idle] /\ kept = [s \in Stream |-> 0]
    /\ truncated = [s \in Stream |-> FALSE] /\ retained = 0 /\ overflow = FALSE
    /\ expired = FALSE /\ forced = None /\ observed = None /\ answer = None

\* The request is refused, or its staging or its launch fails: nothing runs.
Refuse ==
    /\ monitor = "launch"
    /\ monitor' = "answered" /\ answer' = "error"
    /\ UNCHANGED <<proc, data, io, expired, forced, observed>>

Launch ==
    /\ monitor = "launch"
    /\ monitor' = "readers" /\ child' = "running" /\ alive' = TRUE
    /\ UNCHANGED <<status, data, io, expired, verdict>>

\* The readers are spawned one after the other; either thread may not start.
SpawnReaders(started) ==
    /\ monitor = "readers"
    /\ reader' = [s \in Stream |-> IF s \in started THEN Reading ELSE Idle]
    /\ monitor' = IF started = Stream THEN "check" ELSE "drop"
    /\ UNCHANGED <<proc, data, kept, truncated, retained, overflow, expired, verdict>>

CheckOverflow ==
    /\ monitor = "check"
    /\ IF overflow THEN monitor' = "kill" /\ forced' = "overflow"
                   ELSE monitor' = "deadline" /\ UNCHANGED forced
    /\ UNCHANGED <<proc, data, io, expired, observed, answer>>

\* Variant: the deadline is looked at only while the child is silent.
CheckDeadlineWhenQuiet ==
    /\ monitor = "deadline"
    /\ IF expired /\ retained = 0 THEN monitor' = "kill" /\ forced' = "timeout"
                                  ELSE monitor' = "poll" /\ UNCHANGED forced
    /\ UNCHANGED <<proc, data, io, expired, observed, answer>>

CheckDeadline ==
    /\ monitor = "deadline"
    /\ IF expired THEN monitor' = "kill" /\ forced' = "timeout"
                  ELSE monitor' = "poll" /\ UNCHANGED forced
    /\ UNCHANGED <<proc, data, io, expired, observed, answer>>

Poll ==
    /\ monitor = "poll"
    /\ \/ /\ child = "exited"
          /\ child' = "reaped" /\ observed' = status /\ monitor' = "join"
       \/ /\ child # "exited" /\ monitor' = "check"
          /\ UNCHANGED <<child, observed>>
       \/ /\ monitor' = "drop"    \* the wait fails
          /\ UNCHANGED <<child, observed>>
    /\ UNCHANGED <<status, alive, data, io, expired, forced, answer>>

\* kill_and_reap and the guard's drop: a kill of a child that already ended
\* changes nothing, and the wait takes its status.
Kill ==
    /\ monitor \in {"kill", "drop"}
    /\ child' = IF child = "running" THEN "killed" ELSE child
    /\ monitor' = IF monitor = "kill" THEN "reap" ELSE "release"
    /\ UNCHANGED <<status, alive, data, io, expired, verdict>>

\* Variant: an error leaves the child to its parent.
ReapForced ==
    /\ \/ monitor = "reap" /\ child = "exited" /\ child' = "reaped" /\ monitor' = "join"
          /\ UNCHANGED answer
       \/ monitor = "release" /\ UNCHANGED child /\ monitor' = "answered" /\ answer' = "error"
    /\ UNCHANGED <<status, alive, data, io, expired, forced, observed>>

Reap ==
    /\ monitor \in {"reap", "release"} /\ child = "exited"
    /\ child' = "reaped"
    /\ IF monitor = "reap" THEN monitor' = "join" /\ UNCHANGED answer
                           ELSE monitor' = "answered" /\ answer' = "error"
    /\ UNCHANGED <<status, alive, data, io, expired, forced, observed>>

\* Variant: the readers are left to finish on their own.
JoinNobody ==
    /\ monitor = "join"
    /\ monitor' = "classify"
    /\ UNCHANGED <<proc, data, io, expired, verdict>>

Join ==
    /\ monitor = "join" /\ \A s \in Stream : reader[s].pc = "done"
    /\ monitor' = "classify"
    /\ UNCHANGED <<proc, data, io, expired, verdict>>

\* A read failed: the join of its reader, in the order of the joins, is an error.
JoinFails ==
    /\ monitor = "join" /\ reader[Stdout].pc \in {"done", "failed"}
    /\ \E s \in Stream : reader[s].pc = "failed"
    /\ monitor' = "answered" /\ answer' = "error"
    /\ UNCHANGED <<proc, data, io, expired, forced, observed>>

\* Variant: the status decides whatever was read.
TerminationByStatus == IF forced # None THEN forced ELSE observed

Termination ==
    IF forced # None THEN forced
    ELSE IF overflow THEN "overflow" ELSE observed

Classify ==
    /\ monitor = "classify"
    /\ monitor' = "answered" /\ answer' = Termination
    /\ UNCHANGED <<proc, data, io, expired, forced, observed>>

MonitorStep ==
    \/ Refuse \/ Launch \/ \E started \in {{}, {Stdout}, Stream} : SpawnReaders(started)
    \/ CheckOverflow \/ CheckDeadline \/ Poll \/ Kill \/ Reap \/ Join \/ JoinFails \/ Classify

ReaderStep(s) == Read(s) \/ Load(s) \/ Claim(s) \/ Flag(s)

Environment ==
    \/ \E s \in Stream, n \in 1 .. Chunk : Write(s, n)
    \/ \E how \in {"success", "nonzero", "signaled"}, left \in BOOLEAN : Exit(how, left)
    \/ Die \/ NamespaceEnds \/ Elapse \/ \E s \in Stream : ReadFails(s)

Next == MonitorStep \/ (\E s \in Stream : ReaderStep(s)) \/ Environment

Spec == Init /\ [][Next]_vars

\* Threads run, a kill takes effect, a namespace without init is torn down and
\* time passes; the payload owes nothing.
FairSpec ==
    /\ Spec /\ WF_vars(MonitorStep) /\ \A s \in Stream : WF_vars(ReaderStep(s))
    /\ WF_vars(Die) /\ WF_vars(NamespaceEnds) /\ WF_vars(Elapse)

-----------------------------------------------------------------------------
(* Properties. *)

TypeOK ==
    /\ monitor \in {"launch", "readers", "check", "deadline", "poll", "kill", "drop", "reap",
                   "release", "join", "classify", "answered"}
    /\ child \in {"none", "running", "killed", "exited", "reaped"}
    /\ status \in Status \cup {None} /\ observed \in {status, None}
    /\ answer \in Status \cup {"overflow", "timeout", "error", None}
    /\ {alive, overflow, expired} \subseteq BOOLEAN /\ truncated \in [Stream -> BOOLEAN]
    /\ {pipe, written, kept} \subseteq [Stream -> Nat] /\ retained \in Nat
    /\ \A s \in Stream : kept[s] <= written[s] /\ pipe[s] <= Capacity
    /\ reader \in [Stream -> [pc : {"none", "reading", "load", "claim", "flag", "done", "failed"},
                              count : 0 .. Chunk, seen : 0 .. Limit]]

\* The two readers share one budget: what they keep is what was claimed, and
\* never more than the limit, however their claims interleave.
OneBudget ==
    /\ retained = Total(kept)
    /\ retained <= Limit

\* A success is the whole story: the child itself exited with success, no byte
\* it or its processes ever wrote was dropped, and none is still on its way.
SuccessIsComplete ==
    answer = "success" =>
        /\ status = "success" /\ child = "reaped"
        /\ \A s \in Stream : kept[s] = written[s] /\ ~truncated[s]

\* Every other verdict has its cause: more was written than the limit, the time
\* was up, or the child's own status says so.
VerdictHasCause ==
    /\ answer = "overflow" => Total(written) > Limit
    /\ answer = "timeout" => expired
    /\ answer \in {"nonzero", "signaled"} =>
          /\ status = answer
          /\ \A s \in Stream : kept[s] = written[s]

\* No call answers over a child that was launched and not waited for.
NoChildLeft == answer # None => child \in {"none", "reaped"}

\* Every call answers, whatever the payload does: it writes for ever, blocks on
\* a full pipe, never ends, or leaves processes behind that hold the pipes.
CallAnswers == <>(answer # None)

\* However the two readers, the deadline and the exit interleave, the verdict is
\* what happened, the output is within its one budget and the child is gone.
VerdictIsTrue == TypeOK /\ OneBudget /\ SuccessIsComplete /\ VerdictHasCause /\ NoChildLeft
=============================================================================
