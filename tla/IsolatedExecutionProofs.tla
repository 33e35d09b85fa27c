----------------------- MODULE IsolatedExecutionProofs -----------------------
(***************************************************************************)
(* Proofs about one sandboxed execution, for any output limit, any size of *)
(* reads and pipes, and a payload that writes any bounded number of bytes. *)
(***************************************************************************)
EXTENDS IsolatedExecution, TLAPS

-----------------------------------------------------------------------------
(***************************************************************************)
(* The inductive invariant: where every byte is, what each flag stands for *)
(* and how far the monitor is with the child.                              *)
(***************************************************************************)

\* What a reader has taken from its pipe and not yet kept or dropped.
InFlight(s) == IF reader[s].pc \in {"load", "claim"} THEN reader[s].count ELSE 0

\* A byte that was written is kept, in the pipe or with the reader, unless the
\* reader dropped it and says so.
BytesAccounted ==
    \A s \in Stream :
        /\ kept[s] + pipe[s] + InFlight(s) <= written[s]
        /\ ~truncated[s] /\ reader[s].pc # "flag" => kept[s] + pipe[s] + InFlight(s) = written[s]

\* A reader that claims saw a budget that has only shrunk since.
ClaimsAreRecent ==
    \A s \in Stream :
        /\ reader[s].pc \in {"load", "claim"} => reader[s].count > 0
        /\ reader[s].pc = "claim" => reader[s].seen <= retained

\* Bytes are dropped only when more was written than the limit.
DropsHaveCause ==
    /\ \A s \in Stream : truncated[s] => overflow
    /\ overflow \/ (\E s \in Stream : reader[s].pc = "flag") => Total(written) > Limit

\* A reader is done when nothing is left to read and nobody is left to write;
\* the child itself holds the pipes while it runs.
DoneIsDone ==
    /\ child \in {"running", "killed"} => alive
    /\ monitor \in {"launch", "readers"} => \A s \in Stream : reader[s] = Idle
    /\ \A s \in Stream : reader[s].pc = "done" => pipe[s] = 0 /\ ~alive

\* What the monitor knows of the child, and when it may answer.
MonitorKnows ==
    /\ monitor = "launch" => child = "none"
    /\ monitor \in {"join", "classify"} => child = "reaped"
    /\ monitor = "answered" => child \in {"none", "reaped"}
    /\ monitor # "answered" => answer = None
    /\ observed # None => child = "reaped" /\ observed = status
    /\ monitor = "classify" => \A s \in Stream : reader[s].pc = "done"

\* What was forced, and what was answered, has its cause.
AnswersHaveCause ==
    /\ forced \in {None, "overflow", "timeout"}
    /\ forced = "overflow" \/ answer = "overflow" => overflow
    /\ forced = "timeout" \/ answer = "timeout" => expired
    /\ answer \in Status => /\ observed = answer /\ ~overflow
                            /\ \A s \in Stream : reader[s].pc = "done"

IInv ==
    /\ TypeOK /\ OneBudget /\ BytesAccounted /\ ClaimsAreRecent /\ DropsHaveCause
    /\ DoneIsDone /\ MonitorKnows /\ AnswersHaveCause

-----------------------------------------------------------------------------
(* The constants, and the shape of the state. *)

\* The limits are positive numbers.
LEMMA Limits ==
    /\ Limit \in Nat /\ Limit > 0 /\ Chunk \in Nat /\ Chunk > 0
    /\ Capacity \in Nat /\ MaxWritten \in Nat
BY LimitAssumption

\* Each stream has its counts and its reader.
LEMMA Shape ==
    ASSUME TypeOK
    PROVE  /\ pipe \in [Stream -> Nat] /\ written \in [Stream -> Nat] /\ kept \in [Stream -> Nat]
           /\ truncated \in [Stream -> BOOLEAN] /\ retained \in Nat
           /\ reader \in [Stream -> [pc : {"none", "reading", "load", "claim", "flag", "done", "failed"},
                                     count : 0 .. Chunk, seen : 0 .. Limit]]
BY DEF TypeOK

\* The counts of a reader are numbers.
LEMMA ReaderCounts ==
    ASSUME TypeOK, NEW s \in Stream
    PROVE  /\ reader[s].count \in Nat /\ reader[s].count <= Chunk
           /\ reader[s].seen \in Nat /\ reader[s].seen <= Limit
           /\ InFlight(s) \in Nat
           /\ pipe[s] \in Nat /\ written[s] \in Nat /\ kept[s] \in Nat
BY Limits, Shape DEF InFlight

\* What is claimed is no more than what was read, nor than what seemed left.
LEMMA GrantedIsLeast ==
    ASSUME TypeOK, NEW s \in Stream
    PROVE  /\ Granted(s) \in Nat
           /\ Granted(s) <= reader[s].count /\ Granted(s) <= Limit - reader[s].seen
           /\ Granted(s) = reader[s].count \/ Granted(s) = Limit - reader[s].seen
BY Limits, ReaderCounts DEF Granted, Least

-----------------------------------------------------------------------------
(* The payload and the clock. *)

\* The payload writes: the byte is accounted for in the pipe.
LEMMA WriteIInv ==
    ASSUME IInv, NEW s \in Stream, NEW n \in 1 .. Chunk, Write(s, n)
    PROVE  IInv'
<1> USE DEF Write, proc, io, verdict, Total
<1>1. /\ UNCHANGED <<monitor, child, status, alive, reader, kept, truncated, retained, overflow,
                     expired, forced, observed, answer>>
      /\ alive
  OBVIOUS
<1>2. /\ n \in Nat /\ pipe'[s] = pipe[s] + n /\ written'[s] = written[s] + n
      /\ \A t \in Stream \ {s} : pipe'[t] = pipe[t] /\ written'[t] = written[t]
      /\ pipe' \in [Stream -> Nat] /\ written' \in [Stream -> Nat]
  BY Limits, Shape DEF IInv
<1>3. TypeOK'
  BY <1>1, <1>2, Limits, ReaderCounts DEF IInv, TypeOK
<1>4. OneBudget' /\ ClaimsAreRecent' /\ MonitorKnows' /\ AnswersHaveCause'
  BY <1>1 DEF IInv, OneBudget, ClaimsAreRecent, MonitorKnows, AnswersHaveCause
<1>5. BytesAccounted'
  BY <1>1, <1>2, ReaderCounts DEF IInv, BytesAccounted, InFlight
<1>6. DropsHaveCause'
  BY <1>1, <1>2, ReaderCounts, Limits DEF IInv, DropsHaveCause, Stream
<1>7. DoneIsDone'
  BY <1>1 DEF IInv, DoneIsDone
<1> QED BY <1>3, <1>4, <1>5, <1>6, <1>7 DEF IInv

\* The child ends or is torn down, or time passes: no byte moves.
LEMMA EndIInv ==
    ASSUME IInv,
           \/ \E how \in Status, left \in BOOLEAN : Exit(how, left)
           \/ Die \/ NamespaceEnds \/ Elapse
    PROVE  IInv'
<1> USE LimitAssumption DEF Exit, Die, NamespaceEnds, Elapse, proc, data, io, verdict
<1>1. UNCHANGED <<monitor, pipe, written, reader, kept, truncated, retained, overflow, forced,
                  observed, answer>>
  OBVIOUS
<1>2. TypeOK'
  BY <1>1 DEF IInv, TypeOK, MonitorKnows, Status
<1>3. OneBudget' /\ BytesAccounted' /\ ClaimsAreRecent' /\ DropsHaveCause'
  BY <1>1 DEF IInv, OneBudget, BytesAccounted, InFlight, ClaimsAreRecent, DropsHaveCause, Total
<1>4. DoneIsDone'
  BY <1>1 DEF IInv, TypeOK, DoneIsDone
<1>5. MonitorKnows'
  BY <1>1 DEF IInv, MonitorKnows
<1>6. AnswersHaveCause'
  BY <1>1 DEF IInv, TypeOK, AnswersHaveCause
<1> QED BY <1>2, <1>3, <1>4, <1>5, <1>6 DEF IInv

-----------------------------------------------------------------------------
(* The readers. *)

\* A read takes bytes from the pipe, finds its end, or fails.
LEMMA ReadIInv ==
    ASSUME IInv, NEW s \in Stream, Read(s) \/ ReadFails(s)
    PROVE  IInv'
<1> USE DEF Read, ReadFails, proc, data, verdict, Done
<1>1. UNCHANGED <<monitor, child, status, alive, written, kept, truncated, retained, overflow,
                  expired, forced, observed, answer>>
  OBVIOUS
<1>2. /\ reader[s].pc = "reading"
      /\ reader' = [reader EXCEPT ![s] = reader'[s]] /\ pipe' = [pipe EXCEPT ![s] = pipe'[s]]
      /\ \A t \in Stream \ {s} : reader'[t] = reader[t] /\ pipe'[t] = pipe[t]
      /\ \/ \E n \in 1 .. Chunk : /\ n <= pipe[s] /\ pipe'[s] = pipe[s] - n
                                  /\ reader'[s] = [pc |-> "load", count |-> n, seen |-> 0]
         \/ pipe[s] = 0 /\ ~alive /\ pipe'[s] = 0 /\ reader'[s] = Done
         \/ pipe'[s] = pipe[s] /\ reader'[s] = [reader[s] EXCEPT !.pc = "failed"]
  BY Shape DEF IInv
<1>3. /\ pipe'[s] \in Nat /\ pipe'[s] <= pipe[s]
      /\ reader'[s] \in [pc : {"load", "done", "failed"}, count : 0 .. Chunk, seen : 0 .. Limit]
      /\ InFlight(s)' + pipe'[s] = pipe[s]
      /\ reader'[s].pc = "load" => reader'[s].count > 0
      /\ reader'[s].pc = "done" => pipe'[s] = 0 /\ ~alive
  <2>1. CASE \E n \in 1 .. Chunk : /\ n <= pipe[s] /\ pipe'[s] = pipe[s] - n
                                   /\ reader'[s] = [pc |-> "load", count |-> n, seen |-> 0]
    BY <2>1, Limits, ReaderCounts DEF IInv, InFlight
  <2>2. CASE pipe[s] = 0 /\ ~alive /\ pipe'[s] = 0 /\ reader'[s] = Done
    BY <2>2, Limits DEF InFlight
  <2>3. CASE pipe'[s] = pipe[s] /\ reader'[s] = [reader[s] EXCEPT !.pc = "failed"]
    BY <2>3, Limits, Shape, ReaderCounts DEF IInv, InFlight
  <2> QED BY <1>2, <2>1, <2>2, <2>3
<1>4. /\ pipe' \in [Stream -> Nat]
      /\ reader' \in [Stream -> [pc : {"none", "reading", "load", "claim", "flag", "done", "failed"},
                                 count : 0 .. Chunk, seen : 0 .. Limit]]
  <2> DEFINE Readers == [pc : {"none", "reading", "load", "claim", "flag", "done", "failed"},
                         count : 0 .. Chunk, seen : 0 .. Limit]
  <2>1. reader \in [Stream -> Readers] /\ pipe \in [Stream -> Nat]
    BY Shape DEF IInv
  <2>2. reader'[s] \in Readers
    BY <1>3
  <2> HIDE DEF Readers
  <2>3. reader' \in [Stream -> Readers] /\ pipe' \in [Stream -> Nat]
    BY <1>2, <1>3, <2>1, <2>2
  <2> QED BY <2>3 DEF Readers
<1>5. TypeOK'
  <2>1. \A t \in Stream : pipe'[t] <= Capacity
    BY <1>2, <1>3, Limits, ReaderCounts DEF IInv, TypeOK
  <2> QED BY <1>1, <1>4, <2>1 DEF IInv, TypeOK
<1>6. OneBudget'
  BY <1>1 DEF IInv, OneBudget, Total
<1>7. BytesAccounted'
  <2>1. \A t \in Stream : InFlight(t)' + pipe'[t] = InFlight(t) + pipe[t]
    BY <1>2, <1>3, ReaderCounts DEF IInv, InFlight
  <2>2. \A t \in Stream : InFlight(t)' \in Nat /\ pipe'[t] \in Nat
    BY <1>2, <1>3, <1>4, Limits, ReaderCounts DEF IInv, InFlight
  <2>3. \A t \in Stream : reader'[t].pc # "flag" => reader[t].pc # "flag"
    BY <1>2, <1>3
  <2> QED BY <1>1, <2>1, <2>2, <2>3, ReaderCounts DEF IInv, BytesAccounted
<1>8. ClaimsAreRecent'
  BY <1>1, <1>2, <1>3 DEF IInv, ClaimsAreRecent
<1>9. DropsHaveCause'
  BY <1>1, <1>2, <1>3 DEF IInv, DropsHaveCause, Total
<1>10. DoneIsDone'
  BY <1>1, <1>2, <1>3 DEF IInv, DoneIsDone, Idle
<1>11. MonitorKnows' /\ AnswersHaveCause'
  BY <1>1, <1>2 DEF IInv, MonitorKnows, AnswersHaveCause
<1> QED BY <1>5, <1>6, <1>7, <1>8, <1>9, <1>10, <1>11 DEF IInv

\* The budget is loaded: a reader's view of it is never ahead of the budget.
LEMMA LoadIInv ==
    ASSUME IInv, NEW s \in Stream, Load(s)
    PROVE  IInv'
<1>1. UNCHANGED <<monitor, child, status, alive, pipe, written, kept, truncated, retained, overflow,
                  expired, forced, observed, answer>>
  BY DEF Load, proc, data, verdict
<1>2. /\ reader[s].pc = "load" /\ reader'[s].pc = "claim" /\ reader'[s].seen = retained
      /\ reader'[s].count = reader[s].count
      /\ \A t \in Stream \ {s} : reader'[t] = reader[t]
  BY Shape DEF IInv, Load
<1>3. TypeOK'
  <2>1. retained \in 0 .. Limit
    BY Limits, Shape DEF IInv, OneBudget
  <2>2. reader' \in [Stream -> [pc : {"none", "reading", "load", "claim", "flag", "done", "failed"},
                                count : 0 .. Chunk, seen : 0 .. Limit]]
    BY <2>1, Shape DEF IInv, Load
  <2> QED BY <1>1, <2>2 DEF IInv, TypeOK
<1>4. \A t \in Stream :
         /\ InFlight(t)' = InFlight(t)
         /\ reader'[t].pc \in {"done", "flag"} \/ reader[t].pc \in {"done", "flag"} => reader'[t] = reader[t]
         /\ reader[t] = Idle => reader'[t] = Idle
  <2>1. InFlight(s)' = InFlight(s) /\ reader[s] # Idle
    BY <1>2 DEF InFlight, Idle
  <2>2. \A t \in Stream \ {s} : InFlight(t)' = InFlight(t)
    BY <1>2 DEF InFlight
  <2> QED BY <1>2, <2>1, <2>2
<1>5. OneBudget' /\ BytesAccounted'
  BY <1>1, <1>4 DEF IInv, OneBudget, BytesAccounted, Total
<1>6. ClaimsAreRecent'
  BY <1>1, <1>2, Shape DEF IInv, ClaimsAreRecent
<1>7. DropsHaveCause'
  BY <1>1, <1>4 DEF IInv, DropsHaveCause, Total
<1>8. DoneIsDone'
  BY <1>1, <1>4 DEF IInv, DoneIsDone
<1>9. MonitorKnows' /\ AnswersHaveCause'
  BY <1>1, <1>4 DEF IInv, MonitorKnows, AnswersHaveCause
<1> QED BY <1>3, <1>5, <1>6, <1>7, <1>8, <1>9 DEF IInv

\* What is granted short of a request exhausts the limit.
LEMMA ClaimArithmetic ==
    ASSUME NEW limit \in Nat, NEW used \in Nat, NEW seen \in Nat, NEW count \in Nat, NEW g \in Nat,
           seen <= used, used <= limit, g <= count,
           g = count \/ g = limit - seen, g = 0 \/ used = seen
    PROVE  g # count => used + g = limit /\ count - g > 0
OBVIOUS

\* A claim takes what is left of the budget, or learns that it has shrunk.
LEMMA ClaimIInv ==
    ASSUME IInv, NEW s \in Stream, Claim(s)
    PROVE  IInv'
<1> DEFINE g == Granted(s)
           count == reader[s].count
<1>1. UNCHANGED <<monitor, child, status, alive, pipe, written, truncated, overflow,
                  expired, forced, observed, answer>>
  BY DEF Claim, proc, data, verdict
<1>2. /\ reader[s].pc = "claim" /\ count > 0 /\ reader[s].seen <= retained
      /\ \A t \in Stream \ {s} : reader'[t] = reader[t] /\ kept'[t] = kept[t]
      /\ reader'[s].count = count
  BY Shape DEF IInv, Claim, ClaimsAreRecent
<1>3. /\ g \in Nat /\ g <= count /\ g <= Limit - reader[s].seen
      /\ g = count \/ g = Limit - reader[s].seen
  BY GrantedIsLeast DEF IInv
<1>4. /\ kept[Stdout] \in Nat /\ kept[Stderr] \in Nat /\ retained \in Nat
      /\ retained = kept[Stdout] + kept[Stderr] /\ retained <= Limit
      /\ count \in Nat /\ Limit \in Nat /\ reader[s].seen \in Nat
      /\ s = Stdout \/ s = Stderr
  BY Limits, ReaderCounts DEF IInv, OneBudget, Total, Stream, TypeOK
<1>5. CASE /\ g = 0 \/ retained = reader[s].seen
           /\ retained' = retained + g /\ kept'[s] = kept[s] + g
           /\ reader'[s].pc = IF g = count THEN "reading" ELSE "flag"
  <2> HIDE DEF g, count
  <2>1. retained' \in Nat /\ retained' <= Limit /\ retained' >= retained
    BY <1>3, <1>4, <1>5
  <2>2. g # count => retained' = Limit /\ count - g > 0
    <3>1. reader[s].seen <= retained /\ count > 0
      BY <1>2
    <3> QED BY <1>3, <1>4, <1>5, <3>1, ClaimArithmetic
  <2>3. kept' \in [Stream -> Nat] /\ kept[s] + g \in Nat
    BY <1>3, <1>4, Shape DEF Claim, IInv, g
  <2>4. kept'[Stdout] + kept'[Stderr] = retained'
    BY <1>2, <1>3, <1>4, <1>5, LimitAssumption DEF Stream
  <2>5. OneBudget'
    BY <2>1, <2>4 DEF OneBudget, Total
  <2>6. /\ InFlight(s) = count /\ InFlight(s)' = 0
        /\ kept[s] + pipe[s] + count <= written[s]
        /\ ~truncated[s] => kept[s] + pipe[s] + count = written[s]
    BY <1>2, <1>5 DEF InFlight, IInv, BytesAccounted, count
  <2>7. pipe[s] \in Nat /\ written[s] \in Nat /\ kept[s] \in Nat
    BY ReaderCounts DEF IInv
  <2>8. /\ kept'[s] + pipe[s] <= written[s]
        /\ ~truncated[s] /\ g = count => kept'[s] + pipe[s] = written[s]
        /\ g # count => kept'[s] + pipe[s] < written[s]
    BY <1>3, <1>4, <1>5, <2>6, <2>7
  <2>9. BytesAccounted'
    <3>1. kept'[s] + pipe[s] + 0 = kept'[s] + pipe[s]
      BY <1>3, <1>5, <2>7
    <3>2. \A t \in Stream \ {s} : InFlight(t)' = InFlight(t)
      BY <1>2 DEF InFlight
    <3> QED BY <1>1, <1>2, <1>5, <2>6, <2>8, <3>1, <3>2 DEF IInv, BytesAccounted
  <2>10. \A t \in Stream \ {s} : kept[t] + pipe[t] + InFlight(t) <= written[t]
    BY DEF IInv, BytesAccounted
  <2>11. \A t \in Stream \ {s} : kept'[t] <= written[t] /\ written[t] \in Nat
    BY <1>2, <2>10, ReaderCounts DEF IInv
  <2>12. g # count => Total(written) > Limit
    <3> SUFFICES ASSUME g # count PROVE Total(written) > Limit
      OBVIOUS
    <3>1. /\ kept'[s] < written[s] /\ kept'[Stdout] \in Nat /\ kept'[Stderr] \in Nat
          /\ written[Stdout] \in Nat /\ written[Stderr] \in Nat
      BY <2>3, <2>7, <2>8, ReaderCounts DEF IInv, Stream
    <3>2. CASE s = Stdout
      BY <1>4, <2>2, <2>4, <2>11, <3>1, <3>2, LimitAssumption DEF Total, Stream
    <3>3. CASE s = Stderr
      BY <1>4, <2>2, <2>4, <2>11, <3>1, <3>3, LimitAssumption DEF Total, Stream
    <3> QED BY <1>4, <3>2, <3>3
  <2>13. ClaimsAreRecent'
    BY <1>2, <1>4, <1>5, <2>1, ReaderCounts DEF IInv, ClaimsAreRecent
  <2>14. DropsHaveCause'
    BY <1>1, <1>2, <1>5, <2>12 DEF IInv, DropsHaveCause, Total
  <2>15. TypeOK'
    <3>1. kept'[s] <= written[s]
      BY <1>3, <1>5, <2>7, <2>8
    <3>2. reader' = [reader EXCEPT ![s].pc = IF g = count THEN "reading" ELSE "flag"]
      BY <1>2, <1>5, Shape DEF Claim, IInv, g, count
    <3>3. reader' \in [Stream -> [pc : {"none", "reading", "load", "claim", "flag", "done", "failed"},
                                  count : 0 .. Chunk, seen : 0 .. Limit]]
      BY <3>2, Shape DEF IInv
    <3> QED BY <1>1, <2>1, <2>3, <2>11, <3>1, <3>3 DEF IInv, TypeOK
  <2>16. DoneIsDone' /\ MonitorKnows' /\ AnswersHaveCause'
    BY <1>1, <1>2, <1>5 DEF IInv, DoneIsDone, Idle, MonitorKnows, AnswersHaveCause
  <2> QED BY <2>5, <2>9, <2>13, <2>14, <2>15, <2>16 DEF IInv
<1>6. CASE reader' = [reader EXCEPT ![s].seen = retained] /\ UNCHANGED <<retained, kept>>
  <2>1. /\ reader'[s].pc = "claim" /\ reader'[s].seen = retained /\ reader'[s].count = count
    BY <1>2, <1>6, Shape DEF IInv
  <2>2. \A t \in Stream : /\ InFlight(t)' = InFlight(t) /\ reader'[t].pc = reader[t].pc
                          /\ reader[t] = Idle => reader'[t] = Idle
    BY <1>2, <2>1 DEF InFlight, Idle
  <2>3. TypeOK'
    <3>1. retained \in 0 .. Limit
      BY <1>4
    <3>2. reader' \in [Stream -> [pc : {"none", "reading", "load", "claim", "flag", "done", "failed"},
                                  count : 0 .. Chunk, seen : 0 .. Limit]]
      BY <1>6, <3>1, Shape DEF IInv
    <3> QED BY <1>1, <1>6, <3>2 DEF IInv, TypeOK
  <2>4. OneBudget' /\ BytesAccounted' /\ DropsHaveCause'
    BY <1>1, <1>6, <2>2 DEF IInv, OneBudget, BytesAccounted, DropsHaveCause, Total
  <2>5. ClaimsAreRecent'
    BY <1>2, <1>4, <1>6, <2>1 DEF IInv, ClaimsAreRecent
  <2>6. DoneIsDone' /\ MonitorKnows' /\ AnswersHaveCause'
    BY <1>1, <2>2 DEF IInv, DoneIsDone, MonitorKnows, AnswersHaveCause
  <2> QED BY <2>3, <2>4, <2>5, <2>6 DEF IInv
<1> QED BY <1>2, <1>5, <1>6, Shape DEF Claim, IInv

\* What did not fit is dropped, and both say so.
LEMMA FlagIInv ==
    ASSUME IInv, NEW s \in Stream, Flag(s)
    PROVE  IInv'
<1> USE DEF Flag, proc, data, verdict, Reading
<1>1. /\ UNCHANGED <<monitor, child, status, alive, pipe, written, kept, retained, expired, forced,
                     observed, answer>>
      /\ overflow' = TRUE
  OBVIOUS
<1>2. /\ reader[s].pc = "flag" /\ reader'[s] = Reading /\ truncated'[s] = TRUE
      /\ \A t \in Stream \ {s} : reader'[t] = reader[t] /\ truncated'[t] = truncated[t]
  BY Shape DEF IInv
<1>3. TypeOK'
  <2>1. Reading \in [pc : {"none", "reading", "load", "claim", "flag", "done", "failed"},
                     count : 0 .. Chunk, seen : 0 .. Limit]
    BY Limits
  <2>2. /\ reader' \in [Stream -> [pc : {"none", "reading", "load", "claim", "flag", "done", "failed"},
                                   count : 0 .. Chunk, seen : 0 .. Limit]]
        /\ truncated' \in [Stream -> BOOLEAN]
    BY <2>1, Shape DEF IInv
  <2> QED BY <1>1, <2>2 DEF IInv, TypeOK
<1>4. OneBudget' /\ ClaimsAreRecent'
  BY <1>1, <1>2 DEF IInv, OneBudget, ClaimsAreRecent, Total
<1>5. BytesAccounted'
  BY <1>1, <1>2 DEF IInv, BytesAccounted, InFlight
<1>6. DropsHaveCause'
  BY <1>1, <1>2 DEF IInv, DropsHaveCause, Total
<1>7. DoneIsDone'
  BY <1>1, <1>2 DEF IInv, DoneIsDone, Idle
<1>8. MonitorKnows' /\ AnswersHaveCause'
  BY <1>1, <1>2 DEF IInv, MonitorKnows, AnswersHaveCause
<1> QED BY <1>3, <1>4, <1>5, <1>6, <1>7, <1>8 DEF IInv

-----------------------------------------------------------------------------
(* The monitor. *)

\* The call is refused, or launches its child and spawns its readers.
LEMMA LaunchIInv ==
    ASSUME IInv,
           Refuse \/ Launch \/ \E started \in {{}, {Stdout}, Stream} : SpawnReaders(started)
    PROVE  IInv'
<1> USE LimitAssumption DEF Refuse, Launch, SpawnReaders, proc, data, io, verdict
<1>1. UNCHANGED <<status, pipe, written, kept, truncated, retained, overflow, expired, forced, observed>>
  OBVIOUS
<1>2. \A t \in Stream : reader[t] = Idle /\ reader'[t] \in {Idle, Reading}
  BY DEF IInv, DoneIsDone
<1>3. TypeOK'
  <2>1. {Idle, Reading} \subseteq [pc : {"none", "reading", "load", "claim", "flag", "done", "failed"},
                                   count : 0 .. Chunk, seen : 0 .. Limit]
    BY Limits DEF Idle, Reading
  <2>2. reader' \in [Stream -> [pc : {"none", "reading", "load", "claim", "flag", "done", "failed"},
                                count : 0 .. Chunk, seen : 0 .. Limit]]
    BY <2>1, Shape DEF IInv
  <2> QED BY <1>1, <2>2 DEF IInv, TypeOK
<1>4. OneBudget' /\ ClaimsAreRecent' /\ BytesAccounted' /\ DropsHaveCause'
  BY <1>1, <1>2 DEF IInv, OneBudget, ClaimsAreRecent, BytesAccounted, InFlight, DropsHaveCause, Total,
     Idle, Reading
<1>5. DoneIsDone'
  BY <1>1, <1>2 DEF IInv, DoneIsDone, MonitorKnows, Idle, Reading
<1>6. MonitorKnows'
  BY <1>1, <1>2 DEF IInv, MonitorKnows
<1>7. AnswersHaveCause'
  BY <1>1, <1>2 DEF IInv, AnswersHaveCause, MonitorKnows, Status
<1> QED BY <1>3, <1>4, <1>5, <1>6, <1>7 DEF IInv

\* The loop looks at the overflow flag, the clock and the child, kills and waits.
LEMMA LoopIInv ==
    ASSUME IInv, CheckOverflow \/ CheckDeadline \/ Poll \/ Kill \/ Reap
    PROVE  IInv'
<1> USE LimitAssumption DEF CheckOverflow, CheckDeadline, Poll, Kill, Reap, proc, data, io, verdict
<1>1. UNCHANGED <<status, alive, pipe, written, reader, kept, truncated, retained, overflow, expired>>
  OBVIOUS
<1>2. TypeOK'
  BY <1>1 DEF IInv, TypeOK, MonitorKnows, Status
<1>3. OneBudget' /\ ClaimsAreRecent' /\ BytesAccounted' /\ DropsHaveCause'
  BY <1>1 DEF IInv, OneBudget, ClaimsAreRecent, BytesAccounted, InFlight, DropsHaveCause, Total
<1>4. DoneIsDone'
  BY <1>1 DEF IInv, DoneIsDone
<1>5. MonitorKnows'
  BY <1>1 DEF IInv, MonitorKnows
<1>6. AnswersHaveCause'
  BY <1>1 DEF IInv, AnswersHaveCause, MonitorKnows, Status
<1> QED BY <1>2, <1>3, <1>4, <1>5, <1>6 DEF IInv

\* The readers are joined and the verdict is given.
LEMMA AnswerIInv ==
    ASSUME IInv, Join \/ JoinFails \/ Classify
    PROVE  IInv'
<1> USE LimitAssumption DEF Join, JoinFails, Classify, proc, data, io, verdict
<1>1. UNCHANGED <<child, status, alive, pipe, written, reader, kept, truncated, retained, overflow,
                  expired, forced, observed>>
  OBVIOUS
<1>2. Termination \in Status \cup {"overflow", "timeout", None}
  BY DEF Termination, IInv, TypeOK, AnswersHaveCause
<1>3. TypeOK'
  BY <1>1, <1>2 DEF IInv, TypeOK
<1>4. OneBudget' /\ ClaimsAreRecent' /\ BytesAccounted' /\ DropsHaveCause'
  BY <1>1 DEF IInv, OneBudget, ClaimsAreRecent, BytesAccounted, InFlight, DropsHaveCause, Total
<1>5. DoneIsDone'
  BY <1>1 DEF IInv, DoneIsDone
<1>6. MonitorKnows'
  BY <1>1 DEF IInv, MonitorKnows
<1>7. AnswersHaveCause'
  BY <1>1 DEF IInv, AnswersHaveCause, MonitorKnows, Status, Termination, TypeOK
<1> QED BY <1>3, <1>4, <1>5, <1>6, <1>7 DEF IInv

-----------------------------------------------------------------------------
(* The theorems. *)

\* Before anything is launched the invariant holds.
LEMMA InitIInv == Init => IInv
<1> SUFFICES ASSUME Init PROVE IInv
  OBVIOUS
<1>1. TypeOK
  <2>1. Idle \in [pc : {"none", "reading", "load", "claim", "flag", "done", "failed"},
                  count : 0 .. Chunk, seen : 0 .. Limit]
    BY Limits DEF Idle
  <2>2. \A s \in Stream : kept[s] <= written[s] /\ pipe[s] <= Capacity
    BY Limits DEF Init
  <2>3. reader \in [Stream -> [pc : {"none", "reading", "load", "claim", "flag", "done", "failed"},
                              count : 0 .. Chunk, seen : 0 .. Limit]]
    BY <2>1 DEF Init
  <2>4. {alive, overflow, expired} \subseteq BOOLEAN /\ truncated \in [Stream -> BOOLEAN]
    BY DEF Init
  <2>5. {pipe, written, kept} \subseteq [Stream -> Nat] /\ retained \in Nat
    BY DEF Init
  <2> QED BY <2>2, <2>3, <2>4, <2>5 DEF Init, TypeOK
<1>2. OneBudget
  BY Limits DEF Init, OneBudget, Total, Stream
<1>3. BytesAccounted /\ ClaimsAreRecent /\ DropsHaveCause /\ DoneIsDone
  BY Limits DEF Init, BytesAccounted, ClaimsAreRecent, DropsHaveCause, DoneIsDone, InFlight, Idle
<1>4. MonitorKnows /\ AnswersHaveCause
  BY LimitAssumption DEF Init, MonitorKnows, AnswersHaveCause
<1> QED BY <1>1, <1>2, <1>3, <1>4 DEF IInv

\* No step of the monitor, a reader or the environment breaks the invariant.
LEMMA NextIInv == IInv /\ [Next]_vars => IInv'
<1> SUFFICES ASSUME IInv, [Next]_vars PROVE IInv'
  OBVIOUS
<1>1. CASE MonitorStep
  BY <1>1, LaunchIInv, LoopIInv, AnswerIInv DEF MonitorStep
<1>2. CASE \E s \in Stream : ReaderStep(s)
  BY <1>2, ReadIInv, LoadIInv, ClaimIInv, FlagIInv DEF ReaderStep
<1>3. CASE Environment
  BY <1>3, WriteIInv, EndIInv, ReadIInv DEF Environment, Status
<1>4. CASE UNCHANGED vars
  BY <1>4 DEF vars, proc, data, io, verdict, IInv, TypeOK, OneBudget, BytesAccounted, InFlight,
              ClaimsAreRecent, DropsHaveCause, DoneIsDone, MonitorKnows, AnswersHaveCause, Total
<1> QED BY <1>1, <1>2, <1>3, <1>4 DEF Next

\* The strengthened invariant holds in every reachable state.
THEOREM Invariance == Spec => []IInv
BY InitIInv, NextIInv, PTL DEF Spec

\* However the payload, the readers, the clock and the monitor of run_isolated
\* interleave, the verdict is what happened, the output is within its one budget
\* and no child is left.
THEOREM VerdictStaysTrue == Spec => []VerdictIsTrue
<1>1. IInv => SuccessIsComplete
  <2> SUFFICES ASSUME IInv, answer = "success" PROVE SuccessIsComplete
    BY DEF SuccessIsComplete
  <2>1. status = "success" /\ child = "reaped" /\ ~overflow /\ \A s \in Stream : reader[s].pc = "done"
    BY LimitAssumption DEF IInv, AnswersHaveCause, MonitorKnows, Status
  <2>2. \A s \in Stream : kept[s] = written[s] /\ ~truncated[s]
    BY <2>1, ReaderCounts DEF IInv, DropsHaveCause, DoneIsDone, BytesAccounted, InFlight
  <2> QED BY <2>1, <2>2 DEF SuccessIsComplete
<1>2. IInv => VerdictHasCause
  <2> SUFFICES ASSUME IInv PROVE VerdictHasCause
    OBVIOUS
  <2>1. answer = "overflow" => Total(written) > Limit
    BY DEF IInv, AnswersHaveCause, DropsHaveCause
  <2>2. answer = "timeout" => expired
    BY DEF IInv, AnswersHaveCause
  <2>3. ASSUME answer \in {"nonzero", "signaled"}
        PROVE  status = answer /\ \A s \in Stream : kept[s] = written[s]
    <3>1. status = answer /\ ~overflow /\ \A s \in Stream : reader[s].pc = "done"
      BY <2>3, LimitAssumption DEF IInv, AnswersHaveCause, MonitorKnows, Status
    <3> QED BY <3>1, ReaderCounts DEF IInv, DropsHaveCause, DoneIsDone, BytesAccounted, InFlight
  <2> QED BY <2>1, <2>2, <2>3 DEF VerdictHasCause
<1>3. IInv => NoChildLeft
  BY DEF IInv, MonitorKnows, NoChildLeft
<1>4. IInv => VerdictIsTrue
  BY <1>1, <1>2, <1>3 DEF IInv, VerdictIsTrue
<1> QED BY <1>4, Invariance, PTL
=============================================================================
