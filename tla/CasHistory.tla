----------------------------- MODULE CasHistory -----------------------------
(***************************************************************************)
(* What the revision journal of the adapter bank promises its callers.     *)
(*                                                                         *)
(* The bank is one history of operations that only grows.  A caller names  *)
(* the revision it observed; its operation enters the history only if      *)
(* nothing was committed since.  A caller that was told its operation took *)
(* effect can rely on the operation being in the history for good.  A call *)
(* that ends in an error says nothing: its operation may have entered.     *)
(***************************************************************************)
EXTENDS Naturals, Sequences

CONSTANTS Caller, Op, None

VARIABLES
    history,     \* the committed operations, oldest first
    call,        \* what each caller is asking for
    promised     \* the operations some caller was told are in the history

vars == <<history, call, promised>>

Init ==
    /\ history = <<>>
    /\ call = [c \in Caller |-> None]
    /\ promised = {}

Submit(c) ==
    /\ call[c] = None
    /\ \E op \in Op, expected \in 0..Len(history) :
          call' = [call EXCEPT ![c] = [op |-> op, expected |-> expected]]
    /\ UNCHANGED <<history, promised>>

\* The operation enters the history at the revision after the one expected.
Commit(c) ==
    /\ call[c] # None
    /\ call[c].expected = Len(history)
    /\ history' = Append(history, call[c].op)
    /\ UNCHANGED <<call, promised>>

\* The caller is told that its operation took effect.
Acknowledge(c) ==
    /\ call[c] # None
    /\ \E r \in 1..Len(history) : history[r] = call[c].op
    /\ promised' = promised \union {call[c].op}
    /\ call' = [call EXCEPT ![c] = None]
    /\ UNCHANGED history

\* The call ends without a promise.
Fail(c) ==
    /\ call[c] # None
    /\ call' = [call EXCEPT ![c] = None]
    /\ UNCHANGED <<history, promised>>

Next == \E c \in Caller : Submit(c) \/ Commit(c) \/ Acknowledge(c) \/ Fail(c)

Spec == Init /\ [][Next]_vars
=============================================================================
