---------------------------- MODULE KnowledgeHead ----------------------------
(***************************************************************************)
(* The canonical head of one inquiry: callers that execute the planned     *)
(* action of a head they loaded, persist the immutable objects of the      *)
(* advance, and compare-and-swap the one mutable pointer under the         *)
(* inquiry's lock, while they crash and retry.                             *)
(*                                                                         *)
(* A state is named by its lineage: its genesis and the receipts that led  *)
(* from there to it.  The action planned in a state is a function of the   *)
(* state, so that two receipts of one action are two lineages with the     *)
(* same front.                                                             *)
(***************************************************************************)
EXTENDS Naturals, Sequences, FiniteSets

CONSTANTS
    Process,     \* callers of establish_canonical_genesis and commit_canonical_advance
    Genesis,     \* the genesis states somebody may propose for the inquiry
    Receipt,     \* what the executions of one action may differ in
    MaxLength,   \* bound on the length of a lineage
    Nobody       \* no request, no holder

Lineage == {l \in UNION {[1..n -> Genesis \union Receipt] : n \in 1..MaxLength} :
               /\ l[1] \in Genesis
               /\ \A i \in 2..Len(l) : l[i] \in Receipt}

ASSUME KnowledgeHeadAssumption ==
    /\ MaxLength \in Nat \ {0}
    /\ Genesis \intersect Receipt = {}
    /\ Nobody \notin Process \union [op : Lineage, expected : Nat]

VARIABLES
    states,      \* states/by-sha: the state files
    receipts,    \* action_receipts/by-sha: named by the state they lead to
    pointer,     \* canonical_heads/<inquiry>.json, <<>> before there is one
    lock,        \* the holder of the inquiry's lock
    pc,          \* where each call is
    call,        \* the state each call wants to install: a genesis or an advance
    promised     \* history: the states a caller was told are canonical

headVars == <<states, receipts, pointer, lock, pc, call, promised>>
files == <<states, receipts, pointer>>

Ancestry(l) == {SubSeq(l, 1, n) : n \in 1..Len(l)}
Parent(l) == SubSeq(l, 1, Len(l) - 1)

\* authenticate_canonical_head of a head whose current state is l: every state
\* of the lineage, and every receipt that led from one to the next, is on disk.
Authentic(l) ==
    \A s \in Ancestry(l) : s \in states /\ (Len(s) > 1 => s \in receipts)

HeadInit ==
    /\ states = {} /\ receipts = {} /\ pointer = <<>>
    /\ lock = Nobody
    /\ pc = [p \in Process |-> "idle"]
    /\ call = [p \in Process |-> <<>>]
    /\ promised = {}
-----------------------------------------------------------------------------
Finish(p) ==
    /\ pc' = [pc EXCEPT ![p] = "idle"]
    /\ call' = [call EXCEPT ![p] = <<>>]

\* Somebody proposes a genesis for the inquiry, for the first time or again.
ProposeGenesis(p) ==
    /\ pc[p] = "idle"
    /\ \E g \in Genesis : call' = [call EXCEPT ![p] = <<g>>]
    /\ pc' = [pc EXCEPT ![p] = "called"]
    /\ UNCHANGED <<files, lock, promised>>

\* The action planned in a head loaded now or earlier is executed and its
\* receipt is persisted, or an earlier receipt of it is found.
Execute(p) ==
    /\ pc[p] = "idle"
    /\ Len(pointer) < MaxLength
    /\ \E head \in Ancestry(pointer), r \in Receipt :
          /\ call' = [call EXCEPT ![p] = Append(head, r)]
          /\ receipts' = receipts \union {Append(head, r)}
    /\ pc' = [pc EXCEPT ![p] = "called"]
    /\ UNCHANGED <<states, pointer, lock, promised>>

\* persist_state, and persist_transition, which only replays the reducer on it.
Persist(p) ==
    /\ pc[p] = "called"
    /\ Len(call[p]) > 1 => Authentic(Parent(call[p])) /\ call[p] \in receipts
    /\ states' = states \union {call[p]}
    /\ pc' = [pc EXCEPT ![p] = "waiting"]
    /\ UNCHANGED <<receipts, pointer, lock, call, promised>>

\* Variant: the lock is not waited for.
AcquireUnlocked(p) ==
    /\ pc[p] = "waiting"
    /\ lock' = p
    /\ pc' = [pc EXCEPT ![p] = "locked"]
    /\ UNCHANGED <<files, call, promised>>

Acquire(p) ==
    /\ pc[p] = "waiting" /\ lock = Nobody
    /\ lock' = p
    /\ pc' = [pc EXCEPT ![p] = "locked"]
    /\ UNCHANGED <<files, call, promised>>

\* Variant: an action that has a receipt may be given another one while it is
\* the last.
SwappableOverLast(l) == pointer = Parent(l) \/ (pointer # <<>> /\ Parent(pointer) = Parent(l))

\* The head is still the one the caller expected; for a genesis, there is none.
Swappable(l) == pointer = Parent(l)

\* Variant: a receipt in the lineage is not looked up.
AnswerOnlyConflicts(p) ==
    /\ pc[p] = "locked"
    /\ ~Swappable(call[p]) /\ pointer # call[p]
    /\ Finish(p)
    /\ lock' = Nobody
    /\ UNCHANGED <<files, promised>>

\* Variant: an advance whose action has some receipt is acknowledged.
AnswerByAction(p) ==
    /\ pc[p] = "locked"
    /\ ~Swappable(call[p])
    /\ promised' = IF Parent(call[p]) \in Ancestry(pointer) \union {<<>>}
                   THEN promised \union {call[p]} ELSE promised
    /\ Finish(p)
    /\ lock' = Nobody
    /\ UNCHANGED files

\* Read and authenticate the head and answer without publishing: it is already
\* the one asked for, or the answer is an error: genesis_conflict, head_missing,
\* action_id_receipt_conflict, action_replay_not_current, swap_conflict.
Answer(p) ==
    /\ pc[p] = "locked"
    /\ ~Swappable(call[p])
    /\ promised' = IF pointer = call[p] THEN promised \union {call[p]} ELSE promised
    /\ Finish(p)
    /\ lock' = Nobody
    /\ UNCHANGED files

\* Variant: the pointer is replaced without looking at it again.
PublishAnything(p) ==
    /\ pc[p] = "locked"
    /\ Authentic(call[p])
    /\ pointer' = call[p]
    /\ pc' = [pc EXCEPT ![p] = "published"]
    /\ UNCHANGED <<states, receipts, lock, call, promised>>

\* Variant: the pointer is replaced before the objects it names are persisted.
PublishEarly(p) ==
    /\ pc[p] = "called"
    /\ Swappable(call[p])
    /\ pointer' = call[p]
    /\ pc' = [pc EXCEPT ![p] = "published"]
    /\ UNCHANGED <<states, receipts, lock, call, promised>>

\* The head is the expected one: publish_canonical_head replaces it.
Publish(p) ==
    /\ pc[p] = "locked"
    /\ Swappable(call[p])
    /\ Authentic(Parent(call[p])) /\ Authentic(call[p])
    /\ pointer' = call[p]
    /\ pc' = [pc EXCEPT ![p] = "published"]
    /\ UNCHANGED <<states, receipts, lock, call, promised>>

\* Variant: the lock's file is left locked.
ReturnLocked(p) ==
    /\ pc[p] = "published"
    /\ promised' = promised \union {call[p]}
    /\ Finish(p)
    /\ UNCHANGED <<files, lock>>

\* The lock is released and the caller gets the new head.
Return(p) ==
    /\ pc[p] = "published"
    /\ promised' = promised \union {call[p]}
    /\ Finish(p)
    /\ lock' = Nobody
    /\ UNCHANGED files

\* The process dies or an operation fails; what was written stays, the lock goes.
Abandon(p) ==
    /\ pc[p] # "idle"
    /\ Finish(p)
    /\ lock' = IF lock = p THEN Nobody ELSE lock
    /\ UNCHANGED <<files, promised>>

-----------------------------------------------------------------------------
Serve(p) == Persist(p) \/ Answer(p) \/ Publish(p) \/ Return(p)

HeadNext ==
    \/ \E p \in Process : ProposeGenesis(p) \/ Execute(p) \/ Acquire(p) \/ Serve(p) \/ Abandon(p)

HeadSpec == HeadInit /\ [][HeadNext]_headVars

\* A call that runs goes on, and a free lock is given to someone who waits.
FairHeadSpec ==
    /\ HeadSpec
    /\ \A p \in Process : WF_headVars(Serve(p))
    /\ WF_headVars(\E p \in Process : Acquire(p))
-----------------------------------------------------------------------------
(* Types of the files and the calls; the lock excludes. *)
HeadTypeOK ==
    /\ states \subseteq Lineage /\ receipts \subseteq Lineage
    /\ pointer \in Lineage \union {<<>>}
    /\ pc \in [Process -> {"idle", "called", "waiting", "locked", "published"}]
    /\ call \in [Process -> Lineage \union {<<>>}]
    /\ promised \subseteq Lineage
    /\ \A p \in Process : pc[p] \in {"locked", "published"} <=> lock = p

(* Whatever a crash left on disk, the head can be loaded: every state and  *)
(* receipt of its lineage was persisted before the pointer named it.  With *)
(* ImplementsCasHistory this is also what a reader without the lock relies *)
(* on, who authenticates the files of a pointer that was replaced          *)
(* meanwhile.                                                              *)
HeadAlwaysLoads ==
    \A s \in Ancestry(pointer) : s \in states /\ (Len(s) > 1 => s \in receipts)

(* A caller that was told a state is canonical finds it in the lineage of  *)
(* the head for good: one action never has two acknowledged receipts, and  *)
(* the inquiry never a second genesis.                                     *)
AcknowledgedStays == promised \subseteq Ancestry(pointer)

(* The pointer, its lock and the retries implement an atomic               *)
(* compare-and-swap history of the states that were canonical.             *)
Abstract == INSTANCE CasHistory WITH
    Caller <- Process, Op <- Lineage, None <- Nobody,
    history <- [n \in 1..Len(pointer) |-> SubSeq(pointer, 1, n)],
    call <- [p \in Process |-> IF pc[p] = "idle" THEN Nobody
                               ELSE [op |-> call[p], expected |-> Len(call[p]) - 1]]
ImplementsCasHistory == Abstract!Spec

(* Retries and conflicts cannot stall every caller at once. *)
SomeoneIsServed ==
    (\A p \in Process : pc[p] # "idle") ~> (\E p \in Process : pc[p] = "idle")

(* The lock of an inquiry never outlives the call that took it. *)
LockIsReleased == \A p \in Process : lock = p ~> lock # p

(* Wherever calls were cut short the head loads, and keeps what callers     *)
(* were told.                                                               *)
HeadIsSound == HeadTypeOK /\ HeadAlwaysLoads /\ AcknowledgedStays

(* Locks are given back, and some caller is answered.                       *)
ServiceGoesOn == LockIsReleased /\ SomeoneIsServed
=============================================================================
