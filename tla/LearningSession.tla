--------------------------- MODULE LearningSession ---------------------------
(***************************************************************************)
(* Adaptive learning sessions: a session issues one aperture at a time,    *)
(* assimilates the evidence of the experiment made through it, and is      *)
(* complete when its plan is.  Every step is an immutable receipt, bound   *)
(* in the ledger and then selected by the session's one mutable pointer,   *)
(* under the session's lock.  Experiments run outside, and so does the     *)
(* admission of Vxx receipts, which writes three files without a lock.     *)
(*                                                                         *)
(* The next aperture is a function of what was learnt so far, so that a    *)
(* receipt is named by its session, its completed evidence and its pending *)
(* aperture: they determine every receipt before it.                       *)
(***************************************************************************)
EXTENDS Naturals, Sequences, FiniteSets, Bags, SequencesExt

CONSTANTS
    Session,
    Aperture,
    Outcome,        \* observed values, and the receipts they were derived from
    PlanSteps,      \* target.plan_steps, of each session
    NextAperture(_),\* next_learning_aperture, of the completed evidence
    Client,         \* processes that call the library
    MaxRuns,        \* bound on the experiments of the outside runner
    MaxDeaths,      \* bound on the calls that end early
    None

Envelope == [session : Session, aperture : Aperture, value : Outcome,
             source : {"runner", "vxx"}]

Receipts == [session : Session, done : Seq(Envelope), pending : Aperture \union {None}]

ASSUME LearningAssumption ==
    /\ PlanSteps \in [Session -> Nat \ {0}] /\ MaxDeaths \in Nat /\ MaxRuns \in Nat
    /\ None \notin Session \union Aperture \union Client \union Envelope
    /\ None \notin Receipts
    /\ \A s \in Session : \A n \in 0..(PlanSteps[s] - 1) : \A d \in [1..n -> Envelope] :
           NextAperture(d) \in Aperture

VARIABLES
    marker,      \* session-ids/<session>.json
    receipts,    \* by-sha/<digest>.json
    ledger,      \* the bag of the receipts the ledger binds
    current,     \* current/<session>.json: the receipt it selects, or None
    evidence,    \* learning_evidence/by-sha
    runs,        \* envelopes the outside runner has written
    observations,\* observations/vxx-<receipt>-<aperture>.json
    supports,    \* experiment_support/vxx-<aperture>.json
    admitted,    \* experiment_envelopes/vxx-<aperture>.json
    lock,        \* the holder of each session's lock
    at,          \* where each client is
    call,        \* its operation, session, envelope and receipt
    acknowledged,\* history: the receipts some caller was answered with
    finals,      \* history: the receipts some finalization input was made of
    deaths

chain == <<marker, receipts, ledger, current, evidence>>
outside == <<runs, observations, supports, admitted>>
history == <<acknowledged, finals, deaths>>
vars == <<chain, outside, lock, at, call, history>>

NoCall == [op |-> "none", session |-> None, envelope |-> None, receipt |-> None]

Receipt(s, d, p) == [session |-> s, done |-> d, pending |-> p]
Started(s) == Receipt(s, <<>>, None)
Issued(r) == Receipt(r.session, r.done, NextAperture(r.done))
Assimilated(r, e) == Receipt(r.session, Append(r.done, e), None)

\* The receipts that lead to r, r included.
Chain(r) ==
    {r} \union {Receipt(r.session, d, None) : d \in Prefixes(r.done)}
        \union {Receipt(r.session, d, NextAperture(d)) : d \in Prefixes(r.done) \ {r.done}}

\* Evidence for the aperture that is pending in this session after d.
Answers(e, s, d) == e.session = s /\ e.aperture = NextAperture(d)

-----------------------------------------------------------------------------
(* Loading: the pointer's receipt with its whole chain, each receipt bound *)
(* exactly once, each evidence on disk and for the aperture then pending.  *)

\* The ledger binds r; two events of one receipt are ambiguous.
Bound(r) == BagIn(r, ledger) /\ ledger[r] = 1

Replays(r) ==
    /\ \A q \in Chain(r) : q \in receipts /\ Bound(q)
    /\ \A i \in DOMAIN r.done :
          /\ r.done[i] \in evidence
          /\ Answers(r.done[i], r.session, SubSeq(r.done, 1, i - 1))
    /\ r.pending # None => r.pending = NextAperture(r.done)

Loads(s) == current[s] # None /\ Replays(current[s])

-----------------------------------------------------------------------------
Init ==
    /\ marker = {} /\ receipts = {} /\ evidence = {}
    /\ ledger = EmptyBag
    /\ current = [s \in Session |-> None]
    /\ runs = {} /\ observations = {} /\ supports = {}
    /\ admitted = [a \in Aperture |-> None]
    /\ lock = [s \in Session |-> None]
    /\ at = [c \in Client |-> "idle"]
    /\ call = [c \in Client |-> NoCall]
    /\ acknowledged = {} /\ finals = {} /\ deaths = 0

Go(c, place) == at' = [at EXCEPT ![c] = place]

\* The call returns, and its lock with it.
Return(c) ==
    /\ Go(c, "idle")
    /\ call' = [call EXCEPT ![c] = NoCall]
    /\ lock' = [s \in Session |-> IF lock[s] = c THEN None ELSE lock[s]]

Refuse(c) == Return(c) /\ UNCHANGED <<chain, outside, history>>

-----------------------------------------------------------------------------
(* Outside the library: the runner performs the experiment of a pending    *)
(* aperture and writes its envelope, which stays where it is.              *)
RunExperiment(s, v) ==
    /\ current[s] # None /\ current[s].pending # None
    /\ Cardinality(runs) < MaxRuns
    /\ runs' = runs \union {[session |-> s, aperture |-> current[s].pending, value |-> v,
                             source |-> "runner"]}
    /\ UNCHANGED <<chain, observations, supports, admitted, lock, at, call, history>>

\* What an operator may name on the command line.
OnDisk == runs \union ({admitted[a] : a \in Aperture} \ {None})

\* Variant: no lock.
Freely(s) == TRUE

\* A call takes the lock of its session and decides at once: what it reads under
\* the lock only the holder changes.  A call that is refused changes nothing.
Free(s) == lock[s] = None

Take(c, op, s, r) ==
    /\ Free(s)
    /\ lock' = [lock EXCEPT ![s] = c]
    /\ call' = [call EXCEPT ![c] = [op |-> op, session |-> s, envelope |-> None, receipt |-> r]]
    /\ Go(c, "store")

-----------------------------------------------------------------------------
Reserved(s) == s \in marker \/ current[s] # None

Start(c, s) ==
    /\ at[c] = "idle"
    /\ ~Reserved(s)
    /\ Take(c, "start", s, Started(s))
    /\ marker' = marker \union {s}
    /\ UNCHANGED <<receipts, ledger, current, evidence, outside, history>>

\* Variant: one aperture beyond the plan.
MayIssueBeyond(r) == r.pending = None /\ Len(r.done) <= PlanSteps[r.session]

\* One aperture at a time, and none beyond the plan.
MayIssue(r) == r.pending = None /\ Len(r.done) < PlanSteps[r.session]

IssueNext(c, s) ==
    /\ at[c] = "idle"
    /\ Loads(s) /\ MayIssue(current[s])
    /\ Take(c, "next", s, Issued(current[s]))
    /\ UNCHANGED <<chain, outside, history>>

MayAssimilate(r, e) ==
    /\ r.pending # None
    /\ e.session = r.session /\ e.aperture = r.pending
    /\ e \notin Range(r.done)

TakeEvidence(c, s, e) ==
    /\ Loads(s) /\ MayAssimilate(current[s], e)
    /\ Take(c, "assimilate", s, Assimilated(current[s], e))
    /\ evidence' = evidence \union {e}
    /\ UNCHANGED <<marker, receipts, ledger, current, outside, history>>

Assimilate(c, s, e) == at[c] = "idle" /\ TakeEvidence(c, s, e)

-----------------------------------------------------------------------------
(* persist_receipt_under_root *)

\* Variant: only a receipt that is current counts as written.
StoredAsCurrent(r) == current[r.session] = r

Stored(r) == r \in receipts

StoreReceipt(c) ==
    LET r == call[c].receipt IN
    /\ at[c] = "store"
    /\ \/ Stored(r) /\ Refuse(c)
       \/ /\ ~Stored(r)
          /\ receipts' = receipts \union {r}
          /\ Go(c, "bind")
          /\ UNCHANGED <<marker, ledger, current, evidence, outside, lock, call, history>>

BindReceipt(c) ==
    /\ at[c] = "bind"
    /\ ledger' = ledger (+) SetToBag({call[c].receipt})
    /\ Go(c, "select")
    /\ UNCHANGED <<marker, receipts, current, evidence, outside, lock, call, history>>

SelectReceipt(c) ==
    /\ at[c] = "select"
    /\ current' = [current EXCEPT ![call[c].session] = call[c].receipt]
    /\ Go(c, "confirm")
    /\ UNCHANGED <<marker, receipts, ledger, evidence, outside, lock, call, history>>

Confirm(c) ==
    LET r == call[c].receipt IN
    /\ at[c] = "confirm"
    /\ acknowledged' = IF Loads(r.session) /\ current[r.session] = r
                       THEN acknowledged \union {r} ELSE acknowledged
    /\ Return(c)
    /\ UNCHANGED <<chain, outside, finals, deaths>>

-----------------------------------------------------------------------------
(* Admission of a Vxx receipt: no lock; each of its files is created and   *)
(* never replaced.  The names of two of them hold the aperture alone.      *)

\* Variant: the aperture that would be issued next.
WantedNext(s) ==
    LET d == current[s].done IN IF Len(d) < PlanSteps[s] THEN NextAperture(d) ELSE None

Wanted(s) == current[s].pending

\* Variant: any session that loads.
AwaitsAnything(s) == Loads(s)

Awaits(s) == Loads(s) /\ Wanted(s) # None

AdmitReceipt(c, s, v) ==
    /\ at[c] = "idle"
    /\ Awaits(s)
    /\ call' = [call EXCEPT ![c] =
                   [op |-> "admit", session |-> s, receipt |-> None,
                    envelope |-> [session |-> s, aperture |-> Wanted(s),
                                  value |-> v, source |-> "vxx"]]]
    /\ Go(c, "observe")
    /\ UNCHANGED <<chain, outside, lock, history>>

AdmitObservation(c) ==
    LET name == <<call[c].envelope.value, call[c].envelope.aperture>> IN
    /\ at[c] = "observe"
    /\ \/ name \in observations /\ Refuse(c)
       \/ /\ name \notin observations
          /\ observations' = observations \union {name}
          /\ Go(c, "support")
          /\ UNCHANGED <<chain, runs, supports, admitted, lock, call, history>>

AdmitSupport(c) ==
    LET a == call[c].envelope.aperture IN
    /\ at[c] = "support"
    /\ \/ a \in supports /\ Refuse(c)
       \/ /\ a \notin supports
          /\ supports' = supports \union {a}
          /\ Go(c, "envelope")
          /\ UNCHANGED <<chain, runs, observations, admitted, lock, call, history>>

\* The envelope is written; the caller may have asked to assimilate it at once.
AdmitEnvelope(c) ==
    LET a == call[c].envelope.aperture IN
    /\ at[c] = "envelope"
    /\ \/ admitted[a] # None /\ Refuse(c)
       \/ /\ admitted[a] = None
          /\ admitted' = [admitted EXCEPT ![a] = call[c].envelope]
          /\ \/ Return(c)
             \/ Go(c, "admitted") /\ UNCHANGED <<lock, call>>
          /\ UNCHANGED <<chain, runs, observations, supports, history>>

\* admit_and_assimilate: the session may have gone on meanwhile.
AssimilateAdmitted(c) ==
    LET s == call[c].session
        e == call[c].envelope IN
    /\ at[c] = "admitted"
    /\ \/ TakeEvidence(c, s, e)
       \/ Free(s) /\ ~(Loads(s) /\ MayAssimilate(current[s], e)) /\ Refuse(c)

-----------------------------------------------------------------------------
(* prepare_learning_finalization: of a complete session, without its lock. *)

Complete(r) == r.pending = None /\ Len(r.done) = PlanSteps[r.session]

Finalize(s) ==
    /\ Loads(s) /\ Complete(current[s])
    /\ finals' = finals \union {current[s]}
    /\ UNCHANGED <<chain, outside, lock, at, call, acknowledged, deaths>>

\* The process dies or a write of it fails: the call ends where it is.
EndEarly(c) ==
    /\ at[c] # "idle"
    /\ deaths < MaxDeaths
    /\ deaths' = deaths + 1
    /\ Return(c)
    /\ UNCHANGED <<chain, outside, acknowledged, finals>>

-----------------------------------------------------------------------------
Persist(c) == StoreReceipt(c) \/ BindReceipt(c) \/ SelectReceipt(c) \/ Confirm(c)

Admit(c) == AdmitObservation(c) \/ AdmitSupport(c) \/ AdmitEnvelope(c) \/ AssimilateAdmitted(c)

Next ==
    \/ \E s \in Session, v \in Outcome : RunExperiment(s, v)
    \/ \E s \in Session : Finalize(s)
    \/ \E c \in Client :
          \/ \E s \in Session : Start(c, s) \/ IssueNext(c, s)
          \/ \E s \in Session, v \in Outcome : AdmitReceipt(c, s, v)
          \/ \E s \in Session, e \in OnDisk : Assimilate(c, s, e)
          \/ Persist(c) \/ Admit(c) \/ EndEarly(c)

Spec == Init /\ [][Next]_vars

-----------------------------------------------------------------------------
Place == {"idle", "store", "bind", "select", "confirm",
          "observe", "support", "envelope", "admitted"}
Calls == [op : {"none", "start", "next", "assimilate", "admit"},
          session : Session \union {None}, envelope : Envelope \union {None},
          receipt : Receipts \union {None}]

\* The state every operation of the sessions keeps.
TypeOK ==
    /\ marker \subseteq Session
    /\ \A r \in receipts \union BagToSet(ledger) \union acknowledged \union finals : r \in Receipts
    /\ IsABag(ledger)
    /\ current \in [Session -> Receipts \union {None}]
    /\ evidence \union runs \subseteq Envelope
    /\ observations \subseteq Outcome \X Aperture /\ supports \subseteq Aperture
    /\ admitted \in [Aperture -> Envelope \union {None}]
    /\ lock \in [Session -> Client \union {None}]
    /\ at \in [Client -> Place]
    /\ call \in [Client -> Calls]
    /\ deaths \in 0..MaxDeaths

\* Whenever the pointer of a session is read, by whom and whatever died before,
\* the whole chain behind it replays: its receipts are there, each is bound in
\* the ledger once, and each evidence answers the aperture pending before it
\* (validate_receipt_transition).
CurrentReplays == \A s \in Session : current[s] # None => Replays(current[s])

\* A step its caller was answered with stays part of the session: no later call,
\* of whichever client, replaces it (with_session_lock around load and persist).
AcknowledgedIsKept ==
    \A r \in acknowledged : current[r.session] # None /\ r \in Chain(current[r.session])

\* Receipts that are neither part of their session nor about to be were left by
\* calls that ended early, one each: no retry, race or late envelope leaves
\* another, so that only such a call can keep a session from going on.
Orphans == {r \in receipts : /\ current[r.session] = None \/ r \notin Chain(current[r.session])
                             /\ \A c \in Client : at[c] \in {"bind", "select"} => call[c].receipt # r}
OrphansAreDeaths == Cardinality(Orphans) <= deaths

\* What a finalization input was made of is the current receipt for good: the
\* verification that prepares it again always finds the same receipt
\* (verify_learning_finalization_input).
FinalsNeverStale == \A r \in finals : current[r.session] = r

\* Whatever was admitted had been asked for: its aperture is or was pending in
\* its session (require_pending_step, without the lock).
AdmittedWasAsked ==
    \A e \in {admitted[a] : a \in Aperture} \ {None} :
        \E q \in Chain(current[e.session]) : q.pending = e.aperture

\* Whatever died before, the current state of a session loads with its chain, and
\* the receipts outside the chains are as few as the deaths.
SessionsAreSound == TypeOK /\ CurrentReplays /\ OrphansAreDeaths

\* What a client was told stays true whatever other clients do: an answered step
\* is kept, a finalization input stays current, an admitted aperture was asked
\* for.
AnswersStayTrue == AcknowledgedIsKept /\ FinalsNeverStale /\ AdmittedWasAsked
=============================================================================
