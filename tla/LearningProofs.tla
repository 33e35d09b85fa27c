---------------------------- MODULE LearningProofs ---------------------------
(***************************************************************************)
(* Proofs about adaptive learning sessions, for any number of sessions,    *)
(* clients, plans and apertures, whatever ends early; and, from            *)
(* "Portfolio governance" on, about the three authorities a candidate      *)
(* passes, whatever reports callers assemble; and, from "Numerical         *)
(* evolution" on, about an engine that remembers what it tried.            *)
(***************************************************************************)
EXTENDS LearningSession, PortfolioGovernance, NumericalEvolution, FiniteSetTheorems,
        SequenceTheorems, WellFoundedInduction, TLAPS

-----------------------------------------------------------------------------
(***************************************************************************)
(* The inductive invariant: what a client knows at each point of its call, *)
(* and what the files tell of each other.                                  *)
(***************************************************************************)

Writing == {"store", "bind", "select", "confirm"}
Admitting == {"observe", "support", "envelope", "admitted"}

\* A receipt that continues what is current in session s.
ContinuesSession(s, r) ==
    /\ r \in Receipts /\ r.session = s
    /\ \/ current[s] = None /\ r = Started(s)
       \/ /\ current[s] # None
          /\ MayIssue(current[s]) /\ r = Issued(current[s])
       \/ /\ current[s] # None
          /\ \E e \in evidence : MayAssimilate(current[s], e) /\ r = Assimilated(current[s], e)

\* A call that writes holds the lock of its session, and what it read under the
\* lock is still so: the receipt it writes is the next one, and not bound yet.
Writer(c) ==
    LET s == call[c].session
        r == call[c].receipt IN
    /\ s \in Session /\ lock[s] = c
    /\ at[c] \in {"store", "bind", "select"} => ContinuesSession(s, r)
    /\ at[c] \in {"bind", "select"} => r \in receipts
    /\ at[c] = "bind" => ~BagIn(r, ledger)
    /\ at[c] = "select" => Bound(r)
    /\ at[c] = "confirm" => r \in Receipts /\ r.session = s /\ current[s] = r

WritersHold == \A c \in Client : at[c] \in Writing => Writer(c)

\* The ledger binds receipts that are on disk, each once.
LedgerBindsStored ==
    /\ DOMAIN ledger \subseteq receipts
    /\ \A r \in DOMAIN ledger : ledger[r] = 1
    /\ IsFiniteSet(receipts)

PointersMatch == \A s \in Session : current[s] # None => current[s].session = s

\* An aperture that was pending once in a session stays in its chain.
Asked(e) == /\ current[e.session] # None
            /\ \E q \in Chain(current[e.session]) : q.pending = e.aperture

Admitter(c) == /\ call[c].envelope \in Envelope /\ Asked(call[c].envelope)
               /\ call[c].session = call[c].envelope.session

AdmittersWereAsked ==
    /\ \A c \in Client : at[c] \in Admitting => Admitter(c)
    /\ \A a \in Aperture : admitted[a] # None => Asked(admitted[a])

FinalsComplete == \A r \in finals : current[r.session] = r /\ Complete(r)

IInv ==
    /\ TypeOK /\ CurrentReplays /\ OrphansAreDeaths /\ AcknowledgedIsKept
    /\ WritersHold /\ LedgerBindsStored /\ PointersMatch
    /\ AdmittersWereAsked /\ FinalsComplete

-----------------------------------------------------------------------------
(* Receipts and their chains. *)

LEMMA ReceiptIsRecord ==
    ASSUME NEW r \in Receipts
    PROVE  /\ r = Receipt(r.session, r.done, r.pending)
           /\ r.session \in Session /\ r.done \in Seq(Envelope)
           /\ r.pending \in Aperture \union {None}
           /\ r \in Chain(r) /\ r # None
BY LearningAssumption DEF Receipts, Receipt, Chain

\* The prefixes of a sequence, and of one that is longer by one.
LEMMA PrefixesOf ==
    ASSUME NEW d \in Seq(Envelope)
    PROVE  d \in Prefixes(d)
<1>1. Len(d) \in 0..Len(d) /\ SubSeq(d, 1, Len(d)) = d
  OBVIOUS
<1> QED BY <1>1 DEF Prefixes

LEMMA PrefixesOfAppend ==
    ASSUME NEW d \in Seq(Envelope), NEW e \in Envelope
    PROVE  /\ Prefixes(Append(d, e)) = Prefixes(d) \union {Append(d, e)}
           /\ Append(d, e) \notin Prefixes(d)
           /\ Append(d, e) \in Seq(Envelope)
<1> DEFINE a == Append(d, e)
<1>1. a \in Seq(Envelope) /\ Len(a) = Len(d) + 1 /\ SubSeq(a, 1, Len(d) + 1) = a
  OBVIOUS
<1>2. \A l \in 0..Len(d) : SubSeq(a, 1, l) = SubSeq(d, 1, l) /\ Len(SubSeq(d, 1, l)) = l
  OBVIOUS
<1>3. 0..Len(a) = (0..Len(d)) \union {Len(d) + 1}
  BY <1>1
<1> HIDE DEF a
<1>4. \A l \in 0..Len(d) : SubSeq(d, 1, l) # a
  BY <1>1, <1>2
<1> QED BY <1>1, <1>2, <1>3, <1>4 DEF Prefixes, a

LEMMA ChainOfStarted ==
    ASSUME NEW s \in Session
    PROVE  Chain(Started(s)) = {Started(s)} /\ Started(s) \in Receipts
<1>1. Prefixes(<<>>) = {<<>>}
  <2>1. Len(<<>>) = 0 /\ SubSeq(<<>>, 1, 0) = <<>> /\ 0..0 = {0}
    OBVIOUS
  <2> QED BY <2>1 DEF Prefixes
<1>2. Started(s).done = <<>> /\ Started(s).session = s /\ Started(s) = Receipt(s, <<>>, None)
  BY DEF Started, Receipt
<1>3. Started(s) \in Receipts
  BY DEF Started, Receipt, Receipts
<1> QED BY <1>1, <1>2, <1>3 DEF Chain

LEMMA ChainOfIssued ==
    ASSUME NEW r \in Receipts, MayIssue(r)
    PROVE  /\ Chain(Issued(r)) = {Issued(r)} \union Chain(r)
           /\ Issued(r) \in Receipts
<1>1. /\ r = Receipt(r.session, r.done, None) /\ r.done \in Seq(Envelope) /\ r.session \in Session
      /\ Len(r.done) < PlanSteps[r.session]
  BY ReceiptIsRecord DEF MayIssue
<1>2. r.done \in Prefixes(r.done)
  BY <1>1, PrefixesOf
<1>3. Issued(r).session = r.session /\ Issued(r).done = r.done
  BY DEF Issued, Receipt
<1>4. NextAperture(r.done) \in Aperture
  <2>1. PlanSteps[r.session] \in Nat /\ Len(r.done) \in 0..(PlanSteps[r.session] - 1)
    BY <1>1, LearningAssumption
  <2>2. r.done \in [1..Len(r.done) -> Envelope]
    BY <1>1
  <2> QED BY <1>1, <2>1, <2>2, LearningAssumption
<1>5. Issued(r) \in Receipts
  BY <1>1, <1>4 DEF Issued, Receipt, Receipts
<1> QED BY <1>1, <1>2, <1>3, <1>5 DEF Chain

LEMMA ChainOfAssimilated ==
    ASSUME NEW r \in Receipts, NEW e \in Envelope, r.pending = NextAperture(r.done)
    PROVE  /\ Chain(Assimilated(r, e)) = {Assimilated(r, e)} \union Chain(r)
           /\ Assimilated(r, e) \in Receipts
<1> DEFINE a == Append(r.done, e)
<1>1. /\ r = Receipt(r.session, r.done, NextAperture(r.done))
      /\ r.done \in Seq(Envelope) /\ r.session \in Session
  BY ReceiptIsRecord
<1>2. /\ Prefixes(a) = Prefixes(r.done) \union {a} /\ a \notin Prefixes(r.done)
      /\ a \in Seq(Envelope)
      /\ r.done \in Prefixes(r.done)
  BY <1>1, PrefixesOfAppend, PrefixesOf
<1>3. /\ Assimilated(r, e) = Receipt(r.session, a, None)
      /\ Assimilated(r, e).session = r.session /\ Assimilated(r, e).done = a
  BY DEF Assimilated, Receipt
<1> HIDE DEF a
<1>4. Assimilated(r, e) \in Receipts
  BY <1>1, <1>2, <1>3 DEF Receipt, Receipts
<1>5. Prefixes(a) \ {a} = (Prefixes(r.done) \ {r.done}) \union {r.done}
  BY <1>2
<1>6. Chain(r) = {r} \union {Receipt(r.session, d, None) : d \in Prefixes(r.done)}
           \union {Receipt(r.session, d, NextAperture(d)) : d \in Prefixes(r.done) \ {r.done}}
  BY DEF Chain
<1>7. Chain(Assimilated(r, e)) = {Assimilated(r, e)}
           \union {Receipt(r.session, d, None) : d \in Prefixes(a)}
           \union {Receipt(r.session, d, NextAperture(d)) : d \in Prefixes(a) \ {a}}
  BY <1>3 DEF Chain
<1>8. {Receipt(r.session, d, None) : d \in Prefixes(a)}
      = {Receipt(r.session, d, None) : d \in Prefixes(r.done)} \union {Assimilated(r, e)}
  BY <1>2, <1>3
<1>9. {Receipt(r.session, d, NextAperture(d)) : d \in Prefixes(a) \ {a}}
      = {Receipt(r.session, d, NextAperture(d)) : d \in Prefixes(r.done) \ {r.done}} \union {r}
  BY <1>1, <1>5
<1> QED BY <1>4, <1>6, <1>7, <1>8, <1>9

\* What continues the current receipt, and its chain.
LEMMA FollowsExtends ==
    ASSUME IInv, NEW s \in Session, NEW r, ContinuesSession(s, r)
    PROVE  Chain(r) = {r} \union (IF current[s] = None THEN {} ELSE Chain(current[s]))
<1>1. current[s] # None => current[s] \in Receipts /\ Replays(current[s])
  BY DEF IInv, TypeOK, CurrentReplays
<1>2. CASE current[s] = None
  BY <1>2, ChainOfStarted DEF ContinuesSession
<1>3. CASE current[s] # None /\ MayIssue(current[s]) /\ r = Issued(current[s])
  BY <1>1, <1>3, ChainOfIssued
<1>4. ASSUME current[s] # None,
             NEW e \in evidence, MayAssimilate(current[s], e), r = Assimilated(current[s], e)
      PROVE  Chain(r) = {r} \union Chain(current[s])
  <2>1. e \in Envelope /\ current[s].pending = NextAperture(current[s].done)
    BY <1>1, <1>4 DEF MayAssimilate, Replays, IInv, TypeOK
  <2> QED BY <1>1, <1>4, <2>1, ChainOfAssimilated
<1> QED BY <1>2, <1>3, <1>4 DEF ContinuesSession

-----------------------------------------------------------------------------
(* What a step of one call leaves alone. *)

\* The files only grow.
LEMMA ReplaysKept ==
    ASSUME receipts \subseteq receipts', evidence \subseteq evidence',
           \A q \in receipts : Bound(q) => Bound(q)',
           NEW r, Replays(r)
    PROVE  Replays(r)'
BY DEF Replays, Answers

\* Calls that hold the lock of another session keep what they know.
LEMMA OtherWriters ==
    ASSUME IInv, NEW c \in Client,
           \A d \in Client \ {c} : at'[d] = at[d] /\ call'[d] = call[d],
           receipts \subseteq receipts', evidence \subseteq evidence',
           \A s \in Session : lock[s] \notin {None, c} => lock'[s] = lock[s] /\ current'[s] = current[s],
           \A r \in Receipts : lock[r.session] \notin {None, c} =>
               (BagIn(r, ledger)' <=> BagIn(r, ledger)) /\ (Bound(r)' <=> Bound(r)),
           at'[c] \in Writing => Writer(c)'
    PROVE  WritersHold'
<1> SUFFICES ASSUME NEW d \in Client \ {c}, at[d] \in Writing
             PROVE  Writer(d)'
  BY DEF WritersHold
<1> DEFINE s == call[d].session
           r == call[d].receipt
<1>1. Writer(d)
  BY DEF IInv, WritersHold
<1>2. s \in Session /\ lock[s] = d /\ d # None /\ r \in Receipts /\ r.session = s
  BY <1>1, LearningAssumption DEF Writer, Writing, ContinuesSession
<1>3. lock'[s] = d /\ current'[s] = current[s] /\ at'[d] = at[d] /\ call'[d] = call[d]
  BY <1>2
<1>4. (BagIn(r, ledger)' <=> BagIn(r, ledger)) /\ (Bound(r)' <=> Bound(r))
  BY <1>2, <1>3
<1>5. ContinuesSession(s, r) => ContinuesSession(s, r)'
  BY <1>3 DEF ContinuesSession
<1> QED BY <1>1, <1>2, <1>3, <1>4, <1>5 DEF Writer

\* At most one more orphan for one more death.
LEMMA OrphansBounded ==
    ASSUME IInv, TypeOK', NEW o, Orphans' \subseteq Orphans \union {o},
           \/ deaths' = deaths + 1
           \/ deaths' = deaths /\ Orphans' \subseteq Orphans
    PROVE  OrphansAreDeaths'
<1>1. IsFiniteSet(Orphans) /\ Cardinality(Orphans) \in Nat /\ Cardinality(Orphans) <= deaths
  <2>1. IsFiniteSet(receipts) /\ Orphans \subseteq receipts
    BY DEF IInv, LedgerBindsStored, Orphans
  <2> QED BY <2>1, FS_Subset, FS_CardinalityType DEF IInv, OrphansAreDeaths
<1>2. /\ IsFiniteSet(Orphans \union {o})
      /\ Cardinality(Orphans \union {o}) \in Nat
      /\ Cardinality(Orphans \union {o}) <= Cardinality(Orphans) + 1
  BY <1>1, FS_AddElement, FS_CardinalityType
<1>3. /\ Cardinality(Orphans') <= Cardinality(Orphans \union {o})
      /\ Cardinality(Orphans') \in Nat
      /\ Orphans' \subseteq Orphans => Cardinality(Orphans') <= Cardinality(Orphans)
  BY <1>1, <1>2, FS_Subset, FS_CardinalityType
<1>4. deaths \in Nat /\ deaths' \in Nat
  BY LearningAssumption DEF IInv, TypeOK
<1> QED BY <1>1, <1>2, <1>3, <1>4 DEF OrphansAreDeaths

\* The invariant without its count of orphans.
Rest == /\ TypeOK /\ CurrentReplays /\ AcknowledgedIsKept
        /\ WritersHold /\ LedgerBindsStored /\ PointersMatch
        /\ AdmittersWereAsked /\ FinalsComplete

\* A step that leaves receipts, ledger and pointers alone keeps the rest, if its
\* call knows what it must at the place it goes to.
LEMMA QuietStep ==
    ASSUME IInv, TypeOK', NEW c \in Client,
           UNCHANGED <<receipts, ledger, current, finals>>,
           evidence \subseteq evidence',
           \A q \in acknowledged' : q \in acknowledged \/ (q \in Receipts /\ current[q.session] = q),
           \A d \in Client \ {c} : at'[d] = at[d] /\ call'[d] = call[d],
           \A s \in Session : lock[s] \notin {None, c} => lock'[s] = lock[s],
           at'[c] \in Writing => Writer(c)',
           at'[c] \in Admitting => Admitter(c)',
           \A a \in Aperture : admitted'[a] \in {admitted[a], None} \/ Asked(admitted'[a])
    PROVE  /\ Rest'
           /\ at[c] \notin {"bind", "select"} /\ deaths' = deaths => IInv'
<1>1. CurrentReplays'
  <2>1. \A q \in receipts : Bound(q) => Bound(q)'
    BY DEF Bound
  <2>2. \A r : Replays(r) => Replays(r)'
    BY <2>1, ReplaysKept
  <2> QED BY <2>2 DEF IInv, CurrentReplays
<1>2. AcknowledgedIsKept'
  BY ReceiptIsRecord DEF IInv, AcknowledgedIsKept
<1>3. LedgerBindsStored' /\ PointersMatch' /\ FinalsComplete'
  BY DEF IInv, LedgerBindsStored, PointersMatch, FinalsComplete
<1>4. \A e : Asked(e) => Asked(e)'
  BY DEF Asked
<1>5. AdmittersWereAsked'
  <2>1. \A d \in Client \ {c} : at'[d] \in Admitting => Admitter(d)'
    BY <1>4 DEF IInv, AdmittersWereAsked, Admitter
  <2> QED BY <1>4, <2>1 DEF IInv, AdmittersWereAsked
<1>6. WritersHold'
  BY OtherWriters DEF Bound
<1>7. at[c] \notin {"bind", "select"} /\ deaths' = deaths => OrphansAreDeaths'
  <2>1. at[c] \notin {"bind", "select"} => Orphans' \subseteq Orphans
    BY DEF Orphans
  <2> QED BY <2>1, OrphansBounded
<1> QED BY <1>1, <1>2, <1>3, <1>5, <1>6, <1>7 DEF IInv, Rest

-----------------------------------------------------------------------------
(* The steps. *)

LEMMA Shape ==
    ASSUME TypeOK
    PROVE  /\ current \in [Session -> Receipts \union {None}]
           /\ lock \in [Session -> Client \union {None}]
           /\ at \in [Client -> Place] /\ call \in [Client -> Calls]
           /\ admitted \in [Aperture -> Envelope \union {None}]
BY DEF TypeOK

\* The call is over, and its lock is free.
LEMMA ReturnLeaves ==
    ASSUME TypeOK, NEW c \in Client, Return(c)
    PROVE  /\ at' \in [Client -> Place] /\ call' \in [Client -> Calls]
           /\ lock' \in [Session -> Client \union {None}]
           /\ at'[c] = "idle"
           /\ \A d \in Client \ {c} : at'[d] = at[d] /\ call'[d] = call[d]
           /\ \A s \in Session : lock[s] \notin {None, c} => lock'[s] = lock[s]
<1>1. at' = [at EXCEPT ![c] = "idle"] /\ call' = [call EXCEPT ![c] = NoCall]
      /\ lock' = [s \in Session |-> IF lock[s] = c THEN None ELSE lock[s]]
  BY DEF Return, Go
<1>2. NoCall \in Calls /\ "idle" \in Place
  BY DEF NoCall, Calls, Place
<1>3. at' \in [Client -> Place] /\ call' \in [Client -> Calls] /\ at'[c] = "idle"
      /\ \A d \in Client \ {c} : at'[d] = at[d] /\ call'[d] = call[d]
  BY <1>1, <1>2, Shape
<1>4. /\ lock' \in [Session -> Client \union {None}]
      /\ \A s \in Session : lock[s] \notin {None, c} => lock'[s] = lock[s]
  BY <1>1, Shape
<1> QED BY <1>3, <1>4

\* The call goes on, with what it has.
LEMMA GoLeaves ==
    ASSUME TypeOK, NEW c \in Client, NEW place \in Place, Go(c, place)
    PROVE  /\ at' \in [Client -> Place] /\ at'[c] = place
           /\ \A d \in Client \ {c} : at'[d] = at[d]
BY Shape DEF Go

\* The call holds the lock of its session, and what it will write.
LEMMA TakeLeaves ==
    ASSUME TypeOK, NEW c \in Client, NEW op \in {"start", "next", "assimilate"},
           NEW s \in Session, NEW r \in Receipts, Take(c, op, s, r)
    PROVE  /\ at' \in [Client -> Place] /\ call' \in [Client -> Calls]
           /\ lock' \in [Session -> Client \union {None}]
           /\ at'[c] = "store" /\ call'[c].session = s /\ call'[c].receipt = r
           /\ lock[s] = None /\ lock'[s] = c
           /\ \A d \in Client \ {c} : at'[d] = at[d] /\ call'[d] = call[d]
           /\ \A q \in Session \ {s} : lock'[q] = lock[q]
<1> DEFINE new == [op |-> op, session |-> s, envelope |-> None, receipt |-> r]
<1>1. new \in Calls /\ "store" \in Place /\ new.session = s /\ new.receipt = r
  BY DEF Calls, Place
<1>2. at' = [at EXCEPT ![c] = "store"] /\ call' = [call EXCEPT ![c] = new]
      /\ lock' = [lock EXCEPT ![s] = c] /\ lock[s] = None
  BY DEF Take, Go, Free
<1> HIDE DEF new
<1>3. /\ at' \in [Client -> Place] /\ call' \in [Client -> Calls] /\ at'[c] = "store"
      /\ call'[c] = new
      /\ \A d \in Client \ {c} : at'[d] = at[d] /\ call'[d] = call[d]
  BY <1>1, <1>2, Shape
<1>4. /\ lock' \in [Session -> Client \union {None}] /\ lock'[s] = c
      /\ \A q \in Session \ {s} : lock'[q] = lock[q]
  BY <1>2, Shape
<1> QED BY <1>1, <1>2, <1>3, <1>4

\* A call that takes the lock knows what is current, until it returns.
LEMMA TakeIInv ==
    ASSUME IInv, NEW c \in Client, NEW op \in {"start", "next", "assimilate"},
           NEW s \in Session, NEW r, Take(c, op, s, r),
           ContinuesSession(s, r)', at[c] \in {"idle", "admitted"},
           marker' \subseteq Session, evidence \subseteq evidence', evidence' \subseteq Envelope,
           UNCHANGED <<receipts, ledger, current, outside, history>>
    PROVE  IInv'
<1>1. r \in Receipts /\ r.session = s
  BY DEF ContinuesSession
<1>2. /\ at' \in [Client -> Place] /\ call' \in [Client -> Calls]
      /\ lock' \in [Session -> Client \union {None}]
      /\ at'[c] = "store" /\ call'[c].session = s /\ call'[c].receipt = r
      /\ lock[s] = None /\ lock'[s] = c
      /\ \A d \in Client \ {c} : at'[d] = at[d] /\ call'[d] = call[d]
      /\ \A q \in Session \ {s} : lock'[q] = lock[q]
  BY <1>1, TakeLeaves DEF IInv
<1>3. UNCHANGED <<receipts, ledger, current, runs, observations, supports, admitted,
                  acknowledged, finals, deaths>>
  BY DEF outside, history
<1>4. TypeOK'
  BY <1>2, <1>3 DEF IInv, TypeOK
<1>5. Writer(c)'
  BY <1>1, <1>2 DEF Writer
<1>6. "store" \notin Admitting /\ at[c] \notin {"bind", "select"}
  BY DEF Admitting
<1>7. /\ \A q \in acknowledged' : q \in acknowledged
      /\ \A a \in Aperture : admitted'[a] = admitted[a]
      /\ \A q \in Session : lock[q] \notin {None, c} => lock'[q] = lock[q]
  BY <1>2, <1>3
<1> QED BY <1>2, <1>3, <1>4, <1>5, <1>6, <1>7, QuietStep

LEMMA StartIInv ==
    ASSUME IInv, NEW c \in Client, NEW s \in Session, Start(c, s)
    PROVE  IInv'
<1>1. Started(s) \in Receipts /\ Started(s).session = s
  BY ChainOfStarted DEF Started, Receipt
<1>2. current'[s] = None
  BY DEF Start, Reserved
<1>3. ContinuesSession(s, Started(s))'
  BY <1>1, <1>2 DEF ContinuesSession
<1>4. evidence' \subseteq Envelope /\ marker' \subseteq Session
  BY DEF Start, IInv, TypeOK
<1> QED BY <1>3, <1>4, TakeIInv DEF Start

LEMMA IssueNextIInv ==
    ASSUME IInv, NEW c \in Client, NEW s \in Session, IssueNext(c, s)
    PROVE  IInv'
<1> DEFINE r == current[s]
<1>1. r \in Receipts /\ r # None /\ r.session = s /\ MayIssue(r)
  BY Shape DEF IInv, IssueNext, Loads, PointersMatch
<1>2. Issued(r) \in Receipts /\ Issued(r).session = s
  BY <1>1, ChainOfIssued DEF Issued, Receipt
<1>3. UNCHANGED <<marker, receipts, ledger, current, evidence>>
  BY DEF IssueNext, chain
<1>4. ContinuesSession(s, Issued(r))'
  BY <1>1, <1>2, <1>3 DEF ContinuesSession
<1>5. evidence' \subseteq Envelope /\ marker' \subseteq Session
  BY <1>3 DEF IInv, TypeOK
<1> QED BY <1>3, <1>4, <1>5, TakeIInv DEF IssueNext

LEMMA TakeEvidenceIInv ==
    ASSUME IInv, NEW c \in Client, NEW s \in Session, NEW e \in Envelope,
           at[c] \in {"idle", "admitted"}, TakeEvidence(c, s, e)
    PROVE  IInv'
<1> DEFINE r == current[s]
<1>1. r \in Receipts /\ r # None /\ r.session = s /\ MayAssimilate(r, e)
      /\ r.pending = NextAperture(r.done)
  BY Shape DEF IInv, TakeEvidence, Loads, PointersMatch, Replays, MayAssimilate
<1>2. Assimilated(r, e) \in Receipts /\ Assimilated(r, e).session = s
  BY <1>1, ChainOfAssimilated DEF Assimilated, Receipt
<1>3. UNCHANGED <<marker, receipts, ledger, current>> /\ evidence' = evidence \union {e}
  BY DEF TakeEvidence
<1>4. ContinuesSession(s, Assimilated(r, e))'
  BY <1>1, <1>2, <1>3 DEF ContinuesSession
<1>5. evidence' \subseteq Envelope /\ marker' \subseteq Session
  BY <1>3 DEF IInv, TypeOK
<1> QED BY <1>3, <1>4, <1>5, TakeIInv DEF TakeEvidence

\* A refused call changes nothing but its own place.
LEMMA RefuseIInv ==
    ASSUME IInv, NEW c \in Client, at[c] \notin {"bind", "select"}, Refuse(c)
    PROVE  IInv'
<1>1. /\ UNCHANGED <<marker, receipts, ledger, current, evidence>>
      /\ UNCHANGED <<runs, observations, supports, admitted, acknowledged, finals, deaths>>
      /\ Return(c)
  BY DEF Refuse, chain, outside, history
<1>2. /\ at' \in [Client -> Place] /\ call' \in [Client -> Calls]
      /\ lock' \in [Session -> Client \union {None}]
      /\ at'[c] = "idle"
      /\ \A d \in Client \ {c} : at'[d] = at[d] /\ call'[d] = call[d]
      /\ \A s \in Session : lock[s] \notin {None, c} => lock'[s] = lock[s]
  BY <1>1, ReturnLeaves DEF IInv
<1>3. TypeOK'
  BY <1>1, <1>2 DEF IInv, TypeOK
<1>4. "idle" \notin Writing \union Admitting
  BY DEF Writing, Admitting
<1>5. /\ \A q \in acknowledged' : q \in acknowledged
      /\ \A a \in Aperture : admitted'[a] = admitted[a]
  BY <1>1
<1> QED BY <1>1, <1>2, <1>3, <1>4, <1>5, QuietStep

-----------------------------------------------------------------------------
(* The receipt, its event and the pointer. *)

\* A writer before its pointer is written.
LEMMA WriterKnows ==
    ASSUME IInv, NEW c \in Client, at[c] \in {"store", "bind", "select"}
    PROVE  LET s == call[c].session
               r == call[c].receipt IN
           /\ Writer(c) /\ ContinuesSession(s, r)
           /\ s \in Session /\ lock[s] = c /\ r \in Receipts /\ r.session = s
           /\ current[s] # None => current[s] \in Receipts
           /\ r \in Chain(r)
           /\ current[s] # None => Chain(r) = {r} \union Chain(current[s])
           /\ \A q \in Session : lock[q] \notin {None, c} => q # s
<1> DEFINE s == call[c].session
           r == call[c].receipt
<1>1. Writer(c)
  BY DEF IInv, WritersHold, Writing
<1>2. ContinuesSession(s, r) /\ s \in Session /\ lock[s] = c /\ r \in Receipts /\ r.session = s
  BY <1>1 DEF Writer, ContinuesSession
<1>3. Chain(r) = {r} \union (IF current[s] = None THEN {} ELSE Chain(current[s]))
  BY <1>2, FollowsExtends
<1> QED BY <1>1, <1>2, <1>3, Shape, ReceiptIsRecord DEF IInv

LEMMA StoreReceiptIInv ==
    ASSUME IInv, NEW c \in Client, StoreReceipt(c)
    PROVE  IInv'
<1> DEFINE s == call[c].session
           r == call[c].receipt
<1>1. CASE Refuse(c)
  BY <1>1, RefuseIInv DEF StoreReceipt
<1>2. CASE ~Stored(r) /\ Go(c, "bind")
  <2>1. /\ receipts' = receipts \union {r} /\ r \notin receipts /\ at[c] = "store"
        /\ UNCHANGED <<marker, ledger, current, evidence, lock, call>>
        /\ UNCHANGED <<runs, observations, supports, admitted, acknowledged, finals, deaths>>
    BY <1>2 DEF StoreReceipt, Refuse, Return, Go, Stored, outside, history
  <2>2. /\ at' \in [Client -> Place] /\ at'[c] = "bind"
        /\ \A d \in Client \ {c} : at'[d] = at[d]
    BY <1>2, GoLeaves DEF IInv, Place
  <2>3. /\ Writer(c) /\ ContinuesSession(s, r) /\ s \in Session /\ lock[s] = c
        /\ r \in Receipts /\ r.session = s
    BY <2>1, WriterKnows
  <2>4. TypeOK'
    BY <2>1, <2>2, <2>3 DEF IInv, TypeOK
  <2>5. CurrentReplays'
    <3>1. \A q \in receipts : Bound(q) => Bound(q)'
      BY <2>1 DEF Bound
    <3>2. \A q : Replays(q) => Replays(q)'
      BY <2>1, <3>1, ReplaysKept
    <3> QED BY <2>1, <3>2 DEF IInv, CurrentReplays
  <2>6. LedgerBindsStored'
    BY <2>1, FS_AddElement DEF IInv, LedgerBindsStored
  <2>7. AcknowledgedIsKept' /\ PointersMatch' /\ FinalsComplete'
    BY <2>1 DEF IInv, AcknowledgedIsKept, PointersMatch, FinalsComplete
  <2>8. AdmittersWereAsked'
    <3>1. "bind" \notin Admitting
      BY DEF Admitting
    <3> QED BY <2>1, <2>2, <3>1 DEF IInv, AdmittersWereAsked, Admitter, Asked
  <2>9. Writer(c)'
    <3>1. ContinuesSession(s, r)'
      BY <2>1, <2>3 DEF ContinuesSession
    <3>2. ~BagIn(r, ledger)
      BY <2>1 DEF IInv, LedgerBindsStored, BagIn, BagToSet
    <3> QED BY <2>1, <2>2, <2>3, <3>1, <3>2 DEF Writer
  <2>10. WritersHold'
    BY <2>1, <2>2, <2>9, OtherWriters DEF Bound
  <2>11. Orphans' \subseteq Orphans
    <3>1. r \notin Orphans'
      BY <2>1, <2>2 DEF Orphans
    <3> QED BY <2>1, <2>2, <3>1 DEF Orphans
  <2>12. OrphansAreDeaths'
    BY <2>1, <2>4, <2>11, OrphansBounded
  <2> QED BY <2>4, <2>5, <2>6, <2>7, <2>8, <2>10, <2>12 DEF IInv
<1> QED BY <1>1, <1>2 DEF StoreReceipt

\* An event more in the ledger.
LEMMA BagOfOneMore ==
    ASSUME IsABag(ledger), NEW r, ~BagIn(r, ledger)
    PROVE  LET l == ledger (+) SetToBag({r}) IN
           /\ DOMAIN l = DOMAIN ledger \union {r} /\ l[r] = 1
           /\ \A q \in DOMAIN ledger : l[q] = ledger[q]
           /\ IsABag(l)
<1> DEFINE l == ledger (+) SetToBag({r})
<1>1. ledger \in [DOMAIN ledger -> {n \in Nat : n > 0}] /\ r \notin DOMAIN ledger
  BY DEF IsABag, BagIn, BagToSet
<1>2. l = [e \in DOMAIN ledger \union {r} |->
              (IF e \in DOMAIN ledger THEN ledger[e] ELSE 0) + (IF e = r THEN 1 ELSE 0)]
  BY DEF SetToBag, (+)
<1>3. DOMAIN l = DOMAIN ledger \union {r} /\ l[r] = 1
  BY <1>1, <1>2
<1>4. \A q \in DOMAIN ledger : l[q] = ledger[q]
  BY <1>1, <1>2
<1>5. IsABag(l)
  <2>1. \A q \in DOMAIN l : l[q] \in {n \in Nat : n > 0}
    BY <1>1, <1>3, <1>4
  <2>2. l = [q \in DOMAIN l |-> l[q]]
    BY <1>2
  <2> HIDE DEF l
  <2> QED BY <2>1, <2>2 DEF IsABag
<1> QED BY <1>3, <1>4, <1>5

LEMMA BindReceiptIInv ==
    ASSUME IInv, NEW c \in Client, BindReceipt(c)
    PROVE  IInv'
<1> DEFINE s == call[c].session
           r == call[c].receipt
<1>1. /\ ledger' = ledger (+) SetToBag({r}) /\ at[c] = "bind" /\ Go(c, "select")
      /\ UNCHANGED <<marker, receipts, current, evidence, lock, call>>
      /\ UNCHANGED <<runs, observations, supports, admitted, acknowledged, finals, deaths>>
  BY DEF BindReceipt, outside, history
<1>2. /\ at' \in [Client -> Place] /\ at'[c] = "select"
      /\ \A d \in Client \ {c} : at'[d] = at[d]
  BY <1>1, GoLeaves DEF IInv, Place
<1>3. /\ Writer(c) /\ ContinuesSession(s, r) /\ s \in Session /\ lock[s] = c
      /\ r \in Receipts /\ r.session = s
  BY <1>1, WriterKnows
<1>4. ~BagIn(r, ledger) /\ r \in receipts
  BY <1>1, <1>3 DEF Writer
<1>5. /\ DOMAIN ledger' = DOMAIN ledger \union {r} /\ ledger'[r] = 1
      /\ \A q \in DOMAIN ledger : ledger'[q] = ledger[q]
      /\ IsABag(ledger')
  BY <1>1, <1>4, BagOfOneMore DEF IInv, TypeOK
<1>6. TypeOK'
  BY <1>1, <1>2, <1>3, <1>5 DEF IInv, TypeOK, BagToSet
<1>7. \A q : q # r => (BagIn(q, ledger)' <=> BagIn(q, ledger)) /\ (Bound(q)' <=> Bound(q))
  BY <1>5 DEF BagIn, BagToSet, Bound
<1>8. CurrentReplays'
  <2>1. \A q \in receipts : Bound(q) => Bound(q)'
    BY <1>4, <1>7 DEF Bound
  <2>2. \A q : Replays(q) => Replays(q)'
    BY <1>1, <2>1, ReplaysKept
  <2> QED BY <1>1, <2>2 DEF IInv, CurrentReplays
<1>9. LedgerBindsStored'
  BY <1>1, <1>4, <1>5 DEF IInv, LedgerBindsStored
<1>10. AcknowledgedIsKept' /\ PointersMatch' /\ FinalsComplete'
  BY <1>1 DEF IInv, AcknowledgedIsKept, PointersMatch, FinalsComplete
<1>11. AdmittersWereAsked'
  <2>1. "select" \notin Admitting
    BY DEF Admitting
  <2> QED BY <1>1, <1>2, <2>1 DEF IInv, AdmittersWereAsked, Admitter, Asked
<1>12. Writer(c)'
  <2>1. ContinuesSession(s, r)'
    BY <1>1, <1>3 DEF ContinuesSession
  <2>2. Bound(r)'
    BY <1>1, <1>5 DEF Bound, BagIn, BagToSet
  <2> QED BY <1>1, <1>2, <1>3, <1>4, <2>1, <2>2 DEF Writer
<1>13. WritersHold'
  <2>1. \A q \in Receipts : lock[q.session] \notin {None, c} => q # r
    BY <1>3
  <2> QED BY <1>1, <1>2, <1>7, <1>12, <2>1, OtherWriters
<1>14. OrphansAreDeaths'
  <2>1. Orphans' \subseteq Orphans
    BY <1>1, <1>2 DEF Orphans
  <2> QED BY <1>1, <1>6, <2>1, OrphansBounded
<1> QED BY <1>6, <1>8, <1>9, <1>10, <1>11, <1>13, <1>14 DEF IInv

\* The receipt that a call is about to select replays.
LEMMA SelectedReplays ==
    ASSUME IInv, NEW c \in Client, at[c] = "select"
    PROVE  Replays(call[c].receipt)
<1> DEFINE s == call[c].session
           r == call[c].receipt
           old == current[s]
<1>1. /\ Writer(c) /\ ContinuesSession(s, r) /\ s \in Session /\ r \in Receipts /\ r.session = s
      /\ old # None => old \in Receipts /\ Chain(r) = {r} \union Chain(old)
  BY WriterKnows
<1>2. r \in receipts /\ Bound(r)
  BY <1>1 DEF Writer
<1>3. old # None => Replays(old) /\ old.session = s
  BY <1>1 DEF IInv, CurrentReplays, PointersMatch
<1>4. CASE old = None /\ r = Started(s)
  BY <1>1, <1>2, <1>4, ChainOfStarted DEF Replays, Started, Receipt
<1>5. CASE old # None /\ MayIssue(old) /\ r = Issued(old)
  <2>1. r.done = old.done /\ r.session = old.session /\ r.pending = NextAperture(old.done)
    BY <1>5 DEF Issued, Receipt
  <2>2. \A q \in Chain(r) : q \in receipts /\ Bound(q)
    BY <1>1, <1>2, <1>3, <1>5 DEF Replays
  <2> QED BY <1>3, <1>5, <2>1, <2>2 DEF Replays
<1>6. ASSUME old # None, NEW e \in evidence, MayAssimilate(old, e), r = Assimilated(old, e)
      PROVE  Replays(r)
  <2>1. /\ r.done = Append(old.done, e) /\ r.session = old.session /\ r.pending = None
        /\ old.pending = NextAperture(old.done)
    BY <1>3, <1>6 DEF Assimilated, Receipt, MayAssimilate, Replays
  <2>2. \A q \in Chain(r) : q \in receipts /\ Bound(q)
    BY <1>1, <1>2, <1>3, <1>6 DEF Replays
  <2>3. old.done \in Seq(Envelope) /\ e \in Envelope
    BY <1>1, <1>6, ReceiptIsRecord DEF IInv, TypeOK
  <2>4. /\ DOMAIN r.done = 1..(Len(old.done) + 1) /\ DOMAIN old.done = 1..Len(old.done)
        /\ r.done[Len(old.done) + 1] = e
        /\ SubSeq(r.done, 1, (Len(old.done) + 1) - 1) = old.done
        /\ \A i \in 1..Len(old.done) : r.done[i] = old.done[i]
                                     /\ SubSeq(r.done, 1, i - 1) = SubSeq(old.done, 1, i - 1)
    BY <2>1, <2>3
  <2>5. Answers(e, old.session, old.done)
    BY <1>6, <2>1 DEF MayAssimilate, Answers
  <2>6. ASSUME NEW i \in DOMAIN r.done
        PROVE  r.done[i] \in evidence /\ Answers(r.done[i], r.session, SubSeq(r.done, 1, i - 1))
    <3>1. CASE i \in 1..Len(old.done)
      BY <1>3, <1>6, <2>1, <2>4, <3>1 DEF Replays
    <3>2. CASE i = Len(old.done) + 1
      BY <1>6, <2>1, <2>4, <2>5, <3>2
    <3> QED BY <2>3, <2>4, <3>1, <3>2
  <2> QED BY <2>1, <2>2, <2>6 DEF Replays
<1> QED BY <1>1, <1>4, <1>5, <1>6 DEF ContinuesSession

\* Nothing continues a complete session.
LEMMA CompleteIsLast ==
    ASSUME NEW s \in Session, NEW r, ContinuesSession(s, r),
           current[s] \in Receipts, current[s].session = s, Complete(current[s])
    PROVE  FALSE
<1>1. ~MayIssue(current[s])
  <2>1. Len(current[s].done) \in Nat
    BY ReceiptIsRecord
  <2> QED BY <2>1 DEF Complete, MayIssue
<1>2. \A e : ~MayAssimilate(current[s], e)
  BY DEF Complete, MayAssimilate
<1>3. current[s] # None
  BY ReceiptIsRecord
<1> QED BY <1>1, <1>2, <1>3 DEF ContinuesSession

LEMMA SelectReceiptIInv ==
    ASSUME IInv, NEW c \in Client, SelectReceipt(c)
    PROVE  IInv'
<1> DEFINE s == call[c].session
           r == call[c].receipt
           old == current[s]
<1>1. /\ current' = [current EXCEPT ![s] = r] /\ at[c] = "select" /\ Go(c, "confirm")
      /\ UNCHANGED <<marker, receipts, ledger, evidence, lock, call>>
      /\ UNCHANGED <<runs, observations, supports, admitted, acknowledged, finals, deaths>>
  BY DEF SelectReceipt, outside, history
<1>2. /\ at' \in [Client -> Place] /\ at'[c] = "confirm"
      /\ \A d \in Client \ {c} : at'[d] = at[d]
  BY <1>1, GoLeaves DEF IInv, Place
<1>3. /\ Writer(c) /\ ContinuesSession(s, r) /\ s \in Session /\ lock[s] = c
      /\ r \in Receipts /\ r.session = s /\ r \in Chain(r)
      /\ old # None => old \in Receipts /\ Chain(r) = {r} \union Chain(old)
      /\ \A q \in Session : lock[q] \notin {None, c} => q # s
  BY <1>1, WriterKnows
<1>4. r # None /\ Replays(r)
  BY <1>1, <1>3, SelectedReplays, ReceiptIsRecord
<1>5. current' \in [Session -> Receipts \union {None}] /\ current'[s] = r
      /\ \A q \in Session \ {s} : current'[q] = current[q]
  BY <1>1, <1>3, Shape DEF IInv
<1>6. TypeOK'
  BY <1>1, <1>2, <1>5 DEF IInv, TypeOK
<1>7. CurrentReplays'
  <2>1. \A q \in receipts : Bound(q) => Bound(q)'
    BY <1>1 DEF Bound
  <2>2. \A q : Replays(q) => Replays(q)'
    BY <1>1, <2>1, ReplaysKept
  <2> QED BY <1>4, <1>5, <2>2 DEF IInv, CurrentReplays
<1>8. \A q \in Session : current[q] # None =>
          current'[q] # None /\ Chain(current[q]) \subseteq Chain(current'[q])
  BY <1>3, <1>4, <1>5
<1>9. AcknowledgedIsKept'
  <2>1. \A q \in acknowledged : q.session \in Session
    BY ReceiptIsRecord DEF IInv, TypeOK
  <2> QED BY <1>1, <1>8, <2>1 DEF IInv, AcknowledgedIsKept
<1>10. LedgerBindsStored' /\ PointersMatch'
  BY <1>1, <1>3, <1>5 DEF IInv, LedgerBindsStored, PointersMatch
<1>11. FinalsComplete'
  <2>1. \A q \in finals : q \in Receipts /\ q.session \in Session /\ current[q.session] = q /\ Complete(q)
    BY ReceiptIsRecord DEF IInv, TypeOK, FinalsComplete
  <2>2. \A q \in finals : q.session # s
    BY <1>3, <2>1, CompleteIsLast
  <2> QED BY <1>1, <1>5, <2>1, <2>2 DEF FinalsComplete
<1>12. AdmittersWereAsked'
  <2>1. \A e \in Envelope : e.session \in Session
    BY DEF Envelope
  <2>2. \A e \in Envelope : Asked(e) => Asked(e)'
    BY <1>8, <2>1 DEF Asked
  <2>3. "confirm" \notin Admitting
    BY DEF Admitting
  <2>4. \A d \in Client : at'[d] \in Admitting => Admitter(d)'
    BY <1>1, <1>2, <2>2, <2>3 DEF IInv, AdmittersWereAsked, Admitter
  <2>5. \A a \in Aperture : admitted[a] # None => admitted[a] \in Envelope
    BY Shape DEF IInv
  <2> QED BY <1>1, <2>2, <2>4, <2>5 DEF IInv, AdmittersWereAsked
<1>13. WritersHold'
  <2>1. Writer(c)'
    BY <1>1, <1>2, <1>3, <1>5 DEF Writer
  <2>2. \A q \in Session : lock[q] \notin {None, c} => lock'[q] = lock[q] /\ current'[q] = current[q]
    BY <1>1, <1>3, <1>5
  <2> QED BY <1>1, <1>2, <2>1, <2>2, OtherWriters DEF Bound
<1>14. OrphansAreDeaths'
  <2>1. r \notin Orphans'
    BY <1>3, <1>4, <1>5 DEF Orphans
  <2>2. \A q \in receipts : q.session \in Session
    BY ReceiptIsRecord DEF IInv, TypeOK
  <2>3. Orphans' \subseteq Orphans
    <3> SUFFICES ASSUME NEW q \in Orphans' PROVE q \in Orphans
      OBVIOUS
    <3>1. q # r /\ q \in receipts /\ q.session \in Session
      BY <1>1, <2>1, <2>2 DEF Orphans
    <3>2. current[q.session] = None \/ q \notin Chain(current[q.session])
      BY <1>8, <3>1 DEF Orphans
    <3>3. \A d \in Client : at[d] \in {"bind", "select"} => call[d].receipt # q
      BY <1>1, <1>2, <3>1 DEF Orphans
    <3> QED BY <3>1, <3>2, <3>3 DEF Orphans
  <2> QED BY <1>1, <1>6, <2>3, OrphansBounded
<1> QED BY <1>6, <1>7, <1>9, <1>10, <1>11, <1>12, <1>13, <1>14 DEF IInv

LEMMA ConfirmIInv ==
    ASSUME IInv, NEW c \in Client, Confirm(c)
    PROVE  IInv'
<1> DEFINE r == call[c].receipt
<1>1. /\ at[c] = "confirm" /\ Return(c)
      /\ acknowledged' \subseteq acknowledged \union {r}
      /\ UNCHANGED <<marker, receipts, ledger, current, evidence>>
      /\ UNCHANGED <<runs, observations, supports, admitted, finals, deaths>>
  BY DEF Confirm, chain, outside
<1>2. r \in Receipts /\ current[r.session] = r
  BY <1>1 DEF IInv, WritersHold, Writing, Writer
<1>3. /\ at' \in [Client -> Place] /\ call' \in [Client -> Calls]
      /\ lock' \in [Session -> Client \union {None}]
      /\ at'[c] = "idle"
      /\ \A d \in Client \ {c} : at'[d] = at[d] /\ call'[d] = call[d]
      /\ \A s \in Session : lock[s] \notin {None, c} => lock'[s] = lock[s]
  BY <1>1, ReturnLeaves DEF IInv
<1>4. TypeOK'
  BY <1>1, <1>2, <1>3 DEF IInv, TypeOK
<1>5. "idle" \notin Writing \union Admitting
  BY DEF Writing, Admitting
<1>6. /\ \A q \in acknowledged' : q \in acknowledged \/ (q \in Receipts /\ current[q.session] = q)
      /\ \A a \in Aperture : admitted'[a] = admitted[a]
  BY <1>1, <1>2
<1> QED BY <1>1, <1>3, <1>4, <1>5, <1>6, QuietStep

-----------------------------------------------------------------------------
(* Admission, early ends, the outside. *)

LEMMA AdmitReceiptIInv ==
    ASSUME IInv, NEW c \in Client, NEW s \in Session, NEW v \in Outcome, AdmitReceipt(c, s, v)
    PROVE  IInv'
<1> DEFINE e == [session |-> s, aperture |-> Wanted(s), value |-> v, source |-> "vxx"]
           new == [op |-> "admit", session |-> s, receipt |-> None, envelope |-> e]
<1>1. /\ at[c] = "idle" /\ Awaits(s) /\ Go(c, "observe") /\ call' = [call EXCEPT ![c] = new]
      /\ UNCHANGED <<marker, receipts, ledger, current, evidence, lock>>
      /\ UNCHANGED <<runs, observations, supports, admitted, acknowledged, finals, deaths>>
  BY DEF AdmitReceipt, chain, outside, history
<1>2. current[s] \in Receipts /\ current[s] # None /\ Wanted(s) # None
  BY <1>1, Shape DEF IInv, Awaits, Loads
<1>3. /\ Wanted(s) = current[s].pending /\ Wanted(s) \in Aperture
      /\ current[s] \in Chain(current[s])
  BY <1>2, ReceiptIsRecord DEF Wanted
<1>4. e \in Envelope /\ e.session = s /\ e.aperture = Wanted(s)
  BY <1>3 DEF Envelope
<1>5. Asked(e)
  BY <1>2, <1>3, <1>4 DEF Asked
<1> HIDE DEF e
<1>6. new \in Calls /\ new.envelope = e /\ new.session = e.session
  BY <1>4, LearningAssumption DEF Calls
<1> HIDE DEF new
<1>7. /\ call' \in [Client -> Calls] /\ call'[c].envelope = e /\ call'[c].session = e.session
      /\ \A d \in Client \ {c} : call'[d] = call[d]
  BY <1>1, <1>6, Shape DEF IInv
<1>8. /\ at' \in [Client -> Place] /\ at'[c] = "observe"
      /\ \A d \in Client \ {c} : at'[d] = at[d]
  BY <1>1, GoLeaves DEF IInv, Place
<1>9. TypeOK'
  BY <1>1, <1>7, <1>8 DEF IInv, TypeOK
<1>10. Admitter(c)' /\ "observe" \notin Writing
  BY <1>1, <1>4, <1>5, <1>7 DEF Admitter, Asked, Writing
<1>11. /\ \A q \in acknowledged' : q \in acknowledged
       /\ \A a \in Aperture : admitted'[a] = admitted[a]
  BY <1>1
<1> QED BY <1>1, <1>7, <1>8, <1>9, <1>10, <1>11, QuietStep

\* Between two files of an admission nothing else changes.
LEMMA AdmissionGoesOn ==
    ASSUME IInv, NEW c \in Client, NEW place \in {"support", "envelope"},
           at[c] \in {"observe", "support"}, Go(c, place),
           observations' \subseteq Outcome \X Aperture, supports' \subseteq Aperture,
           UNCHANGED <<chain, runs, admitted, lock, call, history>>
    PROVE  IInv'
<1>1. /\ UNCHANGED <<marker, receipts, ledger, current, evidence, runs, admitted>>
      /\ UNCHANGED <<lock, call, acknowledged, finals, deaths>>
  BY DEF chain, history
<1>2. /\ at' \in [Client -> Place] /\ at'[c] = place
      /\ \A d \in Client \ {c} : at'[d] = at[d]
  BY GoLeaves DEF IInv, Place
<1>3. TypeOK'
  BY <1>1, <1>2 DEF IInv, TypeOK
<1>4. Admitter(c)' /\ place \notin Writing
  BY <1>1 DEF IInv, AdmittersWereAsked, Admitter, Asked, Admitting, Writing
<1>5. /\ \A q \in acknowledged' : q \in acknowledged
      /\ \A a \in Aperture : admitted'[a] = admitted[a]
  BY <1>1
<1> QED BY <1>1, <1>2, <1>3, <1>4, <1>5, QuietStep

\* What an admission names.
LEMMA AdmitterKnows ==
    ASSUME IInv, NEW c \in Client, at[c] \in Admitting
    PROVE  /\ call[c].envelope \in Envelope /\ Asked(call[c].envelope)
           /\ call[c].session \in Session
           /\ call[c].envelope.aperture \in Aperture /\ call[c].envelope.value \in Outcome
<1>1. Admitter(c)
  BY DEF IInv, AdmittersWereAsked
<1> QED BY <1>1 DEF Admitter, Envelope

LEMMA AdmitObservationIInv ==
    ASSUME IInv, NEW c \in Client, AdmitObservation(c)
    PROVE  IInv'
<1>1. at[c] = "observe"
  BY DEF AdmitObservation
<1>2. CASE Refuse(c)
  BY <1>1, <1>2, RefuseIInv
<1>3. CASE ~Refuse(c)
  <2>1. call[c].envelope.aperture \in Aperture /\ call[c].envelope.value \in Outcome
    BY <1>1, AdmitterKnows DEF Admitting
  <2>2. observations' \subseteq Outcome \X Aperture /\ supports' \subseteq Aperture
    BY <1>3, <2>1 DEF AdmitObservation, IInv, TypeOK
  <2> QED BY <1>1, <1>3, <2>2, AdmissionGoesOn DEF AdmitObservation
<1> QED BY <1>2, <1>3

LEMMA AdmitSupportIInv ==
    ASSUME IInv, NEW c \in Client, AdmitSupport(c)
    PROVE  IInv'
<1>1. at[c] = "support"
  BY DEF AdmitSupport
<1>2. CASE Refuse(c)
  BY <1>1, <1>2, RefuseIInv
<1>3. CASE ~Refuse(c)
  <2>1. call[c].envelope.aperture \in Aperture
    BY <1>1, AdmitterKnows DEF Admitting
  <2>2. observations' \subseteq Outcome \X Aperture /\ supports' \subseteq Aperture
    BY <1>3, <2>1 DEF AdmitSupport, IInv, TypeOK
  <2> QED BY <1>1, <1>3, <2>2, AdmissionGoesOn DEF AdmitSupport
<1> QED BY <1>2, <1>3

LEMMA AdmitEnvelopeIInv ==
    ASSUME IInv, NEW c \in Client, AdmitEnvelope(c)
    PROVE  IInv'
<1> DEFINE e == call[c].envelope
<1>1. at[c] = "envelope" /\ "envelope" \in Admitting
  BY DEF AdmitEnvelope, Admitting
<1>2. e \in Envelope /\ Asked(e) /\ e.aperture \in Aperture
  BY <1>1, AdmitterKnows
<1>3. CASE Refuse(c)
  BY <1>1, <1>3, RefuseIInv
<1>4. CASE ~Refuse(c)
  <2>1. /\ admitted' = [admitted EXCEPT ![e.aperture] = e]
        /\ Return(c) \/ (Go(c, "admitted") /\ UNCHANGED <<lock, call>>)
        /\ UNCHANGED <<marker, receipts, ledger, current, evidence>>
        /\ UNCHANGED <<runs, observations, supports, acknowledged, finals, deaths>>
    BY <1>4 DEF AdmitEnvelope, chain, history
  <2>2. /\ admitted' \in [Aperture -> Envelope \union {None}]
        /\ \A a \in Aperture : admitted'[a] = admitted[a] \/ admitted'[a] = e
    BY <1>2, <2>1, Shape DEF IInv
  <2>3. \A a \in Aperture : admitted'[a] \in {admitted[a], None} \/ Asked(admitted'[a])
    BY <1>2, <2>2
  <2>4. /\ at' \in [Client -> Place] /\ call' \in [Client -> Calls]
        /\ lock' \in [Session -> Client \union {None}]
        /\ at'[c] = "idle" \/ (at'[c] = "admitted" /\ call'[c] = call[c])
        /\ \A d \in Client \ {c} : at'[d] = at[d] /\ call'[d] = call[d]
        /\ \A s \in Session : lock[s] \notin {None, c} => lock'[s] = lock[s]
    <3>1. CASE Return(c)
      BY <3>1, ReturnLeaves DEF IInv
    <3>2. CASE Go(c, "admitted") /\ UNCHANGED <<lock, call>>
      BY <3>2, GoLeaves, Shape DEF IInv, Place
    <3> QED BY <2>1, <3>1, <3>2
  <2>5. TypeOK'
    BY <2>1, <2>2, <2>4 DEF IInv, TypeOK
  <2>6. at'[c] \notin Writing
    BY <2>4 DEF Writing
  <2>7. at'[c] \in Admitting => Admitter(c)'
    <3>1. at'[c] \in Admitting => call'[c] = call[c]
      BY <2>4 DEF Admitting
    <3>2. Admitter(c) /\ \A x : Asked(x) => Asked(x)'
      BY <1>1, <2>1 DEF IInv, AdmittersWereAsked, Asked
    <3> QED BY <3>1, <3>2 DEF Admitter
  <2>8. \A q \in acknowledged' : q \in acknowledged
    BY <2>1
  <2> QED BY <1>1, <2>1, <2>3, <2>4, <2>5, <2>6, <2>7, <2>8, QuietStep
<1> QED BY <1>3, <1>4

LEMMA AssimilateAdmittedIInv ==
    ASSUME IInv, NEW c \in Client, AssimilateAdmitted(c)
    PROVE  IInv'
<1>1. at[c] = "admitted"
  BY DEF AssimilateAdmitted
<1>2. CASE Refuse(c)
  BY <1>1, <1>2, RefuseIInv
<1>3. CASE TakeEvidence(c, call[c].session, call[c].envelope)
  <2>1. call[c].envelope \in Envelope
    BY <1>1, AdmitterKnows DEF Admitting
  <2>2. call[c].session \in Session
    BY <1>1, AdmitterKnows DEF Admitting
  <2> QED BY <1>1, <1>3, <2>1, <2>2, TakeEvidenceIInv
<1> QED BY <1>2, <1>3 DEF AssimilateAdmitted

\* Who ends early leaves one orphan at most.
LEMMA EndEarlyIInv ==
    ASSUME IInv, NEW c \in Client, EndEarly(c)
    PROVE  IInv'
<1>1. /\ deaths' = deaths + 1 /\ deaths < MaxDeaths /\ Return(c)
      /\ UNCHANGED <<marker, receipts, ledger, current, evidence>>
      /\ UNCHANGED <<runs, observations, supports, admitted, acknowledged, finals>>
  BY DEF EndEarly, chain, outside
<1>2. /\ at' \in [Client -> Place] /\ call' \in [Client -> Calls]
      /\ lock' \in [Session -> Client \union {None}]
      /\ at'[c] = "idle"
      /\ \A d \in Client \ {c} : at'[d] = at[d] /\ call'[d] = call[d]
      /\ \A s \in Session : lock[s] \notin {None, c} => lock'[s] = lock[s]
  BY <1>1, ReturnLeaves DEF IInv
<1>3. deaths' \in 0..MaxDeaths
  BY <1>1, LearningAssumption DEF IInv, TypeOK
<1>4. TypeOK'
  BY <1>1, <1>2, <1>3 DEF IInv, TypeOK
<1>5. "idle" \notin Writing \union Admitting
  BY DEF Writing, Admitting
<1>6. /\ \A q \in acknowledged' : q \in acknowledged
      /\ \A a \in Aperture : admitted'[a] = admitted[a]
  BY <1>1
<1>7. Rest'
  BY <1>1, <1>2, <1>4, <1>5, <1>6, QuietStep
<1>8. Orphans' \subseteq Orphans \union {call[c].receipt}
  BY <1>1, <1>2 DEF Orphans
<1>9. OrphansAreDeaths'
  BY <1>1, <1>4, <1>8, OrphansBounded
<1> QED BY <1>7, <1>9 DEF Rest, IInv

\* The experiments of the outside runner, and finalizations, change no session.
LEMMA OutsideIInv ==
    ASSUME IInv,
           UNCHANGED <<chain, observations, supports, admitted, lock, at, call, acknowledged, deaths>>,
           runs' \subseteq Envelope,
           \A r \in finals' : r \in Receipts /\ current[r.session] = r /\ Complete(r)
    PROVE  IInv'
<1>1. /\ UNCHANGED <<marker, receipts, ledger, current, evidence>>
      /\ UNCHANGED <<observations, supports, admitted, lock, at, call, acknowledged, deaths>>
  BY DEF chain
<1>2. TypeOK'
  BY <1>1 DEF IInv, TypeOK
<1>3. CurrentReplays' /\ AcknowledgedIsKept' /\ LedgerBindsStored' /\ PointersMatch'
  BY <1>1 DEF IInv, CurrentReplays, Replays, Bound, AcknowledgedIsKept, LedgerBindsStored,
              PointersMatch
<1>4. WritersHold' /\ AdmittersWereAsked'
  BY <1>1 DEF IInv, WritersHold, Writer, ContinuesSession, Bound, AdmittersWereAsked, Admitter, Asked
<1>5. FinalsComplete'
  BY <1>1 DEF FinalsComplete
<1>6. OrphansAreDeaths'
  BY <1>1 DEF IInv, OrphansAreDeaths, Orphans
<1> QED BY <1>2, <1>3, <1>4, <1>5, <1>6 DEF IInv

LEMMA RunExperimentIInv ==
    ASSUME IInv, NEW s \in Session, NEW v \in Outcome, RunExperiment(s, v)
    PROVE  IInv'
<1> DEFINE e == [session |-> s, aperture |-> current[s].pending, value |-> v, source |-> "runner"]
<1>1. current[s] \in Receipts /\ current[s].pending \in Aperture
  BY Shape, ReceiptIsRecord DEF IInv, RunExperiment
<1>2. e \in Envelope
  BY <1>1 DEF Envelope
<1>3. runs' \subseteq Envelope
  BY <1>2 DEF RunExperiment, IInv, TypeOK
<1>4. \A r \in finals' : r \in Receipts /\ current[r.session] = r /\ Complete(r)
  BY DEF RunExperiment, history, IInv, TypeOK, FinalsComplete
<1> QED BY <1>3, <1>4, OutsideIInv DEF RunExperiment, history

LEMMA FinalizeIInv ==
    ASSUME IInv, NEW s \in Session, Finalize(s)
    PROVE  IInv'
<1>1. current[s] \in Receipts /\ current[s].session = s /\ Complete(current[s])
  BY Shape DEF IInv, Finalize, Loads, PointersMatch
<1>2. \A r \in finals' : r \in Receipts /\ current[r.session] = r /\ Complete(r)
  BY <1>1 DEF Finalize, IInv, TypeOK, FinalsComplete
<1>3. runs' \subseteq Envelope
  BY DEF Finalize, outside, IInv, TypeOK
<1> QED BY <1>2, <1>3, OutsideIInv DEF Finalize, outside

-----------------------------------------------------------------------------
(* The theorems. *)

LEMMA InitIInv == Init => IInv
<1> SUFFICES ASSUME Init PROVE IInv
  OBVIOUS
<1>1. /\ DOMAIN ledger = {} /\ receipts = {} /\ marker = {} /\ evidence = {}
      /\ runs = {} /\ observations = {} /\ supports = {} /\ acknowledged = {} /\ finals = {}
      /\ deaths = 0
  BY DEF Init, EmptyBag, SetToBag
<1>2. /\ current = [s \in Session |-> None] /\ admitted = [a \in Aperture |-> None]
      /\ lock = [s \in Session |-> None] /\ at = [c \in Client |-> "idle"]
      /\ call = [c \in Client |-> NoCall]
  BY DEF Init
<1>3. NoCall \in Calls /\ "idle" \in Place /\ 0 \in 0..MaxDeaths
  BY LearningAssumption DEF NoCall, Calls, Place
<1>4. IsABag(ledger)
  BY DEF Init, EmptyBag, SetToBag, IsABag
<1>5. TypeOK
  BY <1>1, <1>2, <1>3, <1>4 DEF TypeOK, BagToSet
<1>6. CurrentReplays /\ AcknowledgedIsKept /\ PointersMatch /\ FinalsComplete
  BY <1>1, <1>2 DEF CurrentReplays, AcknowledgedIsKept, PointersMatch, FinalsComplete
<1>7. LedgerBindsStored
  BY <1>1, FS_EmptySet DEF LedgerBindsStored
<1>8. WritersHold /\ AdmittersWereAsked
  BY <1>2 DEF WritersHold, Writing, AdmittersWereAsked, Admitting
<1>9. OrphansAreDeaths
  <2>1. Orphans = {}
    BY <1>1 DEF Orphans
  <2> QED BY <1>1, <2>1, FS_EmptySet DEF OrphansAreDeaths
<1> QED BY <1>5, <1>6, <1>7, <1>8, <1>9 DEF IInv

LEMMA NextIInv == IInv /\ [Next]_vars => IInv'
<1> SUFFICES ASSUME IInv, [Next]_vars PROVE IInv'
  OBVIOUS
<1>1. ASSUME NEW s \in Session, NEW v \in Outcome, RunExperiment(s, v)
      PROVE  IInv'
  BY <1>1, RunExperimentIInv
<1>2. ASSUME NEW s \in Session, Finalize(s)
      PROVE  IInv'
  BY <1>2, FinalizeIInv
<1>3. ASSUME NEW c \in Client, NEW s \in Session, Start(c, s) \/ IssueNext(c, s)
      PROVE  IInv'
  BY <1>3, StartIInv, IssueNextIInv
<1>4. ASSUME NEW c \in Client, NEW s \in Session, NEW v \in Outcome, AdmitReceipt(c, s, v)
      PROVE  IInv'
  BY <1>4, AdmitReceiptIInv
<1>5. ASSUME NEW c \in Client, NEW s \in Session, NEW e \in OnDisk, Assimilate(c, s, e)
      PROVE  IInv'
  <2>1. OnDisk \subseteq Envelope
    BY Shape DEF OnDisk, IInv, TypeOK
  <2> QED BY <1>5, <2>1, TakeEvidenceIInv DEF Assimilate
<1>6. ASSUME NEW c \in Client, Persist(c)
      PROVE  IInv'
  BY <1>6, StoreReceiptIInv, BindReceiptIInv, SelectReceiptIInv, ConfirmIInv DEF Persist
<1>7. ASSUME NEW c \in Client, Admit(c)
      PROVE  IInv'
  BY <1>7, AdmitObservationIInv, AdmitSupportIInv, AdmitEnvelopeIInv, AssimilateAdmittedIInv
     DEF Admit
<1>8. ASSUME NEW c \in Client, EndEarly(c)
      PROVE  IInv'
  BY <1>8, EndEarlyIInv
<1>9. CASE UNCHANGED vars
  <2>1. UNCHANGED <<chain, observations, supports, admitted, lock, at, call, acknowledged, deaths>>
        /\ UNCHANGED <<runs, finals>>
    BY <1>9 DEF vars, outside, history
  <2>2. \A r \in finals' : r \in Receipts /\ current[r.session] = r /\ Complete(r)
    BY <2>1 DEF IInv, TypeOK, FinalsComplete
  <2> QED BY <2>1, <2>2, OutsideIInv DEF IInv, TypeOK
<1> QED BY <1>1, <1>2, <1>3, <1>4, <1>5, <1>6, <1>7, <1>8, <1>9 DEF Next

\* The invariant holds of every behaviour of the sessions.
THEOREM Invariance == Spec => []IInv
BY InitIInv, NextIInv, PTL DEF Spec

\* Whatever ended early, and whoever races whom, the pointer of a session loads
\* with its whole chain (load_current_receipt_under_root), and only an early end
\* left a receipt outside the chains, one each.
THEOREM SessionsStaySound == Spec => []SessionsAreSound
<1>1. IInv => SessionsAreSound
  BY DEF IInv, SessionsAreSound
<1> QED BY <1>1, Invariance, PTL

\* An answered step stays in the chain of its session, a finalization input stays
\* what its session is, and what was admitted had been asked for, although the
\* admission and the finalization take no lock.
THEOREM WhatWasAnsweredStays == Spec => []AnswersStayTrue
<1>1. IInv => AnswersStayTrue
  <2> SUFFICES ASSUME IInv PROVE AnswersStayTrue
    OBVIOUS
  <2>1. AcknowledgedIsKept
    BY DEF IInv
  <2>2. FinalsNeverStale
    BY DEF IInv, FinalsComplete, FinalsNeverStale
  <2>3. AdmittedWasAsked
    BY DEF IInv, AdmittersWereAsked, Asked, AdmittedWasAsked
  <2> QED BY <2>1, <2>2, <2>3 DEF AnswersStayTrue
<1> QED BY <1>1, Invariance, PTL

-----------------------------------------------------------------------------
(***************************************************************************)
(* Portfolio governance.                                                   *)
(* Reports: windows are intervals, and groups are counted.                 *)
(***************************************************************************)

\* A set of ticks has a first one.
LEMMA FirstTick ==
    ASSUME NEW S \in SUBSET Nat, S # {}
    PROVE  Min(S) \in S /\ \A y \in S : Min(S) <= y
  <1>1. \E m \in S : \A n \in S : ~(<<n, m>> \in OpToRel(<, Nat))
    BY NatLessThanWellFounded, WFMin
  <1>2. PICK m \in S : \A n \in S : ~(<<n, m>> \in OpToRel(<, Nat))
    BY <1>1
  <1>3. \A n \in S : m =< n
    <2> SUFFICES ASSUME NEW n \in S PROVE m =< n
      OBVIOUS
    <2>1. <<n, m>> \in Nat \X Nat /\ <<n, m>>[1] = n /\ <<n, m>>[2] = m
      OBVIOUS
    <2>2. ~(n < m)
      BY <1>2, <2>1 DEF OpToRel
    <2> QED BY <2>2
  <1> QED BY <1>3 DEF Min

\* A finite set of ticks has a last one: the smallest that had none would not
\* have one after losing an element either.
LEMMA LastTick ==
    ASSUME NEW S \in SUBSET Nat, S # {}, IsFiniteSet(S)
    PROVE  Max(S) \in S /\ \A y \in S : y <= Max(S)
  <1> DEFINE HasLast(T) == \E m \in T : \A n \in T : m >= n
             Sizes == {k \in Nat : \E T \in SUBSET Nat :
                           T # {} /\ IsFiniteSet(T) /\ Cardinality(T) = k /\ ~HasLast(T)}
  <1>1. Sizes = {}
    <2> SUFFICES ASSUME Sizes # {} PROVE FALSE
      OBVIOUS
    <2>1. Min(Sizes) \in Sizes /\ \A y \in Sizes : Min(Sizes) <= y
      <3>1. Sizes \in SUBSET Nat
        OBVIOUS
      <3> HIDE DEF Sizes
      <3> QED BY <3>1, FirstTick
    <2>2. PICK T \in SUBSET Nat : T # {} /\ IsFiniteSet(T) /\ Cardinality(T) = Min(Sizes) /\ ~HasLast(T)
      BY <2>1
    <2>3. PICK x \in T : TRUE
      BY <2>2
    <2>4. IsFiniteSet(T \ {x}) /\ Cardinality(T \ {x}) = Cardinality(T) - 1
      BY <2>2, FS_RemoveElement
    <2>5. Cardinality(T) \in Nat /\ Cardinality(T \ {x}) \in Nat
      BY <2>2, <2>4, FS_CardinalityType
    <2>6. Cardinality(T \ {x}) \notin Sizes
      <3>1. Cardinality(T \ {x}) < Min(Sizes)
        BY <2>2, <2>4, <2>5
      <3>2. Min(Sizes) \in Nat
        BY <2>1
      <3> HIDE DEF Sizes
      <3> QED BY <3>1, <3>2, <2>1, <2>5
    <2>7. T \ {x} = {} \/ HasLast(T \ {x})
      <3>1. T \ {x} \in SUBSET Nat
        OBVIOUS
      <3> HIDE DEF HasLast
      <3> QED BY <2>4, <2>5, <2>6, <3>1
    <2>8. CASE T \ {x} = {}
      <3>1. \A n \in T : n = x /\ x \in Nat
        BY <2>8, <2>3
      <3>2. \A n \in T : x >= n
        BY <3>1
      <3> QED BY <3>2, <2>2, <2>3
    <2>9. CASE HasLast(T \ {x})
      <3>1. PICK m \in T \ {x} : \A n \in T \ {x} : m >= n
        BY <2>9
      <3>2. x \in Nat /\ m \in Nat /\ m \in T
        BY <2>3
      <3>3. CASE m >= x
        <4>1. \A n \in T : m >= n
          BY <3>1, <3>3
        <4> QED BY <4>1, <3>2, <2>2
      <3>4. CASE x > m
        <4>1. \A n \in T : x >= n
          BY <3>1, <3>2, <3>4
        <4> QED BY <4>1, <2>3, <2>2
      <3> QED BY <3>2, <3>3, <3>4
    <2> QED BY <2>7, <2>8, <2>9
  <1>2. HasLast(S)
    <2>1. Cardinality(S) \in Nat
      BY FS_CardinalityType
    <2>2. Cardinality(S) \notin Sizes
      BY <1>1
    <2> HIDE DEF HasLast
    <2> QED BY <2>1, <2>2
  <1>3. \E m \in S : \A n \in S : m >= n
    BY <1>2
  <1>4. Max(S) \in S /\ \A n \in S : Max(S) >= n
    BY <1>3 DEF Max
  <1> QED BY <1>4

\* What is read of finitely many things is a finite set.
LEMMA ReadFinite ==
    ASSUME NEW S, IsFiniteSet(S), NEW f, DOMAIN f = S
    PROVE  IsFiniteSet({f[x] : x \in S})
  <1> DEFINE T == {f[x] : x \in S}
             g == [x \in S |-> f[x]]
  <1>1. g \in Surjection(S, T)
    BY DEF Surjection
  <1> HIDE DEF T, g
  <1>2. IsFiniteSet(T)
    BY <1>1, FS_Surjection
  <1> QED BY <1>2 DEF T

\* A report has a window, integer estimates, and a number of groups.
LEMMA ReportFacts ==
    ASSUME NEW r \in Report
    PROVE  /\ r.start \in Nat /\ r.end \in Nat /\ r.start <= r.end
           /\ r.lo \in [Metric -> Int] /\ r.hi \in [Metric -> Int]
           /\ Groups(r) \in Nat
  <1>1. PICK i \in Evaluation : WellPaired(i.units) /\ r = ReportOf(i.candidate, i.units, i.shows)
    BY DEF Report
  <1> DEFINE starts == {u.start : u \in i.units}
             ends == {u.end : u \in i.units}
             f == [u \in i.units |-> u.end]
             h == [u \in i.units |-> u.group]
  <1>2. /\ r.start = Min(starts) /\ r.end = Max(ends)
        /\ r.lo = i.shows.lo /\ r.hi = i.shows.hi /\ r.design = {u.group : u \in i.units}
    BY <1>1 DEF ReportOf
  <1>3. IsFiniteSet(i.units) /\ i.units # {}
    BY <1>1, EvaluationAssumption DEF WellPaired
  <1>4. \A u \in i.units : u.start \in Nat /\ u.end \in Nat /\ u.start <= u.end
    BY EvaluationAssumption
  <1>5. starts \in SUBSET Nat /\ starts # {} /\ ends \in SUBSET Nat /\ ends # {}
    BY <1>3, <1>4
  <1>6. IsFiniteSet(ends)
    <2>1. IsFiniteSet({f[u] : u \in i.units})
      <3>1. DOMAIN f = i.units
        OBVIOUS
      <3> HIDE DEF f
      <3> QED BY <3>1, <1>3, ReadFinite
    <2>2. ends = {f[u] : u \in i.units}
      OBVIOUS
    <2> QED BY <2>1, <2>2
  <1>7. IsFiniteSet({u.group : u \in i.units})
    <2>1. IsFiniteSet({h[u] : u \in i.units})
      <3>1. DOMAIN h = i.units
        OBVIOUS
      <3> HIDE DEF h
      <3> QED BY <3>1, <1>3, ReadFinite
    <2>2. {u.group : u \in i.units} = {h[u] : u \in i.units}
      OBVIOUS
    <2> QED BY <2>1, <2>2
  <1>8. Min(starts) \in starts /\ (\A y \in starts : Min(starts) <= y)
    <2> HIDE DEF starts
    <2> QED BY <1>5, FirstTick
  <1>9. Max(ends) \in ends /\ (\A y \in ends : y <= Max(ends))
    <2> HIDE DEF ends
    <2> QED BY <1>5, <1>6, LastTick
  <1>10. r.start \in Nat /\ r.end \in Nat
    BY <1>2, <1>5, <1>8, <1>9
  <1>11. r.start <= r.end
    <2>1. PICK u \in i.units : TRUE
      BY <1>3
    <2>2. u.start \in starts /\ u.end \in ends
      OBVIOUS
    <2>3. Min(starts) <= u.start /\ u.end <= Max(ends)
      BY <2>2, <1>8, <1>9
    <2>4. u.start \in Nat /\ u.end \in Nat /\ u.start <= u.end
      BY <1>4
    <2> QED BY <2>3, <2>4, <1>2, <1>10
  <1>12. Groups(r) \in Nat
    BY <1>2, <1>7, FS_CardinalityType DEF Groups
  <1>13. i.shows.lo \in [Metric -> Int] /\ i.shows.hi \in [Metric -> Int]
    BY EvaluationAssumption
  <1> QED BY <1>2, <1>10, <1>11, <1>12, <1>13

-----------------------------------------------------------------------------
(* The inductive invariant: what is sealed in each authority's value. *)

\* A path of reports in one order of time, no two of which share evidence.
IsPath(t) ==
    /\ t \in Seq(Report)
    /\ \A i, j \in 1 .. Len(t) : i < j => /\ t[i].end < t[j].start
                                          /\ t[i].evidence \cap t[j].evidence = {}

TrajectoryIsAPath == IsPath(trajectory) /\ Len(trajectory) < MaxPoints

\* An assessment is the verdict on its own path.
PetfcIsOfItsPath ==
    petfc # Unsealed =>
        /\ IsPath(petfc.reports) /\ petfc.reports # <<>>
        /\ petfc.evidence = EvidenceOf(Range(petfc.reports))
        /\ petfc.start = Head(petfc.reports).start /\ petfc.end = Last(petfc.reports).end
        /\ \E geometry \in {"within", "exceeded", "unidentified"} :
              petfc.verdict = PetfcVerdict(petfc.reports, geometry)

IsGate(g) == g \in [report : Report, verdict : Verdict] /\ g.verdict = GateVerdict(g.report)

GateIsOfItsReport == gate # Unsealed => IsGate(gate)

\* The reports a canary was shown: later than the gate's and than one another,
\* each on evidence of its own.
ShownInOrder(c) ==
    /\ c.reports \subseteq Report /\ c.evidence = EvidenceOf(c.reports \cup {c.gate.report})
    /\ c.end \in Nat /\ c.gate.report.end <= c.end
    /\ \A r \in c.reports : /\ c.gate.report.end < r.start /\ r.end <= c.end
                            /\ c.gate.report.evidence \cap r.evidence = {}
    /\ \A r, s \in c.reports : r # s => /\ r.evidence \cap s.evidence = {}
                                        /\ r.end < s.start \/ s.end < r.start

\* The first n stages were passed, in the order of time.
PassedStages(c, n) ==
    \E passed \in [1 .. n -> c.reports] :
        /\ \A i \in 1 .. n : ~Doubtful(passed[i], stages[i])
        /\ \A i, j \in 1 .. n : i < j => /\ passed[i].end < passed[j].start
                                         /\ passed[i].evidence \cap passed[j].evidence = {}

Cleared(c) == IF c.phase = "validated" THEN Len(stages) ELSE c.stage - 1

CanaryIsEarned ==
    canary # Unsealed =>
        /\ IsGate(canary.gate) /\ ShownInOrder(canary)
        /\ canary.stage \in 1 .. Len(stages)
        /\ canary.phase \in {"awaiting", "rollback", "validated"}
        /\ canary.phase # "rollback" => \A r \in canary.reports : ~Violated(r)
        /\ PassedStages(canary, Cleared(canary))

StagesAreValid == stages \in Seq([exposure : Nat, groups : Nat]) /\ ValidStages(stages)

GovernanceInv ==
    StagesAreValid /\ TrajectoryIsAPath /\ PetfcIsOfItsPath /\ GateIsOfItsReport /\ CanaryIsEarned

-----------------------------------------------------------------------------
(* The path of checkpoints. *)

LEMMA VerdictsAreVerdicts ==
    /\ \A r : GateVerdict(r) \in Verdict
    /\ \A t, geometry : PetfcVerdict(t, geometry) \in Verdict
  BY DEF GateVerdict, PetfcVerdict, Verdict

LEMMA OneReportIsAPath ==
    ASSUME NEW r \in Report
    PROVE  IsPath(<<r>>) /\ Len(<<r>>) = 1
  <1>1. <<r>> \in Seq(Report) /\ Len(<<r>>) = 1
    OBVIOUS
  <1> QED BY <1>1 DEF IsPath

\* What is after the last checkpoint is after all of them.
LEMMA PathEndsLast ==
    ASSUME NEW t, IsPath(t), t # <<>>
    PROVE  /\ Len(t) \in Nat \ {0} /\ Last(t) = t[Len(t)] /\ Head(t) = t[1]
           /\ Head(t).start \in Nat /\ Last(t).end \in Nat /\ Head(t).start <= Last(t).end
           /\ \A i \in 1 .. Len(t) : /\ t[i] \in Report /\ t[i].end \in Nat /\ t[i].start \in Nat
                                     /\ t[i].end <= Last(t).end /\ Head(t).start <= t[i].start
  <1>1. t \in Seq(Report) /\ Len(t) \in Nat \ {0} /\ Head(t) = t[1] /\ Last(t) = t[Len(t)]
    BY DEF IsPath, Last
  <1>2. \A i \in 1 .. Len(t) : t[i] \in Report
    BY <1>1
  <1>3. \A i \in 1 .. Len(t) : t[i].start \in Nat /\ t[i].end \in Nat /\ t[i].start <= t[i].end
    BY <1>2, ReportFacts
  <1>4. 1 \in 1 .. Len(t) /\ Len(t) \in 1 .. Len(t)
    BY <1>1
  <1>5. \A i \in 1 .. Len(t) : t[i].end <= Last(t).end
    <2> SUFFICES ASSUME NEW i \in 1 .. Len(t) PROVE t[i].end <= Last(t).end
      OBVIOUS
    <2>1. CASE i = Len(t)
      BY <2>1, <1>1, <1>3, <1>4
    <2>2. CASE i < Len(t)
      <3>1. t[i].end < t[Len(t)].start
        BY <2>2, <1>4 DEF IsPath
      <3> QED BY <3>1, <1>1, <1>3, <1>4
    <2> QED BY <2>1, <2>2, <1>1
  <1>6. \A i \in 1 .. Len(t) : Head(t).start <= t[i].start
    <2> SUFFICES ASSUME NEW i \in 1 .. Len(t) PROVE Head(t).start <= t[i].start
      OBVIOUS
    <2>1. CASE i = 1
      BY <2>1, <1>1, <1>3, <1>4
    <2>2. CASE 1 < i
      <3>1. t[1].end < t[i].start
        BY <2>2, <1>4 DEF IsPath
      <3> QED BY <3>1, <1>1, <1>3, <1>4
    <2> QED BY <2>1, <2>2, <1>1
  <1>7. Head(t).start <= Last(t).end
    BY <1>1, <1>3, <1>4, <1>5
  <1> QED BY <1>1, <1>2, <1>3, <1>4, <1>5, <1>6, <1>7

LEMMA RangeOfPath ==
    ASSUME NEW t, IsPath(t)
    PROVE  Range(t) = {t[i] : i \in 1 .. Len(t)} /\ Range(t) \subseteq Report
  BY DEF IsPath, Range

LEMMA AppendedIsAPath ==
    ASSUME IsPath(trajectory), trajectory # <<>>, NEW r \in Report, Appendable(r)
    PROVE  IsPath(Append(trajectory, r)) /\ Len(Append(trajectory, r)) < MaxPoints
  <1> DEFINE t == trajectory
             n == Append(trajectory, r)
  <1>1. t \in Seq(Report) /\ Len(t) \in Nat \ {0}
    BY PathEndsLast DEF IsPath
  <1>2. /\ n \in Seq(Report) /\ Len(n) = Len(t) + 1
        /\ n[Len(t) + 1] = r /\ \A i \in 1 .. Len(t) : n[i] = t[i]
    BY <1>1
  <1>3. Len(t) + 1 < MaxPoints /\ EvidenceOf(Range(t)) \cap r.evidence = {} /\ r.start > Last(t).end
    BY DEF Appendable, After
  <1>4. r.start \in Nat
    BY ReportFacts
  <1>5. \A i \in 1 .. Len(t) : t[i].end < r.start /\ t[i].evidence \cap r.evidence = {}
    <2> SUFFICES ASSUME NEW i \in 1 .. Len(t)
                 PROVE  t[i].end < r.start /\ t[i].evidence \cap r.evidence = {}
      OBVIOUS
    <2>1. t[i].end \in Nat /\ t[i].end <= Last(t).end /\ Last(t).end \in Nat
      BY PathEndsLast
    <2>2. t[i] \in Range(t)
      BY RangeOfPath
    <2>3. t[i].evidence \subseteq EvidenceOf(Range(t))
      BY <2>2 DEF EvidenceOf
    <2> QED BY <2>1, <2>3, <1>3, <1>4
  <1>6. \A i, j \in 1 .. Len(t) : i < j => t[i].end < t[j].start /\ t[i].evidence \cap t[j].evidence = {}
    BY DEF IsPath
  <1> HIDE DEF t, n
  <1>7. \A i, j \in 1 .. Len(n) : i < j => n[i].end < n[j].start /\ n[i].evidence \cap n[j].evidence = {}
    <2> SUFFICES ASSUME NEW i \in 1 .. Len(n), NEW j \in 1 .. Len(n), i < j
                 PROVE  n[i].end < n[j].start /\ n[i].evidence \cap n[j].evidence = {}
      OBVIOUS
    <2>1. i \in 1 .. Len(t) /\ n[i] = t[i]
      BY <1>1, <1>2
    <2>2. CASE j = Len(t) + 1
      BY <2>1, <2>2, <1>2, <1>5
    <2>3. CASE j \in 1 .. Len(t)
      BY <2>1, <2>3, <1>2, <1>6
    <2> QED BY <2>2, <2>3, <1>1, <1>2
  <1>8. IsPath(n) /\ Len(n) < MaxPoints
    BY <1>2, <1>3, <1>7 DEF IsPath
  <1> QED BY <1>8 DEF n

-----------------------------------------------------------------------------
(* The canary. *)

LEMMA StagesGrow ==
    ASSUME StagesAreValid
    PROVE  /\ Len(stages) \in Nat \ {0} /\ DOMAIN stages = 1 .. Len(stages)
           /\ \A i \in 1 .. Len(stages) : stages[i].exposure \in Nat
           /\ \A i \in 1 .. Len(stages) : i + 1 \in 1 .. Len(stages) =>
                 stages[i].exposure < stages[i + 1].exposure
  <1>1. stages \in Seq([exposure : Nat, groups : Nat]) /\ stages # <<>>
    BY DEF StagesAreValid, ValidStages
  <1>2. Len(stages) \in Nat \ {0} /\ DOMAIN stages = 1 .. Len(stages)
    BY <1>1
  <1>3. \A i \in 1 .. Len(stages) : stages[i] \in [exposure : Nat, groups : Nat]
    <2> DEFINE R == [exposure : Nat, groups : Nat]
    <2>1. stages \in Seq(R)
      BY <1>1
    <2> HIDE DEF R
    <2>2. \A i \in 1 .. Len(stages) : stages[i] \in R
      BY <2>1
    <2> QED BY <2>2 DEF R
  <1>4. \A i \in 1 .. Len(stages) - 1 : stages[i].exposure < stages[i + 1].exposure
    BY DEF StagesAreValid, ValidStages
  <1>5. \A i \in 1 .. Len(stages) : i + 1 \in 1 .. Len(stages) => i \in 1 .. Len(stages) - 1
    BY <1>2
  <1> QED BY <1>2, <1>3, <1>4, <1>5

LEMMA CanaryStarts ==
    ASSUME StagesAreValid, GateIsOfItsReport, StartCanary
    PROVE  CanaryIsEarned'
  <1>1. IsGate(gate) /\ stages' = stages
    BY DEF GateIsOfItsReport, StartCanary
  <1>2. canary' = [gate |-> gate, phase |-> "awaiting", stage |-> 1,
                   reports |-> {}, evidence |-> gate.report.evidence, end |-> gate.report.end]
    BY DEF StartCanary
  <1>3. /\ canary'.gate = gate /\ canary'.phase = "awaiting" /\ canary'.stage = 1
        /\ canary'.reports = {} /\ canary'.evidence = gate.report.evidence
        /\ canary'.end = gate.report.end
    BY <1>2
  <1>4. gate.report \in Report
    BY <1>1 DEF IsGate
  <1>5. gate.report.end \in Nat
    BY <1>4, ReportFacts
  <1>6. ShownInOrder(canary)'
    <2>1. gate.report.evidence = EvidenceOf({} \cup {gate.report})
      BY DEF EvidenceOf
    <2>2. ShownInOrder(canary')
      BY <1>3, <1>5, <2>1 DEF ShownInOrder
    <2> QED BY <2>2 DEF ShownInOrder, EvidenceOf
  <1>7. PassedStages(canary, Cleared(canary))'
    <2>1. Cleared(canary)' = 0
      BY <1>3 DEF Cleared
    <2> DEFINE none == [i \in 1 .. 0 |-> i]
    <2>2. none \in [1 .. 0 -> canary'.reports] /\ \A i \in 1 .. 0 : FALSE
      OBVIOUS
    <2> QED BY <2>1, <2>2 DEF PassedStages
  <1>8. IsGate(canary.gate)'
    BY <1>1, <1>3 DEF IsGate, GateVerdict, Violated, Unproven, Uncertain, HasRadius, Groups
  <1>9. canary'.stage \in 1 .. Len(stages')
    BY <1>1, <1>3, StagesGrow
  <1> QED BY <1>3, <1>6, <1>7, <1>8, <1>9 DEF CanaryIsEarned

\* What a stage's report adds: it is later than all before it, and if it takes the
\* canary on, it passed the stage.
LEMMA StageIsJudged ==
    ASSUME StagesAreValid, CanaryIsEarned, NEW r \in Report, EvaluateStage(r)
    PROVE  CanaryIsEarned'
  <1> DEFINE next == NextPhase(canary, r)
             k == Cleared(canary)
  <1>1. /\ canary # Unsealed /\ Judgeable(canary, r) /\ stages' = stages
        /\ canary' = [gate |-> canary.gate, phase |-> next.phase, stage |-> next.stage,
                      reports |-> canary.reports \cup {r},
                      evidence |-> canary.evidence \cup r.evidence, end |-> r.end]
    BY DEF EvaluateStage
  <1>2. /\ canary'.gate = canary.gate /\ canary'.phase = next.phase /\ canary'.stage = next.stage
        /\ canary'.reports = canary.reports \cup {r}
        /\ canary'.evidence = canary.evidence \cup r.evidence /\ canary'.end = r.end
    BY <1>1
  <1>3. /\ IsGate(canary.gate) /\ ShownInOrder(canary) /\ canary.stage \in 1 .. Len(stages)
        /\ canary.phase = "awaiting" /\ (\A p \in canary.reports : ~Violated(p))
        /\ PassedStages(canary, k) /\ k = canary.stage - 1
    BY <1>1 DEF CanaryIsEarned, Judgeable, Cleared
  <1>4. canary.evidence \cap r.evidence = {} /\ r.start > canary.end /\ r \notin canary.reports
    BY <1>1 DEF Judgeable, After
  <1>5. r.start \in Nat /\ r.end \in Nat /\ r.start <= r.end
    BY ReportFacts
  <1>6. canary.gate.report \in Report /\ canary.gate.report.end \in Nat /\ canary.end \in Nat
        /\ canary.gate.report.end <= canary.end
    BY <1>3, ReportFacts DEF IsGate, ShownInOrder
  <1>7. \A p \in canary.reports : /\ p \in Report /\ p.start \in Nat /\ p.end \in Nat
                                  /\ p.end < r.start /\ p.end <= r.end
                                  /\ p.evidence \cap r.evidence = {}
    <2> SUFFICES ASSUME NEW p \in canary.reports
                 PROVE  /\ p \in Report /\ p.start \in Nat /\ p.end \in Nat
                        /\ p.end < r.start /\ p.end <= r.end /\ p.evidence \cap r.evidence = {}
      OBVIOUS
    <2>1. p \in Report /\ p.end <= canary.end
      BY <1>3 DEF ShownInOrder
    <2>2. p.start \in Nat /\ p.end \in Nat
      BY <2>1, ReportFacts
    <2>3. p.evidence \subseteq canary.evidence
      BY <1>3 DEF ShownInOrder, EvidenceOf
    <2> QED BY <2>1, <2>2, <2>3, <1>4, <1>5, <1>6
  <1>8. canary.gate.report.end < r.start /\ canary.gate.report.end <= r.end
        /\ canary.gate.report.evidence \cap r.evidence = {}
    <2>1. canary.gate.report.evidence \subseteq canary.evidence
      BY <1>3 DEF ShownInOrder, EvidenceOf
    <2> QED BY <2>1, <1>4, <1>5, <1>6
  <1>9. ShownInOrder(canary)'
    <2>1. canary'.reports \subseteq Report
      BY <1>2, <1>7
    <2>2. canary'.evidence = EvidenceOf(canary'.reports \cup {canary'.gate.report})
      <3>1. canary.evidence = EvidenceOf(canary.reports \cup {canary.gate.report})
        BY <1>3 DEF ShownInOrder
      <3> QED BY <3>1, <1>2 DEF EvidenceOf
    <2>3. canary'.end \in Nat /\ canary'.gate.report.end <= canary'.end
      BY <1>2, <1>5, <1>8
    <2>4. \A p \in canary'.reports : /\ canary'.gate.report.end < p.start /\ p.end <= canary'.end
                                     /\ canary'.gate.report.evidence \cap p.evidence = {}
      <3>1. \A p \in canary.reports : /\ canary.gate.report.end < p.start
                                      /\ canary.gate.report.evidence \cap p.evidence = {}
        BY <1>3 DEF ShownInOrder
      <3> QED BY <3>1, <1>2, <1>5, <1>7, <1>8
    <2>5. \A p, q \in canary'.reports : p # q => /\ p.evidence \cap q.evidence = {}
                                                 /\ p.end < q.start \/ q.end < p.start
      <3>1. \A p, q \in canary.reports : p # q => /\ p.evidence \cap q.evidence = {}
                                                  /\ p.end < q.start \/ q.end < p.start
        BY <1>3 DEF ShownInOrder
      <3> QED BY <3>1, <1>2, <1>7
    <2>6. ShownInOrder(canary')
      BY <2>1, <2>2, <2>3, <2>4, <2>5 DEF ShownInOrder
    <2> QED BY <2>6 DEF ShownInOrder, EvidenceOf
  <1>10. /\ next.phase \in {"awaiting", "rollback", "validated"}
         /\ next.phase # "rollback" => ~Violated(r)
         /\ \/ next.phase # "validated" /\ next.stage = canary.stage
            \/ /\ ~Doubtful(r, stages[canary.stage])
               /\ \/ next.phase = "awaiting" /\ next.stage = canary.stage + 1 /\ canary.stage < Len(stages)
                  \/ next.phase = "validated" /\ next.stage = canary.stage /\ ~(canary.stage < Len(stages))
    BY DEF NextPhase
  <1>11. Len(stages) \in Nat \ {0} /\ canary.stage \in Nat \ {0} /\ canary.stage <= Len(stages)
    BY <1>3, StagesGrow
  <1>12. canary'.stage \in 1 .. Len(stages')
    BY <1>1, <1>2, <1>10, <1>11
  <1>13. PICK passed \in [1 .. k -> canary.reports] :
            /\ \A i \in 1 .. k : ~Doubtful(passed[i], stages[i])
            /\ \A i, j \in 1 .. k : i < j => /\ passed[i].end < passed[j].start
                                             /\ passed[i].evidence \cap passed[j].evidence = {}
    BY <1>3 DEF PassedStages
  <1> HIDE DEF next
  <1>14. PassedStages(canary, Cleared(canary))'
    <2>1. CASE next.phase # "validated" /\ next.stage = canary.stage
      <3>1. Cleared(canary)' = k
        BY <2>1, <1>2, <1>3 DEF Cleared
      <3>2. passed \in [1 .. k -> canary'.reports]
        BY <1>2
      <3> HIDE DEF k
      <3>3. \A i \in 1 .. k : ~Doubtful(passed[i], stages'[i])
        BY <1>1, <1>13
      <3> DEFINE n == Cleared(canary)'
      <3>4. n = k
        BY <3>1
      <3> HIDE DEF n
      <3>5. \E p \in [1 .. n -> canary'.reports] :
               /\ \A i \in 1 .. n : ~Doubtful(p[i], stages'[i])
               /\ \A i, j \in 1 .. n : i < j => /\ p[i].end < p[j].start
                                               /\ p[i].evidence \cap p[j].evidence = {}
        BY <3>2, <3>3, <3>4, <1>13
      <3> QED BY <3>5 DEF n, PassedStages
    <2>2. CASE /\ ~Doubtful(r, stages[canary.stage])
               /\ \/ next.phase = "awaiting" /\ next.stage = canary.stage + 1
                  \/ next.phase = "validated" /\ canary.stage = Len(stages)
      <3> DEFINE more == [i \in 1 .. canary.stage |-> IF i = canary.stage THEN r ELSE passed[i]]
      <3>1. Cleared(canary)' = canary.stage
        <4>1. CASE next.phase = "awaiting" /\ next.stage = canary.stage + 1
          <5>1. canary'.stage = canary.stage + 1 /\ canary'.phase # "validated"
            BY <4>1, <1>2
          <5>2. Cleared(canary)' = canary'.stage - 1
            BY <5>1 DEF Cleared
          <5>3. canary'.stage - 1 = canary.stage
            BY <5>1, <1>11
          <5> QED BY <5>2, <5>3
        <4>2. CASE next.phase = "validated" /\ canary.stage = Len(stages)
          BY <4>2, <1>1, <1>2 DEF Cleared
        <4> QED BY <2>2, <4>1, <4>2
      <3>2. \A i \in 1 .. canary.stage : i = canary.stage \/ (i # canary.stage /\ i \in 1 .. k)
        BY <1>3, <1>11
      <3>3. more \in [1 .. canary.stage -> canary'.reports]
        BY <3>2, <1>2, <1>13
      <3>4. \A i \in 1 .. canary.stage : ~Doubtful(more[i], stages[i])
        <4> SUFFICES ASSUME NEW i \in 1 .. canary.stage PROVE ~Doubtful(more[i], stages[i])
          OBVIOUS
        <4>1. CASE i = canary.stage
          BY <4>1, <2>2
        <4>2. CASE i # canary.stage /\ i \in 1 .. k
          <5>1. more[i] = passed[i]
            BY <4>2
          <5> QED BY <5>1, <4>2, <1>13
        <4> QED BY <4>1, <4>2, <3>2
      <3>5. \A i, j \in 1 .. canary.stage : i < j => /\ more[i].end < more[j].start
                                                     /\ more[i].evidence \cap more[j].evidence = {}
        <4> SUFFICES ASSUME NEW i \in 1 .. canary.stage, NEW j \in 1 .. canary.stage, i < j
                     PROVE  /\ more[i].end < more[j].start
                            /\ more[i].evidence \cap more[j].evidence = {}
          OBVIOUS
        <4>1. i # canary.stage /\ i \in 1 .. k
          BY <1>3, <1>11
        <4>2. more[i] = passed[i] /\ passed[i] \in canary.reports
          BY <4>1, <1>13
        <4>3. CASE j = canary.stage
          <5>1. more[j] = r
            BY <4>3
          <5> QED BY <4>2, <5>1, <1>7
        <4>4. CASE j # canary.stage /\ j \in 1 .. k
          <5>1. more[j] = passed[j]
            BY <4>4
          <5> QED BY <4>1, <4>2, <4>4, <5>1, <1>13
        <4> QED BY <3>2, <4>3, <4>4
      <3> HIDE DEF more
      <3>6. \A i \in 1 .. canary.stage : ~Doubtful(more[i], stages'[i])
        BY <1>1, <3>4
      <3> DEFINE n == Cleared(canary)'
      <3>7. n = canary.stage
        BY <3>1
      <3> HIDE DEF n
      <3>8. \E p \in [1 .. n -> canary'.reports] :
               /\ \A i \in 1 .. n : ~Doubtful(p[i], stages'[i])
               /\ \A i, j \in 1 .. n : i < j => /\ p[i].end < p[j].start
                                               /\ p[i].evidence \cap p[j].evidence = {}
        BY <3>3, <3>5, <3>6, <3>7
      <3> QED BY <3>8 DEF n, PassedStages
    <2> QED BY <2>1, <2>2, <1>10, <1>11
  <1>15. IsGate(canary.gate)'
    BY <1>2, <1>3 DEF IsGate, GateVerdict, Violated, Unproven, Uncertain, HasRadius, Groups
  <1>16. canary'.phase # "rollback" => \A p \in canary'.reports : ~Violated(p)
    BY <1>2, <1>3, <1>10
  <1>17. (canary.phase # "rollback" => \A p \in canary.reports : ~Violated(p))'
    BY <1>16 DEF Violated, HasRadius, Groups
  <1>18. canary'.phase \in {"awaiting", "rollback", "validated"}
    BY <1>2, <1>10
  <1> QED BY <1>9, <1>12, <1>14, <1>15, <1>17, <1>18 DEF CanaryIsEarned

-----------------------------------------------------------------------------
(* The invariant is inductive. *)

LEMMA GovernanceStarts == GovernanceInit => GovernanceInv
  <1> SUFFICES ASSUME GovernanceInit PROVE GovernanceInv
    OBVIOUS
  <1>1. StagesAreValid
    <2>1. stages \in StageSeq /\ ValidStages(stages)
      BY DEF GovernanceInit
    <2> QED BY <2>1, PolicyAssumption DEF StagesAreValid
  <1>2. TrajectoryIsAPath
    <2>1. <<>> \in Seq(Report) /\ Len(<<>>) = 0 /\ 0 < MaxPoints
      BY PolicyAssumption
    <2>2. \A i \in 1 .. 0 : FALSE
      OBVIOUS
    <2>3. IsPath(<<>>)
      BY <2>1, <2>2 DEF IsPath
    <2> QED BY <2>1, <2>3 DEF GovernanceInit, TrajectoryIsAPath
  <1> QED BY <1>1, <1>2
          DEF GovernanceInit, GovernanceInv, PetfcIsOfItsPath, GateIsOfItsReport, CanaryIsEarned

LEMMA CanaryKept ==
    ASSUME CanaryIsEarned, UNCHANGED <<stages, canary>>
    PROVE  CanaryIsEarned'
  BY DEF CanaryIsEarned, IsGate, ShownInOrder, PassedStages, Cleared, Doubtful, Measured, Unproven,
         Violated, HasRadius, Groups, EvidenceOf, GateVerdict, Uncertain

LEMMA PetfcKept ==
    ASSUME PetfcIsOfItsPath, UNCHANGED petfc
    PROVE  PetfcIsOfItsPath'
  BY DEF PetfcIsOfItsPath

LEMMA PathKept ==
    ASSUME TrajectoryIsAPath, UNCHANGED trajectory
    PROVE  TrajectoryIsAPath'
  BY DEF TrajectoryIsAPath

LEMMA AssessmentIsOfThePath ==
    ASSUME TrajectoryIsAPath, NEW geometry \in {"within", "exceeded", "unidentified"},
           EvaluatePetfc(geometry)
    PROVE  PetfcIsOfItsPath'
  <1>1. /\ petfc'.reports = trajectory /\ petfc'.evidence = EvidenceOf(Range(trajectory))
        /\ petfc'.start = Head(trajectory).start /\ petfc'.end = Last(trajectory).end
        /\ petfc'.verdict = PetfcVerdict(trajectory, geometry)
        /\ trajectory # <<>>
    BY DEF EvaluatePetfc
  <1>2. IsPath(trajectory)
    BY DEF TrajectoryIsAPath
  <1> QED BY <1>1, <1>2 DEF PetfcIsOfItsPath

LEMMA GateIsDecided ==
    ASSUME NEW r \in Report, DecideCandidate(r)
    PROVE  GateIsOfItsReport'
  <1>1. gate' = [report |-> r, verdict |-> GateVerdict(r)]
    BY DEF DecideCandidate
  <1>2. gate' \in [report : Report, verdict : Verdict] /\ gate'.verdict = GateVerdict(gate'.report)
    BY <1>1, VerdictsAreVerdicts
  <1> QED BY <1>2 DEF GateIsOfItsReport, IsGate

LEMMA GovernanceSteps == GovernanceInv /\ [GovernanceNext]_governanceVars => GovernanceInv'
  <1> SUFFICES ASSUME GovernanceInv, [GovernanceNext]_governanceVars PROVE GovernanceInv'
    OBVIOUS
  <1> USE DEF GovernanceInv
  <1>1. stages' = stages => StagesAreValid'
    BY DEF StagesAreValid
  <1>2. gate' = gate => GateIsOfItsReport'
    BY DEF GateIsOfItsReport
  <1>3. ASSUME NEW r \in Report, StartTrajectory(r) PROVE GovernanceInv'
    <2>1. trajectory' = <<r>> /\ UNCHANGED <<stages, petfc, gate, canary>>
      BY <1>3 DEF StartTrajectory
    <2>2. TrajectoryIsAPath'
      <3>1. IsPath(<<r>>) /\ Len(<<r>>) = 1
        BY OneReportIsAPath
      <3>2. 1 < MaxPoints
        BY PolicyAssumption
      <3> QED BY <2>1, <3>1, <3>2 DEF TrajectoryIsAPath
    <2> QED BY <2>1, <2>2, <1>1, <1>2, CanaryKept, PetfcKept
  <1>4. ASSUME NEW r \in Report, AppendReport(r) PROVE GovernanceInv'
    <2>1. /\ trajectory # <<>> /\ Appendable(r) /\ trajectory' = Append(trajectory, r)
          /\ UNCHANGED <<stages, petfc, gate, canary>>
      BY <1>4 DEF AppendReport
    <2>2. TrajectoryIsAPath'
      BY <2>1, AppendedIsAPath DEF TrajectoryIsAPath
    <2> QED BY <2>1, <2>2, <1>1, <1>2, CanaryKept, PetfcKept
  <1>5. ASSUME NEW r \in Report, DecideCandidate(r) PROVE GovernanceInv'
    <2>1. UNCHANGED <<stages, trajectory, petfc, canary>>
      BY <1>5 DEF DecideCandidate
    <2> QED BY <2>1, <1>1, <1>5, GateIsDecided, CanaryKept, PetfcKept, PathKept
  <1>6. ASSUME NEW r \in Report, EvaluateStage(r) PROVE GovernanceInv'
    <2>1. UNCHANGED <<stages, trajectory, petfc, gate>>
      BY <1>6 DEF EvaluateStage
    <2> QED BY <2>1, <1>1, <1>2, <1>6, StageIsJudged, PetfcKept, PathKept
  <1>7. ASSUME NEW geometry \in {"within", "exceeded", "unidentified"}, EvaluatePetfc(geometry)
        PROVE  GovernanceInv'
    <2>1. UNCHANGED <<stages, trajectory, gate, canary>>
      BY <1>7 DEF EvaluatePetfc
    <2> QED BY <2>1, <1>1, <1>2, <1>7, AssessmentIsOfThePath, CanaryKept, PathKept
  <1>8. ASSUME StartCanary PROVE GovernanceInv'
    <2>1. UNCHANGED <<stages, trajectory, petfc, gate>>
      BY <1>8 DEF StartCanary
    <2> QED BY <2>1, <1>1, <1>2, <1>8, CanaryStarts, PetfcKept, PathKept
  <1>9. ASSUME UNCHANGED governanceVars PROVE GovernanceInv'
    <2>1. UNCHANGED <<stages, trajectory, petfc, gate, canary>>
      BY <1>9 DEF governanceVars
    <2> QED BY <2>1, <1>1, <1>2, CanaryKept, PetfcKept, PathKept
  <1> QED BY <1>3, <1>4, <1>5, <1>6, <1>7, <1>8, <1>9 DEF GovernanceNext

-----------------------------------------------------------------------------
(* What the invariant says of a promotion. *)

\* A compatible verdict is of a path all of whose reports are sufficient and
\* prove their invariants.
LEMMA CompatibleIsProven ==
    ASSUME NEW t, NEW geometry, PetfcVerdict(t, geometry) = "compatible", NEW r \in Range(t)
    PROVE  Sufficient(r) /\ ~Violated(r) /\ ~Unproven(r)
  <1>1. HardReasons(t) = {} /\ ~Undecided(t)
    BY DEF PetfcVerdict
  <1>2. ~Violated(r)
    BY <1>1 DEF HardReasons
  <1>3. Sufficient(r) /\ ~Unproven(r)
    BY <1>1 DEF Undecided
  <1> QED BY <1>2, <1>3

\* A gate advances a candidate whose every metric is at least what is required.
LEMMA AdvancedIsProven ==
    ASSUME NEW r \in Report, GateVerdict(r) = "advance"
    PROVE  /\ Sufficient(r) /\ ~Violated(r) /\ ~Unproven(r)
           /\ \A m \in Metric : r.lo[m] >= Required[m]
  <1>1. /\ ~Violated(r) /\ ~Unproven(r) /\ ~Uncertain(r)
        /\ Groups(r) >= GateGroups /\ HasRadius(r)
        /\ \A m \in Metric : ~(r.hi[m] < Required[m])
    BY DEF GateVerdict
  <1>2. Sufficient(r)
    BY <1>1, ReportFacts, PolicyAssumption DEF Sufficient
  <1>3. \A m \in Metric : r.lo[m] >= Required[m]
    <2> SUFFICES ASSUME NEW m \in Metric PROVE r.lo[m] >= Required[m]
      OBVIOUS
    <2>1. r.lo[m] \in Int /\ r.hi[m] \in Int /\ Required[m] \in Int
      BY ReportFacts, PolicyAssumption
    <2>2. ~(r.hi[m] < Required[m]) /\ ~(r.lo[m] < Required[m] /\ Required[m] <= r.hi[m])
      BY <1>1 DEF Uncertain
    <2> QED BY <2>1, <2>2
  <1> QED BY <1>1, <1>2, <1>3

LEMMA TypesHold == GovernanceInv => GovernanceTypeOK
  <1> SUFFICES ASSUME GovernanceInv PROVE GovernanceTypeOK
    OBVIOUS
  <1>1. ValidStages(stages) /\ DOMAIN stages = 1 .. Len(stages)
    BY StagesGrow DEF GovernanceInv, StagesAreValid
  <1>2. Len(trajectory) < MaxPoints /\ \A r \in Range(trajectory) : r.start <= r.end
    <2>1. IsPath(trajectory) /\ Len(trajectory) < MaxPoints
      BY DEF GovernanceInv, TrajectoryIsAPath
    <2> QED BY <2>1, RangeOfPath, ReportFacts
  <1>3. petfc # Unsealed => petfc.verdict \in Verdict /\ petfc.start <= petfc.end
    <2> SUFFICES ASSUME petfc # Unsealed PROVE petfc.verdict \in Verdict /\ petfc.start <= petfc.end
      OBVIOUS
    <2>1. /\ IsPath(petfc.reports) /\ petfc.reports # <<>>
          /\ petfc.start = Head(petfc.reports).start /\ petfc.end = Last(petfc.reports).end
      BY DEF GovernanceInv, PetfcIsOfItsPath
    <2>2. petfc.verdict \in Verdict
      BY VerdictsAreVerdicts DEF GovernanceInv, PetfcIsOfItsPath
    <2> QED BY <2>1, <2>2, PathEndsLast
  <1>4. gate # Unsealed => gate.verdict \in Verdict
    BY DEF GovernanceInv, GateIsOfItsReport, IsGate
  <1>5. canary # Unsealed => /\ canary.stage \in DOMAIN stages
                             /\ canary.phase \in {"awaiting", "rollback", "validated"}
                             /\ canary.evidence = EvidenceOf(canary.reports \cup {canary.gate.report})
    BY <1>1 DEF GovernanceInv, CanaryIsEarned, ShownInOrder
  <1> QED BY <1>1, <1>2, <1>3, <1>4, <1>5 DEF GovernanceTypeOK

LEMMA ProvenHolds == GovernanceInv => NothingUnprovenIsPromoted
  <1> SUFFICES ASSUME GovernanceInv, CanPromote
               PROVE  /\ \A r \in Range(petfc.reports) \cup {gate.report} :
                            Sufficient(r) /\ ~Violated(r) /\ ~Unproven(r)
                      /\ \A m \in Metric : gate.report.lo[m] >= Required[m]
    BY DEF NothingUnprovenIsPromoted
  <1>1. petfc # Unsealed /\ gate # Unsealed /\ gate.verdict = "advance" /\ petfc.verdict = "compatible"
    BY DEF CanPromote, Promotable
  <1>2. PICK geometry : petfc.verdict = PetfcVerdict(petfc.reports, geometry)
    BY <1>1 DEF GovernanceInv, PetfcIsOfItsPath
  <1>3. \A r \in Range(petfc.reports) : Sufficient(r) /\ ~Violated(r) /\ ~Unproven(r)
    BY <1>1, <1>2, CompatibleIsProven
  <1>4. gate.report \in Report /\ GateVerdict(gate.report) = "advance"
    BY <1>1 DEF GovernanceInv, GateIsOfItsReport, IsGate
  <1> QED BY <1>3, <1>4, AdvancedIsProven

LEMMA OneAuthorityHolds == GovernanceInv => OneAuthorityPerObservation
  <1> SUFFICES ASSUME GovernanceInv, CanPromote
               PROVE  /\ \A r, s \in Behind(gate, petfc, canary) :
                            r # s => /\ r.evidence \cap s.evidence = {}
                                     /\ r.end < s.start \/ s.end < r.start
                      /\ \A r \in Range(petfc.reports) : r.end < gate.report.start
                      /\ \A r \in canary.reports : gate.report.end < r.start
    BY DEF OneAuthorityPerObservation
  <1> DEFINE t == petfc.reports
             g == gate.report
  <1>1. /\ gate # Unsealed /\ petfc # Unsealed /\ canary # Unsealed
        /\ canary.gate = gate /\ g.evidence \cap petfc.evidence = {}
        /\ petfc.evidence \cap canary.evidence = {} /\ petfc.end < g.start
    BY DEF CanPromote, Promotable
  <1>2. IsPath(t) /\ t # <<>> /\ petfc.evidence = EvidenceOf(Range(t)) /\ petfc.end = Last(t).end
    BY <1>1 DEF GovernanceInv, PetfcIsOfItsPath
  <1>3. g \in Report
    BY <1>1 DEF GovernanceInv, GateIsOfItsReport, IsGate
  <1>4. ShownInOrder(canary)
    BY <1>1 DEF GovernanceInv, CanaryIsEarned
  <1>5. /\ \A r \in canary.reports : r \in Report /\ g.end < r.start /\ g.evidence \cap r.evidence = {}
        /\ \A r, s \in canary.reports : r # s => /\ r.evidence \cap s.evidence = {}
                                                 /\ r.end < s.start \/ s.end < r.start
        /\ \A r \in canary.reports : r.evidence \subseteq canary.evidence
    BY <1>1, <1>4 DEF ShownInOrder, EvidenceOf
  <1>6. g.start \in Nat /\ g.end \in Nat /\ g.start <= g.end
    BY <1>3, ReportFacts
  <1>7. \A r \in Range(t) : r \in Report /\ r.end \in Nat /\ r.end <= petfc.end /\ petfc.end \in Nat
                            /\ r.evidence \subseteq petfc.evidence
    BY <1>2, PathEndsLast, RangeOfPath DEF EvidenceOf
  <1>8. \A r \in Range(t) : r.end < g.start
    BY <1>1, <1>6, <1>7
  <1>9. \A r \in canary.reports : r.start \in Nat
    BY <1>5, ReportFacts
  <1>10. ASSUME NEW r \in Range(t), NEW s \in Range(t), r # s
         PROVE  r.evidence \cap s.evidence = {} /\ (r.end < s.start \/ s.end < r.start)
    <2>1. PICK i \in 1 .. Len(t), j \in 1 .. Len(t) : r = t[i] /\ s = t[j]
      BY <1>2, RangeOfPath
    <2>2. i < j \/ j < i
      BY <1>10, <2>1, <1>2 DEF IsPath
    <2>3. \A k, l \in 1 .. Len(t) : k < l => t[k].end < t[l].start /\ t[k].evidence \cap t[l].evidence = {}
      BY <1>2 DEF IsPath
    <2> HIDE DEF t
    <2> QED BY <2>1, <2>2, <2>3
  <1>11. ASSUME NEW r \in Range(t), NEW s \in canary.reports
         PROVE  r.evidence \cap s.evidence = {} /\ r.end < s.start
    <2>1. r.evidence \cap s.evidence = {}
      BY <1>1, <1>5, <1>7
    <2>2. r.end < s.start
      BY <1>5, <1>6, <1>7, <1>8, <1>9
    <2> QED BY <2>1, <2>2
  <1>12. ASSUME NEW r \in Range(t)
         PROVE  r.evidence \cap g.evidence = {} /\ r.end < g.start
    BY <1>1, <1>7, <1>8
  <1> HIDE DEF t, g
  <1>13. \A r, s \in Range(t) \cup {g} \cup canary.reports :
            r # s => /\ r.evidence \cap s.evidence = {}
                     /\ r.end < s.start \/ s.end < r.start
    BY <1>5, <1>10, <1>11, <1>12
  <1> QED BY <1>5, <1>8, <1>13 DEF Behind, t, g

LEMMA EligibleHolds == GovernanceInv => PromotableIsEligible
  <1> SUFFICES ASSUME GovernanceInv, CanPromote PROVE ParetoEligible(gate, petfc)
    BY DEF PromotableIsEligible
  <1>1. petfc # Unsealed /\ gate # Unsealed
    BY DEF CanPromote
  <1>2. gate.report \in Report
    BY <1>1 DEF GovernanceInv, GateIsOfItsReport, IsGate
  <1>3. petfc.end \in Nat
    BY <1>1, PathEndsLast DEF GovernanceInv, PetfcIsOfItsPath
  <1>4. gate.report.start > petfc.end
    BY <1>2, <1>3, ReportFacts DEF CanPromote, Promotable
  <1> QED BY <1>4 DEF CanPromote, Promotable, ParetoEligible

LEMMA ValidatedHolds == GovernanceInv => ValidatedOnEveryStage
  <1> SUFFICES ASSUME GovernanceInv, canary # Unsealed, canary.phase = "validated"
               PROVE  \E passed \in [DOMAIN stages -> canary.reports] :
                        /\ \A i \in DOMAIN stages :
                              ~Doubtful(passed[i], stages[i]) /\ ~Unproven(passed[i])
                        /\ \A i \in DOMAIN stages, j \in DOMAIN stages :
                              i < j => /\ passed[i].end < passed[j].start
                                       /\ passed[i].evidence \cap passed[j].evidence = {}
                        /\ \A r \in canary.reports :
                              /\ ~Violated(r)
                              /\ r.evidence \cap canary.gate.report.evidence = {}
    BY DEF ValidatedOnEveryStage
  <1>1. DOMAIN stages = 1 .. Len(stages)
    BY StagesGrow DEF GovernanceInv
  <1>2. /\ PassedStages(canary, Len(stages)) /\ ShownInOrder(canary)
        /\ \A r \in canary.reports : ~Violated(r)
    BY DEF GovernanceInv, CanaryIsEarned, Cleared
  <1>3. PICK passed \in [1 .. Len(stages) -> canary.reports] :
            /\ \A i \in 1 .. Len(stages) : ~Doubtful(passed[i], stages[i])
            /\ \A i, j \in 1 .. Len(stages) : i < j =>
                  /\ passed[i].end < passed[j].start
                  /\ passed[i].evidence \cap passed[j].evidence = {}
    BY <1>2 DEF PassedStages
  <1>4. \A i \in 1 .. Len(stages) : ~Unproven(passed[i])
    BY <1>3 DEF Doubtful
  <1>5. \A r \in canary.reports : r.evidence \cap canary.gate.report.evidence = {}
    BY <1>2 DEF ShownInOrder
  <1> QED BY <1>1, <1>2, <1>3, <1>4, <1>5

\* A canary is a sealed value.
LEMMA CanaryIsAState ==
    ASSUME CanaryIsEarned, StagesAreValid, NEW r \in Report, EvaluateStage(r)
    PROVE  canary' # Unsealed
  <1> DEFINE next == NextPhase(canary, r)
  <1>1. /\ canary # Unsealed
        /\ canary' = [gate |-> canary.gate, phase |-> next.phase, stage |-> next.stage,
                      reports |-> canary.reports \cup {r},
                      evidence |-> canary.evidence \cup r.evidence, end |-> r.end]
    BY DEF EvaluateStage
  <1>2. canary.gate \in [report : Report, verdict : Verdict] /\ canary.reports \subseteq Report
        /\ canary.evidence = EvidenceOf(canary.reports \cup {canary.gate.report})
        /\ canary.stage \in 1 .. Len(stages)
    BY <1>1 DEF CanaryIsEarned, IsGate, ShownInOrder
  <1>3. canary.evidence \cup r.evidence \subseteq EvidenceOf(Report)
    BY <1>2 DEF EvidenceOf
  <1>4. next.phase \in {"awaiting", "rollback", "validated"}
        /\ (next.stage = canary.stage \/ next.stage = canary.stage + 1)
    BY DEF NextPhase
  <1>5. next.stage \in Nat
    BY <1>2, <1>4, StagesGrow
  <1>6. r.end \in Nat
    BY ReportFacts
  <1>7. canary.reports \cup {r} \in SUBSET Report
    BY <1>2
  <1> HIDE DEF next
  <1>8. canary' \in [gate : [report : Report, verdict : Verdict],
                    phase : {"awaiting", "rollback", "validated"}, stage : Nat,
                    reports : SUBSET Report, evidence : SUBSET EvidenceOf(Report), end : Nat]
    BY <1>1, <1>2, <1>3, <1>4, <1>5, <1>6, <1>7
  <1> QED BY <1>8, UnsealedIsNoState

\* The next stage exposes the subjects of the last one, and more.
LEMMA ExposureGrows ==
    ASSUME GovernanceInv, [GovernanceNext]_governanceVars,
           canary # Unsealed, canary'.gate = canary.gate, canary'.reports # {}, canary' # canary
    PROVE  \/ Exposed(canary) \subseteq Exposed(canary')
           \/ canary'.phase = "rollback" /\ Exposed(canary') = {}
  <1>1. PICK r \in Report : EvaluateStage(r)
    <2>1. ~StartCanary
      BY DEF StartCanary
    <2> QED BY <2>1 DEF GovernanceNext, governanceVars, StartTrajectory, AppendReport,
                        DecideCandidate, EvaluatePetfc
  <1> DEFINE next == NextPhase(canary, r)
  <1>2. /\ stages' = stages /\ canary'.phase = next.phase /\ canary'.stage = next.stage
        /\ canary.phase = "awaiting"
    BY <1>1 DEF EvaluateStage, Judgeable
  <1>3. canary' # Unsealed
    BY <1>1, CanaryIsAState DEF GovernanceInv
  <1>4. CASE next.phase = "rollback"
    BY <1>2, <1>3, <1>4 DEF Exposed
  <1>5. CASE next.phase # "rollback"
    <2>1. \/ next.stage = canary.stage
          \/ next.stage = canary.stage + 1 /\ canary.stage < Len(stages)
      BY DEF NextPhase
    <2>2. canary.stage \in 1 .. Len(stages) /\ Len(stages) \in Nat
      BY StagesGrow DEF GovernanceInv, CanaryIsEarned
    <2>3. stages[canary.stage].exposure \in Nat /\ stages[next.stage].exposure \in Nat
          /\ stages[canary.stage].exposure <= stages[next.stage].exposure
      <3>1. CASE next.stage = canary.stage
        BY <3>1, <2>2, StagesGrow DEF GovernanceInv
      <3>2. CASE next.stage = canary.stage + 1 /\ canary.stage < Len(stages)
        <4>1. canary.stage + 1 \in 1 .. Len(stages)
          BY <2>2, <3>2
        <4> QED BY <3>2, <4>1, <2>2, StagesGrow DEF GovernanceInv
      <3> QED BY <2>1, <3>1, <3>2
    <2> HIDE DEF next
    <2>4. Exposed(canary) = {s \in Subject : s < stages[canary.stage].exposure}
      BY <1>2 DEF Exposed
    <2>5. Exposed(canary') = {s \in Subject : s < stages[next.stage].exposure}
      BY <1>2, <1>3, <1>5 DEF Exposed
    <2>6. \A s \in Subject : s < stages[canary.stage].exposure => s < stages[next.stage].exposure
      <3>1. \A s \in Subject : s \in Nat
        BY PolicyAssumption
      <3> QED BY <3>1, <2>3
    <2>7. Exposed(canary) \subseteq Exposed(canary')
      BY <2>4, <2>5, <2>6
    <2> QED BY <2>7
  <1> QED BY <1>4, <1>5

-----------------------------------------------------------------------------
(* The theorems. *)

\* In every state what each authority sealed is its verdict on reports in order of
\* time and on evidence of their own (evaluate_petfc, decide_candidate, evaluate_stage).
THEOREM AuthoritiesStayBound == GovernanceSpec => []GovernanceInv
  BY GovernanceStarts, GovernanceSteps, PTL DEF GovernanceSpec

\* Whatever reports callers assemble and in whatever order they call the
\* authorities, what authenticate_adapter_promotion_witnesses accepts rests on
\* proven reports, in one order of time, no two of which share evidence.
THEOREM PromotionsRestOnProof == GovernanceSpec => []PromotionsAreEarned
  <1>1. GovernanceInv => PromotionsAreEarned
    BY TypesHold, ProvenHolds, EligibleHolds, OneAuthorityHolds DEF PromotionsAreEarned
  <1> QED BY <1>1, AuthoritiesStayBound, PTL

\* A canary is validated by a report of its own for each stage, none of which
\* violates an invariant, and its exposure never moves to other subjects.
THEOREM CanaryStaysHonest == GovernanceSpec => CanaryIsHonest
  <1> DEFINE Grows == canary # Unsealed /\ canary'.gate = canary.gate /\ canary'.reports # {} =>
                        \/ Exposed(canary) \subseteq Exposed(canary')
                        \/ canary'.phase = "rollback" /\ Exposed(canary') = {}
  <1>1. GovernanceInv => ValidatedOnEveryStage
    BY ValidatedHolds
  <1>2. GovernanceInv /\ [GovernanceNext]_governanceVars => [Grows]_canary
    BY ExposureGrows
  <1>3. GovernanceSpec => [][Grows]_canary
    <2>1. GovernanceInv /\ GovernanceInv' /\ [GovernanceNext]_governanceVars => [Grows]_canary
      BY <1>2
    <2> HIDE DEF Grows
    <2> QED BY <2>1, AuthoritiesStayBound, PTL DEF GovernanceSpec
  <1>4. GovernanceSpec => []ValidatedOnEveryStage
    BY <1>1, AuthoritiesStayBound, PTL
  <1> QED BY <1>3, <1>4 DEF CanaryIsHonest, ExposureOnlyGrows, Grows

-----------------------------------------------------------------------------
(***************************************************************************)
(* Numerical evolution: the engine, its memory and its trajectory.         *)
(***************************************************************************)

\* A rejection says what the report it names says; a trial names its own revision.
TellsOfItsEvidence(a) ==
    \/ \E n \in 0 .. MaxProposals + 1 :
          /\ a.evidence = [kind |-> "rejection", of |-> <<a.problem, n>>]
          /\ a.suite = NoValue /\ a.status = "rejected"
          /\ a.backend = ObservedRejection(Evaluations(a.problem, n)).backend
          /\ a.candidate = ObservedRejection(Evaluations(a.problem, n)).candidate
    \/ a.evidence = [kind |-> "trial", of |-> <<a.revision>>] /\ a.suite \in Suite

IsAttempt(a) == a \in AttemptRecord /\ a.revision \in 1 .. revision /\ TellsOfItsEvidence(a)

EngineTypes ==
    /\ \A p \in Problem : solves[p] \in Workload[p]
    /\ incumbent \in BaselineCheckpoint \cup {NoValue} /\ revision \in 0 .. MaxRevision
    /\ research \in Seq([baseline : BaselineCheckpoint, candidate : Checkpoint, suite : Suite,
                         revision : 1 .. revision])
    /\ lineages \in [Problem -> {NoValue} \cup [ordinal : Nat, attempt : 1 .. revision]]

MemoryTypes ==
    /\ memory = [attempts |-> memory.attempts, failures |-> memory.failures]
    /\ emitted = [attempts |-> emitted.attempts, failures |-> emitted.failures]
    /\ emitted.attempts \in Seq(Range(emitted.attempts))
    /\ \A a \in Range(emitted.attempts) : IsAttempt(a)
    /\ memory.attempts \subseteq Range(emitted.attempts) /\ IsFiniteSet(memory.attempts)
    /\ memory.failures \subseteq FailureRecord
    /\ \A f \in memory.failures : f.revision \in 1 .. revision

\* The reports of the trajectory are of one suite, each of a candidate of its own.
TrajectoryIsOne ==
    \A r, s \in Range(research) : r.suite = s.suite /\ (r.candidate = s.candidate => r = s)

\* Until a rejection of the problem is repeated, its lineage ends at the attempt of the
\* highest ordinal that the memory holds; from then on, at one that it does not hold.
LineagesEndInMemory ==
    \A p \in Problem :
        /\ Repeated(p) =>
              /\ lineages[p] # NoValue
              /\ \A b \in memory.attempts : b.problem = p => b.revision # lineages[p].attempt
        /\ ~Repeated(p) =>
              /\ \A a \in Range(emitted.attempts) : a.problem = p => a \in memory.attempts
              /\ lineages[p] = NoValue => \A b \in memory.attempts : b.problem # p
              /\ lineages[p] # NoValue =>
                    /\ \E b \in memory.attempts : /\ b.problem = p /\ b.revision = lineages[p].attempt
                                                  /\ b.ordinal = lineages[p].ordinal
                    /\ \A b \in memory.attempts : b.problem = p => b.ordinal <= lineages[p].ordinal

EvolutionInv ==
    /\ EngineTypes /\ MemoryTypes
    /\ EvidenceCountsOnce /\ LineagesAreChains /\ TrajectoryIsRemembered
    /\ TrajectoryIsOne /\ LineagesEndInMemory

-----------------------------------------------------------------------------
(* Evolution: reports and lists. *)

\* Among finitely many numbered things one has the least number.
LEMMA SmallestExists ==
    ASSUME NEW S, S # {}, NEW size, \A x \in S : size[x] \in Nat
    PROVE  \E x \in S : \A y \in S : size[x] <= size[y]
  <1> DEFINE T == {size[x] : x \in S}
  <1>1. T \subseteq Nat /\ T # {}
    OBVIOUS
  <1>2. \E m \in T : \A n \in T : ~(<<n, m>> \in OpToRel(<, Nat))
    BY <1>1, NatLessThanWellFounded, WFMin
  <1>3. PICK m \in T : \A n \in T : ~(<<n, m>> \in OpToRel(<, Nat))
    BY <1>2
  <1>4. \A n \in T : m <= n
    <2> SUFFICES ASSUME NEW n \in T PROVE m <= n
      OBVIOUS
    <2>1. <<n, m>> \in Nat \X Nat /\ <<n, m>>[1] = n /\ <<n, m>>[2] = m
      BY <1>1
    <2>2. ~(n < m)
      BY <1>3, <2>1 DEF OpToRel
    <2> QED BY <1>1, <2>2
  <1> QED BY <1>4

LEMMA ReportsAreTyped ==
    ASSUME EngineTypes, NEW p \in Problem, NEW n \in 0 .. MaxProposals + 1
    PROVE  /\ Evaluations(p, n) \subseteq CandidateEvaluation
           /\ \A e \in Accepted(Evaluations(p, n)) : e.candidate \in Checkpoint
           /\ \A e \in Observed(Evaluations(p, n)) : e.candidate \in Checkpoint
  <1>1. solves[p] \in Workload[p]
    BY DEF EngineTypes
  <1>2. /\ solves[p] \subseteq CandidateEvaluation
        /\ \A e \in solves[p] : e.status = "accepted" => e.candidate # NoValue
    BY <1>1, EvolutionAssumption
  <1>3. Evaluations(p, n) \subseteq solves[p]
    BY DEF Evaluations
  <1>4. \A e \in CandidateEvaluation : e.candidate \in Checkpoint \cup {NoValue}
    BY DEF CandidateEvaluation
  <1> QED BY <1>2, <1>3, <1>4 DEF Accepted, Observed

\* What is accepted has a first, and what was measured in vain too.
LEMMA SomethingIsSelected ==
    ASSUME EngineTypes, NEW p \in Problem, NEW n \in 0 .. MaxProposals + 1,
           Accepted(Evaluations(p, n)) # {}
    PROVE  Selected(Evaluations(p, n)) \in Accepted(Evaluations(p, n))
  <1> DEFINE S == Accepted(Evaluations(p, n))
             size == [e \in S |-> 4 * StoredSize(e.candidate) + Role(e.backend)]
  <1>1. \A e \in S : StoredSize(e.candidate) \in Nat /\ Role(e.backend) \in 1 .. 3
    <2>1. \A e \in S : StoredSize(e.candidate) \in Nat
      BY ReportsAreTyped, EvolutionAssumption
    <2>2. \A e \in S : Role(e.backend) \in 1 .. 3
      BY DEF Role
    <2> QED BY <2>1, <2>2
  <1>2. \A e \in S : size[e] = 4 * StoredSize(e.candidate) + Role(e.backend)
    OBVIOUS
  <1> HIDE DEF size
  <1>3. \A e \in S : size[e] \in Nat
    BY <1>1, <1>2
  <1>4. PICK e \in S : \A d \in S : size[e] <= size[d]
    BY <1>3, SmallestExists
  <1>5. ASSUME NEW d \in S
        PROVE  \/ StoredSize(e.candidate) < StoredSize(d.candidate)
               \/ StoredSize(e.candidate) = StoredSize(d.candidate) /\ Role(e.backend) <= Role(d.backend)
    <2> DEFINE x == StoredSize(e.candidate)
               y == StoredSize(d.candidate)
               u == Role(e.backend)
               v == Role(d.backend)
    <2>1. x \in Nat /\ y \in Nat /\ u \in 1 .. 3 /\ v \in 1 .. 3 /\ 4 * x + u <= 4 * y + v
      BY <1>1, <1>2, <1>4
    <2> HIDE DEF x, y, u, v
    <2>2. x < y \/ (x = y /\ u <= v)
      BY <2>1
    <2> QED BY <2>2 DEF x, y, u, v
  <1> QED BY <1>5 DEF Selected

LEMMA SomeRejectionSpeaks ==
    ASSUME EngineTypes, NEW p \in Problem, NEW n \in 0 .. MaxProposals + 1,
           Observed(Evaluations(p, n)) # {}
    PROVE  ObservedRejection(Evaluations(p, n)) \in Observed(Evaluations(p, n))
  <1> DEFINE S == Observed(Evaluations(p, n))
             size == [e \in S |-> e.candidate]
  <1>1. \A e \in S : size[e] = e.candidate /\ size[e] \in Nat
    BY ReportsAreTyped, EvolutionAssumption
  <1> HIDE DEF size
  <1>2. \E e \in S : \A d \in S : size[e] <= size[d]
    BY <1>1, SmallestExists
  <1>3. \E e \in S : \A d \in S : e.candidate <= d.candidate
    BY <1>1, <1>2
  <1> QED BY <1>3 DEF ObservedRejection

LEMMA ListOf ==
    ASSUME NEW S, NEW s \in Seq(S), NEW T, \A i \in 1 .. Len(s) : s[i] \in T
    PROVE  s \in Seq(T)
  OBVIOUS

\* What a longer list holds.
LEMMA ListGrows ==
    ASSUME NEW s, s \in Seq(Range(s)), NEW e
    PROVE  /\ Append(s, e) \in Seq(Range(Append(s, e)))
           /\ Range(Append(s, e)) = Range(s) \cup {e}
           /\ DOMAIN s = 1 .. Len(s) /\ DOMAIN Append(s, e) = 1 .. Len(s) + 1 /\ Len(s) \in Nat
           /\ Append(s, e)[Len(s) + 1] = e
           /\ \A i \in 1 .. Len(s) : Append(s, e)[i] = s[i]
  <1> DEFINE S == Range(s) \cup {e}
             n == Append(s, e)
  <1>1. s \in Seq(S)
    <2>1. \A i \in 1 .. Len(s) : s[i] \in S
      OBVIOUS
    <2> HIDE DEF S
    <2> QED BY <2>1, ListOf
  <1>2. e \in S
    OBVIOUS
  <1> HIDE DEF S
  <1>3. /\ n \in Seq(S) /\ Len(n) = Len(s) + 1 /\ Len(s) \in Nat
        /\ n[Len(s) + 1] = e /\ \A i \in 1 .. Len(s) : n[i] = s[i]
        /\ DOMAIN s = 1 .. Len(s) /\ DOMAIN n = 1 .. Len(s) + 1
    BY <1>1, <1>2, AppendProperties
  <1>4. Range(n) = Range(s) \cup {e}
    <2> HIDE DEF n
    <2>1. Range(n) \subseteq Range(s) \cup {e}
      <3> SUFFICES ASSUME NEW i \in 1 .. Len(s) + 1 PROVE n[i] \in Range(s) \cup {e}
        BY <1>3 DEF Range
      <3>1. CASE i = Len(s) + 1
        BY <3>1, <1>3
      <3>2. CASE i # Len(s) + 1
        <4>1. i \in 1 .. Len(s)
          BY <3>2, <1>3
        <4> QED BY <4>1, <1>3 DEF Range
      <3> QED BY <3>1, <3>2
    <2>2. \A i \in 1 .. Len(s) : i \in DOMAIN n /\ n[i] = s[i]
      BY <1>3
    <2>3. Len(s) + 1 \in DOMAIN n
      BY <1>3
    <2> QED BY <2>1, <2>2, <2>3, <1>3 DEF Range
  <1>5. \A i \in 1 .. Len(n) : n[i] \in Range(n)
    BY <1>3 DEF Range
  <1> HIDE DEF n
  <1>6. n \in Seq(Range(n))
    BY <1>3, <1>5, ListOf
  <1> QED BY <1>3, <1>4, <1>6 DEF n

-----------------------------------------------------------------------------
(* Evolution: lineages. *)

\* The place an attempt takes in the lineage of its problem.
TakesNextPlace(a) ==
    /\ a.problem \in Problem /\ a.revision = revision + 1
    /\ a.ordinal = IF lineages[a.problem] = NoValue THEN 0 ELSE lineages[a.problem].ordinal + 1
    /\ a.parent = IF lineages[a.problem] = NoValue THEN NoValue ELSE lineages[a.problem].attempt

LEMMA AttemptsAreTyped ==
    ASSUME EvolutionInv
    PROVE  \A b \in memory.attempts :
              /\ b \in Range(emitted.attempts) /\ IsAttempt(b) /\ b \in AttemptRecord
              /\ b.problem \in Problem /\ b.ordinal \in Nat /\ b.revision \in 1 .. revision
  BY DEF EvolutionInv, MemoryTypes, IsAttempt, AttemptRecord

LEMMA PlacesAreTyped ==
    ASSUME EvolutionInv, NEW p \in Problem, lineages[p] # NoValue
    PROVE  /\ lineages[p] \in [ordinal : Nat, attempt : 1 .. revision]
           /\ lineages[p].ordinal \in Nat /\ lineages[p].attempt \in 1 .. revision
           /\ lineages[p].attempt # NoValue
  <1>1. lineages[p] \in [ordinal : Nat, attempt : 1 .. revision]
    BY DEF EvolutionInv, EngineTypes
  <1>2. lineages[p].ordinal \in Nat /\ lineages[p].attempt \in 1 .. revision /\ lineages[p].attempt \in Nat
    BY <1>1
  <1> QED BY <1>1, <1>2, NoValueIsNothing

\* The memory takes what follows, until a rejection of the problem has been repeated.
LEMMA PlaceIsFree ==
    ASSUME EvolutionInv, NEW a, TakesNextPlace(a)
    PROVE  Follows(memory.attempts, a) <=> ~Repeated(a.problem)
  <1> DEFINE p == a.problem
  <1>0. p \in Problem /\ a.revision = revision + 1 /\ revision \in Nat
    BY DEF TakesNextPlace, EvolutionInv, EngineTypes
  <1>1. CASE Repeated(p)
    <2>1. lineages[p] # NoValue /\ \A b \in memory.attempts : b.problem = p => b.revision # lineages[p].attempt
      BY <1>0, <1>1 DEF EvolutionInv, LineagesEndInMemory
    <2>2. a.parent = lineages[p].attempt /\ a.parent # NoValue
      BY <2>1, <1>0, PlacesAreTyped DEF TakesNextPlace
    <2> QED BY <1>1, <2>1, <2>2 DEF Follows
  <1>2. CASE ~Repeated(p) /\ lineages[p] = NoValue
    <2>1. \A b \in memory.attempts : b.problem # p
      BY <1>0, <1>2 DEF EvolutionInv, LineagesEndInMemory
    <2>2. a.ordinal = 0 /\ a.parent = NoValue
      BY <1>2 DEF TakesNextPlace
    <2> QED BY <1>2, <2>1, <2>2 DEF Follows
  <1>3. CASE ~Repeated(p) /\ lineages[p] # NoValue
    <2>1. /\ \E b \in memory.attempts : /\ b.problem = p /\ b.revision = lineages[p].attempt
                                        /\ b.ordinal = lineages[p].ordinal
          /\ \A b \in memory.attempts : b.problem = p => b.ordinal <= lineages[p].ordinal
      BY <1>0, <1>3 DEF EvolutionInv, LineagesEndInMemory
    <2>2. /\ a.ordinal = lineages[p].ordinal + 1 /\ a.parent = lineages[p].attempt
          /\ lineages[p].ordinal \in Nat /\ lineages[p].attempt \in 1 .. revision /\ a.parent # NoValue
      BY <1>0, <1>3, PlacesAreTyped DEF TakesNextPlace
    <2>3. ~\E b \in memory.attempts : b.problem = p /\ b.ordinal = a.ordinal
      BY <2>1, <2>2, AttemptsAreTyped
    <2>4. \E b \in memory.attempts : /\ b.revision = a.parent /\ b.problem = p
                                     /\ b.ordinal + 1 = a.ordinal /\ b.revision < a.revision
      BY <2>1, <2>2, <1>0
    <2>5. a.ordinal # 0
      BY <2>2
    <2> QED BY <1>3, <2>2, <2>3, <2>4, <2>5 DEF Follows
  <1> QED BY <1>1, <1>2, <1>3

LEMMA TellsStill ==
    ASSUME solves' = solves, NEW a, TellsOfItsEvidence(a)
    PROVE  TellsOfItsEvidence(a)'
  <1>1. ASSUME NEW p, NEW n PROVE Evaluations(p, n)' = Evaluations(p, n)
    BY DEF Evaluations
  <1>2. ASSUME NEW p, NEW n
        PROVE  ObservedRejection(Evaluations(p, n))' = ObservedRejection(Evaluations(p, n))
    BY DEF ObservedRejection, Observed, Evaluations
  <1> QED BY <1>2 DEF TellsOfItsEvidence

\* Evidence that was there before is of a rejection of this problem, and the same one.
LEMMA EvidenceTells ==
    ASSUME EvolutionInv, NEW a \in AttemptRecord, TakesNextPlace(a), TellsOfItsEvidence(a),
           NEW b, IsAttempt(b), b.evidence = a.evidence
    PROVE  a.suite = NoValue /\ b.problem = a.problem /\ Meaning(b) = Meaning(a)
  <1>0. revision \in Nat /\ a.revision = revision + 1 /\ b.revision \in 1 .. revision /\ b \in AttemptRecord
    BY DEF EvolutionInv, EngineTypes, TakesNextPlace, IsAttempt
  <1>1. CASE a.evidence = [kind |-> "trial", of |-> <<a.revision>>]
    <2>1. b.evidence.kind = "trial"
      BY <1>1
    <2>2. b.evidence = [kind |-> "trial", of |-> <<b.revision>>]
      <3>1. \A n : b.evidence # [kind |-> "rejection", of |-> <<b.problem, n>>]
        BY <2>1
      <3> QED BY <3>1, Zenon DEF IsAttempt, TellsOfItsEvidence
    <2>3. <<b.revision>> = <<a.revision>>
      BY <1>1, <2>2
    <2>4. b.revision = a.revision
      BY <2>3
    <2> QED BY <2>4, <1>0
  <1>2. CASE \E n \in 0 .. MaxProposals + 1 :
                /\ a.evidence = [kind |-> "rejection", of |-> <<a.problem, n>>]
                /\ a.suite = NoValue /\ a.status = "rejected"
                /\ a.backend = ObservedRejection(Evaluations(a.problem, n)).backend
                /\ a.candidate = ObservedRejection(Evaluations(a.problem, n)).candidate
    <2>1. PICK n \in 0 .. MaxProposals + 1 :
                /\ a.evidence = [kind |-> "rejection", of |-> <<a.problem, n>>]
                /\ a.suite = NoValue /\ a.status = "rejected"
                /\ a.backend = ObservedRejection(Evaluations(a.problem, n)).backend
                /\ a.candidate = ObservedRejection(Evaluations(a.problem, n)).candidate
      BY <1>2
    <2>2. b.evidence.kind = "rejection"
      BY <2>1
    <2>3. PICK m \in 0 .. MaxProposals + 1 :
                /\ b.evidence = [kind |-> "rejection", of |-> <<b.problem, m>>]
                /\ b.suite = NoValue /\ b.status = "rejected"
                /\ b.backend = ObservedRejection(Evaluations(b.problem, m)).backend
                /\ b.candidate = ObservedRejection(Evaluations(b.problem, m)).candidate
      BY <2>2 DEF IsAttempt, TellsOfItsEvidence
    <2>4. <<a.problem, n>> = <<b.problem, m>>
      BY <2>1, <2>3
    <2>5. a.problem = b.problem /\ n = m
      BY <2>4
    <2>6. /\ b.backend = a.backend /\ b.candidate = a.candidate /\ b.suite = a.suite
          /\ b.status = a.status
      BY <2>1, <2>3, <2>5
    <2>7. Meaning(b) = Meaning(a)
      BY <2>5, <2>6 DEF Meaning
    <2> QED BY <2>1, <2>5, <2>7
  <1> QED BY <1>1, <1>2 DEF TellsOfItsEvidence

\* An attempt is taken, or it repeats a rejection that the memory has.
LEMMA TakenOrKnown ==
    ASSUME EvolutionInv, NEW a \in AttemptRecord, TakesNextPlace(a), TellsOfItsEvidence(a)
    PROVE  /\ Recorded(memory, a) # Refused <=>
                 \/ \E b \in memory.attempts : b.evidence = a.evidence
                 \/ ~Repeated(a.problem)
           /\ (\E b \in memory.attempts : b.evidence = a.evidence) => Recorded(memory, a) = memory
           /\ ~(\E b \in memory.attempts : b.evidence = a.evidence) /\ ~Repeated(a.problem) =>
                 Recorded(memory, a) = [attempts |-> memory.attempts \cup {a}, failures |-> memory.failures]
  <1> DEFINE same == {b \in memory.attempts : b.evidence = a.evidence}
  <1>1. memory = [attempts |-> memory.attempts, failures |-> memory.failures]
    BY DEF EvolutionInv, MemoryTypes
  <1>2. /\ memory.attempts \subseteq AttemptRecord /\ memory.failures \subseteq FailureRecord
    BY AttemptsAreTyped DEF EvolutionInv, MemoryTypes
  <1>3. /\ memory # Refused
        /\ [attempts |-> memory.attempts \cup {a}, failures |-> memory.failures] # Refused
    <2>1. /\ memory \in [attempts : SUBSET AttemptRecord, failures : SUBSET FailureRecord]
          /\ [attempts |-> memory.attempts \cup {a}, failures |-> memory.failures]
                \in [attempts : SUBSET AttemptRecord, failures : SUBSET FailureRecord]
      BY <1>1, <1>2
    <2> QED BY <2>1, NoValueIsNothing DEF Refused
  <1>4. Follows(memory.attempts, a) <=> ~Repeated(a.problem)
    BY PlaceIsFree
  <1>5. \A b \in same : Meaning(b) = Meaning(a)
    BY AttemptsAreTyped, EvidenceTells
  <1>6. [memory EXCEPT !.attempts = @ \cup {a}]
           = [attempts |-> memory.attempts \cup {a}, failures |-> memory.failures]
    BY <1>1
  <1>7. CASE same # {}
    <2>1. Recorded(memory, a) = memory
      BY <1>5, <1>7 DEF Recorded
    <2> QED BY <2>1, <1>3, <1>7
  <1>8. CASE same = {}
    <2>1. Recorded(memory, a) = IF ~Repeated(a.problem)
                                THEN [attempts |-> memory.attempts \cup {a}, failures |-> memory.failures]
                                ELSE Refused
      BY <1>4, <1>6, <1>8 DEF Recorded
    <2> QED BY <2>1, <1>3, <1>8
  <1> QED BY <1>7, <1>8

\* What a call makes of a problem: an attempt in its place, with evidence of its own.
Fitting(a) == a \in AttemptRecord /\ TakesNextPlace(a) /\ TellsOfItsEvidence(a)

\* The memory after a call took the attempt, or knew it.
LEMMA WhatIsLearned ==
    ASSUME EvolutionInv, NEW a, Fitting(a), Learn(a)
    PROVE  /\ \/ /\ ~\E b \in memory.attempts : b.evidence = a.evidence
                 /\ ~Repeated(a.problem)
                 /\ memory' = [attempts |-> memory.attempts \cup {a}, failures |-> memory.failures]
              \/ (\E b \in memory.attempts : b.evidence = a.evidence) /\ memory' = memory
           /\ lineages' = [lineages EXCEPT ![a.problem] = [ordinal |-> a.ordinal, attempt |-> a.revision]]
           /\ emitted' = [attempts |-> Append(emitted.attempts, a), failures |-> emitted.failures]
  <1>1. emitted = [attempts |-> emitted.attempts, failures |-> emitted.failures]
    BY DEF EvolutionInv, MemoryTypes
  <1>2. emitted' = [attempts |-> Append(emitted.attempts, a), failures |-> emitted.failures]
    BY <1>1 DEF Learn
  <1>3. Recorded(memory, a) # Refused /\ memory' = Recorded(memory, a)
    BY DEF Learn
  <1>4. a \in AttemptRecord /\ TakesNextPlace(a) /\ TellsOfItsEvidence(a)
    BY DEF Fitting
  <1>5. \/ /\ ~\E b \in memory.attempts : b.evidence = a.evidence
           /\ ~Repeated(a.problem)
           /\ memory' = [attempts |-> memory.attempts \cup {a}, failures |-> memory.failures]
        \/ (\E b \in memory.attempts : b.evidence = a.evidence) /\ memory' = memory
    BY <1>3, <1>4, TakenOrKnown
  <1> QED BY <1>2, <1>5 DEF Learn

RepeatedIn(list, p) ==
    \E i, j \in DOMAIN list :
        i < j /\ list[i].problem = p /\ list[i].evidence = list[j].evidence

\* A problem's rejection has now been repeated if it had, or if this was the repetition.
LEMMA RepeatedAfter ==
    ASSUME EvolutionInv, NEW a, emitted' = [attempts |-> Append(emitted.attempts, a),
                                            failures |-> emitted.failures],
           NEW p \in Problem
    PROVE  Repeated(p)' <=> \/ Repeated(p)
                            \/ \E b \in Range(emitted.attempts) : b.problem = p /\ b.evidence = a.evidence
  <1> DEFINE s == emitted.attempts
             n == Append(s, a)
  <1>1. s \in Seq(Range(s))
    BY DEF EvolutionInv, MemoryTypes
  <1>2. /\ DOMAIN s = 1 .. Len(s) /\ DOMAIN n = 1 .. Len(s) + 1 /\ Len(s) \in Nat
        /\ n[Len(s) + 1] = a /\ \A i \in 1 .. Len(s) : n[i] = s[i]
    BY <1>1, ListGrows
  <1>3. emitted'.attempts = n
    OBVIOUS
  <1> HIDE DEF n
  <1>4. Repeated(p)' <=> RepeatedIn(n, p)
    <2>1. Repeated(p)' <=> RepeatedIn(emitted'.attempts, p)
      BY DEF Repeated, RepeatedIn
    <2> QED BY <2>1, <1>3
  <1>5. Repeated(p) <=> RepeatedIn(s, p)
    BY DEF Repeated, RepeatedIn
  <1>6. Range(s) = {s[i] : i \in 1 .. Len(s)}
    BY <1>2 DEF Range
  <1> HIDE DEF s
  <1>7. ASSUME NEW i \in DOMAIN n, NEW j \in DOMAIN n, i < j, n[i].problem = p, n[i].evidence = n[j].evidence
        PROVE  \/ Repeated(p)
               \/ \E b \in Range(s) : b.problem = p /\ b.evidence = a.evidence
    <2>1. i \in 1 .. Len(s) /\ n[i] = s[i]
      BY <1>2, <1>7
    <2>2. CASE j = Len(s) + 1
      BY <2>1, <2>2, <1>2, <1>6, <1>7
    <2>3. CASE j # Len(s) + 1
      <3>1. j \in 1 .. Len(s) /\ n[j] = s[j]
        BY <2>3, <1>2
      <3> QED BY <3>1, <2>1, <1>2, <1>5, <1>7 DEF RepeatedIn
    <2> QED BY <2>2, <2>3
  <1>8. ASSUME NEW i \in DOMAIN s, NEW j \in DOMAIN s, i < j, s[i].problem = p, s[i].evidence = s[j].evidence
        PROVE  Repeated(p)'
    <2>1. i \in DOMAIN n /\ j \in DOMAIN n /\ n[i] = s[i] /\ n[j] = s[j]
      BY <1>2
    <2> QED BY <2>1, <1>4, <1>8 DEF RepeatedIn
  <1>9. ASSUME NEW b \in Range(s), b.problem = p, b.evidence = a.evidence
        PROVE  Repeated(p)'
    <2>1. PICK i \in 1 .. Len(s) : s[i] = b
      BY <1>6
    <2>2. i \in DOMAIN n /\ Len(s) + 1 \in DOMAIN n /\ i < Len(s) + 1 /\ n[i] = b
      BY <2>1, <1>2
    <2> QED BY <2>2, <1>2, <1>4, <1>9 DEF RepeatedIn
  <1> QED BY <1>4, <1>5, <1>7, <1>8, <1>9 DEF s, RepeatedIn

LEMMA LearnedTypes ==
    ASSUME EvolutionInv, NEW a, Fitting(a), Learn(a), solves' = solves, revision' = revision + 1
    PROVE  MemoryTypes'
  <1> DEFINE s == emitted.attempts
  <1>0. revision \in Nat
    BY DEF EvolutionInv, EngineTypes
  <1>1. /\ s \in Seq(Range(s)) /\ \A b \in Range(s) : IsAttempt(b)
        /\ memory = [attempts |-> memory.attempts, failures |-> memory.failures]
        /\ memory.attempts \subseteq Range(s) /\ IsFiniteSet(memory.attempts)
        /\ memory.failures \subseteq FailureRecord
        /\ \A f \in memory.failures : f.revision \in 1 .. revision
    BY DEF EvolutionInv, MemoryTypes
  <1>2. emitted' = [attempts |-> Append(s, a), failures |-> emitted.failures]
    BY WhatIsLearned
  <1>3. Range(Append(s, a)) = Range(s) \cup {a} /\ Append(s, a) \in Seq(Range(Append(s, a)))
    BY <1>1, ListGrows
  <1>4. emitted'.attempts = Append(s, a)
    BY <1>2
  <1>5. \A b : IsAttempt(b) => IsAttempt(b)'
    <2> SUFFICES ASSUME NEW b, IsAttempt(b) PROVE IsAttempt(b)'
      OBVIOUS
    <2>1. TellsOfItsEvidence(b)'
      BY TellsStill DEF IsAttempt
    <2>2. b.revision \in 1 .. revision'
      BY <1>0 DEF IsAttempt
    <2> QED BY <2>1, <2>2 DEF IsAttempt
  <1>6. IsAttempt(a)'
    <2>1. TellsOfItsEvidence(a)'
      BY TellsStill DEF Fitting
    <2>2. a.revision \in 1 .. revision'
      BY <1>0 DEF Fitting, TakesNextPlace
    <2> QED BY <2>1, <2>2 DEF IsAttempt, Fitting
  <1>7. \A b \in Range(emitted'.attempts) : IsAttempt(b)'
    BY <1>1, <1>3, <1>4, <1>5, <1>6
  <1>8. /\ memory' = [attempts |-> memory'.attempts, failures |-> memory'.failures]
        /\ memory'.attempts \subseteq Range(emitted'.attempts) /\ IsFiniteSet(memory'.attempts)
        /\ memory'.failures = memory.failures
    <2>1. CASE memory' = memory
      BY <2>1, <1>1, <1>3, <1>4
    <2>2. CASE memory' = [attempts |-> memory.attempts \cup {a}, failures |-> memory.failures]
      <3>1. IsFiniteSet(memory.attempts \cup {a})
        BY <1>1, FS_AddElement
      <3> QED BY <3>1, <2>2, <1>1, <1>3, <1>4
    <2> QED BY <2>1, <2>2, WhatIsLearned
  <1>9. \A f \in memory'.failures : f.revision \in 1 .. revision'
    BY <1>0, <1>1, <1>8
  <1> QED BY <1>1, <1>2, <1>3, <1>4, <1>7, <1>8, <1>9 DEF MemoryTypes

LEMMA LearnedOnce ==
    ASSUME EvolutionInv, NEW a, Fitting(a), Learn(a)
    PROVE  EvidenceCountsOnce'
  <1>1. EvidenceCountsOnce
    BY DEF EvolutionInv
  <1>2. CASE memory' = memory
    BY <1>1, <1>2 DEF EvidenceCountsOnce
  <1>3. CASE /\ ~\E b \in memory.attempts : b.evidence = a.evidence
             /\ memory' = [attempts |-> memory.attempts \cup {a}, failures |-> memory.failures]
    <2>1. memory'.attempts = memory.attempts \cup {a} /\ memory'.failures = memory.failures
      BY <1>3
    <2>2. \A b, d \in memory.attempts \cup {a} : b.evidence = d.evidence => b = d
      BY <1>1, <1>3 DEF EvidenceCountsOnce
    <2> QED BY <1>1, <2>1, <2>2 DEF EvidenceCountsOnce
  <1> QED BY <1>2, <1>3, WhatIsLearned

\* The lineage now ends at the attempt, which the memory took, or did not take again.
LEMMA LearnedLineages ==
    ASSUME EvolutionInv, NEW a, Fitting(a), Learn(a), revision' = revision + 1
    PROVE  /\ lineages' \in [Problem -> {NoValue} \cup [ordinal : Nat, attempt : 1 .. revision']]
           /\ LineagesEndInMemory'
  <1> DEFINE q == a.problem
  <1>0. /\ q \in Problem /\ revision \in Nat /\ a.revision = revision + 1 /\ a.ordinal \in Nat
        /\ a \in AttemptRecord
    BY DEF Fitting, TakesNextPlace, EvolutionInv, EngineTypes, AttemptRecord
  <1>1. lineages \in [Problem -> {NoValue} \cup [ordinal : Nat, attempt : 1 .. revision]]
    BY DEF EvolutionInv, EngineTypes
  <1>2. /\ lineages' = [lineages EXCEPT ![q] = [ordinal |-> a.ordinal, attempt |-> a.revision]]
        /\ emitted'.attempts = Append(emitted.attempts, a)
    BY WhatIsLearned
  <1>3. /\ lineages'[q] = [ordinal |-> a.ordinal, attempt |-> a.revision] /\ lineages'[q] # NoValue
        /\ lineages'[q].ordinal = a.ordinal /\ lineages'[q].attempt = revision + 1
        /\ \A p \in Problem : p # q => lineages'[p] = lineages[p]
    <2>1. [ordinal |-> a.ordinal, attempt |-> a.revision] \in [ordinal : Nat, attempt : Nat]
      BY <1>0
    <2>2. lineages'[q] = [ordinal |-> a.ordinal, attempt |-> a.revision]
      BY <1>0, <1>1, <1>2
    <2>3. \A p \in Problem : p # q => lineages'[p] = lineages[p]
      BY <1>1, <1>2
    <2> QED BY <1>0, <2>1, <2>2, <2>3, NoValueIsNothing
  <1>4. lineages' \in [Problem -> {NoValue} \cup [ordinal : Nat, attempt : 1 .. revision']]
    <2> DEFINE T == {NoValue} \cup [ordinal : Nat, attempt : 1 .. revision']
    <2>1. {NoValue} \cup [ordinal : Nat, attempt : 1 .. revision] \subseteq T
      BY <1>0
    <2>2. [ordinal |-> a.ordinal, attempt |-> a.revision] \in T
      BY <1>0
    <2> HIDE DEF T
    <2>3. lineages \in [Problem -> T]
      BY <1>1, <2>1
    <2>4. lineages' \in [Problem -> T]
      BY <1>0, <1>2, <2>2, <2>3
    <2> QED BY <2>4 DEF T
  <1>5. Range(emitted'.attempts) = Range(emitted.attempts) \cup {a}
    BY <1>2, ListGrows DEF EvolutionInv, MemoryTypes
  <1>6. \A p \in Problem : Repeated(p)' <=>
            \/ Repeated(p)
            \/ \E b \in Range(emitted.attempts) : b.problem = p /\ b.evidence = a.evidence
    BY WhatIsLearned, RepeatedAfter
  <1>7. \A b \in Range(emitted.attempts) : b.evidence = a.evidence => b.problem = q
    BY EvidenceTells DEF EvolutionInv, MemoryTypes, Fitting
  <1>8. \/ /\ ~\E b \in memory.attempts : b.evidence = a.evidence
           /\ ~Repeated(q)
           /\ memory'.attempts = memory.attempts \cup {a}
        \/ (\E b \in memory.attempts : b.evidence = a.evidence) /\ memory'.attempts = memory.attempts
    <2>1. CASE memory' = [attempts |-> memory.attempts \cup {a}, failures |-> memory.failures]
               /\ ~(\E b \in memory.attempts : b.evidence = a.evidence) /\ ~Repeated(q)
      <3>1. memory'.attempts = memory.attempts \cup {a}
        BY <2>1
      <3> QED BY <3>1, <2>1
    <2>2. CASE (\E b \in memory.attempts : b.evidence = a.evidence) /\ memory' = memory
      <3>1. memory'.attempts = memory.attempts
        BY <2>2
      <3> QED BY <3>1, <2>2
    <2> QED BY <2>1, <2>2, WhatIsLearned
  <1>9. ASSUME NEW p \in Problem, p # q
        PROVE  /\ Repeated(p)' =>
                     /\ lineages'[p] # NoValue
                     /\ \A b \in memory'.attempts : b.problem = p => b.revision # lineages'[p].attempt
               /\ ~Repeated(p)' =>
                     /\ \A b \in Range(emitted'.attempts) : b.problem = p => b \in memory'.attempts
                     /\ lineages'[p] = NoValue => \A b \in memory'.attempts : b.problem # p
                     /\ lineages'[p] # NoValue =>
                           /\ \E b \in memory'.attempts : /\ b.problem = p /\ b.revision = lineages'[p].attempt
                                                          /\ b.ordinal = lineages'[p].ordinal
                           /\ \A b \in memory'.attempts : b.problem = p => b.ordinal <= lineages'[p].ordinal
    <2>1. (Repeated(p)' <=> Repeated(p)) /\ lineages'[p] = lineages[p]
      BY <1>3, <1>6, <1>7, <1>9
    <2>2. /\ \A b \in memory'.attempts : b.problem = p => b \in memory.attempts
          /\ memory.attempts \subseteq memory'.attempts
          /\ \A b \in Range(emitted'.attempts) : b.problem = p => b \in Range(emitted.attempts)
      BY <1>5, <1>8, <1>9
    <2> QED BY <2>1, <2>2 DEF EvolutionInv, LineagesEndInMemory
  <1>10. CASE \E b \in memory.attempts : b.evidence = a.evidence
    <2>1. Repeated(q)'
      BY <1>0, <1>6, <1>7, <1>10, AttemptsAreTyped
    <2>2. memory'.attempts = memory.attempts
      BY <1>8, <1>10
    <2>3. \A b \in memory'.attempts : b.revision # lineages'[q].attempt
      BY <1>0, <1>3, <2>2, AttemptsAreTyped
    <2>4. LineagesEndInMemory'
      BY <2>1, <2>3, <1>3, <1>9 DEF LineagesEndInMemory
    <2> QED BY <2>4, <1>4
  <1>11. CASE ~\E b \in memory.attempts : b.evidence = a.evidence
    <2>1. ~Repeated(q) /\ memory'.attempts = memory.attempts \cup {a}
      BY <1>8, <1>11
    <2>2. \A b \in Range(emitted.attempts) : b.problem = q => b \in memory.attempts
      BY <1>0, <2>1 DEF EvolutionInv, LineagesEndInMemory
    <2>3. ~Repeated(q)'
      BY <1>0, <1>6, <1>11, <2>1, <2>2
    <2>4. \A b \in Range(emitted'.attempts) : b.problem = q => b \in memory'.attempts
      BY <1>5, <2>1, <2>2
    <2>5. \E b \in memory'.attempts : /\ b.problem = q /\ b.revision = lineages'[q].attempt
                                      /\ b.ordinal = lineages'[q].ordinal
      BY <1>0, <1>3, <2>1
    <2>6. \A b \in memory.attempts : b.problem = q => b.ordinal <= a.ordinal
      <3>1. CASE lineages[q] = NoValue
        BY <1>0, <2>1, <3>1 DEF EvolutionInv, LineagesEndInMemory
      <3>2. CASE lineages[q] # NoValue
        <4>1. \A b \in memory.attempts : b.problem = q => b.ordinal <= lineages[q].ordinal
          BY <1>0, <2>1, <3>2 DEF EvolutionInv, LineagesEndInMemory
        <4>2. a.ordinal = lineages[q].ordinal + 1 /\ lineages[q].ordinal \in Nat
          BY <1>0, <3>2, PlacesAreTyped DEF Fitting, TakesNextPlace
        <4> QED BY <4>1, <4>2, AttemptsAreTyped
      <3> QED BY <3>1, <3>2
    <2>7. \A b \in memory'.attempts : b.problem = q => b.ordinal <= lineages'[q].ordinal
      BY <1>0, <1>3, <2>1, <2>6
    <2>8. LineagesEndInMemory'
      BY <2>3, <2>4, <2>5, <2>7, <1>3, <1>9 DEF LineagesEndInMemory
    <2> QED BY <2>8, <1>4
  <1> QED BY <1>10, <1>11

\* The attempt continues the chain of its problem.
LEMMA LearnedChains ==
    ASSUME EvolutionInv, NEW a, Fitting(a), Learn(a)
    PROVE  LineagesAreChains'
  <1> DEFINE q == a.problem
             ChainIn(S, p) == {b \in S : b.problem = p}
             IsChain(C) == /\ {b.ordinal : b \in C} = 0 .. Cardinality(C) - 1
                           /\ \A b, d \in C : b.ordinal < d.ordinal => b.revision < d.revision
  <1>0. q \in Problem /\ revision \in Nat /\ a.revision = revision + 1
    BY DEF Fitting, TakesNextPlace, EvolutionInv, EngineTypes
  <1>1. \A p \in Problem : IsChain(ChainIn(memory.attempts, p))
    BY DEF EvolutionInv, LineagesAreChains
  <1>2. SUFFICES \A p \in Problem : IsChain(ChainIn(memory'.attempts, p))
    BY DEF LineagesAreChains
  <1>3. CASE memory' = memory
    BY <1>1, <1>3
  <1>4. CASE /\ ~\E b \in memory.attempts : b.evidence = a.evidence
             /\ ~Repeated(q)
             /\ memory' = [attempts |-> memory.attempts \cup {a}, failures |-> memory.failures]
    <2>1. memory'.attempts = memory.attempts \cup {a}
      BY <1>4
    <2>2. ASSUME NEW p \in Problem, p # q
          PROVE  IsChain(ChainIn(memory'.attempts, p))
      <3>1. ChainIn(memory'.attempts, p) = ChainIn(memory.attempts, p)
        BY <2>1, <2>2
      <3> QED BY <3>1, <1>1
    <2> DEFINE C == ChainIn(memory.attempts, q)
               n == Cardinality(C)
    <2>3. IsFiniteSet(C) /\ n \in Nat /\ a \notin C
      <3>1. IsFiniteSet(memory.attempts) /\ C \subseteq memory.attempts
        BY DEF EvolutionInv, MemoryTypes
      <3>2. IsFiniteSet(C)
        BY <3>1, FS_Subset
      <3>3. a \notin C
        BY <1>4
      <3> QED BY <3>2, <3>3, FS_CardinalityType
    <2>4. ChainIn(memory'.attempts, q) = C \cup {a}
      BY <2>1
    <2>5. {b.ordinal : b \in C} = 0 .. n - 1 /\ \A b, d \in C : b.ordinal < d.ordinal => b.revision < d.revision
      BY <1>0, <1>1
    <2>6. \A b \in C : b.ordinal \in Nat /\ b.revision \in 1 .. revision
      BY AttemptsAreTyped
    <2>7. a.ordinal = n
      <3>1. Follows(memory.attempts, a)
        BY <1>4, PlaceIsFree DEF Fitting
      <3>2. a.ordinal \in Nat /\ a.ordinal \notin {b.ordinal : b \in C}
        BY <3>1 DEF Follows, Fitting, AttemptRecord
      <3>3. a.ordinal = 0 \/ \E b \in C : b.ordinal + 1 = a.ordinal
        BY <3>1 DEF Follows
      <3>4. CASE a.ordinal = 0
        <4>1. 0 \notin 0 .. n - 1
          BY <2>5, <3>2, <3>4
        <4> HIDE DEF n, C
        <4> QED BY <4>1, <3>4, <2>3
      <3>5. CASE \E b \in C : b.ordinal + 1 = a.ordinal
        <4>1. PICK b \in C : b.ordinal + 1 = a.ordinal
          BY <3>5
        <4>2. b.ordinal \in 0 .. n - 1
          BY <2>5
        <4>3. a.ordinal \notin 0 .. n - 1
          BY <2>5, <3>2
        <4> HIDE DEF n, C
        <4> QED BY <4>1, <4>2, <4>3, <2>3, <3>2
      <3> QED BY <3>3, <3>4, <3>5
    <2>8. Cardinality(C \cup {a}) = n + 1
      BY <2>3, FS_AddElement
    <2>9. {b.ordinal : b \in C \cup {a}} = 0 .. n
      <3>1. {b.ordinal : b \in C \cup {a}} = {b.ordinal : b \in C} \cup {n}
        BY <2>7
      <3> HIDE DEF n, C
      <3>2. (0 .. n - 1) \cup {n} = 0 .. n
        BY <2>3
      <3> QED BY <3>1, <3>2, <2>5
    <2>10. \A b, d \in C \cup {a} : b.ordinal < d.ordinal => b.revision < d.revision
      <3>1. \A b \in C : b.ordinal < n /\ b.revision < a.revision
        <4>1. \A b \in C : b.ordinal \in 0 .. n - 1
          BY <2>5
        <4> HIDE DEF n, C
        <4> QED BY <4>1, <1>0, <2>3, <2>6
      <3> HIDE DEF n, C
      <3> QED BY <3>1, <1>0, <2>3, <2>5, <2>6, <2>7
    <2>11. IsChain(C \cup {a})
      <3>1. Cardinality(C \cup {a}) - 1 = n
        <4> HIDE DEF n, C
        <4> QED BY <2>3, <2>8
      <3>2. {b.ordinal : b \in C \cup {a}} = 0 .. Cardinality(C \cup {a}) - 1
        BY <2>9, <3>1
      <3> HIDE DEF C
      <3> QED BY <3>2, <2>10
    <2> HIDE DEF IsChain, ChainIn
    <2> QED BY <2>2, <2>4, <2>11 DEF C
  <1> QED BY <1>3, <1>4, WhatIsLearned

-----------------------------------------------------------------------------
(* Evolution: the calls. *)

LEMMA AttemptsStay ==
    ASSUME solves' = solves, revision \in Nat, revision' \in Nat, revision <= revision',
           NEW b, IsAttempt(b)
    PROVE  IsAttempt(b)'
  <1>1. TellsOfItsEvidence(b)'
    BY TellsStill DEF IsAttempt
  <1>2. b.revision \in 1 .. revision'
    BY DEF IsAttempt
  <1> QED BY <1>1, <1>2 DEF IsAttempt

\* The incumbent does not change while there are reports about it.
LEMMA IncumbentStays ==
    ASSUME EvolutionInv, NEW baseline \in BaselineCheckpoint,
           incumbent \in {NoValue, baseline}, incumbent' = baseline
    PROVE  \A r \in Range(research) : r.baseline = incumbent' /\ r.candidate # incumbent'
  <1> SUFFICES ASSUME NEW r \in Range(research) PROVE r.baseline = incumbent' /\ r.candidate # incumbent'
    OBVIOUS
  <1>1. r.baseline = incumbent /\ r.candidate # incumbent
    BY DEF EvolutionInv, TrajectoryIsRemembered
  <1>2. r.baseline \in BaselineCheckpoint
    <2> DEFINE R == [baseline : BaselineCheckpoint, candidate : Checkpoint, suite : Suite,
                     revision : 1 .. revision]
    <2>1. research \in Seq(R)
      BY DEF EvolutionInv, EngineTypes
    <2>2. \A x \in R : x.baseline \in BaselineCheckpoint
      OBVIOUS
    <2> HIDE DEF R
    <2>3. PICK i \in 1 .. Len(research) : r = research[i]
      BY <2>1 DEF Range
    <2>4. r \in R
      BY <2>1, <2>3
    <2> QED BY <2>2, <2>4
  <1>3. incumbent # NoValue
    BY <1>1, <1>2, NoValueIsNothing, EvolutionAssumption
  <1> QED BY <1>1, <1>3

LEMMA ReportsStay ==
    ASSUME EvolutionInv, revision' \in Nat, revision <= revision', research' = research
    PROVE  research' \in Seq([baseline : BaselineCheckpoint, candidate : Checkpoint, suite : Suite,
                              revision : 1 .. revision'])
  <1> DEFINE R(n) == [baseline : BaselineCheckpoint, candidate : Checkpoint, suite : Suite,
                      revision : 1 .. n]
  <1>1. research \in Seq(R(revision)) /\ revision \in Nat
    BY DEF EvolutionInv, EngineTypes
  <1>2. R(revision) \subseteq R(revision')
    BY <1>1
  <1> HIDE DEF R
  <1>3. \A i \in 1 .. Len(research) : research[i] \in R(revision')
    BY <1>1, <1>2
  <1>4. research \in Seq(R(revision'))
    BY <1>1, <1>3, ListOf
  <1> QED BY <1>4 DEF R

\* A call that learns nothing: at most a revision is used up, and a failed run noted.
LEMMA NothingLearned ==
    ASSUME EvolutionInv, NEW baseline \in BaselineCheckpoint,
           incumbent \in {NoValue, baseline}, incumbent' = baseline,
           solves' = solves, research' = research, lineages' = lineages,
           revision' \in 0 .. MaxRevision, revision <= revision',
           memory' = [attempts |-> memory.attempts, failures |-> memory'.failures],
           emitted' = [attempts |-> emitted.attempts, failures |-> emitted'.failures],
           memory'.failures \subseteq FailureRecord,
           \A f \in memory'.failures : f.revision \in 1 .. revision',
           \A f, g \in memory'.failures : f.run = g.run => f = g
    PROVE  EvolutionInv'
  <1>0. revision \in Nat /\ revision' \in Nat
    BY EvolutionAssumption DEF EvolutionInv, EngineTypes
  <1>1. memory'.attempts = memory.attempts /\ emitted'.attempts = emitted.attempts
    <2>1. \A x, y : [attempts |-> x, failures |-> y].attempts = x
      OBVIOUS
    <2> QED BY <2>1
  <1>2. EngineTypes'
    <2>1. lineages' \in [Problem -> {NoValue} \cup [ordinal : Nat, attempt : 1 .. revision']]
      <3> DEFINE T(n) == {NoValue} \cup [ordinal : Nat, attempt : 1 .. n]
      <3>1. lineages \in [Problem -> T(revision)]
        BY DEF EvolutionInv, EngineTypes
      <3>2. T(revision) \subseteq T(revision')
        BY <1>0
      <3> HIDE DEF T
      <3>3. lineages' \in [Problem -> T(revision')]
        BY <3>1, <3>2
      <3> QED BY <3>3 DEF T
    <2>2. \A p \in Problem : solves'[p] \in Workload[p]
      BY DEF EvolutionInv, EngineTypes
    <2> QED BY <1>0, <2>1, <2>2, ReportsStay DEF EngineTypes
  <1>3. MemoryTypes'
    <2>1. \A b \in Range(emitted'.attempts) : IsAttempt(b)'
      BY <1>0, <1>1, AttemptsStay DEF EvolutionInv, MemoryTypes
    <2>2. /\ emitted'.attempts \in Seq(Range(emitted'.attempts))
          /\ memory'.attempts \subseteq Range(emitted'.attempts) /\ IsFiniteSet(memory'.attempts)
      BY <1>1 DEF EvolutionInv, MemoryTypes
    <2> QED BY <1>1, <2>1, <2>2 DEF MemoryTypes
  <1>4. EvidenceCountsOnce'
    BY <1>1 DEF EvolutionInv, EvidenceCountsOnce
  <1>5. LineagesAreChains'
    BY <1>1 DEF EvolutionInv, LineagesAreChains
  <1>6. TrajectoryIsRemembered'
    BY <1>1, IncumbentStays DEF EvolutionInv, TrajectoryIsRemembered
  <1>7. TrajectoryIsOne'
    BY DEF EvolutionInv, TrajectoryIsOne
  <1>8. LineagesEndInMemory'
    <2>1. \A p \in Problem : Repeated(p)' <=> Repeated(p)
      <3> SUFFICES ASSUME NEW p \in Problem PROVE Repeated(p)' <=> Repeated(p)
        OBVIOUS
      <3>1. Repeated(p)' <=> RepeatedIn(emitted'.attempts, p)
        BY DEF Repeated, RepeatedIn
      <3>2. Repeated(p) <=> RepeatedIn(emitted.attempts, p)
        BY DEF Repeated, RepeatedIn
      <3> QED BY <1>1, <3>1, <3>2
    <2>2. LineagesEndInMemory
      BY DEF EvolutionInv
    <2> QED BY <1>1, <2>1, <2>2 DEF LineagesEndInMemory
  <1> QED BY <1>2, <1>3, <1>4, <1>5, <1>6, <1>7, <1>8 DEF EvolutionInv

\* An attempt as the engine makes it.
LEMMA AttemptFits ==
    ASSUME EvolutionInv, NEW p \in Problem, NEW e \in CandidateEvaluation, e.candidate \in Checkpoint,
           NEW named, NEW suite \in Suite \cup {NoValue},
           NEW status \in {"validated", "rejected", "inconclusive"},
           named \in [kind : {"rejection"}, of : Problem \X Nat] \cup [kind : {"trial"}, of : Seq(Nat)]
    PROVE  LET a == Attempt(p, e, named, suite, status)
           IN /\ a \in AttemptRecord /\ TakesNextPlace(a)
              /\ a.problem = p /\ a.backend = e.backend /\ a.candidate = e.candidate
              /\ a.evidence = named /\ a.suite = suite /\ a.status = status
              /\ a.revision = revision + 1
  <1> DEFINE a == Attempt(p, e, named, suite, status)
             place == IF lineages[p] = NoValue THEN 0 ELSE lineages[p].ordinal + 1
             before == IF lineages[p] = NoValue THEN NoValue ELSE lineages[p].attempt
  <1>1. place \in Nat /\ before \in Nat \cup {NoValue} /\ revision + 1 \in Nat
    BY PlacesAreTyped DEF EvolutionInv, EngineTypes
  <1>2. a = [problem |-> p, backend |-> e.backend, candidate |-> e.candidate, evidence |-> named,
             suite |-> suite, status |-> status, revision |-> revision + 1,
             ordinal |-> place, parent |-> before]
    BY DEF Attempt
  <1>3. /\ a.problem = p /\ a.ordinal = place /\ a.parent = before /\ a.revision = revision + 1
        /\ a.backend = e.backend /\ a.candidate = e.candidate
        /\ a.evidence = named /\ a.suite = suite /\ a.status = status
    BY <1>2
  <1>4. TakesNextPlace(a)
    BY <1>3 DEF TakesNextPlace
  <1>5. e.backend \in Backends
    BY DEF CandidateEvaluation
  <1> HIDE DEF place, before
  <1>6. a \in AttemptRecord
    BY <1>1, <1>2, <1>5 DEF AttemptRecord
  <1> QED BY <1>3, <1>4, <1>6

LEMMA RejectionFits ==
    ASSUME EvolutionInv, NEW p \in Problem, NEW n \in 0 .. MaxProposals + 1,
           Observed(Evaluations(p, n)) # {}
    PROVE  /\ Fitting(Rejection(p, n)) /\ Rejection(p, n).suite = NoValue
           /\ Rejection(p, n).problem = p
  <1> DEFINE e == ObservedRejection(Evaluations(p, n))
             named == [kind |-> "rejection", of |-> <<p, n>>]
             a == Rejection(p, n)
  <1>1. EngineTypes /\ MaxProposals \in Nat
    BY EvolutionAssumption DEF EvolutionInv
  <1>2. e \in Observed(Evaluations(p, n))
    BY <1>1, SomeRejectionSpeaks
  <1>3. e \in CandidateEvaluation /\ e.candidate \in Checkpoint
    BY <1>1, <1>2, ReportsAreTyped DEF Observed
  <1>4. named \in [kind : {"rejection"}, of : Problem \X Nat] \cup [kind : {"trial"}, of : Seq(Nat)]
    BY <1>1
  <1>5. a = Attempt(p, e, named, NoValue, "rejected")
    BY DEF Rejection
  <1> HIDE DEF e, named, a
  <1>6. /\ a \in AttemptRecord /\ TakesNextPlace(a)
        /\ a.problem = p /\ a.backend = e.backend /\ a.candidate = e.candidate
        /\ a.evidence = named /\ a.suite = NoValue /\ a.status = "rejected"
    BY <1>3, <1>4, <1>5, AttemptFits
  <1>7. TellsOfItsEvidence(a)
    BY <1>6 DEF TellsOfItsEvidence, e, named
  <1> QED BY <1>6, <1>7 DEF Fitting, a

LEMMA TrialFits ==
    ASSUME EvolutionInv, NEW p \in Problem, NEW n \in 0 .. MaxProposals + 1,
           NEW e \in Accepted(Evaluations(p, n)), NEW suite \in Suite,
           NEW verdict \in {"advance", "reject", "unknown"}
    PROVE  LET a == Trial(p, e, suite, verdict)
           IN /\ Fitting(a) /\ a.suite = suite /\ a.candidate = e.candidate
              /\ a.problem = p /\ a.revision = revision + 1
  <1> DEFINE named == [kind |-> "trial", of |-> <<revision + 1>>]
             status == StatusOf(verdict, e.backend)
             a == Trial(p, e, suite, verdict)
  <1>1. EngineTypes /\ revision \in Nat
    BY DEF EvolutionInv, EngineTypes
  <1>2. e \in CandidateEvaluation /\ e.candidate \in Checkpoint
    BY <1>1, ReportsAreTyped DEF Accepted
  <1>3. status \in {"validated", "rejected", "inconclusive"}
    BY DEF StatusOf
  <1>4. named \in [kind : {"rejection"}, of : Problem \X Nat] \cup [kind : {"trial"}, of : Seq(Nat)]
    <2>1. <<revision + 1>> \in Seq(Nat)
      BY <1>1
    <2> QED BY <2>1
  <1>5. a = Attempt(p, e, named, suite, status)
    BY DEF Trial
  <1>6. suite \in Suite \cup {NoValue}
    OBVIOUS
  <1> HIDE DEF named, status, a
  <1>7. /\ a \in AttemptRecord /\ TakesNextPlace(a)
        /\ a.problem = p /\ a.backend = e.backend /\ a.candidate = e.candidate
        /\ a.evidence = named /\ a.suite = suite /\ a.revision = revision + 1
    BY <1>2, <1>3, <1>4, <1>5, <1>6, AttemptFits
  <1>8. TellsOfItsEvidence(a)
    BY <1>7 DEF TellsOfItsEvidence, named
  <1> QED BY <1>7, <1>8 DEF Fitting, a

\* What an attempt brings to the memory, beside the trajectory.
LEMMA LearnKeeps ==
    ASSUME EvolutionInv, NEW baseline \in BaselineCheckpoint, Begin(baseline), NEW a, Fitting(a), Learn(a)
    PROVE  /\ MemoryTypes' /\ EvidenceCountsOnce' /\ LineagesAreChains' /\ LineagesEndInMemory'
           /\ \A p \in Problem : solves'[p] \in Workload[p]
           /\ incumbent' \in BaselineCheckpoint \cup {NoValue}
           /\ revision \in Nat /\ revision' = revision + 1 /\ revision' \in 0 .. MaxRevision
           /\ lineages' \in [Problem -> {NoValue} \cup [ordinal : Nat, attempt : 1 .. revision']]
  <1>1. revision' = revision + 1 /\ solves' = solves /\ incumbent' = baseline /\ revision < MaxRevision
    BY DEF Begin
  <1>2. revision \in Nat /\ revision' \in 0 .. MaxRevision
    BY <1>1, EvolutionAssumption DEF EvolutionInv, EngineTypes
  <1>3. \A p \in Problem : solves'[p] \in Workload[p]
    BY <1>1 DEF EvolutionInv, EngineTypes
  <1> QED BY <1>1, <1>2, <1>3, LearnedTypes, LearnedOnce, LearnedChains, LearnedLineages

LEMMA RejectionStep ==
    ASSUME EvolutionInv, NEW baseline \in BaselineCheckpoint, NEW p \in Problem,
           NEW n \in 0 .. MaxProposals + 1, EvolveRejected(p, n, baseline)
    PROVE  EvolutionInv'
  <1> DEFINE a == Rejection(p, n)
  <1>1. /\ Begin(baseline) /\ Learn(a) /\ research' = research /\ Observed(Evaluations(p, n)) # {}
    BY DEF EvolveRejected
  <1>2. Fitting(a) /\ a.suite = NoValue
    BY <1>1, RejectionFits
  <1> HIDE DEF a
  <1>3. incumbent \in {NoValue, baseline} /\ incumbent' = baseline
    BY <1>1 DEF Begin
  <1>4. /\ MemoryTypes' /\ EvidenceCountsOnce' /\ LineagesAreChains' /\ LineagesEndInMemory'
        /\ EngineTypes'
    <2>1. revision' \in Nat /\ revision <= revision'
      BY <1>1, <1>2, LearnKeeps
    <2>2. research' \in Seq([baseline : BaselineCheckpoint, candidate : Checkpoint, suite : Suite,
                             revision : 1 .. revision'])
      BY <1>1, <2>1, ReportsStay
    <2> QED BY <1>1, <1>2, <2>2, LearnKeeps DEF EngineTypes
  <1>5. {b \in memory'.attempts : b.suite # NoValue} = {b \in memory.attempts : b.suite # NoValue}
    <2>1. memory'.attempts = memory.attempts \/ memory'.attempts = memory.attempts \cup {a}
      <3>1. memory' = memory => memory'.attempts = memory.attempts
        OBVIOUS
      <3>2. memory' = [attempts |-> memory.attempts \cup {a}, failures |-> memory.failures] =>
               memory'.attempts = memory.attempts \cup {a}
        OBVIOUS
      <3>3. \/ memory' = memory
            \/ memory' = [attempts |-> memory.attempts \cup {a}, failures |-> memory.failures]
        BY <1>1, <1>2, WhatIsLearned
      <3> QED BY <3>1, <3>2, <3>3
    <2> QED BY <2>1, <1>2
  <1>6. TrajectoryIsRemembered'
    BY <1>1, <1>3, <1>5, IncumbentStays DEF EvolutionInv, TrajectoryIsRemembered
  <1>7. TrajectoryIsOne'
    BY <1>1 DEF EvolutionInv, TrajectoryIsOne
  <1> QED BY <1>4, <1>6, <1>7 DEF EvolutionInv

\* A new report is of the suite and the incumbent of the others, and of another candidate.
LEMMA TrialStep ==
    ASSUME EvolutionInv, NEW baseline \in BaselineCheckpoint, NEW p \in Problem,
           NEW n \in 0 .. MaxProposals + 1, NEW suite \in Suite,
           NEW verdict \in {"advance", "reject", "unknown"},
           EvolveTrial(p, n, baseline, suite, verdict)
    PROVE  EvolutionInv'
  <1> DEFINE e == Selected(Evaluations(p, n))
             a == Trial(p, e, suite, verdict)
             r == [baseline |-> baseline, candidate |-> e.candidate, suite |-> suite,
                   revision |-> revision + 1]
             R(m) == [baseline : BaselineCheckpoint, candidate : Checkpoint, suite : Suite,
                      revision : 1 .. m]
  <1>1. /\ Begin(baseline) /\ Learn(a) /\ research' = Append(research, r)
        /\ Accepted(Evaluations(p, n)) # {} /\ e.candidate # baseline /\ ExtendsTrajectory(r)
    BY DEF EvolveTrial
  <1>2. e \in Accepted(Evaluations(p, n)) /\ e.candidate \in Checkpoint
    BY <1>1, SomethingIsSelected, ReportsAreTyped DEF EvolutionInv
  <1>3. Fitting(a) /\ a.suite = suite /\ a.candidate = e.candidate /\ a.revision = revision + 1
    BY <1>2, TrialFits
  <1> HIDE DEF e, a
  <1>4. /\ r.baseline = baseline /\ r.candidate = e.candidate /\ r.suite = suite
        /\ r.revision = revision + 1
    OBVIOUS
  <1>5. revision \in Nat /\ revision' = revision + 1
    BY <1>1, <1>3, LearnKeeps
  <1>6. r \in R(revision')
    BY <1>2, <1>5
  <1> HIDE DEF r
  <1>7. research \in Seq(R(revision)) /\ \A x \in R(revision) : x.revision \in 1 .. revision
    BY DEF EvolutionInv, EngineTypes
  <1>8. research \in Seq(R(revision'))
    <2>1. R(revision) \subseteq R(revision')
      BY <1>5
    <2> HIDE DEF R
    <2>2. \A i \in 1 .. Len(research) : research[i] \in R(revision')
      BY <1>7, <2>1
    <2> QED BY <1>7, <2>2, ListOf
  <1>9. research' \in Seq(R(revision'))
    <2> HIDE DEF R
    <2> QED BY <1>1, <1>6, <1>8
  <1>10. EngineTypes'
    BY <1>1, <1>3, <1>9, LearnKeeps DEF EngineTypes
  <1> HIDE DEF R
  <1>11. Range(research') = Range(research) \cup {r} /\ \A x \in Range(research) : x \in R(revision)
    <2>1. \A i \in 1 .. Len(research) : research[i] \in Range(research) /\ research[i] \in R(revision)
      BY <1>7 DEF Range
    <2>2. research \in Seq(Range(research))
      BY <1>7, <2>1, ListOf
    <2>3. Range(research) = {research[i] : i \in 1 .. Len(research)}
      BY <1>7 DEF Range
    <2>4. Range(research') = Range(research) \cup {r}
      BY <1>1, <2>2, ListGrows
    <2>5. \A x \in Range(research) : x \in R(revision)
      BY <2>1, <2>3
    <2> QED BY <2>4, <2>5
  <1>12. memory'.attempts = memory.attempts \cup {a}
    <2>1. ~\E b \in memory.attempts : b.evidence = a.evidence
      <3>1. a.suite # NoValue
        BY <1>3, NoValueIsNothing
      <3> QED BY <3>1, <1>3, AttemptsAreTyped, EvidenceTells DEF Fitting
    <2>2. memory' = [attempts |-> memory.attempts \cup {a}, failures |-> memory.failures]
      BY <1>1, <1>3, <2>1, WhatIsLearned
    <2> QED BY <2>2
  <1>13. /\ \A x \in Range(research) : x.candidate # r.candidate /\ x.suite = r.suite
    <2> SUFFICES ASSUME NEW x \in Range(research) PROVE x.candidate # r.candidate /\ x.suite = r.suite
      OBVIOUS
    <2>1. research # <<>> /\ Last(research) \in Range(research)
      <3>1. PICK i \in 1 .. Len(research) : x = research[i]
        BY <1>7 DEF Range
      <3>2. research # <<>> /\ Len(research) \in 1 .. Len(research) /\ DOMAIN research = 1 .. Len(research)
        BY <3>1, <1>7
      <3> QED BY <3>2 DEF Last, Range
    <2>2. r.suite = Last(research).suite /\ x.candidate # r.candidate
      BY <1>1, <2>1 DEF ExtendsTrajectory
    <2> QED BY <2>1, <2>2 DEF EvolutionInv, TrajectoryIsOne
  <1>14. TrajectoryIsOne'
    BY <1>11, <1>13 DEF EvolutionInv, TrajectoryIsOne
  <1>15. TrajectoryIsRemembered'
    <2> DEFINE Told(S) == {[c |-> x.candidate, at |-> x.revision] : x \in S}
               Tried(S) == {b \in S : b.suite # NoValue}
    <2>1. Told(Range(research)) = Told(Tried(memory.attempts))
      BY DEF EvolutionInv, TrajectoryIsRemembered
    <2>2. Tried(memory.attempts \cup {a}) = Tried(memory.attempts) \cup {a}
      <3>1. a.suite # NoValue
        BY <1>3, NoValueIsNothing
      <3> QED BY <3>1
    <2>3. Told(Range(research) \cup {r}) = Told(Range(research)) \cup {[c |-> e.candidate, at |-> revision + 1]}
      BY <1>4
    <2>4. Told(Tried(memory.attempts) \cup {a})
             = Told(Tried(memory.attempts)) \cup {[c |-> e.candidate, at |-> revision + 1]}
      BY <1>3
    <2>5. Told(Range(research')) = Told(Tried(memory'.attempts))
      <3> HIDE DEF Told, Tried
      <3> QED BY <2>1, <2>2, <2>3, <2>4, <1>11, <1>12
    <2>6. \A x \in Range(research') : x.baseline = incumbent' /\ x.candidate # incumbent'
      <3>1. incumbent \in {NoValue, baseline} /\ incumbent' = baseline
        BY <1>1 DEF Begin
      <3>2. \A x \in Range(research) : x.baseline = incumbent' /\ x.candidate # incumbent'
        BY <3>1, IncumbentStays
      <3> QED BY <3>1, <3>2, <1>1, <1>4, <1>11
    <2>7. \A x, y \in Range(research') : ~Comparable(x, y)
      <3>1. \A x, y \in Range(research) : ~Comparable(x, y)
        BY DEF EvolutionInv, TrajectoryIsRemembered
      <3>2. \A x \in Range(research) : ~Comparable(x, r) /\ ~Comparable(r, x)
        BY <1>13 DEF Comparable
      <3>3. ~Comparable(r, r)
        BY <1>4, <1>5 DEF Comparable
      <3> QED BY <3>1, <3>2, <3>3, <1>11
    <2> QED BY <2>5, <2>6, <2>7 DEF TrajectoryIsRemembered
  <1> QED BY <1>1, <1>3, <1>10, <1>14, <1>15, LearnKeeps DEF EvolutionInv

LEMMA FailureStep ==
    ASSUME EvolutionInv, NEW baseline \in BaselineCheckpoint, NEW p \in Problem,
           NEW n \in 0 .. MaxProposals + 1, EvolveFailed(p, n, baseline)
    PROVE  EvolutionInv'
  <1> DEFINE f == [run |-> <<p, n>>, revision |-> revision + 1]
  <1>1. /\ Begin(baseline) /\ memory' = RecordedFailure(memory, f)
        /\ emitted' = [emitted EXCEPT !.failures = Append(@, f)]
        /\ research' = research /\ lineages' = lineages
    BY DEF EvolveFailed
  <1>2. /\ incumbent \in {NoValue, baseline} /\ incumbent' = baseline
        /\ revision' = revision + 1 /\ solves' = solves /\ revision < MaxRevision
    BY <1>1 DEF Begin
  <1>3. revision \in Nat /\ revision' \in 0 .. MaxRevision /\ revision <= revision'
    BY <1>2, EvolutionAssumption DEF EvolutionInv, EngineTypes
  <1>4. /\ memory = [attempts |-> memory.attempts, failures |-> memory.failures]
        /\ emitted = [attempts |-> emitted.attempts, failures |-> emitted.failures]
        /\ memory.failures \subseteq FailureRecord
        /\ \A g \in memory.failures : g.revision \in 1 .. revision
        /\ \A g, h \in memory.failures : g.run = h.run => g = h
    BY DEF EvolutionInv, MemoryTypes, EvidenceCountsOnce
  <1>5. f \in FailureRecord /\ f.revision = revision + 1
    BY <1>3, EvolutionAssumption DEF FailureRecord
  <1>6. emitted' = [attempts |-> emitted.attempts, failures |-> emitted'.failures]
    BY <1>1, <1>4
  <1> HIDE DEF f
  <1>7. CASE \E g \in memory.failures : g.run = f.run
    <2>1. memory' = memory
      BY <1>1, <1>7 DEF RecordedFailure
    <2>2. \A g \in memory'.failures : g.revision \in 1 .. revision'
      BY <2>1, <1>2, <1>3, <1>4
    <2>3. /\ memory' = [attempts |-> memory.attempts, failures |-> memory'.failures]
          /\ memory'.failures \subseteq FailureRecord
          /\ \A g, h \in memory'.failures : g.run = h.run => g = h
      BY <2>1, <1>4
    <2> QED BY <2>2, <2>3, <1>1, <1>2, <1>3, <1>6, NothingLearned
  <1>8. CASE ~\E g \in memory.failures : g.run = f.run
    <2>1. memory' = [attempts |-> memory.attempts, failures |-> memory.failures \cup {f}]
      BY <1>1, <1>4, <1>8 DEF RecordedFailure
    <2>2. memory'.failures = memory.failures \cup {f}
      BY <2>1
    <2>3. \A g \in memory'.failures : g.revision \in 1 .. revision'
      BY <2>2, <1>2, <1>3, <1>4, <1>5
    <2>4. \A g, h \in memory'.failures : g.run = h.run => g = h
      BY <2>2, <1>4, <1>8
    <2> QED BY <2>1, <2>2, <2>3, <2>4, <1>1, <1>2, <1>3, <1>4, <1>5, <1>6, NothingLearned
  <1> QED BY <1>7, <1>8

\* A revision may be used up without anything being learned.
LEMMA IdleStep ==
    ASSUME EvolutionInv, NEW baseline \in BaselineCheckpoint,
           Begin(baseline) \/ (incumbent = NoValue /\ incumbent' = baseline /\ UNCHANGED <<solves, revision>>),
           UNCHANGED <<research, lineages, memory, emitted>>
    PROVE  EvolutionInv'
  <1>1. revision \in Nat /\ revision <= MaxRevision
    BY EvolutionAssumption DEF EvolutionInv, EngineTypes
  <1>2. /\ incumbent \in {NoValue, baseline} /\ incumbent' = baseline /\ solves' = solves
        /\ revision' \in 0 .. MaxRevision /\ revision <= revision'
    BY <1>1, EvolutionAssumption DEF Begin
  <1>3. /\ memory = [attempts |-> memory.attempts, failures |-> memory.failures]
        /\ emitted = [attempts |-> emitted.attempts, failures |-> emitted.failures]
        /\ memory.failures \subseteq FailureRecord
        /\ \A g \in memory.failures : g.revision \in 1 .. revision
        /\ \A g, h \in memory.failures : g.run = h.run => g = h
    BY DEF EvolutionInv, MemoryTypes, EvidenceCountsOnce
  <1>4. \A g \in memory'.failures : g.revision \in 1 .. revision'
    BY <1>1, <1>2, <1>3
  <1>5. /\ memory' = [attempts |-> memory.attempts, failures |-> memory'.failures]
        /\ emitted' = [attempts |-> emitted.attempts, failures |-> emitted'.failures]
        /\ memory'.failures \subseteq FailureRecord
        /\ \A g, h \in memory'.failures : g.run = h.run => g = h
    BY <1>3
  <1> QED BY <1>2, <1>4, <1>5, NothingLearned

LEMMA EvolutionStarts == EvolutionInit => EvolutionInv
  <1> SUFFICES ASSUME EvolutionInit PROVE EvolutionInv
    OBVIOUS
  <1>1. /\ \A p \in Problem : solves[p] \in Workload[p]
        /\ incumbent = NoValue /\ revision = 0 /\ research = <<>>
        /\ lineages = [p \in Problem |-> NoValue]
        /\ memory = [attempts |-> {}, failures |-> {}]
        /\ emitted = [attempts |-> <<>>, failures |-> <<>>]
    BY DEF EvolutionInit, Empty
  <1>2. /\ memory.attempts = {} /\ memory.failures = {} /\ emitted.attempts = <<>>
        /\ emitted.failures = <<>>
    BY <1>1
  <1>3. Range(<<>>) = {} /\ Range(research) = {} /\ Range(emitted.attempts) = {}
    BY <1>1, <1>2 DEF Range
  <1>4. EngineTypes
    BY <1>1, EvolutionAssumption DEF EngineTypes
  <1>5. MemoryTypes
    BY <1>1, <1>2, <1>3, FS_EmptySet DEF MemoryTypes
  <1>6. EvidenceCountsOnce /\ TrajectoryIsOne
    BY <1>2, <1>3 DEF EvidenceCountsOnce, TrajectoryIsOne
  <1>7. LineagesAreChains
    <2>1. Cardinality({}) - 1 = -1 /\ 0 .. -1 = {}
      BY FS_EmptySet
    <2>2. \A p \in Problem : {a \in memory.attempts : a.problem = p} = {}
      BY <1>2
    <2> QED BY <2>1, <2>2 DEF LineagesAreChains
  <1>8. TrajectoryIsRemembered
    BY <1>2, <1>3 DEF TrajectoryIsRemembered
  <1>9. LineagesEndInMemory
    <2>1. \A p \in Problem : ~Repeated(p)
      BY <1>2 DEF Repeated
    <2> QED BY <2>1, <1>1, <1>2, <1>3 DEF LineagesEndInMemory
  <1> QED BY <1>4, <1>5, <1>6, <1>7, <1>8, <1>9 DEF EvolutionInv

LEMMA EvolutionSteps == EvolutionInv /\ [EvolutionNext]_evolutionVars => EvolutionInv'
  <1> SUFFICES ASSUME EvolutionInv, [EvolutionNext]_evolutionVars PROVE EvolutionInv'
    OBVIOUS
  <1>1. CASE UNCHANGED evolutionVars
    <2>1. /\ solves' = solves /\ incumbent' = incumbent /\ revision' = revision
          /\ research' = research /\ lineages' = lineages
          /\ memory' = memory /\ emitted' = emitted
      BY <1>1 DEF evolutionVars
    <2>2. EngineTypes'
      BY <2>1 DEF EvolutionInv, EngineTypes
    <2>3. MemoryTypes'
      <3>1. \A b : IsAttempt(b) => IsAttempt(b)'
        BY <2>1 DEF IsAttempt, TellsOfItsEvidence, Evaluations, ObservedRejection, Observed
      <3>2. \A b \in Range(emitted'.attempts) : IsAttempt(b)'
        BY <2>1, <3>1 DEF EvolutionInv, MemoryTypes
      <3> QED BY <2>1, <3>2 DEF EvolutionInv, MemoryTypes
    <2>4. EvidenceCountsOnce'
      BY <2>1 DEF EvolutionInv, EvidenceCountsOnce
    <2>5. LineagesAreChains'
      BY <2>1 DEF EvolutionInv, LineagesAreChains
    <2>6. TrajectoryIsRemembered' /\ TrajectoryIsOne'
      BY <2>1 DEF EvolutionInv, TrajectoryIsRemembered, TrajectoryIsOne
    <2>7. LineagesEndInMemory'
      <3>1. \A p : Repeated(p)' <=> Repeated(p)
        BY <2>1 DEF Repeated
      <3> QED BY <2>1, <3>1 DEF EvolutionInv, LineagesEndInMemory
    <2> QED BY <2>2, <2>3, <2>4, <2>5, <2>6, <2>7 DEF EvolutionInv
  <1>2. CASE EvolutionNext
    <2>1. PICK baseline \in BaselineCheckpoint :
             \/ FailFirst(baseline)
             \/ \E p \in Problem, n \in 0 .. MaxProposals + 1 :
                   \/ EvolveRejected(p, n, baseline)
                   \/ EvolveUnknown(p, n, baseline)
                   \/ EvolveFailed(p, n, baseline)
                   \/ \E suite \in Suite :
                         \/ EvolveNothingNew(p, n, baseline, suite)
                         \/ \E verdict \in {"advance", "reject", "unknown"} :
                               EvolveTrial(p, n, baseline, suite, verdict)
      BY <1>2 DEF EvolutionNext
    <2>2. CASE FailFirst(baseline)
      BY <2>2, IdleStep DEF FailFirst
    <2>3. ASSUME NEW p \in Problem, NEW n \in 0 .. MaxProposals + 1, EvolveRejected(p, n, baseline)
          PROVE  EvolutionInv'
      BY <2>3, RejectionStep
    <2>4. ASSUME NEW p \in Problem, NEW n \in 0 .. MaxProposals + 1, EvolveUnknown(p, n, baseline)
          PROVE  EvolutionInv'
      BY <2>4, IdleStep DEF EvolveUnknown
    <2>5. ASSUME NEW p \in Problem, NEW n \in 0 .. MaxProposals + 1, EvolveFailed(p, n, baseline)
          PROVE  EvolutionInv'
      BY <2>5, FailureStep
    <2>6. ASSUME NEW p \in Problem, NEW n \in 0 .. MaxProposals + 1, NEW suite \in Suite,
                 EvolveNothingNew(p, n, baseline, suite)
          PROVE  EvolutionInv'
      BY <2>6, IdleStep DEF EvolveNothingNew
    <2>7. ASSUME NEW p \in Problem, NEW n \in 0 .. MaxProposals + 1, NEW suite \in Suite,
                 NEW verdict \in {"advance", "reject", "unknown"},
                 EvolveTrial(p, n, baseline, suite, verdict)
          PROVE  EvolutionInv'
      BY <2>7, TrialStep
    <2> QED BY <2>1, <2>2, <2>3, <2>4, <2>5, <2>6, <2>7
  <1> QED BY <1>1, <1>2

-----------------------------------------------------------------------------
(* Evolution: what follows. *)

LEMMA MemoryStaysSound == EvolutionInv => MemoryIsSound
  <1> SUFFICES ASSUME EvolutionInv PROVE EvolutionTypeOK
    BY DEF MemoryIsSound, EvolutionInv
  <1>1. /\ incumbent \in BaselineCheckpoint \cup {NoValue} /\ revision \in 0 .. MaxRevision
        /\ \A f \in memory.failures : f.revision \in 1 .. revision
    BY DEF EvolutionInv, EngineTypes, MemoryTypes
  <1>2. \A r \in Range(research) : r.candidate \in Checkpoint /\ r.revision \in 1 .. revision
    <2> DEFINE R == [baseline : BaselineCheckpoint, candidate : Checkpoint, suite : Suite,
                     revision : 1 .. revision]
    <2>1. research \in Seq(R)
      BY DEF EvolutionInv, EngineTypes
    <2>2. \A r \in R : r.candidate \in Checkpoint /\ r.revision \in 1 .. revision
      OBVIOUS
    <2> HIDE DEF R
    <2>3. \A r \in Range(research) : r \in R
      BY <2>1 DEF Range
    <2> QED BY <2>2, <2>3
  <1>3. \A p \in Problem : lineages[p] # NoValue => lineages[p].attempt \in 1 .. revision
    BY PlacesAreTyped
  <1>4. \A a \in memory.attempts :
           /\ a.problem \in Problem /\ a.backend \in Backends /\ a.revision \in 1 .. revision
           /\ a.status \in {"validated", "rejected", "inconclusive"}
    BY AttemptsAreTyped DEF AttemptRecord
  <1> QED BY <1>1, <1>2, <1>3, <1>4 DEF EvolutionTypeOK

LEMMA NewTrialIsTaken ==
    ASSUME EvolutionInv, NEW p \in Problem, NEW n \in 0 .. MaxProposals + 1,
           NEW e \in Accepted(Evaluations(p, n)), NEW suite \in Suite
    PROVE  LET a == Trial(p, e, suite, "advance")
           IN /\ a.suite = suite /\ a.revision = revision + 1
              /\ Recorded(memory, a) # Refused <=> ~Repeated(p)
  <1> DEFINE a == Trial(p, e, suite, "advance")
  <1>1. Fitting(a) /\ a.suite = suite /\ a.problem = p /\ a.revision = revision + 1
    BY TrialFits
  <1> HIDE DEF a
  <1>2. a.suite # NoValue
    BY <1>1, NoValueIsNothing
  <1>3. ~\E b \in memory.attempts : b.evidence = a.evidence
    BY <1>1, <1>2, AttemptsAreTyped, EvidenceTells DEF Fitting
  <1>4. Recorded(memory, a) # Refused <=> ~Repeated(p)
    BY <1>1, <1>3, TakenOrKnown DEF Fitting
  <1> QED BY <1>1, <1>4 DEF a

LEMMA NewReportExtends ==
    ASSUME EvolutionInv, research # <<>>, NEW candidate, ~Known(candidate, Last(research).suite)
    PROVE  /\ Last(research).suite \in Suite
           /\ ExtendsTrajectory([baseline |-> incumbent, candidate |-> candidate,
                                 suite |-> Last(research).suite, revision |-> revision + 1])
  <1> DEFINE R == [baseline : BaselineCheckpoint, candidate : Checkpoint, suite : Suite,
                   revision : 1 .. revision]
             z == Last(research)
  <1>1. research \in Seq(R) /\ revision \in Nat /\ \A r \in R : r.suite \in Suite /\ r.revision \in 1 .. revision
    BY DEF EvolutionInv, EngineTypes
  <1> HIDE DEF R
  <1>2. z \in Range(research) /\ z \in R
    <2>1. Len(research) \in 1 .. Len(research) /\ z = research[Len(research)]
      BY <1>1 DEF Last
    <2> QED BY <2>1, <1>1 DEF Range
  <1> HIDE DEF z
  <1>3. z.baseline = incumbent /\ \A x \in Range(research) : x.suite = z.suite
    BY <1>2 DEF EvolutionInv, TrajectoryIsRemembered, TrajectoryIsOne
  <1>4. \A x \in Range(research) : x.candidate # candidate
    BY <1>3 DEF Known, z
  <1>5. z.suite \in Suite /\ revision + 1 > z.revision
    BY <1>1, <1>2
  <1> QED BY <1>3, <1>4, <1>5 DEF ExtendsTrajectory, z

LEMMA EngineAlwaysGoesOn == EvolutionInv => EngineGoesOn
  <1> SUFFICES ASSUME EvolutionInv, NEW p \in Problem, NEW n \in 0 .. MaxProposals + 1
               PROVE  LET report == Evaluations(p, n)
                      IN IF Accepted(report) # {}
                         THEN LET e == Selected(report)
                                  a == Trial(p, e, IF research = <<>> THEN CHOOSE s \in Suite : TRUE
                                                   ELSE Last(research).suite, "advance")
                              IN e.candidate # incumbent /\ ~Known(e.candidate, a.suite) =>
                                     /\ ExtendsTrajectory([baseline |-> incumbent, candidate |-> e.candidate,
                                                           suite |-> a.suite, revision |-> a.revision])
                                        \/ incumbent = NoValue
                                     /\ Recorded(memory, a) # Refused <=> ~Repeated(p)
                         ELSE Observed(report) # {} =>
                              LET a == Rejection(p, n)
                                  news == \A b \in memory.attempts : b.evidence # a.evidence
                              IN Recorded(memory, a) = Refused <=> news /\ Repeated(p)
    BY DEF EngineGoesOn
  <1> DEFINE report == Evaluations(p, n)
  <1>1. CASE Accepted(report) # {}
    <2> DEFINE e == Selected(report)
               suite == IF research = <<>> THEN CHOOSE s \in Suite : TRUE ELSE Last(research).suite
               a == Trial(p, e, suite, "advance")
    <2>1. e \in Accepted(report)
      BY <1>1, SomethingIsSelected DEF EvolutionInv
    <2> SUFFICES ASSUME e.candidate # incumbent, ~Known(e.candidate, a.suite)
                 PROVE  /\ ExtendsTrajectory([baseline |-> incumbent, candidate |-> e.candidate,
                                              suite |-> a.suite, revision |-> a.revision])
                           \/ incumbent = NoValue
                        /\ Recorded(memory, a) # Refused <=> ~Repeated(p)
      BY <1>1
    <2> HIDE DEF e
    <2>2. CASE research = <<>>
      <3>1. suite \in Suite
        BY <2>2, EvolutionAssumption
      <3> HIDE DEF suite
      <3>2. Recorded(memory, a) # Refused <=> ~Repeated(p)
        BY <2>1, <3>1, NewTrialIsTaken
      <3>3. ExtendsTrajectory([baseline |-> incumbent, candidate |-> e.candidate,
                               suite |-> a.suite, revision |-> a.revision])
        BY <2>2 DEF ExtendsTrajectory
      <3> QED BY <3>2, <3>3
    <2>3. CASE research # <<>>
      <3>1. suite = Last(research).suite
        BY <2>3
      <3> HIDE DEF suite
      <3>2. suite \in Suite
        <4>1. a.suite = suite
          BY DEF Trial, Attempt
        <4>2. ~Known(e.candidate, Last(research).suite)
          BY <3>1, <4>1
        <4> QED BY <2>3, <3>1, <4>2, NewReportExtends
      <3>3. /\ a.suite = suite /\ a.revision = revision + 1
            /\ Recorded(memory, a) # Refused <=> ~Repeated(p)
        BY <2>1, <3>2, NewTrialIsTaken
      <3> HIDE DEF a
      <3>4. ExtendsTrajectory([baseline |-> incumbent, candidate |-> e.candidate,
                               suite |-> a.suite, revision |-> a.revision])
        BY <2>3, <3>1, <3>3, NewReportExtends
      <3> QED BY <3>3, <3>4
    <2> QED BY <2>2, <2>3
  <1>2. CASE Accepted(report) = {} /\ Observed(report) # {}
    <2> DEFINE a == Rejection(p, n)
    <2>1. Fitting(a) /\ a.problem = p
      BY <1>2, RejectionFits
    <2> HIDE DEF a
    <2>2. Recorded(memory, a) = Refused <=>
             (\A b \in memory.attempts : b.evidence # a.evidence) /\ Repeated(p)
      BY <2>1, TakenOrKnown DEF Fitting
    <2> QED BY <2>2, <1>2 DEF a
  <1>3. CASE Accepted(report) = {} /\ Observed(report) = {}
    BY <1>3
  <1> QED BY <1>1, <1>2, <1>3

\* For any problems, whatever their solvers make of them, and any calls in any order:
\* the engine's memory holds each piece of evidence once, in unbroken lineages, and tells
\* the story of the trajectory; new evidence about a problem is learned until a rejection
\* of it has been repeated, and never after (evolve, record_attempt, validate_lineage).
THEOREM EvolutionStaysSound == EvolutionSpec => []EvolutionIsSound
  <1>1. EvolutionSpec => []EvolutionInv
    BY EvolutionStarts, EvolutionSteps, PTL DEF EvolutionSpec
  <1>2. EvolutionInv => EvolutionIsSound
    BY MemoryStaysSound, EngineAlwaysGoesOn DEF EvolutionIsSound
  <1> QED BY <1>1, <1>2, PTL
-----------------------------------------------------------------------------
(* Evolution: the advice. *)

\* Whatever a cycle returned, memory holds an attempt that says the same, and is not later;
\* of a trial it holds the very attempt.
EmittedIsRemembered ==
    \A a \in Range(emitted.attempts) : \E b \in memory.attempts :
        Meaning(b) = Meaning(a) /\ b.revision <= a.revision /\ (a.suite # NoValue => b = a)

LEMMA LearnedIsRemembered ==
    ASSUME EvolutionInv, EmittedIsRemembered, NEW a, Fitting(a), Learn(a)
    PROVE  EmittedIsRemembered'
  <1>0. /\ revision \in Nat /\ \A b \in memory.attempts : IsAttempt(b) /\ b.revision \in 1 .. revision
        /\ emitted.attempts \in Seq(Range(emitted.attempts))
    BY DEF EvolutionInv, EngineTypes, MemoryTypes, IsAttempt
  <1>1. /\ \/ memory' = [attempts |-> memory.attempts \cup {a}, failures |-> memory.failures]
           \/ (\E b \in memory.attempts : b.evidence = a.evidence) /\ memory' = memory
        /\ emitted' = [attempts |-> Append(emitted.attempts, a), failures |-> emitted.failures]
    BY WhatIsLearned
  <1>2. emitted'.attempts = Append(emitted.attempts, a)
    BY <1>1
  <1>3. Range(emitted'.attempts) = Range(emitted.attempts) \cup {a}
    BY <1>0, <1>2, ListGrows
  <1>4. a.revision = revision + 1
    BY DEF Fitting, TakesNextPlace
  <1>5. memory.attempts \subseteq memory'.attempts
    BY <1>1
  <1>6. \E b \in memory'.attempts :
           Meaning(b) = Meaning(a) /\ b.revision <= a.revision /\ (a.suite # NoValue => b = a)
    <2>1. CASE memory' = [attempts |-> memory.attempts \cup {a}, failures |-> memory.failures]
      <3>1. a \in memory'.attempts
        BY <2>1
      <3> QED BY <3>1, <1>0, <1>4
    <2>2. CASE (\E b \in memory.attempts : b.evidence = a.evidence) /\ memory' = memory
      <3>1. PICK b \in memory.attempts : b.evidence = a.evidence
        BY <2>2
      <3>2. a.suite = NoValue /\ Meaning(b) = Meaning(a)
        BY <3>1, <1>0, EvidenceTells DEF Fitting
      <3>3. b \in memory'.attempts /\ b.revision <= a.revision
        BY <2>2, <3>1, <1>0, <1>4
      <3> QED BY <3>2, <3>3
    <2> QED BY <1>1, <2>1, <2>2
  <1>7. ASSUME NEW x \in Range(emitted.attempts)
        PROVE  \E b \in memory'.attempts :
                  Meaning(b) = Meaning(x) /\ b.revision <= x.revision /\ (x.suite # NoValue => b = x)
    BY <1>5 DEF EmittedIsRemembered
  <1>8. \A x \in Range(emitted'.attempts) : \E b \in memory'.attempts :
           Meaning(b) = Meaning(x) /\ b.revision <= x.revision /\ (x.suite # NoValue => b = x)
    BY <1>3, <1>6, <1>7
  <1>9. ASSUME NEW x PROVE Meaning(x)' = Meaning(x)
    BY DEF Meaning
  <1> QED BY <1>8 DEF EmittedIsRemembered, Meaning

LEMMA RememberedSteps ==
    ASSUME EvolutionInv, EmittedIsRemembered, [EvolutionNext]_evolutionVars
    PROVE  EmittedIsRemembered'
  <1>1. ASSUME memory'.attempts = memory.attempts, emitted'.attempts = emitted.attempts
        PROVE  EmittedIsRemembered'
    BY <1>1 DEF EmittedIsRemembered, Meaning
  <1>2. CASE UNCHANGED evolutionVars
    BY <1>1, <1>2 DEF evolutionVars
  <1>3. CASE EvolutionNext
    <2>1. PICK baseline \in BaselineCheckpoint :
             \/ FailFirst(baseline)
             \/ \E p \in Problem, n \in 0 .. MaxProposals + 1 :
                   \/ EvolveRejected(p, n, baseline)
                   \/ EvolveUnknown(p, n, baseline)
                   \/ EvolveFailed(p, n, baseline)
                   \/ \E suite \in Suite :
                         \/ EvolveNothingNew(p, n, baseline, suite)
                         \/ \E verdict \in {"advance", "reject", "unknown"} :
                               EvolveTrial(p, n, baseline, suite, verdict)
      BY <1>3 DEF EvolutionNext
    <2>2. CASE FailFirst(baseline)
      BY <2>2, <1>1 DEF FailFirst
    <2>3. ASSUME NEW p \in Problem, NEW n \in 0 .. MaxProposals + 1, EvolveRejected(p, n, baseline)
          PROVE  EmittedIsRemembered'
      <3>1. Learn(Rejection(p, n)) /\ Observed(Evaluations(p, n)) # {}
        BY <2>3 DEF EvolveRejected
      <3> QED BY <3>1, RejectionFits, LearnedIsRemembered
    <2>4. ASSUME NEW p \in Problem, NEW n \in 0 .. MaxProposals + 1, EvolveUnknown(p, n, baseline)
          PROVE  EmittedIsRemembered'
      BY <2>4, <1>1 DEF EvolveUnknown
    <2>5. ASSUME NEW p \in Problem, NEW n \in 0 .. MaxProposals + 1, EvolveFailed(p, n, baseline)
          PROVE  EmittedIsRemembered'
      <3> DEFINE f == [run |-> <<p, n>>, revision |-> revision + 1]
      <3>1. /\ memory' = RecordedFailure(memory, f)
            /\ emitted' = [emitted EXCEPT !.failures = Append(@, f)]
        BY <2>5 DEF EvolveFailed
      <3>2. /\ memory = [attempts |-> memory.attempts, failures |-> memory.failures]
            /\ emitted = [attempts |-> emitted.attempts, failures |-> emitted.failures]
        BY DEF EvolutionInv, MemoryTypes
      <3> HIDE DEF f
      <3>3. memory'.attempts = memory.attempts
        BY <3>1, <3>2 DEF RecordedFailure
      <3>4. emitted'.attempts = emitted.attempts
        BY <3>1, <3>2
      <3> QED BY <3>3, <3>4, <1>1
    <2>6. ASSUME NEW p \in Problem, NEW n \in 0 .. MaxProposals + 1, NEW suite \in Suite,
                 EvolveNothingNew(p, n, baseline, suite)
          PROVE  EmittedIsRemembered'
      BY <2>6, <1>1 DEF EvolveNothingNew
    <2>7. ASSUME NEW p \in Problem, NEW n \in 0 .. MaxProposals + 1, NEW suite \in Suite,
                 NEW verdict \in {"advance", "reject", "unknown"},
                 EvolveTrial(p, n, baseline, suite, verdict)
          PROVE  EmittedIsRemembered'
      <3> DEFINE e == Selected(Evaluations(p, n))
      <3>1. Learn(Trial(p, e, suite, verdict)) /\ Accepted(Evaluations(p, n)) # {}
        BY <2>7 DEF EvolveTrial
      <3>2. e \in Accepted(Evaluations(p, n))
        BY <3>1, SomethingIsSelected DEF EvolutionInv
      <3> HIDE DEF e
      <3> QED BY <3>1, <3>2, TrialFits, LearnedIsRemembered
    <2> QED BY <2>1, <2>2, <2>3, <2>4, <2>5, <2>6, <2>7
  <1> QED BY <1>2, <1>3

\* Of one design a latest contribution is kept, not earlier than any that is heard.
LEMMA LatestIsKept ==
    ASSUME EvolutionInv, NEW query, NEW backend, NEW a \in Heard(query), a.backend = backend
    PROVE  \E c \in Kept(query, backend) :
              /\ c.suite = a.suite /\ (a.suite = NoValue => c.evidence = a.evidence)
              /\ c.revision >= a.revision
  <1> DEFINE OneDesign(x, y) == x.suite = y.suite /\ (x.suite = NoValue => x.evidence = y.evidence)
             S == {x \in Heard(query) : x.backend = backend /\ OneDesign(a, x)}
             size == [x \in S |-> revision - x.revision]
  <1>1. revision \in Nat /\ \A x \in Heard(query) : x.revision \in 1 .. revision
    BY AttemptsAreTyped DEF EvolutionInv, EngineTypes, Heard
  <1>2. a \in S
    OBVIOUS
  <1>3. \A x \in S : size[x] = revision - x.revision /\ size[x] \in Nat
    BY <1>1
  <1> HIDE DEF size
  <1>4. PICK c \in S : \A x \in S : size[c] <= size[x]
    BY <1>2, <1>3, SmallestExists
  <1>5. \A x \in S : x.revision <= c.revision
    BY <1>1, <1>3, <1>4
  <1>6. c \in Kept(query, backend)
    <2>1. \A x \in Heard(query) : x.backend = backend /\ OneDesign(c, x) => x.revision <= c.revision
      BY <1>4, <1>5
    <2> QED BY <1>4, <2>1 DEF Kept
  <1> QED BY <1>2, <1>4, <1>5, <1>6, <1>1

\* Of a rejection that is heard, and of a trial that no later trial outlived, the rejection
\* is kept and speaks against its configuration.
LEMMA AdviceStaysSound == EvolutionInv /\ EmittedIsRemembered => AdviceIsEarned
  <1> SUFFICES ASSUME EvolutionInv, EmittedIsRemembered,
                      NEW query \in [problem : Problem, revision : 0 .. revision, transfer : BOOLEAN],
                      NEW backend \in Backends
               PROVE  LET past == {a \in Range(emitted.attempts) :
                                      a.backend = backend /\ a.revision <= query.revision}
                          better(a) == \E b \in past : b.status = "validated" /\ b.revision > a.revision
                      IN /\ "prioritize" \in Advice(query, backend) =>
                               /\ backend # "external"
                               /\ \E a \in past : a.status = "validated"
                               /\ \A a \in past : a.status = "rejected" /\ a.problem = query.problem =>
                                     a.suite # NoValue /\ better(a)
                         /\ "deprioritize" \in Advice(query, backend) =>
                               \E a \in past : a.status = "rejected"
    BY DEF AdviceIsEarned
  <1> DEFINE past == {a \in Range(emitted.attempts) :
                         a.backend = backend /\ a.revision <= query.revision}
             for == {a \in Kept(query, backend) : a.status = "validated"}
             against == {a \in Kept(query, backend) : a.status = "rejected"}
  <1>1. /\ revision \in Nat /\ query.revision \in 0 .. revision
        /\ memory.attempts \subseteq Range(emitted.attempts)
        /\ \A a \in Range(emitted.attempts) : IsAttempt(a) /\ a.revision \in 1 .. revision
    BY DEF EvolutionInv, EngineTypes, MemoryTypes, IsAttempt
  <1>2. \A a \in Kept(query, backend) :
           /\ a \in Heard(query) /\ a \in memory.attempts /\ a \in past /\ a.backend # "external"
           /\ a.status \in {"validated", "rejected"}
    <2>1. \A a \in Kept(query, backend) : a \in Heard(query) /\ a.backend = backend
      BY DEF Kept
    <2>2. \A a \in Heard(query) : /\ a \in memory.attempts /\ a.revision <= query.revision
                                  /\ a.backend # "external" /\ a.status # "inconclusive"
      BY DEF Heard
    <2>3. \A a \in memory.attempts : a.status \in {"validated", "rejected", "inconclusive"}
      BY AttemptsAreTyped DEF AttemptRecord
    <2> QED BY <2>1, <2>2, <2>3, <1>1
  <1>3. /\ "prioritize" \in Advice(query, backend) => for # {} /\ against = {}
        /\ "deprioritize" \in Advice(query, backend) => against # {}
    BY DEF Advice
  <1>4. ASSUME against = {}, backend # "external",
               NEW a \in past, a.status = "rejected", a.problem = query.problem
        PROVE  a.suite # NoValue /\ \E b \in past : b.status = "validated" /\ b.revision > a.revision
    <2>1. PICK b \in memory.attempts :
             Meaning(b) = Meaning(a) /\ b.revision <= a.revision /\ (a.suite # NoValue => b = a)
      BY DEF EmittedIsRemembered
    <2>2. /\ b.problem = a.problem /\ b.backend = a.backend /\ b.evidence = a.evidence
          /\ b.suite = a.suite /\ b.status = a.status
      BY <2>1 DEF Meaning
    <2>3. b.revision \in 1 .. revision /\ a.revision \in 1 .. revision
      BY <1>1
    <2>4. b \in Heard(query)
      BY <1>1, <1>4, <2>1, <2>2, <2>3 DEF Heard
    <2>5. PICK c \in Kept(query, backend) :
             /\ c.suite = b.suite /\ (b.suite = NoValue => c.evidence = b.evidence)
             /\ c.revision >= b.revision
      BY <2>2, <2>4, LatestIsKept
    <2>6. c \in memory.attempts /\ c \in past /\ c.status = "validated"
      BY <1>2, <1>4, <2>5
    <2>7. a.suite # NoValue
      <3>1. SUFFICES ASSUME a.suite = NoValue PROVE FALSE
        OBVIOUS
      <3>2. c.evidence = b.evidence
        BY <2>2, <2>5, <3>1
      <3>3. c = b
        BY <2>6, <3>2 DEF EvolutionInv, EvidenceCountsOnce
      <3> QED BY <3>3, <2>2, <2>6, <1>4
    <2>8. b = a
      BY <2>1, <2>7
    <2>9. c.revision # a.revision
      <3>1. SUFFICES ASSUME c.revision = a.revision PROVE FALSE
        OBVIOUS
      <3>2. /\ c.evidence = [kind |-> "trial", of |-> <<c.revision>>]
            /\ a.evidence = [kind |-> "trial", of |-> <<a.revision>>]
        <4>1. IsAttempt(c) /\ IsAttempt(a) /\ c.suite # NoValue
          BY <1>1, <2>5, <2>6, <2>7, <2>8
        <4> QED BY <4>1, <2>7 DEF IsAttempt, TellsOfItsEvidence
      <3>3. c.evidence = a.evidence
        BY <3>1, <3>2
      <3>4. c = a
        BY <2>6, <2>8, <3>3 DEF EvolutionInv, EvidenceCountsOnce
      <3> QED BY <3>4, <2>6, <1>4
    <2>10. c.revision > a.revision
      <3>1. c.revision \in 1 .. revision /\ c.revision >= a.revision
        BY <1>1, <2>5, <2>6, <2>8
      <3> QED BY <3>1, <2>3, <2>9
    <2> QED BY <2>6, <2>7, <2>10
  <1> HIDE DEF for, against, past
  <1>5. "prioritize" \in Advice(query, backend) =>
           /\ backend # "external"
           /\ \E a \in past : a.status = "validated"
           /\ \A a \in past : a.status = "rejected" /\ a.problem = query.problem =>
                 a.suite # NoValue /\ \E b \in past : b.status = "validated" /\ b.revision > a.revision
    <2> SUFFICES ASSUME "prioritize" \in Advice(query, backend)
                 PROVE  /\ backend # "external"
                        /\ \E a \in past : a.status = "validated"
                        /\ \A a \in past : a.status = "rejected" /\ a.problem = query.problem =>
                              a.suite # NoValue
                              /\ \E b \in past : b.status = "validated" /\ b.revision > a.revision
      OBVIOUS
    <2>1. for # {} /\ against = {}
      BY <1>3
    <2>2. PICK x \in for : TRUE
      BY <2>1
    <2>3. x \in Kept(query, backend) /\ x.status = "validated"
      BY DEF for
    <2>4. x.backend = backend
      BY <2>3 DEF Kept
    <2>5. x \in past /\ backend # "external"
      BY <1>2, <2>3, <2>4
    <2> QED BY <1>4, <2>1, <2>3, <2>5
  <1>6. "deprioritize" \in Advice(query, backend) => \E a \in past : a.status = "rejected"
    BY <1>2, <1>3 DEF against
  <1> QED BY <1>5, <1>6 DEF past

\* For any problems and calls, and any question asked at any time: a configuration is
\* recommended only on an own success, and against no failure but of a trial that a later
\* success outlived, although a rejection that was returned twice is in memory once; it is
\* advised against only if it failed (retrieve).
THEOREM AdviceStaysEarned == EvolutionSpec => []AdviceIsEarned
  <1>1. EvolutionInit => EmittedIsRemembered
    <2> SUFFICES ASSUME EvolutionInit PROVE EmittedIsRemembered
      OBVIOUS
    <2>1. emitted.attempts = <<>>
      BY DEF EvolutionInit
    <2>2. Range(emitted.attempts) = {}
      BY <2>1 DEF Range
    <2> QED BY <2>2 DEF EmittedIsRemembered
  <1>2. EvolutionInit => EvolutionInv /\ EmittedIsRemembered
    BY <1>1, EvolutionStarts
  <1>3. EvolutionInv /\ EmittedIsRemembered /\ [EvolutionNext]_evolutionVars
           => (EvolutionInv /\ EmittedIsRemembered)'
    BY EvolutionSteps, RememberedSteps
  <1>4. EvolutionInv /\ EmittedIsRemembered => AdviceIsEarned
    BY AdviceStaysSound
  <1> QED BY <1>2, <1>3, <1>4, PTL DEF EvolutionSpec
=============================================================================
