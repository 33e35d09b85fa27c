----------------------------- MODULE SleepCycle -----------------------------
(***************************************************************************)
(* The sleep cycle of the engine: a reconstruction of the corpus is judged *)
(* against the evidence bundle of the moment and, through a staged         *)
(* transaction, a ledger event and three pointers replaced one after the   *)
(* other, becomes the memory, the active skill bank and the sleep state.   *)
(*                                                                         *)
(* Calls hold the engine's authority, so there is one at a time; it may    *)
(* stop anywhere.  The evidence pointer belongs to someone else and may be *)
(* replaced at any moment.  A reconstruction is a function of the corpus   *)
(* and of the program that analyses it; those that occur are numbered.  A  *)
(* bank is the sequence of the reconstructions reconciled into it; equal   *)
(* content has an equal digest.                                            *)
(***************************************************************************)
EXTENDS Naturals, Sequences, SequencesExt

CONSTANTS
    MaxAnalyses,   \* bound on the reconstructions
    MaxBundles,    \* bound on the evidence bundles, numbered as they arrive
    Allowed,       \* reconstructions whose promotion gate allows them
    Verified,      \* <<bundle, reconstruction>>: verify_sleep_evidence accepts
    MaxStops,      \* bound on the calls that end early
    None

Analysis == 1..MaxAnalyses
Bundle == 0..MaxBundles       \* 0: no evidence

ASSUME SleepAssumption ==
    /\ MaxAnalyses \in Nat \ {0} /\ MaxBundles \in Nat /\ MaxStops \in Nat
    /\ Allowed \subseteq Analysis
    /\ Verified \subseteq (1..MaxBundles) \X Analysis

\* A bundle names the corpus, the program and its configuration: verify_sleep_evidence
\* accepts it for one reconstruction at most.
ASSUME BundlesNameOne == \A v, w \in Verified : v[1] = w[1] => v = w

\* The keys of the operations, what sleep_state.json says, and an intent or an event.
Keys == [analysis : Analysis, evidence : Bundle, certified : BOOLEAN, bank : Seq(Analysis)]
States == [key : Keys, promoted : BOOLEAN, judged : Bundle]
Operation == [state : States, verified : BOOLEAN]

ASSUME NoneIsNoState == None \notin States

VARIABLES
    analysis,      \* what this program reconstructs from the corpus on disk
    corpus,        \* the first reconstruction made from that corpus
    evidence,      \* state/sleep_evidence/current.json
    bundles,       \* how many bundles have been installed
    opened,        \* the operations with a directory in state/sleep_transactions
    staged,        \* those of them with intent.json, written last
    ledger,        \* the sleep_transaction events
    history,       \* the content-addressed files
    memory,        \* state/memory/current.json
    bank,          \* state/skill_bank.json, << >>: none
    sleepState,    \* state/sleep_state.json
    receipts,      \* state/sleep_receipts, each names the state it certifies
    head,          \* the canonical head
    call,          \* where the call is and what it has decided
    stops          \* how many calls ended early

vars == <<analysis, corpus, evidence, bundles, opened, staged, ledger, history, memory, bank, sleepState,
          receipts, head, call, stops>>
inputs == <<analysis, corpus, evidence, bundles, stops>>
files == <<opened, staged, ledger, history, memory, bank, sleepState, receipts, head>>

\* sleep_operation_key and the memory snapshot it determines.
Key(a, e, certified, b) == [analysis |-> a, evidence |-> e, certified |-> certified, bank |-> b]
Memory(key) == [analysis |-> key.analysis, certified |-> key.certified, bank |-> key.bank]

Idle == [at |-> "idle"]

\* What the canonical head records of the live authorities.
Snapshot == [corpus |-> corpus, evidence |-> evidence, memory |-> memory, bank |-> bank,
             state |-> sleepState]

Init ==
    /\ analysis = 1 /\ corpus = 1 /\ evidence = 0 /\ bundles = 0
    /\ opened = {} /\ staged = {} /\ ledger = <<>>
    /\ history = [report |-> {}, memory |-> {}, bank |-> {}, evidence |-> {}, state |-> {}]
    /\ memory = None /\ bank = <<>> /\ sleepState = None
    /\ receipts = {} /\ head = None
    /\ call = Idle /\ stops = 0

-----------------------------------------------------------------------------
(* Verifiers.                                                              *)

Event(key) == {i \in DOMAIN ledger : ledger[i].state.key = key}

\* verify_sleep_receipt_ledger_binding: the state on disk is the certified one
\* and its operation has one event that says the same.
Bound(state) ==
    /\ sleepState = state
    /\ \E i \in Event(state.key) :
          ledger[i] = [state |-> state,
                       verified |-> <<state.judged, state.key.analysis>> \in Verified]

\* The immutable copies a receipt claims.
Archived(state) ==
    /\ state.key.analysis \in history.report
    /\ Memory(state.key) \in history.memory
    /\ state \in history.state
    /\ state.key.bank # <<>> => state.key.bank \in history.bank
    /\ state.key.evidence # 0 => state.key.evidence \in history.evidence

\* verify_current_sleep_installation.
Installed(state) ==
    /\ Bound(state) /\ Archived(state)
    /\ memory = Memory(state.key)
    /\ bank = state.key.bank
    /\ evidence = state.key.evidence

\* authorize_empty_bank_bootstrap: without a bank, a first cycle or one after a
\* revoked installation that is still exactly in place.
MayBegin ==
    (bank = <<>> /\ sleepState # None) =>
        /\ ~sleepState.key.certified /\ ~sleepState.promoted /\ sleepState.key.bank = <<>>
        /\ sleepState \in receipts
        /\ Installed(sleepState)

\* runtime_integrity_health: integrity_healthy, which an older program's sleep
\* state does not disturb, and execution_authorized, which it does.
IntegrityHealthy ==
    /\ sleepState # None /\ sleepState \in receipts
    /\ head = Snapshot
    /\ sleepState.key.bank # <<>> /\ sleepState.key.evidence # 0
    /\ Installed(sleepState)
    /\ sleepState.key.analysis >= corpus

ExecutionAuthorized ==
    /\ IntegrityHealthy
    /\ sleepState.key.analysis = analysis
    /\ sleepState.key.certified
    /\ <<sleepState.judged, analysis>> \in Verified

-----------------------------------------------------------------------------
(* What a call decides.                                                    *)

\* Variant: any certified state will do.
AnyCertified == sleepState # None /\ sleepState.key.certified

\* Variant: every certified cycle promotes.
NeverCertified == FALSE

\* previous_same_certified.
SameCertified ==
    sleepState # None /\ sleepState.key.certified /\ sleepState.key.analysis = analysis

\* Variant: a repeated operation is described anew.
StateAnew(key, promote, judged) == [key |-> key, promoted |-> promote, judged |-> judged]

\* The state of a repeated operation is the one already on disk.
StateOf(key, promote, judged) ==
    IF sleepState # None /\ sleepState.key = key THEN sleepState
    ELSE [key |-> key, promoted |-> promote, judged |-> judged]

\* The operation of a cycle that read the digest of bundle e and judged bundle j.
Plan(e, j) ==
    LET certified == analysis \in Allowed /\ <<j, analysis>> \in Verified
        promote == certified /\ ~SameCertified
        key == Key(analysis, e, certified, IF promote THEN Append(bank, analysis) ELSE bank)
    IN  [promote |-> promote, op |-> [state |-> StateOf(key, promote, j),
                                      verified |-> <<j, analysis>> \in Verified]]

At(place) == call.at = place
Go(place) == call' = [call EXCEPT !.at = place]
Refuse == call' = Idle
State == call.op.state
Op == State.key

\* Measure the corpus and the authorities that only the engine replaces.
Begin ==
    /\ At("idle") /\ MayBegin
    /\ call' = [at |-> "authorized"]
    /\ UNCHANGED <<inputs, files>>

\* The digest of the evidence pointer ...
Measure ==
    /\ At("authorized")
    /\ call' = [at |-> "measured", evidence |-> evidence]
    /\ UNCHANGED <<inputs, files>>

\* ... and, read again, the bundle that is judged.
Judge ==
    /\ At("measured")
    /\ LET plan == Plan(call.evidence, evidence)
       IN  call' = [at |-> "planned", promote |-> plan.promote, op |-> plan.op]
    /\ UNCHANGED <<inputs, files>>

-----------------------------------------------------------------------------
(* The transaction.                                                        *)

HasReceipt == \E state \in receipts : state.key = Op

\* The operation was completed before: nothing is written but the head.
Confirm ==
    /\ At("planned") /\ HasReceipt
    /\ IF State \in receipts /\ Installed(State) THEN Go("installed") ELSE Refuse
    /\ UNCHANGED <<inputs, files>>

Open ==
    /\ At("planned") /\ ~HasReceipt /\ Op \notin opened
    /\ opened' = opened \union {Op}
    /\ Go("opened")
    /\ UNCHANGED <<inputs, staged, ledger, history, memory, bank, sleepState, receipts, head>>

\* Variant: the directory counts as the intent.
StageNothing ==
    /\ At("opened")
    /\ Go("staged")
    /\ UNCHANGED <<inputs, files>>

\* report, memory, state and bank are staged, and intent.json after them.
Stage ==
    /\ At("opened")
    /\ staged' = staged \union {call.op}
    /\ Go("staged")
    /\ UNCHANGED <<inputs, opened, ledger, history, memory, bank, sleepState, receipts, head>>

\* A directory is there already: its intent must be this one.
Resume ==
    /\ At("planned") /\ ~HasReceipt /\ Op \in opened
    /\ IF call.op \in staged THEN Go("staged") ELSE Refuse
    /\ UNCHANGED <<inputs, files>>

\* Variant: the evidence pointer is not looked at again.
RecheckNothing ==
    /\ At("staged")
    /\ Go("rechecked")
    /\ UNCHANGED <<inputs, files>>

Recheck ==
    /\ At("staged")
    /\ IF evidence = Op.evidence THEN Go("rechecked") ELSE Refuse
    /\ UNCHANGED <<inputs, files>>

\* Variant: the event is appended without looking for it.
EnterAgain ==
    /\ At("rechecked")
    /\ ledger' = Append(ledger, call.op)
    /\ Go("entered")
    /\ UNCHANGED <<inputs, opened, staged, history, memory, bank, sleepState, receipts, head>>

\* Find the event of the operation or append it; it authorizes the pointers.
Enter ==
    /\ At("rechecked")
    /\ IF Event(Op) = {} THEN ledger' = Append(ledger, call.op) /\ Go("entered")
       ELSE /\ IF \E i \in Event(Op) : ledger[i] = call.op THEN Go("entered") ELSE Refuse
            /\ UNCHANGED ledger
    /\ UNCHANGED <<inputs, opened, staged, history, memory, bank, sleepState, receipts, head>>

Archive(copies, place, next) ==
    /\ At(place)
    /\ history' = copies
    /\ Go(next)
    /\ UNCHANGED <<inputs, opened, staged, ledger, memory, bank, sleepState, receipts, head>>

\* Variant: memory first, authorization at the end.
ArchiveMemoryEarly ==
    Archive([history EXCEPT !.report = @ \union {Op.analysis}, !.memory = @ \union {Memory(Op)}],
            "staged", "memory archived")

\* The report and the memory of the operation.
ArchiveMemory ==
    Archive([history EXCEPT !.report = @ \union {Op.analysis}, !.memory = @ \union {Memory(Op)}],
            "entered", "memory archived")

PointMemory ==
    /\ At("memory archived")
    /\ memory' = Memory(Op)
    /\ Go("memory")
    /\ UNCHANGED <<inputs, opened, staged, ledger, history, bank, sleepState, receipts, head>>

ArchiveBank ==
    Archive([history EXCEPT !.bank = IF Op.bank = <<>> THEN @ ELSE @ \union {Op.bank}],
            "memory", "bank archived")

\* Variant: only the history has the new bank.
PointNoBank ==
    /\ At("bank archived")
    /\ Go("bank")
    /\ UNCHANGED <<inputs, files>>

\* The active bank is replaced only by the call that promotes.
PointBank ==
    /\ At("bank archived")
    /\ bank' = IF call.promote THEN Op.bank ELSE bank
    /\ Go("bank")
    /\ UNCHANGED <<inputs, opened, staged, ledger, history, memory, sleepState, receipts, head>>

\* The evidence is copied if it is still the same.
ArchiveEvidence ==
    /\ At("bank") /\ (Op.evidence # 0 => evidence = Op.evidence)
    /\ Archive([history EXCEPT !.evidence = IF Op.evidence = 0 THEN @ ELSE @ \union {Op.evidence}],
               "bank", "evidence archived")

EvidenceGone ==
    /\ At("bank") /\ Op.evidence # 0 /\ evidence # Op.evidence
    /\ Refuse
    /\ UNCHANGED <<inputs, files>>

\* Variant: the state has no copy of its own.
ArchiveNoState == Archive(history, "evidence archived", "state archived")

ArchiveState ==
    Archive([history EXCEPT !.state = @ \union {State}], "evidence archived", "state archived")

PointState ==
    /\ At("state archived")
    /\ sleepState' = State
    /\ Go("state")
    /\ UNCHANGED <<inputs, opened, staged, ledger, history, memory, bank, receipts, head>>

WriteReceipt ==
    /\ At("state")
    /\ receipts' = receipts \union {State}
    /\ Go("receipted")
    /\ UNCHANGED <<inputs, opened, staged, ledger, history, memory, bank, sleepState, head>>

\* The whole installation is read again before the call may succeed.
Reopen ==
    /\ At("receipted")
    /\ IF Installed(State) THEN Go("installed") ELSE Refuse
    /\ UNCHANGED <<inputs, files>>

\* advance_canonical_engine_head, and the report is returned.
AdvanceHead ==
    /\ At("installed")
    /\ head' = Snapshot
    /\ call' = Idle
    /\ UNCHANGED <<inputs, opened, staged, ledger, history, memory, bank, sleepState, receipts>>

-----------------------------------------------------------------------------
(* The environment.                                                        *)

\* The process dies or an input or output fails: what was written stays.
Stop ==
    /\ ~At("idle") /\ stops < MaxStops
    /\ stops' = stops + 1
    /\ call' = Idle
    /\ UNCHANGED <<analysis, corpus, evidence, bundles, files>>

\* A bundle arrives; none is withdrawn or comes back.
InstallEvidence ==
    /\ bundles < MaxBundles
    /\ bundles' = bundles + 1
    /\ evidence' = bundles'
    /\ UNCHANGED <<analysis, corpus, stops, call, files>>

\* Another build of the program takes over: it reconstructs anew.
Upgrade ==
    /\ At("idle") /\ analysis < MaxAnalyses
    /\ analysis' = analysis + 1
    /\ UNCHANGED <<corpus, evidence, bundles, stops, call, files>>

\* A learning session is finalized into a new corpus, under the same authority:
\* the pointers of a revoked, healthy runtime leave for the archive and the commit
\* of the new corpus has a memory of its own.  CorpusTransition has the steps.
CommitFinalized ==
    /\ At("idle") /\ analysis < MaxAnalyses
    /\ IntegrityHealthy /\ ~sleepState.key.certified
    /\ analysis + 1 \in Allowed
    /\ analysis' = analysis + 1
    /\ corpus' = analysis'
    /\ evidence' = 0 /\ bank' = <<>> /\ sleepState' = None
    /\ memory' = [commit |-> analysis']
    /\ history' = [history EXCEPT !.report = @ \union {analysis'},
                                  !.memory = @ \union {memory'}]
    /\ head' = Snapshot'
    /\ UNCHANGED <<bundles, stops, call, opened, staged, ledger, receipts>>

Deciding == Measure \/ Judge \/ Confirm \/ Open \/ Stage \/ Resume \/ Recheck \/ Enter
Installing ==
    \/ ArchiveMemory \/ PointMemory \/ ArchiveBank \/ PointBank \/ ArchiveEvidence \/ EvidenceGone
    \/ ArchiveState \/ PointState \/ WriteReceipt \/ Reopen \/ AdvanceHead

Next == Begin \/ Deciding \/ Installing \/ Stop \/ InstallEvidence \/ Upgrade \/ CommitFinalized

Spec == Init /\ [][Next]_vars

\* A call that is not stopped goes on, and the cycle is called again and again.
FairSpec == Spec /\ WF_vars(Begin) /\ WF_vars(Deciding \/ Installing)

-----------------------------------------------------------------------------
(* Properties.                                                             *)

IsKey(k) == /\ k.analysis \in Analysis /\ k.evidence \in Bundle /\ k.certified \in BOOLEAN
            /\ \A i \in DOMAIN k.bank : k.bank[i] \in Analysis
IsState(s) == IsKey(s.key) /\ s.promoted \in BOOLEAN /\ s.judged \in Bundle

\* Types, and the order of the places: a directory precedes its intent, an
\* intent its event.
TypeOK ==
    /\ analysis \in Analysis /\ corpus \in 1..analysis
    /\ bundles \in Bundle /\ evidence \in {0, bundles} /\ stops \in 0..MaxStops
    /\ \A k \in opened : IsKey(k)
    /\ \A op \in staged : IsState(op.state) /\ op.state.key \in opened
    /\ \A i \in DOMAIN ledger : ledger[i] \in staged
    /\ sleepState # None => IsState(sleepState)
    /\ \A s \in receipts : IsState(s)

\* The ledger authorizes: whatever a stop leaves behind, the memory, the bank and
\* the state on disk are those of operations that the ledger has (the memory, until
\* the first of a corpus, that of its commit), and a bank was installed by a
\* certified one.
PointersAreAuthorized ==
    LET ops == {ledger[i].state : i \in DOMAIN ledger}
    IN  /\ memory \notin {None, [commit |-> corpus]} => \E s \in ops : memory = Memory(s.key)
        /\ bank # <<>> => \E s \in ops : bank = s.key.bank /\ s.promoted /\ s.key.certified
        /\ sleepState # None => sleepState \in ops

\* However evidence is replaced while a call reads it twice, what the ledger
\* certifies was certified on the bundle it names.
CertifiedOnItsEvidence ==
    \A i \in DOMAIN ledger :
        LET key == ledger[i].state.key
        IN  key.certified => key.analysis \in Allowed /\ <<key.evidence, key.analysis>> \in Verified

\* Retries never enter an operation twice: the lookup by key would be ambiguous
\* and every later verification would fail.
EnteredOnce ==
    \A i, j \in DOMAIN ledger : ledger[i].state.key = ledger[j].state.key => i = j

\* A receipt, once written, is backed for ever by its event and by a copy of
\* everything it names.
ReceiptsAreBacked ==
    \A s \in receipts : Archived(s) /\ \E i \in DOMAIN ledger : ledger[i].state = s

\* The state on disk never speaks of a bank that is not yet active.
StateBehindBank == sleepState # None => IsPrefix(sleepState.key.bank, bank)

\* A reconstruction is reconciled again only for a reason: a stop or a bundle that
\* came meanwhile.  Repeating the call is none.
PromotionsAreEarned == Len(bank) <= stops + bundles

\* When execution is authorized, the active bank ends with the reconstruction of
\* the corpus on disk, and the bundle on disk verifies it.
AuthorizedIsJustified ==
    ExecutionAuthorized =>
        /\ Last(bank) = analysis
        /\ analysis \in Allowed /\ <<evidence, analysis>> \in Verified

\* The operation a cycle would plan in a quiet moment.
Current == Plan(evidence, evidence).op.state.key

Settled ==
    /\ sleepState # None /\ sleepState.key = Current
    /\ sleepState \in receipts /\ Installed(sleepState)
    /\ head = Snapshot

\* States in which every cycle is refused until a bundle arrives: the
\* call that began the operation stopped before its intent, or there is no bank
\* and the revoked installation is not in place as its receipt says.
Jammed ==
    \/ Current \in opened /\ ~\E op \in staged : op.state.key = Current
    \/ ~MayBegin

\* After the last stop, bundle and change of analysis, calling again installs the current
\* operation completely, whatever was left behind, unless it is jammed.
SleepSettles == <>[](Settled \/ Jammed)

\* The files, after any number of stops: pointers the ledger authorizes, receipts
\* with all they name, one event for an operation, no state ahead of its bank.
FilesAreAuthorized ==
    TypeOK /\ PointersAreAuthorized /\ StateBehindBank /\ EnteredOnce /\ ReceiptsAreBacked

\* What the ledger certifies and what the runtime executes rest on their evidence.
CertificatesAreJustified == CertifiedOnItsEvidence /\ AuthorizedIsJustified
=============================================================================
