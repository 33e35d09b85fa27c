-------------------------- MODULE SleepCycleProofs --------------------------
(***************************************************************************)
(* What the run checks of the sleep cycle, for any number of               *)
(* reconstructions, bundles and stops, whatever the gate allows and        *)
(* whatever the bundles verify.                                            *)
(***************************************************************************)
EXTENDS SleepCycle, TLAPS

-----------------------------------------------------------------------------
(* The places of a call, in the order it passes them. *)

Preparing == {"planned", "opened", "staged"}
Entering == {"rechecked", "entered", "memory archived", "memory", "bank archived"}
Halfway == {"bank", "evidence archived", "state archived"}
Closing == {"state", "receipted"}
Planned == Preparing \union Entering \union Halfway \union Closing

HasDirectory == Planned \ {"planned"}
HasIntent == Planned \ {"planned", "opened"}
HasEvent == HasIntent \ {"staged", "rechecked"}
HasMemory == HasEvent \ {"entered"}
HasBank == HasMemory \ {"memory archived", "memory"}
HasEvidence == HasBank \ {"bank archived", "bank"}
HasState == HasEvidence \ {"evidence archived"}

-----------------------------------------------------------------------------
(* The inductive invariant. *)

Types ==
    /\ analysis \in Analysis /\ corpus \in 1..analysis
    /\ bundles \in Bundle /\ evidence \in {0, bundles} /\ stops \in 0..MaxStops
    /\ opened \subseteq Keys
    /\ staged \subseteq Operation /\ \A op \in staged : op.state.key \in opened
    /\ ledger \in Seq(Operation) /\ \A i \in DOMAIN ledger : ledger[i] \in staged
    /\ bank \in Seq(Analysis)
    /\ sleepState \in States \union {None}
    /\ receipts \subseteq States
    /\ history = [report |-> history.report, memory |-> history.memory, bank |-> history.bank,
                  evidence |-> history.evidence, state |-> history.state]

\* A call that has decided has an operation.
CallTypes ==
    /\ call.at \in {"idle", "authorized", "measured", "installed"} \union Planned
    /\ call.at = "measured" => call.evidence \in Bundle /\ call.evidence <= evidence
    /\ call.at \in Planned =>
          /\ call = [at |-> call.at, promote |-> call.promote, op |-> call.op]
          /\ call.promote \in BOOLEAN /\ call.op \in Operation

\* What a call has done when it has reached a place.
CallKnows ==
    /\ call.at \in HasDirectory => Op \in opened
    /\ call.at \in HasIntent => call.op \in staged
    /\ call.at \in HasEvent => \E i \in DOMAIN ledger : ledger[i] = call.op
    /\ call.at \in HasMemory => Op.analysis \in history.report /\ Memory(Op) \in history.memory
    /\ call.at \in HasBank => Op.bank = <<>> \/ Op.bank \in history.bank
    /\ call.at \in HasEvidence => Op.evidence = 0 \/ Op.evidence \in history.evidence
    /\ call.at \in HasState => State \in history.state

\* A certified operation puts its reconstruction at the end of the bank.
Headed(key) == key.certified => key.bank # <<>> /\ Last(key.bank) = key.analysis
Justified(key, e) == key.certified <=> (key.analysis \in Allowed /\ <<e, key.analysis>> \in Verified)

\* What a call has decided stays true of the bank and the evidence while it lasts.
CallStands ==
    /\ call.at \in Planned =>
          /\ Op.analysis = analysis /\ Headed(Op)
          /\ call.promote => Op.certified /\ State.promoted
    /\ call.at \in Preparing =>
          \E j \in Bundle : Op.evidence <= j /\ j <= evidence /\ Justified(Op, j)
    /\ call.at \in Planned \ Preparing => Justified(Op, Op.evidence)
    /\ call.at \in Preparing \union Entering =>
          Op.bank = IF call.promote THEN Append(bank, analysis) ELSE bank
    /\ call.at \in Halfway => bank = Op.bank

\* What the ledger has is justified, and not of the future.
LedgerIsJustified ==
    \A i \in DOMAIN ledger :
        LET key == ledger[i].state.key
        IN  Justified(key, key.evidence) /\ Headed(key) /\ key.analysis <= analysis

\* The bank ends with a reconstruction as late as that of the certified state.
BankIsAhead ==
    sleepState # None /\ sleepState.key.certified =>
        bank # <<>> /\ sleepState.key.analysis <= Last(bank)

\* A promotion that a call has decided and not yet made, or not yet described.
Pending == call.at \in Preparing \union Entering /\ call.promote
Promoting == call.at \in Preparing \union Entering \union Halfway /\ call.promote
Promotions == Len(bank) + (IF Pending THEN 1 ELSE 0)

Used(a) ==
    \/ sleepState # None /\ sleepState.key.certified /\ sleepState.key.analysis = a
    \/ Promoting /\ Op.analysis = a

\* When every stop and bundle is spent, what the bundle of the moment verifies has
\* been promoted, and the bundle of the moment is that of the call.
ReasonsAreSpent ==
    /\ Promotions <= stops + bundles
    /\ Promotions = stops + bundles =>
          /\ \A a \in Allowed : a >= analysis /\ <<evidence, a>> \in Verified => Used(a)
          /\ call.at \in Entering \union Halfway => evidence = Op.evidence

IInv ==
    /\ Types /\ CallTypes /\ CallKnows /\ CallStands
    /\ LedgerIsJustified /\ BankIsAhead /\ ReasonsAreSpent
    /\ PointersAreAuthorized /\ StateBehindBank /\ EnteredOnce /\ ReceiptsAreBacked

-----------------------------------------------------------------------------
(* What everything rests on. *)

\* The numbers are numbers, and None is no state.
LEMMA Numbers ==
    /\ MaxAnalyses \in Nat \ {0} /\ MaxBundles \in Nat /\ MaxStops \in Nat
    /\ Analysis \subseteq Nat /\ Bundle \subseteq Nat /\ 0 \in Bundle /\ 1 \in Analysis
BY SleepAssumption DEF Analysis, Bundle

\* A call that goes on to a place is the same call.
LEMMA GoesOn ==
    ASSUME CallTypes, call.at \in Planned, NEW place, Go(place)
    PROVE  /\ call' = [at |-> place, promote |-> call.promote, op |-> call.op]
           /\ call'.at = place /\ call'.promote = call.promote /\ call'.op = call.op
           /\ State' = State /\ Op' = Op
<1>1. call = [at |-> call.at, promote |-> call.promote, op |-> call.op]
  BY DEF CallTypes
<1>2. call' = [at |-> place, promote |-> call.promote, op |-> call.op]
  BY <1>1 DEF Go
<1> QED BY <1>2 DEF State, Op

\* The key of the operation of a call has its parts.
LEMMA OperationOfCall ==
    ASSUME CallTypes, call.at \in Planned
    PROVE  /\ State \in States /\ Op \in Keys
           /\ Op.analysis \in Analysis /\ Op.evidence \in Bundle /\ Op.certified \in BOOLEAN
           /\ Op.bank \in Seq(Analysis)
BY DEF CallTypes, Operation, States, Keys, State, Op

\* Bank and bundles are counted.
LEMMA Counts ==
    ASSUME Types
    PROVE  /\ Len(bank) \in Nat /\ stops \in Nat /\ bundles \in Nat /\ evidence \in Nat
           /\ analysis \in Nat /\ evidence \in Bundle
           /\ Promotions \in Nat /\ Len(bank) <= Promotions
BY Numbers DEF Types, Promotions

\* A bank is a prefix of itself and of the bank it becomes.
LEMMA PrefixGrows ==
    ASSUME NEW S, NEW s \in Seq(S), NEW t \in Seq(S), NEW x \in S
    PROVE  /\ IsPrefix(t, t) /\ IsPrefix(<<>>, t)
           /\ IsPrefix(s, t) => IsPrefix(s, Append(t, x))
           /\ ~IsPrefix(Append(t, x), t)
           /\ IsPrefix(s, t) /\ s # <<>> => t # <<>>
           /\ Append(t, x) # <<>> /\ Last(Append(t, x)) = x
BY DEF IsPrefix, Last

\* Nothing has happened: the invariant holds.
LEMMA InitEstablishes == Init => IInv
<1> SUFFICES ASSUME Init PROVE IInv
  OBVIOUS
<1> USE Numbers DEF Init, Idle
<1>1. Types
  BY DEF Types
<1>2. CallTypes /\ CallKnows /\ CallStands
  BY DEF CallTypes, CallKnows, CallStands, Planned, Preparing, Entering, Halfway, Closing,
         HasDirectory, HasIntent, HasEvent, HasMemory, HasBank, HasEvidence, HasState
<1>3. LedgerIsJustified /\ BankIsAhead
  BY DEF LedgerIsJustified, BankIsAhead
<1>4. ReasonsAreSpent
  <2>1. \A a : <<0, a>> \notin Verified
    BY SleepAssumption
  <2> QED BY <2>1 DEF ReasonsAreSpent, Promotions, Pending, Preparing, Entering, Halfway
<1>5. PointersAreAuthorized /\ StateBehindBank /\ EnteredOnce /\ ReceiptsAreBacked
  BY DEF PointersAreAuthorized, StateBehindBank, EnteredOnce, ReceiptsAreBacked
<1> QED BY <1>1, <1>2, <1>3, <1>4, <1>5 DEF IInv
-----------------------------------------------------------------------------
(* A call that ends, or has nothing to install, leaves what the files say. *)

\* A call may stop promoting anywhere, but between bank and state only for a reason.
LEMMA ReasonsOutlive ==
    ASSUME IInv, call'.at \notin Preparing \union Entering \union Halfway,
           UNCHANGED <<analysis, evidence, bundles, bank, sleepState>>,
           \/ stops' = stops /\ (call.at \in Halfway => evidence # Op.evidence)
           \/ stops' = stops + 1
    PROVE  ReasonsAreSpent'
<1>1. /\ Len(bank) \in Nat /\ stops \in Nat /\ bundles \in Nat /\ Promotions \in Nat
      /\ Len(bank) <= Promotions /\ Promotions <= stops + bundles
  BY Counts DEF IInv, ReasonsAreSpent
<1>2. ~Promoting' /\ ~Pending'
  BY DEF Pending, Promoting
<1>3. Promotions' = Len(bank)
  BY <1>1, <1>2 DEF Promotions
<1>4. CASE Len(bank) < stops' + bundles
  <2>1. Promotions' <= (stops + bundles)' /\ Promotions' # (stops + bundles)'
    BY <1>1, <1>3, <1>4
  <2> QED BY <2>1 DEF ReasonsAreSpent
<1>5. CASE ~(Len(bank) < stops' + bundles)
  <2>1. stops' = stops /\ Promotions = stops + bundles /\ Len(bank) = Promotions
    BY <1>1, <1>5
  <2>2. call.at \notin Halfway
    BY <1>1, <2>1 DEF IInv, ReasonsAreSpent
  <2>3. ~Pending
    BY <1>1, <2>1 DEF Promotions
  <2>4. ~Promoting
    BY <2>2, <2>3 DEF Promoting, Pending
  <2>5. \A a : Used(a) => Used(a)'
    BY <2>4 DEF Used
  <2>6. \A a \in Allowed : a >= analysis /\ <<evidence, a>> \in Verified => Used(a)
    BY <2>1 DEF IInv, ReasonsAreSpent
  <2> QED BY <1>1, <1>3, <2>1, <2>5, <2>6 DEF ReasonsAreSpent
<1> QED BY <1>4, <1>5

\* What the files say does not depend on the call.
LEMMA FilesKeep ==
    ASSUME IInv, UNCHANGED <<analysis, corpus, ledger, history, memory, bank, sleepState, receipts>>
    PROVE  /\ LedgerIsJustified' /\ BankIsAhead'
           /\ PointersAreAuthorized' /\ StateBehindBank' /\ EnteredOnce' /\ ReceiptsAreBacked'
BY DEF IInv, LedgerIsJustified, BankIsAhead, PointersAreAuthorized, StateBehindBank, EnteredOnce,
       ReceiptsAreBacked, Archived

\* The call ends, or it begins, or it measures the evidence, or it has nothing to
\* install; the canonical head may advance.
LEMMA QuietKeeps ==
    ASSUME IInv, UNCHANGED <<analysis, corpus, evidence, bundles>>,
           UNCHANGED <<opened, staged, ledger, history, memory, bank, sleepState, receipts>>,
           \/ stops' = stops /\ (call.at \in Halfway => evidence # Op.evidence)
           \/ stops' = stops + 1 /\ stops' \in 0..MaxStops,
           \/ call' = Idle \/ call' = [at |-> "authorized"]
           \/ call' = [at |-> "measured", evidence |-> evidence]
           \/ call.at \in Planned /\ Go("installed")
    PROVE  IInv'
<1>1. call'.at \in {"idle", "authorized", "measured", "installed"}
  BY GoesOn DEF IInv, Idle
<1>2. call'.at = "measured" => call'.evidence = evidence
  BY GoesOn DEF IInv, Idle
<1>3. Types'
  BY DEF IInv, Types
<1>4. call'.at \notin Planned /\ call'.at \notin Preparing \union Entering \union Halfway
  BY <1>1 DEF Planned, Preparing, Entering, Halfway, Closing
<1>5. CallTypes'
  <2>1. evidence \in Bundle /\ evidence <= evidence
    BY Counts DEF IInv
  <2> QED BY <1>1, <1>2, <1>4, <2>1 DEF CallTypes
<1>6. CallKnows' /\ CallStands'
  BY <1>4 DEF CallKnows, CallStands, Planned, Preparing, Entering, Halfway, Closing,
     HasDirectory, HasIntent, HasEvent, HasMemory, HasBank, HasEvidence, HasState
<1>7. ReasonsAreSpent'
  BY <1>4, ReasonsOutlive
<1> QED BY <1>3, <1>5, <1>6, <1>7, FilesKeep DEF IInv
-----------------------------------------------------------------------------
(* A call that goes on. *)

\* What a call has decided still stands when it goes on and touches neither the bank
\* nor the state; the evidence it has read again is that of its operation.
LEMMA GoingOnStands ==
    ASSUME IInv, call.at \in Planned, NEW place, Go(place),
           UNCHANGED <<inputs, bank, sleepState>>,
           \/ call.at \in Preparing /\ place \in Preparing
           \/ call.at \in Preparing /\ place = "rechecked" /\ evidence = Op.evidence
           \/ call.at \in Entering /\ place \in Entering
           \/ call.at \in Halfway /\ place \in Halfway
           \/ call.at \in Closing /\ place \in Closing
    PROVE  CallTypes' /\ CallStands' /\ ReasonsAreSpent' /\ BankIsAhead' /\ StateBehindBank'
<1>1. /\ call' = [at |-> place, promote |-> call.promote, op |-> call.op]
      /\ call'.at = place /\ call'.promote = call.promote /\ call'.op = call.op
      /\ State' = State /\ Op' = Op
  BY GoesOn DEF IInv
<1>2. place \in Planned /\ place # "measured"
  BY DEF Planned, Preparing, Entering, Halfway, Closing
<1>3. UNCHANGED <<analysis, evidence, bundles, stops, bank, sleepState>>
  BY DEF inputs
<1>4. CallTypes'
  BY <1>1, <1>2 DEF IInv, CallTypes
<1>5. CallStands'
  <2>1. /\ Op.analysis = analysis /\ Headed(Op)
        /\ call.promote => Op.certified /\ State.promoted
    BY DEF IInv, CallStands
  <2>2. place \in Preparing =>
          \E j \in Bundle : Op.evidence <= j /\ j <= evidence /\ Justified(Op, j)
    BY DEF IInv, CallStands, Preparing, Entering, Halfway, Closing
  <2>3. place \in Planned \ Preparing => Justified(Op, Op.evidence)
    <3> SUFFICES ASSUME place \in Planned \ Preparing PROVE Justified(Op, Op.evidence)
      OBVIOUS
    <3>1. CASE call.at \in Preparing /\ evidence = Op.evidence
      <4>1. PICK j \in Bundle : Op.evidence <= j /\ j <= evidence /\ Justified(Op, j)
        BY <3>1 DEF IInv, CallStands
      <4>2. j = Op.evidence
        BY <3>1, <4>1, Numbers, Counts, OperationOfCall DEF IInv
      <4> QED BY <4>1, <4>2
    <3>2. CASE call.at \in Planned \ Preparing
      BY <3>2 DEF IInv, CallStands
    <3> QED BY <3>1, <3>2 DEF Planned, Preparing, Entering, Halfway, Closing
  <2>4. place \in Preparing \union Entering =>
          Op.bank = IF call.promote THEN Append(bank, analysis) ELSE bank
    BY DEF IInv, CallStands, Preparing, Entering, Halfway, Closing
  <2>5. place \in Halfway => bank = Op.bank
    BY DEF IInv, CallStands, Preparing, Entering, Halfway, Closing
  <2> QED BY <1>1, <1>3, <2>1, <2>2, <2>3, <2>4, <2>5 DEF CallStands, Headed, Justified
<1>6. ReasonsAreSpent'
  <2>1. (Pending' <=> Pending) /\ (Promoting' <=> Promoting)
    BY <1>1 DEF Pending, Promoting, Preparing, Entering, Halfway, Closing
  <2>2. Promotions' = Promotions
    BY <1>3, <2>1 DEF Promotions
  <2>3. \A a : Used(a)' <=> Used(a)
    BY <1>1, <1>3, <2>1 DEF Used
  <2>4. place \in Entering \union Halfway => evidence = Op.evidence \/ call.at \in Entering \union Halfway
    BY DEF Preparing, Entering, Halfway, Closing
  <2> QED BY <1>1, <1>3, <2>2, <2>3, <2>4 DEF IInv, ReasonsAreSpent
<1> QED BY <1>1, <1>3, <1>4, <1>5, <1>6 DEF IInv, BankIsAhead, StateBehindBank

\* A directory is made, or an intent is found in one.
LEMMA OpenKeeps ==
    ASSUME IInv, Open \/ (Resume /\ call' # Idle)
    PROVE  IInv'
<1>1. /\ call.at = "planned" /\ call.at \in Planned /\ opened \subseteq opened'
      /\ UNCHANGED <<inputs, staged, ledger, history, memory, bank, sleepState, receipts>>
  BY DEF Open, Resume, At, files, Planned, Preparing
<1>2. PICK place \in {"opened", "staged"} : Go(place) /\ (place = "staged" => call.op \in staged)
  BY DEF Open, Resume, Refuse
<1>3. CallTypes' /\ CallStands' /\ ReasonsAreSpent' /\ BankIsAhead' /\ StateBehindBank'
  BY <1>1, <1>2, GoingOnStands DEF Preparing
<1>4. Types'
  <2>1. opened' \subseteq Keys
    BY <1>1, OperationOfCall DEF Open, Resume, files, IInv, Types
  <2> QED BY <1>1, <2>1 DEF IInv, Types, inputs
<1>5. CallKnows'
  <2>1. call'.at = place /\ call'.op = call.op /\ Op' = Op
    BY <1>1, <1>2, GoesOn DEF IInv
  <2>2. Op \in opened'
    BY DEF Open, Resume, files
  <2> QED BY <1>1, <1>2, <2>1, <2>2 DEF CallKnows, Planned, Preparing, Entering, Halfway, Closing,
         HasDirectory, HasIntent, HasEvent, HasMemory, HasBank, HasEvidence, HasState
<1> QED BY <1>1, <1>3, <1>4, <1>5, FilesKeep DEF IInv, inputs

\* The intent is staged.
LEMMA StageKeeps ==
    ASSUME IInv, Stage
    PROVE  IInv'
<1>1. /\ call.at = "opened" /\ call.at \in Planned /\ Go("staged")
      /\ staged' = staged \union {call.op}
      /\ UNCHANGED <<inputs, opened, ledger, history, memory, bank, sleepState, receipts>>
  BY DEF Stage, At, Planned, Preparing
<1>2. call'.at = "staged" /\ call'.op = call.op
  BY <1>1, GoesOn DEF IInv
<1>3. CallTypes' /\ CallStands' /\ ReasonsAreSpent' /\ BankIsAhead' /\ StateBehindBank'
  BY <1>1, GoingOnStands DEF Preparing
<1>4. call.op \in Operation /\ call.op.state.key \in opened
  BY <1>1 DEF IInv, CallTypes, CallKnows, HasDirectory, Op, State
<1>5. Types'
  BY <1>1, <1>4 DEF IInv, Types, inputs
<1>6. CallKnows'
  BY <1>1, <1>2, <1>4 DEF CallKnows, Planned, Preparing, Entering, Halfway, Closing, Op, State,
         HasDirectory, HasIntent, HasEvent, HasMemory, HasBank, HasEvidence, HasState
<1> QED BY <1>1, <1>3, <1>5, <1>6, FilesKeep DEF IInv, inputs

\* The evidence is the same as when it was measured: the operation may be entered.
LEMMA RecheckKeeps ==
    ASSUME IInv, Recheck, call' # Idle
    PROVE  IInv'
<1>1. /\ call.at = "staged" /\ call.at \in Planned /\ Go("rechecked") /\ evidence = Op.evidence
      /\ UNCHANGED <<inputs, opened, staged, ledger, history, memory, bank, sleepState, receipts>>
  BY DEF Recheck, Refuse, At, files, Planned, Preparing
<1>2. call'.at = "rechecked" /\ call'.op = call.op /\ Op' = Op
  BY <1>1, GoesOn DEF IInv
<1>3. CallTypes' /\ CallStands' /\ ReasonsAreSpent' /\ BankIsAhead' /\ StateBehindBank'
  BY <1>1, GoingOnStands DEF Preparing
<1>4. Types'
  BY <1>1 DEF IInv, Types, inputs
<1>5. CallKnows'
  BY <1>1, <1>2 DEF IInv, CallKnows, Planned, Preparing, Entering, Halfway, Closing,
         HasDirectory, HasIntent, HasEvent, HasMemory, HasBank, HasEvidence, HasState
<1> QED BY <1>1, <1>3, <1>4, <1>5, FilesKeep DEF IInv, inputs

\* What is appended to a sequence is its only new element.
LEMMA AppendAdds ==
    ASSUME NEW S, NEW s \in Seq(S), NEW x \in S
    PROVE  /\ Append(s, x) \in Seq(S)
           /\ DOMAIN s \subseteq DOMAIN Append(s, x)
           /\ \A i \in DOMAIN s : Append(s, x)[i] = s[i]
           /\ \A i \in DOMAIN Append(s, x) \ DOMAIN s : Append(s, x)[i] = x
           /\ \A i, j \in DOMAIN Append(s, x) \ DOMAIN s : i = j
           /\ \E i \in DOMAIN Append(s, x) : Append(s, x)[i] = x
<1>1. /\ Len(s) \in Nat /\ DOMAIN s = 1..Len(s)
      /\ DOMAIN Append(s, x) = 1..(Len(s) + 1) /\ Append(s, x)[Len(s) + 1] = x
      /\ Append(s, x) \in Seq(S)
  OBVIOUS
<1>2. \A n \in Nat : \A i \in 1..(n + 1) : i \notin 1..n => i = n + 1
  OBVIOUS
<1>3. \A n \in Nat : n + 1 \in 1..(n + 1) /\ 1..n \subseteq 1..(n + 1)
  OBVIOUS
<1>4. \A i \in DOMAIN s : Append(s, x)[i] = s[i]
  OBVIOUS
<1> QED BY <1>1, <1>2, <1>3, <1>4

\* The event of the operation is found, or appended when there is none.
LEMMA EnterKeeps ==
    ASSUME IInv, Enter, call' # Idle
    PROVE  IInv'
<1>1. /\ call.at = "rechecked" /\ call.at \in Planned /\ Go("entered")
      /\ UNCHANGED <<inputs, opened, staged, history, memory, bank, sleepState, receipts>>
      /\ \/ Event(Op) = {} /\ ledger' = Append(ledger, call.op)
         \/ (\E i \in Event(Op) : ledger[i] = call.op) /\ ledger' = ledger
  BY DEF Enter, Refuse, At, Planned, Entering
<1>2. call'.at = "entered" /\ call'.op = call.op /\ Op' = Op
  BY <1>1, GoesOn DEF IInv
<1>3. CallTypes' /\ CallStands' /\ ReasonsAreSpent' /\ BankIsAhead' /\ StateBehindBank'
  BY <1>1, GoingOnStands DEF Entering
<1>4. /\ call.op \in Operation /\ call.op \in staged /\ call.op.state.key = Op
      /\ Justified(Op, Op.evidence) /\ Headed(Op) /\ Op.analysis <= analysis
  BY <1>1, Counts DEF IInv, CallTypes, CallKnows, CallStands, HasIntent, Planned, Preparing, Entering,
     Op, State
<1>5. /\ ledger \in Seq(Operation) /\ ledger' \in Seq(Operation)
      /\ DOMAIN ledger \subseteq DOMAIN ledger'
      /\ \A i \in DOMAIN ledger : ledger'[i] = ledger[i]
      /\ \A i \in DOMAIN ledger' \ DOMAIN ledger : ledger'[i] = call.op /\ Event(Op) = {}
      /\ \A i, j \in DOMAIN ledger' \ DOMAIN ledger : i = j
      /\ \E i \in DOMAIN ledger' : ledger'[i] = call.op
  <2>1. ledger \in Seq(Operation)
    BY DEF IInv, Types
  <2>2. CASE Event(Op) = {} /\ ledger' = Append(ledger, call.op)
    BY <1>4, <2>1, <2>2, AppendAdds
  <2>3. CASE (\E i \in Event(Op) : ledger[i] = call.op) /\ ledger' = ledger
    BY <2>1, <2>3 DEF Event
  <2> QED BY <1>1, <2>2, <2>3
<1>6. Types'
  <2>1. \A i \in DOMAIN ledger' : ledger'[i] \in staged
    BY <1>4, <1>5 DEF IInv, Types
  <2> QED BY <1>1, <1>5, <2>1 DEF IInv, Types, inputs
<1>7. CallKnows'
  BY <1>1, <1>2, <1>5 DEF IInv, CallKnows, Planned, Preparing, Entering, Halfway, Closing,
         HasDirectory, HasIntent, HasEvent, HasMemory, HasBank, HasEvidence, HasState
<1>8. LedgerIsJustified'
  <2>1. \A i \in DOMAIN ledger' :
           LET key == ledger'[i].state.key
           IN  Justified(key, key.evidence) /\ Headed(key) /\ key.analysis <= analysis
    BY <1>4, <1>5 DEF IInv, LedgerIsJustified
  <2> QED BY <1>1, <2>1 DEF LedgerIsJustified, inputs, Justified, Headed
<1>9. EnteredOnce'
  <2>1. \A i \in DOMAIN ledger, j \in DOMAIN ledger' \ DOMAIN ledger :
           ledger'[i].state.key # ledger'[j].state.key
    BY <1>4, <1>5 DEF Event
  <2> QED BY <1>5, <2>1 DEF IInv, EnteredOnce
<1>10. PointersAreAuthorized' /\ ReceiptsAreBacked'
  BY <1>1, <1>5 DEF IInv, PointersAreAuthorized, ReceiptsAreBacked, Archived, inputs
<1> QED BY <1>3, <1>6, <1>7, <1>8, <1>9, <1>10 DEF IInv
-----------------------------------------------------------------------------
(* Copies, pointers and the receipt. *)

\* The copies that are kept: nothing is taken away from them.
Grows ==
    /\ history' = [report |-> history'.report, memory |-> history'.memory, bank |-> history'.bank,
                   evidence |-> history'.evidence, state |-> history'.state]
    /\ history.report \subseteq history'.report /\ history.memory \subseteq history'.memory
    /\ history.bank \subseteq history'.bank /\ history.evidence \subseteq history'.evidence
    /\ history.state \subseteq history'.state

\* The report and the memory, the bank, the evidence, the state are copied.
LEMMA ArchiveKeeps ==
    ASSUME IInv, ArchiveMemory \/ ArchiveBank \/ ArchiveEvidence \/ ArchiveState
    PROVE  IInv'
<1>1. /\ UNCHANGED <<inputs, opened, staged, ledger, memory, bank, sleepState, receipts>>
      /\ history = [report |-> history.report, memory |-> history.memory, bank |-> history.bank,
                    evidence |-> history.evidence, state |-> history.state]
  BY DEF ArchiveMemory, ArchiveBank, ArchiveEvidence, ArchiveState, Archive, IInv, Types
<1>2. PICK next \in {"memory archived", "bank archived", "evidence archived", "state archived"} :
         /\ Go(next) /\ call.at \in Planned
         /\ (call.at \in Entering /\ next \in Entering) \/ (call.at \in Halfway /\ next \in Halfway)
         /\ next = "memory archived" => call.at = "entered"
         /\ next = "bank archived" => call.at = "memory"
         /\ next = "evidence archived" => call.at = "bank"
         /\ next = "state archived" => call.at = "evidence archived"
  BY DEF ArchiveMemory, ArchiveBank, ArchiveEvidence, ArchiveState, Archive, At, Planned, Entering,
         Halfway
<1>3. /\ Grows
      /\ next = "memory archived" =>
            Op.analysis \in history'.report /\ Memory(Op) \in history'.memory
      /\ next = "bank archived" => Op.bank = <<>> \/ Op.bank \in history'.bank
      /\ next = "evidence archived" => Op.evidence = 0 \/ Op.evidence \in history'.evidence
      /\ next = "state archived" => State \in history'.state
  <2>1. CASE ArchiveMemory
    <3>1. history' = [report |-> history.report \union {Op.analysis},
                      memory |-> history.memory \union {Memory(Op)}, bank |-> history.bank,
                      evidence |-> history.evidence, state |-> history.state]
      BY <1>1, <2>1 DEF ArchiveMemory, Archive
    <3>2. next = "memory archived"
      BY <1>2, <2>1 DEF ArchiveMemory, Archive, At
    <3> QED BY <1>1, <3>1, <3>2 DEF Grows
  <2>2. CASE ArchiveBank
    <3>1. history' = [report |-> history.report, memory |-> history.memory,
                      bank |-> IF Op.bank = <<>> THEN history.bank
                               ELSE history.bank \union {Op.bank},
                      evidence |-> history.evidence, state |-> history.state]
      BY <1>1, <2>2 DEF ArchiveBank, Archive
    <3>2. next = "bank archived"
      BY <1>2, <2>2 DEF ArchiveBank, Archive, At
    <3> QED BY <1>1, <3>1, <3>2 DEF Grows
  <2>3. CASE ArchiveEvidence
    <3>1. history' = [report |-> history.report, memory |-> history.memory, bank |-> history.bank,
                      evidence |-> IF Op.evidence = 0 THEN history.evidence
                                   ELSE history.evidence \union {Op.evidence},
                      state |-> history.state]
      BY <1>1, <2>3 DEF ArchiveEvidence, Archive
    <3>2. next = "evidence archived"
      BY <1>2, <2>3 DEF ArchiveEvidence, Archive, At
    <3> QED BY <1>1, <3>1, <3>2 DEF Grows
  <2>4. CASE ArchiveState
    <3>1. history' = [report |-> history.report, memory |-> history.memory, bank |-> history.bank,
                      evidence |-> history.evidence, state |-> history.state \union {State}]
      BY <1>1, <2>4 DEF ArchiveState, Archive
    <3>2. next = "state archived"
      BY <1>2, <2>4 DEF ArchiveState, Archive, At
    <3> QED BY <1>1, <3>1, <3>2 DEF Grows
  <2> QED BY <2>1, <2>2, <2>3, <2>4
<1>4. call'.at = next /\ call'.op = call.op /\ Op' = Op /\ State' = State
  BY <1>2, GoesOn DEF IInv
<1>5. CallTypes' /\ CallStands' /\ ReasonsAreSpent' /\ BankIsAhead' /\ StateBehindBank'
  BY <1>1, <1>2, GoingOnStands
<1>6. Types'
  BY <1>1, <1>3 DEF IInv, Types, inputs, Grows
<1>7. CallKnows'
  BY <1>1, <1>2, <1>3, <1>4 DEF IInv, CallKnows, Grows, Planned, Preparing, Entering, Halfway, Closing,
     HasDirectory, HasIntent, HasEvent, HasMemory, HasBank, HasEvidence, HasState, Memory
<1>8. ReceiptsAreBacked'
  BY <1>1, <1>3 DEF IInv, ReceiptsAreBacked, Archived, Grows
<1>9. LedgerIsJustified' /\ PointersAreAuthorized' /\ EnteredOnce'
  BY <1>1 DEF IInv, LedgerIsJustified, PointersAreAuthorized, EnteredOnce, inputs
<1> QED BY <1>5, <1>6, <1>7, <1>8, <1>9 DEF IInv

\* The memory is that of an operation in the ledger.
LEMMA PointMemoryKeeps ==
    ASSUME IInv, PointMemory
    PROVE  IInv'
<1>1. /\ call.at = "memory archived" /\ call.at \in Planned /\ Go("memory") /\ memory' = Memory(Op)
      /\ UNCHANGED <<inputs, opened, staged, ledger, history, bank, sleepState, receipts>>
  BY DEF PointMemory, At, Planned, Entering
<1>2. call'.at = "memory" /\ call'.op = call.op /\ Op' = Op
  BY <1>1, GoesOn DEF IInv
<1>3. CallTypes' /\ CallStands' /\ ReasonsAreSpent' /\ BankIsAhead' /\ StateBehindBank'
  BY <1>1, GoingOnStands DEF Entering
<1>4. Types'
  BY <1>1 DEF IInv, Types, inputs
<1>5. CallKnows'
  BY <1>1, <1>2 DEF IInv, CallKnows, Planned, Preparing, Entering, Halfway, Closing,
         HasDirectory, HasIntent, HasEvent, HasMemory, HasBank, HasEvidence, HasState
<1>6. PointersAreAuthorized'
  <2>1. \E i \in DOMAIN ledger : memory' = Memory(ledger[i].state.key)
    BY <1>1 DEF IInv, CallKnows, HasEvent, HasIntent, Planned, Entering, Op, State
  <2> QED BY <1>1, <2>1 DEF IInv, PointersAreAuthorized, inputs
<1>7. LedgerIsJustified' /\ EnteredOnce' /\ ReceiptsAreBacked'
  BY <1>1 DEF IInv, LedgerIsJustified, EnteredOnce, ReceiptsAreBacked, Archived, inputs
<1> QED BY <1>3, <1>4, <1>5, <1>6, <1>7 DEF IInv

\* The receipt is written when the operation has its event and all its copies.
LEMMA WriteReceiptKeeps ==
    ASSUME IInv, WriteReceipt
    PROVE  IInv'
<1>1. /\ call.at = "state" /\ call.at \in Planned /\ Go("receipted")
      /\ receipts' = receipts \union {State}
      /\ UNCHANGED <<inputs, opened, staged, ledger, history, memory, bank, sleepState>>
  BY DEF WriteReceipt, At, Planned, Closing
<1>2. call'.at = "receipted" /\ call'.op = call.op /\ Op' = Op /\ State' = State
  BY <1>1, GoesOn DEF IInv
<1>3. CallTypes' /\ CallStands' /\ ReasonsAreSpent' /\ BankIsAhead' /\ StateBehindBank'
  BY <1>1, GoingOnStands DEF Closing
<1>4. Types'
  BY <1>1, OperationOfCall DEF IInv, Types, inputs
<1>5. CallKnows'
  BY <1>1, <1>2 DEF IInv, CallKnows, Planned, Preparing, Entering, Halfway, Closing,
         HasDirectory, HasIntent, HasEvent, HasMemory, HasBank, HasEvidence, HasState
<1>6. ReceiptsAreBacked'
  <2>1. Archived(State) /\ \E i \in DOMAIN ledger : ledger[i].state = State
    BY <1>1 DEF IInv, CallKnows, Archived, Planned, Closing, State, Op,
       HasDirectory, HasIntent, HasEvent, HasMemory, HasBank, HasEvidence, HasState
  <2> QED BY <1>1, <2>1 DEF IInv, ReceiptsAreBacked, Archived
<1>7. LedgerIsJustified' /\ PointersAreAuthorized' /\ EnteredOnce'
  BY <1>1 DEF IInv, LedgerIsJustified, PointersAreAuthorized, EnteredOnce, inputs
<1> QED BY <1>3, <1>4, <1>5, <1>6, <1>7 DEF IInv
\* Only a promotion replaces the bank, by the one that its operation names.
LEMMA PointBankKeeps ==
    ASSUME IInv, PointBank
    PROVE  IInv'
<1>1. /\ call.at = "bank archived" /\ call.at \in Planned /\ Go("bank")
      /\ bank' = IF call.promote THEN Op.bank ELSE bank
      /\ UNCHANGED <<inputs, opened, staged, ledger, history, memory, sleepState, receipts>>
  BY DEF PointBank, At, Planned, Entering
<1>2. /\ call' = [at |-> "bank", promote |-> call.promote, op |-> call.op]
      /\ call'.at = "bank" /\ call'.promote = call.promote /\ call'.op = call.op
      /\ Op' = Op /\ State' = State
  BY <1>1, GoesOn DEF IInv
<1>3. /\ Op.bank = IF call.promote THEN Append(bank, analysis) ELSE bank
      /\ Op.analysis = analysis /\ Headed(Op) /\ Justified(Op, Op.evidence)
      /\ call.promote => Op.certified /\ State.promoted
      /\ call.promote \in BOOLEAN
  BY <1>1 DEF IInv, CallStands, CallTypes, Planned, Preparing, Entering
<1>4. bank \in Seq(Analysis) /\ analysis \in Analysis /\ bank' = Op.bank /\ bank' \in Seq(Analysis)
  BY <1>1, <1>3, OperationOfCall DEF IInv, Types
<1>5. Types' /\ CallTypes'
  BY <1>1, <1>2, <1>4 DEF IInv, Types, CallTypes, inputs, Planned, Preparing, Entering, Halfway, Closing
<1>6. CallKnows'
  BY <1>1, <1>2 DEF IInv, CallKnows, Planned, Preparing, Entering, Halfway, Closing,
         HasDirectory, HasIntent, HasEvent, HasMemory, HasBank, HasEvidence, HasState
<1>7. CallStands'
  BY <1>1, <1>2, <1>3, <1>4 DEF CallStands, Preparing, Entering, Halfway, Headed, Justified, inputs
<1>8. BankIsAhead' /\ StateBehindBank'
  <2>1. sleepState # None =>
           sleepState.key.bank \in Seq(Analysis) /\ sleepState.key.analysis <= analysis
    BY <1>1 DEF IInv, Types, States, Keys, PointersAreAuthorized, LedgerIsJustified
  <2>2. call.promote => bank' # <<>> /\ Last(bank') = analysis
    <3>1. Append(bank, analysis) # <<>> /\ Last(Append(bank, analysis)) = analysis
      BY <1>4 DEF Last
    <3> QED BY <1>3, <1>4, <3>1
  <2>3. sleepState # None => IsPrefix(sleepState.key.bank, bank')
    BY <1>3, <1>4, <2>1, PrefixGrows DEF IInv, StateBehindBank
  <2> QED BY <1>1, <2>1, <2>2, <2>3 DEF IInv, BankIsAhead, StateBehindBank
<1>9. ReasonsAreSpent'
  <2>1. ~Pending' /\ (Pending <=> call.promote) /\ (Promoting' <=> Promoting)
    BY <1>1, <1>2 DEF Pending, Promoting, Preparing, Entering, Halfway
  <2>2. Promotions' = Promotions
    <3>1. Len(Append(bank, analysis)) = Len(bank) + 1 /\ Len(bank) \in Nat
      BY <1>4
    <3> QED BY <1>3, <1>4, <2>1, <3>1 DEF Promotions
  <2>3. \A a : Used(a)' <=> Used(a)
    BY <1>1, <1>2, <2>1 DEF Used
  <2> QED BY <1>1, <1>2, <2>2, <2>3 DEF IInv, ReasonsAreSpent, inputs, Entering, Halfway
<1>10. PointersAreAuthorized'
  <2>1. \E i \in DOMAIN ledger : ledger[i].state = State
    BY <1>1 DEF IInv, CallKnows, HasEvent, HasIntent, Planned, Entering, State
  <2>2. call.promote => \E i \in DOMAIN ledger :
           LET s == ledger[i].state IN bank' = s.key.bank /\ s.promoted /\ s.key.certified
    BY <1>3, <1>4, <2>1 DEF Op
  <2> QED BY <1>1, <2>2 DEF IInv, PointersAreAuthorized, inputs
<1>11. LedgerIsJustified' /\ EnteredOnce' /\ ReceiptsAreBacked'
  BY <1>1 DEF IInv, LedgerIsJustified, EnteredOnce, ReceiptsAreBacked, Archived, inputs
<1> QED BY <1>5, <1>6, <1>7, <1>8, <1>9, <1>10, <1>11 DEF IInv

\* The state describes the operation whose bank is in place.
LEMMA PointStateKeeps ==
    ASSUME IInv, PointState
    PROVE  IInv'
<1>1. /\ call.at = "state archived" /\ call.at \in Planned /\ Go("state") /\ sleepState' = State
      /\ UNCHANGED <<inputs, opened, staged, ledger, history, memory, bank, receipts>>
  BY DEF PointState, At, Planned, Halfway
<1>2. /\ call' = [at |-> "state", promote |-> call.promote, op |-> call.op]
      /\ call'.at = "state" /\ call'.promote = call.promote /\ call'.op = call.op
      /\ Op' = Op /\ State' = State
  BY <1>1, GoesOn DEF IInv
<1>3. /\ bank = Op.bank /\ Op.analysis = analysis /\ Headed(Op) /\ Justified(Op, Op.evidence)
      /\ call.promote => Op.certified /\ State.promoted
  BY <1>1 DEF IInv, CallStands, Planned, Preparing, Entering, Halfway
<1>4. /\ State \in States /\ State # None /\ State.key = Op /\ bank \in Seq(Analysis)
      /\ analysis \in Nat /\ Op.certified \in BOOLEAN
  BY <1>1, OperationOfCall, NoneIsNoState, Counts DEF IInv, Types, Op
<1>5. Types' /\ CallTypes'
  BY <1>1, <1>2, <1>4 DEF IInv, Types, CallTypes, inputs, Planned, Preparing, Entering, Halfway, Closing
<1>6. CallKnows'
  BY <1>1, <1>2 DEF IInv, CallKnows, Planned, Preparing, Entering, Halfway, Closing,
         HasDirectory, HasIntent, HasEvent, HasMemory, HasBank, HasEvidence, HasState
<1>7. CallStands'
  BY <1>1, <1>2, <1>3 DEF CallStands, Planned, Preparing, Entering, Halfway, Closing, Headed, Justified,
     inputs
<1>8. BankIsAhead' /\ StateBehindBank'
  <2>1. IsPrefix(bank, bank)
    BY <1>4 DEF IsPrefix
  <2>2. Op.certified => bank # <<>> /\ Op.analysis <= Last(bank)
    BY <1>3, <1>4 DEF Headed
  <2> QED BY <1>1, <1>3, <1>4, <2>1, <2>2 DEF BankIsAhead, StateBehindBank
<1>9. ReasonsAreSpent'
  <2>1. ~Promoting' /\ ~Pending' /\ ~Pending
    BY <1>1, <1>2 DEF Pending, Promoting, Preparing, Entering, Halfway
  <2>2. Promotions' = Promotions
    BY <1>1, <2>1 DEF Promotions
  <2>3. ASSUME Promotions = stops + bundles, NEW a \in Allowed, a >= analysis,
               <<evidence, a>> \in Verified
        PROVE  Used(a)'
    <3>1. Used(a) /\ evidence = Op.evidence
      BY <1>1, <2>3 DEF IInv, ReasonsAreSpent, Entering, Halfway
    <3>2. a = analysis
      <4>1. CASE Promoting /\ Op.analysis = a
        BY <1>3, <4>1
      <4>2. CASE sleepState # None /\ sleepState.key.analysis = a
        <5>1. a <= analysis
          BY <4>2 DEF IInv, PointersAreAuthorized, LedgerIsJustified
        <5>2. a \in Nat
          BY SleepAssumption, Numbers
        <5> QED BY <1>4, <2>3, <5>1, <5>2
      <4> QED BY <3>1, <4>1, <4>2 DEF Used
    <3>3. Op.certified
      BY <1>3, <2>3, <3>1, <3>2 DEF Justified
    <3> QED BY <1>1, <1>3, <1>4, <3>2, <3>3 DEF Used
  <2>4. UNCHANGED <<analysis, evidence, stops, bundles>> /\ call'.at \notin Entering \union Halfway
    BY <1>1, <1>2 DEF inputs, Entering, Halfway
  <2> QED BY <2>2, <2>3, <2>4 DEF IInv, ReasonsAreSpent
<1>10. PointersAreAuthorized'
  <2>1. \E i \in DOMAIN ledger : ledger[i].state = State
    BY <1>1 DEF IInv, CallKnows, HasEvent, HasIntent, Planned, Halfway, State
  <2> QED BY <1>1, <2>1 DEF IInv, PointersAreAuthorized, inputs
<1>11. LedgerIsJustified' /\ EnteredOnce' /\ ReceiptsAreBacked'
  BY <1>1 DEF IInv, LedgerIsJustified, EnteredOnce, ReceiptsAreBacked, Archived, inputs
<1> QED BY <1>5, <1>6, <1>7, <1>8, <1>9, <1>10, <1>11 DEF IInv
-----------------------------------------------------------------------------
(* The decision. *)

\* The bank ends with a reconstruction that this program, or an earlier one, made.
LEMMA BankIsOfThePast ==
    ASSUME IInv, bank # <<>>
    PROVE  Last(bank) <= analysis
BY DEF IInv, PointersAreAuthorized, LedgerIsJustified, Headed

\* A plan is of the moment: its bundle, its reconstruction and the bank as it is.
LEMMA PlanIsSound ==
    ASSUME IInv, NEW e \in Bundle
    PROVE  LET plan == Plan(e, evidence)
               key == plan.op.state.key
           IN  /\ plan.promote \in BOOLEAN /\ plan.op \in Operation
               /\ plan.promote => /\ ~SameCertified /\ analysis \in Allowed
                                  /\ <<evidence, analysis>> \in Verified
               /\ key.evidence = e /\ key.analysis = analysis
               /\ Headed(key) /\ Justified(key, evidence)
               /\ key.bank = IF plan.promote THEN Append(bank, analysis) ELSE bank
               /\ plan.promote => key.certified /\ plan.op.state.promoted
<1> DEFINE certified == analysis \in Allowed /\ <<evidence, analysis>> \in Verified
           promote == certified /\ ~SameCertified
           key == Key(analysis, e, certified, IF promote THEN Append(bank, analysis) ELSE bank)
           state == StateOf(key, promote, evidence)
           verified == <<evidence, analysis>> \in Verified
<1>1. /\ Plan(e, evidence).promote = promote
      /\ Plan(e, evidence).op = [state |-> state, verified |-> verified]
  BY DEF Plan
<1>2. /\ analysis \in Analysis /\ analysis \in Nat /\ bank \in Seq(Analysis) /\ evidence \in Bundle
      /\ certified \in BOOLEAN /\ promote \in BOOLEAN /\ verified \in BOOLEAN
      /\ sleepState \in States \union {None}
  BY Counts DEF IInv, Types
<1>3. /\ Append(bank, analysis) \in Seq(Analysis) /\ Append(bank, analysis) # <<>>
      /\ Last(Append(bank, analysis)) = analysis /\ ~IsPrefix(Append(bank, analysis), bank)
  BY <1>2 DEF Last, IsPrefix
<1>4. /\ key.analysis = analysis /\ key.evidence = e /\ key.certified = certified
      /\ key.bank = IF promote THEN Append(bank, analysis) ELSE bank
      /\ key \in Keys
  BY <1>2, <1>3 DEF Key, Keys
<1> HIDE DEF key
<1>5. state \in States /\ state.key = key
  <2>1. [key |-> key, promoted |-> promote, judged |-> evidence] \in States
    BY <1>2, <1>4 DEF States
  <2> QED BY <1>2, <2>1 DEF StateOf
<1>6. promote => state.promoted
  <2> SUFFICES ASSUME promote PROVE state.promoted
    OBVIOUS
  <2>1. ~(sleepState # None /\ sleepState.key = key)
    BY <1>3, <1>4 DEF IInv, StateBehindBank
  <2> QED BY <2>1 DEF StateOf
<1>7. Headed(key)
  <2>1. CASE promote
    BY <1>3, <1>4, <2>1 DEF Headed
  <2>2. CASE certified /\ ~promote
    <3>1. bank # <<>> /\ analysis <= Last(bank)
      BY <2>2 DEF SameCertified, IInv, BankIsAhead
    <3>2. Last(bank) = analysis
      <4>1. Last(bank) \in Analysis
        BY <1>2, <3>1 DEF Last
      <4>2. Last(bank) \in Nat
        BY <4>1, Numbers
      <4> QED BY <1>2, <3>1, <4>2, BankIsOfThePast
    <3> QED BY <1>4, <2>2, <3>1, <3>2 DEF Headed
  <2>3. CASE ~certified
    BY <1>4, <2>3 DEF Headed
  <2> QED BY <2>1, <2>2, <2>3
<1>8. Justified(key, evidence)
  BY <1>4 DEF Justified
<1> HIDE DEF state, verified
<1>9. [state |-> state, verified |-> verified] \in Operation
  BY <1>2, <1>5 DEF Operation
<1> DEFINE plan == Plan(e, evidence)
<1>10. plan.promote = promote /\ plan.op.state = state /\ plan.op \in Operation
  BY <1>1, <1>9
<1>11. promote => ~SameCertified /\ certified
  OBVIOUS
<1> HIDE DEF plan, promote
<1> QED
  <2>1. /\ plan.promote \in BOOLEAN /\ plan.op \in Operation
        /\ plan.promote => /\ ~SameCertified /\ analysis \in Allowed
                           /\ <<evidence, analysis>> \in Verified
        /\ plan.op.state.key.evidence = e /\ plan.op.state.key.analysis = analysis
        /\ Headed(plan.op.state.key) /\ Justified(plan.op.state.key, evidence)
        /\ plan.op.state.key.bank = IF plan.promote THEN Append(bank, analysis) ELSE bank
        /\ plan.promote => plan.op.state.key.certified /\ plan.op.state.promoted
    BY <1>2, <1>4, <1>5, <1>6, <1>7, <1>8, <1>10, <1>11
  <2> QED BY <2>1 DEF plan

\* The bundle is read a second time, and the operation is planned.
LEMMA JudgeKeeps ==
    ASSUME IInv, Judge
    PROVE  IInv'
<1> DEFINE plan == Plan(call.evidence, evidence)
<1>1. /\ call.at = "measured" /\ call.evidence \in Bundle /\ call.evidence <= evidence
      /\ call' = [at |-> "planned", promote |-> plan.promote, op |-> plan.op]
      /\ UNCHANGED <<inputs, opened, staged, ledger, history, memory, bank, sleepState, receipts>>
  BY DEF Judge, At, files, IInv, CallTypes
<1>2. /\ plan.promote \in BOOLEAN /\ plan.op \in Operation
      /\ plan.promote => /\ ~SameCertified /\ analysis \in Allowed
                         /\ <<evidence, analysis>> \in Verified
      /\ plan.op.state.key.evidence = call.evidence /\ plan.op.state.key.analysis = analysis
      /\ Headed(plan.op.state.key) /\ Justified(plan.op.state.key, evidence)
      /\ plan.op.state.key.bank = IF plan.promote THEN Append(bank, analysis) ELSE bank
      /\ plan.promote => plan.op.state.key.certified /\ plan.op.state.promoted
  BY <1>1, PlanIsSound
<1> HIDE DEF plan
<1>3. /\ call'.at = "planned" /\ call'.promote = plan.promote /\ call'.op = plan.op
      /\ State' = plan.op.state /\ Op' = plan.op.state.key
  BY <1>1 DEF State, Op
<1>4. Types' /\ CallTypes'
  BY <1>1, <1>2, <1>3 DEF IInv, Types, CallTypes, inputs, Planned, Preparing
<1>5. CallKnows'
  BY <1>3 DEF CallKnows, Planned, Preparing, Entering, Halfway, Closing,
     HasDirectory, HasIntent, HasEvent, HasMemory, HasBank, HasEvidence, HasState
<1>6. CallStands'
  <2>1. evidence \in Bundle
    BY Counts DEF IInv
  <2>2. /\ analysis' = analysis /\ evidence' = evidence /\ bank' = bank
        /\ call'.at \in Preparing /\ call'.at \notin Planned \ Preparing
        /\ call'.at \notin Halfway
    BY <1>1, <1>3 DEF inputs, Preparing, Halfway
  <2>3. Op'.analysis = analysis /\ Headed(Op)'
    BY <1>2, <1>3 DEF Headed
  <2>4. Op'.evidence <= evidence /\ evidence <= evidence /\ Justified(Op', evidence)
    BY <1>1, <1>2, <1>3, Counts DEF IInv
  <2>5. Justified(Op', evidence) <=> Justified(Op, evidence)'
    BY <2>2 DEF Justified
  <2>6. (\E j \in Bundle : Op.evidence <= j /\ j <= evidence /\ Justified(Op, j))'
    BY <2>1, <2>2, <2>4, <2>5 DEF Justified
  <2> QED BY <1>2, <1>3, <2>2, <2>3, <2>6 DEF CallStands
<1>7. ReasonsAreSpent'
  <2>1. /\ ~Promoting /\ ~Pending /\ Promotions = Len(bank) /\ Len(bank) \in Nat
        /\ stops \in Nat /\ bundles \in Nat /\ analysis \in Nat
    <3>1. ~Promoting /\ ~Pending
      BY <1>1 DEF Promoting, Pending, Preparing, Entering, Halfway
    <3> QED BY <3>1, Counts DEF Promotions, IInv
  <2>2. UNCHANGED <<analysis, evidence, stops, bundles, bank, sleepState>>
        /\ call'.at \notin Entering \union Halfway
    BY <1>1, <1>3 DEF inputs, Entering, Halfway
  <2>3. CASE plan.promote
    <3>1. ~Used(analysis)
      BY <1>2, <2>1, <2>3 DEF Used, SameCertified
    <3>2. Promotions # stops + bundles
      BY <1>2, <2>1, <2>3, <3>1 DEF IInv, ReasonsAreSpent
    <3>3. Promotions' = Len(bank) + 1 /\ Promoting'
      BY <1>3, <2>2, <2>3 DEF Promotions, Pending, Promoting, Preparing
    <3>4. Promotions' <= stops + bundles
      BY <2>1, <3>2, <3>3 DEF IInv, ReasonsAreSpent
    <3>5. \A a : <<evidence, a>> \in Verified => a = analysis
      <4> SUFFICES ASSUME NEW a, <<evidence, a>> \in Verified PROVE a = analysis
        OBVIOUS
      <4>1. <<evidence, a>> = <<evidence, analysis>>
        BY <1>2, <2>3, BundlesNameOne
      <4> QED BY <4>1
    <3>6. Used(analysis)'
      BY <1>2, <1>3, <2>2, <3>3 DEF Used
    <3> QED BY <2>2, <3>4, <3>5, <3>6 DEF ReasonsAreSpent
  <2>4. CASE ~plan.promote
    <3>1. ~Promoting' /\ ~Pending'
      BY <1>3, <2>4 DEF Promoting, Pending
    <3>2. Promotions' = Promotions
      BY <2>1, <2>2, <3>1 DEF Promotions
    <3>3. \A a : Used(a) => Used(a)'
      BY <2>1, <2>2 DEF Used
    <3> QED BY <2>2, <3>2, <3>3 DEF IInv, ReasonsAreSpent
  <2> QED BY <2>3, <2>4
<1> QED BY <1>1, <1>4, <1>5, <1>6, <1>7, FilesKeep DEF IInv, inputs

-----------------------------------------------------------------------------
(* The environment. *)

\* A bundle arrives: a reason, and later than any that a call has read.
LEMMA InstallEvidenceKeeps ==
    ASSUME IInv, InstallEvidence
    PROVE  IInv'
<1>1. /\ bundles < MaxBundles /\ bundles' = bundles + 1 /\ evidence' = bundles + 1
      /\ UNCHANGED <<analysis, corpus, stops, call, opened, staged, ledger, history, memory, bank,
                     sleepState, receipts>>
  BY DEF InstallEvidence, files
<1>2. /\ bundles \in Nat /\ evidence \in Nat /\ stops \in Nat /\ Promotions \in Nat
      /\ evidence \in {0, bundles} /\ MaxBundles \in Nat /\ Bundle \subseteq Nat
  BY Counts, Numbers DEF IInv, Types
<1>3. bundles' \in Bundle /\ evidence' = bundles' /\ evidence <= evidence' /\ evidence # evidence'
  BY <1>1, <1>2 DEF Bundle
<1>4. Types'
  BY <1>1, <1>3 DEF IInv, Types
<1>5. CallTypes'
  <2>1. call.at = "measured" => call.evidence <= evidence'
    BY <1>2, <1>3 DEF IInv, CallTypes
  <2> QED BY <1>1, <2>1 DEF IInv, CallTypes
<1>6. CallKnows'
  BY <1>1 DEF IInv, CallKnows, State, Op
<1>7. CallStands'
  <2>1. call.at \in Preparing =>
           \E j \in Bundle : Op.evidence <= j /\ j <= evidence' /\ Justified(Op, j)
    <3> SUFFICES ASSUME call.at \in Preparing
                 PROVE  \E j \in Bundle : Op.evidence <= j /\ j <= evidence' /\ Justified(Op, j)
      OBVIOUS
    <3>1. PICK j \in Bundle : Op.evidence <= j /\ j <= evidence /\ Justified(Op, j)
      BY DEF IInv, CallStands
    <3>2. j <= evidence'
      BY <1>2, <1>3, <3>1
    <3> QED BY <3>1, <3>2
  <2>2. Op' = Op /\ State' = State /\ analysis' = analysis /\ bank' = bank /\ call' = call
    BY <1>1 DEF Op, State
  <2> QED BY <2>1, <2>2 DEF IInv, CallStands, Headed, Justified
<1>8. ReasonsAreSpent'
  <2>1. Promotions' = Promotions
    BY <1>1 DEF Promotions, Pending
  <2>2. Promotions <= stops + bundles
    BY DEF IInv, ReasonsAreSpent
  <2>3. Promotions <= stops + (bundles + 1) /\ Promotions # stops + (bundles + 1)
    BY <1>2, <2>2
  <2> QED BY <1>1, <2>1, <2>3 DEF ReasonsAreSpent
<1> QED BY <1>1, <1>4, <1>5, <1>6, <1>7, <1>8, FilesKeep DEF IInv

\* Another program takes over while no call is under way: what it reconstructs is new.
LEMMA UpgradeKeeps ==
    ASSUME IInv, Upgrade
    PROVE  IInv'
<1>1. /\ call.at = "idle" /\ analysis < MaxAnalyses /\ analysis' = analysis + 1
      /\ UNCHANGED <<corpus, evidence, bundles, stops, call, opened, staged, ledger, history, memory,
                     bank, sleepState, receipts>>
  BY DEF Upgrade, files, At
<1>2. /\ analysis \in Nat /\ corpus \in 1..analysis /\ MaxAnalyses \in Nat
      /\ analysis' \in Analysis /\ corpus' \in 1..analysis' /\ Analysis \subseteq Nat
  BY <1>1, Counts, Numbers DEF IInv, Types, Analysis
<1>3. Types' /\ CallTypes'
  BY <1>1, <1>2 DEF IInv, Types, CallTypes, Planned, Preparing, Entering, Halfway, Closing
<1>4. CallKnows' /\ CallStands'
  BY <1>1 DEF CallKnows, CallStands, Planned, Preparing, Entering, Halfway, Closing,
     HasDirectory, HasIntent, HasEvent, HasMemory, HasBank, HasEvidence, HasState
<1>5. LedgerIsJustified'
  <2> SUFFICES ASSUME NEW i \in DOMAIN ledger
               PROVE  LET key == ledger[i].state.key
                      IN  /\ Justified(key, key.evidence) /\ Headed(key)
                          /\ key.analysis <= analysis'
    BY <1>1 DEF LedgerIsJustified, Justified, Headed
  <2> DEFINE key == ledger[i].state.key
  <2>1. /\ Justified(key, key.evidence) /\ Headed(key) /\ key.analysis <= analysis
        /\ key.analysis \in Nat
    BY <1>2 DEF IInv, LedgerIsJustified, Types, Operation, States, Keys
  <2> HIDE DEF key
  <2>2. key.analysis <= analysis'
    BY <1>1, <1>2, <2>1
  <2> QED BY <2>1, <2>2 DEF key
<1>6. ReasonsAreSpent'
  <2>1. Promotions' = Promotions /\ call'.at \notin Entering \union Halfway
    BY <1>1 DEF Promotions, Pending, Entering, Halfway, Preparing
  <2>2. \A a : Used(a)' <=> Used(a)
    BY <1>1 DEF Used, Promoting, Op, State
  <2>3. \A a \in Allowed : a >= analysis' => a >= analysis
    BY <1>1, <1>2, SleepAssumption
  <2> QED BY <1>1, <2>1, <2>2, <2>3 DEF IInv, ReasonsAreSpent
<1>7. BankIsAhead' /\ PointersAreAuthorized' /\ StateBehindBank' /\ EnteredOnce' /\ ReceiptsAreBacked'
  BY <1>1 DEF IInv, BankIsAhead, PointersAreAuthorized, StateBehindBank, EnteredOnce,
     ReceiptsAreBacked, Archived
<1> QED BY <1>3, <1>4, <1>5, <1>6, <1>7 DEF IInv

\* The commit of another corpus takes the pointers away and has a memory of its own.
LEMMA CommitFinalizedKeeps ==
    ASSUME IInv, CommitFinalized
    PROVE  IInv'
<1>1. /\ call.at = "idle" /\ analysis < MaxAnalyses /\ analysis' = analysis + 1 /\ corpus' = analysis'
      /\ evidence' = 0 /\ bank' = <<>> /\ sleepState' = None /\ memory' = [commit |-> corpus']
      /\ history' = [history EXCEPT !.report = @ \union {analysis'}, !.memory = @ \union {memory'}]
      /\ UNCHANGED <<bundles, stops, call, opened, staged, ledger, receipts>>
  BY DEF CommitFinalized, At
<1>2. /\ analysis \in Nat /\ MaxAnalyses \in Nat /\ analysis' \in Analysis /\ corpus' \in 1..analysis'
      /\ Analysis \subseteq Nat /\ stops \in Nat /\ bundles \in Nat /\ 0 \in Bundle
      /\ Len(bank) \in Nat /\ Promotions \in Nat
  BY <1>1, Counts, Numbers DEF IInv, Types, Analysis
<1>3. Types'
  <2>1. history' = [report |-> history.report \union {analysis'},
                    memory |-> history.memory \union {memory'}, bank |-> history.bank,
                    evidence |-> history.evidence, state |-> history.state]
    <3>1. history = [report |-> history.report, memory |-> history.memory, bank |-> history.bank,
                     evidence |-> history.evidence, state |-> history.state]
      BY DEF IInv, Types
    <3>2. history' = [history EXCEPT !.report = @ \union {analysis'}, !.memory = @ \union {memory'}]
      BY <1>1
    <3> QED BY <3>1, <3>2
  <2>2. history' = [report |-> history'.report, memory |-> history'.memory, bank |-> history'.bank,
                    evidence |-> history'.evidence, state |-> history'.state]
    BY <2>1
  <2>3. bank' \in Seq(Analysis) /\ sleepState' \in States \union {None} /\ evidence' \in {0, bundles'}
    BY <1>1
  <2> QED BY <1>1, <1>2, <2>2, <2>3 DEF IInv, Types
<1>4. CallTypes' /\ CallKnows' /\ CallStands'
  BY <1>1 DEF CallTypes, CallKnows, CallStands, Planned, Preparing, Entering, Halfway, Closing,
     HasDirectory, HasIntent, HasEvent, HasMemory, HasBank, HasEvidence, HasState
<1>5. LedgerIsJustified'
  <2> SUFFICES ASSUME NEW i \in DOMAIN ledger
               PROVE  LET key == ledger[i].state.key
                      IN  /\ Justified(key, key.evidence) /\ Headed(key)
                          /\ key.analysis <= analysis'
    BY <1>1 DEF LedgerIsJustified, Justified, Headed
  <2> DEFINE key == ledger[i].state.key
  <2>1. /\ Justified(key, key.evidence) /\ Headed(key) /\ key.analysis <= analysis
        /\ key.analysis \in Nat
    BY <1>2 DEF IInv, LedgerIsJustified, Types, Operation, States, Keys
  <2> HIDE DEF key
  <2>2. key.analysis <= analysis'
    BY <1>1, <1>2, <2>1
  <2> QED BY <2>1, <2>2 DEF key
<1>6. ReasonsAreSpent'
  <2>1. Promotions' = 0 /\ call'.at \notin Entering \union Halfway
    <3>1. ~Pending' /\ call'.at \notin Entering \union Halfway
      BY <1>1 DEF Pending, Entering, Halfway, Preparing
    <3>2. Len(bank') = 0
      BY <1>1
    <3> QED BY <3>1, <3>2 DEF Promotions
  <2>2. \A a : <<0, a>> \notin Verified
    BY SleepAssumption
  <2> QED BY <1>1, <1>2, <2>1, <2>2 DEF ReasonsAreSpent
<1>7. PointersAreAuthorized' /\ BankIsAhead' /\ StateBehindBank' /\ EnteredOnce'
  BY <1>1 DEF IInv, BankIsAhead, PointersAreAuthorized, StateBehindBank, EnteredOnce
<1>8. ReceiptsAreBacked'
  <2>1. \A s : Archived(s) => Archived(s)'
    <3>1. /\ history.report \subseteq history'.report /\ history.memory \subseteq history'.memory
          /\ history'.bank = history.bank /\ history'.evidence = history.evidence
          /\ history'.state = history.state
      BY <1>1 DEF IInv, Types
    <3> QED BY <3>1 DEF Archived
  <2> QED BY <1>1, <2>1 DEF IInv, ReceiptsAreBacked
<1> QED BY <1>3, <1>4, <1>5, <1>6, <1>7, <1>8 DEF IInv

-----------------------------------------------------------------------------
(* Every step. *)

\* A step of a call that leaves every file but the head: it ends, begins, measures the
\* evidence, or finds the installation complete.
LEMMA QuietStepKeeps ==
    ASSUME IInv,
           \/ Begin \/ Measure \/ Confirm \/ Reopen \/ AdvanceHead \/ EvidenceGone \/ Stop
           \/ (Resume \/ Recheck \/ Enter) /\ call' = Idle
    PROVE  IInv'
<1>1. UNCHANGED <<analysis, corpus, evidence, bundles>>
  BY DEF Begin, Measure, Confirm, Reopen, AdvanceHead, EvidenceGone, Stop, Resume, Recheck, Enter, inputs
<1>2. UNCHANGED <<opened, staged, ledger, history, memory, bank, sleepState, receipts>>
  <2>1. Enter /\ call' = Idle => ledger' = ledger
    <3> SUFFICES ASSUME Enter, call' = Idle PROVE ledger' = ledger
      OBVIOUS
    <3>1. ~Go("entered")
      BY GoesOn DEF IInv, Enter, At, Idle, Planned, Entering
    <3> QED BY <3>1 DEF Enter
  <2> QED BY <2>1 DEF Begin, Measure, Confirm, Reopen, AdvanceHead, EvidenceGone, Stop, Resume, Recheck,
         Enter, files
<1>3. \/ stops' = stops /\ (call.at \in Halfway => evidence # Op.evidence)
      \/ stops' = stops + 1 /\ stops' \in 0..MaxStops
  <2>1. CASE Stop
    <3>1. stops \in Nat /\ MaxStops \in Nat /\ stops' = stops + 1 /\ stops < MaxStops
      BY <2>1, Counts, Numbers DEF Stop, IInv
    <3> QED BY <3>1
  <2>2. CASE ~Stop
    BY <2>2 DEF Begin, Measure, Confirm, Reopen, AdvanceHead, EvidenceGone, Resume, Recheck,
         Enter, inputs, At, Halfway
  <2> QED BY <2>1, <2>2
<1>4. \/ call' = Idle \/ call' = [at |-> "authorized"]
      \/ call' = [at |-> "measured", evidence |-> evidence]
      \/ call.at \in Planned /\ Go("installed")
  BY DEF Begin, Measure, Confirm, Reopen, AdvanceHead, EvidenceGone, Stop, Refuse, At, Planned,
     Preparing, Closing
<1> QED BY <1>1, <1>2, <1>3, <1>4, QuietKeeps

\* No step of the call or of its environment breaks the invariant.
LEMMA NextPreserves == IInv /\ [Next]_vars => IInv'
<1> SUFFICES ASSUME IInv, [Next]_vars PROVE IInv'
  OBVIOUS
<1>1. CASE Begin \/ Measure \/ Confirm \/ Reopen \/ AdvanceHead \/ EvidenceGone \/ Stop
  BY <1>1, QuietStepKeeps
<1>2. CASE (Resume \/ Recheck \/ Enter) /\ call' = Idle
  BY <1>2, QuietStepKeeps
<1>3. CASE Open \/ (Resume /\ call' # Idle)
  BY <1>3, OpenKeeps
<1>4. CASE Recheck /\ call' # Idle
  BY <1>4, RecheckKeeps
<1>5. CASE Enter /\ call' # Idle
  BY <1>5, EnterKeeps
<1>6. CASE Judge
  BY <1>6, JudgeKeeps
<1>7. CASE Stage
  BY <1>7, StageKeeps
<1>8. CASE ArchiveMemory \/ ArchiveBank \/ ArchiveEvidence \/ ArchiveState
  BY <1>8, ArchiveKeeps
<1>9. CASE PointMemory
  BY <1>9, PointMemoryKeeps
<1>10. CASE PointBank
  BY <1>10, PointBankKeeps
<1>11. CASE PointState
  BY <1>11, PointStateKeeps
<1>12. CASE WriteReceipt
  BY <1>12, WriteReceiptKeeps
<1>13. CASE InstallEvidence
  BY <1>13, InstallEvidenceKeeps
<1>14. CASE Upgrade
  BY <1>14, UpgradeKeeps
<1>15. CASE CommitFinalized
  BY <1>15, CommitFinalizedKeeps
<1>16. CASE UNCHANGED vars
  <2>1. UNCHANGED <<analysis, corpus, evidence, bundles, opened, staged, ledger, history, memory, bank,
                    sleepState, receipts, call, stops>>
    BY <1>16 DEF vars
  <2>2. Types' /\ CallTypes' /\ CallKnows'
    BY <2>1 DEF IInv, Types, CallTypes, CallKnows, State, Op
  <2>3. CallStands'
    BY <2>1 DEF IInv, CallStands, State, Op, Headed, Justified
  <2>4. ReasonsAreSpent'
    BY <2>1 DEF IInv, ReasonsAreSpent, Promotions, Pending, Promoting, Used, State, Op
  <2> QED BY <2>1, <2>2, <2>3, <2>4, FilesKeep DEF IInv
<1> QED BY <1>1, <1>2, <1>3, <1>4, <1>5, <1>6, <1>7, <1>8, <1>9, <1>10, <1>11, <1>12, <1>13, <1>14,
           <1>15, <1>16 DEF Next, Deciding, Installing

\* The invariant holds of every state of the sleep cycle.
LEMMA Invariance == Spec => []IInv
BY InitEstablishes, NextPreserves, PTL DEF Spec

-----------------------------------------------------------------------------
(* The theorems. *)

\* Whatever stops, bundles and programs come in between, the memory, the bank and the
\* state on disk are those of operations that the ledger has, once each, a receipt has all
\* that it names, and the state is never ahead of the bank.
THEOREM FilesStayAuthorized == Spec => []FilesAreAuthorized
<1>1. IInv => FilesAreAuthorized
  <2> SUFFICES ASSUME IInv PROVE FilesAreAuthorized
    OBVIOUS
  <2>1. \A s \in States : IsState(s)
    BY DEF States, Keys, IsState, IsKey
  <2>2. \A k \in Keys : IsKey(k)
    BY DEF Keys, IsKey
  <2>3. TypeOK
    BY <2>1, <2>2 DEF IInv, Types, TypeOK, Operation
  <2> QED BY <2>3 DEF IInv, FilesAreAuthorized
<1> QED BY <1>1, Invariance, PTL

\* However the evidence is replaced while a cycle reads it twice, an operation the ledger
\* certifies was certified on the bundle that it names; and a runtime that may execute has
\* a bank that ends with the reconstruction of the corpus on disk, which its gate allows
\* and the bundle on disk verifies.
THEOREM CertificatesStayJustified == Spec => []CertificatesAreJustified
<1>1. IInv => CertifiedOnItsEvidence
  BY DEF IInv, LedgerIsJustified, Justified, CertifiedOnItsEvidence
<1>2. IInv => AuthorizedIsJustified
  <2> SUFFICES ASSUME IInv, ExecutionAuthorized
               PROVE  /\ Last(bank) = analysis
                      /\ analysis \in Allowed /\ <<evidence, analysis>> \in Verified
    BY DEF AuthorizedIsJustified
  <2> DEFINE key == sleepState.key
  <2>1. /\ key.analysis = analysis /\ key.certified /\ bank = key.bank /\ evidence = key.evidence
        /\ \E i \in DOMAIN ledger : ledger[i].state = sleepState
    BY DEF ExecutionAuthorized, IntegrityHealthy, Installed, Bound, Event
  <2>2. Justified(key, key.evidence) /\ Headed(key)
    BY <2>1 DEF IInv, LedgerIsJustified
  <2> QED BY <2>1, <2>2 DEF Justified, Headed
<1> QED BY <1>1, <1>2, Invariance, PTL DEF CertificatesAreJustified

\* However often a cycle is called, it is the stops and the bundles that bound how often a
\* reconstruction is reconciled into the bank.
THEOREM PromotionsStayEarned == Spec => []PromotionsAreEarned
<1>1. IInv => PromotionsAreEarned
  <2> SUFFICES ASSUME IInv PROVE PromotionsAreEarned
    OBVIOUS
  <2>1. /\ Len(bank) \in Nat /\ Promotions \in Nat /\ stops \in Nat /\ bundles \in Nat
        /\ Len(bank) <= Promotions /\ Promotions <= stops + bundles
    BY Counts DEF IInv, ReasonsAreSpent
  <2> QED BY <2>1 DEF PromotionsAreEarned
<1> QED BY <1>1, Invariance, PTL
=============================================================================
