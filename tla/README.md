# TIDE-X: a verification project

TIDE-X acquires capabilities from systems it observes, represents them as
versioned, content-addressed artifacts, and governs which of them may become
active in a receiver model. Almost everything it produces is an immutable file
named by its digest. What can go wrong is therefore concentrated in a few places:
the mutable ones (pointers, journals, locks, job records, and the calls that
change several files one after the other), the ones that look at something while
it changes (a donor's tree, a child process), and the reducers that decide from
accumulated evidence what may be believed or promoted. This project models those
places in TLA+, checks them with TLC and proves some of the results with TLAPS.

## 1. The system

Paths are relative to `src/src/`.

### Parts that keep state or decide step by step

| Part | State | Operations | What makes it hard |
|---|---|---|---|
| Adapter bank, journal (`governance/adapter_bank.rs`, `foundation/authority.rs`) | `indexes/by-sha`, `commits/by-revision`, `head.json`, `authority.lock` | publish a revision; load the current one | crash or error between any two files, lost answers and retries, readers without the lock, a stale or missing `head.json` |
| Adapter bank, lifecycle (same file) | the snapshot: adapters, selections per slot, revocations; candidate materializations, promotion permits | import, compose, materialize, authorize, activate, revoke, roll back, resolve | permits kept and used late, composition outside the lock, revocation through dependencies, A-B-A on a slot |
| Operator jobs (`operator/control_plane.rs`) | one status file per job, the in-memory registry of cancellation flags, threads, child processes | start, list, await, cancel, recover at start-up | read-modify-write of a status file without a lock, several processes on one home, crash of the server with children running, limits |
| Engine, corpus transition (`engine/transition.rs`, `store.rs`, `support.rs`, `engine_head.rs`) | the corpus directory, five pointers, an archive per operation, an intent, a journal, ledger events, receipts, the canonical head | finalize a learning session, replay, recover | about forty changes of files in one call; stops anywhere, also of the recovery |
| Engine, sleep cycle (`engine/transition.rs`) | active bank, shadow bank, memory, sleep state, evidence pointer, one transaction directory per operation | promote, revoke, abstain | pointers replaced one by one, evidence replaced during a call, retry after a crash |
| Knowledge engine, inquiry (`knowledge/knowledge_engine.rs`) | obligations, dependency graph, evidence, claims, hypotheses, budgets | plan, execute, advance, end | a reducer fed with anything an executor may report; limits met half-way through an expansion |
| Knowledge engine, canonical head (same file) | per inquiry one canonical head, a chain of states, receipts per action | genesis, advance, load | compare-and-swap between processes, idempotent retries |
| Residency decisions (`governance/residency_decision.rs`) | decision files, over the head of an inquiry | decide, persist, authenticate | the inquiry goes on between the three; claims that say nothing, or of another receiver |
| Adaptive learning sessions (`learning/learning_orchestrator.rs`, `experimental_evidence_admission.rs`, `learning_finalization.rs`) | marker, receipts, pointer, ledger events, evidence, under a lock per session | start, issue an aperture, admit, assimilate, prepare a finalization | receipt, ledger and pointer written separately; admission outside the lock |
| Portfolio governance (`learning/portfolio_governance.rs`) | sealed assessments, gates, canary sessions | assess a trajectory, gate, run a staged canary, join the three; Pareto front; plan of trials | evidence relabelled or reused between authorities, retries of a stage, order of lists |
| Isolated execution (`runtime/isolated_execution.rs`) | a child, two reader threads, a shared output budget | run | overflow, deadline and exit race; pipes kept open by descendants |
| Source capture and content vault (`capability/acquisition_contract.rs`, `content_vault.rs`) | the donor's tree, the vault, receipts, projections | capture, materialize | a tree that changes during three walks and a copy; an error, a rival or a death half-way |
| Learned controller (`engine/learned_controller.rs`) | dataset, receipt, pointer, under a lock per session | train, load | reads the engine's state under another lock |
| Ledger (`foundation/ledger.rs`) | one hash-chained file | append, verify, find | two writers, size limit |
| Numerical evolution and procedural memory (`learning/numerical_evolution.rs`, `procedural_memory.rs`, `procedural_replay.rs`, `solver_portfolio.rs`) | incumbent, trajectory, lineages, a memory rebuilt from immutable attempts | evolve, record, rebuild, replay a receipt, retrieve | the same solve again, lineages, deduplication, order of replay |
| Cross-model laboratory (`cross_model/`, behind a feature) | a worker process behind one mutex | evaluate, discover | no production authority |

### Parts without mutable state

Digests, identities, contracts and linear algebra (`foundation/`), numerics
(`analysis/`, most of `learning/`), capability contracts and bundles
(`capability/`, apart from capture and vault), materialization, the receiver's
profiling, binding, compilation and weight actuation, the promotion
gates (`governance/`), the operator's graph and registry, the programs in `bin/`,
the web console, the quality gates and the fuzz targets. They are functions from
authenticated inputs to immutable outputs. PROJECT.json lists each with the
reason it is not modelled.

### How they interact

A learning session produces evidence under its own lock; its finalization hands
the engine a corpus, and the engine replaces the old one (corpus transition) if
a sleep cycle has revoked it. Commit and sleep append to the ledger and replace
pointers; each engine call ends by publishing a canonical head that names them.
The adapter bank is a store of its own, with a journal of its own; a promotion
permit ties an activation to the bank revision that the evidence was about. The
knowledge engine keeps one head per inquiry; its states come from the reducer,
and a residency decision is derived from the state the head names.
A capture vouches for a donor's files, which the vault gives out again as
projections. The operator runs the programs of `bin/` as child processes of jobs;
workflow programs start jobs in processes of their own on the same home. All of
them use the same primitives of `foundation/authority.rs`: an advisory `flock`,
atomic replacement of a file, link-then-unlink moves of files, rename of
directories.

### What makes each part correct

* Journal: the files implement an atomic compare-and-swap history; every crash
  leaves a bank that opens; an acknowledged operation stays; a retry does not
  publish twice.
* Lifecycle: a permit moves a slot at most once, at the revision it was issued
  for; revoked weights stay out; what an operation builds, the validators
  accept; a resolution does not survive a change of its slot.
* Jobs: a limit on running children; a settled record is sealed, true and final;
  no unsettled record is forgotten; a cancelled job stops; places are given back.
* Corpus transition: a half-replaced corpus is never taken for a whole one; no
  artifact of the prior corpus is lost; a receipt authenticates from the moment
  it exists; an interruption is resolved.
* Sleep cycle: pointers follow the ledger; what is certified or authorized has
  its evidence; a repetition completes what a stop left.
* Knowledge engine: what the reducer accepts its validator accepts; nothing that
  was reported is forgotten by a completed inquiry; silence establishes nothing;
  an inquiry ends; one chain of states per inquiry, and an action counts once.
* Learning sessions: one chain of receipts; nothing acknowledged is lost; an
  evidence bundle belongs to the aperture that asked for it.
* Portfolio: nothing is promoted without three independent authorities on
  disjoint observations; exposure only grows; selection does not depend on the
  order of a list; a plan keeps its budgets.
* Numerical evolution: evidence counts once; what the engine has to do it does;
  a replay derives the memory its receipt stands for; advice is earned.
* Isolated execution: the output never exceeds its budget; the verdict is that
  of what happened; no child is left; the call answers.
* Vault: what is vouched for was there at one instant; a projection is all or
  nothing.

## 2. The modules

| Module | Models | Lines of code it stands for |
|---|---|---|
| `CasHistory` | what a journal promises (abstract) | |
| `AdapterBankJournal` | the journal, file by file | `adapter_bank.rs` 546-922, 1573-1716, 2390-2445; `authority.rs` 1489-1646 |
| `AdapterBankJournalProofs` | theorems about it | |
| `AdapterBank` | the lifecycle, with atomic publication, and the validators apart from the operations | `adapter_bank.rs` 86-590, 1209-2882 |
| `AdapterBankProofs` | theorems about it | |
| `OperatorJobs` | jobs, their threads, children, cancellation, recovery | `control_plane.rs` 986-1139, 1344-1665, 1729-2121, 3954-3977 |
| `OperatorJobsProofs` | theorems about it | |
| `CorpusTransition` | the replacement of the corpus, file by file, and its recovery | `transition.rs` 12-1146; `store.rs` 47-340, 625-685; `support.rs` 683-1668 |
| `CorpusTransitionProofs` | theorems about it | |
| `SleepCycle` | the sleep cycle, pointer by pointer, with everything else that moves the pointers | `transition.rs` 726-1633; parts of `store.rs`, `support.rs`, `engine_head.rs` |
| `SleepCycleProofs` | theorems about it | |
| `KnowledgeInquiry` | contract, planner, reducer, validator, terminal verdicts | `knowledge_engine.rs` 481-5512 |
| `KnowledgeHead` | the canonical head of one inquiry | `knowledge_engine.rs` 3460-5225 |
| `ResidencyDecision` | facts from claims, the policy, the authority beside a moving inquiry | `residency_decision.rs` 108-1787 |
| `KnowledgeEngineProofs` | theorems about the last three | |
| `LearningSession` | sessions, admission, preparation of a finalization | `learning_orchestrator.rs`, `experimental_evidence_admission.rs`, `learning_finalization.rs` |
| `PortfolioGovernance` | PETFC, gate, canary, promotion | `portfolio_governance.rs` |
| `PortfolioSelection` | Pareto front and plan of trials, as pure operators | `portfolio_governance.rs` |
| `NumericalEvolution` | the portfolio of solvers, the evolution engine, procedural memory and its replay | `solver_portfolio.rs`, `numerical_evolution.rs`, `procedural_memory.rs`, `procedural_replay.rs` |
| `LearningProofs` | theorems about sessions, governance and numerical evolution | |
| `IsolatedExecution` | monitor, readers, budget, child | `isolated_execution.rs` |
| `IsolatedExecutionProofs` | theorems about it | |
| `ContentVault` | capture and materialization | `acquisition_contract.rs`, `content_vault.rs` |
| `MC...` | the instances TLC checks | |

PROJECT.json's `map` names the lines of every definition. In all modules a death
of a process and an error return leave the same files behind, and are one action
where they do; locks are `flock`s, which the kernel releases with their holder;
immutable files named by their digest are sets that only grow.

### AdapterBankJournal and AdapterBank

Two views of one component. The first keeps every file and abstracts an operation
to whether it holds for ever (`Sticky`), until the slot is taken again
(`Activation`), or never (`Reversal`). The second takes publication as one step,
which `ImplementsCasHistory` justifies, and keeps the content of the snapshots.

`journal` is `commits/by-revision`, `indexes` the snapshot files, `head` is
`head.json`, `lock` the holder of the `flock`. A writer goes through `Submit`,
`Acquire`, then `Answer` (nothing to publish) or `Build`, `WriteIndex`,
`LinkCommit`, `ReplaceHead`, `Reopen`. `Abandon` ends the call at any of these
points. A reader lists the journal and later reads the head. `LoseHead` restores
or removes the head from outside. A snapshot is abstracted to its last operation;
revision and operation determine the bytes along the one chain. Readers are
allowed a refusal: a commit between the listing and the reading of the head makes
`authenticate_head_cache` refuse an intact bank, and the next read succeeds.
`NoReaderSeesAFork` says that this is all that can happen.

In `AdapterBank`, `history` holds all snapshots. Each operation has the checks it
makes (`Registrable`, `Composable`, `Activatable`, `RollbackAllowed`) and the child
snapshot it builds; `Publish` applies the bank's own validators
(`TransitionValid`, `ContractValid`) and the limit. `composing` are calls of
`compose_exact` that have read the bank and not yet committed, since that
happens outside the lock. A manifest is a model value with the fields that the
checks compare. A refused call changes nothing and is no step.

### OperatorJobs

`record` is the status file, `registry` and `flag` the map of cancellation flags
of each process, `starter`, `worker` and `child` the call, the thread and the
process of a job, `cancel` the cancel calls. `Faults` and `Crashes` switch on
failing writes and spawns, and death of processes. All status files are read in
one step: what a call does afterwards depends on nothing it read later.

### CorpusTransition and SleepCycle

`CorpusTransition`: each file the call creates, moves or removes is a step;
`call.at` is the next one. A file is moved by a link and an unlink (two steps), a
directory by one rename. `Stop` ends a call anywhere, a finalization or a
recovery, `MaxStops` times. A corpus stands for its digest; an artifact for the
corpus it was derived from. `head` is what the canonical head names;
`RevokedAndHealthy` is the part of `runtime_integrity_health` that these files
decide. Here the initial corpus is the only revoked one, so at most one
finalization of a behaviour succeeds and the others compete with it, are refused
or come after its restoration. `commit_after_verified_corpus_transition` can
resume a commit it finds half-way, but the finalization that calls it has just
created the corpus, and a repetition is refused before it gets there, so that path
is never taken from here.

`SleepCycle` is who revokes: one cycle goes from the measurement of the
authorities through its staged transaction, the ledger event, the pointers and the
receipt to the canonical head, with a stop possible between any two changes, while
evidence bundles arrive at any moment (`InstallEvidence`), the program is upgraded
(`Upgrade`), or a finalized session replaces the corpus (`CommitFinalized`, one
step here). A bundle stands for its
verdict; banks and reconstructions are numbered and fresh. Taken as assumptions:
bundles are never withdrawn nor installed a second time (with A, B, A the double
read at `transition.rs:1244` and `:1256` could certify A on B's verdict), a bundle
verifies one reconstruction at most (`BundlesNameOne`: `verify_sleep_evidence`
compares the corpus, the source tree, the configuration and the version of the
analysis), and composition readiness is not followed (`ExecutionAuthorized` has fewer blockers
than the code, so what is claimed of it is stronger).

### KnowledgeInquiry and KnowledgeHead

`KnowledgeInquiry` chooses a contract in `Init`, which begins only where the code
does: with a valid contract whose first state `validate_state` accepts. A step plans
an action (`Planned`), lets an executor report anything the evidence verifiers admit
(`Completions`), or give up (`GiveUp`, `Block`), and applies the reducer
(`Successor`): the step is counted (`Counted`: the target's obligation, its attempt
and evidence), then come dependency expansion edge by edge with the cycle test, the
depth and node limits, claims, hypotheses, and the terminal verdict (`Reduce`). A
predicate is whether the observations match it. `ReducerOutputIsValid` compares the
reducer with `validate_state`, which is modelled apart from it: the hard caps on claims,
obligations and hypotheses (`FitsHardCaps`, which the validator of a contract asks as
well) and the rest (`Consistent`). The reducer of expansions does not look at the caps;
a receipt whose successor exceeds them is issued and never applied (`Overflow`, 5).

To know when reading the properties: an expansion whose edges exceed the remaining
edge budget is refused; counterexample and formal obligations cannot be satisfied
by any production verifier; `CostBudgetExhausted` is seen by `plan()` only, not
by `derive_terminal`.

`KnowledgeHead` has the file steps of genesis and advance (`Persist`, `Answer`,
`Publish`, `Return`) under the inquiry's lock: immutable objects, then the
pointer; retries and rivals beside them. A retry of an advance after a later one is answered
`canonical_action_replay_not_current`, a genesis repeated after an advance
`genesis_conflict`. The pointer has no second copy: unlike the bank's, it is not
lost in the model because nothing in the code would restore it. Its `Head...` names
(`HeadInit`, `HeadNext`, `HeadSpec`, `HeadTypeOK`) keep it apart from `KnowledgeInquiry`,
with which it shares a module of proofs.

### ResidencyDecision

`chain` is the history of an inquiry's canonical head, `records` the decision
files. `Begin` decides about the head; `Recheck` and `Write` are
`persist_decision`, which decides again; `AuthenticRecord` is `authenticate_decision`,
which decides once more. `MoveOn` stands for the knowledge engine: it assesses a
claim anew, and an inquiry is complete only when all its claims are established.
`Derived` reads the facts (`Given`, `CandidateFact`) off the claims of a complete
inquiry and classifies them (`Classified`); `asked` is a matrix given to
`decide_from_fact_inputs` without an inquiry. `OnlyProven` says in terms of the
claims what a residence takes, `SelectionIsRight` in terms of all that the open
facts may turn out to be (`PossibleFacts`). The bundle does not change: it is a file
named by its digest. `MCKnowledgeInquiry` extends this module beside `KnowledgeInquiry`:
a behaviour is about the one or the other (`part`), hence the `Residency...` names.

### LearningSession

Marker, receipts, ledger events and pointer of each session, the evidence files of
an aperture, and the clients with their place in a call. `Loads` is loading with
its replay of the chain. `EndEarly` ends a call between any two files, by a death
or an error. An outcome
is reduced to one value; the score that picks an aperture is a function of what
was learnt; alterations of files by others are left out. Assimilation does not
demand distinct observation ids, finalization does.

### PortfolioGovernance and PortfolioSelection

A report is built from paired observations with a label, windows, groups and a
design; `StartTrajectory`, `AppendReport`, `EvaluatePetfc`, `DecideCandidate`,
`StartCanary` and `EvaluateStage` are the calls, any caller handing any report to
any of them; `Promotable` joins their three results. The geometry of the path is one free
verdict and estimators are intervals. Functions are pure, so their order is
immaterial; the instance fixes PETFC, gate, canary. `PortfolioSelection` has the
front and the planner as operators; the score is open but for its dependence on
history, cost and count. It is a sum in f64, so more trials do not raise it and need not
lower it: `telling` says of a policy whether its exploration term tells counts apart. A
candidate whose gates lack the priority metric, or whose score is not finite, fails the
call (`FailToScore`); repeated ids, limits below the mandatory trials and too much work
refuse it (`Refusable`). Integer overflows, an empty list and the limits on its
length and its histories are left out. `MCPortfolio` checks these two and
`NumericalEvolution` in one run: `part` is chosen in `MCInit`, and the other parts stay
idle. The `Governance...` and `Evolution...` names keep two modules apart from `LearningSession`, with which they
share a module of proofs; `Unsealed` is the absence of a sealed value.

Worth knowing: sealed values are content-addressed and nothing is consumed, so a
canary that required rollback can be started again from its gate; the canary
compares its reports' groups with the stage's minimum, not with the evaluation
policy's, nor their independence design; the Pareto front accepts gate and PETFC
windows in either order whereas promotion demands PETFC before gate.

### NumericalEvolution

One action per way a call of `evolve` can end: a rejection, a candidate without a
decision, no candidate, nothing new, a trial; `FailFirst` is a call that names the
incumbent and fails later. A call the code refuses is a step that is not taken, and
`EngineGoesOn` says which ones are. Solvers are pure, so what each backend makes of a
problem is fixed in `EvolutionInit`; with at most one evaluation per backend the size and the
backend decide the selection. `memory` is what the reducer holds, `emitted` what the
cycles returned and a receipt lists; `Rebuilt` derives a memory from any list of
attempts, `Replayed` from a receipt. The order in which failures are replayed is that
of digests, so which revision of a repeated failure survives is not stated. Revisions
are consecutive, since only their order matters. Left out: capacities, numbers,
cautions about failed runs, and the recording of drift, which two reports of one
engine can never cause (`TrajectoryIsRemembered`; `numerical_evolution.rs:740-747`
reserves it for future sources).

### IsolatedExecution

The monitor polls overflow flag, deadline and exit in turn; two readers claim
bytes of one budget by compare-and-swap; the payload writes, blocks, forks and
ends as it likes. `join_reader` has no timeout, so that the call ends rests on the
sandbox: the pid namespace dies with its init and closes the pipes
(`NamespaceEnds`, external). Spurious failures of the compare-and-swap are finite.

### ContentVault

The donor's tree changes (`Mutate`) while it is walked path by path, copied, and
walked twice more; the receipt names an envelope; consumers materialize it, check
a projection that is there, or remove what a failure left. A file is read at one
instant, blocks like files. The clock is coarse: a change may leave the timestamp
as it was. The donor is frozen after the receipt, for which it does not matter any
more, and not every receipt is materialized (`Telling` picks those that can make a
difference). A call answers for a projection once its root is made: until then
(`FailToOwn`) and in its removal (`FailToRemove`) an error leaves what is there. `whole`
(the tree matched the goal at an instant), `torn` (a part of the projection was removed
while it was checked), `rivals` and `abandoned` (an error at one of these two places) are
history variables.

## 3. The runs

| Run | Question | Result |
|---|---|---|
| `bank_journal` | two writers that crash anywhere, two permits for one slot, a reader, a lost head: is the bank safe, do the files implement `CasHistory`, is someone always served? | holds |
| `bank` | compositions of two levels, permits, slots, revocations, generations in any order; does a call that passes its checks pass the validators? | holds, apart from the next |
| `bank_revocation` | can every adapter be revoked? | no, see 5.1 |
| `jobs` | a server that dies and recovers anywhere, cancellation, failing writes, timeouts | holds |
| `corpus_recovery` | three stops anywhere in two finalizations and their recoveries | holds |
| `sleep_cycle` | cycles that stop anywhere, evidence that arrives at any moment | holds, with the jams of 5 named |
| `knowledge_inquiry` | ten contracts driven to their end by arbitrary executors, two of them near the hard caps; six inquiries that move on between a decision, its file and its use, and the policy on every kind of matrix | holds, apart from the caps of 5 |
| `knowledge_head` | two callers, rival geneses and receipts, crashes between any two steps | holds |
| `learning_session` | two clients, two sessions, two early ends of a call | holds |
| `portfolio` | relabelled, overlapping or thin evidence against three authorities; every small list and plan; an engine that solves the same problems again, and the replay of its receipt | holds, with the repetitions of 5 named |
| `isolated_execution` | a payload that writes, blocks, forks and ends as it likes, readers and waits that fail | holds |
| `content_vault` | a tree that changes while captured, a projection with rivals, errors (also of the removal) and deaths | holds |

The properties of a run are conjunctions of named parts; the comment of each part
says what it is about, and PROJECT.json has a mutant for each, a plausible bug
(`Variant:` in the modules) that breaks it:

| Module | Property | Parts |
|---|---|---|
| `AdapterBankJournal` | `JournalIsSound` | `TypeOK`, `LockDiscipline`, `Recoverable` |
| | `AnswersAreTrue` | `AcknowledgedIsCommitted`, `NoReaderSeesAFork` |
| | `ServiceGoesOn` | `LockIsReleased`, `SomeoneIsServed` |
| | `NoDoublePublish`, `ImplementsCasHistory` | |
| `AdapterBank` | `EntriesAreSound` | `TypeOK`, `GenerationsContiguous`, `RevokedWeightsStayOut` |
| | `NoStaleAuthority` | `PermitSpentOnce`, `PermitsOnlyToTheLiving`, `ResolutionsAreFenced` |
| | `OperationsPassValidation` | |
| `OperatorJobs` | `RecordsAreSound` | `TypeOK`, `SettledIsSealed`, `RecordsTellTheTruth`, `NobodyForgotten` |
| | `PlacesAreKept` | `ChildrenBounded`, `SlotsAreReleased` |
| | `SettledIsFinal`, `CancelStopsTheChild` | |
| `CorpusTransition` | `TransitionIsVisible` | `TypeOK`, `OpenIsVisible`, `JournalIsBehind` |
| | `PriorIsKept`, `ReceiptsAuthenticate`, `RecoveryResolves` | |
| `SleepCycle` | `FilesAreAuthorized` | `TypeOK`, `PointersAreAuthorized`, `StateBehindBank`, `EnteredOnce`, `ReceiptsAreBacked` |
| | `CertificatesAreJustified` | `CertifiedOnItsEvidence`, `AuthorizedIsJustified` |
| | `PromotionsAreEarned`, `SleepSettles` | |
| `KnowledgeInquiry` | `InquiryIsSound` | `TypeOK`, `EachReceiptCountsOnce`, `ReducerOutputIsValid` |
| | `CompletionIsHonest` | `DroppedEdgeEnds`, `CompleteMeansClosed` |
| | `AssessmentsAreEarned` | `NoClaimFromSilence`, `JudgementIsOrderFree` |
| | `EveryInquiryEnds` | `InquiryEnds` |
| `ResidencyDecision` | `ResidencyIsSound` | `OnlyProven`, `OneResidence`, `AcceptedIsCurrent`, `SelectionIsRight` |
| `KnowledgeHead` | `HeadIsSound` | `HeadTypeOK`, `HeadAlwaysLoads`, `AcknowledgedStays` |
| | `ImplementsCasHistory`, `ServiceGoesOn` | |
| `LearningSession` | `SessionsAreSound` | `TypeOK`, `CurrentReplays`, `OrphansAreDeaths` |
| | `AnswersStayTrue` | `AcknowledgedIsKept`, `FinalsNeverStale`, `AdmittedWasAsked` |
| `PortfolioGovernance` | `PromotionsAreEarned` | `GovernanceTypeOK`, `NothingUnprovenIsPromoted`, `PromotableIsEligible`, `OneAuthorityPerObservation` |
| | `CanaryIsHonest` | `ValidatedOnEveryStage`, `ExposureOnlyGrows` |
| `PortfolioSelection` | `FrontIsRight` | `TypeOK`, `FrontIsMaximal`, `FrontIgnoresOrder` |
| | `PlanIsExact` | `PlanIsAffordable`, `PlanIsFull`, `EqualsTakeTurns`, `EveryCallAnswers` |
| `NumericalEvolution` | `EvolutionIsSound` | `MemoryIsSound`, `EngineGoesOn` |
| | `ExperienceIsHonest` | `ReplayAgrees`, `AdviceIsEarned` |
| `IsolatedExecution` | `VerdictIsTrue` | `TypeOK`, `OneBudget`, `SuccessIsComplete`, `VerdictHasCause`, `NoChildLeft` |
| | `CallAnswers` | |
| `ContentVault` | `EvidenceWasThere` | `TypeOK`, `SnapshotsAreInstants`, `RetainedIsObserved` |
| | `ProjectionsStand` | `PartsHaveACause`, `ServedStays`, `FaithfulIsProjected` |

### Bounds

* Journal: two writers, since the lock admits one and the other can be anywhere
  outside; two revisions, so that there are a first one (no parent, no head) and
  one that follows, and the limit is reached; lasting operations and two permits
  for one slot (`Reversal` is left to the theorems).
* Lifecycle: six manifests (two levels of composition, rivals for one slot, a copy
  of weights under another name, a skipped generation), two candidates, five
  revisions, at most three permits (`FewPermits`). The theorems lift these bounds.
* Jobs: two calls of one request and one canceller; a limit of one job, so that it
  is reached; faults and crashes both on. Crashes are unbounded: a crash moves
  every call and thread towards its end.
* Corpus: two inputs towards different corpora; three stops, so that a
  finalization, its recovery and the next recovery can each stop once.
* Sleep cycle: three bundles, two analyses, one stop (the same properties were
  also checked with two bundles and two stops, 437,080 states). Two bundles suffice
  for a replacement during a call, a third for one after it.
* Inquiry: ten contracts over four nodes; between them they reach every limit and
  every terminal verdict. The hard caps (4,096 claims, 8,192 obligations, 512 hypotheses
  in the code) are 6, 7 and 2: two contracts, with many claims and with many obligations
  for few claims, exceed one of the first two each, the others have room.
* Residency: six heads with one claim still open and, between them, every other
  way of lacking a fact (another domain, another receiver, no claim, no answer, a
  dimension that is unknown); one more revision, so that a decision can be stale; two
  targets, two rounds, one caller at a time, two files. 11,664 matrices: all candidate
  facts, three of the four dimensions. With three revisions
  it is the same (1,462,884 states, in an instance of the module alone).
* Canonical head: two processes, two geneses, two receipts of one action, a chain
  of three.
* Learning: a session of two steps, so that there are a first, a middle and a last
  receipt, and one of one step; two clients; one Vxx run; two early ends; clients
  are symmetric.
* Portfolio: two candidates, five ticks of time, two canary stages; lists of three
  candidates over six objective vectors, in which every order of dominance occurs,
  with repeated ids and foreign bindings; eighteen policies (see `MCPolicies`), of budgets
  that are too small, exact and ample, with scores that tell counts apart and that do not.
* Numerical evolution: two problems, so that two lineages meet in one trajectory; one
  solved with nine portfolios, which between them give every answer of a report, with
  none, one, or one too many external proposals; four revisions (a rejection, its
  repetition, another candidate, and one more); two suites, two baselines.
* Isolated execution: a budget, a chunk and a pipe of two units, four written: the
  budget can be exceeded by either stream or by both together, a pipe can fill.
* Vault: six paths (a directory of two files, one of which can become a link and one a
  program, and one of one file), two regular files at most, one capture, one trouble
  (error or death), two consumers, who are symmetric. An error of a removal is not
  counted as a trouble, so that one can follow another error. What comes after a removal
  that failed beside a rival is left to the death of a process there (`Telling`). Two
  directories side by side matter: a removal can have taken one of them while a checker
  walks the other.

### Fairness

* Journal and canonical head: a caller inside the lock continues (weak fairness):
  the section does not wait for anybody. A free lock is taken by someone; `flock`
  is not first-in-first-out, so no particular caller is promised anything. The lock
  of a dead process is released by the kernel.
* Jobs: threads and cancel calls continue; the timeout of a running child passes.
  That a child exits by itself is not assumed. `CancelStopsTheChild` excuses the
  death of the server.
* Corpus: a call continues unless it stops, and stops are finite; the recovery and
  the finalization are called again while they can do something. No program of the
  repository calls the recovery by itself: this is the operator's part.
* Sleep cycle: likewise, the cycle is called again and again by its caller.
* Inquiry: the driver plans, executes and advances while it can.
* Isolated execution: monitor and readers run, time passes, a killed process dies,
  and the namespace of a dead sandbox ends. Nothing is assumed of the payload.

## 4. The proofs

A listed theorem states the property of a run, or a part of one; it is the conjunction
of the theorems on its parts.

`AdapterBankJournalProofs`, for any sets of writers, readers and operations and
any limit (`ConstantsAssumption`):

* `JournalStaysSound`, from `TypeCorrect`, `MutualExclusion`, `CrashRecovery`;
* `AnswersStayTrue`, from `Acknowledged`, `NoFork`;
* `PublishedOnce`;
* `Refinement`: `AdapterBankJournal` implements `CasHistory`.

None of the invariants is inductive. `IInv` adds what a writer has established
when it reaches a point, which is what a crash there leaves: a writer inside a
call has a request (`CallMatchesPC`); a writer that has checked its expectation
still holds it when it commits, since only the owner of the lock changes the
journal (`ReadyToCommit`); a writer that has committed finds its operation at the
tip (`Committed`); each commit has its index file and the head names a commit
(`FilesAgree`); an activation sits right after the revision of its permit
(`PermitsBound`), so it cannot be published twice; a lasting operation is looked
up before it is built (`StickyOnce`). One lemma per action, or group of actions
alike, shows that it is preserved; the refinement maps `LinkCommit` to `Commit`,
`Answer` and `Reopen` to `Acknowledge` or `Fail`, `Abandon` to `Fail`, and
everything else to a stutter.

`AdapterBankProofs`, for any manifests, any depth of composition and any limit
(`AdapterBankAssumption`):

* `EntriesStaySound`, from `BankTypes`, `GenerationsHaveNoGap`,
  `RevokedWeightsNeverReturn`;
* `NoAuthorityIsStale`, from `PermitsAreSpentOnce`, `PermitsNameTheLiving`,
  `ResolutionsStayFenced`;
* `LegalCallsAreAccepted`: `OperationsPassValidation`.

The last one is the reason why the checks of the operations and the validators
are kept apart, and it is not implied by the others. A composition that is
committed has sources that live, although nothing looks at them under the lock:
the caller's expectation pins the revision they were read at (`ComposingFresh`).
A rolled-back slot returns to a registered adapter because its permit was issued
against the current index (`PermitsOnlyToTheLiving`). The set a revocation
affects is closed under composition (`AffectedIsClosed`), so the child keeps the
contract; that it adds exactly this set needs `~RevokesAgain`, the case of 5.1.
`GenerationsContiguous` rests on there being a latest generation to compare with
(`LatestExists`), `RevokedWeightsStayOut` on a delta being registered once
(`DeltaOnce`). Every publishing step goes through `PublishKeeps`, and only the
registrations touch what is said of the entries (`RegisterKeeps`, `EntriesKept`).

`KnowledgeEngineProofs`, of the canonical head: for any callers, geneses and receipts
and lineages of any bounded length (`KnowledgeHeadAssumption`: a genesis is no receipt,
`Nobody` is neither a caller nor a request):

* `HeadStaysSound`, and `HeadRefines`: the pointer, its lock and its retries
  implement `CasHistory`, the specification the bank's journal implements.

What `Publish` makes current has been authenticated under the lock, so its whole
lineage is on disk (`HeadAlwaysLoads`); a caller that has replaced the pointer still
holds the lock over it (`PublishedIsHead`), so what it returns is in the lineage; and
a call names a state exactly while it lasts (`CallMatchesPC`), so a request of
`CasHistory` is one call. In the refinement the history is the sequence of prefixes of
the head's lineage, `ProposeGenesis` and `Execute` submit, `Publish` commits, `Return`
and an `Answer` that finds the asked state current acknowledge, every other `Answer`
and `Abandon` fail.

`OperatorJobsProofs`, for any finite set of jobs, any requests, processes and cancel
calls, with faults and crashes (`OperatorJobsAssumption`):

* `RecordsStaySound`, and `ChildrenStayBounded`, the bound in `PlacesAreKept`: the
  registry of a process is the set of its jobs between registration and release
  (`PlacesMatch`), and a running child is one of them;
* `SettledStaysFinal`, for one process. With a second server it is false (section
  5), so the hypothesis `Process = {p}` is part of the theorem. `OneInv` adds to the
  invariant that the record of a call in progress is open (`OpenWhileInProgress`) and
  that a server has records to rewrite only while it recovers (`RecoversUnsettled`).

`NobodyForgotten`, the hard part of the first, is kept because a recovering server
knows every unsettled record of the calls it once served (`RecoveryKnows`), and
`RecordsTellTheTruth` because a thread's outcome is its child's (`OutcomesAreTrue`)
and a cancel call writes only over what it read unsettled (`CancelsReadUnsettled`).

`IsolatedExecutionProofs`, for any limit, read size, pipe capacity and amount
written (`LimitAssumption`):

* `VerdictStaysTrue`. A success dropped no byte because each byte written is kept,
  in a pipe or with a reader, unless that reader has a mark for it
  (`BytesAccounted`), a reader is done only with an empty pipe nobody holds
  (`DoneIsDone`), and a dropped byte sets the overflow the monitor looks at
  last (`DropsHaveCause`, `MonitorKnows`). A reader that
  grants itself nothing on a stale load drops bytes rightly all the same, because the
  retained count only grows between load and claim (`ClaimsAreRecent`).

`LearningProofs`, of the sessions: for any sessions, clients and plans, any choice of
apertures that the plan contains, and any number of early ends
(`LearningAssumption`):

* `SessionsStaySound` and `WhatWasAnsweredStays`.

The holder of a session's lock writes a receipt that continues what is current
(`WritersHold`), so a new pointer loads; the ledger binds each receipt once, and
only receipts on disk (`LedgerBindsStored`); each receipt outside the chains is
charged to one early end. The two calls that take no lock are safe for reasons of
their own: an aperture that was asked for stays in its session's chain
(`AdmittersWereAsked`), and nothing continues a complete receipt
(`FinalsComplete`).

`LearningProofs`, of the authorities before a promotion: for any metrics, policies, stage
lists, subjects and evaluations of finitely many units whose windows do not end before
they start (`ObservationWindow::new`; `PolicyAssumption`, `EvaluationAssumption`,
`UnsealedIsNoState`), called in any order:

* `PromotionsRestOnProof`, `CanaryStaysHonest`.

TLC carries one chain of at most five reports to its end; the theorems have no bound on
the length of a path, the number of stages or what the callers keep for later. The
invariant, `GovernanceInv`, is what each sealed value says of the reports inside it:
a trajectory is in one order of time and on evidence of its own although only its last
end is compared (`IsPath`, `PathEndsLast`); an assessment is the verdict on its own path
(`PetfcIsOfItsPath`), a gate the verdict on its report; the reports of a canary follow
the gate's and one another (`ShownInOrder`), and one of its own passed each stage before
the one it awaits (`PassedStages`, `StageIsJudged`). `OneAuthorityPerObservation` then
needs only what `Promotable` compares, the ends of the three, because each lies between
the others' reports (`OneAuthorityHolds`). Windows compare because a finite set of ticks
has a first and a last (`FirstTick`, `LastTick`, `ReportFacts`).

`LearningProofs`, of the engine that solves numerical problems and remembers: for any
problems, checkpoints and suites, any number of calls and proposals, and any finite
answers of the backends in which what is accepted was produced (`EvolutionAssumption`;
`NoValueIsNothing`):

* `EvolutionStaysSound`, `AdviceStaysEarned`.

The engine keeps its lineages and its memory apart, and so does the invariant,
`EvolutionInv`: `LineagesEndInMemory` says that a lineage ends at the highest attempt of
its problem in memory until a rejection is repeated, and from then on at one that memory
does not hold. That decides every later call: new evidence takes its place in the first
case and is refused in the second (`TakenOrKnown`, `PlaceIsFree`), which is what
`EngineGoesOn` states and section 5 reports. A repeated solve is recognised because an
attempt says what the report it names says (`TellsOfItsEvidence`, `TellsStill`) and the
backends do not change their mind. That the reports of the trajectory are the trials
remembered, with no two to compare, rests on one suite and on candidates of their own
(`TrajectoryIsOne`). Backends answer something one can choose from because finite sizes,
and numbered checkpoints, have a least one (`SmallestExists`).

The advice is asked of memory and judged by what the cycles returned, so its proof needs
that memory holds an attempt that says what any returned one says, no later, and of a
trial the very attempt (`EmittedIsRemembered`). Then a rejection always speaks, being a
design of its own, and a trial that does not was outlived by a later one of its suite
(`LatestIsKept`), which was not rejected.

`CorpusTransitionProofs`, for any corpora and inputs and any number of stops
(`CorpusTransitionAssumption`, `NoneIsNoFile`):

* `TransitionStaysVisible`, `PriorStaysKept`, `ReceiptsStayAuthentic`.

The invariant is that of a recovery, which finds nothing but files: an open
transition is alone, and its prior corpus is live (`PriorLive`), or archived with no
corpus live (`Retired`), or archived with the new one live (`Published`), with each
required pointer in one place or the other (`OpenIsOneOfThree`). `CallKnows` says in
which of the three a call in progress is; a stop forgets it, and `Recover` finds it
again from `live` and the archive alone. `Published` is never left, because the next
finalization wants a skill bank and a recovery finds nothing to do: that is why
receipts authenticate for good and the journal is not ahead. It is a
property of this module, where nothing makes a bank after a publication; with
cycles that do, `SleepCycle` takes over.

`KnowledgeEngineProofs`, of an inquiry: for any finite set of numbered nodes and any
contracts over them (`NodesAreNumbered`, `ContractsAreTyped`; `NoneIsNoName`). Where the code derives
the name of an obligation it refuses one already taken
(`derived_dependency_identity_collision`), so in the model a node gives the name of
its obligation, and no contract's own obligation has it.

* `InquiryStaysSound`, `CompletionStaysHonest`, `AssessmentsStayEarned`;
* `EveryStepUsesARevision`, the variant behind `EveryInquiryEnds`: each step of the
  inquiry adds one to a counter that the contract's budget bounds.

`ReducerOutputIsValid` says that the reducer never builds what `validate_state`
refuses, but for an expansion that exceeds a hard cap, and that only from a contract
without room for all its nodes. It is proved for any caps (`HardCapsAreNumbers`):
`RoomIsEnough` counts the claims and obligations of a state against those of its contract
and the nodes (`ReducedClaims`). The validator alone is not inductive. `IInv` adds what the code keeps without
checking it again: every node of the graph has an obligation to expand it
(`NodesAreCovered`), the names that obligations use are known (`DutiesAreKnown`), a
receipt is shared out to one use (`ReceiptsAreShared`), what a report added is in the
graph or the inquiry knows that it is not (`EdgesAreRemembered`), a satisfied obligation
has an admitted action (`SatisfactionIsEarned`), and the verdicts of a claim are those
of its observations (`VerdictsAreCounted`). Acyclicity is kept because every new edge
leaves one root for a target that does not reach it (`StaysAcyclic`); the
node limit because a report is cut to the part that fits (`FirstFit`); the edge budget
because a report is taken whole or refused (`EdgesAdded`). `CountedIsSound`,
`ExpandedIsSound` and `ReduceIsSound` follow the three parts of the reducer, and
`JudgeIsOrderFree` is why the order of observations does not show in an assessment.

`KnowledgeEngineProofs`, of the residence decided from an inquiry: for any first heads
whose claims are typed (`ResidencyAssumption`, `NothingIsNoStatement`: a fact's own domain
holds the fact's statements, as in `ResidencyFact`; `NothingIsNoRecord`), any targets,
rounds and callers, any contested facts and a history of any bounded length:

* `ResidencyStaysSound`.

The invariant, `ResidencyInv`, is small: an inquiry has ended in its last state if in any
(`ChainEndsOnce`); a record, on file or about to be, is what was
derived of the state it names (`RecordsAreOfTheirStates`), which later states leave alone
(`RecordsStay`). That is why an ended inquiry is never decided two ways
(`OneResidenceOnly`) and why what authenticates is of the last state
(`AcceptedOnlyCurrent`). The rest is about the policy. What a derivation takes from a
matrix of facts is what the claims prove, and nothing else (`GivenIsProven`,
`DerivedIsSupported`). That silence neither rejects nor supports a candidate is
`SelectionHolds`, for every matrix: of the ways in which the open facts may turn out, the
two extreme ones, all yes and all no (`Settling`), differ in their answer whenever the
policy withholds one for lack of candidate evidence (`EligibleIsCertain`, `IdealIsOne`).

`SleepCycleProofs`, for any number of reconstructions, bundles and stops, whatever the
gate allows, and whatever the bundles verify as long as one verifies one reconstruction
(`SleepAssumption`, `BundlesNameOne`, `NoneIsNoState`):

* `FilesStayAuthorized`, `CertificatesStayJustified`, `PromotionsStayEarned`.

The three come from one invariant, `IInv`, because the files alone do not say what the
next pointer may be. It follows the places of a call in their order: what a call has
written by then (`CallKnows`), and which of its decisions are still true there
(`CallStands`). Until the recheck, the verdict is that of some bundle not older than the
one whose digest was read; the recheck makes the two one (`GoingOnStands`), which is why
the ledger certifies on the bundle it names (`LedgerIsJustified`). Until `PointBank` the
planned bank is the active one with at most the reconstruction of the moment at its
end; then, until `PointState`, the active bank is the planned one, so the state never
gets ahead. A certified operation puts its reconstruction at the end of the bank
(`Headed`) and the bank never falls behind a certified state (`BankIsAhead`), so a cycle
that is certified and does not promote finds its reconstruction at the end already.
`PromotionsStayEarned` needs the most: a stop between the bank and the state lets the
same reconstruction be promoted again, so no bound per reconstruction holds.
`ReasonsAreSpent` says that the bound is reached only when what the bundle of the moment
verifies has been promoted, and then the next promotion needs another bundle or a stop.
That is where `BundlesNameOne` is used: a bundle that verified two reconstructions would
be a reason for two promotions.

The constants `None`, `Nothing` and `NoValue` are kept apart from every value they are compared
with by named assumptions (`None` is a model value for TLC, the absence of a file in the code).

Only model-checked: `PortfolioSelection`, whose front and plan are folds; of
`NumericalEvolution` what `ExperienceIsHonest` says of replay, a fold over the attempts;
and `ContentVault`, whose walks are filtered sequences of paths. What a fold or a filter
yields for every list is induction over data, which is beyond the prover, as are
recursive operators, `ENABLED` and liveness under fairness (`ServiceGoesOn`,
`CancelStopsTheChild`, the second half of `PlacesAreKept`, `RecoveryResolves`,
`CallAnswers`, `SleepSettles`, `EveryInquiryEnds`).

## 5. What the code does otherwise than one would think

Checked as a violation, because the code's own words say otherwise:

1. `adapter_bank.rs:2593`. `revoke` names the whole dependency closure in
   `operation.affected`; the validator wants exactly the new revocations. After
   one source of a composition was revoked, the other cannot be. The module's
   header promises transitive, sticky revocation.

Seen in the models. The properties of section 3 are stated so that they name
these cases and exclude no others:

* Jobs. `cancel_operator_job` writes back the record it read before it set the
  flag (`control_plane.rs:1633`); a job that settled in between is unsettled for
  good. `serve` recovers before it binds its address (`:3961`): a second server
  fails the running jobs of the first and then finds the address taken. Two equal
  requests can both run, also a new one beside the orphan of a dead server.
* Corpus transition. A recovery that stops between the restored corpus and its
  pointers is taken for a rollback by the next one; the pointers stay archived
  (`transition.rs:155`). A finalization that stopped between the new corpus and its
  receipt is refused with its original input too (`:726`). A recovery that dies
  before it clears the head leaves it to the next call (`:161`); a transaction
  directory without an intent jams every recovery (`:798`).
* Sleep cycle. (a) A stop after the bank pointer and before the sleep state makes
  the retry promote again, so unused fields decay twice. (b) Evidence replaced
  between the recheck that is to prevent a half-applied transaction
  (`transition.rs:1536-1540`) and the later copy leaves memory and bank moved and
  the sleep state old, without any crash. (c) A stop between the transaction
  directory and `intent.json` jams that operation for ever. (d) After a first
  revoked cycle without a bank any new bundle makes every later cycle fail
  (`sleep_installation_unexpected_current_evidence`), as does a stop between the
  state pointer and the receipt of such a cycle.
* Learning sessions. A call that ends between the receipt and the pointer blocks
  `next` for good (`learning_orchestrator.rs:1303-1307`), an assimilation goes on
  only with another envelope, and a session whose start ends after the marker is
  reserved for ever, although `:1464-1465` says "Atomically issue exactly one
  canonical next aperture". Vxx admission names its files by aperture only
  (`experimental_evidence_admission.rs:718`, `:741`): a second session, or a retry
  after a stop, cannot admit a receipt for an aperture already admitted under the
  same root.
* Numerical evolution. (a) A problem whose solve was rejected and that is solved again
  is one attempt to the memory and two to the cycles; the receipt of
  `tidex numerical.evolve` declares the first number (`bin/tidex.rs:1474`) and
  `procedural_replay.rs:258-261` refuses it, although `:15` lists such receipts as
  replayable. (b) The engine's lineage then points at the attempt the memory did not
  take (`numerical_evolution.rs:531-532`), so another candidate for that problem,
  which only other external proposals can bring, is refused for ever
  (`procedural_lineage_parent_missing`). (c) `retrieve` keeps one trial per
  configuration and suite, and all trials of an engine share a suite, so a later
  success hides an earlier adverse trial of another problem. (d) Read, not modelled:
  `workflow_b_loop` asks with the attempt's ordinal plus one as its revision, so the
  attempt it has just made is of the future and its advice empty.
* Knowledge engine. `reduce_dependency_expansion` (`knowledge_engine.rs:4720-4770`)
  inserts a claim and an obligation for each node without looking at `HARD_MAX_CLAIMS`
  and `HARD_MAX_OBLIGATIONS`, as `reduce_discovered_obligations` (`:4782-4784`) does. A
  contract with many claims of its own and a large `max_dependency_nodes` can so get a
  receipt whose successor `validate_state` (`:3551-3552`) refuses, although `:4447`
  promises one successor per receipt: the inquiry stays at its revision and is not ended
  by a limit either. `ReducerOutputIsValid` and `EveryInquiryEnds` except this case and
  nothing else; a contract that leaves room for its nodes (`Roomy`) cannot meet it.
* Budget. Any positive `exploration_strength` is accepted (`portfolio_governance.rs:2857`)
  and rounding may absorb its term beside a large mean; then equal candidates have equal
  scores for ever, and `:3150-3154` gives the one with the smaller id every further trial.
  `EqualsTakeTurns` claims alternation only of policies that tell counts apart.
* Residency. A round is not consumed by a decision: two files may answer one round,
  about different heads. A decision taken while the inquiry is open is a file like any
  other, and authenticates only until the next advance. An unknown dimension withholds
  every residence (`residency_decision.rs:1628`), also the one all its values admit.
* Vault. A capture with an executable file or an excluded path can be retained but
  never materialized (installed files have mode 0600, excluded paths are not
  observed). Two materializers that both found nothing, or a checker beside an
  installer whose own check fails, can have a projection removed that was already
  returned, or return one that was never whole, when the clock of the directories hides
  the removal of a part already walked. A partial projection, which refuses every later
  call, is left by a removal that fails (the error of `remove_dir_all` at
  `content_vault.rs:302` is dropped), by a call that made the root and fails before it
  cleans up (`?` at `:248`), and by the death of an installer; `PartsHaveACause` names
  these causes and rivals, and holds for every other error. A path that returns to an
  earlier content can hide between two walks; `acquisition_contract.rs:1520-1522` says as much.

## 6. Plan

1. `ContentVault` with the paths still to be walked as a set in the order of names, so
   that `EvidenceWasThere` can be proved for every tree.
2. The learned controller's training receipts beside the learning sessions.
3. The steps of `CorpusTransition` inside `SleepCycle`.

### Not modelled

Numerics (`analysis/`, most of `learning/`, `materialization/`) and the receiver's
data plane work on floating-point tensors and immutable files: their questions are
about values TLC cannot enumerate. Validation of documents, digests and identities
is pure and unit-tested. Path containment, permissions and descriptors are the
operating system's. Command-line programs, HTTP parsing and the console keep no
state. About a third of the repository's Rust lines are inline tests, which the
models do not stand for. PROJECT.json gives the reason part by part.
