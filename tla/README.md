# Verification of Shadow Mission

TLA+ models of Shadow Mission (`src/src/shadow_mission/`, `src/hooks/`, `src/ops/`, `src/demo/`),
checked with TLC, and theorems about them, proved with TLAPS.  File and line references are to the
repository; `storage.py` stands for `src/shadow_mission/storage.py`, and so on.

1. [The system](#1-the-system)
2. [Modules](#2-modules)
3. [Runs, bounds and fairness](#3-runs-bounds-and-fairness)
4. [What is proved](#4-what-is-proved)
5. [Disagreements between the code and its documents](#5-disagreements-between-the-code-and-its-documents)
6. [Abstractions, and what is not modelled](#6-abstractions-and-what-is-not-modelled)
7. [What could come next](#7-what-could-come-next)

`PROJECT.json` lists the components, runs, hazards and theorems, and maps each definition to the
lines it stands for.

## 1. The system

Shadow Mission wraps one Factory Mission.  The Mission's agents call a hook process at every
lifecycle event.  The hook sends the event to a loopback **collector**, which authenticates it,
admits its session by what Factory's own files say (**correlation**) and submits it to the **event
ledger**.  The ledger's one writer thread asks the **intervention router** for a response, makes
event and response durable, and hands the exchange to the **review controller**.  The controller's
worker reads the **transcript**, has a confined **model session** extract claims, updates the
mission graph, detects findings, probes them in further sessions and feeds the outcome back to the
router, whose interventions go out as guidance with later responses, hold sessions that want to
complete and, if nothing helps, end the Mission.  The router's state is mirrored in a signed
**latch** on disk, so that a hook that cannot reach the collector still knows what to do, and
charges its attempt to the latch itself.  The **runtime** counts the run in an authorization
ledger, owns the Droid process group, and when the Mission is over stops the collector, drains the
review, reconciles what the hooks left in the latch and decides the outcome; **finalization**
exports the source and evaluates it in a fresh VM.  Before any of this may be released, a
**feasibility gate** has to run one paid Mission under its own controller, on a fixture whose
re-sealing is an offline **operation** of its own.

| Component | State | Operations | Hard behaviour | What makes it correct |
|---|---|---|---|---|
| Event ledger (`storage.py`) | `events.jsonl`, index, degradation marker; published records, pending exchanges, queue | `start`, `submit`, `response_for`, writer loop, `stop`, recovery | handlers race the writer; each disk step can fail; crash between two; a timed-out submit still becomes durable | an acknowledged response stays durable; a retry gets the first response; a file without marker is fully projected; a stop drains the queue |
| Router and latch (`router.py`, `hooks/hook_runtime.py`) | router state with one record per conflict and session; latch and head file; lock | `plan_response` and its commit, hook fallback, final reconciliation, poll | latch read without its lock and written with the generation read; two writers in different processes; killed hooks; two file writes | the latch is never behind the router; a run is released only when every blocker is resolved; a held session ends the Mission at its deadline |
| Review pipeline (`review.py`, `review_journal.py`) | queue, active exchange, completed risks, journal | `after_append`, worker loop with its stages, probes, `drain`, `reconcile_*`, `stop` | worker and run thread share the journal; stages fail after others were journalled; time limits; an append that fails after writing | the journal is a prefix of the complete review; a released run is completely reviewed; the stop ends |
| Collector and replay guard (`collector.py`, `auth.py`) | handler threads, remembered requests, raw transcript contexts, degradation | accept, `verify`, `discard`, `refresh`, `capture_request`, `submit`, `stop` | three tables with their own locks and one event in all of them; retries while the first request is processed; a stop that races handlers | answers come from the event's one exchange; a clean stop loses nothing and nothing changes after it |
| Correlation and roles (`correlation.py`, `roles.py`) | relations, registry, role assignments, cursor in Factory's files | `refresh`, `exclude`, `allow_relation`, `observe`, `finalize_record` | three files read one after the other while Factory writes them; several requests and the review thread | only sessions that all three files name are let in; one that is let in is never quarantined; a contradiction closes intake |
| Transcript reader (`transcript.py`) | cursor and descriptor of each transcript, unfinished tool uses | register, `read_primary`, `close` | files that grow, shrink and are replaced during a read; long lines; an evicted tool use | every line once; corrections belong to their use |
| Runtime, baseline (`runtime.py`, `cli.py`, `demo/run_baseline.py`) | `mission.lock`, authorization ledger, `launch.json`, `status.json`, `run.json` | prepare, count, lock, launch, poll, heartbeat, teardown, outcome, unlock | lock file left by a crash; ledger counted at different times, by one kind of run without the lock; heartbeat against the terminal status; teardown that fails in part | one Mission at a time; no number counted twice; a reportable outcome keeps its terminal status |
| Finalization, evaluation VM, status (`finalization.py`, `evaluation.py`, `status.py`) | exported source, frozen records, VMs by name, evaluation, completed run record | export, freeze, inspect, start, evaluate, delete, complete; `load_status` | a failed start that left a VM; VMs of other commands under the same name; two commands finalizing at once | success only after the VM is gone, the evaluator passed and the Mission stopped |
| Internal sessions (`internal_session.py`, `probe.py`) | one event loop thread per session, its turns, process and private home; spare session; disabled boundary | `extract`, `prewarm`, `prepare`, `send`, `close`, `abort`, retries of cleanup | a cancelled turn that ends late, an abort that races a prewarm, a close or an answer | an abort acknowledges only what was handled; an answer comes after its session is gone; nothing is lost sight of |
| Fixture re-seal (`ops/reseal_feasibility.py`) | profile, manifest, pin; requests, receipts | `prepare`, `apply`, `verify` | three files replaced one by one, without a lock; kills, power loss, expiry, edits | what is on disk can be resumed; a returned receipt is durable and verifies |
| Feasibility gate (`live.py`, `feasibility.py`, `live_control.py`) | attempt counter, reservation, ledgers, candidate, imported evidence, gate; controller with latch and own collector | preflights, launch claim, Mission, export, teardown, gate; hook answers, pause and resume | any process dies between any two steps; VMs made anew; two commands; the controller's own outage | one Mission ever; success is that of a clean Mission; the verdict on the worker is what happened |
| Graph, rules, extraction (`graph.py`, `rules.py`, `extractor.py`) | claims, evidence, findings of one Mission | pure functions in the review thread | authority of evidence | findings are inputs of the models |
| Production wiring, protocol, redaction, evidence, preflight, profile, isolation, source export | none, or frozen tables | checks and conversions | none | schema and digest checks, reached by unit tests |
| Release tooling (`ci/`, `ops/`, `demo/`) | files | offline scripts | none | sequential validation |

Interactions: hook → collector over HTTP; collector → authenticator, correlation, controller
(`capture_request`), ledger (`submit`) by call; ledger writer → controller (`decide`) → router
(`plan_response`) → latch, and after the append the plan's `commit` and the controller's
`after_append`, all on the writer thread; controller worker → journal, transcript reader, roles,
extraction broker, probe scheduler, each broker with threads of its own; hooks and router share
the latch through files and a lock file; the run's thread polls the latch and, after the Mission,
calls `collector.stop`, `controller.drain`, `reconcile_final_outage`, `controller.stop` in that
order (`runtime.py:1825-1844`), then writes `run.json` and gives up `mission.lock`; only then does
finalization begin, so two commands may finalize at once.

## 2. Modules

### The Mission's events

**`EventLedger`** is `EventLedger` of `storage.py` step by step.  Disk variables (`jsonl`, `torn`,
`marker`, `index`) survive `Crash`; memory variables are rebuilt by `Open`.  A handler thread is
`client[c]`: `SubmitPrior`, `SubmitJoin` and `SubmitFirst` are the branches of `submit` under the
state lock, `Put`/`PutRefused` the queueing after the lock is released, `Receive`/`WaitTimesOut`
the wait.  The writer is a program counter over `setup, poll, decide, mark, append, project,
index, clear, publish, answer` and the failure path `fail, reject`.  `StepFails` leaves on disk
whatever the failed operation may leave; `Crash` leaves the same.

**`ResponseLog`** is what the ledger promises: an append-only log with one record per event, from
which responses are given.  `EventLedger` implements it with `log <- jsonl` and `given <-` the
acknowledged exchanges.

**`InterventionPolicy`** is the router's decision logic as operators on a router state: routing a
finding (`Routed`), cancelling, assigning a repair, evidence (`Evidenced`), guidance (`Guided`),
completion (`Completed`), and what a hook does to the latch in an outage (`OutageMove`) and how
the router recognises it (`OutageAdvance`).  `Allowed` is `_ALLOWED_TRANSITIONS`.

**`InterventionRouter`** gives it state and processes: the ledger's writer (`PlanTool`,
`PlanCompletion`, `Commit`, and their failures), a hook for each session (`Stop`, `Unverified`,
`Fallback` takes the lock and writes the latch, `FallbackEnds` writes the head and releases,
`HookKilled` stops in between), the clock, and the run's thread (`Poll`, `MissionEnds`, `Drain`,
`TakeOutage`, `TakeEvidence`, `Conclude`).  `durable` is what replaying the deltas of ledger and
journal gives, kept beside `router` to state what recovery and the report would see.

**`ReviewPipeline`** has the ledger's side (`Commit` is `after_append`), the worker (one action for
each stage of `_process_exchange`, `_schedule_probes` and `_record_probe_outcome`, with `Raise`
and `Fail` for exceptions) and the run's thread (`Drain`, `Reconcile`, `Close`, `Abort`,
`CancelPending`, `Finish`, `Join`).  `journal.readable` says whether the file is still a digest
chain of the records in memory.

**`HookCollector`** has a handler for each connection, from `Accept` through `Verify`, `Recall`,
`Refresh`, `Capture`, the branches of `submit` and the answer; the ledger's writer in three steps;
and the thread of `stop`.  `seen` is the authenticator's memory, `held` and `paired` are the
controller's tables of raw transcript contexts.

**`MissionRelations`** is `correlation.py` and `roles.py`.  `Factory` writes `state.json`,
`features.json` and `progress_log.jsonl` in its own order and, as a fault, tears, drops, reorders
or moves them.  A hook request runs `Refresh(h)` under the one lock: `Locate`, `ReadState`,
`ReadFeatures`, `ReadLog` each read one file at one moment, and for one candidate after the other,
in the order of the features (`Order`) and of their attempts, `AdmitRelation`, `AdmitRole`,
`AdmitSession`, `Assign` publish it table by table as `allow_relation` does; `Enter` puts the request into the ledger.  The review thread is `Observe` and
`Record`; `Freeze` is `finalize_record` on the run's thread.  `said` and `hook[h].sound` are
histories: what Factory's files ever named, and whether they contradicted the producer when the
request came.

**`TranscriptReader`** counts a file in units and a line in some of them.  A read is `Look`,
`Reopen` or `Register`, `Measure` (the first `fstat`), `Take` (the `pread` of a chunk), `Settle` (the
second `fstat`; a line longer than a chunk is dropped there), `NextLine` for each whole line (it is
dropped or read, and a tool's result paired with its use) and `MoveOn` (the cursor), while `Writer`
appends, replaces, cuts, removes or links files between them.  The pool of unfinished tool uses is
a set in which each use has its turn (`since`), so that the oldest makes room.

### The run and its sessions

**`MissionRuntime`** is `MissionRuntime.run` with the baseline of `demo/run_baseline.py` beside it:
`Launching` (`Prepare` to `Announce`, with the authorization ledger as the set `entries`),
`Executing` (`Spawn`, `Poll`, `Reap`, `Correlate` over the process group), `Returning` (`Quiesce`,
`Conclude`, `Terminate`, `Record`, `Unlock`), the heartbeat thread `Beat`, and `Crash`, which
leaves files, lock and processes as they are.  **`MissionFinalization`** extends it with what
follows after the lock is gone: `Admit`, `Export`, `Freeze`, the VM (`Inspect`, `StartVm`, `Claim`,
`Evaluate`, `DeleteVm`), `Complete` or `Recover`, and `Reported`, what `load_status` says.

**`SessionWorker`** is what both brokers stand on: `_LoopWorker` with its generations and
cancellations, the coroutine of a turn one step per await, the confined process and the private
home.  **`ExtractionBroker`** puts three threads on it (the request, the prewarm, the abort),
**`ProbeBroker`** two (the probes with the disabled boundary of `probe.py`, the review's abort).
What a thread does under the broker's condition between two waits is one step.

### Before a release

**`FixtureReseal`** is `prepare_reseal`, `apply_reseal` and what `verify_reseal` accepts; a state of
the three files is a triple of names, sealed when they agree.  Every read, replacement, sync and
link is a step; `Fail`, `Kill` and `PowerLoss` come between any two, and `durable` is what a power
loss leaves.

**`LiveRun`** has the host commands (`HostStep`: preflights, reservation, launch, claim, copies,
teardown, gate), the guest's process (`GuestStep`: attempts, probe, launch claim, Mission,
candidate), and what may happen to them: `KillCommand`, `KillGuest`, `HostLoss`, `MakeVm`.
`missions` is the history of Missions that were launched.  **`LiveGate`** is the controller of that
Mission (`live_control.py`) with the hooks, the requests in the listen backlog or in a thread, and
the outage the controller makes itself (`Pause`, `Resume`).

### Conventions

The models meet at interfaces that both sides state: the steps that `EventLedger` calls `Project`
are `Commit` in `InterventionRouter` and `ReviewPipeline`; the three writer steps of
`HookCollector` are those of `EventLedger` grouped by what a handler can see; the run's thread of
`InterventionRouter` and of `ReviewPipeline` is the same code seen from two sides, and
`MissionRuntime.Quiesce` is that thread as one step.  `refresh` in `HookCollector` admits any set
of sessions; `MissionRelations` says which.  A stage of `ReviewPipeline` that talks to a model is
one step that may fail or be aborted; the brokers are what is inside.

The `MC` modules hold values that a configuration file cannot express, and the side-by-side
instances of section 3.  Definitions named `<Definition>_<Something>` whose comment begins with
"Variant" are wrong versions of the definition after them: each property is known to fail when a
variant takes its definition's place.

The theorems about a component and their proofs are in its `...Proofs` module.  It EXTENDS the
component, or the `MC` module where a property is stated for the side-by-side instances;
`MissionProofs` is about `MissionRuntime` and `MissionFinalization` together, `ReleaseProofs` about
`FixtureReseal`, `LiveRun` and `LiveGate`, `EvidenceProofs` about `MissionRelations` and
`TranscriptReader` for the properties of `MCEvidence`, and `SessionsProofs` about the probes' side
of `MCSessions`.

## 3. Runs, bounds and fairness

| Run | Question | Properties |
|---|---|---|
| `event_ledger` | do responses survive failures, crashes, retries and stops? | `TypeOK`, `AckedSurvives`, `RetryGetsFirstResponse`, `CleanLedgerIsProjected`, `ImplementsResponseLog`, `QueuedBeforeStopCompletes` |
| `ledger_short_write` | and when a write is cut short silently? (violated, section 5) | `AckedSurvives` |
| `router_scopes` | a worker's conflict with every verdict and kind of evidence; one of the whole Mission with repair by another worker | `NoOpenBlockerReleased`, `MovesAlwaysAllowed`, `HeldBlockerEndsMission` |
| `router_faults` | one blocker with a failing disk, killed hooks, processes that survive the Mission; two sessions' hooks and the writer at one latch | `CopiesAgree`, `NothingEverForgotten` |
| `router_outage` | does a hook's outage advance disturb the ledger? (violated) | `OutagesNeverDegradeTheLedger` |
| `review` | two exchanges and a probe under every fault; three exchanges and two risks put off, taken up again, stopped | `JournalInOrder`, `CleanStopMeansReviewed`, `EveryRiskProbedOnce`, `EveryRiskSettled`, `Reviewed`, `Stops` |
| `collector` | retries, conflicting content, foreign transcripts, malformed bodies, a stop at any time | `RetryGetsFirstExchange`, `NothingIsLost`, `IntakeStopsFirst` |
| `mission_runs` | two commands on one state root, each a Mission or a baseline, one fault or death anywhere | `MissionsCountedOnce`, `OneMissionAtATime`, `TerminalStatusStays`, `DeletedMeansGone`, `WholeSuccess` |
| `sessions` | an extraction with prewarm and abort; probes with the review's abort | `AcknowledgedMeansHandled`, `AnsweredAfterCleanup`, `SessionsKeptInSight`, `UnsafeEndsProbing` |
| `evidence` | whose requests are let in, and what their transcripts say, while files change | `AcceptedMeansNamed`, `AdmittedStay`, `ContradictionClosesIntake`, `LinesReadOnce`, `CorrectionsPaired` |
| `release` | re-seals, the commands of the paid Mission, its controller | `FixtureResumes`, `ReceiptMeansDurable`, `ReturnedMeansVerifiable`, `OneMissionEver`, `CleanSuccess`, `WorkerVerdict` |
| `live_outage` | is the retry in the controller's own outage noticed? (violated) | `OutageRetryNoticed` |

**Side by side.**  Six runs check two or three instances at once.  A variable `part` is chosen in
the initial state and never changes; a behaviour is one of the chosen instance, and the variables
only another one has stay as they began.  The state space is the disjoint union of the instances',
and nothing is said about one acting on the other.  In `review` the first
instance has every fault but those of a probe's result, and in the second a probe may lose its
snapshot or disable the boundary (`unsafe`), so that the risks found later are never asked.  A
property of such a run is the modules' own property of whichever instance the behaviour is of;
`CopiesAgree` is the conjunction of `TypeOK`, `DeltasReplayToRouter`, `LatchCoversRouter` and
`ReleasedMeansResolved`, and names like `FixtureResumes` or `WholeSuccess` add a type invariant to
one property of the module.

**Bounds.**
- `EventLedger`: two handlers, two events, two digests, two responses, a queue of one, two
  pending exchanges (`MaxPendings`) in a behaviour.  Two handlers suffice for join, conflict and
  a full queue; two pending exchanges for one that is being written while another waits.
- `InterventionRouter`: clock up to 1 with a hold of 1 (`MaxTime`, `HoldTime`; 600 seconds in the
  code), so that a deadline is set, not reached, reached and passed; one guidance delivery
  (`MaxDeliveries`; 3 in the code), so that there is a first and a refused one; the evidence of a
  finding grows once (`MaxSupport`); one completion in the ledger per session (`MaxPending`).
  Attempts have the code's limit of two.
- `ReviewPipeline`: two exchanges with a queue of one, or three with two (256 in the code), so
  that the queue is empty, in between, and full; one risk or two, of which one is found while
  another exchange waits.
- `HookCollector`: three connections over seven requests: an event, its retry, the same event
  with other content, two other sessions, one that claims the first session's transcript and a
  malformed body; two contexts and a queue of one, so that both tables fill.
- `MissionRuntime`, `MissionFinalization`: two runs, each of either kind, over three preflights
  (two authorizations for the same count, one for the next), one evaluator name that both use,
  one fault of seventeen kinds.  Two runs are what it takes to contend for the lock, the count
  and the name; one fault already leaves a lock, orphans, a torn record or a foreign VM behind.
- Sessions: three sessions per instance (the one in use, the spare, the next), one request or
  three probes, one fault of eight kinds or two of nine.  The second probe meets what the first
  left, the third what an unsafe boundary disabled.
- `MissionRelations`: two workers, an orchestrator and two control sessions, two features, two
  concurrent requests beside the run's own thread, one fault.  `TranscriptReader`: two
  transcripts, two files, three lines of one, two and four units with a chunk of three, a longest
  line of one, so that a line fits, is oversized, and is longer than a chunk; two records a read
  and one unfinished tool use, so that both limits are reached; one mischance.
- `FixtureReseal`: two operators, three surfaces, two requests, one receipt path, one edit, one
  crash, a clock of one against a validity of one.  `LiveRun`: two commands, two VMs, two attempts,
  one mishap: a second command is the smallest threat to "one Mission", and one kill between any
  two steps leaves every partial state of one command.  `LiveGate`: four completions a session may
  ask for (a first block, one in the outage, a retry and a late one), one trouble.

**Deadlock** is checked in `review`, where everything has to come to an end (`Done` is the end of a
concluded run), and in `sessions`, where a behaviour may only stop at `Over`: since the state
graph of either broker has no cycle but `Over`, the absence of deadlocks there says that `abort`,
`extract` and the probes return.  The other systems may really stop: a closed ledger, a concluded run, a stopped
collector, a finished command.

**Fairness.**
- `EventLedger`: weak fairness of the writer and of a `put` that has begun.  The writer is a
  thread that polls its queue; a `put` takes no lock that is held while waiting.
- `InterventionRouter`, first instance of `router_scopes`: the clock advances, the run polls
  (`runtime.py:1772-1783`, called in the loop that waits for the process), and a hook that holds
  the lock finishes.  Nothing is assumed of hooks that have not started or of agents, so
  `HeldBlockerEndsMission` also covers a held session that never tries again.
- `ReviewPipeline`: the worker and the run's thread; everything they call has a time limit, and
  running into it is an action.

Symmetry (connections, runs, aliases, operators and surfaces) is used in runs without liveness.

**What a reader should take from the safety runs.**  `AckedSurvives` and `RetryGetsFirstResponse`
range over process lifetimes: the crash may come between any two disk steps and the retry may
come before, during or after the restart.  `NoOpenBlockerReleased` looks at four copies of the
router's state (durable deltas, memory, latch and head), since a report, a restart and a hook
each read another one.  `NothingEverForgotten` is an action property of the latch under all its
writers.  `JournalInOrder` holds at every moment, whichever stage of whichever exchange failed.
`NothingIsLost` and `IntakeStopsFirst` relate the stop to handlers that are anywhere in `process`.
`MissionsCountedOnce` is said where every command is a Mission: a baseline counts without the lock
(section 5).  `OneMissionAtATime` holds although a crash leaves a live process group and the next command finds
only the lock.  `AdmittedStay` is about the order in which four tables are published while another
thread reads two of them.  `LinesReadOnce` compares all that was ever taken from a file with the
lines that are in it.  `OneMissionEver` needs each of the guest's claim, the host's ledger and the
reservation: a new VM has lost the first, a killed command never wrote the second.

## 4. What is proved

| Module | Theorem | States |
|---|---|---|
| `EventLedgerProofs` | `Inductive` | `Spec => []IInv` |
| | `TypeCorrect` | `Spec => []TypeOK` |
| | `Durability` | `Spec => []AckedSurvives` |
| | `Idempotence` | `Spec => []RetryGetsFirstResponse` |
| | `CleanRestart` | `Spec => []CleanLedgerIsProjected` |
| | `Refinement` | `Spec => ImplementsResponseLog` |
| `ReleaseProofs` | `OneMission` | `LiveRunSpec => []OneMissionEver` |
| | `SuccessIsClean` | `LiveRunSpec => []CleanSuccess` |
| | `ResealInvariant` | `ResealSpec => []ResealIInv` |
| | `Resumes` | `ResealSpec => []FixtureResumes` |
| | `ReceiptsDurable` | `ResealSpec => []ReceiptMeansDurable` |
| | `ReturnedVerifiable` | `ResealSpec => []ReturnedMeansVerifiable` |
| | `GateInvariant` | `GateSpec => []GateIInv` |
| | `Verdict` | `GateSpec => []WorkerVerdict` |
| `MissionProofs` | `OneMission` | `Spec => []OneMissionAtATime` |
| | `TerminalStatus` | `Spec => []TerminalStatusStays` |
| | `EvaluatorGone` | `Spec => []DeletedMeansGone` |
| | `Success` | `Spec => []WholeSuccess` |
| | `CountedOnce` | `Spec => []MissionsCountedOnce` |
| `HookCollectorProofs` | `OneExchange` | `Spec => []RetryGetsFirstExchange` |
| | `Lossless` | `Spec => []NothingIsLost` |
| | `FinalIsFinal` | `Spec => IntakeStopsFirst` |
| `InterventionRouterProofs` | `RouterInvariant` | `Spec => []RouterIInv` |
| | `LatchRemembers`, `RouterMovesAllowed` | `Spec => NothingForgotten`, `Spec => MovesAllowed` |
| | `CopiesAgreeAlways` | `CopiesAgree`, in every state |
| | `ReleaseResolved` | `NoOpenBlockerReleased`, in every state |
| | `NothingIsForgotten`, `MovesStayAllowed` | `NothingEverForgotten`, `MovesAlwaysAllowed` |
| `ReviewPipelineProofs` | `ReviewInvariant` | `Spec => []ReviewIInv` |
| | `ReviewedInOrder`, `ReleasedReviewed` | `JournalInOrder`, `CleanStopMeansReviewed`, in every state |
| | `RisksProbedOnce`, `RisksSettled` | `EveryRiskProbedOnce`, `EveryRiskSettled`, in every state |
| `EvidenceProofs` | `RelationsInvariant` | `RelationsSpec => []RelationsIInv` |
| | `AcceptedNamed` | `RelationsSpec => []AcceptedMeansNamed` |
| | `IntakeClosed` | `RelationsSpec => []ContradictionClosesIntake` |
| | `NeverQuarantined` | `RelationsSpec => []AdmittedNeverQuarantined` |
| | `RelationsTyped` | `RelationsSpec => []RelationsTypeOK` |
| | `AdmittedHold` | `Spec => []AdmittedStay` |
| | `ReaderInvariant`, `TranscriptsInvariant` | `ReaderSpec => []ReaderIInv`, and of `Spec` |
| | `AlwaysPaired` | `Spec => []CorrectionsPaired` |
| | `AlwaysReadOnce` | `Spec => []LinesReadOnce` |
| | `NeverTwice` | no line is ever accounted for twice, whatever happens to the file |
| `SessionsProofs` | `ProbesInvariant` | `BothSpec => []ProbesHold` |
| | `UnsafeEnds` | `BothSpec => UnsafeEndsProbing` |
| | `ProbesHandled` | `AcknowledgedMeansHandled`, of the probes |
| | `ProbesAnswered` | `AnsweredAfterCleanup`, of the probes |
| | `ProbesInView` | `SessionsKeptInSight`, of the probes |

Where a property is stated for side-by-side instances, the theorem is about the behaviours of the
first one (`BothSpec /\ part = "first"`, `BothFairSpec /\ part = "faults"`).  That instance is the
module with its own constants, and the constants are arbitrary in the theorem; the values of the
second instance are among those it speaks of.  The two sides of `MCSessions` are different modules;
its theorems are about the probes' side.  No theorem about a safety property uses fairness.

Except for the ledger's `ShortWrites = FALSE`, the theorems rest on nothing but the named assumptions
of the modules (`RuntimeAssumption`, `PolicyAssumption`, `GateAssumption`, ...), which TLC evaluates
in every run.  They say what kind of values the constants are, and that the marks for "none"
(`Nobody`, `NoReceipt`, `NoOwner`, ...) are none of those they stand beside.

**The ledger.**  For every set of handlers, events, digests and responses, every queue limit and
number of pending exchanges, and all failures and crashes of the model.  The theorems assume
`ShortWrites = FALSE`: the operating system does not shorten a write without an error.
`ledger_short_write` shows that `AckedSurvives` needs this.

`AckedSurvives` is not inductive: that an answer is in the file depends on the writer having
appended what it publishes, on the pending exchange being the writer's own, and on nobody else
completing it.  `IInv` is the conjunction of
- `TypeOK`;
- `Ownership`: a pending exchange is held by one handler that still has to queue it, by the queue
  or by the writer, and while the writer lives it is the one registered for its event;
- `Construction`: the exchange under construction has the event and digest of its pending
  exchange;
- `Unrecorded`: an event that is registered has no published record, so that no event is decided
  twice;
- `FileInv`: what recovery demands of the file, contiguous sequences and no event twice;
- `DiskInv`: for each step of the writer, what memory, file, index and marker agree on; without
  it nothing says that the next sequence number fits the file or that a cleared marker is
  justified;
- `AnswerInv`: published records, completed exchanges and answers are records of the file.

There is a lemma for each conjunct (`TypeStep`, `OwnershipStep`, ...), with a step per action, and
lemmas about `Append` that they share (`AppendRecord`, `AppendKeepsFile`).  `FileGrowth` says that
every step leaves the file or appends the writer's exchange; `Durability` and `Refinement` both
rest on it.  `Refinement` maps the append to the log's append, and answers to responses of
records that are in the log; everything else stutters.

**The paid Mission.**  For any number of commands, VMs, preflight attempts, failures and kills, and
under no assumption but `LiveRunAssumption`, which says what kind of values the constants are.
`IInv` is the conjunction of
- `Sole`: from the creation of the reservation's file on, one command at most is between it and its
  paid guest (`Holder`), and whoever has launched held it;
- `Told`, for each command: what the guest's process remembers of its Mission (exit status, decoy,
  how far it came) is what `missions` says;
- `Recorded`, for each command: a command without a fault so far finds the run in the host's ledger;
- `Attested`: a candidate that passed, in the guest or as copied, is that of a good Mission;
- `Copied`: one command copies the evidence, and the VM it came from is deleted after that;
- `Succeeded`: a gate of complete success is that of a good Mission, is recorded, and its VM is
  gone.

`OneMissionEver` is a part of `Sole` and fails to be inductive without the rest: the claim in the
guest is lost with its VM and the ledger entry is written late, so that only the reservation bars
a second command.  The effects of a step are stated once (`GuestStepMoves`, `HostStepMoves`,
`HostStepEvidence`: what moves forward and what nobody else touches), and the step lemmas of the
invariant cite those instead of the actions.

**The Mission.**  For any number of runs, evaluator names, preflights and flags, and any number of
faults.  `IInv` says four things of each run:
- `Holds`: a Mission has `mission.lock` from its acquisition until it has returned, and as long as
  its process group lives;
- `Measured`: what a run remembers and records of its process group is so;
- `Sober`: an outcome that may be reported is that of a Mission that stopped, with its heartbeat;
- `Evaluated`: the evaluator a run records as deleted was its own and is gone, and it was recorded
  after everything else.

`OneMissionAtATime` follows from `Holds`, but not from the lock alone: a crash leaves the lock and
the process group, and `MayUnlock` relies on what `Measured` says of the memory.  A step is one run's
own or somebody else's machine (`Intrude`); lemmas ending in `Own` are about the run that takes the
step, `Elsewhere` and `Shared` say what it leaves to the others.  `CountedOnce` rests on a further
invariant, `Tallied`, about the authorization directory: under the lock no entry is temporary but
the run's own, and no entry that lasts ever goes, so that whoever is counted has been seen by
everybody counted later.  It is about commands that are all Missions; with a baseline among three
commands it does not hold (section 5).

**The collector.**  For any connections, requests and limits of the queue and the contexts.  The
replay guard proves to be of no help: it forgets an event whenever a request for it is rejected.
What keeps one exchange per event is the ledger's own table.  `IInv` is the conjunction of
- `Awaits`: a handler at the ledger waits for an exchange of its own event and content;
- `Handed`: every pending exchange is at one place, about to be put, queued, being written or
  published;
- `Single`: among the pending, published and written exchanges an event has one;
- `Replied`: what was answered is published, and a handler that has ended without the collector
  being degraded has had its answer;
- `Closed`: a stop that has not failed has no handler left when it closes the ledger, and leaves
  nothing in it.

**The router and its latch.**  For any finite set of interventions, any sessions, targets, workers,
scope, verdicts, evidence, faults and bounds.  Everything that is done to a record makes it grow
(`Grown`, `Onward`): it takes transitions or stays, and nothing that hooks added is taken back.  Since
the generation counts transitions, a commit that finds the generation it planned on finds the
very latch it planned on (`PlannedFrom`), although the plan read it without its lock.  `RouterIInv` is
`Typed` with
- `Covered`: a latch that is whole, or that a hook holding the lock will make whole, has grown from
  the router's state by hooks alone, or by the durable commit that failed;
- `Planning`: the state that is being committed has grown from the latch it was planned on;
- `TakenOver`: after the final reconciliation hooks alone have advanced the latch;
- `Replays`: the durable deltas replay to the router's state;
- `Released`: a released run has nothing running that could change it, and no blocker is open.

The lemmas about the policy (`Routed`, `Evidenced`, `Guided`, `Completed`, ... make records grow) hold
for each operator by itself; the step lemmas cite them.

**The review.**  For any number of exchanges, deltas and risks, any size of the queue and any set of
faults.  What was journalled of the exchanges says where the review stands: the journal is in order
(`InOrder`), and the record the worker owes next is the one the complete review has next (`Ready`,
`Partly`, `Through`).  `ReviewIInv` is the conjunction of
- `Typed`: the types, and what a worker of each kind has left to do;
- `Queued`: queue and worker hold the last of the committed exchanges without a gap;
- `Placed`: how far the review is in the journal;
- `JournalReadable`: while the controller calls itself sound its file is whole;
- `Counts`, `Tried`, `Settled`: the records of a risk, who has it in hand, and that nothing known is
  left over;
- `Concludes`: a released run has no worker and is not degraded.

`EveryRiskProbedOnce` needs `Counts` and `Tried` together: the worker and the run's thread may
both be about to end one probe.

**The re-seal.**  For any operators, surfaces and receipts and any validity of a request.
`ResealIInv` is about each operator (`Looked`, `Owns`, `Writes`), each receipt (`Filed`) and the three
files (`Standing`).  As long as no two transactions overlap and none began behind a file that is not
on disk (`Quieted`), the disk is at a prefix of one signed request and the readers at most one file
ahead (`Adjacent`); an operator has replaced and synced every file before its own (`Proceeds`),
although what it saw may be older than that (`Glimpsed`).  The properties exclude the same two
cases by the same history variables; section 5 says what happens in them.

**The gate's controller.**  For any number of completions, troubles and refusals.  A request tells
the past: when it is handled its session may have gone on.  `GateIInv` says that what the controller
concludes is of a kind that time cannot undo (`Right`): that the worker came to its completion
(`Late`), that its session ended (`Over`), that its transcript holds a correction and its file was
put right.  So a late request is as good as one in time (`Honest`), and a session is blocked only
for hooks it sent (`Sound`).

**Correlation and roles.**  For any workers, features, plan and number of concurrent requests, and
any faults of Factory's files.  `RelationsAssumption` says that the roles of Shadow, its decoy, the
orchestrator and the workers are different sessions and that no two features share a place in the
order; `RolesAssumption` that the marks for "no role" are no roles.  `RelationsIInv` is the types with
- `Locked`: one refresh at a time, after the control sessions were excluded;
- `Read`: the three files are read one after the other while they change, so what was read need not
  be what they say now; but they have said it, and all of them vouch for every candidate;
- `Books`: the producer's own table, the relations and the assignments differ at most in the
  session that is being admitted, and no two sessions hold one role;
- `Mapped`: the review thread, which reads two of the tables without the lock, has taken over what
  they say and has quarantined nobody;
- `Guarded`: a refresh that began after a contradiction still has the file before it that shows it.

`AdmittedStay` rests on `Books` and `Mapped`: role and relation are published before the requests
are let in, so that the review never meets a request whose role it cannot find.

**The transcripts.**  For any finite set of transcripts, any files, lines, mischances and bounds, as
long as a line's limit is no longer than a chunk.  `ReaderIInv` is the types with
- `FilesWritten`: lines are numbered as Factory begins them, so that the numbers in a file, and in a
  chunk of it, grow, and change behind the end of a line only;
- `ChunkPlaced`: the chunk that was read is in the file yet, where the cursor is; or the file was cut
  and everything in it is newer;
- `Placed`: what was accounted for is older than what has not been reached;
- `Told`: in the history the numbers grow, and a result is later than its use;
- `Waiting`: a use in the pool is a line that was read, and no result has been paired with it;
- `CorrectionsPaired`, `EveryLineOnce`: the properties themselves.

That no line is accounted for twice holds whatever happens to the file (`NeverTwice`); that none is
missed needs a file that is only appended to, and by less than a chunk while it is read
(section 5).  That a use has one result needs the first of the two: the same use, read again after a
cut or at a moved cursor, would wait a second time.

**The probes' sessions.**  For any number of sessions and probes and any faults, and for both threads
that meet in the broker (`BothSpec`, where `part = "probes"`).  `ProbesInv` is the types with
- `ProbeSessions`: what a session's turns say of its process, its home and its cleanup: the first
  turn prepares, nothing else starts a process, a close that succeeded found the process gone, and
  a close that was begun or is over says what it left;
- `ThreadFits`: what a thread knows of the session that it closes, whose cleanup it retries or whose
  turn it cancels.  A close and a retry have one thread each (`Closes`, `Retries`);
- `ProbeFits`, `StopFits`: how far the probe is and what it may conclude there;
- `BrokerFits`: the session that is being prepared, the prepared and the active one exclude each
  other, and who works with them;
- `SessionsHeld`: only the thread that waits for a preparation may still see it answered; every
  session was let go of, was handed to its close, is in flight or is one of the broker's three; and
  a close that was begun and is not over has its thread;
- `Acknowledged`: after an abort that said it cleaned up nothing is being prepared and nothing comes
  back.

`UnsafeEndsProbing` is about one step, but rests on `SessionsHeld`: a process is started by a
coroutine, which no thread may be waiting for any more.  A step is a coroutine's or a thread's.  What
a coroutine does to its turn and its process is stated for one turn (`Runs`, `Prepares`) and lifted to
the session (`RunsSession`, `RunsServes`, `PreparationServes`); what a thread does to the turns of
others is `Handled`; and what no step takes back (`Lasts`) or leaves to the others (`Rests`, `Alone`)
carries the knowledge of the thread that did not move (`FitStays`, `Bystander`).

**Only model-checked**
- the liveness properties: `QueuedBeforeStopCompletes`, `HeldBlockerEndsMission`, `Reviewed`, `Stops`.
  Liveness under fairness and `ENABLED` are out of the prover's reach;
- the extraction's side of the model sessions (`AcknowledgedMeansHandled`, `AnsweredAfterCleanup`
  and `SessionsKeptInSight` where `part = "extraction"`): its prewarm is a third thread, it keeps a
  spare session between calls, and what that says of all the others has not been worked out as an
  inductive invariant;
- the absence of deadlock in `review` and `sessions`.

Induction over data and recursive operators are out of the prover's reach, too; no module here
declares a recursive operator, and least and last elements are found by the well-foundedness of the
naturals or by cardinality.

## 5. Disagreements between the code and its documents

Three were found by runs, which TLC shows violated:

1. **`ledger_short_write`** (`storage.py:663`).  The append ignores how many bytes an unbuffered
   write wrote.  On a full disk the exchange is published and answered while `events.jsonl` ends
   in an incomplete line, which the next start refuses.  `docs/architecture.md:46` promises "the
   first durable response"; `ReviewJournal.append` loops until the line is written.
2. **`router_outage`** (`router.py:1078`).  The plan reads the latch without its lock and the
   commit expects the generation it read.  A hook that advances the latch in between makes the
   writer fail, and the ledger is degraded for the rest of the run, without any fault.
   `test_outage_advance_is_reconciled_into_next_replayable_delta` and `router.py:1308` say that
   such an advance is reconciled.  The run still fails safe: it is not released.
3. **`live_outage`** (`live_control.py:651`).  The Mission's latch carries the run as its target,
   and the hook's fallback compares it with the session, so the hook blocks with the message that
   lacks the outage marker and the controller never notices a retry.
   `tests/feasibility/test_live_control.py:343-373` puts the marker into the transcript by hand.

The others were met while modelling.  Each module either excludes its case by a history variable
or contains it as behaviour that its properties allow; none has a run of its own.

- **Drain and the last exchange** (`review.py:1161`).  The worker takes an exchange from the queue
  before it counts itself as active (1165), so `drain` (1060-1073) may find nothing to wait for;
  the final deltas are then journalled ahead of that exchange's (`review_journal.py:440`).
  `router.py:1180` says "after projection drain".
- **A context dropped by another request** (`auth.py:463-468`).  `discard` forgets every verified
  request of the event.  A third request with other content then passes the guard (452), conflicts
  in the ledger, and its handler drops the transcript context the second had captured
  (`collector.py:598-599`, `review.py:453`); the exchange is reviewed without a transcript and
  nothing is degraded.  `review.py:394` says the path is held "until its exact event commits".
- **Unlocking** (`runtime.py:2068`).  The lock is removed after `run.json` is written; a failing
  removal raises 'Mission cleanup failed', which no record carries.  Compare
  `tests/integration/test_version_binding.py:1094`.
- **Evaluators of other commands** (`evaluation.py:568`).  After a failed start any VM of that name
  counts as the command's own and is deleted, also another command's.  Compare
  `tests/unit/test_evaluation.py:242`.
- **Aborting a probe that closes** (`internal_session.py:2882-2891`, 2029-2033).  The abort's cancel
  can hit the session's close, which counts as a failed close; the home is removed, the session
  forgotten, and `abort` answers `True` with the process alive (docstrings at 2393 and 2872).
- **A transcript that grows fast** (`transcript.py:145-165`, 487-509).  If a chunk has no line end
  and the file grows by more than `MAX_TRANSCRIPT_READ_BYTES` before the second `fstat`, whole
  lines are skipped as one oversized line (docstring at 61).  `outgrown` excludes it.
- **Replay of a journal** (`review.py:785-808`).  Replay rebuilds the digest of the relations from
  the sessions it has seen; a session admitted before its first decision makes a sound journal
  read as diverged.  Only tests call `replay` (`tests/unit/test_review.py:1522`).
- **Two re-seals at once, and synced too little** (`reseal_feasibility.py:1595`, 1745).  There is no
  lock, so two requests may leave a state that is no prefix of either; after a kill between a
  rename and its sync the resumed request does not sync the earlier rename; a kill between link and
  unlink leaves two links; and a request that expires in mid-transaction wedges the fixture
  (`docs/reproducibility.md:228`).  `overlapped` and `unsynced` exclude the first three.
- **The attempt counter** (`live.py:1838-1862`).  A kill between `ftruncate` and write leaves an
  empty file that reads as no attempts (docstring at 1795).
- **The gate's commands.**  `guest_live_run_count` counts an unreachable VM as unused
  (`live.py:3131-3133`).  The decoy starts outside the `try` that closes it (2288-2299).  A second
  live-gate command whose reservation fails tears down the VM in which the first one's Mission runs.
  `--finalize-host-gate` may replace a passing gate and takes `guest_execution_valid` for granted
  (3359).  A command killed between the copy and the gate loses the evidence, and a guest that runs
  into its time limit leaves the Mission running.  An `OSError` while the reservation is written
  escapes as it is.
- **The gate's controller** (`live_control.py`).  A `Stop` from before the pause that is handled
  after the resume counts as an attempt; one retried within 100 ms before the pause uses up the
  observation; a failed sync and a retry leave an event twice in the ledger; `_persist` may close a
  descriptor twice.
- **Further.**  A refused prewarm request loses sight of its session
  (`internal_session.py:1829-1846`); the baseline consumes an authorization without `mission.lock`
  (`demo/run_baseline.py:794`), and between its link and its unlink (`runtime.py:963-968`) another command counts both names: with one baseline there, two Missions
  approved for the same count can both be counted; `load_status` reports corruption for a run whose finalization did
  not complete; a retry that captures its context after the exchange took the first leaves one
  behind (`review.py:446`).

## 6. Abstractions, and what is not modelled

- **Ledger.**  A record is its sequence, event, digest and response; sizes appear only as the
  item limit of the queue.  The SQLite index is the set of indexed events.
- **Router.**  A record's transition history is the number of its transitions and how many of
  them hooks made during outages; the generation is their sum.  Digest comparisons compare the
  fields themselves.  The roles of sessions are known from the start, and the binding of an
  intervention to its original feature is the constant `Featured`.  "corrected" is left in the
  step that reaches it.  Cancellations, repair assignments and termination acknowledgments are
  inputs of `plan_response` for which the repository's wiring has no producer; the model supplies
  them freely.  The collector's degradation by a timed-out submit is left out, which can only
  release more.  The rollback anchor, delivery selection, response texts and the replay functions
  are not modelled.
- **Review.**  What a stage computes is abstracted to whether it fails and which risks it
  reveals (`Reveals`); whether a reconciliation yields a delta is a free choice.
  `_mark_degraded` and its append are one step.  `_pending_order` is always empty, since the one
  ledger writer hands over exchanges in order, so conflicts of sequence in `after_append` cannot
  occur.  The controller may defer a completion while a review is pending; that is `decide`, which
  is in the plan.  `controller-failures.jsonl`, the decoy of `production.py` and `replay` are left
  out.
- **Collector.**  A connection is used once.  Whether a body is malformed is a property of its
  digest, since sanitization is deterministic; a missed clock window, a bad header and a body
  that times out are one failure to read.  The hook makes each request once, with a new event
  identifier (`hook_runtime.py:1189`); retries follow the contract of `docs/architecture.md:45-47`.
  `GuidanceQueue`, which only tests build, is left out.
- **Correlation and roles.**  Files are the records they contain, a torn file is one that does not
  parse.  The marker roles of prompts, `require_complete`, the offline adapter and a session
  listed twice under one feature are left out.
- **Transcripts.**  `read_fallback`, redaction and classification of a record, and the checks of
  parent directories are left out.
- **Mission.**  The order of the review's teardown is in `ReviewPipeline` and `HookCollector`, and
  is one step here; release bindings and launch descriptors are one check each.  An evaluation is
  one step that passes, fails or breaks; attestation and output capture are in it.
- **Sessions.**  The SDK is what it may answer.  Sealed descriptors and the texts of turns are left
  out, and a home is there or not.
- **Re-sealing, the gate.**  Path, ownership and schema checks and the `openssl` calls are
  conditions of the steps.  Cost and catalog evidence, the canaries, guidance texts, the offline
  dry run and the capture commands are left out.

**Not modelled**, and staying so: source export and archive checks, the graph and its rules, claim
extraction, production wiring, protocol records and redaction, the evidence registry, release
preflight and profile, release tooling and guest setup.  They are pure functions of one value or
straight-line checks: they have neither a state of their own nor anything that interleaves with
them, and their unit tests reach them.  Where they meet the rest (an extraction, an export, a
preflight) the models have a step that may fail.

One hazard has no property, `review.py:1161`: it happens without any fault and is the first of
the disagreements above that no run shows.

## 7. What could come next

1. The proof of the extraction's side of the model sessions, from the lemmas about sessions that the
   probes' proof has.
2. An abstract latch with a monotone state and several writers, implemented by
   `InterventionRouter`: `Grown` is already its order.
3. `decide` and the deferral of completions, as a link between `ReviewPipeline` and
   `InterventionRouter`.
4. The publication of a report with rollback (`reporting.py:714-797`), and `load_status` while the
   journals are appended.
5. `DeliverySelector` and the authority rules of the graph as pure operators against reference
   definitions.
