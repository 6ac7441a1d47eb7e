# Linux Validation Suite: models and proofs

TLA+ modules for the concurrent core of the Linux Validation Suite (LVS), TLC
configurations that check them on small instances, and TLAPS proofs of what they
guarantee for every value of their constants. Paths below are relative to the
repository root.

## 1. The system

LVS is a Python program that runs a *profile*: a sequence of stages, each of which
starts CPU, memory and GPU stress workers as child processes, watches them, stops
them and writes a verdict. Optionally a stage also runs *Storage Thermal Assist*, a
separate supervisor process that reads block devices through native guard processes.
Most of the code (89,000 lines under `Modules/`) formats reports and reads sensors. The
code that is hard to get right is the code that owns processes.

| Part | State it keeps | Operations | Interacts with | What is hard |
|---|---|---|---|---|
| Storage admission gate: `native/storage_thermal_guard.c`, `SharedAdmission` in `Modules/lvs_storage_thermal_stage.py` | six bytes of a memfd, an OFD lock | `stage_target`, `revoke`, `closed` | primary, supervisor and every guard share the file | closing while a guard is between its checks and its acknowledgement; death while holding the lock |
| Thermal stage session: `Modules/lvs_storage_thermal_stage.py` | admitted, stopping, latch, marker, channel; launch rows, device claims, completion record | `start`, `poll`, `end_stage`, `finish`; supervisor `grant`, `launch`, `open`, `finish`, publish | primary, supervisor (pipes, signals, files), guards | a supervisor that wedges, dies or is orphaned; failed writes of the evidence or of the marker |
| Stage execution: `Modules/lvs_stage_execution.py`, `lvs_stage_live_loop.py`, `lvs_stage_process_control.py`, `lvs_gpu_retune*.py`, `lvs_gpu_safety_marker.py` | three lists of entries, the verdict, the GPU marker file | launch, poll, retune, operator stop, shutdown, evaluation | the operator's interrupts, the worker processes, the thermal session | an exception between any two statements |
| Worker shutdown: `stop_stage_processes` | request, deadline, timed-out and killed flags per entry | SIGTERM, wait, expire, kill, reap | workers that exit when they like or never | absolute deadlines of some while waiting for others, repeated calls |
| Runtime memory guard: `Modules/lvs_runtime_memory_guard.py` | a locked JSON control file, a ledger per worker | sample, claim, release, poll | the stage loop and every GPU worker | samples that are old when written, releases counted twice, killed workers |
| Local migration: `Modules/lvs_migration_transaction.py`, `lvs_migration_safe_fs.py` | journal, private workspace, backups, identities of what was installed | pin, revalidate, apply, verify, clean up, roll back | file system, other programs that write the same files, the operator's interrupt | any call failing, rollback failing, an interrupt between a change and its registration |
| Environment manager: `lvs_environment_manager.py` | operation record, `.venv`, its backups and retained partial copies, an inherited lock | synchronise, rebuild, roll back, recover | installer process groups that outlive it, the operator's moves by hand | a kill between any two renames, installers nobody waits for |
| Standalone thermal runner: `Modules/lvs_storage_thermal_runner.py` | claims, jobs with descriptor and result, unconfirmed jobs, stop and emergency flags | discover, claim, launch, monitor, reap, publish | native workers and their descendants, the operator's commands, signals | ends that cannot be confirmed, safety events in the middle of a pass |
| Run loop, timing and completion: `Modules/lvs_run_*.py`, `lvs_stage_event_state.py`, `lvs_stage_evaluation.py`, `lvs_storage_benchmark*.py` | stage windows and verdicts, timing anchor, manifest and compatibility mirror | next stage, evaluate, benchmark a target, consolidate, write, fail | stage execution, front ends, readers of the artifacts | stops noticed in the wrong place, late events, torn files |
| BMC poller: `Modules/lvs_telemetry_bmc.py` | snapshot, future, closed flag | request, refresh, poll, close | an executor thread | two readers harvesting out of order |
| Telemetry, reports, profiles, settings, upload, front ends, inventory | collected data | read, classify, format, save | - | volume rather than concurrency |

What makes the first nine correct, in one sentence each: nothing is admitted once
closure was confirmed; a session that says it finished cleanly left nothing alive,
and one that cannot say so keeps later sessions out; a stage leaves no worker behind
and the marker is there while a GPU worker might run; nobody is killed before the
time promised and the stop call is bounded; growth granted never exceeds what was
measured plus what is accounted for, and an emergency reaches every worker; a migration
loses no original and what it tells the operator is true of the files; an environment is never
moved from under an installer and an interrupted rebuild can always be recovered; a drive is not
given away while anything reads it, and nothing starts in an emergency; a run that reads as
completed is one, and a stop that was heard ends it.

`PROJECT.json` lists every component (`components`) and the places where this code is
hard to test (`hazards`), each at its line and with the properties that cover it.

## 2. The modules

Each `X` has its proofs in `XProofs`, but for ProcessShutdown and RuntimeMemoryGuard, which share
StageBoundsProofs; each is checked through `MCX`, which only gives the constants small values.

    StageGate  <---- implemented by ----  AdmissionGate
        ^
        | one abstract gate per session (INSTANCE, checked as GatesAreStageGates)
    StageSession                  (one session = "session" of StageExecution)
    StageExecution ---- its wait+kill+reap step in time ----> ProcessShutdown
    RuntimeMemoryGuard            (the workers of a stage and the stage loop)
    ValidationRun  ---- its duration stages in detail ----> StageExecution
    MigrationTransaction          (on its own: the lock keeps runs and other migrations out)
    EnvironmentManager            (on its own: its lease keeps other managers out)
    ThermalRunner                 (the standalone use of the guards StageSession uses in a stage)

### StageGate: what a gate promises
Variables `gate` (`open`, `requested`, `closed`), `inside` (guards past their first check), `admitted`.
`Close` is only possible with nobody inside, `Admit` only from inside. It is the
whole interface: the sessions use it and know nothing of bytes and locks.

### AdmissionGate: the memfd protocol
`requested`/`closed` are bytes 5 and 4 of the file (`LVS1OO`), `lock` the owner of the OFD
write lock, `gpc` the place of each guard in `stage_target()`, `rpc` the place of each
revoker in `SharedAdmission.revoke()`. Every read, write, lock attempt and clock sample is
an action; `GuardDies` and `RevokerDies` may happen between any two and release the lock,
as the kernel does. `GateState` and `Inside` map it to `StageGate`.
`stage_open()` reads the parent, the bytes and the clock in one call and is one step.

### StageSession: sessions, supervisors, workers, crashes
One primary process that can crash and be restarted (`Crash`, `Restart`), sessions one
after another, one supervisor per session and one worker per session and device.
`latch` is the in-memory `_UNCONFIRMED`, `marker` the file, `talk` the control channel,
`row` the supervisor's ownership row of a launch, `worker` what the kernel knows,
`claims` the exclusive device descriptors, `completion` the record on disk, `report` the
`io_admission_state` written by `finish()`. The actions follow the code: `start` with its refusals,
the handshake, `launch` step by step (row, process, group, descriptor, acknowledgement), the
supervisor's `finish` and publication with failures, the primary's `finish` with the wait, the
forced kill of the group and the marker write that may fail.
Merged: exclusive claims are taken in one step and released at the end of the supervisor's run.

### StageExecution: the stages of a run
A worker is a slot and a generation. `owned`, `loop` and `updated` are the three Python
lists that exist at once: the one the `finally` block will stop, the live loop's own, and
the one a retune is filling. An operator interrupt is possible at nearly every step.
The verdict follows `apply_stage_events` and `evaluate_completed_stage`.
Merged: waiting for one entry, killing and reaping it is one step (ProcessShutdown
has the detail); which abort settings a profile has is a nondeterministic choice.
An ordinary exception is taken wherever the code lets one through: outside the `try` it ends the run at once
(`RaiseUnguarded`), from the live loop, a retune or the handler of an operator stop it reaches the `finally`, which stops the launch list,
finishes the session and clears the marker before the exception goes on (`LoopRaises`, `raising`).
A failing `kill()` is not modelled.

### ProcessShutdown: stop_stage_processes in time
A clock, a request and a deadline per entry, the wait in progress and its limit.
Any worker may exit at any time or never. Entries in `Vulkan` carry the allowance as an
absolute deadline, others get a budget that starts when the parent turns to them. The
call may be repeated with the same list. No time passes between two calls, and
`ReapTime` stands for the five seconds of the waits that follow a kill.

### RuntimeMemoryGuard: samples, claims and the emergency
`SampleRead` reads MemAvailable, `Update` applies it under the lock later, so claims and releases
fall between. `Claim`, allocation, failure, cleanup and death are separate steps of each
worker; `ledger` is its `RuntimeMemoryClaims`, `held` the memory itself. A sample may be any level,
because other programs use memory too. Left out: the warning counter, fields
that are only reported, claims on dedicated device memory. One locked file update is one
step; a worker killed or failing its cleanup is `Dies` and keeps its claims charged.

### MigrationTransaction: execute() step by step
`pc` and `at` are the place in `execute()` and the action reached. `tree` is what lies at each
destination (nothing, a directory, the `old` file, the `new` one, an `other` program's), `backup` what was set
aside, `after` the identity the rollback compares with. `begun` is the journal in memory and
`disk` the one on disk; `installed` is the list the rollback works from, `todo` what it has left;
`work` and `tracked` are the files in the workspace and those `workspace_files` knows, which differ
when a call fails halfway. A replacement takes four steps, because the code can be stopped
between them: `Aside` (rename), `Note` (tracked), `Own` (registered), `Link`.
Any file system call may fail (`Fault`), before or after its effect where the code allows both; `Interrupt` is
a KeyboardInterrupt at any step; `Touch` is a program that does not take the lock.
`remove_verified` takes two steps, because another program may write between them: `Undo` compares the
identity, `Remove` unlinks whatever is there then.
Merged: one workspace stands for the one per root; a copy cut by an interrupt is one that fails. Left out: a plan
that is refused before anything starts (`apply_ready`), file modes, and the bundle as a whole.

### EnvironmentManager: `.venv`, its record and its installers
Directories are numbers in the order they were made, so an identity is never reused (`path_identity`). `venv` is what
lies at `.venv` (0: nothing), `backups` and `kept` what was renamed aside, `formed` what is
recognisable as an environment, `verified` what the package check accepted. `record` is the record an operation holds in memory, `disk` the one `save_operation()`
renamed into place, `installer` the command under way. It is `lost` when it runs but its manager left it without a kill: an
interrupt after `Popen` has started it and before the `try` (`Launch`), or a second one before `killpg` (`Kill`). The operation then takes the way of any failed
command, and the lost installer writes to whatever is at `.venv`, or makes a directory there again (`LostInstallerWrites`, `strays`).
The lease is a lock on an open file that the installer inherits, so `Leased` holds until manager and installer are
both gone. `Crash` may fall between any two steps, `Kill` is a time-out or a Ctrl-C, `Mishap` any call that
fails; `Operator` moves directories and records while nothing holds the lease, as the manual says.
Merged: one command stands for the similar ones of an installation (`Commands` of them in a row);
the package check belongs to the last. Left out: choice and probing of interpreters, prompts, building of helpers.

### ThermalRunner: ThermalRunner.run()
`pc` is the place in a pass of the loop: `control` (commands, the approval), `launch`, `monitor`, `reap` (each job once, `todo`).
`group` is what the kernel knows of a worker's process group: leader alive, only descendants left, gone. `fds` are the exclusive
descriptors held by jobs, `claims` those not handed to one, `unconfirmed` the list that outlives a run. `stopped`, `safety`, `killed`, `expired`,
`confirmed` and `finished` are fields of the job's result; `failure` is the exception the handler took.
No clock: a deadline (`Expire`, `KillGroup`, `GiveUp`) may pass in any pass in which the code compares it.
Merged: the two-second waits of the handler with what they find. Left out: temperatures and counters, of which only
the outcome (nothing, warning, safety stop, invalid evidence) is chosen.

### ValidationRun: a run, and what it reads as
`pc` and `at` follow `execute_validation_run()` through the stages of the profile, `kind` says how a stage is executed (`live loop` or
benchmark). `verdict` and `events` belong to the stages, `dirty` marks a worker result that counts as failed, `windows` are
the stages with a window. `asked` is the operator's wish, `heard` the stage in which the code noticed it: by the TUI's flag, or as the exception a Ctrl-C raises.
`clock` is the anchor of `RunTimingController`. `manifest` and `mirror` are the two files a reader takes the outcome
from; a write that is not atomic passes through `torn`. `Read` is `completion_from_directory()`.
`Raise` is an exception at any place no handler of a stage covers, `Crash` a kill at any step.
Merged: one poll of the live loop with what it records; the reading of a fio result with the end of its
target. The workers of a duration stage are in StageExecution, which takes the same exits from the live loop.

## 3. What the runs check

Every property of a passing run has a mutant in `PROJECT.json`: a plausible mistake in one
mapped definition that makes TLC report the property violated under the same configuration.
`CHECK_DEADLOCK FALSE` is used because these systems really stop: guards run or die, runs
end, calls return.

| Run | Instance | Distinct states | What it shows |
|---|---|---|---|
| `gate` | 2 guards, primary and supervisor as revokers, deadline 1 of 2 ticks | 208,000 | no admission after confirmed closure, none on a sample taken after a request, at most one guard commits once the deadline has passed, the abstract gate is implemented, guards end |
| `session_safety` | 1 device, 2 sessions, 1 crash | 3.7 million | no overlap of sessions within a process, device exclusive across a crash |
| `session_two_devices` | 2 devices, 1 session, 1 crash | 57,000 | what a clean finish promises and that reports match native commits, with a launch that fails beside a running worker; the gate used as the abstract gate allows; `finish()` ends; an orphaned supervisor exits |
| `stage_execution` | 2 entries (1 GPU), 2 stages, 3 processes per slot, 2 interrupts | 708,000 | a stage that no exception left leaves nothing, one worker per slot, the marker covers GPU workers, every run ends |
| `shutdown_deadlines` | 4 entries, 3 of them Vulkan, 2 calls | 45,000 | nobody is killed early, deadlines are late by at most one reap, a call is bounded and returns with every worker exited, or killed and reaped |
| `memory_guard` | 2 workers, 4 levels, 2 request sizes, 3 claims each | 116,000 | overcommitment is bounded by what was claimed at the sample, no growth under pressure, an emergency empties the workers |
| `migration` | 4 actions (a directory, a file in it, 2 replacements), 2 failing calls, 2 destinations written by others, 2 interrupts | 329,000 | no original is lost, the journal is ahead of the files, the result returned is true, the rollback never begins to remove late writes of others |
| `environment` | 2 managers, 2 commands, 3 directories, 2 failing calls, 2 kills, 1 move by hand | 489,000 | an installer keeps its environment unless its own manager lost it, an interrupted rebuild can be recovered, the record is true, every operation ends |
| `thermal_runner` | 2 drives, 2 runs, 2 mishaps | 1.2 million | a descriptor outlives its worker, PASS and WARN are true, nothing starts in an emergency, every run ends |
| `validation_run` | 2 stages of any kinds, 2 targets, either front end and abort policy, 2 exceptions or kills | 235,000 | a run that reads as completed is one, a stop that was heard ends the run, no verdict is lowered, the clock stands |
| `stage_stop_finding`, `migration_interrupt_finding` | smaller instances | - | the disagreements of section 6 |

Why these bounds reach the interesting cases. Two guards and two revokers are every
pair that can meet at the lock; a clock of 0, 1, 2 has a time before, at and
after the deadline. Two sessions with one crash give the three relations between
sessions (same process, before and after a crash, refused by a marker); latch and
marker are the only memory between sessions, so a third session sees nothing a second does
not. What concerns one session alone (finish, report, gate) is checked with two devices, so that
a launch can fail beside a live worker. Three
generations in a slot are a launch and two retunes, or retunes of two
stages; two interrupts are the first and the one during the `finally` block. Four entries let
an ordinary one sit between Vulkan ones with shorter and longer deadlines. The
levels 0, 1, 3, 4 lie below the emergency, between it and the reserve, and above by one
and by two requests; three samples make an emergency. The plan has each operation, a directory with
something in it (it can be left not empty) and a replacement before and after another action; two
failing calls are one in the apply and one in the rollback, two interrupts are the
one the handler catches and the one that escapes from it. Two managers are the one that died
with a live installer and the one started beside it; three directories are the old
environment, its replacement and one made by hand, by a lost installer or by the next attempt. Two drives are one whose
worker runs while the other has still to start, or has just ended badly; two runs are one that could
not confirm an end and the one it must refuse. Two stages are one that was stopped and one that must not be
taken up; two targets, one that failed before the cancellation came; two mishaps, an exception and a failing write (or a
kill) in its handler.

## 4. Fairness

Only what scheduling or the kernel gives. *gate*: a process that is alive runs its next
step, and the clock advances; nothing is assumed of the supervisor offering a descriptor, and
no process is assumed to die. *session_two_devices*: the primary continues `finish()`, the
supervisor whose parent is gone runs its cleanup, and a process sent SIGKILL is gone in
the end; a supervisor is not assumed to answer. *stage_execution*: the primary runs, and a
loop polled again and again sees the stage's duration elapse (strong fairness of
`TimeUp`); workers are never assumed to exit. *memory_guard*: a sample read is applied, a worker
runs its next step, and one that comes round to its polling point repeatedly polls
(strong, because allocation steps leave and re-enter the point). *environment*: a manager in
operation takes its next step, installer commands end or meet their time-out; nothing is assumed of
installers nobody waits for, of kills or of the operator. *thermal_runner*: the loop runs, and one that
finds a deadline that may pass again and again sees one pass (strong, because a pass looks at the jobs in
turn); no worker is assumed to end. The other runs check safety only and need none.

## 5. What is proved

TLAPS proves the following for every value of the constants, under the named assumptions of
each module (sets disjoint where the code has distinct processes, bounds natural numbers).
The bounds are constants, so the results hold for arbitrarily large ones.

* **AdmissionGateProofs.** `TypeOK` and the safety properties are not inductive: a guard's
  second read of the bytes only counts because it holds the lock, and a closed byte only
  counts because it was written under it. `IInv` adds who owns the lock at which step
  (`GuardsOwnTheLock`, `RevokersOwnTheLock`), that a closed gate was requested before
  (`RequestedFirst`, `ClosedWasRequested`), that nobody is inside a closed gate (`ClosedShutsOut`,
  `ConfirmedIsClosed`), and that a decision pending rests on an early sample (`DecisionsPending`, `Timely`),
  and that a guard which committed late left nobody behind it with a sample in time (`OverdueIsAlone`): one hold of the lock spans sample and commit, so
  whoever comes next samples after the deadline.
  From it: `SampledBeforeRequest`, `ConfirmedClosure`, `ClosureIsFinal`, `OneLateCommit` and the
  refinement `GateImplemented`.
* **StageSessionProofs.** Six invariants in layers. `PermissionInv` follows a worker back
  over its row, the channel and the supervisor's position to `admitted`. `ClaimsWhileActive` ties
  the claims to the supervisor's active phase and gives `ExclusiveDevice`. `CleanInv` says what a
  completion that claims cleanup rests on: it was written by a supervisor that saw every row gone,
  after which nothing can be launched. `OverlapInv` orders sessions and shows that whoever
  could leave a worker latched, which refuses the next session of that process. `ReportInv` ties a commit to its launch
  row on both sides (offered before, acknowledged after), the completion to the rows its supervisor left, and the report to a
  session that can admit nobody any more; with the layers below it gives `ReportsAreTrue`. `ClosedIsEmpty` (nobody is
  inside a closed gate) is what the refinement `SessionsUseStageGates` needs, so that a late `revoke()` is a stutter of StageGate.
* **StageExecutionProofs.** `IInv` says, for each place of the primary, which of the three lists
  names every process that may be running (`WhileLaunching`, `WhileLooping`, `WhileStopping`), that only
  the newest generation can run (`Newest`), and where marker and verdict are fixed. It makes
  precise which workers escape when an exception, the operator's stop or another, leaves the live loop (`Escaped`), and everything else is shown stopped.
* **StageBoundsProofs**, for ProcessShutdown. `IInv` ties request, deadline and the limit of the wait in progress
  together; `NobodyIsKilledEarly` follows for any list and any number of calls. `DeadlinesAreKept` needs more:
  while a wait is in progress no deadline before its limit has passed unhandled (`Punctual`), and the limit of a
  wait is the minimum over the pending deadlines. `CallsAreBounded` charges the time of a call entry by
  entry. `Used(k)` is what the entries before `k` may have taken: their own budgets if they are ordinary workers, one
  reap each, and once for the whole call the longest Vulkan allowance. `OnTime` keeps clock, limit and wait within that
  charge at every place of the call; it holds because every Vulkan deadline was fixed before the first wait
  (`Granted`). `CallsLeaveNone` follows the second pass (`Past`): a kill in the middle of another entry's wait does
  not undo what was done for the entries before it. That is what lets StageExecution take
  an entry's wait, kill and reap as one step.
* **StageBoundsProofs**, for RuntimeMemoryGuard. `Accounts` keeps the allowance inside the headroom of the sample in
  force and the memory of a worker inside its ledger; `PressureStopsGrowth` follows. `GrowthIsBounded` is about all workers
  together: nobody holds more than its ledger (`Covered`), and since the sample was applied the live ledgers
  have grown by at most what the allowance has lost (`Backed`). A worker that dies leaves its ledger charged,
  a release returns at most what it uncharges. The set of workers is assumed finite, as it is: they are
  processes on one list, and a sum over infinitely many is no number.
* **StageBoundsProofs**, sums. Both bounds add up over workers (`Total`, `MapThenSumSet`). What such a sum is cannot be shown with the
  library's induction rules, which take an operator as parameter; the module shows it by a least counterexample:
  a set of subsets of a finite set has a minimal member, and the claim holds there. `SumUnique` and `SumExists` give
  the equation of the sum, `TotalAdd` and `TotalUpdate` what a changed worker does to it.
* **MigrationTransactionProofs.** Everything the `migration` run checks, for every plan and any number of
  faults, touches and interrupts. None of it is inductive, because what the rollback may do depends
  on where the apply stopped. `IInv` therefore says what is still untouched (`Fresh`), what the action under way has
  done (`Midway`), what is over (`Done`); that a backup listed for cleanup is one the rollback
  knows (`Keeping`); that what changed is in the journal (`Logged`) and registered or invisible
  to the rollback (`Known`). For `OutcomeIsTrue` two more are needed: undisturbed, what is left to undo is still as it was
  put there and can be reached (`Reversible`), and a rollback was started by a failing call
  (`Caused`); so a rollback that gives up met a second failure or an unregistered file (`Justified`).
  `LateWritesKept` has to follow the rollback through compare, unlink and rename (`LateWriteStays`): what it promises ends at the comparison.

* **EnvironmentManagerProofs.** The lease makes one manager the only one in operation (`Exclusive`), and an installer
  that was not killed leaves its manager nowhere near a rename, unless that manager lost it (`Attended`); a lost one has the rollback ahead of it and no later
  operation. That gives `InstallerIsSafe`, because `.venv` changes only in steps of the manager in operation, by hand with the lease free, or by a lost installer itself (`UntouchedStep`). `Progress` says where the directories and both copies of
  the record are at every step of an operation, which is what makes `Recoverable` inductive: a kill only forgets the copy in
  memory. `byHand` withholds the promises about the record from a move by hand to the next save,
  `strays` those about a directory a lost installer made.
* **ValidationRunProofs.** `Stopping` follows a stop from where it is noticed: in the live loop into the events, in a
  benchmark into the results, and from there to the verdict or, for a failed target, to `StopLost`. `Shape` keeps an
  error beside every failed verdict, without which the consolidation would improve it. `Artifacts` says that nothing
  moves any more once the final manifest or a mirror is on disk; with `StatusIsTrue` that gives `CompletedRunsAre`.
* **ThermalRunnerProofs.** `Guarded` ties every worker group of which something is left to a descriptor that a job or the
  unconfirmed list holds; it needs no mention of the claims, which are handed over before a worker starts. `Settled` says that
  nothing is left of a confirmed job, `Refused` that a run is refused while anything is unconfirmed and that the
  unconfirmed jobs of the run being published are `incomplete`; with `Judged` these give `VerdictsAreTruthful`. `Stopping`
  (an emergency stops everything, and then nothing is pending) gives `EmergencyStopsLaunches`. The first attempt at
  `VerdictsAreTruthful` failed for a good reason: the verdicts were `CASE` expressions with overlapping arms. TLA+ does not order
  the arms of a `CASE` (TLC takes the first that holds), so the model allowed a WARN for an unsettled run, which the code's
  chain of `elif` does not. They are `IF` chains now.
* **Types.** The type invariant of every module is proved (`TypeCorrect`, `ShutdownTypeCorrect`, `GuardTypeCorrect`) and
  none takes up a run; each was checked by TLC before it was proved.

Only model-checked: liveness, because fairness and ENABLED are outside the prover: `GuardsLeaveTheGate`,
`FinishTerminates`, `OrphanedSupervisorEnds`, `RunEnds` (twice), `WorkersStop`, `OperationEnds`. Every other property of
a passing run is a theorem.
`AdmittedBeforeWorkers` and `StopEndsRun` are proved and not listed by a run: `GatesAreStageGates` and
`HeardStopEndsRun` ask the same question of more of the system.

## 6. Disagreements met

* `stage_stop_finding` (code): an operator stop during or after a retune leaves the replacement GPU
  worker running and clears the safety marker, because the list with the replacement
  is taken over only on a normal return of the live loop
  (`Modules/lvs_stage_execution.py:193`). An ordinary exception does the same with nobody asking for a stop: raised in the live loop after a retune, or
  between a replacement's `Popen` and the return of its entry (`Modules/lvs_gpu_retune_process.py:46-55`), it reaches the `finally` (lines 222-249), which stops the
  launch list and clears the marker with the replacement alive. `NormalEndLeavesNothing` and `MarkerCoversWorkers` name both ways out (`Escaped`) and hold, proved,
  for everything else.
* `migration_interrupt_finding` (code): an interrupt after a replaced file's backup is tracked for cleanup
  (`Modules/lvs_migration_transaction.py:285`) and before the replacement is registered (line 294)
  is handled as a complete rollback that restores nothing and then deletes the backup, the only
  copy. The same happens when the interrupt falls into the final cleanup, which may already have removed
  backups. `OriginalKept` excludes exactly these two places and holds, proved, everywhere else.

Two more that the passing properties bound instead of a run that fails:

* When the supervisor's one write of `completion.json` raises (`Modules/lvs_storage_thermal_stage.py:890`) the record of the
  error has no launch rows (lines 940-946), and `finish()` reports `not_admitted` for a session whose worker was admitted.
  `OUTPUT_CONTRACT_INDEX.md:47` says of these fields that they "distinguish committed, unconfirmed and unadmitted
  work". Cleanup is still reported unconfirmed and recovery latched, which `ReportMatchesCommits` shows.
* The waits that reap a killed worker (`Modules/lvs_stage_process_control.py:450`) are not interrupted for other Vulkan
  deadlines, as `docs/vulkan_shutdown_phase_diagnostic.md:98` says of the parent's waits. `LateByOneReap` bounds the lateness, proved.

Met while modelling the environment, the standalone runner and the run, and in the models as the code has them:

* An interrupt that comes when `Popen` has started an installer and the `try` is not entered yet (`lvs_environment_manager.py:152-153`), or a second one before
  `killpg` (lines 156-158), leaves it running while `replace_environment` rolls back (lines 725-735) and renames `.venv` from under it; it may then write into the
  restored environment or make `.venv` again, which the rename back does not survive. `docs/environment_manager.md:224` says that a Ctrl-C "terminates
  the installer group before rebuild path recovery, so surviving build children do not keep writing into a restored environment". `LiveInstallerKeepsItsEnvironment`
  excludes that rollback and nothing else; the lease keeps every other operation out until the lost installer has ended.
* A second Ctrl-C during the five seconds a killed installer group is given (`lvs_environment_manager.py:163`) leaves
  `run_managed_command` as a KeyboardInterrupt, so `replace_environment` rolls back with the end of the group
  unconfirmed (`Reap`, last disjunct); `docs/environment_manager.md:228` says the rollback is withheld then.
* A cancel command for a drive that has finished calls `stop()` (`Modules/lvs_storage_thermal_runner.py:233`): it signals a
  process group that is gone and overwrites the reason and the safety flag. So does the stop for left-over
  descendants (line 344) with the safety flag `_finish` has just set. `VerdictTruthful` holds all the same, because the state was fixed before.
* A low-memory emergency in the pass in which the last worker completes leaves the verdict PASS; a worker that
  passed its deadline is incomplete and no emergency for the others.
* A benchmark in which a target failed answers a cancellation with FAIL: no `operator_stop` event, no abort, and the
  run goes on to the next stage (`StopLost` in `HeardStopEndsRun`). In the TUI the flag stays set and the next stage stops; in the CLI
  a Ctrl-C is forgotten, and one that meets a failing clean-up of its target does not even end the batch.
* The failure handler rewrites the manifest in place (`Modules/lvs_run_bootstrap.py:68`). Torn after the mirror was exported, the run reads as what
  the mirror says, "completed" where every stage had completed before the failure (`Read`). A reader that relies on
  `smoke_tests/run_completion_evidence_checks.py:43`, a mirror "cannot resurrect PASS", should know. `CompletedIsTrue` shows
  that the stages of such a run were all good.
* An error that follows a warning raises neither the verdict nor an abort at once (`Modules/lvs_stage_event_state.py:66`); the
  consolidation at the end makes the stage a failed one.

Not disagreements, but worth knowing of the migration. If taking the identity of a linked file fails, the file
stays although the result says `rollback_complete` (`Unseen` in `RolledBackHolds`). If the
handler cannot write its last journal entry, `execute()` raises instead of returning
`recovery_required` (`raised`). What another program writes while the rollback is at its file is lost in two windows: between the comparison
and the unlink (`Modules/lvs_migration_safe_fs.py:218-223`) it is deleted, between the unlink and the rename of the backup it is
overwritten. `LateWritesKept` excludes these two places.

## 7. Not modelled

* Most of the repository by lines: reports, telemetry readers, profiles, settings, front ends and inventory are
  sequential code whose correctness is about data formats, and more than half of the lines are tests. The models cover
  the parts that own processes, files that must survive a crash, and the verdict; their share of all
  implementation lines is therefore small, and widening it would mean modelling formatting.
* GPU and CPU compute loops: device work and arithmetic; in the models a worker runs, exits, ignores
  signals or dies. The external GPU supervisor is such a worker; that SIGKILL orphans its
  children is recorded as a hazard.
* The BMC poller: one refresh at a time for samples that age; its two races are listed as a hazard.
* Migration planning and the state adapters: read-only planning and translation before the transaction.
* Damage to control files from outside: every writer of the memory guard replaces them atomically.
* Two runs at once over one settings directory (the GPU marker is shared).
* Of the modelled components: which interpreter or packages an environment gets, temperatures and fio counters as
  numbers, worker evidence in detail, and the text of events.

## 8. Plan

Done, in order: gate and abstract gate, sessions, stage execution, shutdown deadlines, memory guard, migration
transaction, environment manager, standalone thermal runner, validation run, each with the proofs of all its safety
properties. What would come next:

1. An abstract "all or nothing, or recovery required" operation that MigrationTransaction and the rebuild of
   EnvironmentManager both implement.
2. Composition of ValidationRun with StageExecution: today the exits of the live loop are the interface, by reading.
   An abstract run (stage taken up, verdict worsened, stop heard, stage ended, no stage after a heard stop) that both
   implement would make it a theorem; `StopEndsRun` and `HeardStopEndsRun` are its two halves.
3. An abstract stop call that ProcessShutdown implements and the merged steps of StageExecution use. `CallsLeaveNone` is what
   it would promise at its end; what is left by reading is that a Vulkan worker killed before its turn may
   stand as one that was only asked to stop until then.

A property is kept as long as it asks something no other one answers; the shallower ones of the first modules made
room for those of the later ones.
