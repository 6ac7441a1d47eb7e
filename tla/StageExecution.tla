--------------------------- MODULE StageExecution ---------------------------
(***************************************************************************)
(* The stages of one validation run: execute_stage_runtime() launches a    *)
(* stage's workers one by one, watches them in the live loop, replaces GPU *)
(* workers to retune them, stops everything in its finally block and       *)
(* clears the GPU safety marker.                                           *)
(*                                                                         *)
(* A worker is <<slot, generation>>: a slot is a position in the list of   *)
(* StageProcess entries, a generation one Popen for that position.  Three  *)
(* lists of entries exist at once (the one the finally block will stop,    *)
(* the live loop's, the one a retune pass is filling), and a               *)
(* KeyboardInterrupt or an ordinary exception may be raised at almost      *)
(* every step.                                                             *)
(***************************************************************************)
EXTENDS Naturals

CONSTANTS Entries,       \* number of planned commands of a stage
          GpuSlots,      \* positions whose worker has a retunable gpu_spec
          MaxStage,      \* the run's enabled stages are 1..MaxStage
          MaxGen,        \* bound: processes created per slot in the run
          MaxInterrupt   \* bound: KeyboardInterrupts raised in the run

ASSUME ExecutionAssumption ==
  /\ Entries \in Nat /\ MaxStage \in Nat \ {0} /\ MaxGen \in Nat /\ MaxInterrupt \in Nat
  /\ GpuSlots \subseteq 1..Entries

Slots == 1..Entries
Gens == 1..MaxGen
Lists == [Slots -> 0..MaxGen]   \* 0: no entry at this position

VARIABLES
  stage,       \* the stage being executed
  pc,          \* where the primary is
  at,          \* the position its current pass has reached
  proc,        \* each process, as the kernel knows it
  created,     \* processes created per slot
  owned,       \* stage_processes of execute_stage_runtime (launches while launching)
  loop,        \* stage_processes of run_stage_live_loop
  updated,     \* updated of maybe_retune_gpu_processes
  session,     \* the stage's ThermalStageSession
  marker,      \* gpu_safety_marker.json exists
  stopped,     \* operator_stop_requested of the current stage
  verdict,     \* the stage's verdict
  systemWide,  \* stage_plan["system_wide_safety_interruption"]
  raising,     \* where the exception leaving execute_stage_runtime was raised
  interrupts   \* KeyboardInterrupts so far

procVars == <<proc, created>>
listVars == <<owned, loop, updated>>
resultVars == <<stopped, verdict, systemWide>>
vars == <<stage, pc, at, procVars, listVars, session, marker, resultVars, raising, interrupts>>

LaunchPcs == {"popen", "append"}
LoopPcs == {"loop", "retune", "rwait", "rpopen", "rswap", "handback"}
StopPcs == {"term", "wait"}
EndPcs == {"clear", "evaluate", "book"}
Terminal == {"done", "raised", "crashed"}
Pcs == {"begin", "launched", "lterm", "lwait", "finish"}
         \cup LaunchPcs \cup LoopPcs \cup StopPcs \cup EndPcs \cup Terminal
ProcStates == {"none", "running", "termed", "killed", "gone"}
Verdicts == {"pass", "warning", "fail", "aborted"}

TypeOK ==
  /\ stage \in 1..MaxStage /\ pc \in Pcs /\ at \in 1..(Entries + 1)
  /\ proc \in [Slots -> [Gens -> ProcStates]]
  /\ created \in Lists
  /\ owned \in Lists /\ loop \in Lists /\ updated \in Lists
  /\ session \in {"none", "open", "finished"}
  /\ marker \in BOOLEAN /\ stopped \in BOOLEAN /\ systemWide \in BOOLEAN
  /\ verdict \in Verdicts /\ raising \in {"none", "loop", "stop"}
  /\ interrupts \in 0..MaxInterrupt
  /\ pc \in {"append", "rwait", "rpopen", "rswap"} => at \in Slots

NoEntries == [s \in Slots |-> 0]

Init ==
  /\ stage = 1 /\ pc = "begin" /\ at = 1
  /\ proc = [s \in Slots |-> [g \in Gens |-> "none"]]
  /\ created = NoEntries
  /\ owned = NoEntries /\ loop = NoEntries /\ updated = NoEntries
  /\ session = "none" /\ marker = FALSE
  /\ stopped = FALSE /\ verdict = "pass" /\ systemWide = FALSE
  /\ raising = "none" /\ interrupts = 0

-----------------------------------------------------------------------------
(* Signals and verdicts.                                                   *)

\* Popen.terminate() and Popen.kill() on the entry g of slot s.
Terminate(s, g) ==
  proc' = [proc EXCEPT ![s][g] = IF @ = "running" THEN "termed" ELSE @]
Kill(s, g) ==
  proc' = [proc EXCEPT ![s][g] = IF @ = "gone" THEN @ ELSE "killed"]

\* A new process for slot s.
Popen(s) ==
  /\ created[s] < MaxGen
  /\ created' = [created EXCEPT ![s] = @ + 1]
  /\ proc' = [proc EXCEPT ![s][created[s] + 1] = "running"]

\* apply_stage_events() for one new event.
VerdictAfter(v, severity, abort, onlyFromPass) ==
  IF severity = "error"
  THEN IF onlyFromPass /\ v # "pass" THEN v ELSE IF abort THEN "aborted" ELSE "fail"
  ELSE IF v = "pass" THEN "warning" ELSE v

-----------------------------------------------------------------------------
(* Launching.                                                              *)

\* start_stage_lifecycle(): the marker is written before any GPU worker exists.
StartLifecycle ==
  /\ pc = "begin"
  /\ marker' = (marker \/ GpuSlots # {})
  /\ owned' = NoEntries /\ session' = "none"
  /\ stopped' = FALSE /\ verdict' = "pass" /\ systemWide' = FALSE
  /\ pc' = "popen" /\ at' = 1
  /\ UNCHANGED <<stage, procVars, loop, updated, raising, interrupts>>

\* launch_stage_processes() raises: the stage's memory plan is not launchable.
LaunchRefused ==
  /\ pc = "popen" /\ at = 1
  /\ pc' = "raised"
  /\ UNCHANGED <<stage, at, procVars, listVars, session, marker, resultVars, raising, interrupts>>

LaunchWorker ==
  /\ pc = "popen" /\ at \in Slots
  /\ Popen(at)
  /\ pc' = "append"
  /\ UNCHANGED <<stage, at, listVars, session, marker, resultVars, raising, interrupts>>

\* A missing tool or any other Exception of Popen: a warning, and no entry.
LaunchFails ==
  /\ pc = "popen" /\ at \in Slots
  /\ at' = at + 1
  /\ UNCHANGED <<stage, pc, procVars, listVars, session, marker, resultVars, raising, interrupts>>

AppendEntry ==
  /\ pc = "append"
  /\ owned' = [owned EXCEPT ![at] = created[at]]
  /\ pc' = "popen" /\ at' = at + 1
  /\ UNCHANGED <<stage, procVars, loop, updated, session, marker, resultVars, raising, interrupts>>

LaunchReturns ==
  /\ pc = "popen" /\ at = Entries + 1
  /\ pc' = "launched"
  /\ UNCHANGED <<stage, at, procVars, listVars, session, marker, resultVars, raising, interrupts>>

\* The try block: the thermal session, if the stage has one, then the live loop.
EnterLoop ==
  /\ pc = "launched"
  /\ loop' = owned
  /\ session' \in {"none", "open"}
  /\ pc' = "loop"
  /\ UNCHANGED <<stage, at, procVars, owned, updated, marker, resultVars, raising, interrupts>>

-----------------------------------------------------------------------------
(* The live loop.                                                          *)

TimeUp ==
  /\ pc = "loop"
  /\ pc' = "handback"
  /\ UNCHANGED <<stage, at, procVars, listVars, session, marker, resultVars, raising, interrupts>>

\* Worker exits, sensor thresholds and the memory guard: an error event fails the
\* stage or, if the setting for its kind says so, aborts it; the guard warns first.
LoopEvent ==
  /\ pc = "loop"
  /\ \E severity \in {"error", "warning"}, abort \in BOOLEAN :
       /\ verdict' = VerdictAfter(verdict, severity, abort, FALSE)
       /\ pc' = IF severity = "error" /\ abort THEN "handback" ELSE "loop"
  /\ UNCHANGED <<stage, at, procVars, listVars, session, marker, stopped, systemWide,
                 raising, interrupts>>

\* An evidenced system-wide emergency reported by the thermal session.
SystemSafety ==
  /\ pc = "loop" /\ session = "open"
  /\ verdict' = "aborted" /\ systemWide' = TRUE
  /\ pc' = "handback"
  /\ UNCHANGED <<stage, at, procVars, listVars, session, marker, stopped, raising, interrupts>>

RetuneBegins ==
  /\ pc = "loop"
  /\ updated' = loop
  /\ pc' = "retune" /\ at' = 1
  /\ UNCHANGED <<stage, procVars, owned, loop, session, marker, resultVars, raising, interrupts>>

RetuneSkips ==
  /\ pc = "retune" /\ at \in Slots
  /\ at' = at + 1
  /\ UNCHANGED <<stage, pc, procVars, listVars, session, marker, resultVars, raising, interrupts>>

RetuneTerminates ==
  /\ pc = "retune" /\ at \in GpuSlots /\ updated[at] # 0
  /\ Terminate(at, updated[at])
  /\ pc' = "rwait"
  /\ UNCHANGED <<stage, at, created, listVars, session, marker, resultVars, raising, interrupts>>

\* Mutant: the replacement is launched whether or not the old worker went.
RetuneWaitUnkilled ==
  /\ pc = "rwait"
  /\ pc' = "rpopen"
  /\ UNCHANGED <<stage, at, procVars, listVars, session, marker, resultVars, raising, interrupts>>

\* wait(timeout=5), then kill() without reaping.
RetuneWait ==
  /\ pc = "rwait"
  /\ Kill(at, updated[at])
  /\ pc' = "rpopen"
  /\ UNCHANGED <<stage, at, created, listVars, session, marker, resultVars, raising, interrupts>>

\* A failed Popen leaves the entry of the worker that was just ended in the list.
RetunePopen ==
  /\ pc = "rpopen"
  /\ \/ Popen(at) /\ pc' = "rswap" /\ UNCHANGED at
     \/ pc' = "retune" /\ at' = at + 1 /\ UNCHANGED procVars
  /\ UNCHANGED <<stage, listVars, session, marker, resultVars, raising, interrupts>>

RetuneSwap ==
  /\ pc = "rswap"
  /\ updated' = [updated EXCEPT ![at] = created[at]]
  /\ pc' = "retune" /\ at' = at + 1
  /\ UNCHANGED <<stage, procVars, owned, loop, session, marker, resultVars, raising, interrupts>>

RetuneReturns ==
  /\ pc = "retune" /\ at = Entries + 1
  /\ loop' = updated
  /\ pc' = "loop"
  /\ UNCHANGED <<stage, at, procVars, owned, updated, session, marker, resultVars, raising, interrupts>>

\* Mutant: execute_stage_runtime keeps the list it launched.
HandBackLost ==
  /\ pc = "handback"
  /\ pc' = "term" /\ at' = 1
  /\ UNCHANGED <<stage, procVars, listVars, session, marker, resultVars, raising, interrupts>>

\* stage_processes = live_loop_result.stage_processes
HandBack ==
  /\ pc = "handback"
  /\ owned' = loop
  /\ pc' = "term" /\ at' = 1
  /\ UNCHANGED <<stage, procVars, loop, updated, session, marker, resultVars, raising, interrupts>>

-----------------------------------------------------------------------------
(* Stopping, in the finally block and in an interrupted launch.            *)

\* First pass of stop_stage_processes(): terminate whatever poll() says is running.
StopTerminates ==
  /\ pc \in {"term", "lterm"} /\ at \in Slots
  /\ IF owned[at] = 0 THEN UNCHANGED proc ELSE Terminate(at, owned[at])
  /\ at' = at + 1
  /\ UNCHANGED <<stage, pc, created, listVars, session, marker, resultVars, raising, interrupts>>

StopPassEnds ==
  /\ pc \in {"term", "lterm"} /\ at = Entries + 1
  /\ pc' = IF pc = "term" THEN "wait" ELSE "lwait"
  /\ at' = 1
  /\ UNCHANGED <<stage, procVars, listVars, session, marker, resultVars, raising, interrupts>>

\* Mutant: the second pass waits until the worker is gone.
StopWaitsForever ==
  /\ pc \in {"wait", "lwait"} /\ at \in Slots
  /\ IF owned[at] = 0 THEN TRUE ELSE proc[at][owned[at]] = "gone"
  /\ at' = at + 1
  /\ UNCHANGED <<stage, pc, procVars, listVars, session, marker, resultVars, raising, interrupts>>

\* Second pass: a bounded wait, then kill() and a bounded reap.
StopWaits ==
  /\ pc \in {"wait", "lwait"} /\ at \in Slots
  /\ IF owned[at] = 0 THEN UNCHANGED proc ELSE Kill(at, owned[at])
  /\ at' = at + 1
  /\ UNCHANGED <<stage, pc, created, listVars, session, marker, resultVars, raising, interrupts>>

StopReturns ==
  /\ pc \in {"wait", "lwait"} /\ at = Entries + 1
  /\ pc' = IF pc = "wait" THEN "finish" ELSE "raised"
  /\ UNCHANGED <<stage, at, procVars, listVars, session, marker, resultVars, raising, interrupts>>

\* Mutant: the exception does not keep stop_stage_lifecycle() from running.
FinishThenClear ==
  /\ pc = "finish"
  /\ session' = IF session = "open" THEN "finished" ELSE session
  /\ pc' = "clear"
  /\ UNCHANGED <<stage, at, procVars, listVars, marker, resultVars, raising, interrupts>>

\* ThermalStageSession.finish(), in the inner finally; an exception raised in
\* stop_stage_processes() goes on its way afterwards.
FinishSession ==
  /\ pc = "finish"
  /\ session' = IF session = "open" THEN "finished" ELSE session
  /\ pc' = IF raising = "stop" THEN "raised" ELSE "clear"
  /\ UNCHANGED <<stage, at, procVars, listVars, marker, resultVars, raising, interrupts>>

\* stop_stage_lifecycle(), the end of the finally block; an exception that left the
\* live loop goes on its way only then.
ClearMarker ==
  /\ pc = "clear"
  /\ marker' = (marker /\ GpuSlots = {})
  /\ pc' = IF raising = "loop" THEN "raised" ELSE "evaluate"
  /\ UNCHANGED <<stage, at, procVars, listVars, session, resultVars, raising, interrupts>>

-----------------------------------------------------------------------------
(* After the stage.                                                        *)

\* evaluate_completed_stage(): events found afterwards never overrule a verdict
\* other than pass.
Evaluate ==
  /\ pc = "evaluate"
  /\ \/ UNCHANGED verdict
     \/ \E severity \in {"error", "warning"}, abort \in BOOLEAN :
          verdict' = VerdictAfter(verdict, severity, abort, TRUE)
  /\ pc' = "book"
  /\ UNCHANGED <<stage, at, procVars, listVars, session, marker, stopped, systemWide,
                 raising, interrupts>>

\* apply_completed_stage_bookkeeping() and run_effective_stages(): system faults
\* count like the events above, then should_break_run.
Bookkeeping ==
  /\ pc = "book"
  /\ \E fault \in BOOLEAN, abort \in BOOLEAN, abortRun \in BOOLEAN :
       LET v == IF fault THEN VerdictAfter(verdict, "error", abort, TRUE) ELSE verdict
           break == systemWide \/ (v = "aborted" /\ (stopped \/ abortRun))
       IN  /\ verdict' = v
           /\ \/ (break \/ stage = MaxStage) /\ pc' = "done" /\ UNCHANGED stage
              \/ ~break /\ stage < MaxStage /\ pc' = "begin" /\ stage' = stage + 1
  /\ UNCHANGED <<at, procVars, listVars, session, marker, stopped, systemWide,
                 raising, interrupts>>

-----------------------------------------------------------------------------
(* Exceptions, worker exits and the end of the LVS process.                *)

Interrupt ==
  /\ interrupts < MaxInterrupt
  /\ interrupts' = interrupts + 1

\* In one command's try block: what was launched before is stopped, then raised on.
InterruptLaunch ==
  /\ pc \in LaunchPcs /\ at \in Slots
  /\ Interrupt
  /\ pc' = "lterm" /\ at' = 1
  /\ UNCHANGED <<stage, procVars, listVars, session, marker, resultVars, raising>>

\* Outside every try block: between two commands, before execute_stage_runtime's
\* own try, at the end of its finally and after it.  Any other exception leaves these
\* places the same way, except a shutdown's, which catches it.
RaiseUnguarded ==
  /\ pc \in {"begin", "popen", "launched", "lterm", "lwait", "clear", "evaluate", "book"}
  /\ Interrupt \/ (pc \notin {"lterm", "lwait"} /\ UNCHANGED interrupts)
  /\ pc' = "raised"
  /\ UNCHANGED <<stage, at, procVars, listVars, session, marker, resultVars, raising>>

\* except KeyboardInterrupt: the operator's stop.  The list to be stopped is the one
\* execute_stage_runtime holds, whatever the live loop and its retunes have made since.
\* The handler's report (on_operator_stop) may itself raise, into the same finally.
OperatorStop ==
  /\ pc \in LoopPcs
  /\ Interrupt
  /\ stopped' = TRUE /\ verdict' = "aborted"
  /\ raising' \in {"none", "loop"}
  /\ pc' = "term" /\ at' = 1
  /\ UNCHANGED <<stage, procVars, listVars, session, marker, systemWide>>

\* Any other exception of the live loop or of a retune (telemetry, the memory guard, the
\* report of a replacement already started): no handler, the same finally, the same list.
\* replace_gpu_process_for_retune() catches what the wait raises.
LoopRaises ==
  /\ pc \in {"loop", "retune", "rpopen", "rswap"}
  /\ raising' = "loop"
  /\ pc' = "term" /\ at' = 1
  /\ UNCHANGED <<stage, procVars, listVars, session, marker, resultVars, interrupts>>

\* In stop_stage_processes(): except Exception does not catch it, the inner finally
\* still finishes the thermal session, nothing after that runs.
InterruptStop ==
  /\ pc \in StopPcs
  /\ Interrupt
  /\ raising' = "stop"
  /\ pc' = "finish"
  /\ UNCHANGED <<stage, at, procVars, listVars, session, marker, resultVars>>

InterruptFinish ==
  /\ pc = "finish"
  /\ Interrupt
  /\ raising' = "stop"
  /\ pc' = "raised"
  /\ UNCHANGED <<stage, at, procVars, listVars, session, marker, resultVars>>

WorkerExits ==
  /\ \E s \in Slots, g \in Gens :
       /\ proc[s][g] \in {"running", "termed", "killed"}
       /\ proc' = [proc EXCEPT ![s][g] = "gone"]
  /\ UNCHANGED <<stage, pc, at, created, listVars, session, marker, resultVars, raising, interrupts>>

Crash ==
  /\ pc \notin Terminal
  /\ pc' = "crashed"
  /\ UNCHANGED <<stage, at, procVars, listVars, session, marker, resultVars, raising, interrupts>>

-----------------------------------------------------------------------------
Launching == StartLifecycle \/ LaunchRefused \/ LaunchWorker \/ LaunchFails \/ AppendEntry
               \/ LaunchReturns \/ EnterLoop
Looping == TimeUp \/ LoopEvent \/ SystemSafety \/ RetuneBegins \/ RetuneSkips
             \/ RetuneTerminates \/ RetuneWait \/ RetunePopen \/ RetuneSwap \/ RetuneReturns
             \/ HandBack
Stopping == StopTerminates \/ StopPassEnds \/ StopWaits \/ StopReturns \/ FinishSession
              \/ ClearMarker \/ Evaluate \/ Bookkeeping
Interrupted == InterruptLaunch \/ RaiseUnguarded \/ OperatorStop \/ LoopRaises
                 \/ InterruptStop \/ InterruptFinish

Next == Launching \/ Looping \/ Stopping \/ Interrupted \/ WorkerExits \/ Crash

Spec == Init /\ [][Next]_vars

\* The primary keeps executing: every wait above has a timeout.  Each iteration of
\* the live loop compares the clock with the stage's duration, so one of them stops.
FairSpec == Spec /\ WF_vars(Launching \/ Looping \/ Stopping) /\ SF_vars(TimeUp)

-----------------------------------------------------------------------------
(* Properties.                                                             *)

\* A worker LVS started and has not sent SIGKILL.
Live(s, g) == proc[s][g] \in {"running", "termed"}

\* A retune started the worker after the entry the finally block holds, and the list
\* that names it was lost with an exception, the operator's stop or another one.
Escaped(s, g) == (stopped \/ raising = "loop") /\ owned[s] # 0 /\ owned[s] < g

\* A stage that no exception left, the operator's stop or another one, leaves nothing
\* behind: every worker it ever launched, retuned ones and their replacements included,
\* has exited or was sent SIGKILL, and its thermal session was finished
\* (execute_stage_runtime's finally over the list the live loop handed back).
NormalEndLeavesNothing ==
  pc \in EndPcs \cup {"begin", "done"} /\ ~stopped /\ raising = "none" =>
    /\ \A s \in Slots, g \in Gens : ~Live(s, g)
    /\ session # "open"

\* Two workers that may both be running never share a slot: a replacement starts only
\* when the worker it replaces exited or was killed, and a stage only when the stage
\* before left nothing (replace_gpu_process_for_retune, launch_stage_processes_from_plan).
OneWorkerPerSlot ==
  \A s \in Slots, g, h \in Gens : Live(s, g) /\ Live(s, h) => g = h

\* While a GPU worker may be running the safety marker is on disk, through crashes,
\* interrupted launches, exceptions of the live loop and interrupted shutdowns.  The one
\* kind of worker it does not cover is a replacement a retune started in a stage that an
\* exception left: every launched worker, and every worker of a stage that ended in the
\* ordinary way, is stopped before stop_stage_lifecycle() clears the marker.
MarkerCoversWorkers ==
  \A s \in GpuSlots, g \in Gens : Live(s, g) /\ ~marker => Escaped(s, g)

\* After an operator stop no other stage starts, whatever events, faults and worker
\* results are evaluated later (the "aborted" verdict is not overruled).
OperatorStopEndsRun == [][stopped => stage' = stage]_vars

\* Every run ends, however its workers react to signals: no wait is unbounded.
RunEnds == <>(pc \in Terminal)

\* "operator-stop | action=stop-workers-and-save": a run the operator stopped, and that
\* came to its end, left none of its workers running.
OperatorStopStopsWorkers ==
  pc = "done" /\ stopped => \A s \in Slots, g \in Gens : ~Live(s, g)
=============================================================================
