---------------------------- MODULE ValidationRun ----------------------------
(***************************************************************************)
(* ValidationRun: one validation run from its first artifact to its last.  *)
(* The stages of a profile run one after the other: duration stages under  *)
(* a live loop, a storage benchmark stage drive by drive.  Events raise    *)
(* the verdict of a stage, an abort or the operator may end the run early, *)
(* the windows of the stages are consolidated and the artifacts written;   *)
(* any exception takes the run to a handler that records the failure.      *)
(*                                                                         *)
(* What a later reader makes of the run comes from the disk alone (Read),  *)
(* so writes that can be torn take two steps, and the run may be killed at *)
(* any point.  The workers of a duration stage are in StageExecution.      *)
(***************************************************************************)
EXTENDS Integers, FiniteSets

CONSTANTS NStages,        \* stages of the profile
          Drives,         \* bound: targets of one benchmark
          MaxMishaps      \* bound: exceptions raised and processes killed

ASSUME RunAssumption == NStages \in Nat \ {0} /\ Drives \in Nat /\ MaxMishaps \in Nat

VARIABLES
  kind,       \* how each stage is executed, "off" if disabled or blocked
  tui,        \* the run has a cancel flag (it was started by the TUI)
  abortRun,   \* the policy abort_run_on_stage_abort
  pc,         \* where the run thread is
  at,         \* the stage it is at, or was at last
  verdict,    \* the verdict of each stage
  events,     \* the sorts of events each stage has
  dirty,      \* stages with evidence of a failed worker
  windows,    \* stages with a window among the results
  cause,      \* what ended the current stage before its time
  left,       \* benchmark targets still to do
  results,    \* verdicts of the targets done
  asked,      \* the operator asked for the run to stop
  heard,      \* the stage in which that was noticed, 0 if it was not
  runAborted, \* run_aborted
  clock,      \* the timing anchor: lifecycle, and whether it is terminal
  manifest,   \* run_manifest.json
  mirror,     \* parsed_results_custom.json
  mishaps

setupVars == <<kind, tui, abortRun>>
stageVars == <<verdict, events, dirty, windows>>
driveVars == <<left, results>>
stopVars == <<asked, heard, runAborted>>
diskVars == <<manifest, mirror>>
vars == <<setupVars, pc, at, stageVars, cause, driveVars, stopVars, clock, diskVars, mishaps>>

Stages == 1..NStages
Runnable == {s \in Stages : kind[s] # "off"}
Verdicts == {"pass", "warning", "fail", "aborted"}
Severities == {"warning", "error"}
Running == {"start", "booting", "next", "stage", "live", "judge", "batch", "drive", "complete",
            "publish", "export", "mirroring", "summary", "finish", "handler", "persisting"}
Ended == {"done", "raised", "dead"}
Early == {"initializing", "between_stages", "preparing", "running"}
Late == {"finalizing", "aborted", "completed", "stopped"}
Statuses == {"fail", "manually_aborted", "aborted", "completed", "incomplete"}

TypeOK ==
  /\ kind \in [Stages -> {"off", "duration", "benchmark"}]
  /\ tui \in BOOLEAN /\ abortRun \in BOOLEAN
  /\ pc \in Running \cup Ended /\ at \in 0..NStages
  /\ verdict \in [Stages -> Verdicts]
  /\ events \in [Stages -> SUBSET (Severities \cup {"stop"})]
  /\ dirty \subseteq Stages /\ windows \subseteq Stages
  /\ cause \in {"none", "operator", "safety"}
  /\ left \in 0..Drives
  /\ results \subseteq {"PASS", "WARN", "FAIL", "SKIPPED", "CANCELLED"}
  /\ asked \in BOOLEAN /\ heard \in 0..NStages /\ runAborted \in BOOLEAN
  /\ clock \in [life : Early \cup Late, terminal : BOOLEAN]
  /\ manifest \in {"none", "torn", "running", "final", "failed"}
  /\ mirror \in {"none", "torn"} \cup Statuses
  /\ mishaps \in 0..MaxMishaps

\* After a dry run found the profile runnable, before anything is written.
Init ==
  /\ kind \in [Stages -> {"off", "duration", "benchmark"}] /\ Runnable # {}
  /\ tui \in BOOLEAN /\ abortRun \in BOOLEAN
  /\ pc = "start" /\ at = 0
  /\ verdict = [s \in Stages |-> "pass"] /\ events = [s \in Stages |-> {}]
  /\ dirty = {} /\ windows = {} /\ cause = "none" /\ left = 0 /\ results = {}
  /\ asked = FALSE /\ heard = 0 /\ runAborted = FALSE
  /\ clock = [life |-> "initializing", terminal |-> FALSE]
  /\ manifest = "none" /\ mirror = "none" /\ mishaps = 0

Goto(next) == pc' = next

-----------------------------------------------------------------------------
(* RunTimingController: progress is ignored once the clock is terminal;    *)
(* finish() is not.                                                        *)
TimedUnguarded(life) == clock' = [clock EXCEPT !.life = life]   \* mutant
Timed(life) == clock' = IF clock.terminal THEN clock ELSE [clock EXCEPT !.life = life]
FinishClock(life) == clock' = [life |-> life, terminal |-> TRUE]
EndStage(break) ==
  IF break /\ ~clock.terminal THEN FinishClock("aborted") ELSE Timed("between_stages")

\* bootstrap_run_artifacts(): the manifest is truncated and then written.
Bootstrap ==
  /\ pc = "start" /\ Goto("booting") /\ Timed("between_stages") /\ manifest' = "torn"
  /\ UNCHANGED <<setupVars, at, stageVars, cause, driveVars, stopVars, mirror, mishaps>>

Booted ==
  /\ pc = "booting" /\ Goto("next") /\ manifest' = "running"
  /\ UNCHANGED <<setupVars, at, stageVars, cause, driveVars, stopVars, clock, mirror, mishaps>>

Remaining == {s \in Runnable : s > at}

Prepare ==
  /\ pc = "next" /\ Remaining # {}
  /\ \E s \in Remaining : (\A t \in Remaining : s <= t) /\ at' = s
  /\ Goto("stage") /\ Timed("preparing") /\ cause' = "none" /\ results' = {}
  /\ UNCHANGED <<setupVars, stageVars, left, stopVars, diskVars, mishaps>>

\* A stage starts; a benchmark has found its targets by the time it starts them.
StartStage ==
  /\ pc = "stage" /\ Timed("running")
  /\ IF kind[at] = "duration" THEN Goto("live") /\ UNCHANGED left
     ELSE Goto("batch") /\ left' \in 0..Drives
  /\ UNCHANGED <<setupVars, at, stageVars, cause, results, stopVars, diskVars, mishaps>>

-----------------------------------------------------------------------------
(* The live loop of a duration stage.                                      *)
Record(v, new) ==
  /\ verdict' = [verdict EXCEPT ![at] = v] /\ events' = [events EXCEPT ![at] = @ \cup new]
  /\ UNCHANGED <<dirty, windows>>

\* Memory pressure warns; a failed worker or sensor reading fails the stage,
\* or aborts it where the policy for it says so.
Live ==
  /\ pc = "live"
  /\ \/ Goto("live") /\ Record(IF verdict[at] = "pass" THEN "warning" ELSE verdict[at], {"warning"})
     \/ Goto("live") /\ Record("fail", {"error"})
     \/ Goto("judge") /\ Record("aborted", {"error"})
  /\ UNCHANGED <<setupVars, at, cause, driveVars, stopVars, clock, diskVars, mishaps>>

TimeUp ==
  /\ pc = "live" /\ Goto("judge")
  /\ UNCHANGED <<setupVars, at, stageVars, cause, driveVars, stopVars, clock, diskVars, mishaps>>

\* A system-wide safety event of the auxiliary thermal session.
Emergency ==
  /\ pc = "live" /\ Goto("judge") /\ Record("aborted", {"warning"})
  /\ cause' = "safety" /\ runAborted' = TRUE
  /\ UNCHANGED <<setupVars, at, driveVars, asked, heard, clock, diskVars, mishaps>>

(* The operator: the cancel flag of the TUI stays set and is looked at by  *)
(* the loops; a Ctrl-C is an exception where the run is.                   *)
Ask ==
  /\ tui /\ ~asked /\ pc \in Running /\ asked' = TRUE
  /\ UNCHANGED <<setupVars, pc, at, stageVars, cause, driveVars, heard, runAborted, clock,
                 diskVars, mishaps>>

Hears == (tui => asked) /\ asked' = TRUE /\ heard' = at

StopStage ==
  /\ pc = "live" /\ Hears /\ Goto("judge") /\ Record("aborted", {"warning", "stop"})
  /\ cause' = "operator" /\ runAborted' = TRUE /\ FinishClock("aborted")
  /\ UNCHANGED <<setupVars, at, driveVars, diskVars, mishaps>>

-----------------------------------------------------------------------------
(* apply_stage_events() after the live loop: it raises only a pass.        *)
Applied(v, new, abort) ==
  IF v # "pass" THEN v
  ELSE IF "error" \in new THEN (IF abort THEN "aborted" ELSE "fail")
  ELSE IF "warning" \in new THEN "warning" ELSE v

Close(v, new, bad, break) ==
  /\ verdict' = [verdict EXCEPT ![at] = v] /\ events' = [events EXCEPT ![at] = @ \cup new]
  /\ windows' = windows \cup {at} /\ dirty' = IF bad THEN dirty \cup {at} ELSE dirty
  /\ EndStage(break) /\ Goto(IF break THEN "complete" ELSE "next")

\* The evaluation of a duration stage, and its bookkeeping.
Judge ==
  /\ pc = "judge"
  /\ \E found, faults \in SUBSET Severities, byFound, byFault, bad \in BOOLEAN :
       LET v == Applied(Applied(verdict[at], found, byFound), faults, byFault)
           break == cause = "safety" \/ (v = "aborted" /\ (cause = "operator" \/ abortRun))
       IN /\ Close(v, found \cup faults, bad, break)
          /\ runAborted' = (runAborted \/ break)
  /\ UNCHANGED <<setupVars, at, cause, driveVars, asked, heard, diskVars, mishaps>>

-----------------------------------------------------------------------------
(* The storage benchmark.                                                  *)
NextDrive ==
  /\ pc = "batch" /\ left > 0 /\ ~(tui /\ asked) /\ Goto("drive")
  /\ UNCHANGED <<setupVars, at, stageVars, cause, driveVars, stopVars, clock, diskVars, mishaps>>

DriveEnds ==
  /\ pc = "drive" /\ Goto("batch") /\ left' = left - 1
  /\ \E r \in {"PASS", "WARN", "FAIL", "SKIPPED"} : results' = results \cup {r}
  /\ UNCHANGED <<setupVars, at, stageVars, cause, stopVars, clock, diskVars, mishaps>>

\* Noticed between two targets: those not started are cancelled.
CancelBatch ==
  /\ pc = "batch" /\ tui /\ left > 0 /\ Hears
  /\ left' = 0 /\ results' = results \cup {"CANCELLED"}
  /\ UNCHANGED <<setupVars, pc, at, stageVars, cause, runAborted, clock, diskVars, mishaps>>

\* Noticed in a target: the rest is cancelled with it.  A target whose
\* clean-up fails then has failed, and where the cancellation was not noticed
\* by the loop that waits for fio, the next target is taken up.
CancelDrive ==
  /\ pc = "drive" /\ Hears /\ Goto("batch")
  /\ \/ left' = 0 /\ results' = results \cup {"CANCELLED"}
     \/ left' = 0 /\ results' = results \cup {"FAIL"} \cup (IF left > 1 THEN {"CANCELLED"} ELSE {})
     \/ left' = left - 1 /\ results' = results \cup {"FAIL"}
  /\ UNCHANGED <<setupVars, at, stageVars, cause, runAborted, clock, diskVars, mishaps>>

\* mutant: a warning outranks the cancellation.
BatchVerdictWarnFirst(rs) ==
  IF "FAIL" \in rs THEN "fail" ELSE IF rs \cap {"WARN", "SKIPPED"} # {} THEN "warning"
  ELSE IF "CANCELLED" \in rs THEN "aborted" ELSE IF rs = {} THEN "warning" ELSE "pass"

BatchVerdict(rs) ==
  IF "FAIL" \in rs THEN "fail" ELSE IF "CANCELLED" \in rs THEN "aborted"
  ELSE IF rs = {} \/ rs \cap {"WARN", "SKIPPED"} # {} THEN "warning" ELSE "pass"

\* mutant: the errors of a target are not collected.
BatchEventsWarnings(rs) ==
  (IF rs \subseteq {"PASS", "FAIL"} /\ rs # {} THEN {} ELSE {"warning"})
    \cup (IF BatchVerdict(rs) = "aborted" THEN {"stop"} ELSE {})

BatchEvents(rs) ==
  (IF rs \subseteq {"PASS", "FAIL"} /\ rs # {} THEN {} ELSE {"warning"})
    \cup (IF "FAIL" \in rs THEN {"error"} ELSE {})
    \cup (IF BatchVerdict(rs) = "aborted" THEN {"stop"} ELSE {})

JudgeBatch ==
  /\ pc = "batch" /\ left = 0
  /\ LET v == BatchVerdict(results) break == v = "aborted"
     IN Close(v, BatchEvents(results), FALSE, break) /\ runAborted' = break
  /\ UNCHANGED <<setupVars, at, cause, driveVars, asked, heard, diskVars, mishaps>>

-----------------------------------------------------------------------------
(* complete_validation_run(): the windows are consolidated with the events *)
(* found by then, and their verdicts combined.                             *)
Complete ==
  /\ \/ pc = "next" /\ Remaining = {}
     \/ pc = "complete"
  /\ Goto("publish") /\ FinishClock("finalizing")
  /\ \E late \in [windows -> SUBSET Severities] :
       events' = [s \in Stages |-> IF s \in windows THEN events[s] \cup late[s] ELSE events[s]]
  /\ verdict' = [s \in Stages |->
       IF s \notin windows \/ verdict[s] = "aborted" THEN verdict[s]
       ELSE IF "error" \in events'[s] THEN "fail"
       ELSE IF events'[s] # {} THEN "warning" ELSE verdict[s]]
  /\ UNCHANGED <<setupVars, at, dirty, windows, cause, driveVars, stopVars, diskVars, mishaps>>

Has(v) == \E s \in windows : verdict[s] = v
Overall ==
  IF \E s \in windows : "stop" \in events[s] THEN "manually_aborted"
  ELSE IF runAborted \/ Has("aborted") THEN "aborted"
  ELSE IF Has("fail") THEN "fail" ELSE IF Has("warning") THEN "warning" ELSE "pass"

(* execution_completion() of the finished manifest.                        *)
\* mutant: what the workers left is not looked at.
FailedByVerdict == Overall = "fail" \/ Has("fail")
Failed ==
  \/ Overall = "fail" \/ Has("fail") \/ dirty \cap windows # {}
  \/ \E s \in windows : "error" \in events[s]
Status ==
  IF Failed THEN "fail"
  ELSE IF Overall \in {"manually_aborted", "aborted"} THEN Overall
  ELSE IF windows # {} /\ Runnable \subseteq windows THEN "completed" ELSE "incomplete"

(* completion_from_directory(): what the artifacts on disk say.  Without a *)
(* readable manifest the compatibility mirror is taken, and a manifest     *)
(* that is still running leaves the raw results of the workers.            *)
Read ==
  CASE manifest = "failed" -> "fail"
    [] manifest = "final" -> Status
    [] manifest = "running" -> IF dirty # {} THEN "fail" ELSE "incomplete"
    [] manifest \in {"none", "torn"} ->
         IF mirror \in {"none", "torn"} THEN "incomplete" ELSE mirror

-----------------------------------------------------------------------------
(* The artifacts.  The manifest is replaced in one step, the mirror is     *)
(* truncated and then written, or not exported at all.                     *)
Publish ==
  /\ pc = "publish" /\ Goto("export") /\ manifest' = "final"
  /\ UNCHANGED <<setupVars, at, stageVars, cause, driveVars, stopVars, clock, mirror, mishaps>>

Export ==
  /\ pc = "export"
  /\ \/ Goto("mirroring") /\ mirror' = "torn"
     \/ Goto("summary") /\ UNCHANGED mirror
  /\ UNCHANGED <<setupVars, at, stageVars, cause, driveVars, stopVars, clock, manifest, mishaps>>

Mirror ==
  /\ pc = "mirroring" /\ Goto("summary") /\ mirror' = Status
  /\ UNCHANGED <<setupVars, at, stageVars, cause, driveVars, stopVars, clock, manifest, mishaps>>

\* The summaries are written and the clock is given its last lifecycle.
Summarize ==
  /\ pc = "summary" /\ Goto("finish")
  /\ FinishClock(IF runAborted THEN "aborted" ELSE "completed")
  /\ UNCHANGED <<setupVars, at, stageVars, cause, driveVars, stopVars, diskVars, mishaps>>

Return ==
  /\ pc = "finish" /\ Goto("done")
  /\ UNCHANGED <<setupVars, at, stageVars, cause, driveVars, stopVars, clock, diskVars, mishaps>>

(* An exception anywhere outside the handlers of a stage, a Ctrl-C at such *)
(* a place among them: the clock stops and the failure is recorded in the  *)
(* manifest, if there is one that can be read.                             *)
Mishap == mishaps < MaxMishaps /\ mishaps' = mishaps + 1

Raise ==
  /\ pc \in Running \ {"handler", "persisting"} /\ Mishap
  /\ Goto("handler") /\ FinishClock("stopped")
  /\ UNCHANGED <<setupVars, at, stageVars, cause, driveVars, stopVars, diskVars>>

Persist ==
  /\ pc = "handler"
  /\ IF manifest \in {"none", "torn"} THEN Goto("raised") /\ UNCHANGED manifest
     ELSE Goto("persisting") /\ manifest' = "torn"
  /\ UNCHANGED <<setupVars, at, stageVars, cause, driveVars, stopVars, clock, mirror, mishaps>>

\* A write that fails is swallowed.
Persisted ==
  /\ pc = "persisting" /\ Goto("raised")
  /\ \/ manifest' = "failed" /\ UNCHANGED mishaps
     \/ Mishap /\ UNCHANGED manifest
  /\ UNCHANGED <<setupVars, at, stageVars, cause, driveVars, stopVars, clock, mirror>>

Crash ==
  /\ pc \in Running /\ Mishap /\ Goto("dead")
  /\ UNCHANGED <<setupVars, at, stageVars, cause, driveVars, stopVars, clock, diskVars>>

-----------------------------------------------------------------------------
StageStep ==
  \/ Prepare \/ StartStage \/ Live \/ TimeUp \/ Emergency \/ StopStage \/ Judge
  \/ NextDrive \/ DriveEnds \/ CancelBatch \/ CancelDrive \/ JudgeBatch

ArtifactStep ==
  \/ Bootstrap \/ Booted \/ Complete \/ Publish \/ Export \/ Mirror \/ Summarize \/ Return
  \/ Persist \/ Persisted

Step == StageStep \/ ArtifactStep
Next == Step \/ Ask \/ Raise \/ Crash

\* The calls the run thread makes return, a live loop through its deadline
\* and a target through the runtime of its jobs.
Spec == Init /\ [][Next]_vars /\ WF_vars(Step)

-----------------------------------------------------------------------------
(* A run that reads as completed did complete: every stage that was to run *)
(* has a good window, nothing failed in it, no worker left evidence of a   *)
(* failure, and nobody was heard asking it to stop - wherever the run was  *)
(* interrupted, killed or short of disk.                                   *)
CompletedIsTrue ==
  Read = "completed" =>
    /\ heard = 0
    /\ \A s \in Runnable :
         /\ s \in windows \ dirty /\ verdict[s] \in {"pass", "warning"}
         /\ "error" \notin events[s]

(* The verdict of a stage is never improved: late events and the           *)
(* consolidation at the end only make it worse.                            *)
Rank(v) == CASE v = "pass" -> 0 [] v = "warning" -> 1 [] v = "fail" -> 2 [] v = "aborted" -> 3
NoVerdictLowered == [][\A s \in Stages : Rank(verdict'[s]) >= Rank(verdict[s])]_vars

(* Once the operator was heard the run takes up no other stage.  The       *)
(* exception is the code's: a benchmark in which a target failed does not  *)
(* tell its caller of the cancellation.                                    *)
StopLost == kind[heard] = "benchmark" /\ verdict[heard] = "fail"
HeardStopEndsRun == heard \in {0, at} \/ StopLost

(* A terminal clock stays terminal and never shows progress again, though  *)
(* the stage that was stopped reports its end to it; and at the end it     *)
(* tells how the run ended.                                                *)
ClockStands ==
  [][/\ clock.terminal => clock'.terminal /\ clock'.life \in Late
     /\ pc' = "done" => clock'.life = IF runAborted THEN "aborted" ELSE "completed"
     /\ pc' = "raised" => clock'.life = "stopped"]_vars
=============================================================================
