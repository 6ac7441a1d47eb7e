------------------------- MODULE ValidationRunProofs --------------------------
(***************************************************************************)
(* For any number of stages and targets, and any exceptions and kills: a   *)
(* run that reads as completed is one, a stop that was heard ends it, no   *)
(* verdict is lowered and the clock stands once it is terminal.            *)
(*                                                                         *)
(* What was noticed in a stage is in its events by the time the run leaves *)
(* it (Stopping), a failed verdict has an error beside it when the windows *)
(* are consolidated (Shape), and nothing moves any more once something of  *)
(* the outcome is on disk (Artifacts).                                     *)
(***************************************************************************)
EXTENDS ValidationRun, TLAPS

InStage == {"stage", "live", "judge", "batch", "drive"}
Closing == {"complete", "publish", "export", "mirroring", "summary", "finish", "done"}
Cut == {"handler", "persisting", "raised", "dead"}
Post == Cut \cup {"export", "mirroring", "summary", "finish", "done"}

\* Where the run is, and what the verdicts are there.
Shape ==
  /\ pc \in InStage => at \in Runnable
  /\ pc \in {"live", "judge"} => kind[at] = "duration"
  /\ pc \in {"batch", "drive"} => kind[at] = "benchmark" /\ verdict[at] = "pass"
  /\ pc = "live" => verdict[at] # "aborted"
  /\ pc = "drive" => left > 0
  /\ \A s \in Stages : s > at \/ (s = at /\ pc = "stage") =>
       verdict[s] = "pass" /\ s \notin windows
  /\ \A s \in Stages : verdict[s] = "fail" => "error" \in events[s]

\* A stop that was noticed can be read from the stage it was noticed in.
Noted == heard = 0 \/ "stop" \in events[heard] \/ verdict[heard] = "fail"

Stopping ==
  /\ heard <= at /\ (heard # 0 => heard \in Runnable)
  /\ heard \in {0, at} \/ StopLost
  /\ pc \in {"start", "booting"} => at = 0
  /\ pc \in {"stage", "live"} => heard < at
  /\ pc = "next" => heard = 0 \/ StopLost
  /\ pc = "judge" /\ heard = at =>
       cause = "operator" /\ verdict[at] = "aborted" /\ "stop" \in events[at]
  /\ pc \in {"batch", "drive"} /\ heard = at => results \cap {"FAIL", "CANCELLED"} # {}
  /\ pc \in Closing => Noted

Clocked ==
  /\ clock.terminal => clock.life \in Late
  /\ pc \in {"finish", "done"} =>
       clock = [life |-> IF runAborted THEN "aborted" ELSE "completed", terminal |-> TRUE]
  /\ pc \in {"handler", "persisting", "raised"} => clock = [life |-> "stopped", terminal |-> TRUE]

\* The conclusion of CompletedIsTrue.
Good ==
  /\ heard = 0
  /\ \A s \in Runnable :
       /\ s \in windows \ dirty /\ verdict[s] \in {"pass", "warning"}
       /\ "error" \notin events[s]

Artifacts ==
  /\ manifest = "final" \/ mirror # "none" => pc \in Post
  /\ manifest = "final" => Noted
  /\ mirror = "completed" => Good

IInv == TypeOK /\ Shape /\ Stopping /\ Clocked /\ Artifacts

\* What a finished manifest says is so.
LEMMA StatusIsTrue ==
  ASSUME TypeOK, Noted, heard # 0 => heard \in Runnable, Status = "completed"
  PROVE  Good
<1>1. ~Failed BY DEF Status
<1>2. Overall \notin {"manually_aborted", "aborted"} BY <1>1 DEF Status
<1>3. Runnable \subseteq windows BY <1>1, <1>2 DEF Status
<1>4. \A s \in windows : /\ s \notin dirty /\ "error" \notin events[s] /\ "stop" \notin events[s]
                         /\ verdict[s] # "fail"
  BY <1>1, <1>2 DEF Failed, Has, Overall
<1>5. \A s \in windows : verdict[s] # "aborted"
  BY <1>2, <1>4 DEF Overall, Has
<1>6. \A s \in windows : verdict[s] \in {"pass", "warning"}
  BY <1>4, <1>5 DEF TypeOK, Verdicts
<1> QED BY <1>3, <1>4, <1>6 DEF Good, Noted

\* Clocks: what a report of progress, or of the end, makes of them.
ClockType == [life : Early \cup Late, terminal : BOOLEAN]
Stands(c) == c \in ClockType /\ (c.terminal => c.life \in Late)

LEMMA ClockMoves ==
  ASSUME Stands(clock)
  PROVE  /\ \A life \in Early : Timed(life) => Stands(clock')
         /\ \A life \in Late : FinishClock(life) => Stands(clock')
<1>1. ASSUME NEW life \in Early, Timed(life) PROVE Stands(clock')
  BY <1>1 DEF Timed, Stands, ClockType, Early, Late
<1>2. ASSUME NEW life \in Late, FinishClock(life) PROVE Stands(clock')
  BY <1>2 DEF FinishClock, Stands, ClockType
<1> QED BY <1>1, <1>2

LEMMA InitIInv == Init => IInv
<1> SUFFICES ASSUME Init PROVE IInv OBVIOUS
<1>1. TypeOK
  <2>1. verdict \in [Stages -> Verdicts] BY DEF Init, Verdicts
  <2>2. events \in [Stages -> SUBSET (Severities \cup {"stop"})] BY DEF Init
  <2>3. clock \in [life : Early \cup Late, terminal : BOOLEAN] BY DEF Init, Early
  <2>4. at \in 0..NStages /\ heard \in 0..NStages /\ left \in 0..Drives /\ mishaps \in 0..MaxMishaps
    BY RunAssumption DEF Init
  <2> QED BY <2>1, <2>2, <2>3, <2>4 DEF Init, TypeOK, Running
<1>2. Shape /\ Stopping
  BY RunAssumption DEF Init, Shape, Stopping, InStage, Closing, Stages, StopLost
<1>3. Clocked /\ Artifacts BY DEF Init, Clocked, Artifacts
<1> QED BY <1>1, <1>2, <1>3 DEF IInv

\* Steps that leave the stages and what was noticed alone.
QuietStep ==
  \/ Bootstrap \/ Booted \/ TimeUp \/ Ask \/ NextDrive \/ DriveEnds
  \/ Publish \/ Export \/ Mirror \/ Summarize \/ Return \/ Raise \/ Persist \/ Persisted \/ Crash

LEMMA QuietStepIInv ==
  ASSUME IInv, QuietStep
  PROVE  IInv'
<1> USE DEF QuietStep, Bootstrap, Booted, TimeUp, Ask, NextDrive, DriveEnds, Publish, Export,
        Mirror, Summarize, Return, Raise, Persist, Persisted, Crash, Goto, Mishap, setupVars,
        stageVars, driveVars, stopVars, diskVars
<1>1. /\ UNCHANGED <<kind, tui, abortRun, at, verdict, events, dirty, windows, cause, heard, runAborted>>
      /\ results \subseteq results'
  OBVIOUS
<1>2. \/ pc' = pc /\ pc \in Running
      \/ pc' \in Cut /\ pc \in Running
      \/ <<pc, pc'>> \in {<<"start", "booting">>, <<"booting", "next">>, <<"live", "judge">>,
           <<"batch", "drive">>, <<"drive", "batch">>, <<"publish", "export">>,
           <<"export", "mirroring">>, <<"export", "summary">>, <<"mirroring", "summary">>,
           <<"summary", "finish">>, <<"finish", "done">>}
  BY DEF Cut, Running
<1>3. clock' \in [life : Early \cup Late, terminal : BOOLEAN] /\ Clocked'
  <2>1. CASE Bootstrap BY <2>1 DEF IInv, TypeOK, Clocked, Timed, Early, Late
  <2>2. CASE Raise \/ Summarize
    <3>1. PICK life \in {"stopped", "aborted", "completed"} : FinishClock(life)
      BY <2>2
    <3>2. clock' \in [life : Early \cup Late, terminal : BOOLEAN] /\ clock'.life \in Late
      BY <3>1 DEF FinishClock, Late
    <3>3. CASE Raise BY <3>2, <3>3 DEF Clocked, FinishClock
    <3>4. CASE Summarize BY <3>2, <3>4 DEF Clocked, FinishClock
    <3> QED BY <2>2, <3>3, <3>4
  <2>3. CASE ~Bootstrap /\ ~Raise /\ ~Summarize
    <3>1. clock' = clock BY <2>3
    <3>2. pc' \in {"finish", "done"} => pc \in {"finish", "done"} BY <2>3
    <3>3. pc' \in {"handler", "persisting", "raised"} => pc \in {"handler", "persisting", "raised"}
      BY <2>3
    <3> QED BY <1>1, <3>1, <3>2, <3>3 DEF IInv, TypeOK, Clocked
  <2> QED BY <2>1, <2>2, <2>3
<1>4. TypeOK'
  <2>1. pc' \in Running \cup Ended BY <1>2 DEF Cut, Running, Ended
  <2>2. left' \in 0..Drives BY RunAssumption DEF IInv, TypeOK, Shape
  <2>3. results' \subseteq {"PASS", "WARN", "FAIL", "SKIPPED", "CANCELLED"} BY DEF IInv, TypeOK
  <2>4. asked' \in BOOLEAN BY DEF IInv, TypeOK
  <2>5. manifest' \in {"none", "torn", "running", "final", "failed"} BY DEF IInv, TypeOK
  <2>6. mirror' \in {"none", "torn"} \cup Statuses BY DEF IInv, TypeOK, Status, Statuses, Overall
  <2>7. mishaps' \in 0..MaxMishaps BY RunAssumption DEF IInv, TypeOK
  <2> QED BY <1>1, <1>3, <2>1, <2>2, <2>3, <2>4, <2>5, <2>6, <2>7 DEF IInv, TypeOK
<1>5. Shape'
  <2>1. pc' = "drive" => left' > 0 BY DEF IInv, Shape, Cut
  <2> QED BY <1>1, <1>2, <2>1 DEF IInv, Shape, InStage, Cut, Runnable
<1>6. Stopping'
  BY <1>1, <1>2 DEF IInv, TypeOK, Shape, Stopping, StopLost, Closing, Cut, Noted, Runnable
<1>7. Artifacts'
  <2>1. manifest' = "final" \/ mirror' # "none" => pc' \in Post
    BY <1>2 DEF IInv, Artifacts, Post, Cut
  <2>2. manifest' = "final" => Noted'
    BY <1>1 DEF IInv, Artifacts, Noted, Stopping, Closing
  <2>3. Good = Good' BY <1>1 DEF Good, Runnable
  <2>4. mirror' = "completed" => Good
    BY StatusIsTrue DEF IInv, Artifacts, Stopping, Closing
  <2> QED BY <2>1, <2>2, <2>3, <2>4 DEF Artifacts
<1> QED BY <1>3, <1>4, <1>5, <1>6, <1>7 DEF IInv

\* Once something of the outcome is on disk no stage is touched.
LEMMA Untouched ==
  ASSUME IInv, pc \notin Post, UNCHANGED <<manifest, mirror>>
  PROVE  Artifacts'
BY DEF IInv, Artifacts

LEMMA PrepareStep ==
  ASSUME IInv, Prepare
  PROVE  IInv'
<1> USE DEF Prepare, Goto, setupVars, stageVars, stopVars, diskVars
<1>1. PICK s \in Remaining : at' = s OBVIOUS
<1>2. s \in Runnable /\ s \in Stages /\ s \in 1..NStages /\ at < s
  BY DEF Remaining, Runnable, Stages
<1>3. clock' \in [life : Early \cup Late, terminal : BOOLEAN] /\ Clocked'
  BY DEF IInv, TypeOK, Clocked, Timed, Early, Late
<1>4. TypeOK' BY <1>1, <1>2, <1>3 DEF IInv, TypeOK, Running
<1>5. Shape' BY <1>1, <1>2 DEF IInv, TypeOK, Shape, InStage, Runnable, Stages
<1>6. Stopping' BY <1>1, <1>2 DEF IInv, TypeOK, Stopping, StopLost, Closing, Runnable
<1>7. Artifacts' BY Untouched DEF Post, Cut
<1> QED BY <1>3, <1>4, <1>5, <1>6, <1>7 DEF IInv

LEMMA StartStageStep ==
  ASSUME IInv, StartStage
  PROVE  IInv'
<1> USE DEF StartStage, Goto, setupVars, stageVars, stopVars, diskVars
<1>1. at \in Runnable /\ at \in Stages BY DEF IInv, Shape, InStage, Runnable
<1>2. clock' \in [life : Early \cup Late, terminal : BOOLEAN] /\ Clocked'
  BY DEF IInv, TypeOK, Clocked, Timed, Early, Late
<1>3. TypeOK' BY <1>2 DEF IInv, TypeOK, Running
<1>4. kind[at] \in {"duration", "benchmark"} BY <1>1 DEF IInv, TypeOK, Runnable
<1>5. Shape' BY <1>1, <1>4 DEF IInv, TypeOK, Shape, InStage, Runnable, Stages
<1>6. Stopping' BY DEF IInv, TypeOK, Stopping, StopLost, Closing, Runnable
<1>7. Artifacts' BY Untouched DEF Post, Cut
<1> QED BY <1>2, <1>3, <1>5, <1>6, <1>7 DEF IInv

\* The live loop records what it saw.
LEMMA LiveStep ==
  ASSUME IInv, Live \/ Emergency \/ StopStage
  PROVE  IInv'
<1> USE DEF Goto, setupVars, driveVars, diskVars
<1>1. pc = "live" /\ at \in Runnable /\ at \in Stages /\ heard < at /\ heard \in Nat /\ at \in Nat
  BY DEF Live, Emergency, StopStage, IInv, TypeOK, Shape, InStage, Runnable, Stopping
<1>2. PICK v \in Verdicts, new \in SUBSET (Severities \cup {"stop"}) :
        /\ Record(v, new) /\ (v = "fail" => "error" \in events[at] \cup new)
        /\ pc' \in {"live", "judge"} /\ (pc' = "live" => v # "aborted" /\ UNCHANGED heard)
        /\ heard' = heard
           \/ (heard' = at /\ cause' = "operator" /\ v = "aborted" /\ "stop" \in new)
  <2>1. CASE Live
    <3>1. verdict[at] \in Verdicts /\ verdict[at] # "aborted"
          /\ (verdict[at] = "fail" => "error" \in events[at])
      BY <1>1 DEF IInv, TypeOK, Shape
    <3> QED BY <2>1, <3>1 DEF Live, Verdicts, Severities, stopVars
  <2>2. CASE Emergency BY <2>2 DEF Emergency, Verdicts, Severities
  <2>3. CASE StopStage
    <3>1. /\ Record("aborted", {"warning", "stop"}) /\ pc' = "judge"
          /\ heard' = at /\ cause' = "operator"
      BY <2>3 DEF StopStage, Hears
    <3> QED BY <3>1 DEF Verdicts, Severities
  <2> QED BY <2>1, <2>2, <2>3
<1>3. /\ UNCHANGED <<kind, tui, abortRun, at, dirty, windows, left, results, manifest, mirror, mishaps>>
      /\ asked' \in BOOLEAN /\ runAborted' \in BOOLEAN /\ cause' \in {"none", "operator", "safety"}
      /\ clock' \in [life : Early \cup Late, terminal : BOOLEAN] /\ (clock'.terminal => clock'.life \in Late)
  <2>1. clock' = clock \/ FinishClock("aborted") BY DEF Live, Emergency, StopStage
  <2>2. Stands(clock) BY DEF IInv, TypeOK, Clocked, Stands, ClockType
  <2>3. Stands(clock') BY <2>1, <2>2, ClockMoves DEF Late, Stands
  <2> QED BY <1>2, <2>3 DEF Stands, ClockType, Live, Emergency, StopStage, Hears, Record, stopVars, IInv, TypeOK
<1> USE DEF Record
<1>4. TypeOK'
  <2>1. verdict' \in [Stages -> Verdicts] /\ events' \in [Stages -> SUBSET (Severities \cup {"stop"})]
    BY <1>2 DEF IInv, TypeOK
  <2>2. heard' \in 0..NStages /\ pc' \in Running BY <1>1, <1>2 DEF IInv, TypeOK, Running
  <2> QED BY <1>3, <2>1, <2>2 DEF IInv, TypeOK
<1>5. Shape' BY <1>1, <1>2, <1>3 DEF IInv, TypeOK, Shape, InStage, Runnable, Stages
<1>6. Stopping'
  <2>1. heard # 0 /\ heard' = heard => StopLost' = StopLost
    BY <1>1, <1>2, <1>3 DEF StopLost, IInv, TypeOK, Stopping, Runnable
  <2> QED BY <1>1, <1>2, <1>3, <2>1 DEF IInv, TypeOK, Stopping, StopLost, Closing, Runnable
<1>7. Clocked' BY <1>2, <1>3 DEF Clocked
<1>8. Artifacts' BY <1>1, <1>3, Untouched DEF Post, Cut
<1> QED BY <1>4, <1>5, <1>6, <1>7, <1>8 DEF IInv

\* A stage is left: what was noticed in it is in its events, and ends the run
\* unless a failed benchmark hides it.
LEMMA CloseStep ==
  ASSUME IInv, pc \in {"judge", "batch"},
         NEW v \in Verdicts, NEW new \in SUBSET (Severities \cup {"stop"}), NEW bad \in BOOLEAN,
         NEW break \in BOOLEAN, Close(v, new, bad, break),
         v = "fail" => "error" \in events[at] \cup new,
         heard = at => IF break THEN "stop" \in events[at] \cup new
                       ELSE v = "fail" /\ kind[at] = "benchmark",
         runAborted' \in BOOLEAN,
         UNCHANGED <<kind, tui, abortRun, at, cause, left, results, asked, heard, manifest, mirror, mishaps>>
  PROVE  IInv'
<1> USE DEF Close, Goto
<1>1. at \in Runnable /\ at \in Stages BY DEF IInv, Shape, InStage, Runnable
<1>2. /\ clock' \in [life : Early \cup Late, terminal : BOOLEAN] /\ Clocked'
      /\ pc' \in {"complete", "next"} /\ (pc' = "complete" <=> break)
  <2>1. FinishClock("aborted") \/ Timed("between_stages") BY DEF EndStage
  <2>2. Stands(clock') BY <2>1, ClockMoves DEF IInv, TypeOK, Clocked, Stands, ClockType, Early, Late
  <2> QED BY <2>2 DEF Clocked, Stands, ClockType
<1>3. verdict'[at] = v /\ events'[at] = events[at] \cup new
      /\ \A s \in Stages \ {at} : verdict'[s] = verdict[s] /\ events'[s] = events[s]
  BY <1>1 DEF IInv, TypeOK
<1>4. TypeOK'
  <2>1. verdict' \in [Stages -> Verdicts] BY DEF IInv, TypeOK
  <2>2. events' \in [Stages -> SUBSET (Severities \cup {"stop"})] BY DEF IInv, TypeOK
  <2>3. windows' \subseteq Stages /\ dirty' \subseteq Stages BY <1>1 DEF IInv, TypeOK
  <2> QED BY <1>2, <2>1, <2>2, <2>3 DEF IInv, TypeOK, Running
<1>5. Shape' BY <1>1, <1>2, <1>3 DEF IInv, TypeOK, Shape, InStage, Runnable, Stages
<1>6. Stopping'
  <2>1. CASE heard = at
    BY <1>1, <1>2, <1>3, <2>1 DEF IInv, TypeOK, Stopping, StopLost, Closing, Noted, Runnable
  <2>2. CASE heard # at
    <3>1. heard = 0 \/ (StopLost /\ StopLost' /\ heard \in Stages)
      BY <1>3, <2>2 DEF IInv, Stopping, StopLost, Runnable
    <3>2. Noted' BY <1>3, <2>2, <3>1 DEF Noted, StopLost
    <3> QED BY <1>2, <2>2, <3>1, <3>2 DEF IInv, TypeOK, Stopping, Closing, Runnable
  <2> QED BY <2>1, <2>2
<1>7. Artifacts' BY Untouched DEF Post, Cut
<1> QED BY <1>2, <1>4, <1>5, <1>6, <1>7 DEF IInv

LEMMA JudgeStep ==
  ASSUME IInv, Judge
  PROVE  IInv'
<1>1. PICK found \in SUBSET Severities, faults \in SUBSET Severities, byFound \in BOOLEAN,
           byFault \in BOOLEAN, bad \in BOOLEAN :
        LET v == Applied(Applied(verdict[at], found, byFound), faults, byFault)
            break == cause = "safety" \/ (v = "aborted" /\ (cause = "operator" \/ abortRun))
        IN /\ Close(v, found \cup faults, bad, break)
           /\ runAborted' = (runAborted \/ break)
  BY DEF Judge
<1> DEFINE v == Applied(Applied(verdict[at], found, byFound), faults, byFault)
           break == cause = "safety" \/ (v = "aborted" /\ (cause = "operator" \/ abortRun))
<1>2. at \in Stages /\ verdict[at] \in Verdicts /\ pc = "judge"
  BY DEF Judge, IInv, TypeOK, Shape, InStage, Runnable
<1>3. v \in Verdicts /\ (v = "fail" => "error" \in events[at] \cup (found \cup faults))
  BY <1>2 DEF Applied, Verdicts, IInv, Shape
<1>4. verdict[at] = "aborted" => v = "aborted" BY DEF Applied
<1>5. heard = at => cause = "operator" /\ verdict[at] = "aborted" /\ "stop" \in events[at]
  BY <1>2 DEF IInv, Stopping
<1>6. UNCHANGED <<kind, tui, abortRun, at, cause, left, results, asked, heard, manifest, mirror, mishaps>>
  BY DEF Judge, setupVars, driveVars, diskVars
<1>7. break \in BOOLEAN /\ runAborted' \in BOOLEAN
  BY <1>1 DEF IInv, TypeOK
<1> HIDE DEF v
<1>8. heard = at => break BY <1>4, <1>5
<1>9. Close(v, found \cup faults, bad, break) BY <1>1 DEF v
<1>10. found \cup faults \in SUBSET (Severities \cup {"stop"}) OBVIOUS
<1> HIDE DEF break
<1> QED BY <1>2, <1>3, <1>5, <1>6, <1>7, <1>8, <1>9, <1>10, CloseStep

LEMMA CancelStep ==
  ASSUME IInv, CancelBatch \/ CancelDrive
  PROVE  IInv'
<1> USE DEF CancelBatch, CancelDrive, Hears, Goto, setupVars, stageVars, diskVars
<1>1. /\ pc \in {"batch", "drive"} /\ pc' = "batch" /\ at \in Runnable /\ at \in Stages
      /\ heard' = at /\ asked' = TRUE /\ results' \cap {"FAIL", "CANCELLED"} # {}
      /\ UNCHANGED <<kind, tui, abortRun, at, verdict, events, dirty, windows, cause, runAborted,
                     clock, manifest, mirror, mishaps>>
  BY DEF IInv, Shape, InStage, Runnable
<1>2. TypeOK'
  <2>1. left' \in 0..Drives BY RunAssumption DEF IInv, TypeOK, Shape
  <2>2. results' \subseteq {"PASS", "WARN", "FAIL", "SKIPPED", "CANCELLED"} BY DEF IInv, TypeOK
  <2> QED BY <1>1, <2>1, <2>2 DEF IInv, TypeOK, Running
<1>3. Shape' BY <1>1 DEF IInv, Shape, InStage, Runnable
<1>4. Stopping' BY <1>1 DEF IInv, TypeOK, Stopping, Closing, Runnable
<1>5. Clocked' BY <1>1 DEF IInv, Clocked
<1>6. Artifacts' BY <1>1, Untouched DEF Post, Cut
<1> QED BY <1>2, <1>3, <1>4, <1>5, <1>6 DEF IInv

LEMMA JudgeBatchStep ==
  ASSUME IInv, JudgeBatch
  PROVE  IInv'
<1> DEFINE v == BatchVerdict(results) break == v = "aborted" new == BatchEvents(results)
<1>1. pc = "batch" /\ kind[at] = "benchmark" BY DEF JudgeBatch, IInv, Shape
<1>2. Close(v, new, FALSE, break) /\ runAborted' = break BY DEF JudgeBatch
<1>3. UNCHANGED <<kind, tui, abortRun, at, cause, left, results, asked, heard, manifest, mirror, mishaps>>
  BY DEF JudgeBatch, setupVars, driveVars, diskVars
<1>4. v \in Verdicts /\ new \in SUBSET (Severities \cup {"stop"})
  BY DEF BatchVerdict, BatchEvents, Verdicts, Severities
<1>5. v = "fail" => "error" \in new BY DEF BatchVerdict, BatchEvents
<1>6. break => "stop" \in new BY DEF BatchEvents
<1>7. heard = at => v \in {"fail", "aborted"}
  BY <1>1 DEF IInv, Stopping, BatchVerdict
<1>8. break \in BOOLEAN OBVIOUS
<1> HIDE DEF v, new
<1>9. heard = at => IF break THEN "stop" \in events[at] \cup new
                    ELSE v = "fail" /\ kind[at] = "benchmark"
  BY <1>1, <1>6, <1>7
<1>10. v = "fail" => "error" \in events[at] \cup new BY <1>5
<1> HIDE DEF break
<1> QED BY <1>1, <1>2, <1>3, <1>4, <1>8, <1>9, <1>10, CloseStep

\* Consolidation: nothing found late improves a verdict.
LEMMA CompleteStep ==
  ASSUME IInv, Complete
  PROVE  /\ IInv'
         /\ \A s \in Stages : verdict'[s] = verdict[s] \/ verdict'[s] = "fail"
              \/ (verdict[s] # "fail" /\ verdict'[s] = "warning")
         /\ \A s \in Stages : verdict[s] = "aborted" => verdict'[s] = "aborted"
<1> USE DEF Complete, Goto, FinishClock, setupVars, driveVars, stopVars, diskVars
<1>1. /\ pc \in {"next", "complete"} /\ pc' = "publish" /\ clock' = [life |-> "finalizing", terminal |-> TRUE]
      /\ UNCHANGED <<kind, tui, abortRun, at, dirty, windows, cause, left, results, asked, heard,
                     runAborted, manifest, mirror, mishaps>>
  OBVIOUS
<1>2. PICK late \in [windows -> SUBSET Severities] :
        events' = [s \in Stages |-> IF s \in windows THEN events[s] \cup late[s] ELSE events[s]]
  OBVIOUS
<1>3. \A s \in Stages : events'[s] \in SUBSET (Severities \cup {"stop"}) /\ events[s] \subseteq events'[s]
  BY <1>2 DEF IInv, TypeOK
<1>4. \A s \in Stages : verdict'[s] =
        IF s \notin windows \/ verdict[s] = "aborted" THEN verdict[s]
        ELSE IF "error" \in events'[s] THEN "fail"
        ELSE IF events'[s] # {} THEN "warning" ELSE verdict[s]
  OBVIOUS
<1>5. \A s \in Stages : verdict[s] = "fail" => "error" \in events'[s]
  BY <1>3 DEF IInv, Shape
<1>6. \A s \in Stages : /\ verdict'[s] = "fail" => "error" \in events'[s]
                        /\ verdict[s] = "fail" => verdict'[s] = "fail"
  BY <1>4, <1>5
<1>7. TypeOK'
  <2>1. \A s \in Stages : verdict'[s] \in Verdicts BY <1>4 DEF IInv, TypeOK, Verdicts
  <2>2. verdict' \in [Stages -> Verdicts] BY <2>1
  <2>3. events' \in [Stages -> SUBSET (Severities \cup {"stop"})] BY <1>2, <1>3
  <2>4. clock' \in [life : Early \cup Late, terminal : BOOLEAN] BY <1>1 DEF Late
  <2>5. pc' \in Running BY <1>1 DEF Running
  <2> QED BY <1>1, <2>2, <2>3, <2>4, <2>5 DEF IInv, TypeOK
<1>8. Shape'
  <2>1. \A s \in Stages : s > at => verdict'[s] = "pass" /\ s \notin windows
    BY <1>4 DEF IInv, Shape
  <2> QED BY <1>1, <1>6, <2>1 DEF Shape, InStage
<1>9. Stopping'
  <2>1. heard # 0 => heard \in Stages BY DEF IInv, Stopping, Runnable
  <2>2. StopLost /\ heard # 0 => StopLost' BY <1>1, <1>6, <2>1 DEF StopLost
  <2>3. Noted BY <1>1 DEF IInv, Stopping, Closing, StopLost, Noted
  <2>4. Noted' BY <1>1, <1>3, <1>6, <2>1, <2>3 DEF Noted
  <2> QED BY <1>1, <2>2, <2>4 DEF IInv, TypeOK, Stopping, Runnable
<1>10. Clocked' BY <1>1 DEF Clocked, Late
<1>11. Artifacts' BY <1>1, Untouched DEF Post, Cut
<1> QED BY <1>4, <1>5, <1>7, <1>8, <1>9, <1>10, <1>11 DEF IInv

LEMMA StepIInv ==
  ASSUME IInv, [Next]_vars
  PROVE  IInv'
<1>1. CASE QuietStep BY <1>1, QuietStepIInv
<1>2. CASE Prepare \/ StartStage BY <1>2, PrepareStep, StartStageStep
<1>3. CASE Live \/ Emergency \/ StopStage BY <1>3, LiveStep
<1>4. CASE Judge \/ JudgeBatch BY <1>4, JudgeStep, JudgeBatchStep
<1>5. CASE CancelBatch \/ CancelDrive BY <1>5, CancelStep
<1>6. CASE Complete BY <1>6, CompleteStep
<1>7. CASE UNCHANGED vars
  BY <1>7 DEF vars, setupVars, stageVars, driveVars, stopVars, diskVars, IInv, TypeOK, Shape,
    Stopping, StopLost, Noted, Clocked, Artifacts, Good, Runnable
<1> QED
  BY <1>1, <1>2, <1>3, <1>4, <1>5, <1>6, <1>7
  DEF Next, Step, StageStep, ArtifactStep, QuietStep

LEMMA Inductive == Spec => []IInv
<1>1. Init => IInv BY InitIInv
<1>2. IInv /\ [Next]_vars => IInv' BY StepIInv
<1> QED BY <1>1, <1>2, PTL DEF Spec

\* Every variable of the run keeps its type.
THEOREM TypeCorrect == Spec => []TypeOK
<1>1. IInv => TypeOK BY DEF IInv
<1> QED BY <1>1, Inductive, PTL

\* What completion_from_directory() reads as completed, after any exceptions, a kill
\* at any write and any answer of the operator, is a run whose stages all passed.
THEOREM CompletedRunsAre == Spec => []CompletedIsTrue
<1>1. IInv => CompletedIsTrue
  <2> SUFFICES ASSUME IInv, Read = "completed" PROVE Good BY DEF CompletedIsTrue, Good
  <2>1. (manifest = "final" /\ Status = "completed") \/ mirror = "completed"
    BY DEF Read, IInv, TypeOK
  <2>2. CASE manifest = "final" /\ Status = "completed"
    BY <2>2, StatusIsTrue DEF IInv, Artifacts, Stopping
  <2>3. CASE mirror = "completed" BY <2>3 DEF IInv, Artifacts
  <2> QED BY <2>1, <2>2, <2>3
<1> QED BY <1>1, Inductive, PTL

\* A stop that was heard ends the run, whatever the order of stages and events; the
\* one exception is the benchmark in which a target failed.
THEOREM HeardStopsEnd == Spec => []HeardStopEndsRun
<1>1. IInv => HeardStopEndsRun BY DEF IInv, Stopping, HeardStopEndsRun
<1> QED BY <1>1, Inductive, PTL

\* No event, no consolidation and no handler improves the verdict of a stage.
THEOREM VerdictsOnlyWorsen == Spec => NoVerdictLowered
<1> DEFINE Worse == \A s \in Stages : Rank(verdict'[s]) >= Rank(verdict[s])
<1>1. ASSUME IInv, Next PROVE Worse
  <2>1. \A v \in Verdicts : Rank(v) \in 0..3 BY DEF Rank, Verdicts
  <2>2. \A s \in Stages : verdict[s] \in Verdicts BY <1>1 DEF IInv, TypeOK
  <2>3. CASE verdict' = verdict BY <2>1, <2>2, <2>3
  <2>4. ASSUME pc \in {"live", "judge", "batch"}, NEW v \in Verdicts,
               verdict' = [verdict EXCEPT ![at] = v], Rank(v) >= Rank(verdict[at])
        PROVE  Worse
    BY <1>1, <2>1, <2>2, <2>4 DEF IInv, TypeOK
  <2>5. CASE Live \/ Emergency \/ StopStage
    <3>1. verdict[at] \in {"pass", "warning", "fail"} /\ pc = "live"
      BY <1>1, <2>2, <2>5 DEF Live, Emergency, StopStage, IInv, Shape, InStage, Runnable, Verdicts
    <3>2. PICK v \in Verdicts :
             /\ verdict' = [verdict EXCEPT ![at] = v]
             /\ v \in {verdict[at], "fail", "aborted"}
                \/ (v = "warning" /\ verdict[at] = "pass")
      BY <2>5, <3>1 DEF Live, Emergency, StopStage, Record, Verdicts
    <3>3. Rank(v) >= Rank(verdict[at]) BY <3>1, <3>2 DEF Rank
    <3>4. verdict' = [verdict EXCEPT ![at] = v] /\ v \in Verdicts BY <3>2
    <3> HIDE DEF Worse
    <3> QED BY <2>4, <3>1, <3>3, <3>4
  <2>6. CASE Judge
    <3>1. verdict[at] \in Verdicts /\ pc = "judge"
      BY <1>1, <2>2, <2>6 DEF Judge, IInv, Shape, InStage, Runnable
    <3>2. \A x \in Verdicts : \A new \in SUBSET Severities : \A abort \in BOOLEAN :
            Applied(x, new, abort) \in Verdicts /\ Rank(Applied(x, new, abort)) >= Rank(x)
      BY DEF Applied, Rank, Verdicts
    <3>3. PICK found \in SUBSET Severities, faults \in SUBSET Severities, byFound \in BOOLEAN,
               byFault \in BOOLEAN, bad \in BOOLEAN :
            LET v == Applied(Applied(verdict[at], found, byFound), faults, byFault)
                break == cause = "safety" \/ (v = "aborted" /\ (cause = "operator" \/ abortRun))
            IN /\ Close(v, found \cup faults, bad, break)
               /\ runAborted' = (runAborted \/ break)
      BY <2>6 DEF Judge
    <3> DEFINE x == Applied(verdict[at], found, byFound)  y == Applied(x, faults, byFault)
    <3>4. x \in Verdicts /\ Rank(x) >= Rank(verdict[at]) BY <3>1, <3>2
    <3>5. y \in Verdicts /\ Rank(y) >= Rank(x) BY <3>2, <3>4
    <3>6. verdict' = [verdict EXCEPT ![at] = y] BY <3>3 DEF Close
    <3> HIDE DEF x, y
    <3>7. Rank(y) >= Rank(verdict[at]) BY <2>1, <3>1, <3>4, <3>5
    <3> QED BY <2>4, <3>1, <3>5, <3>6, <3>7
  <2>7. CASE JudgeBatch
    <3>1. verdict[at] = "pass" /\ pc = "batch" BY <1>1, <2>7 DEF JudgeBatch, IInv, Shape
    <3>2. BatchVerdict(results) \in Verdicts BY DEF BatchVerdict, Verdicts
    <3>3. verdict' = [verdict EXCEPT ![at] = BatchVerdict(results)] BY <2>7 DEF JudgeBatch, Close
    <3>4. Rank(verdict[at]) = 0 BY <3>1 DEF Rank
    <3>5. Rank(BatchVerdict(results)) >= Rank(verdict[at]) BY <2>1, <3>2, <3>4
    <3> QED BY <2>4, <3>1, <3>2, <3>3, <3>5
  <2>8. CASE Complete
    BY <1>1, <2>2, <2>8, CompleteStep DEF Rank, Verdicts
  <2>9. verdict' = verdict \/ Live \/ Emergency \/ StopStage \/ Judge \/ JudgeBatch \/ Complete
    BY <1>1 DEF Next, Step, StageStep, ArtifactStep, Bootstrap, Booted, Prepare, StartStage, TimeUp,
      NextDrive, DriveEnds, CancelBatch, CancelDrive, Publish, Export, Mirror, Summarize, Return,
      Persist, Persisted, Ask, Raise, Crash, stageVars
  <2> QED BY <2>3, <2>5, <2>6, <2>7, <2>8, <2>9
<1>2. IInv /\ [Next]_vars => [Worse]_vars BY <1>1
<1> QED BY <1>2, Inductive, PTL DEF Spec, NoVerdictLowered

\* The clock of a run that ended, was stopped or failed is never set running again.
THEOREM ClockStaysStopped == Spec => ClockStands
<1> DEFINE Stays ==
      /\ clock.terminal => clock'.terminal /\ clock'.life \in Late
      /\ pc' = "done" => clock'.life = IF runAborted THEN "aborted" ELSE "completed"
      /\ pc' = "raised" => clock'.life = "stopped"
<1>1. ASSUME IInv, Next PROVE Stays
  <2>1. Clocked' BY <1>1, StepIInv DEF IInv
  <2>2. clock.terminal => clock'.terminal
    <3>1. \/ clock' = clock
          \/ \E life \in Late : FinishClock(life)
          \/ \E life \in Early : Timed(life)
      BY <1>1 DEF Next, Step, StageStep, ArtifactStep, Bootstrap, Booted, Prepare, StartStage, Live,
        TimeUp, Emergency, StopStage, Judge, NextDrive, DriveEnds, CancelBatch, CancelDrive,
        JudgeBatch, Complete, Publish, Export, Mirror, Summarize, Return, Persist, Persisted, Ask,
        Raise, Crash, Close, EndStage, Early, Late
    <3> QED BY <3>1 DEF FinishClock, Timed
  <2>3. pc' = "done" => runAborted' = runAborted
    BY <1>1 DEF Next, Step, StageStep, ArtifactStep, Bootstrap, Booted, Prepare, StartStage, Live,
      TimeUp, Emergency, StopStage, Judge, NextDrive, DriveEnds, CancelBatch, CancelDrive,
      JudgeBatch, Complete, Publish, Export, Mirror, Summarize, Return, Persist, Persisted, Ask,
      Raise, Crash, Close, Goto, stopVars, Running
  <2> QED BY <2>1, <2>2, <2>3 DEF Clocked
<1>2. IInv /\ [Next]_vars => [Stays]_vars BY <1>1
<1> QED BY <1>2, Inductive, PTL DEF Spec, ClockStands
=============================================================================
