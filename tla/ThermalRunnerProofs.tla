------------------------- MODULE ThermalRunnerProofs ------------------------
(***************************************************************************)
(* What ThermalRunner.run() guarantees for every set of drives, any number *)
(* of runs and any number of mishaps.                                      *)
(*                                                                         *)
(* A descriptor is guarded by who holds it: the claims never matter once a *)
(* worker runs, only the jobs and the unconfirmed ones do.  A verdict is   *)
(* true because of what "confirmed" and "unconfirmed" mean at the moment   *)
(* the manifest is written: nothing of a confirmed job is left, and every  *)
(* job of this run whose end nobody saw is "incomplete" by then.           *)
(***************************************************************************)
EXTENDS ThermalRunner, TLAPS

Present(d) == group[d] \in {"alive", "orphans"}

\* While anything of a worker is there, a job or the unconfirmed ones have its
\* descriptor.
Guarded == \A d \in Drives : Present(d) => d \in fds \cup unconfirmed

\* Only a job whose worker was started has a descriptor, and outside the loop and its
\* clean-up none has.
Descriptors ==
  /\ \A d \in fds : group[d] # "none"
  /\ \A d \in Drives : group[d] # "none" => state[d] # "none"
  /\ pc \in {"idle", "claim", "setup", "publish"} => fds = {}

\* A run begins without workers and jobs, and a drive that waits has neither.
Fresh ==
  /\ pc \in {"claim", "setup"} => \A d \in Drives : group[d] = "none" /\ state[d] = "none"
  /\ \A d \in pending : group[d] = "none" /\ state[d] = "none"

\* Nothing is left of a confirmed job.
Settled == \A d \in confirmed : state[d] # "none" /\ ~Present(d)

\* A run is refused while anything is unconfirmed, and ends with those jobs incomplete.
Refused ==
  /\ pc \notin {"idle", "publish"} => unconfirmed = {}
  /\ pc = "publish" => \A d \in unconfirmed : state[d] = "incomplete"

\* The manifest says PASS or WARN only between two runs.
Judged == (manifest \in {"PASS", "WARN"} => pc = "idle") /\ VerdictTruthful

\* An emergency stops everything, and what is stopped does not wait for its launch.
Stopping ==
  /\ emergency => stopAll
  /\ pc = "launch" /\ emergency => pending = {}

Jobwise == Guarded /\ Descriptors /\ Fresh /\ Settled /\ Refused /\ Judged

IInv == TypeOK /\ Jobwise /\ Stopping

LEMMA InitIInv == Init => IInv
<1> SUFFICES ASSUME Init PROVE IInv
  OBVIOUS
<1>1. TypeOK
  <2>1. runs \in 0..MaxRuns /\ mishaps \in 0..MaxMishaps
    BY ThermalAssumption DEF Init
  <2> QED BY <2>1, Zenon DEF Init, TypeOK, States, Loop
<1>2. Jobwise
  BY DEF Init, Jobwise, Guarded, Descriptors, Fresh, Settled, Refused, Judged,
         VerdictTruthful, Present
<1>3. Stopping BY DEF Init, Stopping
<1> QED BY <1>1, <1>2, <1>3 DEF IInv

-----------------------------------------------------------------------------
(* The types.                                                              *)

\* The verdict over a job and the one over a run are among theirs.
LEMMA VerdictType ==
  ASSUME NEW d, NEW sound \in BOOLEAN, NEW unsafe \in BOOLEAN
  PROVE  Verdict(d, sound, unsafe) \in {"completed", "failed", "incomplete", "cancelled"}
  BY DEF Verdict

LEMMA RunVerdictType ==
  ASSUME NEW failed \in BOOLEAN, NEW warned \in BOOLEAN
  PROVE  RunVerdict(failed, warned) \in {"PASS", "WARN", "FAIL", "INCOMPLETE"}
  BY DEF RunVerdict

LEMMA StopType ==
  ASSUME TypeOK, NEW S \in SUBSET Drives, NEW why \in {"cancel", "other"}, NEW unsafe \in BOOLEAN,
         Stop(S, why, unsafe)
  PROVE  stopped' \in [Drives -> {"no", "cancel", "other"}] /\ safety' \subseteq Drives
  BY DEF Stop, TypeOK

LEMMA MishapType ==
  ASSUME TypeOK, Mishap \/ NoMishap
  PROVE  mishaps' \in 0..MaxMishaps
  BY ThermalAssumption DEF Mishap, NoMishap, TypeOK

LEMMA FinishType ==
  ASSUME TypeOK, NEW d \in Drives, NEW sound \in BOOLEAN, NEW unsafe \in BOOLEAN,
         Finish(d, sound, unsafe)
  PROVE  /\ state' \in [Drives -> States] /\ finished' \subseteq Drives
         /\ state'[d] \in States /\ \A e \in Drives \ {d} : state'[e] = state[e]
         /\ d \notin finished => state'[d] # "none"
         /\ d \in finished => state' = state
         /\ stopAll' \in BOOLEAN /\ emergency' \in BOOLEAN /\ failure' \in BOOLEAN
         /\ emergency' => stopAll' \/ UNCHANGED <<stopAll, emergency>>
<1>1. CASE d \in finished
  BY <1>1, Zenon DEF Finish, TypeOK
<1>2. CASE d \notin finished
  <2>1. /\ finished' = finished \cup {d}
        /\ state' = [state EXCEPT ![d] = Verdict(d, sound, unsafe)]
        /\ \/ emergency' = TRUE /\ stopAll' = TRUE /\ failure' = failure
           \/ UNCHANGED <<stopAll, emergency, failure>>
    BY <1>2 DEF Finish, Emergency
  <2>2. Verdict(d, sound, unsafe) \in States /\ Verdict(d, sound, unsafe) # "none"
    BY VerdictType DEF States
  <2> QED BY <1>2, <2>1, <2>2 DEF TypeOK
<1> QED BY <1>1, <1>2

\* A supervisor step, a command, a failure or an exit: each counts or is no mishap.
LEMMA StepMishaps ==
  ASSUME TypeOK, Next
  PROVE  mishaps' \in 0..MaxMishaps
<1>1. CASE \/ Start \/ Claim \/ Setup \/ LoopEnds \/ Control \/ ApprovalExpires \/ Signal
           \/ NothingToLaunch \/ Monitor \/ PassEnds \/ Break \/ Handler \/ Broken \/ Finally
           \/ Publish
  BY <1>1, MishapType DEF Start, Claim, Setup, LoopEnds, Control, ApprovalExpires, Signal,
    NothingToLaunch, Monitor, PassEnds, Break, Handler, Broken, Finally, Publish
<1>2. ASSUME NEW d \in Drives,
             \/ Launch(d) \/ StillRunning(d) \/ Exited(d) \/ Orphaned(d) \/ CancelDrive(d)
             \/ Expire(d) \/ KillGroup(d) \/ GiveUp(d) \/ LeaderExits(d) \/ OrphansEnd(d)
      PROVE  mishaps' \in 0..MaxMishaps
  BY <1>2, MishapType DEF Launch, StillRunning, Exited, Orphaned, CancelDrive, Expire, KillGroup,
    GiveUp, LeaderExits, OrphansEnd
<1> QED BY <1>1, <1>2 DEF Next, Supervisor, Deadline

\* The steps that start, plan, clean up and publish.
LEMMA RunStepType ==
  ASSUME TypeOK,
         Start \/ Claim \/ Setup \/ LoopEnds \/ Break \/ Handler \/ Broken \/ Finally \/ Publish
  PROVE  TypeOK'
<1> USE DEF TypeOK, Goto, NoStop, Loop
<1>0. mishaps' \in 0..MaxMishaps BY StepMishaps DEF Next, Supervisor
<1>1. CASE Start
  <2>1. runs' \in 0..MaxRuns BY <1>1, ThermalAssumption DEF Start
  <2>2. /\ group' \in [Drives -> {"none", "alive", "orphans", "gone"}]
        /\ state' \in [Drives -> States] /\ stopped' \in [Drives -> {"no", "cancel", "other"}]
    BY <1>1 DEF Start, States
  <2> QED BY <1>0, <1>1, <2>1, <2>2 DEF Start, fdVars
<1>2. CASE Claim \/ Setup \/ LoopEnds \/ Break
  BY <1>0, <1>2 DEF Claim, Setup, LoopEnds, Break, fdVars, planVars, jobVars
<1>3. CASE Handler
  <2>1. stopped' \in [Drives -> {"no", "cancel", "other"}] /\ safety' \subseteq Drives
    BY <1>3, StopType DEF Handler, Active, Jobs
  <2> QED BY <1>0, <1>3, <2>1 DEF Handler, fdVars, planVars
<1>4. CASE Broken
  BY <1>0, <1>4 DEF Broken, fdVars, planVars, Active, Jobs, States
<1>5. CASE Finally
  BY <1>0, <1>5 DEF Finally, planVars, Closable, States
<1>6. CASE Publish
  <2>1. manifest' \in {manifest, "PASS", "WARN", "FAIL", "INCOMPLETE"}
    BY <1>6, RunVerdictType DEF Publish
  <2>2. failure' \in BOOLEAN BY <1>6 DEF Publish
  <2>3. /\ pc' = "idle"
        /\ UNCHANGED <<stopAll, emergency, todo, fdVars, planVars, pending, done, group, jobVars>>
    BY <1>6 DEF Publish
  <2> QED BY <1>0, <2>1, <2>2, <2>3 DEF fdVars, planVars, jobVars
<1> QED BY <1>1, <1>2, <1>3, <1>4, <1>5, <1>6

\* The head of a pass, the launches and the monitors.
LEMMA PassStepType ==
  ASSUME TypeOK,
         \/ Control \/ ApprovalExpires \/ Signal \/ NothingToLaunch \/ Monitor \/ PassEnds
         \/ \E d \in Drives : CancelDrive(d) \/ Launch(d)
  PROVE  TypeOK'
<1> USE DEF TypeOK, Goto, NoStop, Loop, Emergency
<1>0. mishaps' \in 0..MaxMishaps BY StepMishaps DEF Next, Supervisor
<1>1. Active \in SUBSET Drives BY DEF Active, Jobs
<1>2. CASE Signal \/ NothingToLaunch \/ PassEnds
  BY <1>0, <1>2 DEF Signal, NothingToLaunch, PassEnds, fdVars, planVars, jobVars
<1>3. CASE Control
  <2>1. PICK all \in BOOLEAN, urgent \in BOOLEAN : Broadcast(all, urgent)
    BY <1>3 DEF Control
  <2>2. stopped' \in [Drives -> {"no", "cancel", "other"}] /\ safety' \subseteq Drives
    BY <1>1, <2>1, StopType DEF Broadcast
  <2>3. /\ pc' = "launch" /\ stopAll' \in BOOLEAN /\ emergency' \in BOOLEAN
        /\ failure' = failure /\ pending' \subseteq Drives
    BY <2>1 DEF Broadcast
  <2> QED BY <1>0, <1>3, <2>2, <2>3 DEF Control, fdVars, planVars
<1>4. CASE ApprovalExpires
  <2>1. stopped' \in [Drives -> {"no", "cancel", "other"}] /\ safety' \subseteq Drives
    BY <1>1, <1>4, StopType DEF ApprovalExpires
  <2> QED BY <1>0, <1>4, <2>1 DEF ApprovalExpires, fdVars, planVars
<1>5. CASE Monitor
  <2>1. stopped' \in [Drives -> {"no", "cancel", "other"}] /\ safety' \subseteq Drives
    <3>1. ASSUME NEW d \in Active, Stop({d}, "other", TRUE)
          PROVE  stopped' \in [Drives -> {"no", "cancel", "other"}] /\ safety' \subseteq Drives
      <4>1. {d} \in SUBSET Drives BY <1>1
      <4> QED BY <3>1, <4>1, StopType
    <3> QED BY <1>5, <3>1 DEF Monitor
  <2>2. stopAll' \in BOOLEAN /\ emergency' \in BOOLEAN /\ failure' \in BOOLEAN
    BY <1>5 DEF Monitor
  <2>3. /\ pc' = "reap" /\ todo' = Active
        /\ UNCHANGED <<fdVars, planVars, pending, done, group, state, killed, expired, confirmed,
                       finished, manifest>>
    BY <1>5 DEF Monitor
  <2> QED BY <1>0, <1>1, <2>1, <2>2, <2>3 DEF fdVars, planVars
<1>6. ASSUME NEW d \in Drives, CancelDrive(d) PROVE TypeOK'
  <2>1. stopped' \in [Drives -> {"no", "cancel", "other"}] /\ safety' \subseteq Drives
    BY <1>6, StopType DEF CancelDrive
  <2> QED BY <1>0, <1>6, <2>1 DEF CancelDrive, fdVars, planVars
<1>7. ASSUME NEW d \in Drives, Launch(d) PROVE TypeOK'
  <2>1. stopped' \in [Drives -> {"no", "cancel", "other"}] /\ safety' \subseteq Drives
    <3>1. {d} \in SUBSET Drives OBVIOUS
    <3>2. NoStop \/ Stop({d}, "other", TRUE) BY <1>7, Zenon DEF Launch
    <3>3. CASE NoStop BY <3>3
    <3>4. CASE Stop({d}, "other", TRUE) BY <3>1, <3>4, StopType
    <3> QED BY <3>2, <3>3, <3>4
  <2>2. /\ group' \in {group, [group EXCEPT ![d] = "alive"]}
        /\ state' \in {[state EXCEPT ![d] = "running"], [state EXCEPT ![d] = "failed"]}
        /\ claims' \subseteq Drives /\ fds' \subseteq Drives /\ done' \subseteq Drives
        /\ confirmed' \subseteq Drives /\ pending' \subseteq Drives
        /\ stopAll' \in BOOLEAN /\ emergency' \in BOOLEAN /\ failure' \in BOOLEAN
        /\ pc' = "monitor"
        /\ UNCHANGED <<unconfirmed, planVars, todo, killed, expired, finished, manifest>>
    BY <1>7 DEF Launch
  <2>3. /\ group' \in [Drives -> {"none", "alive", "orphans", "gone"}]
        /\ state' \in [Drives -> States]
    BY <2>2 DEF States
  <2> QED BY <1>0, <2>1, <2>2, <2>3 DEF planVars
<1> QED BY <1>2, <1>3, <1>4, <1>5, <1>6, <1>7

\* What a pass does with a job, and what the workers do.
LEMMA JobStepType ==
  ASSUME TypeOK, NEW d \in Drives,
         \/ Expire(d) \/ KillGroup(d) \/ StillRunning(d) \/ Exited(d) \/ Orphaned(d) \/ GiveUp(d)
         \/ LeaderExits(d) \/ OrphansEnd(d)
  PROVE  TypeOK'
<1> USE DEF TypeOK, NoStop, Loop
<1>0. mishaps' \in 0..MaxMishaps BY StepMishaps DEF Next, Supervisor, Deadline
<1>1. CASE Expire(d)
  <2>1. stopped' \in [Drives -> {"no", "cancel", "other"}] /\ safety' \subseteq Drives
    BY <1>1, StopType DEF Expire
  <2> QED BY <1>0, <1>1, <2>1 DEF Expire, loopVars, fdVars, planVars
<1>2. CASE KillGroup(d)
  BY <1>0, <1>2 DEF KillGroup, loopVars, fdVars, planVars
<1>3. CASE StillRunning(d)
  BY <1>0, <1>3 DEF StillRunning, Looked, fdVars, planVars, jobVars
<1>4. CASE GiveUp(d)
  BY <1>0, <1>4 DEF GiveUp, Looked, fdVars, planVars, States
<1>5. CASE LeaderExits(d) \/ OrphansEnd(d)
  BY <1>0, <1>5 DEF LeaderExits, OrphansEnd, loopVars, fdVars, planVars, jobVars
<1>6. CASE Exited(d)
  <2>1. PICK sound \in BOOLEAN, unsafe \in BOOLEAN :
          /\ Finish(d, sound, unsafe)
          /\ safety' = IF unsafe /\ d \notin finished THEN safety \cup {d} ELSE safety
    BY <1>6 DEF Exited
  <2>2. /\ state' \in [Drives -> States] /\ finished' \subseteq Drives
        /\ stopAll' \in BOOLEAN /\ emergency' \in BOOLEAN /\ failure' \in BOOLEAN
    BY <2>1, FinishType
  <2>3. safety' \subseteq Drives BY <2>1
  <2>4. /\ fds' = fds \ {d} /\ confirmed' = confirmed \cup {d} /\ done' = done \cup {d}
        /\ todo' = todo \ {d} /\ pc' \in {"control", "reap"}
        /\ UNCHANGED <<claims, unconfirmed, planVars, pending, group, stopped, killed, expired,
                       manifest>>
    BY <1>6 DEF Exited, Looked
  <2> QED BY <1>0, <2>2, <2>3, <2>4 DEF planVars
<1>7. CASE Orphaned(d)
  <2>1. PICK sound \in BOOLEAN, unsafe \in BOOLEAN :
          /\ Finish(d, sound, unsafe)
          /\ LET marked == IF unsafe /\ d \notin finished THEN safety \cup {d} ELSE safety
             IN IF stopped[d] = "no"
                THEN stopped' = [stopped EXCEPT ![d] = "other"] /\ safety' = marked \ {d}
                ELSE safety' = marked /\ UNCHANGED stopped
    BY <1>7 DEF Orphaned
  <2>2. /\ state' \in [Drives -> States] /\ finished' \subseteq Drives
        /\ stopAll' \in BOOLEAN /\ emergency' \in BOOLEAN /\ failure' \in BOOLEAN
    BY <2>1, FinishType
  <2>3. stopped' \in [Drives -> {"no", "cancel", "other"}] /\ safety' \subseteq Drives
    BY <2>1
  <2>4. /\ todo' = todo \ {d} /\ pc' \in {"control", "reap"}
        /\ UNCHANGED <<fdVars, planVars, pending, done, group, killed, expired, confirmed, manifest>>
    BY <1>7 DEF Orphaned, Looked
  <2> QED BY <1>0, <2>2, <2>3, <2>4 DEF fdVars, planVars
<1> QED BY <1>1, <1>2, <1>3, <1>4, <1>5, <1>6, <1>7

LEMMA StepType == ASSUME TypeOK, [Next]_vars PROVE TypeOK'
<1>1. CASE UNCHANGED vars
  BY <1>1 DEF vars, loopVars, fdVars, planVars, jobVars, TypeOK
<1> QED BY <1>1, RunStepType, PassStepType, JobStepType DEF Next, Supervisor, Deadline

-----------------------------------------------------------------------------
(* Descriptors, confirmations and the verdict.                             *)
Outside == {"idle", "claim", "setup", "publish"}

\* A step inside the loop that touches no worker, descriptor, state or confirmation.
LEMMA QuietJobwise ==
  ASSUME TypeOK, Jobwise, pc \notin Outside, pc' \notin Outside, pending' \subseteq pending,
         UNCHANGED <<fds, unconfirmed, group, state, confirmed, manifest>>
  PROVE  Jobwise'
  BY DEF Jobwise, Guarded, Descriptors, Fresh, Settled, Refused, Judged, VerdictTruthful,
    Present, Outside

LEMMA PassJobwise ==
  ASSUME TypeOK, Jobwise,
         \/ LoopEnds \/ Control \/ ApprovalExpires \/ Signal \/ NothingToLaunch \/ Monitor
         \/ PassEnds \/ Break \/ Handler
         \/ \E d \in Drives : CancelDrive(d) \/ Expire(d) \/ KillGroup(d) \/ StillRunning(d)
  PROVE  Jobwise'
<1> USE DEF Outside, Goto, Loop
<1>1. CASE LoopEnds \/ NothingToLaunch \/ PassEnds \/ Break \/ Handler \/ Signal
  BY <1>1, QuietJobwise DEF LoopEnds, NothingToLaunch, PassEnds, Break, Handler, Signal, fdVars,
    jobVars
<1>2. CASE Control \/ ApprovalExpires \/ Monitor
  BY <1>2, QuietJobwise DEF Control, Broadcast, ApprovalExpires, Monitor, fdVars
<1>3. ASSUME NEW d \in Drives, CancelDrive(d) \/ Expire(d) \/ KillGroup(d) \/ StillRunning(d)
      PROVE  Jobwise'
  BY <1>3, QuietJobwise DEF CancelDrive, Expire, KillGroup, StillRunning, Looking, Looked, fdVars,
    jobVars, loopVars
<1> QED BY <1>1, <1>2, <1>3

\* A new run: nothing was left unconfirmed, so no worker of an earlier one is there.
LEMMA StartJobwise == ASSUME TypeOK, Jobwise, Start PROVE Jobwise'
<1>1. /\ fds' = {} /\ unconfirmed' = {} /\ pending' = {} /\ confirmed' = {}
      /\ pc' = "claim" /\ manifest' = "none"
      /\ \A d \in Drives : state'[d] = "none"
  BY DEF Start, fdVars, Jobwise, Descriptors
<1>2. \A d \in Drives : group'[d] = "none"
  BY DEF Start, TypeOK, Jobwise, Guarded, Descriptors, Present
<1> QED BY <1>1, <1>2 DEF Jobwise, Guarded, Descriptors, Fresh, Settled, Refused, Judged,
      VerdictTruthful, Present

\* Opening the drives and writing the first manifest.
LEMMA SetupJobwise == ASSUME TypeOK, Jobwise, Claim \/ Setup PROVE Jobwise'
<1>1. /\ pc \in {"claim", "setup"} /\ pc' \in {"setup", "idle", "control"}
      /\ UNCHANGED <<fds, unconfirmed, group, state, confirmed>>
  BY DEF Claim, Setup, Goto, jobVars
<1>2. pending' \subseteq Drives
  BY DEF Claim, Setup, TypeOK
<1>3. manifest' \notin {"PASS", "WARN"}
  BY DEF Claim, Setup, Jobwise, Judged
<1> QED BY <1>1, <1>2, <1>3 DEF Jobwise, Guarded, Descriptors, Fresh, Settled, Refused,
      Judged, VerdictTruthful, Present

\* A started worker has its descriptor; a drive that is not started is confirmed,
\* since it has no worker.
LEMMA LaunchJobwise == ASSUME TypeOK, Jobwise, NEW d \in Drives, Launch(d) PROVE Jobwise'
<1>1. /\ pc = "launch" /\ pc' = "monitor" /\ d \in pending /\ pending' = pending \ {d}
      /\ UNCHANGED <<unconfirmed, manifest>>
  BY DEF Launch, First
<1>2. group[d] = "none" /\ state[d] = "none" BY <1>1 DEF Jobwise, Fresh
<1>3. d \notin confirmed BY <1>2 DEF Jobwise, Settled
<1>4. manifest \notin {"PASS", "WARN"} BY <1>1 DEF Jobwise, Judged
<1>5. CASE /\ group' = [group EXCEPT ![d] = "alive"] /\ state' = [state EXCEPT ![d] = "running"]
           /\ fds' = fds \cup {d} /\ confirmed' = confirmed
  BY <1>1, <1>2, <1>3, <1>4, <1>5 DEF TypeOK, Jobwise, Guarded, Descriptors, Fresh, Settled,
    Refused, Judged, VerdictTruthful, Present
<1>6. CASE /\ group' = group /\ state' = [state EXCEPT ![d] = "failed"]
           /\ fds' = fds /\ confirmed' = confirmed \cup {d}
  BY <1>1, <1>2, <1>3, <1>4, <1>6 DEF TypeOK, Jobwise, Guarded, Descriptors, Fresh, Settled,
    Refused, Judged, VerdictTruthful, Present
<1> QED BY <1>5, <1>6, Zenon DEF Launch

\* The end of a worker is seen: its descriptor is closed only when nothing is left.
LEMMA ExitJobwise ==
  ASSUME TypeOK, Jobwise, NEW d \in Drives, Exited(d) \/ Orphaned(d)
  PROVE  Jobwise'
<1>1. PICK sound \in BOOLEAN, unsafe \in BOOLEAN : Finish(d, sound, unsafe)
  BY DEF Exited, Orphaned
<1>2. /\ state' \in [Drives -> States] /\ \A e \in Drives \ {d} : state'[e] = state[e]
      /\ d \notin finished => state'[d] # "none"
      /\ d \in finished => state' = state
  BY <1>1, FinishType
<1>3. /\ pc = "reap" /\ pc' \in {"control", "reap"}
      /\ UNCHANGED <<unconfirmed, pending, group, manifest>>
  BY DEF Exited, Orphaned, Looking, Looked, fdVars
<1>4. group[d] \in {"orphans", "gone"} BY DEF Exited, Orphaned
<1>5. state[d] # "none" /\ d \notin pending /\ manifest \notin {"PASS", "WARN"}
  BY <1>3, <1>4 DEF Jobwise, Descriptors, Fresh, Judged
<1>6. \A e \in Drives : state[e] # "none" => state'[e] # "none"
  BY <1>2, <1>5
<1>7. \A e \in pending : state'[e] = state[e]
  BY <1>2, <1>5 DEF TypeOK
<1>8. \/ fds' = fds \ {d} /\ confirmed' = confirmed \cup {d} /\ group[d] = "gone"
      \/ fds' = fds /\ confirmed' = confirmed
  BY DEF Exited, Orphaned, fdVars
<1> QED BY <1>3, <1>5, <1>6, <1>7, <1>8 DEF TypeOK, Jobwise, Guarded, Descriptors, Fresh, Settled,
      Refused, Judged, VerdictTruthful, Present

\* A job is given up: its descriptor stays.
LEMMA GiveUpJobwise == ASSUME TypeOK, Jobwise, NEW d \in Drives, GiveUp(d) PROVE Jobwise'
<1>1. /\ pc = "reap" /\ pc' \in {"control", "reap"}
      /\ UNCHANGED <<fds, unconfirmed, pending, group, confirmed, manifest>>
  BY DEF GiveUp, Looking, Looked, fdVars
<1>2. Present(d) /\ state' \in {state, [state EXCEPT ![d] = "incomplete"]}
  BY DEF GiveUp, Present
<1>3. d \notin pending /\ d \notin confirmed
  BY <1>2 DEF Jobwise, Fresh, Settled, Present
<1>4. manifest \notin {"PASS", "WARN"} BY <1>1 DEF Jobwise, Judged
<1> QED BY <1>1, <1>2, <1>3, <1>4 DEF TypeOK, Jobwise, Guarded, Descriptors, Fresh, Settled,
      Refused, Judged, VerdictTruthful, Present

\* A supervisor failure makes the jobs it leaves incomplete.
LEMMA BrokenJobwise == ASSUME TypeOK, Jobwise, Broken PROVE Jobwise'
<1>1. /\ pc = "broken" /\ pc' = "finally"
      /\ UNCHANGED <<fds, unconfirmed, pending, group, confirmed, manifest>>
      /\ state' = [d \in Drives |-> IF d \in Active THEN "incomplete" ELSE state[d]]
  BY DEF Broken, Goto, fdVars
<1>2. \A d \in Drives : state'[d] = "none" <=> state[d] = "none"
  BY <1>1 DEF Active, Jobs
<1>3. manifest \notin {"PASS", "WARN"} BY <1>1 DEF Jobwise, Judged
<1> QED BY <1>1, <1>2, <1>3 DEF TypeOK, Jobwise, Guarded, Descriptors, Fresh, Settled,
      Refused, Judged, VerdictTruthful, Present

\* The clean-up closes what may be closed and keeps the rest, as incomplete jobs.
LEMMA FinallyJobwise == ASSUME TypeOK, Jobwise, Finally PROVE Jobwise'
<1>1. /\ pc = "finally" /\ pc' = "publish" /\ fds' = {}
      /\ confirmed' = confirmed \cup Closable
      /\ unconfirmed' = unconfirmed \cup (fds \ Closable)
      /\ state' = [d \in Drives |-> IF d \in fds \ Closable THEN "incomplete" ELSE state[d]]
      /\ UNCHANGED <<pending, group, manifest>>
  BY DEF Finally, Goto
<1>2. unconfirmed = {} BY <1>1 DEF Jobwise, Refused
<1>3. manifest \notin {"PASS", "WARN"} BY <1>1 DEF Jobwise, Judged
<1>4. Closable \subseteq fds /\ \A d \in fds : d \in Closable <=> group[d] = "gone"
  BY DEF Closable
<1>5. \A d \in fds : d \notin pending /\ state[d] # "none" /\ d \in Drives
  BY DEF TypeOK, Jobwise, Fresh, Descriptors
<1> HIDE DEF Closable
<1>6. Guarded' BY <1>1, <1>2, <1>4 DEF Jobwise, Guarded, Present
<1>7. Descriptors' BY <1>1, <1>5 DEF TypeOK, Jobwise, Descriptors
<1>8. Fresh' BY <1>1, <1>5 DEF TypeOK, Jobwise, Fresh
<1>9. Settled' BY <1>1, <1>4, <1>5 DEF TypeOK, Jobwise, Settled, Present
<1>10. Refused' BY <1>1, <1>2, <1>5 DEF Refused
<1>11. Judged' BY <1>1, <1>3 DEF Judged, VerdictTruthful
<1> QED BY <1>6, <1>7, <1>8, <1>9, <1>10, <1>11 DEF Jobwise

\* A verdict of PASS or WARN is true of the jobs it is passed on.
LEMMA VerdictIsTrue ==
  ASSUME TypeOK, Jobwise, pc = "publish", NEW failed \in BOOLEAN, NEW warned \in BOOLEAN,
         RunVerdict(failed, warned) \in {"PASS", "WARN"}
  PROVE  /\ \A d \in ready : state[d] = "completed" /\ group[d] = "gone"
         /\ safety \cap ready = {} /\ ~failed /\ unconfirmed = {}
<1>1. /\ ~failed
      /\ \A d \in Jobs : d \in confirmed /\ state[d] \notin {"incomplete", "cancelled"}
      /\ \A d \in Jobs : Successful(d)
      /\ ready \ Executed = {}
  BY DEF RunVerdict, Unsettled
<1>2. unconfirmed = {}
  BY <1>1 DEF TypeOK, Jobwise, Refused, Jobs
<1>3. \A d \in ready : d \in Jobs /\ group[d] # "none"
  BY <1>1 DEF Executed
<1>4. \A d \in ready : group[d] = "gone"
  BY <1>1, <1>3 DEF TypeOK, Jobwise, Settled, Present, Jobs
<1> QED BY <1>1, <1>2, <1>3, <1>4 DEF Successful

LEMMA PublishJobwise == ASSUME TypeOK, Jobwise, Publish PROVE Jobwise'
<1>1. /\ pc = "publish" /\ pc' = "idle"
      /\ UNCHANGED <<ready, safety, fds, unconfirmed, pending, group, state, confirmed>>
  BY DEF Publish, fdVars, planVars, jobVars
<1>2. manifest \notin {"PASS", "WARN"} BY <1>1 DEF Jobwise, Judged
<1>3. VerdictTruthful'
  <2>1. CASE manifest' = manifest BY <1>2, <2>1 DEF VerdictTruthful
  <2>2. ASSUME NEW warned \in BOOLEAN, manifest' = RunVerdict(failure, warned), failure' = failure
        PROVE  VerdictTruthful'
    BY <1>1, <2>2, VerdictIsTrue DEF VerdictTruthful, TypeOK
  <2>3. CASE manifest' = RunVerdict(TRUE, FALSE)
    BY <2>3 DEF RunVerdict, VerdictTruthful
  <2> QED BY <2>1, <2>2, <2>3 DEF Publish
<1> QED BY <1>1, <1>3 DEF Jobwise, Guarded, Descriptors, Fresh, Settled, Refused, Judged, Present

\* A worker only gets nearer to its end.
LEMMA WorkerJobwise ==
  ASSUME TypeOK, Jobwise, NEW d \in Drives, LeaderExits(d) \/ OrphansEnd(d)
  PROVE  Jobwise'
<1>1. /\ Present(d) /\ \E left \in {"orphans", "gone"} : group' = [group EXCEPT ![d] = left]
      /\ UNCHANGED <<pc, ready, safety, failure, fds, unconfirmed, pending, state, confirmed, manifest>>
  BY DEF LeaderExits, OrphansEnd, Present, loopVars, fdVars, planVars, jobVars
<1>2. \A e \in Drives : /\ Present(e)' => Present(e)
                        /\ group'[e] = "none" <=> group[e] = "none"
                        /\ group[e] = "gone" => group'[e] = "gone"
  BY <1>1 DEF TypeOK, Present
<1> QED BY <1>1, <1>2 DEF TypeOK, Jobwise, Guarded, Descriptors, Fresh, Settled, Refused, Judged,
      VerdictTruthful

LEMMA StepJobwise == ASSUME TypeOK, Jobwise, [Next]_vars PROVE Jobwise'
<1>1. CASE UNCHANGED vars
  BY <1>1 DEF vars, loopVars, fdVars, planVars, jobVars, Jobwise, Guarded, Descriptors, Fresh,
    Settled, Refused, Judged, VerdictTruthful, Present
<1> QED BY <1>1, PassJobwise, StartJobwise, SetupJobwise, LaunchJobwise, ExitJobwise,
           GiveUpJobwise, BrokenJobwise, FinallyJobwise, PublishJobwise, WorkerJobwise
        DEF Next, Supervisor, Deadline

-----------------------------------------------------------------------------
(* Emergencies.                                                            *)

\* What raises an emergency stops everything with it, and the head of a pass withdraws
\* the drives that wait before it goes on to the launch.
LEMMA StepStopping == ASSUME TypeOK, Stopping, [Next]_vars PROVE Stopping'
<1> USE DEF Stopping, Goto, Emergency
<1>0. /\ emergency \in BOOLEAN /\ stopAll \in BOOLEAN
      /\ emergency' \in BOOLEAN /\ stopAll' \in BOOLEAN
  BY StepType DEF TypeOK
<1>1. CASE Start \/ Claim \/ Setup \/ LoopEnds \/ Handler \/ Broken \/ Finally \/ Publish \/ Break
  BY <1>0, <1>1 DEF Start, Claim, Setup, LoopEnds, Handler, Broken, Finally, Publish, Break
<1>2. CASE Control
  <2>1. CASE Broadcast(stopAll, emergency) BY <1>0, <2>1 DEF Broadcast
  <2>2. CASE Broadcast(TRUE, emergency) \/ Broadcast(TRUE, TRUE) BY <1>0, <2>2 DEF Broadcast
  <2> QED BY <1>2, <2>1, <2>2 DEF Control
<1>3. CASE ApprovalExpires \/ Signal \/ NothingToLaunch \/ Monitor \/ PassEnds
  BY <1>0, <1>3 DEF ApprovalExpires, Signal, NothingToLaunch, Monitor, PassEnds
<1>4. ASSUME NEW d \in Drives, CancelDrive(d) \/ Launch(d) PROVE Stopping'
  BY <1>0, <1>4 DEF CancelDrive, Launch
<1>5. ASSUME NEW d \in Drives,
             \/ Expire(d) \/ KillGroup(d) \/ StillRunning(d) \/ GiveUp(d)
             \/ LeaderExits(d) \/ OrphansEnd(d)
      PROVE  Stopping'
  BY <1>0, <1>5 DEF Expire, KillGroup, StillRunning, GiveUp, LeaderExits, OrphansEnd, Looking, Looked,
    loopVars
<1>6. ASSUME NEW d \in Drives, Exited(d) \/ Orphaned(d) PROVE Stopping'
  <2>1. \/ UNCHANGED <<stopAll, emergency>>
        \/ stopAll' = TRUE
    BY <1>6 DEF Exited, Orphaned, Finish
  <2>2. pc' # "launch" BY <1>6 DEF Exited, Orphaned, Looked
  <2> QED BY <1>0, <2>1, <2>2
<1>7. CASE UNCHANGED vars
  BY <1>0, <1>7 DEF vars, loopVars
<1> QED BY <1>1, <1>2, <1>3, <1>4, <1>5, <1>6, <1>7 DEF Next, Supervisor, Deadline

\* The invariant of ThermalRunner.run() holds in every state.
THEOREM RunnerInvariant == Spec => []IInv
<1>1. Init => IInv BY InitIInv
<1>2. IInv /\ [Next]_vars => IInv'
  BY StepType, StepJobwise, StepStopping DEF IInv
<1> QED BY <1>1, <1>2, PTL DEF Spec

\* Every variable of the runner keeps its type.
THEOREM TypeCorrect == Spec => []TypeOK
<1>1. IInv => TypeOK BY DEF IInv
<1> QED BY <1>1, RunnerInvariant, PTL

\* No drive is given away while a worker of it, or a descendant of one, is there: the
\* exclusive descriptor is kept by the job or among the unconfirmed ones.
THEOREM DescriptorsOutliveWorkers == Spec => []DescriptorOutlivesWorker
<1>1. IInv => DescriptorOutlivesWorker
  BY DEF IInv, Jobwise, Guarded, Present, DescriptorOutlivesWorker, Held
<1> QED BY <1>1, RunnerInvariant, PTL

\* A manifest that says PASS or WARN is true of every drive of its plan.
THEOREM VerdictsAreTruthful == Spec => []VerdictTruthful
<1>1. IInv => VerdictTruthful BY DEF IInv, Jobwise, Judged
<1> QED BY <1>1, RunnerInvariant, PTL

\* Only a launch starts a worker, and there is none to launch in an emergency.
LEMMA LaunchIsCalm ==
  ASSUME IInv, Next, NEW d \in Drives, group[d] = "none", group'[d] = "alive"
  PROVE  ~emergency
<1>1. group \in [Drives -> {"none", "alive", "orphans", "gone"}] BY DEF IInv, TypeOK
<1>2. CASE Start
  BY <1>2 DEF Start
<1>3. CASE Claim \/ Setup \/ LoopEnds \/ Handler \/ Broken \/ Finally \/ Publish \/ Break
  BY <1>3 DEF Claim, Setup, LoopEnds, Handler, Broken, Finally, Publish, Break
<1>4. CASE Control \/ ApprovalExpires \/ Signal \/ NothingToLaunch \/ Monitor \/ PassEnds
  BY <1>4 DEF Control, ApprovalExpires, Signal, NothingToLaunch, Monitor, PassEnds
<1>5. ASSUME NEW e \in Drives, Launch(e) PROVE ~emergency
  BY <1>5 DEF Launch, First, IInv, Stopping
<1>6. ASSUME NEW e \in Drives,
             \/ CancelDrive(e) \/ Expire(e) \/ KillGroup(e) \/ StillRunning(e) \/ Exited(e)
             \/ Orphaned(e) \/ GiveUp(e)
      PROVE  ~emergency
  BY <1>6 DEF CancelDrive, Expire, KillGroup, StillRunning, Exited, Orphaned, GiveUp
<1>7. ASSUME NEW e \in Drives, LeaderExits(e) \/ OrphansEnd(e) PROVE ~emergency
  BY <1>1, <1>7 DEF LeaderExits, OrphansEnd
<1> QED BY <1>2, <1>3, <1>4, <1>5, <1>6, <1>7 DEF Next, Supervisor, Deadline

\* Once a group emergency was raised, in whichever part of a pass, no further worker
\* starts.
THEOREM EmergencyStopsLaunches == Spec => NoLaunchInEmergency
<1>1. IInv /\ [Next]_vars
        => [\A d \in Drives : group[d] = "none" /\ group'[d] = "alive" => ~emergency]_vars
  BY LaunchIsCalm
<1> QED BY <1>1, RunnerInvariant, PTL DEF Spec, NoLaunchInEmergency
=============================================================================
