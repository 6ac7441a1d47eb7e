---------------------------- MODULE ThermalRunner ----------------------------
(***************************************************************************)
(* ThermalRunner.run(): read-only workers, one process group per drive,    *)
(* under one supervising loop.  Every pass of the loop reads the operator's *)
(* commands, starts at most one worker, looks at the monitors and then at  *)
(* each worker.  A drive is opened exclusively before any worker starts,   *)
(* and its descriptor is closed only when the worker's group is known to   *)
(* be gone; a runner that could not confirm that refuses every later run.  *)
(*                                                                         *)
(* Workers end by themselves, may leave descendants behind and need not    *)
(* react to signals.  Clock readings are left out: a deadline may pass at  *)
(* any pass, and fairness makes it pass.                                   *)
(***************************************************************************)
EXTENDS Integers

CONSTANTS Drives,        \* in the order of the plan
          MaxRuns,       \* bound: runs of one runner
          MaxMishaps     \* bound: failing calls, safety events, commands

ASSUME ThermalAssumption == Drives \subseteq Nat /\ MaxRuns \in Nat \ {0} /\ MaxMishaps \in Nat

VARIABLES
  pc,           \* where run() is
  ready,        \* drives of this run's plan
  claims,       \* drives opened and not yet handed to a job
  fds,          \* jobs holding the descriptor of their drive
  unconfirmed,  \* self.unconfirmed
  pending,      \* drives whose worker has still to start
  done,         \* jobs the loop has finished with
  group,        \* the worker's process group: its leader alive, only others
                \* ("orphans"), or gone
  state,        \* the result's state, "none" where there is no job
  stopped,      \* whether and why the job was asked to stop
  safety, killed, expired, confirmed,   \* flags of the result
  finished,     \* jobs whose evidence was read
  todo,         \* jobs this pass has still to look at
  stopAll, emergency, failure,
  manifest,     \* verdict in the manifest on disk
  runs, mishaps

loopVars == <<pc, todo, stopAll, emergency, failure>>
fdVars == <<claims, fds, unconfirmed>>
planVars == <<ready, runs>>
jobVars == <<state, stopped, safety, killed, expired, confirmed, finished>>
vars == <<loopVars, fdVars, planVars, pending, done, group, jobVars, manifest, mishaps>>

First(d, S) == d \in S /\ \A e \in S : d <= e

Jobs == {d \in Drives : state[d] # "none"}
Active == Jobs \ done

Loop == {"control", "launch", "monitor", "reap"}
States == {"none", "running", "completed", "failed", "incomplete", "cancelled"}

TypeOK ==
  /\ pc \in Loop \cup {"idle", "claim", "setup", "handler", "broken", "finally", "publish"}
  /\ ready \subseteq Drives
  /\ claims \subseteq Drives /\ fds \subseteq Drives /\ unconfirmed \subseteq Drives
  /\ pending \subseteq Drives /\ done \subseteq Drives /\ todo \subseteq Drives
  /\ group \in [Drives -> {"none", "alive", "orphans", "gone"}]
  /\ state \in [Drives -> States] /\ stopped \in [Drives -> {"no", "cancel", "other"}]
  /\ safety \subseteq Drives /\ killed \subseteq Drives /\ expired \subseteq Drives
  /\ confirmed \subseteq Drives /\ finished \subseteq Drives
  /\ stopAll \in BOOLEAN /\ emergency \in BOOLEAN /\ failure \in BOOLEAN
  /\ manifest \in {"none", "running", "PASS", "WARN", "FAIL", "INCOMPLETE"}
  /\ runs \in 0..MaxRuns /\ mishaps \in 0..MaxMishaps

Init ==
  /\ pc = "idle" /\ ready = {}
  /\ claims = {} /\ fds = {} /\ unconfirmed = {}
  /\ pending = {} /\ done = {} /\ todo = {}
  /\ group = [d \in Drives |-> "none"]
  /\ state = [d \in Drives |-> "none"] /\ stopped = [d \in Drives |-> "no"]
  /\ safety = {} /\ killed = {} /\ expired = {} /\ confirmed = {} /\ finished = {}
  /\ stopAll = FALSE /\ emergency = FALSE /\ failure = FALSE
  /\ manifest = "none" /\ runs = 0 /\ mishaps = 0

-----------------------------------------------------------------------------
NoMishap == UNCHANGED mishaps
Mishap == mishaps < MaxMishaps /\ mishaps' = mishaps + 1
Goto(next) == pc' = next /\ UNCHANGED <<stopAll, emergency, failure>>
NoStop == UNCHANGED <<stopped, safety>>

\* stop(): the first reason stays, for each of the jobs S.
Stop(S, why, unsafe) ==
  LET now == {d \in S : stopped[d] = "no"}
  IN /\ stopped' = [d \in Drives |-> IF d \in now THEN why ELSE stopped[d]]
     /\ safety' = IF unsafe THEN safety \cup now ELSE safety \ now

\* What is raised as a group emergency stops all jobs at the next pass.
Emergency == emergency' = TRUE /\ stopAll' = TRUE /\ UNCHANGED failure

Start ==
  /\ pc = "idle" /\ unconfirmed = {} /\ runs < MaxRuns
  /\ ready' \in (SUBSET Drives) \ {{}} /\ runs' = runs + 1
  /\ pc' = "claim" /\ todo' = {} /\ stopAll' = FALSE /\ emergency' = FALSE /\ failure' = FALSE
  /\ group' = [d \in Drives |-> IF group[d] = "gone" THEN "none" ELSE group[d]]
  /\ state' = [d \in Drives |-> "none"] /\ stopped' = [d \in Drives |-> "no"]
  /\ safety' = {} /\ killed' = {} /\ expired' = {} /\ confirmed' = {} /\ finished' = {}
  /\ done' = {} /\ pending' = {} /\ manifest' = "none"
  /\ UNCHANGED fdVars /\ NoMishap

\* Every drive is opened before anything is written; one that cannot be opened
\* gives back the others.
Claim ==
  /\ pc = "claim" /\ UNCHANGED <<fds, unconfirmed, planVars, pending, done, group, jobVars, todo, manifest>>
  /\ \/ Goto("setup") /\ claims' = ready /\ NoMishap
     \/ Goto("idle") /\ UNCHANGED claims /\ Mishap

Setup ==
  /\ pc = "setup" /\ UNCHANGED <<fds, unconfirmed, planVars, done, group, jobVars, todo>>
  /\ \/ /\ Goto("control") /\ manifest' = "running" /\ pending' = ready
        /\ UNCHANGED claims /\ NoMishap
     \/ /\ Goto("idle") /\ manifest' \in {"none", "running"} /\ claims' = {}
        /\ UNCHANGED pending /\ Mishap

-----------------------------------------------------------------------------
(* The loop.                                                               *)
LoopEnds ==
  /\ pc = "control" /\ pending = {} /\ Active = {} /\ Goto("finally")
  /\ UNCHANGED <<todo, fdVars, planVars, pending, done, group, jobVars, manifest>> /\ NoMishap

\* mutant: stopping everything does not withdraw the workers still to start.
BroadcastToWorkers(all, urgent) ==
  /\ pc' = "launch" /\ stopAll' = all /\ emergency' = urgent /\ UNCHANGED <<failure, pending>>
  /\ IF all THEN Stop(Active, "cancel", urgent) ELSE NoStop

\* What the head of the pass does once it knows whether to stop everything.
Broadcast(all, urgent) ==
  /\ pc' = "launch" /\ stopAll' = all /\ emergency' = urgent /\ UNCHANGED failure
  /\ pending' = IF all THEN {} ELSE pending
  /\ IF all THEN Stop(Active, "cancel", urgent) ELSE NoStop

Control ==
  /\ pc = "control" /\ (pending # {} \/ Active # {})
  /\ \/ Broadcast(stopAll, emergency) /\ NoMishap
     \/ Broadcast(TRUE, emergency) /\ Mishap            \* "all"
     \/ Broadcast(TRUE, TRUE) /\ Mishap                 \* "emergency"
  /\ UNCHANGED <<todo, fdVars, planVars, done, group, state, killed, expired, confirmed,
                 finished, manifest>>

\* The operator stops one drive, finished or not.
CancelDrive(d) ==
  /\ pc = "control" /\ (pending # {} \/ Active # {}) /\ ~stopAll
  /\ d \in Jobs /\ group[d] # "none" /\ Mishap
  /\ Goto("launch") /\ Stop({d}, "cancel", FALSE)
  /\ UNCHANGED <<todo, fdVars, planVars, pending, done, group, state, killed, expired, confirmed,
                 finished, manifest>>

\* The approval of unmonitored activity expires.
ApprovalExpires ==
  /\ pc = "control" /\ (pending # {} \/ Active # {}) /\ Mishap
  /\ pc' = "launch" /\ Emergency /\ pending' = {} /\ Stop(Active, "other", TRUE)
  /\ UNCHANGED <<todo, fdVars, planVars, done, group, state, killed, expired, confirmed,
                 finished, manifest>>

\* SIGINT, SIGTERM or SIGHUP, at any point of the loop.
Signal ==
  /\ pc \in Loop /\ ~stopAll /\ stopAll' = TRUE /\ Mishap
  /\ UNCHANGED <<pc, todo, emergency, failure, fdVars, planVars, pending, done, group, jobVars, manifest>>

NothingToLaunch ==
  /\ pc = "launch" /\ pending = {} /\ Goto("monitor")
  /\ UNCHANGED <<todo, fdVars, planVars, pending, done, group, jobVars, manifest>> /\ NoMishap

Launch(d) ==
  /\ pc = "launch" /\ First(d, pending) /\ pc' = "monitor" /\ pending' = pending \ {d}
  /\ \/ \* started
        /\ group' = [group EXCEPT ![d] = "alive"] /\ state' = [state EXCEPT ![d] = "running"]
        /\ claims' = claims \ {d} /\ fds' = fds \cup {d}
        /\ UNCHANGED <<stopAll, emergency, failure, done, confirmed>> /\ NoStop /\ NoMishap
     \/ \* started, and the first observation of it fails
        /\ group' = [group EXCEPT ![d] = "alive"] /\ state' = [state EXCEPT ![d] = "running"]
        /\ claims' = claims \ {d} /\ fds' = fds \cup {d}
        /\ Stop({d}, "other", TRUE) /\ Emergency /\ UNCHANGED <<done, confirmed>> /\ Mishap
     \/ \* not started: the temperature, the drive or the executables refuse
        /\ state' = [state EXCEPT ![d] = "failed"] /\ done' = done \cup {d}
        /\ confirmed' = confirmed \cup {d}
        /\ claims' \in {claims, claims \ {d}}
        /\ Emergency /\ UNCHANGED <<group, fds>> /\ NoStop /\ Mishap
  /\ UNCHANGED <<unconfirmed, planVars, todo, killed, expired, finished, manifest>>

\* Nothing, too little memory, a job that is stopped alone (lost monitoring,
\* missing activity evidence, log bound), or one whose limit, identity or
\* writes make it a group emergency.
Monitor ==
  /\ pc = "monitor" /\ pc' = "reap" /\ todo' = Active
  /\ \/ UNCHANGED <<stopAll, emergency, failure>> /\ NoStop /\ NoMishap
     \/ Emergency /\ NoStop /\ Mishap
     \/ \E d \in Active : /\ Stop({d}, "other", TRUE) /\ Mishap
                          /\ Emergency \/ UNCHANGED <<stopAll, emergency, failure>>
  /\ UNCHANGED <<fdVars, planVars, pending, done, group, state, killed, expired, confirmed,
                 finished, manifest>>

-----------------------------------------------------------------------------
(* Each job in turn: deadline, escalation, exit.                           *)
Looking(d) == pc = "reap" /\ First(d, todo)
Looked(d) == todo' = todo \ {d} /\ pc' = IF todo = {d} THEN "control" ELSE "reap"

Expire(d) ==
  /\ Looking(d) /\ group[d] = "alive" /\ d \notin expired
  /\ expired' = expired \cup {d} /\ Stop({d}, "other", FALSE)
  /\ UNCHANGED <<loopVars, fdVars, planVars, pending, done, group, state, killed, confirmed,
                 finished, manifest>> /\ NoMishap

KillGroup(d) ==
  /\ Looking(d) /\ stopped[d] # "no" /\ group[d] # "gone" /\ d \notin killed
  /\ killed' = killed \cup {d}
  /\ UNCHANGED <<loopVars, fdVars, planVars, pending, done, group, state, stopped, safety,
                 expired, confirmed, finished, manifest>> /\ NoMishap

StillRunning(d) ==
  /\ Looking(d) /\ group[d] = "alive" /\ Looked(d)
  /\ UNCHANGED <<stopAll, emergency, failure, fdVars, planVars, pending, done, group, jobVars,
                 manifest>> /\ NoMishap

\* _finish(): sound says whether the worker's evidence is in order, unsafe
\* whether the last temperature reading calls for a safety stop.
Verdict(d, sound, unsafe) ==
  IF unsafe \/ d \in safety THEN "failed"
  ELSE IF d \in expired \cup killed THEN "incomplete"
  ELSE IF stopped[d] = "cancel" THEN "cancelled"
  ELSE IF ~sound THEN "failed"
  ELSE IF stopped[d] # "no" THEN "incomplete" ELSE "completed"

\* The leader has exited; its evidence is read once.
Finish(d, sound, unsafe) ==
  IF d \in finished
  THEN UNCHANGED <<state, finished, stopAll, emergency, failure>>
  ELSE /\ finished' = finished \cup {d}
       /\ state' = [state EXCEPT ![d] = Verdict(d, sound, unsafe)]
       /\ IF Verdict(d, sound, unsafe) = "failed" THEN Emergency
          ELSE UNCHANGED <<stopAll, emergency, failure>>

Exited(d) ==
  /\ Looking(d) /\ group[d] = "gone" /\ Looked(d)
  /\ \E sound, unsafe \in BOOLEAN :
       /\ Finish(d, sound, unsafe)
       /\ safety' = IF unsafe /\ d \notin finished THEN safety \cup {d} ELSE safety
  /\ fds' = fds \ {d} /\ confirmed' = confirmed \cup {d} /\ done' = done \cup {d}
  /\ UNCHANGED <<claims, unconfirmed, planVars, pending, group, stopped, killed, expired, manifest>>
  /\ NoMishap

\* Its group is not gone: what is left is stopped.
Orphaned(d) ==
  /\ Looking(d) /\ group[d] = "orphans" /\ Looked(d)
  /\ \E sound, unsafe \in BOOLEAN :
       /\ Finish(d, sound, unsafe)
       /\ LET marked == IF unsafe /\ d \notin finished THEN safety \cup {d} ELSE safety
          IN IF stopped[d] = "no"
             THEN stopped' = [stopped EXCEPT ![d] = "other"] /\ safety' = marked \ {d}
             ELSE safety' = marked /\ UNCHANGED stopped
  /\ UNCHANGED <<fdVars, planVars, pending, done, group, killed, expired, confirmed, manifest>> /\ NoMishap

\* mutant: descendants are waited for until they end.
GiveUpLeader(d) ==
  /\ Looking(d) /\ d \in killed /\ Looked(d) /\ done' = done \cup {d}
  /\ group[d] = "alive" /\ state' = [state EXCEPT ![d] = "incomplete"]
  /\ UNCHANGED <<stopAll, emergency, failure, fdVars, planVars, pending, group, stopped, safety,
                 killed, expired, confirmed, finished, manifest>> /\ NoMishap

\* The leader is still there two seconds after SIGKILL, or its descendants
\* four seconds after they were asked to stop.
GiveUp(d) ==
  /\ Looking(d) /\ d \in killed /\ Looked(d) /\ done' = done \cup {d}
  /\ \/ group[d] = "alive" /\ state' = [state EXCEPT ![d] = "incomplete"]
     \/ group[d] = "orphans" /\ d \in finished /\ UNCHANGED state
  /\ UNCHANGED <<stopAll, emergency, failure, fdVars, planVars, pending, group, stopped, safety,
                 killed, expired, confirmed, finished, manifest>> /\ NoMishap

PassEnds ==
  /\ pc = "reap" /\ todo = {} /\ Goto("control")
  /\ UNCHANGED <<todo, fdVars, planVars, pending, done, group, jobVars, manifest>> /\ NoMishap

-----------------------------------------------------------------------------
(* A supervisor failure anywhere in the loop, and the clean-up.            *)
Break ==
  /\ pc \in Loop /\ Mishap /\ pc' = "handler" /\ failure' = TRUE
  /\ UNCHANGED <<todo, stopAll, emergency, fdVars, planVars, pending, done, group, jobVars, manifest>>

Handler ==
  /\ pc = "handler" /\ Goto("broken") /\ Stop(Active, "other", TRUE)
  /\ UNCHANGED <<todo, fdVars, planVars, pending, done, group, state, killed, expired, confirmed,
                 finished, manifest>> /\ NoMishap

\* After two seconds, and two more for those killed.
Broken ==
  /\ pc = "broken" /\ Goto("finally")
  /\ killed' = killed \cup {d \in Active : group[d] = "alive"}
  /\ state' = [d \in Drives |-> IF d \in Active THEN "incomplete" ELSE state[d]]
  /\ UNCHANGED <<todo, fdVars, planVars, pending, done, group, stopped, safety, expired, confirmed,
                 finished, manifest>> /\ NoMishap

ClosableByLeader == {d \in fds : group[d] # "alive"}   \* mutant: only the leader is waited for

\* The descriptors that may be closed; the others are kept for good.
Closable == {d \in fds : group[d] = "gone"}

Finally ==
  /\ pc = "finally" /\ Goto("publish") /\ claims' = {} /\ fds' = {}
  /\ confirmed' = confirmed \cup Closable
  /\ unconfirmed' = unconfirmed \cup (fds \ Closable)
  /\ state' = [d \in Drives |-> IF d \in fds \ Closable THEN "incomplete" ELSE state[d]]
  /\ UNCHANGED <<todo, planVars, pending, done, group, stopped, safety, killed, expired, finished,
                 manifest>> /\ NoMishap

\* result_successful(), of what the model keeps of the result.
Successful(d) == state[d] = "completed" /\ d \notin safety \cup killed \cup expired

Executed == {d \in Jobs : group[d] # "none"}
Unsettled == {d \in Jobs : d \notin confirmed \/ state[d] \in {"incomplete", "cancelled"}}

\* mutant: only the workers that started count.
RunVerdictOfExecuted(failed, warned) ==
  IF failed \/ Unsettled # {} THEN "INCOMPLETE"
  ELSE IF \E d \in Jobs : ~Successful(d) THEN "FAIL"
  ELSE IF warned THEN "WARN" ELSE "PASS"

\* The verdict over all jobs; warned: a temperature warning, no monitoring, or
\* selected drives left out of the plan.
RunVerdict(failed, warned) ==
  IF failed \/ Unsettled # {} THEN "INCOMPLETE"
  ELSE IF \E d \in Jobs : ~Successful(d) THEN "FAIL"
  ELSE IF ready \ Executed # {} THEN "INCOMPLETE"
  ELSE IF warned THEN "WARN" ELSE "PASS"

\* The results, then the manifest, last; the source may have changed, a result
\* may not be written, the manifest may not.
Publish ==
  /\ pc = "publish" /\ pc' = "idle" /\ UNCHANGED <<stopAll, emergency>>
  /\ \/ \E warned \in BOOLEAN : manifest' = RunVerdict(failure, warned)
        /\ UNCHANGED failure /\ NoMishap
     \/ manifest' = RunVerdict(TRUE, FALSE) /\ failure' = TRUE /\ Mishap
     \/ UNCHANGED <<manifest, failure>> /\ Mishap
  /\ UNCHANGED <<todo, fdVars, planVars, pending, done, group, jobVars>>

-----------------------------------------------------------------------------
\* The workers: a leader exits, with or without leaving others behind.
LeaderExits(d) ==
  /\ group[d] = "alive" /\ \E left \in {"orphans", "gone"} : group' = [group EXCEPT ![d] = left]
  /\ UNCHANGED <<loopVars, fdVars, planVars, pending, done, jobVars, manifest>> /\ NoMishap

OrphansEnd(d) ==
  /\ group[d] = "orphans" /\ group' = [group EXCEPT ![d] = "gone"]
  /\ UNCHANGED <<loopVars, fdVars, planVars, pending, done, jobVars, manifest>> /\ NoMishap

Supervisor ==
  \/ Claim \/ Setup \/ LoopEnds \/ Control \/ NothingToLaunch \/ Monitor \/ PassEnds
  \/ Handler \/ Broken \/ Finally \/ Publish
  \/ \E d \in Drives : Launch(d) \/ StillRunning(d) \/ Exited(d) \/ Orphaned(d)

Deadline(d) == Expire(d) \/ KillGroup(d) \/ GiveUp(d)

Next ==
  \/ Start \/ Supervisor \/ ApprovalExpires \/ Signal \/ Break
  \/ \E d \in Drives : CancelDrive(d) \/ Deadline(d) \/ LeaderExits(d) \/ OrphansEnd(d)

\* The loop keeps running, and as long as it finds a deadline that may pass one
\* does: each pass compares them with the clock, and a job meets each once.
\* Workers are under no fairness.
Spec == Init /\ [][Next]_vars /\ WF_vars(Supervisor) /\ SF_vars(\E d \in Drives : Deadline(d))

-----------------------------------------------------------------------------
(* As long as anything of a worker's group is there, the exclusive         *)
(* descriptor of its drive is kept, by the job or among the unconfirmed    *)
(* ones: no run ends, however it ends, and gives a drive away that is      *)
(* still being read.                                                       *)
Held == claims \cup fds \cup unconfirmed
DescriptorOutlivesWorker == \A d \in Drives : group[d] \in {"alive", "orphans"} => d \in Held

(* A manifest that says PASS or WARN: every drive of the plan was read to  *)
(* the end by a worker of which nothing is left, none was stopped for      *)
(* safety, and the supervisor did not fail.                                *)
VerdictTruthful ==
  manifest \in {"PASS", "WARN"} =>
    /\ \A d \in ready : state[d] = "completed" /\ group[d] = "gone"
    /\ safety \cap ready = {} /\ ~failure /\ unconfirmed = {}

(* Once a group emergency was raised, in whichever part of a pass, no      *)
(* further worker starts.                                                  *)
NoLaunchInEmergency ==
  [][\A d \in Drives : group[d] = "none" /\ group'[d] = "alive" => ~emergency]_vars

(* Every run ends, whatever its workers do: the loop does not wait for a   *)
(* process that cannot be killed.                                          *)
RunEnds == pc # "idle" ~> pc = "idle"
=============================================================================
