---------------------------- MODULE StageSession -----------------------------
(***************************************************************************)
(* Storage thermal stages of one LVS installation: the primary process     *)
(* runs stage sessions one after another; each session has a storage       *)
(* supervisor process, and the supervisor launches one native worker per   *)
(* device through the session's admission gate.                            *)
(*                                                                         *)
(* The gate is used here as StageGate specifies it (AdmissionGate shows    *)
(* that the native protocol implements StageGate).  What this module adds  *)
(* is everything around it: permission, launch ownership, exclusive device *)
(* claims, completion evidence, forced shutdown, the recovery latch and    *)
(* marker, and crashes and restarts of the primary process.                *)
(***************************************************************************)
EXTENDS Naturals, FiniteSets

CONSTANTS Devices,      \* devices every session's plan selects
          MaxSession,   \* bound: sessions 1..MaxSession
          MaxCrash      \* bound: crashes of the primary process

ASSUME SessionAssumption == MaxSession \in Nat \ {0} /\ MaxCrash \in Nat

Sessions == 1..MaxSession

VARIABLES
  primary,     \* the LVS process: "up" or "down"
  crashes,     \* how often it went down
  latch,       \* _UNCONFIRMED holds the marker path (memory of this process)
  marker,      \* the recovery marker exists on disk
  phase,       \* where the primary is in each session
  born,        \* crashes when the session started: which process ran it
  admitted,    \* self.admitted: run permission may have been given
  talk,        \* the control channel: "silent", "ready", "queued", "sent"
  latched,     \* sessions that latched recovery
  report,      \* io_admission_state of the finished session
  sup,         \* where each supervisor is
  row,         \* each launch row's phase
  clean,       \* the supervisor's own view: everything it launched is gone
  claims,      \* O_EXCL device descriptors held by each supervisor
  completion,  \* completion.json: kind, cleanup_confirmed and admission state
  gate,        \* each session's admission gate
  worker,      \* each native worker, as the kernel knows it
  committed,   \* history: devices whose worker was admitted
  left         \* stage time left: "ample", "short" (under a second), "none"

processVars == <<primary, crashes, latch, marker>>
sessionVars == <<phase, born, admitted, talk, latched, report>>
supVars == <<sup, row, clean, claims, completion>>
nativeVars == <<gate, worker, committed>>
vars == <<processVars, sessionVars, supVars, nativeVars, left>>

Phases == {"unstarted", "refused", "live", "stopping", "ended", "finished", "abandoned"}
SupStates == {"none", "init", "ready", "claiming", "active", "draining", "finishing",
              "closing", "doomed", "gone"}
RowPhases == {"none", "pending", "created", "told", "owned", "offering", "committed", "running"}
AdmissionStates == {"committed", "unconfirmed", "not_admitted"}
Completions == [kind : {"none", "not_run", "error", "manifest"}, clean : BOOLEAN,
                state : AdmissionStates]
NoCompletion == [kind |-> "none", clean |-> FALSE, state |-> "not_admitted"]
NotRun == [kind |-> "not_run", clean |-> TRUE, state |-> "not_admitted"]
\* error_result() without the ownership rows: no device executed, none offered.
ErrorResult == [kind |-> "error", clean |-> FALSE, state |-> "not_admitted"]

TypeOK ==
  /\ primary \in {"up", "down"} /\ crashes \in 0..MaxCrash
  /\ latch \in BOOLEAN /\ marker \in BOOLEAN
  /\ phase \in [Sessions -> Phases]
  /\ born \in [Sessions -> 0..MaxCrash]
  /\ admitted \in [Sessions -> BOOLEAN]
  /\ talk \in [Sessions -> {"silent", "ready", "queued", "sent"}]
  /\ latched \subseteq Sessions
  /\ report \in [Sessions -> AdmissionStates \cup {"none"}]
  /\ sup \in [Sessions -> SupStates]
  /\ row \in [Sessions -> [Devices -> RowPhases]]
  /\ clean \in [Sessions -> BOOLEAN]
  /\ claims \in [Sessions -> SUBSET Devices]
  /\ completion \in [Sessions -> Completions]
  /\ gate \in [Sessions -> {"open", "requested", "closed"}]
  /\ worker \in [Sessions -> [Devices -> {"none", "boot", "owned", "inside", "admitted", "dead"}]]
  /\ committed \in [Sessions -> SUBSET Devices]
  /\ left \in [Sessions -> {"ample", "short", "none"}]

Init ==
  /\ primary = "up" /\ crashes = 0
  /\ latch = FALSE /\ marker = FALSE
  /\ phase = [s \in Sessions |-> "unstarted"]
  /\ born = [s \in Sessions |-> 0]
  /\ admitted = [s \in Sessions |-> FALSE]
  /\ talk = [s \in Sessions |-> "silent"]
  /\ latched = {}
  /\ report = [s \in Sessions |-> "none"]
  /\ sup = [s \in Sessions |-> "none"]
  /\ row = [s \in Sessions |-> [d \in Devices |-> "none"]]
  /\ clean = [s \in Sessions |-> FALSE]
  /\ claims = [s \in Sessions |-> {}]
  /\ completion = [s \in Sessions |-> NoCompletion]
  /\ gate = [s \in Sessions |-> "open"]
  /\ worker = [s \in Sessions |-> [d \in Devices |-> "none"]]
  /\ committed = [s \in Sessions |-> {}]
  /\ left = [s \in Sessions |-> "ample"]

-----------------------------------------------------------------------------
(* What the processes can observe.                                         *)

Alive(s) == {d \in Devices : worker[s][d] \notin {"none", "dead"}}
Inside(s) == {d \in Devices : worker[s][d] = "inside"}

\* The supervisor process exists (a doomed one was sent SIGKILL and runs no code).
SupExists(s) == sup[s] \notin {"none", "gone"}
SupRuns(s) == SupExists(s) /\ sup[s] # "doomed"

\* Mutant: closure does not wait for the lock.
RevokedAtOnce(s) == "closed"

\* revoke(): closed unless a guard holds the lock, and True exactly then.
Revoked(s) == IF Inside(s) = {} THEN "closed" ELSE "requested"

\* StageLease.check(): parent there, not cancelled (the channel is closed when the
\* session leaves "live"), gate open, time left.
LeaseOk(s, times) == phase[s] = "live" /\ gate[s] = "open" /\ left[s] \in times
AnyTime == {"ample", "short"}

\* An exclusively opened device is held by every process with a reference to the
\* descriptor: the supervisor, a worker that received it, or the queued packet.
Holds(s, d) ==
  \/ d \in claims[s]
  \/ worker[s][d] \in {"inside", "admitted"}
  \/ worker[s][d] = "owned" /\ row[s][d] = "offering"

\* A launch() call is in progress for these rows.
Launching(s) == {d \in Devices : row[s][d] \notin {"none", "running"}}

\* finish() observes a row: no process, a live one, or a gone group.
RowGone(s, d) == row[s][d] # "pending" /\ d \notin Alive(s)

\* Mutant: an offered descriptor without acknowledgement counts as no admission.
OwnershipAcknowledged(s) ==
  IF \E d \in Devices : row[s][d] \in {"committed", "running"} THEN "committed"
  ELSE "not_admitted"

\* io_admission_state as the ownership rows show it.
OwnershipState(s) ==
  IF \E d \in Devices : row[s][d] \in {"committed", "running"} THEN "committed"
  ELSE IF \E d \in Devices : row[s][d] = "offering" THEN "unconfirmed"
  ELSE "not_admitted"

\* Mutant: only the marker is written.
MarkOnly(s) ==
  /\ marker' \in {marker, TRUE}
  /\ latched' = latched \cup {s}
  /\ UNCHANGED latch

\* _latch_cleanup(): the memory latch always, the marker unless its write fails.
LatchCleanup(s) ==
  /\ latch' = TRUE
  /\ marker' \in {marker, TRUE}
  /\ latched' = latched \cup {s}

-----------------------------------------------------------------------------
(* The primary process: ThermalStageSession.                               *)

\* execute_stage_runtime builds the next session when the previous one is over.
NextSession(s) ==
  /\ primary = "up"
  /\ phase[s] = "unstarted"
  /\ \A t \in 1..(s - 1) : phase[t] \in {"refused", "finished", "abandoned"}

\* start() returns without a child: deadline, readiness, consent or recovery_blocker().
Refuse(s) ==
  /\ NextSession(s)
  /\ phase' = [phase EXCEPT ![s] = "refused"]
  /\ report' = [report EXCEPT ![s] = "not_admitted"]
  /\ UNCHANGED <<processVars, born, admitted, talk, latched, supVars, nativeVars, left>>

\* start() creates the gate and the supervisor; when Popen raises there is none.
Start(s) ==
  /\ NextSession(s)
  /\ ~latch /\ ~marker
  /\ phase' = [phase EXCEPT ![s] = "live"]
  /\ born' = [born EXCEPT ![s] = crashes]
  /\ sup' \in {sup, [sup EXCEPT ![s] = "init"]}
  /\ UNCHANGED <<processVars, admitted, talk, latched, report, row, clean, claims,
                 completion, nativeVars, left>>

\* _channel_poll() reads "ready" in time: ownership is marked before permission.
SeeReady(s) ==
  /\ phase[s] = "live" /\ talk[s] = "ready" /\ left[s] = "ample"
  /\ admitted' = [admitted EXCEPT ![s] = TRUE]
  /\ talk' = [talk EXCEPT ![s] = "queued"]
  /\ UNCHANGED <<processVars, phase, born, latched, report, supVars, nativeVars, left>>

\* The nonblocking pipe accepts the queued permission.
SendPermission(s) ==
  /\ phase[s] = "live" /\ talk[s] = "queued" /\ left[s] # "none"
  /\ talk' = [talk EXCEPT ![s] = "sent"]
  /\ UNCHANGED <<processVars, phase, born, admitted, latched, report, supVars,
                 nativeVars, left>>

\* end_stage(), from the deadline, a late ready, a fault, an operator stop or
\* finish(): revoke, close the channel, SIGTERM.
EndStage(s) ==
  /\ phase[s] = "live"
  /\ phase' = [phase EXCEPT ![s] = "stopping"]
  /\ gate' = [gate EXCEPT ![s] = Revoked(s)]
  /\ UNCHANGED <<processVars, born, admitted, talk, latched, report, supVars,
                 worker, committed, left>>

\* finish(): the supervisor is gone within its six seconds (or one).
Reap(s) ==
  /\ phase[s] = "stopping" /\ ~SupExists(s)
  /\ phase' = [phase EXCEPT ![s] = "ended"]
  /\ UNCHANGED <<processVars, born, admitted, talk, latched, report, supVars,
                 nativeVars, left>>

\* Mutant: only a session that gave permission is killed.
ForceKillAdmitted(s) ==
  /\ phase[s] = "stopping" /\ SupRuns(s) /\ admitted[s]
  /\ sup' = [sup EXCEPT ![s] = "doomed"]
  /\ LatchCleanup(s)
  /\ UNCHANGED <<primary, crashes, phase, born, admitted, talk, report, row, clean, claims,
                 completion, nativeVars, left>>

\* finish(): it is not, so its group is killed; after permission that latches first.
ForceKill(s) ==
  /\ phase[s] = "stopping" /\ SupRuns(s)
  /\ sup' = [sup EXCEPT ![s] = "doomed"]
  /\ IF admitted[s]
     THEN LatchCleanup(s)
     ELSE UNCHANGED <<latch, marker, latched>>
  /\ UNCHANGED <<primary, crashes, phase, born, admitted, talk, report, row, clean, claims,
                 completion, nativeVars, left>>

\* finish(): even the killed supervisor cannot be waited for.
KillUnconfirmed(s) ==
  /\ phase[s] = "stopping" /\ sup[s] = "doomed"
  /\ phase' = [phase EXCEPT ![s] = "finished"]
  /\ LatchCleanup(s)
  /\ gate' = [gate EXCEPT ![s] = Revoked(s)]
  /\ report' = [report EXCEPT ![s] = IF admitted[s] THEN "unconfirmed" ELSE "not_admitted"]
  /\ UNCHANGED <<primary, crashes, born, admitted, talk, supVars, worker, committed,
                 left>>

\* finish() after the supervisor is reaped: read the completion (readable or not),
\* decide whether cleanup is confirmed (the initializer's group may not be gone),
\* revoke once more and publish the admission state.
Finish(s) ==
  /\ phase[s] = "ended"
  /\ phase' = [phase EXCEPT ![s] = "finished"]
  /\ gate' = [gate EXCEPT ![s] = Revoked(s)]
  /\ \E readable, groupGone \in BOOLEAN :
       LET terminal == readable /\ completion[s].kind # "none"
           unowned == sup[s] # "none" /\ ~admitted[s] /\ ~groupGone
           missing == sup[s] # "none" /\ admitted[s] /\ ~terminal
           unclean == terminal /\ ~completion[s].clean
       IN /\ IF unowned \/ missing \/ unclean \/ s \in latched \/ gate'[s] # "closed"
             THEN LatchCleanup(s)
             ELSE UNCHANGED <<latch, marker, latched>>
          /\ report' = [report EXCEPT ![s] =
                          IF terminal THEN completion[s].state
                          ELSE IF admitted[s] THEN "unconfirmed" ELSE "not_admitted"]
  /\ UNCHANGED <<primary, crashes, born, admitted, talk, supVars, worker, committed,
                 left>>

\* The LVS process dies: its memory latch is gone, its session is abandoned.
Crash ==
  /\ primary = "up" /\ crashes < MaxCrash
  /\ primary' = "down"
  /\ crashes' = crashes + 1
  /\ latch' = FALSE
  /\ phase' = [s \in Sessions |->
                 IF phase[s] \in {"live", "stopping", "ended"} THEN "abandoned" ELSE phase[s]]
  /\ UNCHANGED <<marker, born, admitted, talk, latched, report, supVars, nativeVars,
                 left>>

Restart ==
  /\ primary = "down"
  /\ primary' = "up"
  /\ UNCHANGED <<crashes, latch, marker, sessionVars, supVars, nativeVars, left>>

-----------------------------------------------------------------------------
(* The supervisor process: channel_worker(), worker(), StageLaunches.      *)

\* The supervisor of s moves on.
SupGoes(s, from, to) ==
  /\ sup[s] = from
  /\ sup' = [sup EXCEPT ![s] = to]

\* worker() finds no marker and the plan unchanged; grant() says ready.
SayReady(s) ==
  /\ SupGoes(s, "init", "ready")
  /\ ~marker /\ LeaseOk(s, {"ample"})
  /\ talk' = [talk EXCEPT ![s] = "ready"]
  /\ UNCHANGED <<processVars, phase, born, admitted, latched, report, row, clean,
                 claims, completion, nativeVars, left>>

TakePermission(s) ==
  /\ SupGoes(s, "ready", "claiming")
  /\ talk[s] = "sent" /\ LeaseOk(s, {"ample"})
  /\ UNCHANGED <<processVars, sessionVars, row, clean, claims, completion, nativeVars, left>>

\* Mutant: the devices are opened without O_EXCL.
ClaimShared(s) ==
  /\ SupGoes(s, "claiming", "active")
  /\ LeaseOk(s, AnyTime)
  /\ claims' = [claims EXCEPT ![s] = Devices]
  /\ UNCHANGED <<processVars, sessionVars, row, clean, completion, nativeVars, left>>

\* ThermalRunner.run(): every exclusive claim before any worker.
ClaimDevices(s) ==
  /\ SupGoes(s, "claiming", "active")
  /\ LeaseOk(s, AnyTime)
  /\ \A d \in Devices, t \in Sessions : ~Holds(t, d)
  /\ claims' = [claims EXCEPT ![s] = Devices]
  /\ UNCHANGED <<processVars, sessionVars, row, clean, completion, nativeVars, left>>

\* Any exception before the first claim: marker, changed readiness, EOF, a failed
\* lease check or claim.  A failed check and worker()'s launches.finish() revoke.
ExitNotRun(s) ==
  /\ sup[s] \in {"init", "ready", "claiming"}
  /\ sup' = [sup EXCEPT ![s] = "gone"]
  /\ \E result \in {completion[s], NotRun, ErrorResult} :
       completion' = [completion EXCEPT ![s] = result]
  /\ gate' = [gate EXCEPT ![s] = IF sup[s] = "claiming" \/ ~LeaseOk(s, {"ample"})
                                 THEN Revoked(s) ELSE gate[s]]
  /\ UNCHANGED <<processVars, sessionVars, row, clean, claims, worker, committed, left>>

\* A step of the launch() call for d.
RowGoes(s, d, from, to) ==
  /\ sup[s] = "active"
  /\ row[s][d] = from
  /\ row' = [row EXCEPT ![s][d] = to]
  /\ UNCHANGED <<processVars, sessionVars, sup, clean, claims, completion, gate, committed, left>>

\* The row is registered and published before Popen; one launch at a time.
Register(s, d) ==
  /\ Launching(s) = {} /\ LeaseOk(s, {"ample"})
  /\ RowGoes(s, d, "none", "pending")
  /\ UNCHANGED worker

Spawn(s, d) ==
  /\ RowGoes(s, d, "pending", "created")
  /\ worker' = [worker EXCEPT ![s][d] = "boot"]

SendOwn(s, d) ==
  /\ LeaseOk(s, {"ample"})
  /\ RowGoes(s, d, "created", "told")
  /\ UNCHANGED worker

ReceiveReady(s, d) ==
  /\ LeaseOk(s, AnyTime) /\ worker[s][d] = "owned"
  /\ RowGoes(s, d, "told", "owned")
  /\ UNCHANGED worker

\* The row says offered before the descriptor is sent.
Offer(s, d) ==
  /\ LeaseOk(s, {"ample"})
  /\ RowGoes(s, d, "owned", "offering")
  /\ UNCHANGED worker

ReceiveAck(s, d) ==
  /\ LeaseOk(s, AnyTime) /\ d \in committed[s]
  /\ RowGoes(s, d, "offering", "committed")
  /\ UNCHANGED worker

\* launch() returns the process to the runner, which now has a job for it.
LaunchReturns(s, d) ==
  /\ LeaseOk(s, AnyTime)
  /\ RowGoes(s, d, "committed", "running")
  /\ UNCHANGED worker

\* Mutant: receive() waits for the bootstrap without checking the lease.
LaunchFailsOnExit(s) ==
  /\ SupGoes(s, "active", "draining")
  /\ Launching(s) # {} /\ Launching(s) \cap Alive(s) = {}
  /\ claims' = [claims EXCEPT ![s] = @ \ Launching(s)]
  /\ gate' = [gate EXCEPT ![s] = Revoked(s)]
  /\ UNCHANGED <<processVars, sessionVars, row, clean, completion, worker, committed, left>>

\* Any exception in launch(): publication, Popen, a bootstrap that exited, a failed
\* lease check.  The gate is revoked, the runner closes its claim and starts no more.
LaunchFails(s) ==
  /\ SupGoes(s, "active", "draining")
  /\ Launching(s) # {}
  /\ claims' = [claims EXCEPT ![s] = @ \ Launching(s)]
  /\ gate' = [gate EXCEPT ![s] = Revoked(s)]
  /\ UNCHANGED <<processVars, sessionVars, row, clean, completion, worker, committed, left>>

\* ThermalRunner.run() is over: its jobs ended, or TERM, KILL and two waits passed.
\* Descriptors of jobs whose group is not gone are retained.
EndRun(s) ==
  /\ \/ SupGoes(s, "active", "finishing") /\ Launching(s) = {}
     \/ SupGoes(s, "draining", "finishing")
  /\ LET unconfirmed == {d \in Alive(s) : row[s][d] = "running"}
     IN /\ clean' = [clean EXCEPT ![s] = unconfirmed = {}]
        /\ claims' = [claims EXCEPT ![s] = @ \cap unconfirmed]
  /\ UNCHANGED <<processVars, sessionVars, row, completion, nativeVars, left>>

\* Mutant: only the runner's jobs are reconciled, not the launches that failed.
ReconcileJobs(s) ==
  /\ SupGoes(s, "finishing", "closing")
  /\ gate' = [gate EXCEPT ![s] = Revoked(s)]
  /\ UNCHANGED <<processVars, sessionVars, row, clean, claims, completion, worker, committed, left>>

\* StageLaunches.finish() in worker()'s finally: every row is reconciled.
Reconcile(s) ==
  /\ SupGoes(s, "finishing", "closing")
  /\ gate' = [gate EXCEPT ![s] = Revoked(s)]
  /\ clean' = [clean EXCEPT ![s] =
                 @ /\ gate'[s] = "closed"
                   /\ \A d \in Devices : row[s][d] # "none" => RowGone(s, d)]
  /\ UNCHANGED <<processVars, sessionVars, row, claims, completion, worker, committed, left>>

\* completion.json is published; when its write fails once, channel_worker()
\* publishes an error result without the ownership rows; or nothing at all.
Publish(s) ==
  /\ SupGoes(s, "closing", "gone")
  /\ LET manifest == [kind |-> "manifest", clean |-> clean[s], state |-> OwnershipState(s)]
     IN \E result \in {completion[s], manifest, ErrorResult} :
          completion' = [completion EXCEPT ![s] = result]
  /\ claims' = [claims EXCEPT ![s] = {}]
  /\ clean' = [clean EXCEPT ![s] = FALSE]
  /\ UNCHANGED <<processVars, sessionVars, row, nativeVars, left>>

\* The supervisor is killed, by finish() or by anybody else.
SupDies(s) ==
  /\ SupExists(s)
  /\ sup' = [sup EXCEPT ![s] = "gone"]
  /\ claims' = [claims EXCEPT ![s] = {}]
  /\ clean' = [clean EXCEPT ![s] = FALSE]
  /\ UNCHANGED <<processVars, sessionVars, row, completion, nativeVars, left>>

-----------------------------------------------------------------------------
(* The native workers, through the gate as StageGate has it.               *)

\* stage_open(): the supervisor is still the parent, the gate open, time left.
StageOpen(s) == SupExists(s) /\ gate[s] = "open" /\ left[s] # "none"

WorkerGoes(s, d, from, to) ==
  /\ worker[s][d] = from
  /\ worker' = [worker EXCEPT ![s][d] = to]
  /\ UNCHANGED <<processVars, sessionVars, supVars, gate, left>>

BecomeOwner(s, d) ==
  /\ row[s][d] = "told" /\ StageOpen(s)
  /\ WorkerGoes(s, d, "boot", "owned")
  /\ UNCHANGED committed

Enter(s, d) ==
  /\ row[s][d] = "offering" /\ StageOpen(s) /\ Inside(s) = {}
  /\ WorkerGoes(s, d, "owned", "inside")
  /\ UNCHANGED committed

Commit(s, d) ==
  /\ SupExists(s) /\ left[s] # "none"
  /\ WorkerGoes(s, d, "inside", "admitted")
  /\ committed' = [committed EXCEPT ![s] = @ \cup {d}]

\* A worker ends: its work is done, it was refused, signalled or orphaned.
WorkerExits(s, d) ==
  /\ d \in Alive(s)
  /\ worker' = [worker EXCEPT ![s][d] = "dead"]
  /\ UNCHANGED <<processVars, sessionVars, supVars, gate, committed, left>>

TimePasses(s) ==
  /\ phase[s] = "live" /\ left[s] # "none"
  /\ left' = [left EXCEPT ![s] = IF @ = "ample" THEN "short" ELSE "none"]
  /\ UNCHANGED <<processVars, sessionVars, supVars, nativeVars>>

-----------------------------------------------------------------------------
FinishStep(s) == Reap(s) \/ ForceKill(s) \/ KillUnconfirmed(s) \/ Finish(s)

PrimaryStep(s) ==
  Refuse(s) \/ Start(s) \/ SeeReady(s) \/ SendPermission(s) \/ EndStage(s) \/ FinishStep(s)

LaunchStep(s, d) ==
  \/ Register(s, d) \/ Spawn(s, d) \/ SendOwn(s, d) \/ ReceiveReady(s, d)
  \/ Offer(s, d) \/ ReceiveAck(s, d) \/ LaunchReturns(s, d)

WindDown(s) == ExitNotRun(s) \/ LaunchFails(s) \/ EndRun(s) \/ Reconcile(s) \/ Publish(s)

SupStep(s) ==
  \/ SayReady(s) \/ TakePermission(s) \/ ClaimDevices(s) \/ WindDown(s) \/ SupDies(s)
  \/ \E d \in Devices : LaunchStep(s, d)

NativeStep(s, d) == BecomeOwner(s, d) \/ Enter(s, d) \/ Commit(s, d) \/ WorkerExits(s, d)

Next ==
  \/ \E s \in Sessions :
       PrimaryStep(s) \/ SupStep(s) \/ TimePasses(s) \/ \E d \in Devices : NativeStep(s, d)
  \/ Crash
  \/ Restart

Spec == Init /\ [][Next]_vars

\* The primary's bounded waits end, and an orphaned supervisor, whose own waits are
\* bounded too, winds down.  Nothing is assumed of a supervisor under finish().
Fairness ==
  \A s \in Sessions :
    /\ WF_vars(FinishStep(s))
    /\ WF_vars(phase[s] = "abandoned" /\ WindDown(s))
    /\ WF_vars(sup[s] = "doomed" /\ SupDies(s))

FairSpec == Spec /\ Fairness

-----------------------------------------------------------------------------
(* Properties.                                                             *)

\* A session that finished without latching recovery left nothing behind: no live
\* worker of any kind, a gate nobody can pass, and no supervisor.
CleanFinishLeavesNothing ==
  \A s \in Sessions :
    phase[s] = "finished" /\ s \notin latched =>
      Alive(s) = {} /\ gate[s] = "closed" /\ ~SupExists(s)

\* No later session of the same process starts a supervisor while a worker of an
\* earlier session lives: that is what the latch is for.
NoOverlapInProcess ==
  \A s, t \in Sessions :
    s < t /\ sup[t] # "none" /\ born[s] = born[t] => Alive(s) = {}

\* Two sessions never hold one device, not even across a crash that lost the latch:
\* no two of their processes can read it at once.
ExclusiveDevice ==
  \A d \in Devices : \A s, t \in Sessions : Holds(s, d) /\ Holds(t, d) => s = t

\* The primary counts a session as admitted before any of its workers exists, so a
\* shutdown at any point grants the long wait and latches a forced kill.
WorkersOnlyIfAdmitted ==
  \A s \in Sessions : (\E d \in Devices : worker[s][d] # "none") => admitted[s]

\* Unless cleanup was reported unconfirmed, "not_admitted" means that no native
\* commit happened, and "committed" is never said of a session without one.
ReportMatchesCommits ==
  \A s \in Sessions :
    /\ report[s] = "not_admitted" /\ s \notin latched => committed[s] = {}
    /\ report[s] = "committed" => committed[s] # {}

\* Every session uses its gate as the abstract gate allows.
Gate(s) == INSTANCE StageGate WITH
  Guards <- Devices, gate <- gate[s], inside <- Inside(s), admitted <- committed[s]
GatesAreStageGates ==
  /\ \A s \in Sessions : Gate(s)!Init
  /\ [][\A s \in Sessions : [Gate(s)!Next]_(Gate(s)!vars)]_vars

\* finish() comes to an end however the supervisor and the workers behave.
FinishTerminates ==
  \A s \in Sessions : phase[s] \in {"stopping", "ended"} ~> phase[s] \in {"finished", "abandoned"}

\* A supervisor whose owner crashed notices, winds down and exits: nobody else would
\* stop it.
OrphanedSupervisorEnds ==
  \A s \in Sessions : phase[s] = "abandoned" ~> ~SupExists(s)
=============================================================================
