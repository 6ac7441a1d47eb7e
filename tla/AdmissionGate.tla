---------------------------- MODULE AdmissionGate ----------------------------
(***************************************************************************)
(* The native stage admission protocol: a six byte memfd, "LVS1OO" when    *)
(* open, whose last byte becomes R when closure is requested and whose     *)
(* fifth byte becomes C under an open-file-description lock when closure   *)
(* is authoritative.                                                       *)
(*                                                                         *)
(*   Revokers  processes that hold a SharedAdmission: the primary LVS      *)
(*             process and the storage supervisor                          *)
(*   Guards    native storage_thermal_guard processes, children of Owner,  *)
(*             each trying to turn one offered descriptor into fio's stdin *)
(*                                                                         *)
(* Every read or write of the memfd, every lock attempt and the clock      *)
(* sample is a step of its own, so they interleave as the kernel lets them.*)
(* Either kind of process can die between any two steps; the kernel then   *)
(* drops the lock it held.                                                 *)
(***************************************************************************)
EXTENDS Integers

CONSTANTS Guards, Revokers,
          Owner,        \* the revoker that forked the guards
          None,         \* no lock owner
          Deadline,     \* the stage deadline on the monotonic clock
          Horizon       \* bound: the clock is not followed past it

ASSUME ProcessAssumption ==
  /\ Owner \in Revokers
  /\ None \notin Guards \cup Revokers
  /\ Guards \cap Revokers = {}
ASSUME TimeAssumption == Deadline \in Nat /\ Horizon \in Nat /\ Deadline < Horizon

VARIABLES
  requested,  \* byte 5 is R
  closed,     \* byte 4 is C
  lock,       \* who owns the OFD write lock, or None
  now,        \* CLOCK_MONOTONIC
  gpc,        \* where each guard is in stage_target()
  sample,     \* each guard's commit timestamp, Horizon + 1 before it is taken
  rpc,        \* where each revoker is in SharedAdmission.revoke()
  outcome,    \* what each revoker's latest revoke() returned
  admitted,   \* guards that passed the commit decision
  late,       \* history: guards that sampled the clock after a closure request
  overdue     \* history: guards that commit once the deadline has passed

vars == <<requested, closed, lock, now, gpc, sample, rpc, outcome, admitted, late, overdue>>
gateVars == <<requested, closed>>
histories == <<late, overdue>>
guardVars == <<gpc, sample, admitted, histories>>
revokerVars == <<rpc, outcome>>

Unsampled == Horizon + 1

GuardStates == {"boot", "owned", "offered", "locked", "entered", "received",
                "read", "sampled", "reread", "decided", "running", "dead"}
RevokerStates == {"idle", "requesting", "locked", "written", "dead"}

TypeOK ==
  /\ requested \in BOOLEAN
  /\ closed \in BOOLEAN
  /\ lock \in Guards \cup Revokers \cup {None}
  /\ now \in 0..Horizon
  /\ gpc \in [Guards -> GuardStates]
  /\ sample \in [Guards -> 0..Unsampled]
  /\ rpc \in [Revokers -> RevokerStates]
  /\ outcome \in [Revokers -> {"none", "pending", "confirmed", "error"}]
  /\ admitted \subseteq Guards
  /\ late \subseteq Guards
  /\ overdue \subseteq Guards

Init ==
  /\ requested = FALSE
  /\ closed = FALSE
  /\ lock = None
  /\ now = 0
  /\ gpc = [g \in Guards |-> "boot"]
  /\ sample = [g \in Guards |-> Unsampled]
  /\ rpc = [r \in Revokers |-> "idle"]
  /\ outcome = [r \in Revokers |-> "none"]
  /\ admitted = {}
  /\ late = {}
  /\ overdue = {}

-----------------------------------------------------------------------------
(* Predicates the code evaluates in one call.                              *)

\* The memfd reads LVS1OO.
BytesOpen == ~requested /\ ~closed

OwnerAlive == rpc[Owner] # "dead"

\* Mutant: the wait loop forgets the deadline.
StageOpenNoDeadline == OwnerAlive /\ BytesOpen

\* stage_open(): owner alive, state open, deadline ahead.
StageOpen == OwnerAlive /\ BytesOpen /\ now < Deadline

\* The state a process leaves behind when it dies: a held lock is released.
LockAfterDeath(p) == IF lock = p THEN None ELSE lock

-----------------------------------------------------------------------------
(* SharedAdmission.revoke(), one private reopened descriptor per call.     *)

\* A closure request is written before the lock is tried.
Request(r) ==
  /\ rpc[r] = "idle"
  /\ requested' = TRUE
  /\ rpc' = [rpc EXCEPT ![r] = "requesting"]
  /\ UNCHANGED <<closed, lock, now, outcome, guardVars>>

\* Mutant: a revoker takes the lock for granted, as dup()ed descriptions would.
RevokeLocksShared(r) ==
  /\ rpc[r] = "requesting"
  /\ lock' = r
  /\ rpc' = [rpc EXCEPT ![r] = "locked"]
  /\ UNCHANGED <<gateVars, now, outcome, guardVars>>

\* The nonblocking lock succeeds...
RevokeLocks(r) ==
  /\ rpc[r] = "requesting"
  /\ lock = None
  /\ lock' = r
  /\ rpc' = [rpc EXCEPT ![r] = "locked"]
  /\ UNCHANGED <<gateVars, now, outcome, guardVars>>

\* Mutant: EAGAIN is reported as a confirmed closure.
RevokePendingAsClosed(r) ==
  /\ rpc[r] = "requesting"
  /\ lock # None
  /\ rpc' = [rpc EXCEPT ![r] = "idle"]
  /\ outcome' = [outcome EXCEPT ![r] = "confirmed"]
  /\ UNCHANGED <<gateVars, lock, now, guardVars>>

\* ... or EAGAIN makes revoke() return False, closure pending.
RevokePending(r) ==
  /\ rpc[r] = "requesting"
  /\ lock # None
  /\ rpc' = [rpc EXCEPT ![r] = "idle"]
  /\ outcome' = [outcome EXCEPT ![r] = "pending"]
  /\ UNCHANGED <<gateVars, lock, now, guardVars>>

WriteClosed(r) ==
  /\ rpc[r] = "locked"
  /\ closed' = TRUE
  /\ rpc' = [rpc EXCEPT ![r] = "written"]
  /\ UNCHANGED <<requested, lock, now, outcome, guardVars>>

\* LVS1CR is read back through the original pin, the lock released, True returned.
Confirm(r) ==
  /\ rpc[r] = "written"
  /\ requested /\ closed
  /\ lock' = None
  /\ rpc' = [rpc EXCEPT ![r] = "idle"]
  /\ outcome' = [outcome EXCEPT ![r] = "confirmed"]
  /\ UNCHANGED <<gateVars, now, guardVars>>

\* An identity mismatch, a failed reopen or a short write raises, before or after
\* any of the writes; the lock is released on the way out.
RevokeRaises(r) ==
  /\ rpc[r] # "dead"
  /\ lock' = LockAfterDeath(r)
  /\ rpc' = [rpc EXCEPT ![r] = "idle"]
  /\ outcome' = [outcome EXCEPT ![r] = "error"]
  /\ UNCHANGED <<gateVars, now, guardVars>>

RevokerDies(r) ==
  /\ rpc[r] # "dead"
  /\ lock' = LockAfterDeath(r)
  /\ rpc' = [rpc EXCEPT ![r] = "dead"]
  /\ UNCHANGED <<gateVars, now, outcome, guardVars>>

RevokeStep(r) ==
  RevokeLocks(r) \/ RevokePending(r) \/ WriteClosed(r) \/ Confirm(r)

-----------------------------------------------------------------------------
(* stage_target() of the native guard.                                     *)

\* A step of g from one place to the next that only moves its program counter.
Moves(g, from, to) ==
  /\ gpc[g] = from
  /\ gpc' = [gpc EXCEPT ![g] = to]

\* stage_wait() sees the OWN packet; setsid() and the R reply follow.
ReceiveOwn(g) ==
  /\ StageOpen
  /\ Moves(g, "boot", "owned")
  /\ UNCHANGED <<gateVars, lock, now, sample, admitted, histories, revokerVars>>

\* stage_wait() sees the descriptor packet queued.
SeeOffer(g) ==
  /\ StageOpen
  /\ Moves(g, "owned", "offered")
  /\ UNCHANGED <<gateVars, lock, now, sample, admitted, histories, revokerVars>>

TakeLock(g) ==
  /\ lock = None
  /\ Moves(g, "offered", "locked")
  /\ lock' = g
  /\ UNCHANGED <<gateVars, now, sample, admitted, histories, revokerVars>>

\* Mutant: the state is not read again once the lock is held.
EnterUnchecked(g) ==
  /\ Moves(g, "locked", "entered")
  /\ UNCHANGED <<gateVars, lock, now, sample, admitted, histories, revokerVars>>

\* stage_open() again, now under the verified lock.
EnterOpen(g) ==
  /\ StageOpen
  /\ Moves(g, "locked", "entered")
  /\ UNCHANGED <<gateVars, lock, now, sample, admitted, histories, revokerVars>>

ReceiveDescriptor(g) ==
  /\ Moves(g, "entered", "received")
  /\ UNCHANGED <<gateVars, lock, now, sample, admitted, histories, revokerVars>>

ReadBeforeSample(g) ==
  /\ BytesOpen
  /\ Moves(g, "received", "read")
  /\ UNCHANGED <<gateVars, lock, now, sample, admitted, histories, revokerVars>>

\* The linearization point: the clock is read under the lock.
TakeSample(g) ==
  /\ Moves(g, "read", "sampled")
  /\ sample' = [sample EXCEPT ![g] = now]
  /\ late' = IF requested THEN late \cup {g} ELSE late
  /\ UNCHANGED <<gateVars, lock, now, admitted, overdue, revokerVars>>

\* Mutant: the lock is given up with the second read, before the decision.
ReadAfterSampleUnlocked(g) ==
  /\ BytesOpen
  /\ Moves(g, "sampled", "reread")
  /\ lock' = None
  /\ UNCHANGED <<gateVars, now, sample, admitted, histories, revokerVars>>

\* Mutant: the bytes are not read again after the clock.
ReadAfterSampleSkipped(g) ==
  /\ Moves(g, "sampled", "reread")
  /\ UNCHANGED <<gateVars, lock, now, sample, admitted, histories, revokerVars>>

ReadAfterSample(g) ==
  /\ BytesOpen
  /\ Moves(g, "sampled", "reread")
  /\ UNCHANGED <<gateVars, lock, now, sample, admitted, histories, revokerVars>>

\* committed < deadline and the owner is still the parent; the clock itself may
\* have passed the deadline since the sample.
Decide(g) ==
  /\ sample[g] < Deadline
  /\ OwnerAlive
  /\ Moves(g, "reread", "decided")
  /\ admitted' = admitted \cup {g}
  /\ overdue' = IF now < Deadline THEN overdue ELSE overdue \cup {g}
  /\ UNCHANGED <<gateVars, lock, now, sample, late, revokerVars>>

\* The lock is released, the acknowledgement sent, and the target becomes stdin.
Unlock(g) ==
  /\ Moves(g, "decided", "running")
  /\ lock' = None
  /\ UNCHANGED <<gateVars, now, sample, admitted, histories, revokerVars>>

\* A need() fails: the guard exits and the kernel drops its lock.
CheckFails(g) ==
  \/ gpc[g] \in {"boot", "owned", "offered", "locked"} /\ ~StageOpen
  \/ gpc[g] \in {"received", "sampled"} /\ ~BytesOpen
  \/ gpc[g] = "reread" /\ ~(sample[g] < Deadline /\ OwnerAlive)

\* "offered" fails only while the lock is busy: stage_open() is in the retry loop.
Reject(g) ==
  /\ CheckFails(g)
  /\ gpc[g] = "offered" => lock # None
  /\ gpc' = [gpc EXCEPT ![g] = "dead"]
  /\ lock' = LockAfterDeath(g)
  /\ UNCHANGED <<gateVars, now, sample, admitted, histories, revokerVars>>

\* A signal (parent death, supervisor TERM or KILL) or another failed need().
GuardDies(g) ==
  /\ gpc[g] # "dead"
  /\ gpc' = [gpc EXCEPT ![g] = "dead"]
  /\ lock' = LockAfterDeath(g)
  /\ UNCHANGED <<gateVars, now, sample, admitted, histories, revokerVars>>

\* Steps a scheduled guard takes without waiting for a packet.
GuardStep(g) ==
  \/ TakeLock(g) \/ EnterOpen(g) \/ ReceiveDescriptor(g) \/ ReadBeforeSample(g)
  \/ TakeSample(g) \/ ReadAfterSample(g) \/ Decide(g) \/ Unlock(g) \/ Reject(g)

Tick ==
  /\ now < Horizon
  /\ now' = now + 1
  /\ UNCHANGED <<gateVars, lock, guardVars, revokerVars>>

Next ==
  \/ \E r \in Revokers : Request(r) \/ RevokeStep(r) \/ RevokeRaises(r) \/ RevokerDies(r)
  \/ \E g \in Guards : ReceiveOwn(g) \/ SeeOffer(g) \/ GuardStep(g) \/ GuardDies(g)
  \/ Tick

Spec == Init /\ [][Next]_vars

\* Live processes are scheduled and the monotonic clock advances.
Fairness ==
  /\ \A g \in Guards : WF_vars(GuardStep(g))
  /\ \A r \in Revokers : WF_vars(RevokeStep(r))
  /\ WF_vars(Tick)

FairSpec == Spec /\ Fairness

-----------------------------------------------------------------------------
(* Properties.                                                             *)

\* Once the closed byte is written under the lock, no guard commits any more,
\* whatever it had read before ("later native commits cannot pass").
NoAdmissionAfterClosure == [][closed => admitted' = admitted]_vars

\* No guard commits on a clock sample taken after somebody requested closure:
\* the second read of the bytes exists to refuse exactly those.
AdmittedSampledBeforeRequest == admitted \cap late = {}

\* When revoke() has returned True, no guard is between its open check under
\* the lock and its unlock: nothing is in flight that could still commit.
Window == {"entered", "received", "read", "sampled", "reread", "decided"}
ConfirmedMeansNoneInFlight ==
  (\E r \in Revokers : outcome[r] = "confirmed") =>
     closed /\ \A g \in Guards : gpc[g] \notin Window

\* A guard descheduled between its clock sample and its decision commits although
\* the deadline has passed ("a later clock tick ... cannot undo an in-flight
\* commit").  The sample and the decision are under one hold of the lock, so this
\* happens to one guard of the stage at most, however many had been offered.
OneCommitAfterDeadline == \A g, h \in overdue : g = h

\* The protocol implements the abstract gate.
Inside == {g \in Guards : gpc[g] \in {"entered", "received", "read", "sampled", "reread"}}
GateState == IF closed THEN "closed" ELSE IF requested THEN "requested" ELSE "open"
Abstract == INSTANCE StageGate WITH gate <- GateState, inside <- Inside
ImplementsStageGate == Abstract!Spec

\* No bootstrap waits for ever, whoever died holding the lock: a guard that
\* never gets its packets or the lock is turned away by the deadline.
GuardsLeaveTheGate == \A g \in Guards : <>(gpc[g] \in {"running", "dead"})
=============================================================================
