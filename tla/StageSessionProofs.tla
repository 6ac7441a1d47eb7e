-------------------------- MODULE StageSessionProofs --------------------------
(***************************************************************************)
(* Stage sessions proved for any set of devices and any number of sessions *)
(* and crashes.                                                            *)
(***************************************************************************)
EXTENDS StageSession, TLAPS

\* Every step is one of these.
LEMMA StepCases ==
  ASSUME [Next]_vars
  PROVE  \/ \E s \in Sessions : PrimaryStep(s)
         \/ \E s \in Sessions : SupStep(s)
         \/ \E s \in Sessions : TimePasses(s)
         \/ \E s \in Sessions, d \in Devices : NativeStep(s, d)
         \/ Crash \/ Restart
         \/ UNCHANGED vars
BY DEF Next

\* The initial states are well typed.
LEMMA InitType == Init => TypeOK
<1> SUFFICES ASSUME Init PROVE TypeOK
  OBVIOUS
<1>1. NoCompletion \in Completions
  BY DEF NoCompletion, Completions, AdmissionStates
<1>2. crashes \in 0..MaxCrash /\ born \in [Sessions -> 0..MaxCrash]
  BY SessionAssumption DEF Init
<1> QED
  BY <1>1, <1>2 DEF Init, TypeOK, Phases, SupStates, RowPhases, AdmissionStates

\* The admission state read from the ownership rows is one of the three documented.
LEMMA OwnershipType == \A s \in Sessions : OwnershipState(s) \in AdmissionStates
BY DEF OwnershipState, AdmissionStates

\* Types are preserved by every step of the primary process.
LEMMA PrimaryType ==
  ASSUME TypeOK, NEW s \in Sessions, PrimaryStep(s)
  PROVE  TypeOK'
<1> USE DEF TypeOK, processVars, sessionVars, supVars, nativeVars, Revoked
<1>1. CASE Refuse(s) \/ EndStage(s) \/ Reap(s)
  BY <1>1 DEF Refuse, EndStage, Reap, Phases, AdmissionStates
<1>2. CASE Start(s)
  BY <1>2 DEF Start, Phases, SupStates
<1>3. CASE SeeReady(s) \/ SendPermission(s)
  BY <1>3 DEF SeeReady, SendPermission
<1>4. CASE ForceKill(s) \/ KillUnconfirmed(s)
  <2>1. CASE ForceKill(s)
    <3>1. latch' \in BOOLEAN /\ marker' \in BOOLEAN /\ latched' \subseteq Sessions
      <4>1. LatchCleanup(s) \/ UNCHANGED <<latch, marker, latched>>
        BY <2>1 DEF ForceKill
      <4> QED
        BY <4>1 DEF LatchCleanup
    <3>2. sup' \in [Sessions -> SupStates]
      BY <2>1 DEF ForceKill, SupStates
    <3> QED
      BY <2>1, <3>1, <3>2 DEF ForceKill
  <2>2. CASE KillUnconfirmed(s)
    BY <2>2 DEF KillUnconfirmed, LatchCleanup, Phases, AdmissionStates
  <2> QED
    BY <1>4, <2>1, <2>2
<1>5. CASE Finish(s)
  <2>1. completion[s].state \in AdmissionStates
    BY DEF Completions
  <2>2. report' \in [Sessions -> AdmissionStates \cup {"none"}]
    BY <1>5, <2>1 DEF Finish, AdmissionStates
  <2>3. latch' \in BOOLEAN /\ marker' \in BOOLEAN /\ latched' \subseteq Sessions
    <3>1. LatchCleanup(s) \/ UNCHANGED <<latch, marker, latched>>
      BY <1>5 DEF Finish
    <3> QED
      BY <3>1 DEF LatchCleanup
  <2>4. phase' \in [Sessions -> Phases] /\ gate' \in [Sessions -> {"open", "requested", "closed"}]
    BY <1>5 DEF Finish, Phases
  <2> QED
    BY <1>5, <2>2, <2>3, <2>4 DEF Finish
<1> QED
  BY <1>1, <1>2, <1>3, <1>4, <1>5 DEF PrimaryStep, FinishStep

\* Types are preserved by every step of a supervisor.
LEMMA SupType ==
  ASSUME TypeOK, NEW s \in Sessions, SupStep(s)
  PROVE  TypeOK'
<1> USE DEF TypeOK, processVars, sessionVars, supVars, nativeVars, SupGoes, Revoked
<1>a. {"ready", "claiming", "active", "draining", "finishing", "closing", "gone"} \subseteq SupStates
  BY DEF SupStates
<1>1. CASE SayReady(s)
  BY <1>1, <1>a DEF SayReady
<1>2. CASE TakePermission(s)
  BY <1>2, <1>a DEF TakePermission
<1>3. CASE ClaimDevices(s)
  BY <1>3, <1>a DEF ClaimDevices
<1>4. CASE ExitNotRun(s)
  <2>1. NotRun \in Completions /\ ErrorResult \in Completions
    BY DEF NotRun, ErrorResult, Completions, AdmissionStates
  <2>2. completion' \in [Sessions -> Completions]
    BY <1>4, <2>1 DEF ExitNotRun
  <2>3. gate' \in [Sessions -> {"open", "requested", "closed"}]
    BY <1>4 DEF ExitNotRun
  <2> QED
    BY <1>4, <1>a, <2>2, <2>3 DEF ExitNotRun
<1>5. CASE LaunchFails(s)
  <2>1. claims' \in [Sessions -> SUBSET Devices]
    BY <1>5 DEF LaunchFails
  <2> QED
    BY <1>5, <1>a, <2>1 DEF LaunchFails
<1>6. CASE SupDies(s)
  BY <1>6, <1>a DEF SupDies
<1>7. CASE EndRun(s)
  <2>1. claims' \in [Sessions -> SUBSET Devices] /\ clean' \in [Sessions -> BOOLEAN]
    BY <1>7 DEF EndRun
  <2>2. sup' = [sup EXCEPT ![s] = "finishing"]
    BY <1>7 DEF EndRun
  <2>3. sup' \in [Sessions -> SupStates]
    BY <2>2, <1>a
  <2>4. UNCHANGED <<processVars, sessionVars, row, completion, nativeVars, left>>
    BY <1>7 DEF EndRun
  <2> QED
    BY <2>1, <2>3, <2>4
<1>8. CASE Reconcile(s)
  <2>1. gate' \in [Sessions -> {"open", "requested", "closed"}]
    BY <1>8 DEF Reconcile
  <2>2. clean' \in [Sessions -> BOOLEAN]
    BY <1>8 DEF Reconcile
  <2> QED
    BY <1>8, <1>a, <2>1, <2>2 DEF Reconcile
<1>9. CASE Publish(s)
  <2> DEFINE manifest == [kind |-> "manifest", clean |-> clean[s], state |-> OwnershipState(s)]
  <2>1. manifest \in Completions /\ ErrorResult \in Completions
    BY OwnershipType DEF Completions, ErrorResult, AdmissionStates
  <2>2. completion' \in [Sessions -> Completions]
    BY <1>9, <2>1 DEF Publish
  <2> QED
    BY <1>9, <1>a, <2>2 DEF Publish
<1>10. ASSUME NEW d \in Devices, LaunchStep(s, d)
       PROVE  TypeOK'
  <2>1. PICK from, to \in RowPhases : RowGoes(s, d, from, to)
    BY <1>10 DEF LaunchStep, Register, Spawn, SendOwn, ReceiveReady, Offer, ReceiveAck,
       LaunchReturns, RowPhases
  <2>2. row' \in [Sessions -> [Devices -> RowPhases]]
    BY <2>1 DEF RowGoes
  <2>3. worker' = worker \/ worker' = [worker EXCEPT ![s][d] = "boot"]
    BY <1>10 DEF LaunchStep, Register, Spawn, SendOwn, ReceiveReady, Offer, ReceiveAck,
       LaunchReturns
  <2>4. worker' \in [Sessions -> [Devices -> {"none", "boot", "owned", "inside", "admitted", "dead"}]]
    <3>1. CASE worker' = worker
      BY <3>1
    <3>2. CASE worker' = [worker EXCEPT ![s][d] = "boot"]
      BY <3>2
    <3> QED
      BY <2>3, <3>1, <3>2
  <2> QED
    BY <2>1, <2>2, <2>4 DEF RowGoes
<1> QED
  BY <1>1, <1>2, <1>3, <1>4, <1>5, <1>6, <1>7, <1>8, <1>9, <1>10 DEF SupStep, WindDown

\* Types are preserved by every step.
LEMMA TypeStep == TypeOK /\ [Next]_vars => TypeOK'
<1> SUFFICES ASSUME TypeOK, [Next]_vars PROVE TypeOK'
  OBVIOUS
<1> USE DEF TypeOK, processVars, sessionVars, supVars, nativeVars
<1>1. ASSUME NEW s \in Sessions, TimePasses(s) PROVE TypeOK'
  BY <1>1 DEF TimePasses
<1>2. ASSUME NEW s \in Sessions, NEW d \in Devices, NativeStep(s, d) PROVE TypeOK'
  <2>1. \E to \in {"owned", "inside", "admitted", "dead"} : worker' = [worker EXCEPT ![s][d] = to]
    BY <1>2 DEF NativeStep, BecomeOwner, Enter, Commit, WorkerExits, WorkerGoes
  <2>2. worker' \in [Sessions -> [Devices -> {"none", "boot", "owned", "inside", "admitted", "dead"}]]
    BY <2>1
  <2>3. committed' = committed \/ committed' = [committed EXCEPT ![s] = @ \cup {d}]
    BY <1>2 DEF NativeStep, BecomeOwner, Enter, Commit, WorkerExits
  <2>4. committed' \in [Sessions -> SUBSET Devices]
    <3>1. committed[s] \cup {d} \in SUBSET Devices
      OBVIOUS
    <3>2. CASE committed' = [committed EXCEPT ![s] = @ \cup {d}]
      BY <3>1, <3>2
    <3> QED
      BY <2>3, <3>2
  <2>5. UNCHANGED <<processVars, sessionVars, supVars, gate, left>>
    BY <1>2 DEF NativeStep, BecomeOwner, Enter, Commit, WorkerExits, WorkerGoes
  <2> QED
    BY <2>2, <2>4, <2>5
<1>3. CASE Crash \/ Restart
  <2>1. CASE Crash
    <3>1. crashes' \in 0..MaxCrash
      BY <2>1, SessionAssumption DEF Crash
    <3>2. phase' \in [Sessions -> Phases]
      BY <2>1 DEF Crash, Phases
    <3> QED
      BY <2>1, <3>1, <3>2 DEF Crash
  <2>2. CASE Restart
    BY <2>2 DEF Restart
  <2> QED
    BY <1>3, <2>1, <2>2
<1>4. CASE UNCHANGED vars
  BY <1>4 DEF vars
<1> QED
  BY <1>1, <1>2, <1>3, <1>4, StepCases, PrimaryType, SupType

\* The state of every session stays within its types (TypeOK), whatever happens.
THEOREM TypeCorrect == Spec => []TypeOK
BY InitType, TypeStep, PTL DEF Spec

-----------------------------------------------------------------------------
(* Permission comes first.  The chain from a worker back to the primary's  *)
(* admitted flag runs over its row, the control channel and the position   *)
(* of the supervisor: each link is set before the next.                    *)

Permitted == {"claiming", "active", "draining", "finishing", "closing"}
Early == {"none", "init", "ready", "claiming"}

PermissionMarked == \A s \in Sessions : talk[s] \in {"queued", "sent"} => admitted[s]
RunsAfterPermission == \A s \in Sessions : sup[s] \in Permitted => talk[s] = "sent"
NoRowsBeforeRun ==
  \A s \in Sessions : sup[s] \in Early => \A d \in Devices : row[s][d] = "none"
RowsAfterPermission ==
  \A s \in Sessions : \A d \in Devices : row[s][d] # "none" => talk[s] = "sent"
WorkersAfterSpawn ==
  \A s \in Sessions : \A d \in Devices :
    row[s][d] \in {"none", "pending"} => worker[s][d] = "none"
UnstartedHasNoSup == \A s \in Sessions : phase[s] = "unstarted" => sup[s] = "none"

PermissionInv ==
  /\ PermissionMarked
  /\ RunsAfterPermission
  /\ NoRowsBeforeRun
  /\ RowsAfterPermission
  /\ WorkersAfterSpawn
  /\ UnstartedHasNoSup

\* Nothing is permitted or launched initially.
LEMMA InitPermission == Init => PermissionInv
BY DEF Init, PermissionInv, PermissionMarked, RunsAfterPermission, NoRowsBeforeRun,
   RowsAfterPermission, WorkersAfterSpawn, UnstartedHasNoSup, Permitted, Early

\* The primary marks ownership before it queues the permission.
LEMMA PrimaryPermission ==
  ASSUME TypeOK, PermissionInv, NEW s \in Sessions, PrimaryStep(s)
  PROVE  PermissionInv'
<1> USE DEF TypeOK, PermissionInv, PermissionMarked, RunsAfterPermission, NoRowsBeforeRun,
    RowsAfterPermission, WorkersAfterSpawn, UnstartedHasNoSup, Permitted, Early,
    processVars, sessionVars, supVars, nativeVars
<1>1. CASE Refuse(s)
  BY <1>1 DEF Refuse, NextSession
<1>2. CASE Start(s)
  BY <1>2 DEF Start, NextSession
<1>3. CASE SeeReady(s)
  BY <1>3 DEF SeeReady
<1>4. CASE SendPermission(s)
  BY <1>4 DEF SendPermission
<1>5. CASE EndStage(s) \/ Reap(s)
  BY <1>5 DEF EndStage, Reap
<1>6. CASE ForceKill(s)
  BY <1>6 DEF ForceKill, LatchCleanup
<1>7. CASE KillUnconfirmed(s)
  BY <1>7 DEF KillUnconfirmed
<1>8. CASE Finish(s)
  <2>1. UNCHANGED <<admitted, talk, supVars, worker>> /\ phase' = [phase EXCEPT ![s] = "finished"]
    BY <1>8 DEF Finish
  <2> QED
    BY <2>1
<1> QED
  BY <1>1, <1>2, <1>3, <1>4, <1>5, <1>6, <1>7, <1>8 DEF PrimaryStep, FinishStep

\* A supervisor runs with permission only, and registers a row before its worker.
LEMMA SupPermission ==
  ASSUME TypeOK, PermissionInv, NEW s \in Sessions, SupStep(s)
  PROVE  PermissionInv'
<1> USE DEF TypeOK, PermissionInv, PermissionMarked, RunsAfterPermission, NoRowsBeforeRun,
    RowsAfterPermission, WorkersAfterSpawn, UnstartedHasNoSup, Permitted, Early,
    processVars, sessionVars, supVars, nativeVars, SupGoes
<1>1. CASE SayReady(s)
  BY <1>1 DEF SayReady
<1>2. CASE TakePermission(s) \/ ClaimDevices(s)
  <2>1. CASE TakePermission(s)
    BY <2>1 DEF TakePermission
  <2>2. CASE ClaimDevices(s)
    BY <2>2 DEF ClaimDevices
  <2> QED
    BY <1>2, <2>1, <2>2
<1>3. CASE WindDown(s) \/ SupDies(s)
  <2>1. UNCHANGED <<admitted, talk, phase, row, worker>>
    BY <1>3 DEF WindDown, SupDies, ExitNotRun, LaunchFails, EndRun, Reconcile, Publish
  <2>2. \/ sup' = [sup EXCEPT ![s] = "gone"] /\ SupExists(s)
        \/ \E to \in {"draining", "finishing", "closing"} :
             sup[s] \in Permitted /\ sup' = [sup EXCEPT ![s] = to]
    BY <1>3 DEF WindDown, SupDies, ExitNotRun, LaunchFails, EndRun, Reconcile, Publish, SupExists
  <2>3. \A t \in Sessions : sup'[t] \in Permitted => sup[t] \in Permitted
    BY <2>2
  <2>4. \A t \in Sessions : sup'[t] \in Early => sup[t] \in Early
    BY <2>2
  <2>5. \A t \in Sessions : sup[t] = "none" => sup'[t] = "none"
    BY <2>2 DEF SupExists
  <2>6. PermissionMarked' /\ RunsAfterPermission' /\ UnstartedHasNoSup'
    BY <2>1, <2>3, <2>5
  <2>7. NoRowsBeforeRun' /\ RowsAfterPermission' /\ WorkersAfterSpawn'
    BY <2>1, <2>4
  <2> QED
    BY <2>6, <2>7
<1>4. ASSUME NEW d \in Devices, LaunchStep(s, d)
      PROVE  PermissionInv'
  <2>1. sup[s] = "active" /\ UNCHANGED <<admitted, talk, phase, sup>>
    BY <1>4 DEF LaunchStep, Register, Spawn, SendOwn, ReceiveReady, Offer, ReceiveAck,
       LaunchReturns, RowGoes
  <2>2. PICK to \in RowPhases \ {"none"} : row' = [row EXCEPT ![s][d] = to]
    BY <1>4 DEF LaunchStep, Register, Spawn, SendOwn, ReceiveReady, Offer, ReceiveAck,
       LaunchReturns, RowGoes, RowPhases
  <2>3. PermissionMarked' /\ RunsAfterPermission' /\ UnstartedHasNoSup' /\ NoRowsBeforeRun'
    BY <2>1, <2>2
  <2>4. RowsAfterPermission'
    BY <2>1, <2>2
  <2>5. WorkersAfterSpawn'
    <3>1. CASE Register(s, d)
      BY <3>1 DEF Register, RowGoes
    <3>2. CASE Spawn(s, d)
      BY <3>2 DEF Spawn, RowGoes
    <3>3. CASE ~Register(s, d) /\ ~Spawn(s, d)
      <4>1. worker' = worker /\ row'[s][d] \notin {"none", "pending"}
        BY <1>4, <3>3 DEF LaunchStep, SendOwn, ReceiveReady, Offer, ReceiveAck,
           LaunchReturns, RowGoes
      <4> QED
        BY <2>2, <4>1
    <3> QED
      BY <3>1, <3>2, <3>3
  <2> QED
    BY <2>3, <2>4, <2>5
<1> QED
  BY <1>1, <1>2, <1>3, <1>4 DEF SupStep

\* No step gives a worker life without a row or permission.
LEMMA PermissionStep == TypeOK /\ PermissionInv /\ [Next]_vars => PermissionInv'
<1> SUFFICES ASSUME TypeOK, PermissionInv, [Next]_vars PROVE PermissionInv'
  OBVIOUS
<1> USE DEF TypeOK, PermissionInv, PermissionMarked, RunsAfterPermission, NoRowsBeforeRun,
    RowsAfterPermission, WorkersAfterSpawn, UnstartedHasNoSup,
    processVars, sessionVars, supVars, nativeVars
<1>1. ASSUME NEW s \in Sessions, TimePasses(s) PROVE PermissionInv'
  BY <1>1 DEF TimePasses
<1>2. ASSUME NEW s \in Sessions, NEW d \in Devices, NativeStep(s, d) PROVE PermissionInv'
  <2>1. UNCHANGED <<processVars, sessionVars, supVars>>
    BY <1>2 DEF NativeStep, BecomeOwner, Enter, Commit, WorkerExits, WorkerGoes
  <2>2. PICK to \in {"owned", "inside", "admitted", "dead"} :
          worker[s][d] # "none" /\ worker' = [worker EXCEPT ![s][d] = to]
    BY <1>2 DEF NativeStep, BecomeOwner, Enter, Commit, WorkerExits, WorkerGoes, Alive
  <2> QED
    BY <2>1, <2>2
<1>3. CASE Crash \/ Restart
  BY <1>3 DEF Crash, Restart
<1>4. CASE UNCHANGED vars
  BY <1>4 DEF vars
<1> QED
  BY <1>1, <1>2, <1>3, <1>4, StepCases, PrimaryPermission, SupPermission

\* The primary counts a session as admitted before any worker of it exists.
THEOREM AdmittedBeforeWorkers == Spec => []WorkersOnlyIfAdmitted
<1>1. TypeOK /\ PermissionInv => WorkersOnlyIfAdmitted
  BY DEF TypeOK, PermissionInv, PermissionMarked, RowsAfterPermission, WorkersAfterSpawn,
     WorkersOnlyIfAdmitted
<1> QED
  BY <1>1, InitType, TypeStep, InitPermission, PermissionStep, PTL DEF Spec

-----------------------------------------------------------------------------
(* Exclusive devices.  A device changes hands only where it is claimed:    *)
(* the descriptor a worker receives is one its supervisor still holds.     *)

ClaimsWhileActive == \A s \in Sessions : sup[s] = "active" => claims[s] = Devices

\* The claims of an active supervisor are complete.
LEMMA ClaimsStep == TypeOK /\ ClaimsWhileActive /\ [Next]_vars => ClaimsWhileActive'
<1> SUFFICES ASSUME TypeOK, ClaimsWhileActive, [Next]_vars PROVE ClaimsWhileActive'
  OBVIOUS
<1> USE DEF TypeOK, ClaimsWhileActive, processVars, sessionVars, supVars, nativeVars
<1>1. ASSUME NEW s \in Sessions, PrimaryStep(s) PROVE ClaimsWhileActive'
  <2>1. claims' = claims /\ (sup' = sup \/ \E to \in {"init", "doomed"} : sup' = [sup EXCEPT ![s] = to])
    BY <1>1 DEF PrimaryStep, FinishStep, Refuse, Start, SeeReady, SendPermission, EndStage,
       Reap, ForceKill, KillUnconfirmed, Finish
  <2> QED
    BY <2>1
<1>2. ASSUME NEW s \in Sessions, SupStep(s) PROVE ClaimsWhileActive'
  <2>1. CASE ClaimDevices(s)
    BY <2>1 DEF ClaimDevices, SupGoes
  <2>2. CASE \E d \in Devices : LaunchStep(s, d)
    BY <2>2 DEF LaunchStep, Register, Spawn, SendOwn, ReceiveReady, Offer, ReceiveAck,
       LaunchReturns, RowGoes
  <2>3. CASE SayReady(s) \/ TakePermission(s) \/ WindDown(s) \/ SupDies(s)
    <3>1. \E to \in SupStates \ {"active"} : sup' = [sup EXCEPT ![s] = to]
      BY <2>3 DEF SayReady, TakePermission, WindDown, SupDies, ExitNotRun, LaunchFails,
         EndRun, Reconcile, Publish, SupGoes, SupStates
    <3>2. \A t \in Sessions : t # s => claims'[t] = claims[t]
      BY <2>3 DEF SayReady, TakePermission, WindDown, SupDies, ExitNotRun, LaunchFails,
         EndRun, Reconcile, Publish, SupGoes
    <3> QED
      BY <3>1, <3>2
  <2> QED
    BY <1>2, <2>1, <2>2, <2>3 DEF SupStep
<1>3. ASSUME NEW s \in Sessions, TimePasses(s) PROVE ClaimsWhileActive'
  BY <1>3 DEF TimePasses
<1>4. ASSUME NEW s \in Sessions, NEW d \in Devices, NativeStep(s, d) PROVE ClaimsWhileActive'
  BY <1>4 DEF NativeStep, BecomeOwner, Enter, Commit, WorkerExits, WorkerGoes
<1>5. CASE Crash \/ Restart \/ UNCHANGED vars
  BY <1>5 DEF Crash, Restart, vars
<1> QED
  BY <1>1, <1>2, <1>3, <1>4, <1>5, StepCases

\* A session comes to hold a device only by claiming it.
LEMMA HoldersClaim ==
  ASSUME TypeOK, ClaimsWhileActive, [Next]_vars, \A s \in Sessions : ~ClaimDevices(s),
         NEW t \in Sessions, NEW e \in Devices, Holds(t, e)'
  PROVE  Holds(t, e)
<1> USE DEF TypeOK, Holds, processVars, sessionVars, supVars, nativeVars
<1>1. ASSUME NEW s \in Sessions, PrimaryStep(s) PROVE Holds(t, e)
  <2>1. UNCHANGED <<claims, worker, row>>
    BY <1>1 DEF PrimaryStep, FinishStep, Refuse, Start, SeeReady, SendPermission, EndStage,
       Reap, ForceKill, KillUnconfirmed, Finish
  <2> QED
    BY <2>1
<1>2. ASSUME NEW s \in Sessions, SupStep(s) PROVE Holds(t, e)
  <2>1. ASSUME NEW d \in Devices, LaunchStep(s, d) PROVE Holds(t, e)
    <3>1. CASE Offer(s, d)
      BY <3>1 DEF Offer, RowGoes, ClaimsWhileActive
    <3>2. CASE Spawn(s, d)
      BY <3>2 DEF Spawn, RowGoes
    <3>3. CASE Register(s, d) \/ SendOwn(s, d) \/ ReceiveReady(s, d) \/ ReceiveAck(s, d)
               \/ LaunchReturns(s, d)
      <4>1. UNCHANGED <<claims, worker>>
        BY <3>3 DEF Register, SendOwn, ReceiveReady, ReceiveAck, LaunchReturns, RowGoes
      <4>2. PICK to \in RowPhases \ {"offering"} : row' = [row EXCEPT ![s][d] = to]
        BY <3>3 DEF Register, SendOwn, ReceiveReady, ReceiveAck, LaunchReturns, RowGoes, RowPhases
      <4> QED
        BY <4>1, <4>2
    <3> QED
      BY <2>1, <3>1, <3>2, <3>3 DEF LaunchStep
  <2>2. CASE SayReady(s) \/ TakePermission(s) \/ WindDown(s) \/ SupDies(s)
    <3>1. UNCHANGED <<worker, row>>
      BY <2>2 DEF SayReady, TakePermission, WindDown, SupDies, ExitNotRun, LaunchFails,
         EndRun, Reconcile, Publish
    <3>2. claims'[t] \subseteq claims[t]
      <4>1. CASE SayReady(s) \/ TakePermission(s) \/ ExitNotRun(s) \/ Reconcile(s)
        BY <4>1 DEF SayReady, TakePermission, ExitNotRun, Reconcile
      <4>2. CASE LaunchFails(s)
        BY <4>2 DEF LaunchFails
      <4>3. CASE EndRun(s)
        BY <4>3 DEF EndRun
      <4>4. CASE Publish(s) \/ SupDies(s)
        <5>1. claims' = [claims EXCEPT ![s] = {}]
          BY <4>4 DEF Publish, SupDies
        <5> QED
          BY <5>1
      <4> QED
        BY <2>2, <4>1, <4>2, <4>3, <4>4 DEF WindDown
    <3> QED
      BY <3>1, <3>2
  <2> QED
    BY <1>2, <2>1, <2>2 DEF SupStep
<1>3. ASSUME NEW s \in Sessions, TimePasses(s) PROVE Holds(t, e)
  BY <1>3 DEF TimePasses
<1>4. ASSUME NEW s \in Sessions, NEW d \in Devices, NativeStep(s, d) PROVE Holds(t, e)
  <2>0. UNCHANGED <<claims, row>>
    BY <1>4 DEF NativeStep, BecomeOwner, Enter, Commit, WorkerExits, WorkerGoes
  <2>1. CASE BecomeOwner(s, d)
    BY <2>0, <2>1 DEF BecomeOwner, WorkerGoes
  <2>2. CASE Enter(s, d)
    BY <2>0, <2>2 DEF Enter, WorkerGoes
  <2>3. CASE Commit(s, d)
    BY <2>0, <2>3 DEF Commit, WorkerGoes
  <2>4. CASE WorkerExits(s, d)
    BY <2>0, <2>4 DEF WorkerExits
  <2> QED
    BY <1>4, <2>1, <2>2, <2>3, <2>4 DEF NativeStep
<1>5. CASE Crash \/ Restart \/ UNCHANGED vars
  BY <1>5 DEF Crash, Restart, vars
<1> QED
  BY <1>1, <1>2, <1>3, <1>4, <1>5, StepCases

\* Exclusiveness is preserved.
LEMMA ExclusiveStep ==
  TypeOK /\ ClaimsWhileActive /\ ExclusiveDevice /\ [Next]_vars => ExclusiveDevice'
<1> SUFFICES ASSUME TypeOK, ClaimsWhileActive, ExclusiveDevice, [Next]_vars,
                    NEW d \in Devices, NEW s \in Sessions, NEW t \in Sessions,
                    Holds(s, d)', Holds(t, d)'
             PROVE  s = t
  BY DEF ExclusiveDevice
<1>1. CASE \A u \in Sessions : ~ClaimDevices(u)
  <2>1. Holds(s, d) /\ Holds(t, d)
    BY <1>1, HoldersClaim
  <2> QED
    BY <2>1 DEF ExclusiveDevice
<1>2. ASSUME NEW u \in Sessions, ClaimDevices(u) PROVE s = t
  <2>1. UNCHANGED <<worker, row>> /\ claims' = [claims EXCEPT ![u] = Devices]
    BY <1>2 DEF ClaimDevices, nativeVars
  <2>2. ~Holds(s, d) /\ ~Holds(t, d)
    BY <1>2 DEF ClaimDevices
  <2>3. ASSUME NEW v \in Sessions, v # u, Holds(v, d)' PROVE Holds(v, d)
    BY <2>1, <2>3 DEF Holds, TypeOK
  <2> QED
    BY <2>2, <2>3
<1> QED
  BY <1>1, <1>2

\* No two sessions ever hold one device, whatever crashes, kills and late workers do.
THEOREM DevicesAreExclusive == Spec => []ExclusiveDevice
<1>1. Init => ClaimsWhileActive /\ ExclusiveDevice
  BY DEF Init, ClaimsWhileActive, ExclusiveDevice, Holds
<1> QED
  BY <1>1, InitType, TypeStep, ClaimsStep, ExclusiveStep, PTL DEF Spec

-----------------------------------------------------------------------------
(* A clean finish.  finish() trusts the completion it reads; the invariant *)
(* says what that trust rests on: a completion that claims cleanup was     *)
(* written by a supervisor that saw every launch row gone, and nothing can *)
(* be launched once the supervisor left its run.                           *)

CompletionAtTheEnd == \A s \in Sessions : sup[s] # "gone" => completion[s].kind = "none"
ReconciledIsEmpty == \A s \in Sessions : sup[s] = "closing" /\ clean[s] => Alive(s) = {}
CleanCompletionIsEmpty ==
  \A s \in Sessions : completion[s].kind # "none" /\ completion[s].clean => Alive(s) = {}
EndedWithoutSup == \A s \in Sessions : phase[s] = "ended" => ~SupExists(s)

CleanInv ==
  /\ CompletionAtTheEnd
  /\ ReconciledIsEmpty
  /\ CleanCompletionIsEmpty
  /\ EndedWithoutSup
  /\ CleanFinishLeavesNothing

\* Workers come to life only under an active supervisor.
LEMMA AliveShrinks ==
  ASSUME TypeOK, [Next]_vars, NEW t \in Sessions, sup[t] # "active"
  PROVE  Alive(t)' \subseteq Alive(t)
<1> USE DEF TypeOK, Alive, processVars, sessionVars, supVars, nativeVars
<1>1. ASSUME NEW s \in Sessions, PrimaryStep(s) PROVE worker' = worker
  BY <1>1 DEF PrimaryStep, FinishStep, Refuse, Start, SeeReady, SendPermission, EndStage,
     Reap, ForceKill, KillUnconfirmed, Finish
<1>2. ASSUME NEW s \in Sessions, SupStep(s)
      PROVE  worker' = worker \/ (s # t /\ \E d \in Devices : worker' = [worker EXCEPT ![s][d] = "boot"])
  <2>1. CASE SayReady(s) \/ TakePermission(s) \/ ClaimDevices(s) \/ WindDown(s) \/ SupDies(s)
    BY <2>1 DEF SayReady, TakePermission, ClaimDevices, WindDown, SupDies, ExitNotRun,
       LaunchFails, EndRun, Reconcile, Publish
  <2>2. CASE \E d \in Devices : LaunchStep(s, d)
    BY <2>2 DEF LaunchStep, Register, Spawn, SendOwn, ReceiveReady, Offer, ReceiveAck,
       LaunchReturns, RowGoes
  <2> QED
    BY <1>2, <2>1, <2>2 DEF SupStep
<1>3. ASSUME NEW s \in Sessions, NEW d \in Devices, NativeStep(s, d) PROVE Alive(t)' \subseteq Alive(t)
  <2>1. PICK to \in {"owned", "inside", "admitted", "dead"} :
          worker[s][d] \notin {"none", "dead"} /\ worker' = [worker EXCEPT ![s][d] = to]
    BY <1>3 DEF NativeStep, BecomeOwner, Enter, Commit, WorkerExits, WorkerGoes
  <2> QED
    BY <2>1
<1>4. ASSUME NEW s \in Sessions, TimePasses(s) PROVE worker' = worker
  BY <1>4 DEF TimePasses
<1>5. CASE Crash \/ Restart \/ UNCHANGED vars
  BY <1>5 DEF Crash, Restart, vars
<1>6. ASSUME worker' = worker PROVE Alive(t)' \subseteq Alive(t)
  BY <1>6
<1>7. ASSUME NEW s \in Sessions, SupStep(s) PROVE Alive(t)' \subseteq Alive(t)
  BY <1>2, <1>6, <1>7
<1> QED
  BY <1>1, <1>3, <1>4, <1>5, <1>6, <1>7, StepCases

\* A supervisor moves forward: once gone it stays gone, and one is created only for
\* a session that has not started.
LEMMA SupMoves ==
  ASSUME TypeOK, PermissionInv, [Next]_vars, NEW t \in Sessions
  PROVE  /\ sup[t] = "gone" => sup'[t] = "gone"
         /\ sup[t] = "none" /\ phase[t] # "unstarted" => sup'[t] = "none"
         /\ sup[t] = "none" /\ ~Start(t) => sup'[t] = "none"
         /\ phase[t] # "unstarted" => phase'[t] # "unstarted"
<1> USE DEF TypeOK, processVars, sessionVars, supVars, nativeVars
<1>1. ASSUME NEW s \in Sessions, PrimaryStep(s)
      PROVE  /\ sup'[t] # sup[t] => \/ t = s /\ phase[s] = "unstarted" /\ Start(s)
                                    \/ sup[t] \notin {"none", "gone"}
             /\ phase[t] # "unstarted" => phase'[t] # "unstarted"
  <2>1. CASE Start(s)
    BY <2>1 DEF Start, NextSession, PermissionInv, UnstartedHasNoSup
  <2>2. CASE ForceKill(s)
    BY <2>2 DEF ForceKill, SupRuns, SupExists
  <2>3. CASE ~Start(s) /\ ~ForceKill(s)
    <3>1. sup' = sup /\ (phase' = phase \/ \E p \in Phases \ {"unstarted"} : phase' = [phase EXCEPT ![s] = p])
      BY <1>1, <2>3 DEF PrimaryStep, FinishStep, Refuse, SeeReady, SendPermission, EndStage,
         Reap, KillUnconfirmed, Finish, Phases
    <3> QED
      BY <3>1
  <2> QED
    BY <2>1, <2>2, <2>3
<1>2. ASSUME NEW s \in Sessions, SupStep(s)
      PROVE  (sup'[t] # sup[t] => sup[t] \notin {"none", "gone"}) /\ phase' = phase
  <2>1. CASE \E d \in Devices : LaunchStep(s, d)
    BY <2>1 DEF LaunchStep, Register, Spawn, SendOwn, ReceiveReady, Offer, ReceiveAck,
       LaunchReturns, RowGoes
  <2>2. CASE SayReady(s) \/ TakePermission(s) \/ ClaimDevices(s) \/ WindDown(s) \/ SupDies(s)
    <3>1. phase' = phase /\ sup[s] \notin {"none", "gone"} /\ \E to \in SupStates : sup' = [sup EXCEPT ![s] = to]
      BY <2>2 DEF SayReady, TakePermission, ClaimDevices, WindDown, SupDies, ExitNotRun,
         LaunchFails, EndRun, Reconcile, Publish, SupGoes, SupExists, SupStates
    <3> QED
      BY <3>1
  <2> QED
    BY <1>2, <2>1, <2>2 DEF SupStep
<1>3. ASSUME NEW s \in Sessions, TimePasses(s) PROVE sup' = sup /\ phase' = phase
  BY <1>3 DEF TimePasses
<1>4. ASSUME NEW s \in Sessions, NEW d \in Devices, NativeStep(s, d) PROVE sup' = sup /\ phase' = phase
  BY <1>4 DEF NativeStep, BecomeOwner, Enter, Commit, WorkerExits, WorkerGoes
<1>5. ASSUME Crash PROVE sup' = sup /\ (phase[t] # "unstarted" => phase'[t] # "unstarted")
  BY <1>5 DEF Crash
<1>6. ASSUME Restart \/ UNCHANGED vars PROVE sup' = sup /\ phase' = phase
  BY <1>6 DEF Restart, vars
<1>7. sup'[t] # sup[t] => Start(t) \/ sup[t] \notin {"none", "gone"}
  BY <1>1, <1>2, <1>3, <1>4, <1>5, <1>6, StepCases
<1>8. phase[t] # "unstarted" => phase'[t] # "unstarted"
  BY <1>1, <1>2, <1>3, <1>4, <1>5, <1>6, StepCases
<1>9. Start(t) => phase[t] = "unstarted" /\ sup[t] = "none"
  BY DEF Start, NextSession, PermissionInv, UnstartedHasNoSup
<1> QED
  BY <1>7, <1>8, <1>9


\* A session without permission, or whose supervisor has not run, has no worker.
LEMMA NoWorkersYet ==
  ASSUME TypeOK, PermissionInv, NEW s \in Sessions, ~admitted[s] \/ sup[s] \in Early
  PROVE  Alive(s) = {}
BY DEF TypeOK, PermissionInv, PermissionMarked, NoRowsBeforeRun, RowsAfterPermission,
   WorkersAfterSpawn, Alive

\* Completions appear only as the supervisor leaves.
LEMMA CompletionStep ==
  ASSUME TypeOK, PermissionInv, CompletionAtTheEnd, [Next]_vars, NEW t \in Sessions
  PROVE  /\ completion'[t] # completion[t] =>
              /\ sup'[t] = "gone"
              /\ ExitNotRun(t) \/ Publish(t)
         /\ sup'[t] # "gone" => completion'[t].kind = "none"
<1> USE DEF TypeOK, processVars, sessionVars, supVars, nativeVars
<1>1. ASSUME NEW s \in Sessions, PrimaryStep(s) PROVE completion' = completion
  BY <1>1 DEF PrimaryStep, FinishStep, Refuse, Start, SeeReady, SendPermission, EndStage,
     Reap, ForceKill, KillUnconfirmed, Finish
<1>2. ASSUME NEW s \in Sessions, SupStep(s)
      PROVE  \/ completion' = completion
             \/ /\ sup' = [sup EXCEPT ![s] = "gone"]
                /\ \E result : completion' = [completion EXCEPT ![s] = result]
                /\ ExitNotRun(s) \/ Publish(s)
  <2>1. CASE SayReady(s) \/ TakePermission(s) \/ ClaimDevices(s) \/ SupDies(s)
             \/ LaunchFails(s) \/ EndRun(s) \/ Reconcile(s)
    BY <2>1 DEF SayReady, TakePermission, ClaimDevices, SupDies, LaunchFails, EndRun, Reconcile
  <2>2. CASE ExitNotRun(s)
    BY <2>2 DEF ExitNotRun
  <2>3. CASE Publish(s)
    BY <2>3 DEF Publish, SupGoes
  <2>4. CASE \E d \in Devices : LaunchStep(s, d)
    BY <2>4 DEF LaunchStep, Register, Spawn, SendOwn, ReceiveReady, Offer, ReceiveAck,
       LaunchReturns, RowGoes
  <2> QED
    BY <1>2, <2>1, <2>2, <2>3, <2>4 DEF SupStep, WindDown
<1>3. ASSUME NEW s \in Sessions, TimePasses(s) PROVE completion' = completion
  BY <1>3 DEF TimePasses
<1>4. ASSUME NEW s \in Sessions, NEW d \in Devices, NativeStep(s, d) PROVE completion' = completion
  BY <1>4 DEF NativeStep, BecomeOwner, Enter, Commit, WorkerExits, WorkerGoes
<1>5. ASSUME Crash \/ Restart \/ UNCHANGED vars PROVE completion' = completion
  <2>1. CASE Crash
    BY <2>1 DEF Crash
  <2>2. CASE Restart \/ UNCHANGED vars
    BY <2>2 DEF Restart, vars
  <2> QED
    BY <1>5, <2>1, <2>2
<1>6. completion'[t] # completion[t] => sup'[t] = "gone" /\ (ExitNotRun(t) \/ Publish(t))
  BY <1>1, <1>2, <1>3, <1>4, <1>5, StepCases
<1>7. sup'[t] # "gone" => completion'[t].kind = "none"
  BY <1>6, SupMoves DEF CompletionAtTheEnd
<1> QED
  BY <1>6, <1>7

\* The supervisor's view of a clean run is preserved until it publishes it.
LEMMA ReconciledStep ==
  ASSUME TypeOK, PermissionInv, ReconciledIsEmpty, [Next]_vars, NEW t \in Sessions,
         sup'[t] = "closing", clean'[t]
  PROVE  Alive(t)' = {}
<1> USE DEF TypeOK, processVars, sessionVars, supVars, nativeVars
<1>1. CASE Reconcile(t)
  <2>1. worker' = worker
    BY <1>1 DEF Reconcile
  <2>2. \A d \in Devices : row[t][d] # "none" => RowGone(t, d)
    BY <1>1 DEF Reconcile
  <2>3. \A d \in Devices : row[t][d] = "none" => worker[t][d] = "none"
    BY DEF PermissionInv, WorkersAfterSpawn
  <2>4. Alive(t) = {}
    BY <2>2, <2>3 DEF RowGone, Alive
  <2> QED
    BY <2>1, <2>4 DEF Alive
<1>2. CASE ~Reconcile(t)
  <2>1. ASSUME NEW s \in Sessions, PrimaryStep(s) PROVE sup[t] = "closing" /\ clean[t]
    <3>1. clean' = clean
      BY <2>1 DEF PrimaryStep, FinishStep, Refuse, Start, SeeReady, SendPermission, EndStage,
         Reap, ForceKill, KillUnconfirmed, Finish
    <3>2. sup' = sup \/ \E to \in {"init", "doomed"} : sup' = [sup EXCEPT ![s] = to]
      BY <2>1 DEF PrimaryStep, FinishStep, Refuse, Start, SeeReady, SendPermission, EndStage,
         Reap, ForceKill, KillUnconfirmed, Finish
    <3> QED
      BY <3>1, <3>2
  <2>2. ASSUME NEW s \in Sessions, SupStep(s) PROVE sup[t] = "closing" /\ clean[t]
    <3>1. CASE \E d \in Devices : LaunchStep(s, d)
      BY <3>1 DEF LaunchStep, Register, Spawn, SendOwn, ReceiveReady, Offer, ReceiveAck,
         LaunchReturns, RowGoes
    <3>2. CASE SayReady(s) \/ TakePermission(s) \/ ClaimDevices(s) \/ ExitNotRun(s) \/ LaunchFails(s)
      <4>1. clean' = clean /\ \E to \in SupStates \ {"closing"} : sup' = [sup EXCEPT ![s] = to]
        BY <3>2 DEF SayReady, TakePermission, ClaimDevices, ExitNotRun, LaunchFails, SupGoes,
           SupStates
      <4> QED
        BY <4>1
    <3>3. CASE EndRun(s) \/ Publish(s) \/ SupDies(s)
      <4>1. \E to \in {"finishing", "gone"} : sup' = [sup EXCEPT ![s] = to]
        BY <3>3 DEF EndRun, Publish, SupDies, SupGoes
      <4>2. s # t
        BY <4>1
      <4>3. clean'[t] = clean[t]
        <5>1. PICK b : clean' = [clean EXCEPT ![s] = b]
          BY <3>3 DEF EndRun, Publish, SupDies
        <5>2. clean \in [Sessions -> BOOLEAN]
          OBVIOUS
        <5> QED
          BY ONLY <5>1, <5>2, <4>2, t \in Sessions
      <4> QED
        BY <4>1, <4>2, <4>3
    <3>4. CASE Reconcile(s)
      <4>1. s # t
        BY <3>4, <1>2
      <4>2. clean'[t] = clean[t]
        BY <3>4, <4>1 DEF Reconcile
      <4>3. sup'[t] = sup[t]
        BY <3>4, <4>1 DEF Reconcile, SupGoes
      <4> QED
        BY <4>2, <4>3
    <3> QED
      BY <2>2, <3>1, <3>2, <3>3, <3>4 DEF SupStep, WindDown
  <2>3. ASSUME NEW s \in Sessions, TimePasses(s) PROVE sup[t] = "closing" /\ clean[t]
    BY <2>3 DEF TimePasses
  <2>4. ASSUME NEW s \in Sessions, NEW d \in Devices, NativeStep(s, d)
        PROVE  sup[t] = "closing" /\ clean[t]
    BY <2>4 DEF NativeStep, BecomeOwner, Enter, Commit, WorkerExits, WorkerGoes
  <2>5. ASSUME Crash \/ Restart \/ UNCHANGED vars PROVE sup[t] = "closing" /\ clean[t]
    <3>1. CASE Crash
      BY <3>1 DEF Crash
    <3>2. CASE Restart
      BY <3>2 DEF Restart
    <3>3. CASE UNCHANGED vars
      BY <3>3 DEF vars
    <3> QED
      BY <2>5, <3>1, <3>2, <3>3
  <2>6. sup[t] = "closing" /\ clean[t]
    BY <2>1, <2>2, <2>3, <2>4, <2>5, StepCases
  <2> QED
    BY <2>6, AliveShrinks DEF ReconciledIsEmpty
<1> QED
  BY <1>1, <1>2


\* A completion that claims cleanup stays true.
LEMMA CleanCompletionStep ==
  ASSUME TypeOK, PermissionInv, CleanInv, [Next]_vars, NEW t \in Sessions,
         completion'[t].kind # "none", completion'[t].clean
  PROVE  Alive(t)' = {}
<1>1. CASE completion'[t] = completion[t]
  <2>1. sup[t] # "active" /\ Alive(t) = {}
    BY <1>1 DEF CleanInv, CompletionAtTheEnd, CleanCompletionIsEmpty
  <2> QED
    BY <2>1, AliveShrinks
<1>2. CASE completion'[t] # completion[t]
  <2>1. CASE ExitNotRun(t)
    <3>1. sup[t] \in Early /\ worker' = worker
      BY <2>1 DEF ExitNotRun, Early
    <3> QED
      BY <3>1, NoWorkersYet DEF Alive
  <2>2. CASE Publish(t)
    <3>1. sup[t] = "closing" /\ worker' = worker
      BY <2>2 DEF Publish, SupGoes, nativeVars
    <3>2. completion'[t].clean => clean[t]
      <4>1. completion'[t] \in {[kind |-> "manifest", clean |-> clean[t], state |-> OwnershipState(t)],
                                ErrorResult}
        BY <2>2, <1>2 DEF Publish, TypeOK
      <4> QED
        BY <4>1 DEF ErrorResult
    <3> QED
      BY <3>1, <3>2 DEF CleanInv, ReconciledIsEmpty, Alive
  <2>3. CompletionAtTheEnd
    BY DEF CleanInv
  <2> QED
    BY <1>2, <2>1, <2>2, <2>3, CompletionStep
<1> QED
  BY <1>1, <1>2

\* finish() without latching: the session it leaves is empty.
LEMMA FinishClean ==
  ASSUME TypeOK, PermissionInv, CleanInv, NEW s \in Sessions, Finish(s), s \notin latched'
  PROVE  Alive(s)' = {} /\ gate'[s] = "closed" /\ ~SupExists(s)'
<1>1. PICK readable, groupGone \in BOOLEAN :
        LET terminal == readable /\ completion[s].kind # "none"
            unowned == sup[s] # "none" /\ ~admitted[s] /\ ~groupGone
            missing == sup[s] # "none" /\ admitted[s] /\ ~terminal
            unclean == terminal /\ ~completion[s].clean
        IN IF unowned \/ missing \/ unclean \/ s \in latched \/ gate'[s] # "closed"
           THEN LatchCleanup(s)
           ELSE UNCHANGED <<latch, marker, latched>>
  BY DEF Finish
<1>2. ~LatchCleanup(s)
  BY DEF LatchCleanup
<1>3. UNCHANGED <<worker, sup>>
  BY DEF Finish, supVars
<1>4. ~SupExists(s)'
  BY <1>3 DEF Finish, CleanInv, EndedWithoutSup, SupExists
<1>5. Alive(s) = {}
  <2>1. CASE ~admitted[s] \/ sup[s] = "none"
    BY <2>1, NoWorkersYet DEF Early
  <2>2. CASE admitted[s] /\ sup[s] # "none"
    BY <2>2, <1>1, <1>2 DEF CleanInv, CleanCompletionIsEmpty
  <2> QED
    BY <2>1, <2>2
<1> QED
  BY <1>1, <1>2, <1>3, <1>4, <1>5 DEF Alive

\* A session is finished by finish() alone, and what it left is not touched again.
LEMMA FinishedStays ==
  ASSUME TypeOK, [Next]_vars, NEW t \in Sessions
  PROVE  /\ phase'[t] = "finished" => phase[t] = "finished" \/ Finish(t) \/ KillUnconfirmed(t)
         /\ phase'[t] = "ended" => phase[t] = "ended" \/ Reap(t)
         /\ latched \subseteq latched'
         /\ phase[t] = "finished" /\ ~SupExists(t) => gate'[t] = gate[t]
<1> USE DEF TypeOK, processVars, sessionVars, supVars, nativeVars
<1> DEFINE Goal == /\ phase'[t] = "finished" => phase[t] = "finished" \/ Finish(t) \/ KillUnconfirmed(t)
                   /\ phase'[t] = "ended" => phase[t] = "ended" \/ Reap(t)
                   /\ latched \subseteq latched'
                   /\ phase[t] = "finished" /\ ~SupExists(t) => gate'[t] = gate[t]
<1>1. ASSUME NEW s \in Sessions, PrimaryStep(s) PROVE Goal
  <2>1. CASE Refuse(s) \/ Start(s)
    <3>1. UNCHANGED <<latched, gate>> /\ \E p \in {"refused", "live"} : phase' = [phase EXCEPT ![s] = p]
      BY <2>1 DEF Refuse, Start
    <3> QED
      BY <3>1
  <2>2. CASE SeeReady(s) \/ SendPermission(s) \/ ForceKill(s)
    <3>1. UNCHANGED <<phase, gate>>
      BY <2>2 DEF SeeReady, SendPermission, ForceKill
    <3>2. LatchCleanup(s) \/ latched' = latched
      BY <2>2 DEF SeeReady, SendPermission, ForceKill
    <3> QED
      BY <3>1, <3>2 DEF LatchCleanup
  <2>3. CASE EndStage(s)
    BY <2>3 DEF EndStage
  <2>4. CASE Reap(s)
    BY <2>4 DEF Reap
  <2>5. CASE KillUnconfirmed(s)
    BY <2>5 DEF KillUnconfirmed, LatchCleanup
  <2>6. CASE Finish(s)
    <3>1. phase[s] = "ended" /\ phase' = [phase EXCEPT ![s] = "finished"]
          /\ gate' = [gate EXCEPT ![s] = Revoked(s)]
      BY <2>6 DEF Finish
    <3>2. latched \subseteq latched'
      <4>1. LatchCleanup(s) \/ latched' = latched
        BY <2>6 DEF Finish
      <4> QED
        BY <4>1 DEF LatchCleanup
    <3> QED
      BY <2>6, <3>1, <3>2
  <2> QED
    BY <1>1, <2>1, <2>2, <2>3, <2>4, <2>5, <2>6 DEF PrimaryStep, FinishStep
<1>2. ASSUME NEW s \in Sessions, SupStep(s) PROVE Goal
  <2>1. UNCHANGED <<phase, latched>>
    BY <1>2 DEF SupStep, LaunchStep, Register, Spawn, SendOwn, ReceiveReady, Offer, ReceiveAck,
       LaunchReturns, RowGoes, SayReady, TakePermission, ClaimDevices, WindDown, SupDies,
       ExitNotRun, LaunchFails, EndRun, Reconcile, Publish
  <2>2. gate' = gate \/ (SupExists(s) /\ \E v : gate' = [gate EXCEPT ![s] = v])
    <3>1. CASE ExitNotRun(s) \/ LaunchFails(s) \/ Reconcile(s)
      BY <3>1 DEF ExitNotRun, LaunchFails, Reconcile, SupGoes, SupExists
    <3>2. CASE ~(ExitNotRun(s) \/ LaunchFails(s) \/ Reconcile(s))
      BY <1>2, <3>2 DEF SupStep, LaunchStep, Register, Spawn, SendOwn, ReceiveReady, Offer,
         ReceiveAck, LaunchReturns, RowGoes, SayReady, TakePermission, ClaimDevices, WindDown,
         SupDies, EndRun, Publish
    <3> QED
      BY <3>1, <3>2
  <2> QED
    BY <2>1, <2>2
<1>3. ASSUME NEW s \in Sessions, TimePasses(s) PROVE Goal
  BY <1>3 DEF TimePasses
<1>4. ASSUME NEW s \in Sessions, NEW d \in Devices, NativeStep(s, d) PROVE Goal
  <2>1. UNCHANGED <<phase, latched, gate>>
    BY <1>4 DEF NativeStep, BecomeOwner, Enter, Commit, WorkerExits, WorkerGoes
  <2> QED
    BY <2>1
<1>5. CASE Crash
  BY <1>5 DEF Crash
<1>6. CASE Restart \/ UNCHANGED vars
  <2>1. UNCHANGED <<phase, latched, gate>>
    BY <1>6 DEF Restart, vars
  <2> QED
    BY <2>1
<1> QED
  BY <1>1, <1>2, <1>3, <1>4, <1>5, <1>6, StepCases


\* Every part of the clean-finish argument is preserved.
LEMMA CleanStep == TypeOK /\ PermissionInv /\ CleanInv /\ [Next]_vars => CleanInv'
<1> SUFFICES ASSUME TypeOK, PermissionInv, CleanInv, [Next]_vars PROVE CleanInv'
  OBVIOUS
<1> USE DEF CleanInv
<1>1. CompletionAtTheEnd'
  BY CompletionStep DEF CompletionAtTheEnd
<1>2. ReconciledIsEmpty'
  BY ReconciledStep DEF ReconciledIsEmpty
<1>3. CleanCompletionIsEmpty'
  BY CleanCompletionStep DEF CleanCompletionIsEmpty
<1>4. ASSUME NEW t \in Sessions, phase[t] # "unstarted", ~SupExists(t) PROVE ~SupExists(t)'
  BY <1>4, SupMoves DEF SupExists
<1>5. EndedWithoutSup'
  <2> SUFFICES ASSUME NEW t \in Sessions, phase'[t] = "ended" PROVE ~SupExists(t)'
    BY DEF EndedWithoutSup
  <2>1. CASE phase[t] = "ended"
    BY <2>1, <1>4 DEF EndedWithoutSup
  <2>2. CASE Reap(t)
    BY <2>2, <1>4 DEF Reap
  <2> QED
    BY <2>1, <2>2, FinishedStays
<1>6. CleanFinishLeavesNothing'
  <2> SUFFICES ASSUME NEW t \in Sessions, phase'[t] = "finished", t \notin latched'
               PROVE  Alive(t)' = {} /\ gate'[t] = "closed" /\ ~SupExists(t)'
    BY DEF CleanFinishLeavesNothing
  <2>1. CASE phase[t] = "finished"
    <3>1. t \notin latched
      BY FinishedStays
    <3>2. Alive(t) = {} /\ gate[t] = "closed" /\ ~SupExists(t)
      BY <2>1, <3>1 DEF CleanFinishLeavesNothing
    <3>3. Alive(t)' = {}
      BY <3>2, AliveShrinks DEF SupExists
    <3>4. gate'[t] = "closed"
      BY <2>1, <3>2, FinishedStays
    <3> QED
      BY <2>1, <3>2, <3>3, <3>4, <1>4
  <2>2. CASE Finish(t)
    BY <2>2, FinishClean
  <2>3. CASE KillUnconfirmed(t)
    BY <2>3 DEF KillUnconfirmed, LatchCleanup
  <2> QED
    BY <2>1, <2>2, <2>3, FinishedStays
<1> QED
  BY <1>1, <1>2, <1>3, <1>5, <1>6

\* Initially no session has ended.
LEMMA InitClean == Init => CleanInv
BY DEF Init, CleanInv, CompletionAtTheEnd, ReconciledIsEmpty, CleanCompletionIsEmpty,
   EndedWithoutSup, CleanFinishLeavesNothing, NoCompletion

\* A session that finished without latching recovery left no worker, no supervisor and
\* a closed gate, for any number of devices, sessions and crashes.
THEOREM CleanFinish == Spec => []CleanFinishLeavesNothing
<1>1. CleanInv => CleanFinishLeavesNothing
  BY DEF CleanInv
<1> QED
  BY <1>1, InitType, TypeStep, InitPermission, PermissionStep, InitClean, CleanStep, PTL
     DEF Spec

-----------------------------------------------------------------------------
(* No overlap within a process.  The latch lives in the memory of one      *)
(* primary process, so the argument ties every latched session of this     *)
(* process to it; a session that did not latch is empty by CleanFinish.    *)

Over == {"refused", "finished", "abandoned"}
BornInTime == \A s \in Sessions : born[s] <= crashes
LatchedIsLatch ==
  \A s \in Sessions : s \in latched /\ born[s] = crashes => latch
LatchedStarted == \A s \in latched : phase[s] # "unstarted"
AbandonedBefore == \A s \in Sessions : phase[s] = "abandoned" => born[s] < crashes
RefusedIsEmpty == \A s \in Sessions : phase[s] = "refused" => sup[s] = "none"
InOrder ==
  \A s, t \in Sessions : s < t /\ phase[t] # "unstarted" => phase[s] \in Over
NoSupOverlap ==
  \A s, t \in Sessions :
    s < t /\ sup[t] # "none" /\ born[s] = born[t] => Alive(s) = {} /\ ~SupExists(s)


OverlapInv ==
  /\ BornInTime
  /\ LatchedIsLatch
  /\ LatchedStarted
  /\ AbandonedBefore
  /\ RefusedIsEmpty
  /\ InOrder
  /\ NoSupOverlap

\* The order of sessions, the process that ran them and its latch, under a step of
\* the primary.
LEMMA PrimaryHistory ==
  ASSUME TypeOK, PermissionInv, OverlapInv, NEW s \in Sessions, PrimaryStep(s)
  PROVE  (BornInTime /\ LatchedIsLatch /\ LatchedStarted /\ AbandonedBefore /\ RefusedIsEmpty /\ InOrder)'
<1> USE DEF TypeOK, OverlapInv, BornInTime, LatchedIsLatch, LatchedStarted, AbandonedBefore, RefusedIsEmpty,
    InOrder, Over, processVars, sessionVars, supVars, nativeVars
<1>1. Sessions \subseteq Nat /\ crashes \in Nat /\ \A t \in Sessions : born[t] \in Nat
  BY SessionAssumption DEF Sessions
<1>2. CASE Refuse(s)
  <2>1. sup[s] = "none" /\ UNCHANGED <<born, crashes, latch, latched, sup>>
        /\ phase' = [phase EXCEPT ![s] = "refused"]
    BY <1>2 DEF Refuse, NextSession, PermissionInv, UnstartedHasNoSup
  <2>2. \A t \in Sessions : t < s => phase[t] \in Over
    BY <1>2, <1>1 DEF Refuse, NextSession, Sessions
  <2> QED
    BY <2>1, <2>2, <1>1
<1>3. CASE Start(s)
  <2>1. /\ UNCHANGED <<crashes, latch, latched>> /\ ~latch
        /\ phase[s] = "unstarted" /\ phase' = [phase EXCEPT ![s] = "live"]
        /\ born' = [born EXCEPT ![s] = crashes]
        /\ \A t \in Sessions : t # s => sup'[t] = sup[t]
    BY <1>3 DEF Start, NextSession
  <2>2. \A t \in Sessions : t < s => phase[t] \in Over
    BY <1>3, <1>1 DEF Start, NextSession, Sessions
  <2>3. BornInTime' /\ AbandonedBefore' /\ RefusedIsEmpty'
    BY <2>1, <1>1
  <2>4. InOrder'
    BY <2>1, <2>2, <1>1
  <2>5. LatchedIsLatch' /\ LatchedStarted'
    BY <2>1, <1>1
  <2> QED
    BY <2>3, <2>4, <2>5
<1>4. CASE ~Refuse(s) /\ ~Start(s)
  <2>1. UNCHANGED <<born, crashes>> /\ phase[s] \in {"live", "stopping", "ended"}
    BY <1>1, <1>4 DEF PrimaryStep, FinishStep, SeeReady, SendPermission, EndStage, Reap,
       ForceKill, KillUnconfirmed, Finish, LatchCleanup
  <2>2. UNCHANGED <<latch, latched>> \/ latch' = TRUE
    BY <1>1, <1>4 DEF PrimaryStep, FinishStep, SeeReady, SendPermission, EndStage, Reap,
       ForceKill, KillUnconfirmed, Finish, LatchCleanup
  <2>3. phase' = phase \/ \E p \in {"stopping", "ended", "finished"} : phase' = [phase EXCEPT ![s] = p]
    BY <1>4 DEF PrimaryStep, FinishStep, SeeReady, SendPermission, EndStage, Reap,
       ForceKill, KillUnconfirmed, Finish
  <2>4. \A t \in Sessions : sup[t] = "none" => sup'[t] = "none"
    BY <1>4 DEF PrimaryStep, FinishStep, SeeReady, SendPermission, EndStage, Reap,
       ForceKill, KillUnconfirmed, Finish, SupRuns, SupExists
  <2>5. InOrder' /\ RefusedIsEmpty' /\ AbandonedBefore'
    <3>1. InOrder'
      BY <2>1, <2>3
    <3>2. RefusedIsEmpty'
      BY <2>1, <2>3, <2>4
    <3>3. AbandonedBefore'
      BY <2>1, <2>3
    <3> QED
      BY <3>1, <3>2, <3>3
  <2>6. BornInTime' /\ LatchedIsLatch'
    BY <2>1, <2>2
  <2>7. latched' \subseteq latched \cup {s}
    BY <1>1, <1>4 DEF PrimaryStep, FinishStep, SeeReady, SendPermission, EndStage, Reap,
       ForceKill, KillUnconfirmed, Finish, LatchCleanup
  <2>8. LatchedStarted'
    <3>1. \A t \in Sessions : phase[t] # "unstarted" => phase'[t] # "unstarted"
      BY <2>3
    <3> QED
      BY <2>1, <2>7, <3>1
  <2> QED
    BY <2>5, <2>6, <2>8
<1> QED
  BY <1>2, <1>3, <1>4

\* The same under any step.
LEMMA HistoryStep ==
  ASSUME TypeOK, PermissionInv, OverlapInv, [Next]_vars
  PROVE  /\ (BornInTime /\ LatchedIsLatch /\ LatchedStarted /\ AbandonedBefore /\ RefusedIsEmpty /\ InOrder)'
         /\ \/ born' = born
            \/ \E s \in Sessions : Start(s)
<1> USE DEF TypeOK, OverlapInv, BornInTime, LatchedIsLatch, LatchedStarted, AbandonedBefore, RefusedIsEmpty,
    InOrder, Over, processVars, sessionVars, supVars, nativeVars
<1>1. Sessions \subseteq Nat /\ crashes \in Nat /\ \A t \in Sessions : born[t] \in Nat
  BY SessionAssumption DEF Sessions
<1> DEFINE Frame == UNCHANGED <<phase, born, crashes, latch, latched>>
<1>2. ASSUME NEW s \in Sessions, PrimaryStep(s)
      PROVE  born' = born \/ Start(s)
  BY <1>2 DEF PrimaryStep, FinishStep, Refuse, SeeReady, SendPermission, EndStage, Reap,
     ForceKill, KillUnconfirmed, Finish
<1>3. ASSUME NEW s \in Sessions, SupStep(s) PROVE Frame
  BY <1>3 DEF SupStep, LaunchStep, Register, Spawn, SendOwn, ReceiveReady, Offer, ReceiveAck,
     LaunchReturns, RowGoes, SayReady, TakePermission, ClaimDevices, WindDown, SupDies,
     ExitNotRun, LaunchFails, EndRun, Reconcile, Publish
<1>4. ASSUME NEW s \in Sessions, TimePasses(s) PROVE Frame
  BY <1>4 DEF TimePasses
<1>5. ASSUME NEW s \in Sessions, NEW d \in Devices, NativeStep(s, d) PROVE Frame
  BY <1>5 DEF NativeStep, BecomeOwner, Enter, Commit, WorkerExits, WorkerGoes
<1>6. ASSUME Restart \/ UNCHANGED vars PROVE Frame
  BY <1>6 DEF Restart, vars
<1>7. ASSUME Frame
      PROVE  (BornInTime /\ LatchedIsLatch /\ LatchedStarted /\ AbandonedBefore /\ RefusedIsEmpty /\ InOrder)'
  <2>1. \A t \in Sessions : phase[t] # "unstarted" /\ sup[t] = "none" => sup'[t] = "none"
    BY SupMoves
  <2> QED
    BY <1>7, <2>1
<1>8. ASSUME Crash
      PROVE  /\ (BornInTime /\ LatchedIsLatch /\ LatchedStarted /\ AbandonedBefore /\ RefusedIsEmpty /\ InOrder)'
             /\ born' = born
  <2>1. UNCHANGED <<born, latched, sup>> /\ crashes' = crashes + 1
        /\ \A t \in Sessions : phase'[t] = IF phase[t] \in {"live", "stopping", "ended"}
                                           THEN "abandoned" ELSE phase[t]
    BY <1>8 DEF Crash
  <2>2. \A t \in Sessions : born'[t] < crashes'
    BY <2>1, <1>1
  <2>3. BornInTime' /\ LatchedIsLatch' /\ LatchedStarted' /\ AbandonedBefore'
    BY <2>2, <2>1, <1>1
  <2>4. RefusedIsEmpty' /\ InOrder'
    BY <2>1
  <2> QED
    BY <2>1, <2>3, <2>4
<1> QED
  BY <1>2, <1>3, <1>4, <1>5, <1>6, <1>7, <1>8, StepCases, PrimaryHistory

\* A later supervisor is created only when every earlier session of the process is empty.
LEMMA OverlapStep ==
  TypeOK /\ PermissionInv /\ CleanInv /\ OverlapInv /\ [Next]_vars => OverlapInv'
<1> SUFFICES ASSUME TypeOK, PermissionInv, CleanInv, OverlapInv, [Next]_vars PROVE OverlapInv'
  OBVIOUS
<1>1. NoSupOverlap'
  <2> SUFFICES ASSUME NEW s \in Sessions, NEW t \in Sessions, s < t, sup'[t] # "none",
                      born'[s] = born'[t]
               PROVE  Alive(s)' = {} /\ ~SupExists(s)'
    BY DEF NoSupOverlap
  <2>1. phase[s] # "unstarted" /\ Alive(s) = {} /\ ~SupExists(s)
    <3>1. CASE Start(t)
      <4>1. phase[s] \in Over /\ ~latch /\ s # t /\ born[s] = crashes
        BY <3>1, SessionAssumption DEF Start, NextSession, Over, TypeOK, Sessions
      <4>2. CASE phase[s] = "refused"
        <5>1. sup[s] = "none"
          BY <4>2 DEF OverlapInv, RefusedIsEmpty
        <5> QED
          BY <4>2, <5>1, NoWorkersYet DEF Early, SupExists
      <4>3. CASE phase[s] = "finished"
        <5>1. s \notin latched
          BY <4>1 DEF OverlapInv, LatchedIsLatch
        <5> QED
          BY <4>3, <5>1 DEF CleanInv, CleanFinishLeavesNothing
      <4>4. CASE phase[s] = "abandoned"
        <5>1. born[s] < crashes /\ crashes \in Nat
          BY <4>4, SessionAssumption DEF OverlapInv, AbandonedBefore, TypeOK
        <5> QED
          BY <4>1, <5>1
      <4> QED
        BY <4>1, <4>2, <4>3, <4>4 DEF Over
    <3>2. CASE ~Start(t)
      <4>1. sup[t] # "none"
        BY <3>2, SupMoves
      <4>2. phase[t] # "unstarted"
        BY <4>1 DEF PermissionInv, UnstartedHasNoSup
      <4>3. phase[s] \in Over
        BY <4>2 DEF OverlapInv, InOrder
      <4>4. born[s] = born[t]
        <5>1. CASE born' = born
          BY <5>1
        <5>2. ASSUME NEW r \in Sessions, Start(r)
              PROVE  born[s] = born[t]
          <6>1. phase[r] = "unstarted" /\ born' = [born EXCEPT ![r] = crashes]
            BY <5>2 DEF Start, NextSession
          <6>2. r # s /\ r # t
            BY <6>1, <4>2, <4>3 DEF Over
          <6> QED
            BY <6>1, <6>2 DEF TypeOK
        <5> QED
          BY <5>1, <5>2, HistoryStep
      <4> QED
        BY <4>1, <4>3, <4>4 DEF OverlapInv, NoSupOverlap, Over
    <3> QED
      BY <3>1, <3>2
  <2>2. Alive(s)' = {}
    BY <2>1, AliveShrinks DEF SupExists
  <2>3. ~SupExists(s)'
    BY <2>1, SupMoves DEF SupExists
  <2> QED
    BY <2>2, <2>3
<1> QED
  BY <1>1, HistoryStep DEF OverlapInv

\* No later session of one process starts a supervisor while a worker of an earlier
\* session lives.
THEOREM NoOverlap == Spec => []NoOverlapInProcess
<1>1. OverlapInv => NoOverlapInProcess
  BY DEF OverlapInv, NoSupOverlap, NoOverlapInProcess
<1>2. Init => OverlapInv
  BY DEF Init, OverlapInv, BornInTime, LatchedIsLatch, LatchedStarted, AbandonedBefore, RefusedIsEmpty,
     InOrder, NoSupOverlap
<1> QED
  BY <1>1, <1>2, InitType, TypeStep, InitPermission, PermissionStep, InitClean, CleanStep,
     OverlapStep, PTL DEF Spec
-----------------------------------------------------------------------------
(* The admission report.  What finish() publishes is what the ownership    *)
(* rows said when the supervisor left, and a row is written before the     *)
(* commit it stands for: an offer before the guard, an acknowledgement     *)
(* after it.                                                               *)

Acknowledged == {"committed", "running"}
Offered == Acknowledged \cup {"offering"}

AcknowledgedIsCommitted ==
  \A s \in Sessions, d \in Devices : row[s][d] \in Acknowledged => d \in committed[s]
CommitsWereOffered ==
  \A s \in Sessions, d \in Devices :
    worker[s][d] = "inside" \/ d \in committed[s] => row[s][d] \in Offered
RowsInv == AcknowledgedIsCommitted /\ CommitsWereOffered

CompletionTruthful ==
  \A s \in Sessions : completion[s].kind # "none" =>
    /\ completion[s].state = "committed" => \E d \in Devices : row[s][d] \in Acknowledged
    /\ completion[s].clean /\ completion[s].state = "not_admitted" =>
         \A d \in Devices : row[s][d] \notin Offered
ReportAtTheEnd ==
  \A s \in Sessions : report[s] # "none" => phase[s] \in {"refused", "finished"}

\* What a step may do to the rows and commits of a session.
LEMMA RowMoves ==
  ASSUME TypeOK, [Next]_vars, NEW t \in Sessions
  PROVE  /\ sup[t] # "active" => row'[t] = row[t]
         /\ committed[t] \subseteq committed'[t]
         /\ ~SupExists(t) => committed'[t] = committed[t]
<1> USE DEF TypeOK, processVars, sessionVars, supVars, nativeVars
<1> DEFINE Goal == /\ sup[t] # "active" => row'[t] = row[t]
                   /\ committed[t] \subseteq committed'[t]
                   /\ ~SupExists(t) => committed'[t] = committed[t]
<1>1. ASSUME NEW s \in Sessions, PrimaryStep(s) PROVE Goal
  <2>1. UNCHANGED <<row, committed>>
    BY <1>1 DEF PrimaryStep, FinishStep, Refuse, Start, SeeReady, SendPermission, EndStage,
       Reap, ForceKill, KillUnconfirmed, Finish
  <2> QED
    BY <2>1
<1>2. ASSUME NEW s \in Sessions, SupStep(s) PROVE Goal
  <2>1. CASE SayReady(s) \/ TakePermission(s) \/ ClaimDevices(s) \/ WindDown(s) \/ SupDies(s)
    BY <2>1 DEF SayReady, TakePermission, ClaimDevices, WindDown, SupDies, ExitNotRun,
       LaunchFails, EndRun, Reconcile, Publish
  <2>2. ASSUME NEW d \in Devices, LaunchStep(s, d) PROVE Goal
    <3>1. sup[s] = "active" /\ committed' = committed /\ \E to : row' = [row EXCEPT ![s][d] = to]
      BY <2>2 DEF LaunchStep, Register, Spawn, SendOwn, ReceiveReady, Offer, ReceiveAck,
         LaunchReturns, RowGoes
    <3> QED
      BY <3>1
  <2> QED
    BY <1>2, <2>1, <2>2 DEF SupStep
<1>3. ASSUME NEW s \in Sessions, TimePasses(s) PROVE Goal
  BY <1>3 DEF TimePasses
<1>4. ASSUME NEW s \in Sessions, NEW d \in Devices, NativeStep(s, d) PROVE Goal
  <2>1. row' = row
    BY <1>4 DEF NativeStep, BecomeOwner, Enter, Commit, WorkerExits, WorkerGoes
  <2>2. CASE Commit(s, d)
    <3>1. SupExists(s) /\ committed' = [committed EXCEPT ![s] = @ \cup {d}]
      BY <2>2 DEF Commit
    <3> QED
      BY <2>1, <3>1
  <2>3. CASE ~Commit(s, d)
    <3>1. committed' = committed
      BY <1>4, <2>3 DEF NativeStep, BecomeOwner, Enter, WorkerExits
    <3> QED
      BY <2>1, <3>1
  <2> QED
    BY <2>2, <2>3
<1>5. CASE Crash \/ Restart \/ UNCHANGED vars
  <2>1. UNCHANGED <<row, committed>>
    BY <1>5 DEF Crash, Restart, vars
  <2> QED
    BY <2>1
<1> QED
  BY <1>1, <1>2, <1>3, <1>4, <1>5, StepCases

\* The row of an admitted worker was offered before and is acknowledged after.
LEMMA RowsStep == TypeOK /\ RowsInv /\ [Next]_vars => RowsInv'
<1> SUFFICES ASSUME TypeOK, RowsInv, [Next]_vars PROVE RowsInv'
  OBVIOUS
<1> USE DEF TypeOK, RowsInv, AcknowledgedIsCommitted, CommitsWereOffered, Offered, Acknowledged,
    processVars, sessionVars, supVars, nativeVars
<1>0. ASSUME UNCHANGED <<row, worker, committed>> PROVE RowsInv'
  BY <1>0
<1>1. ASSUME NEW s \in Sessions, PrimaryStep(s) PROVE RowsInv'
  <2>1. UNCHANGED <<row, worker, committed>>
    BY <1>1 DEF PrimaryStep, FinishStep, Refuse, Start, SeeReady, SendPermission, EndStage,
       Reap, ForceKill, KillUnconfirmed, Finish
  <2> QED
    BY <2>1, <1>0
<1>2. ASSUME NEW s \in Sessions, SupStep(s) PROVE RowsInv'
  <2>1. CASE SayReady(s) \/ TakePermission(s) \/ ClaimDevices(s) \/ WindDown(s) \/ SupDies(s)
    <3>1. UNCHANGED <<row, worker, committed>>
      BY <2>1 DEF SayReady, TakePermission, ClaimDevices, WindDown, SupDies, ExitNotRun,
         LaunchFails, EndRun, Reconcile, Publish
    <3> QED
      BY <3>1, <1>0
  <2>2. ASSUME NEW d \in Devices, LaunchStep(s, d) PROVE RowsInv'
    <3>1. committed' = committed
      BY <2>2 DEF LaunchStep, Register, Spawn, SendOwn, ReceiveReady, Offer, ReceiveAck,
         LaunchReturns, RowGoes
    <3>2. CASE Spawn(s, d)
      BY <3>1, <3>2 DEF Spawn, RowGoes
    <3>3. CASE Register(s, d) \/ SendOwn(s, d) \/ ReceiveReady(s, d) \/ Offer(s, d)
      <4>1. worker' = worker /\ row[s][d] \notin Offered
            /\ \E to \in {"pending", "told", "owned", "offering"} : row' = [row EXCEPT ![s][d] = to]
        BY <3>3 DEF Register, SendOwn, ReceiveReady, Offer, RowGoes
      <4> QED
        BY <3>1, <4>1
    <3>4. CASE ReceiveAck(s, d) \/ LaunchReturns(s, d)
      <4>1. worker' = worker /\ d \in committed[s]
            /\ \E to \in Acknowledged : row' = [row EXCEPT ![s][d] = to]
        BY <3>4 DEF ReceiveAck, LaunchReturns, RowGoes
      <4> QED
        BY <3>1, <4>1
    <3> QED
      BY <2>2, <3>2, <3>3, <3>4 DEF LaunchStep
  <2> QED
    BY <1>2, <2>1, <2>2 DEF SupStep
<1>3. ASSUME NEW s \in Sessions, TimePasses(s) PROVE RowsInv'
  BY <1>3, <1>0 DEF TimePasses
<1>4. ASSUME NEW s \in Sessions, NEW d \in Devices, NativeStep(s, d) PROVE RowsInv'
  <2>1. row' = row
    BY <1>4 DEF NativeStep, BecomeOwner, Enter, Commit, WorkerExits, WorkerGoes
  <2>2. CASE BecomeOwner(s, d) \/ WorkerExits(s, d)
    <3>1. committed' = committed /\ \E to \in {"owned", "dead"} : worker' = [worker EXCEPT ![s][d] = to]
      BY <2>2 DEF BecomeOwner, WorkerExits, WorkerGoes
    <3> QED
      BY <2>1, <3>1
  <2>3. CASE Enter(s, d)
    <3>1. committed' = committed /\ row[s][d] = "offering" /\ worker' = [worker EXCEPT ![s][d] = "inside"]
      BY <2>3 DEF Enter, WorkerGoes
    <3> QED
      BY <2>1, <3>1
  <2>4. CASE Commit(s, d)
    <3>1. /\ worker[s][d] = "inside"
          /\ worker' = [worker EXCEPT ![s][d] = "admitted"]
          /\ committed' = [committed EXCEPT ![s] = @ \cup {d}]
      BY <2>4 DEF Commit, WorkerGoes
    <3> QED
      BY <2>1, <3>1
  <2> QED
    BY <1>4, <2>2, <2>3, <2>4 DEF NativeStep
<1>5. CASE Crash \/ Restart \/ UNCHANGED vars
  <2>1. UNCHANGED <<row, worker, committed>>
    BY <1>5 DEF Crash, Restart, vars
  <2> QED
    BY <2>1, <1>0
<1> QED
  BY <1>1, <1>2, <1>3, <1>4, <1>5, StepCases

\* What a completion says of admission stays true of the rows it was read from.
LEMMA CompletionTruthStep ==
  ASSUME TypeOK, PermissionInv, CompletionAtTheEnd, CompletionTruthful, [Next]_vars
  PROVE  CompletionTruthful'
<1> SUFFICES ASSUME NEW t \in Sessions, completion'[t].kind # "none"
             PROVE  /\ completion'[t].state = "committed" =>
                         \E d \in Devices : row'[t][d] \in Acknowledged
                    /\ completion'[t].clean /\ completion'[t].state = "not_admitted" =>
                         \A d \in Devices : row'[t][d] \notin Offered
  BY DEF CompletionTruthful
<1>1. CASE completion'[t] = completion[t]
  <2>1. row'[t] = row[t]
    BY <1>1, RowMoves DEF CompletionAtTheEnd
  <2> QED
    BY <1>1, <2>1 DEF CompletionTruthful
<1>2. CASE completion'[t] # completion[t] /\ ExitNotRun(t)
  <2>1. row' = row /\ sup[t] \in Early
    BY <1>2 DEF ExitNotRun, Early
  <2>2. completion'[t] \in {NotRun, ErrorResult}
    BY <1>2 DEF ExitNotRun, TypeOK
  <2>3. \A d \in Devices : row[t][d] = "none"
    BY <2>1 DEF PermissionInv, NoRowsBeforeRun
  <2> QED
    BY <2>1, <2>2, <2>3 DEF NotRun, ErrorResult, Offered, Acknowledged
<1>3. CASE completion'[t] # completion[t] /\ Publish(t)
  <2>1. row' = row
    BY <1>3 DEF Publish
  <2>2. completion'[t] \in {[kind |-> "manifest", clean |-> clean[t], state |-> OwnershipState(t)],
                            ErrorResult}
    BY <1>3 DEF Publish, TypeOK
  <2>3. completion'[t] = ErrorResult \/ completion'[t].state = OwnershipState(t)
    BY <2>2
  <2> QED
    BY <2>1, <2>3 DEF ErrorResult, OwnershipState, Offered, Acknowledged
<1> QED
  BY <1>1, <1>2, <1>3, CompletionStep

\* A session is reported on once, when the primary is done with it.
LEMMA ReportMoves ==
  ASSUME TypeOK, ReportAtTheEnd, [Next]_vars, NEW t \in Sessions
  PROVE  /\ report'[t] # report[t] => Refuse(t) \/ KillUnconfirmed(t) \/ Finish(t)
         /\ report'[t] # "none" => phase'[t] \in {"refused", "finished"}
<1> USE DEF TypeOK, ReportAtTheEnd, processVars, sessionVars, supVars, nativeVars
<1> DEFINE Goal == /\ report'[t] # report[t] => Refuse(t) \/ KillUnconfirmed(t) \/ Finish(t)
                   /\ report'[t] # "none" => phase'[t] \in {"refused", "finished"}
<1>0. ASSUME UNCHANGED <<report, phase>> PROVE Goal
  BY <1>0
<1>1. ASSUME NEW s \in Sessions, PrimaryStep(s) PROVE Goal
  <2>1. CASE Refuse(s) \/ KillUnconfirmed(s) \/ Finish(s)
    <3>1. /\ \E p \in {"refused", "finished"} : phase' = [phase EXCEPT ![s] = p]
          /\ \E r : report' = [report EXCEPT ![s] = r]
      BY <2>1 DEF Refuse, KillUnconfirmed, Finish
    <3> QED
      BY <2>1, <3>1
  <2>2. CASE Start(s) \/ EndStage(s) \/ Reap(s)
    <3>1. /\ report' = report /\ phase[s] \in {"unstarted", "live", "stopping"}
          /\ \E p \in {"live", "stopping", "ended"} : phase' = [phase EXCEPT ![s] = p]
      BY <2>2 DEF Start, NextSession, EndStage, Reap
    <3> QED
      BY <3>1
  <2>3. CASE SeeReady(s) \/ SendPermission(s) \/ ForceKill(s)
    BY <1>0, <2>3 DEF SeeReady, SendPermission, ForceKill
  <2> QED
    BY <1>1, <2>1, <2>2, <2>3 DEF PrimaryStep, FinishStep
<1>2. ASSUME NEW s \in Sessions, SupStep(s) PROVE UNCHANGED <<report, phase>>
  BY <1>2 DEF SupStep, LaunchStep, Register, Spawn, SendOwn, ReceiveReady, Offer, ReceiveAck,
     LaunchReturns, RowGoes, SayReady, TakePermission, ClaimDevices, WindDown, SupDies,
     ExitNotRun, LaunchFails, EndRun, Reconcile, Publish
<1>3. ASSUME NEW s \in Sessions, TimePasses(s) PROVE UNCHANGED <<report, phase>>
  BY <1>3 DEF TimePasses
<1>4. ASSUME NEW s \in Sessions, NEW d \in Devices, NativeStep(s, d) PROVE UNCHANGED <<report, phase>>
  BY <1>4 DEF NativeStep, BecomeOwner, Enter, Commit, WorkerExits, WorkerGoes
<1>5. CASE Crash
  BY <1>5 DEF Crash
<1>6. CASE Restart \/ UNCHANGED vars
  BY <1>0, <1>6 DEF Restart, vars
<1> QED
  BY <1>0, <1>1, <1>2, <1>3, <1>4, <1>5, <1>6, StepCases

\* A session whose rows were never offered has no commit.
LEMMA NothingOffered ==
  ASSUME RowsInv, TypeOK, NEW s \in Sessions, \A d \in Devices : row[s][d] \notin Offered
  PROVE  committed[s] = {}
BY DEF RowsInv, CommitsWereOffered, TypeOK

\* finish() reports what the completion or the missing permission proves.
LEMMA FinishReport ==
  ASSUME TypeOK, PermissionInv, RowsInv, CompletionTruthful, NEW s \in Sessions, Finish(s)
  PROVE  /\ report'[s] = "not_admitted" /\ s \notin latched' => committed[s] = {}
         /\ report'[s] = "committed" => committed[s] # {}
<1>1. PICK readable, groupGone \in BOOLEAN :
        LET terminal == readable /\ completion[s].kind # "none"
            unowned == sup[s] # "none" /\ ~admitted[s] /\ ~groupGone
            missing == sup[s] # "none" /\ admitted[s] /\ ~terminal
            unclean == terminal /\ ~completion[s].clean
        IN /\ IF unowned \/ missing \/ unclean \/ s \in latched \/ gate'[s] # "closed"
              THEN LatchCleanup(s)
              ELSE UNCHANGED <<latch, marker, latched>>
           /\ report' = [report EXCEPT ![s] =
                           IF terminal THEN completion[s].state
                           ELSE IF admitted[s] THEN "unconfirmed" ELSE "not_admitted"]
  BY DEF Finish
<1> DEFINE terminal == readable /\ completion[s].kind # "none"
<1>2. report'[s] = IF terminal THEN completion[s].state
                   ELSE IF admitted[s] THEN "unconfirmed" ELSE "not_admitted"
  BY <1>1 DEF TypeOK
<1>3. ASSUME report'[s] = "not_admitted", s \notin latched' PROVE committed[s] = {}
  <2>1. ~LatchCleanup(s)
    BY <1>3 DEF LatchCleanup
  <2>2. CASE terminal
    <3>1. completion[s].clean
      BY <1>1, <2>1, <2>2
    <3>2. \A d \in Devices : row[s][d] \notin Offered
      BY <1>2, <1>3, <2>2, <3>1 DEF CompletionTruthful
    <3> QED
      BY <3>2, NothingOffered
  <2>3. CASE ~terminal
    <3>1. ~admitted[s]
      BY <1>2, <1>3, <2>3
    <3>2. \A d \in Devices : row[s][d] = "none"
      BY <3>1 DEF PermissionInv, PermissionMarked, RowsAfterPermission
    <3> QED
      BY <3>2, NothingOffered DEF Offered, Acknowledged
  <2> QED
    BY <2>2, <2>3
<1>4. ASSUME report'[s] = "committed" PROVE committed[s] # {}
  <2>1. terminal /\ completion[s].state = "committed"
    BY <1>2, <1>4
  <2>2. PICK d \in Devices : row[s][d] \in Acknowledged
    BY <2>1 DEF CompletionTruthful
  <2> QED
    BY <2>2 DEF RowsInv, AcknowledgedIsCommitted
<1> QED
  BY <1>3, <1>4

ReportInv == RowsInv /\ CompletionTruthful /\ ReportAtTheEnd /\ ReportMatchesCommits

\* The report stays true: a reported session admits nobody any more.
LEMMA ReportStep ==
  ASSUME TypeOK, PermissionInv, CleanInv, OverlapInv, ReportInv, [Next]_vars
  PROVE  ReportInv'
<1>1. RowsInv'
  BY RowsStep DEF ReportInv
<1>2. CompletionTruthful'
  BY CompletionTruthStep DEF CleanInv, ReportInv
<1>3. ReportAtTheEnd'
  BY ReportMoves DEF ReportInv, ReportAtTheEnd
<1>4. ReportMatchesCommits'
  <2> SUFFICES ASSUME NEW t \in Sessions
               PROVE  /\ report'[t] = "not_admitted" /\ t \notin latched' => committed'[t] = {}
                      /\ report'[t] = "committed" => committed'[t] # {}
    BY DEF ReportMatchesCommits
  <2>1. CASE report'[t] = report[t]
    <3>1. ASSUME report'[t] = "not_admitted", t \notin latched' PROVE committed'[t] = {}
      <4>1. t \notin latched /\ phase[t] \in {"refused", "finished"}
        BY <2>1, <3>1, FinishedStays DEF ReportInv, ReportAtTheEnd
      <4>2. ~SupExists(t)
        BY <4>1 DEF CleanInv, CleanFinishLeavesNothing, OverlapInv, RefusedIsEmpty, SupExists
      <4> QED
        BY <2>1, <3>1, <4>1, <4>2, RowMoves DEF ReportInv, ReportMatchesCommits
    <3>2. ASSUME report'[t] = "committed" PROVE committed'[t] # {}
      BY <2>1, <3>2, RowMoves DEF ReportInv, ReportMatchesCommits
    <3> QED
      BY <3>1, <3>2
  <2>2. CASE Refuse(t)
    <3>1. committed' = committed /\ sup[t] = "none" /\ report'[t] = "not_admitted"
      BY <2>2 DEF Refuse, NextSession, PermissionInv, UnstartedHasNoSup, nativeVars, TypeOK
    <3>2. \A d \in Devices : row[t][d] \notin Offered
      BY <3>1 DEF PermissionInv, NoRowsBeforeRun, Early, Offered, Acknowledged
    <3> QED
      BY <3>1, <3>2, NothingOffered DEF ReportInv
  <2>3. CASE KillUnconfirmed(t)
    BY <2>3 DEF KillUnconfirmed, LatchCleanup, TypeOK
  <2>4. CASE Finish(t)
    <3>1. committed' = committed
      BY <2>4 DEF Finish
    <3> QED
      BY <2>4, <3>1, FinishReport DEF ReportInv
  <2> QED
    BY <2>1, <2>2, <2>3, <2>4, ReportMoves DEF ReportInv
<1> QED
  BY <1>1, <1>2, <1>3, <1>4 DEF ReportInv

\* The admission state of a finished session agrees with the native commits, unless
\* cleanup was reported unconfirmed.
THEOREM ReportsAreTrue == Spec => []ReportMatchesCommits
<1>1. ReportInv => ReportMatchesCommits
  BY DEF ReportInv
<1>2. Init => OverlapInv
  BY DEF Init, OverlapInv, BornInTime, LatchedIsLatch, LatchedStarted, AbandonedBefore, RefusedIsEmpty,
     InOrder, NoSupOverlap
<1>3. Init => ReportInv
  BY DEF Init, ReportInv, RowsInv, AcknowledgedIsCommitted, CommitsWereOffered, Acknowledged, Offered,
     CompletionTruthful, NoCompletion, ReportAtTheEnd, ReportMatchesCommits
<1> QED
  BY <1>1, <1>2, <1>3, InitType, TypeStep, InitPermission, PermissionStep, InitClean, CleanStep,
     OverlapStep, ReportStep, PTL DEF Spec
-----------------------------------------------------------------------------
(* Every session's gate is an abstract stage gate: each step of the system *)
(* maps to one step of StageGate for the session it concerns, or to a      *)
(* stutter.  A closed gate has nobody inside, so a late revoke() of it     *)
(* changes nothing.                                                        *)

ClosedIsEmpty == \A s \in Sessions : gate[s] = "closed" => Inside(s) = {}

\* One session's gate, seen as the abstract gate, takes a step or stutters.
GateStep(s) == [Gate(s)!Next]_(Gate(s)!vars)

GateFrame(s) == gate'[s] = gate[s] /\ Inside(s)' = Inside(s) /\ committed'[s] = committed[s]

\* revoke() maps to a request, a closure or nothing.
LEMMA RevokeIsAbstract ==
  ASSUME TypeOK, ClosedIsEmpty, NEW s \in Sessions, gate'[s] = Revoked(s),
         Inside(s)' = Inside(s), committed'[s] = committed[s]
  PROVE  GateStep(s) /\ (gate'[s] = "closed" => Inside(s)' = {})
<1>1. gate[s] \in {"open", "requested", "closed"}
  BY DEF TypeOK
<1>2. CASE Inside(s) = {} /\ gate[s] # "closed"
  BY <1>2 DEF Revoked, GateStep, Gate!Next, Gate!Close
<1>3. CASE Inside(s) = {} /\ gate[s] = "closed"
  BY <1>3 DEF Revoked, GateStep, Gate!vars
<1>4. CASE Inside(s) # {} /\ gate[s] = "open"
  BY <1>4 DEF Revoked, GateStep, Gate!Next, Gate!Request
<1>5. CASE Inside(s) # {} /\ gate[s] = "requested"
  BY <1>5 DEF Revoked, GateStep, Gate!vars
<1> QED
  BY <1>1, <1>2, <1>3, <1>4, <1>5 DEF ClosedIsEmpty
\* A step of one session leaves the gates of the others alone, and uses its own as
\* StageGate allows.
LEMMA GatesStep ==
  ASSUME TypeOK, PermissionInv, ClosedIsEmpty, [Next]_vars, NEW t \in Sessions
  PROVE  GateStep(t) /\ (gate'[t] = "closed" => Inside(t)' = {})
<1> USE DEF TypeOK, processVars, sessionVars, supVars, nativeVars
<1> DEFINE Goal == GateStep(t) /\ (gate'[t] = "closed" => Inside(t)' = {})
<1>0. ASSUME GateFrame(t) PROVE Goal
  BY <1>0 DEF GateFrame, GateStep, Gate!vars, ClosedIsEmpty
<1>a. ASSUME NEW s \in Sessions, UNCHANGED <<worker, committed>>,
             gate' = gate \/ gate' = [gate EXCEPT ![s] = Revoked(s)]
      PROVE  Goal
  <2>1. Inside(t)' = Inside(t) /\ committed'[t] = committed[t]
    BY <1>a DEF Inside
  <2>2. CASE gate'[t] = gate[t]
    BY <1>0, <2>1, <2>2 DEF GateFrame
  <2>3. CASE gate'[t] # gate[t]
    <3>1. gate'[t] = Revoked(t)
      BY <1>a, <2>3
    <3> QED
      BY <2>1, <3>1, RevokeIsAbstract
  <2> QED
    BY <2>2, <2>3
<1>1. ASSUME NEW s \in Sessions, PrimaryStep(s) PROVE Goal
  <2>1. UNCHANGED <<worker, committed>>
    BY <1>1 DEF PrimaryStep, FinishStep, Refuse, Start, SeeReady, SendPermission, EndStage,
       Reap, ForceKill, KillUnconfirmed, Finish
  <2>2. gate' = gate \/ gate' = [gate EXCEPT ![s] = Revoked(s)]
    BY <1>1 DEF PrimaryStep, FinishStep, Refuse, Start, SeeReady, SendPermission, EndStage,
       Reap, ForceKill, KillUnconfirmed, Finish
  <2> QED
    BY <1>a, <2>1, <2>2
<1>2. ASSUME NEW s \in Sessions, SupStep(s) PROVE Goal
  <2>1. CASE SayReady(s) \/ TakePermission(s) \/ ClaimDevices(s) \/ WindDown(s) \/ SupDies(s)
    <3>1. UNCHANGED <<worker, committed>>
      BY <2>1 DEF SayReady, TakePermission, ClaimDevices, WindDown, SupDies, ExitNotRun,
         LaunchFails, EndRun, Reconcile, Publish
    <3>2. gate' = gate \/ gate' = [gate EXCEPT ![s] = Revoked(s)]
      <4>1. CASE ExitNotRun(s)
        <5>1. gate' = [gate EXCEPT ![s] = Revoked(s)] \/ gate' = [gate EXCEPT ![s] = gate[s]]
          BY <4>1 DEF ExitNotRun
        <5> QED
          BY <5>1
      <4>2. CASE ~ExitNotRun(s)
        BY <2>1, <4>2 DEF SayReady, TakePermission, ClaimDevices, WindDown, SupDies,
           LaunchFails, EndRun, Reconcile, Publish
      <4> QED
        BY <4>1, <4>2
    <3> QED
      BY <1>a, <3>1, <3>2
  <2>2. ASSUME NEW d \in Devices, LaunchStep(s, d) PROVE Goal
    <3>1. UNCHANGED <<gate, committed>>
      BY <2>2 DEF LaunchStep, Register, Spawn, SendOwn, ReceiveReady, Offer, ReceiveAck,
         LaunchReturns, RowGoes
    <3>2. CASE Spawn(s, d)
      <4>1. worker[s][d] = "none" /\ worker' = [worker EXCEPT ![s][d] = "boot"]
        BY <3>2 DEF Spawn, RowGoes, PermissionInv, WorkersAfterSpawn
      <4>2. Inside(t)' = Inside(t)
        BY <4>1 DEF Inside
      <4> QED
        BY <1>0, <3>1, <4>2 DEF GateFrame
    <3>3. CASE ~Spawn(s, d)
      <4>1. worker' = worker
        BY <2>2, <3>3 DEF LaunchStep, Register, SendOwn, ReceiveReady, Offer, ReceiveAck,
           LaunchReturns
      <4> QED
        BY <1>0, <3>1, <4>1 DEF GateFrame, Inside
    <3> QED
      BY <3>2, <3>3
  <2> QED
    BY <1>2, <2>1, <2>2 DEF SupStep
<1>3. ASSUME NEW s \in Sessions, TimePasses(s) PROVE Goal
  BY <1>3, <1>0 DEF TimePasses, GateFrame, Inside
<1>4. ASSUME NEW s \in Sessions, NEW d \in Devices, NativeStep(s, d) PROVE Goal
  <2>1. gate' = gate
    BY <1>4 DEF NativeStep, BecomeOwner, Enter, Commit, WorkerExits, WorkerGoes
  <2>2. PICK to \in {"owned", "inside", "admitted", "dead"} : worker' = [worker EXCEPT ![s][d] = to]
    BY <1>4 DEF NativeStep, BecomeOwner, Enter, Commit, WorkerExits, WorkerGoes
  <2>3. committed' = committed \/ committed' = [committed EXCEPT ![s] = @ \cup {d}]
    BY <1>4 DEF NativeStep, BecomeOwner, Enter, Commit, WorkerExits
  <2>4. CASE s # t
    BY <1>0, <2>1, <2>2, <2>3, <2>4 DEF GateFrame, Inside
  <2>5. CASE s = t /\ BecomeOwner(s, d)
    <3>1. worker[t][d] = "boot" /\ worker' = [worker EXCEPT ![t][d] = "owned"] /\ committed' = committed
      BY <2>5 DEF BecomeOwner, WorkerGoes
    <3>2. Inside(t)' = Inside(t)
      BY <3>1 DEF Inside
    <3> QED
      BY <1>0, <2>1, <3>1, <3>2 DEF GateFrame
  <2>6. CASE s = t /\ Enter(s, d)
    <3>1. /\ gate[t] = "open" /\ Inside(t) = {} /\ committed' = committed
          /\ worker' = [worker EXCEPT ![t][d] = "inside"]
      BY <2>6 DEF Enter, StageOpen, WorkerGoes
    <3>2. Inside(t)' = {d}
      BY <3>1 DEF Inside
    <3>3. Gate(t)!Enter(d)
      BY <2>1, <3>1, <3>2 DEF Gate!Enter
    <3> QED
      BY <2>1, <3>1, <3>3 DEF GateStep, Gate!Next
  <2>7. CASE s = t /\ Commit(s, d)
    <3>1. /\ d \in Inside(t) /\ worker' = [worker EXCEPT ![t][d] = "admitted"]
          /\ committed'[t] = committed[t] \cup {d}
      BY <2>7 DEF Commit, WorkerGoes, Inside
    <3>2. Inside(t)' = Inside(t) \ {d}
      BY <3>1 DEF Inside
    <3>3. Gate(t)!Admit(d)
      BY <2>1, <3>1, <3>2 DEF Gate!Admit
    <3> QED
      BY <2>1, <3>2, <3>3 DEF GateStep, Gate!Next, ClosedIsEmpty
  <2>8. CASE s = t /\ WorkerExits(s, d)
    <3>1. worker' = [worker EXCEPT ![t][d] = "dead"] /\ committed' = committed
      BY <2>8 DEF WorkerExits
    <3>2. Inside(t)' = Inside(t) \ {d}
      BY <3>1 DEF Inside
    <3>3. CASE d \in Inside(t)
      <4>1. Gate(t)!Leave(d)
        BY <2>1, <3>1, <3>2, <3>3 DEF Gate!Leave
      <4> QED
        BY <2>1, <3>2, <4>1 DEF GateStep, Gate!Next, ClosedIsEmpty
    <3>4. CASE d \notin Inside(t)
      <4>1. Inside(t)' = Inside(t)
        BY <3>2, <3>4
      <4> QED
        BY <1>0, <2>1, <3>1, <4>1 DEF GateFrame
    <3> QED
      BY <3>3, <3>4
  <2> QED
    BY <1>4, <2>4, <2>5, <2>6, <2>7, <2>8 DEF NativeStep
<1>5. CASE Crash \/ Restart \/ UNCHANGED vars
  <2>1. UNCHANGED <<gate, worker, committed>>
    BY <1>5 DEF Crash, Restart, vars
  <2> QED
    BY <1>0, <2>1 DEF GateFrame, Inside
<1> QED
  BY <1>1, <1>2, <1>3, <1>4, <1>5, StepCases

\* Every session uses its gate as the abstract gate allows, for any number of devices
\* and sessions: AdmissionGateProofs shows the same of the native protocol.
THEOREM SessionsUseStageGates == Spec => GatesAreStageGates
<1>1. Init => (\A s \in Sessions : Gate(s)!Init) /\ ClosedIsEmpty
  <2> SUFFICES ASSUME Init PROVE (\A s \in Sessions : Gate(s)!Init) /\ ClosedIsEmpty
    OBVIOUS
  <2>1. \A s \in Sessions : gate[s] = "open" /\ Inside(s) = {} /\ committed[s] = {}
    BY DEF Init, Inside
  <2> QED
    BY <2>1 DEF Gate!Init, ClosedIsEmpty
<1>2. TypeOK /\ PermissionInv /\ ClosedIsEmpty /\ [Next]_vars
        => ClosedIsEmpty' /\ [\A s \in Sessions : [Gate(s)!Next]_(Gate(s)!vars)]_vars
  <2> SUFFICES ASSUME TypeOK, PermissionInv, ClosedIsEmpty, [Next]_vars
               PROVE  ClosedIsEmpty' /\ \A s \in Sessions : GateStep(s)
    BY DEF GateStep
  <2> QED
    BY GatesStep DEF ClosedIsEmpty
<1> QED
  BY <1>1, <1>2, InitType, TypeStep, InitPermission, PermissionStep, PTL
     DEF Spec, GatesAreStageGates
=============================================================================
