------------------------- MODULE AdmissionGateProofs -------------------------
(***************************************************************************)
(* The admission protocol proved for any set of guards and revokers, any   *)
(* deadline and any horizon.  The argument is lock ownership: a guard      *)
(* between its open check and its unlock owns the lock, a revoker that may *)
(* write the closed byte owns it too, so the byte cannot change while a    *)
(* guard is deciding.  What the lock does not protect, the request byte,   *)
(* is covered by the second read after the clock sample.  The same lock    *)
(* keeps all but one guard from committing past the deadline.              *)
(***************************************************************************)
EXTENDS AdmissionGate, TLAPS

Holding == Window \cup {"locked"}
Undecided == GuardStates \ {"decided", "running", "dead"}

(* The strengthening, one named part per idea.                             *)
GuardsOwnTheLock == \A g \in Guards : gpc[g] \in Holding => lock = g
RevokersOwnTheLock == \A r \in Revokers : rpc[r] \in {"locked", "written"} => lock = r
RequestedFirst ==
  /\ \A r \in Revokers : rpc[r] \in {"requesting", "locked", "written"} => requested
  /\ late # {} => requested
ClosedShutsOut == closed => \A g \in Guards : gpc[g] \notin Window
ConfirmedIsClosed == \A r \in Revokers : outcome[r] = "confirmed" => closed
DecisionsPending ==
  /\ \A g \in Guards : gpc[g] \in Undecided => g \notin admitted
  /\ \A g \in Guards : gpc[g] = "reread" => g \notin late
ClosedWasRequested == closed => requested

\* A guard past its clock sample that can still commit: sampled in time.
Timely(g) == gpc[g] \in {"sampled", "reread"} /\ sample[g] < Deadline

\* Whoever commits past the deadline sampled before it, holding the lock then and
\* since, so from the first such commit on nobody timely is left behind it.
OverdueIsAlone ==
  /\ overdue # {} => now >= Deadline
  /\ overdue # {} => \A g \in Guards : ~Timely(g)
  /\ OneCommitAfterDeadline

IInv ==
  /\ TypeOK
  /\ GuardsOwnTheLock
  /\ RevokersOwnTheLock
  /\ RequestedFirst
  /\ ClosedShutsOut
  /\ ConfirmedIsClosed
  /\ DecisionsPending
  /\ AdmittedSampledBeforeRequest
  /\ ClosedWasRequested
  /\ OverdueIsAlone

-----------------------------------------------------------------------------
(* Each process's step, split by action, is used by every proof below.     *)

RStep(r) == Request(r) \/ RevokeStep(r) \/ RevokeRaises(r) \/ RevokerDies(r)
GStep(g) == ReceiveOwn(g) \/ SeeOffer(g) \/ GuardStep(g) \/ GuardDies(g)

\* Every step is a revoker's, a guard's, the clock's or a stutter.
LEMMA StepCases ==
  ASSUME [Next]_vars
  PROVE  \/ \E r \in Revokers : RStep(r)
         \/ \E g \in Guards : GStep(g)
         \/ Tick
         \/ UNCHANGED vars
BY DEF Next, RStep, GStep

\* The initial states satisfy the invariant: nothing is held, requested or sampled.
LEMMA InitInv == Init => IInv
<1> SUFFICES ASSUME Init PROVE IInv
  OBVIOUS
<1> USE DEF Init
<1>1. TypeOK
  <2>1. now \in 0..Horizon /\ Unsampled \in 0..Unsampled
    BY TimeAssumption DEF Unsampled
  <2>2. sample \in [Guards -> 0..Unsampled]
    BY <2>1
  <2>3. gpc \in [Guards -> GuardStates] /\ rpc \in [Revokers -> RevokerStates]
    BY DEF GuardStates, RevokerStates
  <2>4. outcome \in [Revokers -> {"none", "pending", "confirmed", "error"}]
    OBVIOUS
  <2> QED
    BY <2>1, <2>2, <2>3, <2>4 DEF TypeOK
<1>2. GuardsOwnTheLock /\ ClosedShutsOut
  BY DEF GuardsOwnTheLock, ClosedShutsOut, Holding, Window
<1>3. RevokersOwnTheLock /\ RequestedFirst /\ ConfirmedIsClosed
  BY DEF RevokersOwnTheLock, RequestedFirst, ConfirmedIsClosed
<1>4. DecisionsPending /\ AdmittedSampledBeforeRequest /\ ClosedWasRequested
  BY DEF DecisionsPending, AdmittedSampledBeforeRequest, ClosedWasRequested
<1>5. OverdueIsAlone
  BY DEF OverdueIsAlone, OneCommitAfterDeadline
<1> QED
  BY <1>1, <1>2, <1>3, <1>4, <1>5 DEF IInv

\* Types are preserved by every step.
LEMMA TypeStep == TypeOK /\ [Next]_vars => TypeOK'
<1> SUFFICES ASSUME TypeOK, [Next]_vars PROVE TypeOK'
  OBVIOUS
<1> USE ProcessAssumption, TimeAssumption DEF TypeOK, GuardStates, RevokerStates, Unsampled,
    gateVars, histories, guardVars, revokerVars, LockAfterDeath
<1>1. CASE \E r \in Revokers : RStep(r)
  BY <1>1 DEF RStep, RevokeStep, Request, RevokeLocks, RevokePending, WriteClosed, Confirm,
     RevokeRaises, RevokerDies
<1>2. CASE \E g \in Guards : GStep(g)
  BY <1>2 DEF GStep, GuardStep, Moves, ReceiveOwn, SeeOffer, TakeLock, EnterOpen,
     ReceiveDescriptor, ReadBeforeSample, TakeSample, ReadAfterSample, Decide, Unlock,
     Reject, GuardDies
<1>3. CASE Tick
  BY <1>3 DEF Tick
<1>4. CASE UNCHANGED vars
  BY <1>4 DEF vars
<1> QED
  BY <1>1, <1>2, <1>3, <1>4, StepCases

\* Lock ownership is preserved: the lock is taken only when free, and given up
\* only by its owner.
LEMMA LockStep ==
  TypeOK /\ GuardsOwnTheLock /\ RevokersOwnTheLock /\ [Next]_vars
    => GuardsOwnTheLock' /\ RevokersOwnTheLock'
<1> SUFFICES ASSUME TypeOK, GuardsOwnTheLock, RevokersOwnTheLock, [Next]_vars
             PROVE  GuardsOwnTheLock' /\ RevokersOwnTheLock'
  OBVIOUS
<1> USE ProcessAssumption DEF TypeOK, GuardsOwnTheLock, RevokersOwnTheLock, Holding, Window,
    gateVars, histories, guardVars, revokerVars, LockAfterDeath
<1>1. ASSUME NEW r \in Revokers, RStep(r)
      PROVE  GuardsOwnTheLock' /\ RevokersOwnTheLock'
  <2>1. CASE Request(r) \/ RevokePending(r)
    BY <2>1 DEF Request, RevokePending
  <2>2. CASE RevokeLocks(r)
    BY <2>2 DEF RevokeLocks
  <2>3. CASE WriteClosed(r) \/ Confirm(r)
    BY <2>3 DEF WriteClosed, Confirm
  <2>4. CASE RevokeRaises(r) \/ RevokerDies(r)
    BY <2>4 DEF RevokeRaises, RevokerDies
  <2> QED
    BY <1>1, <2>1, <2>2, <2>3, <2>4 DEF RStep, RevokeStep
<1>2. ASSUME NEW g \in Guards, GStep(g)
      PROVE  GuardsOwnTheLock' /\ RevokersOwnTheLock'
  <2>1. CASE ReceiveOwn(g) \/ SeeOffer(g)
    BY <2>1 DEF ReceiveOwn, SeeOffer, Moves
  <2>2. CASE TakeLock(g)
    BY <2>2 DEF TakeLock, Moves
  <2>3. CASE EnterOpen(g) \/ ReceiveDescriptor(g) \/ ReadBeforeSample(g)
    BY <2>3 DEF EnterOpen, ReceiveDescriptor, ReadBeforeSample, Moves
  <2>4. CASE TakeSample(g) \/ ReadAfterSample(g) \/ Decide(g)
    BY <2>4 DEF TakeSample, ReadAfterSample, Decide, Moves
  <2>5. CASE Unlock(g)
    BY <2>5 DEF Unlock, Moves
  <2>6. CASE Reject(g) \/ GuardDies(g)
    BY <2>6 DEF Reject, GuardDies
  <2> QED
    BY <1>2, <2>1, <2>2, <2>3, <2>4, <2>5, <2>6 DEF GStep, GuardStep
<1>3. CASE Tick
  BY <1>3 DEF Tick
<1>4. CASE UNCHANGED vars
  BY <1>4 DEF vars
<1> QED
  BY <1>1, <1>2, <1>3, <1>4, StepCases

\* The order of the bytes is preserved: the request is written first and stays,
\* the closed byte follows under the lock and keeps guards out, and only a
\* revoker that read both bytes back reports closure.
LEMMA BytesStep ==
  IInv /\ [Next]_vars
    => RequestedFirst' /\ ClosedShutsOut' /\ ConfirmedIsClosed' /\ ClosedWasRequested'
<1> SUFFICES ASSUME IInv, [Next]_vars
             PROVE  /\ RequestedFirst' /\ ClosedShutsOut'
                    /\ ConfirmedIsClosed' /\ ClosedWasRequested'
  OBVIOUS
<1> USE ProcessAssumption DEF IInv, TypeOK, RequestedFirst, ClosedShutsOut, ConfirmedIsClosed,
    ClosedWasRequested, Window, gateVars, histories, guardVars, revokerVars
<1>1. ASSUME NEW r \in Revokers, RStep(r)
      PROVE  /\ RequestedFirst' /\ ClosedShutsOut'
             /\ ConfirmedIsClosed' /\ ClosedWasRequested'
  <2>1. CASE Request(r)
    BY <2>1 DEF Request
  <2>2. CASE RevokeLocks(r) \/ RevokePending(r)
    BY <2>2 DEF RevokeLocks, RevokePending
  <2>3. CASE WriteClosed(r)
    <3>1. lock = r /\ requested
      BY <2>3 DEF WriteClosed, RevokersOwnTheLock
    <3>2. \A g \in Guards : gpc[g] \notin Window
      BY <3>1 DEF GuardsOwnTheLock, Holding
    <3> QED
      BY <2>3, <3>1, <3>2 DEF WriteClosed
  <2>4. CASE Confirm(r)
    BY <2>4 DEF Confirm
  <2>5. CASE RevokeRaises(r) \/ RevokerDies(r)
    BY <2>5 DEF RevokeRaises, RevokerDies
  <2> QED
    BY <1>1, <2>1, <2>2, <2>3, <2>4, <2>5 DEF RStep, RevokeStep
<1>2. ASSUME NEW g \in Guards, GStep(g)
      PROVE  /\ RequestedFirst' /\ ClosedShutsOut'
             /\ ConfirmedIsClosed' /\ ClosedWasRequested'
  <2>1. CASE ReceiveOwn(g) \/ SeeOffer(g) \/ TakeLock(g) \/ Unlock(g)
    BY <2>1 DEF ReceiveOwn, SeeOffer, TakeLock, Unlock, Moves
  <2>2. CASE EnterOpen(g)
    BY <2>2 DEF EnterOpen, Moves, StageOpen, BytesOpen
  <2>3. CASE ReceiveDescriptor(g) \/ ReadBeforeSample(g) \/ ReadAfterSample(g) \/ Decide(g)
    BY <2>3 DEF ReceiveDescriptor, ReadBeforeSample, ReadAfterSample, Decide, Moves
  <2>4. CASE TakeSample(g)
    BY <2>4 DEF TakeSample, Moves
  <2>5. CASE Reject(g) \/ GuardDies(g)
    BY <2>5 DEF Reject, GuardDies
  <2> QED
    BY <1>2, <2>1, <2>2, <2>3, <2>4, <2>5 DEF GStep, GuardStep
<1>3. CASE Tick
  BY <1>3 DEF Tick
<1>4. CASE UNCHANGED vars
  BY <1>4 DEF vars
<1> QED
  BY <1>1, <1>2, <1>3, <1>4, StepCases

\* A guard that sampled late is refused by its second read, so it never decides.
LEMMA DecisionStep ==
  IInv /\ [Next]_vars => DecisionsPending' /\ AdmittedSampledBeforeRequest'
<1> SUFFICES ASSUME IInv, [Next]_vars
             PROVE  DecisionsPending' /\ AdmittedSampledBeforeRequest'
  OBVIOUS
<1> USE DEF IInv, TypeOK, DecisionsPending, AdmittedSampledBeforeRequest, Undecided, GuardStates,
    gateVars, histories, guardVars, revokerVars
<1>1. ASSUME NEW r \in Revokers, RStep(r)
      PROVE  DecisionsPending' /\ AdmittedSampledBeforeRequest'
  BY <1>1 DEF RStep, RevokeStep, Request, RevokeLocks, RevokePending, WriteClosed, Confirm,
     RevokeRaises, RevokerDies
<1>2. ASSUME NEW g \in Guards, GStep(g)
      PROVE  DecisionsPending' /\ AdmittedSampledBeforeRequest'
  <2>1. CASE ReceiveOwn(g) \/ SeeOffer(g) \/ TakeLock(g) \/ EnterOpen(g)
    BY <2>1 DEF ReceiveOwn, SeeOffer, TakeLock, EnterOpen, Moves
  <2>2. CASE ReceiveDescriptor(g) \/ ReadBeforeSample(g) \/ Unlock(g)
    BY <2>2 DEF ReceiveDescriptor, ReadBeforeSample, Unlock, Moves
  <2>3. CASE TakeSample(g)
    BY <2>3 DEF TakeSample, Moves
  <2>4. CASE ReadAfterSample(g)
    <3>1. g \notin late
      BY <2>4 DEF ReadAfterSample, BytesOpen, RequestedFirst
    <3> QED
      BY <2>4, <3>1 DEF ReadAfterSample, Moves
  <2>5. CASE Decide(g)
    BY <2>5 DEF Decide, Moves
  <2>6. CASE Reject(g) \/ GuardDies(g)
    BY <2>6 DEF Reject, GuardDies
  <2> QED
    BY <1>2, <2>1, <2>2, <2>3, <2>4, <2>5, <2>6 DEF GStep, GuardStep
<1>3. CASE Tick
  BY <1>3 DEF Tick
<1>4. CASE UNCHANGED vars
  BY <1>4 DEF vars
<1> QED
  BY <1>1, <1>2, <1>3, <1>4, StepCases

\* A commit past the deadline leaves no timely guard, for the one that commits
\* owned the lock; and no guard becomes timely once the deadline has passed.
LEMMA OverdueStep == IInv /\ [Next]_vars => OverdueIsAlone'
<1> SUFFICES ASSUME IInv, [Next]_vars PROVE OverdueIsAlone'
  OBVIOUS
<1> USE TimeAssumption DEF IInv, TypeOK, OverdueIsAlone, OneCommitAfterDeadline, Timely,
    Unsampled, gateVars, histories, guardVars, revokerVars
<1>1. ASSUME NEW r \in Revokers, RStep(r) PROVE OverdueIsAlone'
  BY <1>1 DEF RStep, RevokeStep, Request, RevokeLocks, RevokePending, WriteClosed, Confirm,
     RevokeRaises, RevokerDies
<1>2. ASSUME NEW g \in Guards, GStep(g) PROVE OverdueIsAlone'
  <2>1. CASE ReceiveOwn(g) \/ SeeOffer(g) \/ TakeLock(g) \/ EnterOpen(g)
    BY <2>1 DEF ReceiveOwn, SeeOffer, TakeLock, EnterOpen, Moves
  <2>2. CASE ReceiveDescriptor(g) \/ ReadBeforeSample(g) \/ Unlock(g)
    BY <2>2 DEF ReceiveDescriptor, ReadBeforeSample, Unlock, Moves
  <2>3. CASE TakeSample(g)
    <3>1. overdue # {} => ~(now < Deadline)
      OBVIOUS
    <3>2. sample'[g] = now /\ \A h \in Guards \ {g} : sample'[h] = sample[h] /\ gpc'[h] = gpc[h]
      BY <2>3 DEF TakeSample, Moves
    <3> QED
      BY <2>3, <3>1, <3>2 DEF TakeSample, Moves
  <2>4. CASE ReadAfterSample(g)
    BY <2>4 DEF ReadAfterSample, Moves
  <2>5. CASE Decide(g)
    <3>1. gpc[g] = "reread" /\ sample[g] < Deadline
      BY <2>5 DEF Decide, Moves
    <3>2. overdue = {}
      BY <3>1
    <3>3. \A h \in Guards : gpc[h] \in {"sampled", "reread"} => h = g
      BY <3>1 DEF GuardsOwnTheLock, Holding, Window
    <3>4. overdue' \subseteq {g} /\ (overdue' # {} => now >= Deadline)
      BY <2>5, <3>2 DEF Decide
    <3>5. gpc' = [gpc EXCEPT ![g] = "decided"] /\ sample' = sample /\ now' = now
      BY <2>5 DEF Decide, Moves
    <3> QED
      BY <3>3, <3>4, <3>5
  <2>6. CASE Reject(g) \/ GuardDies(g)
    BY <2>6 DEF Reject, GuardDies
  <2> QED
    BY <1>2, <2>1, <2>2, <2>3, <2>4, <2>5, <2>6 DEF GStep, GuardStep
<1>3. CASE Tick
  BY <1>3 DEF Tick
<1>4. CASE UNCHANGED vars
  BY <1>4 DEF vars
<1> QED
  BY <1>1, <1>2, <1>3, <1>4, StepCases

\* The strengthening is an invariant of the protocol.
LEMMA Invariance == Spec => []IInv
<1>1. IInv /\ [Next]_vars => IInv'
  BY TypeStep, LockStep, BytesStep, DecisionStep, OverdueStep DEF IInv
<1> QED
  BY <1>1, InitInv, PTL DEF Spec

-----------------------------------------------------------------------------
(* The results.                                                            *)

\* Every variable keeps its type: the lock has at most one owner and the commit
\* timestamps stay on the clock's scale.
THEOREM TypeCorrect == Spec => []TypeOK
BY Invariance, PTL DEF IInv

\* For any number of guards and revokers, no guard commits on a clock sample
\* taken after the closure request.
THEOREM SampledBeforeRequest == Spec => []AdmittedSampledBeforeRequest
BY Invariance, PTL DEF IInv

\* A True from revoke() means that the byte is closed and that no guard is left
\* between its open check and its unlock.
THEOREM ConfirmedClosure == Spec => []ConfirmedMeansNoneInFlight
<1>1. IInv => ConfirmedMeansNoneInFlight
  BY DEF IInv, ConfirmedIsClosed, ClosedShutsOut, ConfirmedMeansNoneInFlight
<1> QED
  BY <1>1, Invariance, PTL

\* Closure is final: no step admits a guard once the closed byte is written.
THEOREM ClosureIsFinal == Spec => NoAdmissionAfterClosure
<1>1. IInv /\ [Next]_vars => [closed => admitted' = admitted]_vars
  <2> SUFFICES ASSUME IInv, [Next]_vars, closed PROVE admitted' = admitted
    OBVIOUS
  <2> USE DEF guardVars, histories, gateVars, revokerVars
  <2>1. CASE \E r \in Revokers : RStep(r)
    BY <2>1 DEF RStep, RevokeStep, Request, RevokeLocks, RevokePending, WriteClosed, Confirm,
       RevokeRaises, RevokerDies
  <2>2. ASSUME NEW g \in Guards, GStep(g) PROVE admitted' = admitted
    <3>1. ~Decide(g)
      BY DEF IInv, ClosedShutsOut, Window, Decide, Moves
    <3> QED
      BY <2>2, <3>1 DEF GStep, GuardStep, ReceiveOwn, SeeOffer, TakeLock, EnterOpen,
         ReceiveDescriptor, ReadBeforeSample, TakeSample, ReadAfterSample, Unlock,
         Reject, GuardDies
  <2>3. CASE Tick \/ UNCHANGED vars
    BY <2>3 DEF Tick, vars
  <2> QED
    BY <2>1, <2>2, <2>3, StepCases
<1> QED
  BY <1>1, Invariance, PTL DEF Spec, NoAdmissionAfterClosure

\* However many guards are offered a descriptor and however the clock runs, one
\* of them at most commits after the deadline has passed.
THEOREM OneLateCommit == Spec => []OneCommitAfterDeadline
BY Invariance, PTL DEF IInv, OverdueIsAlone

-----------------------------------------------------------------------------
(* Refinement: the memfd protocol is the abstract gate.                    *)

\* Only the open check, the decision and a guard's end move the abstract guards.
LEMMA GuardsImplement ==
  ASSUME IInv, NEW g \in Guards, GStep(g)
  PROVE  [Abstract!Next]_(Abstract!vars)
<1> USE DEF IInv, TypeOK, gateVars, histories, guardVars, revokerVars, GateState, Inside,
    Abstract!vars
<1>1. CASE EnterOpen(g)
  <2>1. GateState = "open" /\ Inside = {}
    BY <1>1 DEF EnterOpen, Moves, StageOpen, BytesOpen, GuardsOwnTheLock, Holding, Window
  <2>2. GateState' = GateState /\ Inside' = {g} /\ admitted' = admitted
    BY <1>1, <2>1 DEF EnterOpen, Moves
  <2>3. Abstract!Enter(g)
    BY <2>1, <2>2 DEF Abstract!Enter
  <2> QED
    BY <2>3 DEF Abstract!Next
<1>2. CASE Decide(g)
  <2>1. g \in Inside /\ Inside' = Inside \ {g} /\ GateState' = GateState
    BY <1>2 DEF Decide, Moves
  <2>2. Abstract!Admit(g)
    BY <1>2, <2>1 DEF Decide, Abstract!Admit
  <2> QED
    BY <2>2 DEF Abstract!Next
<1>3. CASE Reject(g) \/ GuardDies(g)
  <2>1. Inside' = Inside \ {g} /\ GateState' = GateState /\ admitted' = admitted
    BY <1>3 DEF Reject, GuardDies
  <2>2. CASE g \in Inside
    <3>1. Abstract!Leave(g)
      BY <2>1, <2>2 DEF Abstract!Leave
    <3> QED
      BY <3>1 DEF Abstract!Next
  <2>3. CASE g \notin Inside
    BY <2>1, <2>3
  <2> QED
    BY <2>2, <2>3
<1>4. CASE ReceiveOwn(g) \/ SeeOffer(g) \/ TakeLock(g) \/ Unlock(g)
  <2>1. Inside' = Inside
    BY <1>4 DEF ReceiveOwn, SeeOffer, TakeLock, Unlock, Moves
  <2> QED
    BY <1>4, <2>1 DEF ReceiveOwn, SeeOffer, TakeLock, Unlock
<1>5. CASE ReceiveDescriptor(g) \/ ReadBeforeSample(g) \/ TakeSample(g) \/ ReadAfterSample(g)
  <2>1. Inside' = Inside
    BY <1>5 DEF ReceiveDescriptor, ReadBeforeSample, TakeSample, ReadAfterSample, Moves
  <2> QED
    BY <1>5, <2>1 DEF ReceiveDescriptor, ReadBeforeSample, TakeSample, ReadAfterSample
<1> QED
  BY <1>1, <1>2, <1>3, <1>4, <1>5 DEF GStep, GuardStep

\* Only the first request and the first closed byte move the abstract gate.
LEMMA RevokersImplement ==
  ASSUME IInv, NEW r \in Revokers, RStep(r)
  PROVE  [Abstract!Next]_(Abstract!vars)
<1> USE DEF IInv, TypeOK, gateVars, histories, guardVars, revokerVars, GateState, Inside,
    Abstract!vars
<1>1. CASE Request(r)
  <2>1. Inside' = Inside /\ admitted' = admitted
    BY <1>1 DEF Request
  <2>2. CASE GateState = "open"
    <3>1. Abstract!Request
      BY <1>1, <2>1, <2>2 DEF Request, Abstract!Request
    <3> QED
      BY <3>1 DEF Abstract!Next
  <2>3. CASE GateState # "open"
    BY <1>1, <2>1, <2>3 DEF Request, ClosedWasRequested
  <2> QED
    BY <2>2, <2>3
<1>2. CASE WriteClosed(r)
  <2>1. Inside' = Inside /\ admitted' = admitted /\ requested' = requested /\ closed'
    BY <1>2 DEF WriteClosed
  <2>2. lock = r /\ requested
    BY <1>2 DEF WriteClosed, RevokersOwnTheLock, RequestedFirst
  <2>3. Inside = {}
    BY <2>2, ProcessAssumption DEF GuardsOwnTheLock, Holding, Window
  <2>4. CASE closed
    BY <2>1, <2>4
  <2>5. CASE ~closed
    <3>1. Abstract!Close
      BY <2>1, <2>2, <2>3, <2>5 DEF Abstract!Close
    <3> QED
      BY <3>1 DEF Abstract!Next
  <2> QED
    BY <2>4, <2>5
<1>3. CASE RevokeLocks(r) \/ RevokePending(r) \/ Confirm(r) \/ RevokeRaises(r) \/ RevokerDies(r)
  BY <1>3 DEF RevokeLocks, RevokePending, Confirm, RevokeRaises, RevokerDies
<1> QED
  BY <1>1, <1>2, <1>3 DEF RStep, RevokeStep

\* The six bytes, the lock and the double read implement the abstract gate for
\* any number of processes.
THEOREM GateImplemented == Spec => ImplementsStageGate
<1>1. Init => Abstract!Init
  BY DEF Init, Abstract!Init, GateState, Inside
<1>2. IInv /\ [Next]_vars => [Abstract!Next]_(Abstract!vars)
  <2> SUFFICES ASSUME IInv, [Next]_vars PROVE [Abstract!Next]_(Abstract!vars)
    OBVIOUS
  <2>1. CASE Tick \/ UNCHANGED vars
    BY <2>1 DEF Tick, vars, gateVars, histories, guardVars, revokerVars, Abstract!vars,
       GateState, Inside
  <2> QED
    BY <2>1, StepCases, GuardsImplement, RevokersImplement
<1> QED
  BY <1>1, <1>2, Invariance, PTL DEF Spec, ImplementsStageGate, Abstract!Spec
=============================================================================
