------------------------ MODULE StageExecutionProofs ------------------------
(***************************************************************************)
(* What StageExecution guarantees for every number of workers, stages,     *)
(* retunes and interrupts.                                                 *)
(*                                                                         *)
(* The inductive invariant says, for each place the primary can be at,     *)
(* which list still names every worker that may be running.  It has to     *)
(* speak of the three lists at once: the shutdown is right because the     *)
(* live loop hands its list back, and the workers that escape an operator  *)
(* stop, or another exception of the loop, are exactly those a retune put  *)
(* in the list that is then lost.                                          *)
(***************************************************************************)
EXTENDS StageExecution, TLAPS

RetunePcs == {"retune", "rwait", "rpopen", "rswap"}

\* Only the newest process of a slot can be running.
Newest ==
  /\ \A s \in Slots, g \in Gens : Live(s, g) => g = created[s]
  /\ \A s \in Slots : /\ owned[s] <= created[s]
                      /\ loop[s] <= created[s]
                      /\ updated[s] <= created[s]

\* While launching: what runs was appended, or is about to be.
WhileLaunching ==
  /\ pc = "popen" => \A s \in Slots, g \in Gens : Live(s, g) => s < at /\ g = owned[s]
  /\ pc = "append" => \A s \in Slots, g \in Gens :
                         Live(s, g) => (s < at /\ g = owned[s]) \/ s = at
  /\ pc = "launched" => \A s \in Slots, g \in Gens : Live(s, g) => g = owned[s]

\* In the live loop: what runs is in the loop's list, or in the one a retune fills.
WhileLooping ==
  /\ pc \in {"loop", "handback"} =>
       /\ \A s \in Slots, g \in Gens : Live(s, g) => g = loop[s]
       /\ \A s \in Slots : loop[s] # 0 => owned[s] # 0
  /\ pc \in RetunePcs =>
       /\ \A s \in Slots, g \in Gens :
            Live(s, g) => g = updated[s] \/ (pc = "rswap" /\ s = at)
       /\ \A s \in Slots : updated[s] # 0 => owned[s] # 0
  /\ pc \in {"rwait", "rpopen", "rswap"} => updated[at] # 0
  /\ pc = "rpopen" => \A g \in Gens : ~Live(at, g)

\* From the finally block on: what runs is still to be stopped, or escaped.
WhileStopping ==
  /\ pc = "term" =>
       \A s \in Slots, g \in Gens : Live(s, g) => g = owned[s] \/ Escaped(s, g)
  /\ pc = "wait" =>
       \A s \in Slots, g \in Gens : Live(s, g) => (g = owned[s] /\ at <= s) \/ Escaped(s, g)
  /\ pc = "finish" /\ raising # "stop" =>
       \A s \in Slots, g \in Gens : Live(s, g) => Escaped(s, g)
  /\ pc \in EndPcs \cup {"done"} =>
       \A s \in Slots, g \in Gens : Live(s, g) => Escaped(s, g)
  /\ pc = "begin" => \A s \in Slots, g \in Gens : ~Live(s, g)
  /\ pc \in EndPcs \cup {"begin", "done"} => session # "open"

\* An operator stop keeps its verdict until the run is over.
StopIsAborted ==
  stopped => verdict = "aborted" /\ pc \in StopPcs \cup EndPcs \cup Terminal \cup {"finish"}

\* An exception that left the live loop is on its way only through the finally block.
RaisedInLoop ==
  raising = "loop" => pc \in StopPcs \cup {"finish", "clear", "raised", "crashed"}

\* The marker stays from before the first launch until after the last stop.
MarkedWhileWorking ==
  /\ pc \notin Terminal \cup {"begin", "evaluate", "book"} => marker \/ GpuSlots = {}
  /\ MarkerCoversWorkers

IInv == TypeOK /\ Newest /\ WhileLaunching /\ WhileLooping /\ WhileStopping
          /\ StopIsAborted /\ RaisedInLoop /\ MarkedWhileWorking

-----------------------------------------------------------------------------
(* Types.                                                                  *)

Processes == [Slots -> [Gens -> ProcStates]]

\* The program counters by name.
LEMMA PcNames ==
  {"begin", "popen", "append", "launched", "lterm", "lwait", "loop", "retune", "rwait", "rpopen",
   "rswap", "handback", "term", "wait", "finish", "clear", "evaluate", "book", "done", "raised",
   "crashed"} = Pcs
BY DEF Pcs, LaunchPcs, LoopPcs, StopPcs, EndPcs, Terminal

\* An entry of a list is a process that can be signalled.
LEMMA EntryType ==
  ASSUME NEW list \in Lists, NEW s \in Slots, list[s] # 0
  PROVE  list[s] \in Gens
BY ExecutionAssumption DEF Lists, Gens

\* Signals and exits leave a process in one of its states.
LEMMA SignalType ==
  ASSUME proc \in Processes, NEW s \in Slots, NEW g \in Gens,
         \/ Terminate(s, g)
         \/ Kill(s, g)
         \/ proc' = [proc EXCEPT ![s][g] = "gone"]
  PROVE  proc' \in Processes
BY DEF Processes, Terminate, Kill, ProcStates

\* kill() on an entry that is not there changes nothing.
LEMMA KillType ==
  ASSUME proc \in Processes, NEW s \in Slots, NEW g \in 0..MaxGen, Kill(s, g)
  PROVE  proc' \in Processes
BY ExecutionAssumption DEF Processes, Kill, ProcStates, Gens

\* So does creating one.
LEMMA PopenType ==
  ASSUME proc \in Processes, created \in Lists, NEW s \in Slots, Popen(s)
  PROVE  /\ proc' \in Processes
         /\ created' \in Lists
         /\ created[s] + 1 \in Gens
<1>1. created[s] \in Nat /\ created[s] + 1 \in Gens /\ created[s] + 1 \in 0..MaxGen
  BY ExecutionAssumption DEF Popen, Lists, Gens
<1>2. proc' \in Processes
  BY <1>1 DEF Popen, Processes, ProcStates
<1>3. created' \in Lists
  BY <1>1 DEF Popen, Lists
<1> QED BY <1>1, <1>2, <1>3

\* apply_stage_events() returns a verdict.
LEMMA VerdictType ==
  ASSUME NEW v \in Verdicts, NEW severity \in {"error", "warning"},
         NEW abort \in BOOLEAN, NEW only \in BOOLEAN
  PROVE  VerdictAfter(v, severity, abort, only) \in Verdicts
BY DEF VerdictAfter, Verdicts

LEMMA InitType == Init => TypeOK
<1> SUFFICES ASSUME Init PROVE TypeOK
  OBVIOUS
<1>1. NoEntries \in Lists
  BY ExecutionAssumption DEF NoEntries, Lists
<1>2. proc \in Processes
  BY DEF Init, Processes, ProcStates
<1>3. stage \in 1..MaxStage /\ at \in 1..(Entries + 1) /\ interrupts \in 0..MaxInterrupt
  BY ExecutionAssumption DEF Init
<1>4. pc \in Pcs /\ verdict \in Verdicts
  BY PcNames DEF Init, Verdicts
<1> QED BY <1>1, <1>2, <1>3, <1>4 DEF Init, TypeOK, Processes

\* Launching keeps the types.
LEMMA LaunchType == TypeOK /\ Launching => TypeOK'
<1> SUFFICES ASSUME TypeOK, Launching PROVE TypeOK'
  OBVIOUS
<1> USE PcNames DEF TypeOK, procVars, listVars, resultVars
<1>a. proc \in Processes
  BY DEF Processes
<1>b. at \in Slots => at + 1 \in 1..(Entries + 1)
  BY ExecutionAssumption DEF Slots
<1>1. CASE StartLifecycle
  <2>1. NoEntries \in Lists /\ 1 \in 1..(Entries + 1)
    BY ExecutionAssumption DEF NoEntries, Lists
  <2> QED BY <1>1, <2>1 DEF StartLifecycle, Verdicts
<1>2. CASE LaunchRefused \/ LaunchReturns \/ EnterLoop
  BY <1>2 DEF LaunchRefused, LaunchReturns, EnterLoop
<1>3. CASE LaunchWorker
  <2>1. proc' \in Processes /\ created' \in Lists
    BY <1>3, <1>a, PopenType DEF LaunchWorker
  <2> QED BY <1>3, <2>1 DEF LaunchWorker, Processes
<1>4. CASE LaunchFails
  BY <1>4, <1>b DEF LaunchFails
<1>5. CASE AppendEntry
  <2>1. owned' \in Lists
    BY <1>5 DEF AppendEntry, Lists
  <2> QED BY <1>5, <2>1, <1>b DEF AppendEntry
<1> QED BY <1>1, <1>2, <1>3, <1>4, <1>5 DEF Launching


\* The live loop and its retune passes keep the types.
LEMMA LoopType == TypeOK /\ Looping => TypeOK'
<1> SUFFICES ASSUME TypeOK, Looping PROVE TypeOK'
  OBVIOUS
<1> USE PcNames DEF TypeOK, procVars, listVars, resultVars
<1>a. proc \in Processes
  BY DEF Processes
<1>b. (at \in Slots => at + 1 \in 1..(Entries + 1)) /\ 1 \in 1..(Entries + 1)
  BY ExecutionAssumption DEF Slots
<1>1. CASE TimeUp \/ RetuneBegins \/ RetuneReturns \/ HandBack
  BY <1>1, <1>b DEF TimeUp, RetuneBegins, RetuneReturns, HandBack
<1>2. CASE LoopEvent
  <2>1. PICK severity \in {"error", "warning"}, abort \in BOOLEAN :
          /\ verdict' = VerdictAfter(verdict, severity, abort, FALSE)
          /\ pc' = IF severity = "error" /\ abort THEN "handback" ELSE "loop"
    BY <1>2 DEF LoopEvent
  <2>2. verdict' \in Verdicts
    BY <2>1, VerdictType
  <2> QED BY <1>2, <2>1, <2>2 DEF LoopEvent
<1>3. CASE SystemSafety
  BY <1>3 DEF SystemSafety, Verdicts
<1>4. CASE RetuneSkips
  BY <1>4, <1>b DEF RetuneSkips
<1>5. CASE RetuneTerminates
  <2>1. at \in Slots
    BY <1>5, ExecutionAssumption DEF RetuneTerminates, Slots
  <2>2. updated[at] \in Gens
    BY <1>5, <2>1, EntryType DEF RetuneTerminates
  <2>3. proc' \in Processes
    BY <1>5, <1>a, <2>1, <2>2, SignalType DEF RetuneTerminates
  <2> QED BY <1>5, <2>1, <2>3 DEF RetuneTerminates, Processes
<1>6. CASE RetuneWait
  <2>1. at \in Slots /\ updated[at] \in 0..MaxGen
    BY <1>6 DEF RetuneWait, Lists
  <2>2. proc' \in Processes
    BY <1>6, <1>a, <2>1, KillType DEF RetuneWait
  <2> QED BY <1>6, <2>2 DEF RetuneWait, Processes
<1>7. CASE RetunePopen
  <2>1. at \in Slots
    BY <1>7 DEF RetunePopen
  <2>2. proc' \in Processes /\ created' \in Lists
    BY <1>7, <1>a, <2>1, PopenType DEF RetunePopen
  <2>3. /\ at' \in 1..(Entries + 1) /\ pc' \in {"rswap", "retune"}
        /\ (pc' = "rswap" => at' \in Slots)
    BY <1>7, <1>b, <2>1 DEF RetunePopen
  <2> QED BY <1>7, <2>2, <2>3 DEF RetunePopen, Processes
<1>8. CASE RetuneSwap
  <2>1. updated' \in Lists
    BY <1>8 DEF RetuneSwap, Lists
  <2> QED BY <1>8, <1>b, <2>1 DEF RetuneSwap
<1> QED BY <1>1, <1>2, <1>3, <1>4, <1>5, <1>6, <1>7, <1>8 DEF Looping

\* Stopping, evaluation and bookkeeping keep the types.
LEMMA StopType == TypeOK /\ Stopping => TypeOK'
<1> SUFFICES ASSUME TypeOK, Stopping PROVE TypeOK'
  OBVIOUS
<1> USE PcNames DEF TypeOK, procVars, listVars, resultVars
<1>a. proc \in Processes
  BY DEF Processes
<1>b. (at \in Slots => at + 1 \in 1..(Entries + 1)) /\ 1 \in 1..(Entries + 1)
  BY ExecutionAssumption DEF Slots
<1>c. ASSUME at \in Slots, \/ owned[at] = 0 /\ UNCHANGED proc
                           \/ owned[at] # 0 /\ (Terminate(at, owned[at]) \/ Kill(at, owned[at]))
      PROVE  proc' \in Processes
  <2>1. CASE owned[at] # 0
    <3>1. owned[at] \in Gens
      BY <1>c, <2>1, EntryType
    <3> QED BY <1>a, <1>c, <2>1, <3>1, SignalType
  <2> QED BY <1>a, <1>c, <2>1
<1>1. CASE StopTerminates
  <2>1. proc' \in Processes
    BY <1>1, <1>c DEF StopTerminates
  <2> QED BY <1>1, <1>b, <2>1 DEF StopTerminates, Processes
<1>2. CASE StopWaits
  <2>1. proc' \in Processes
    BY <1>2, <1>c DEF StopWaits
  <2> QED BY <1>2, <1>b, <2>1 DEF StopWaits, Processes
<1>3. CASE StopPassEnds \/ StopReturns
  BY <1>3, <1>b DEF StopPassEnds, StopReturns
<1>4. CASE FinishSession \/ ClearMarker
  BY <1>4 DEF FinishSession, ClearMarker
<1>5. CASE Evaluate
  <2>1. ASSUME NEW severity \in {"error", "warning"}, NEW abort \in BOOLEAN,
               verdict' = VerdictAfter(verdict, severity, abort, TRUE)
        PROVE  verdict' \in Verdicts
    BY <2>1, VerdictType
  <2>2. verdict' \in Verdicts
    BY <1>5, <2>1 DEF Evaluate
  <2> QED BY <1>5, <2>2 DEF Evaluate
<1>6. CASE Bookkeeping
  <2>1. PICK fault \in BOOLEAN, abort \in BOOLEAN :
          verdict' = IF fault THEN VerdictAfter(verdict, "error", abort, TRUE) ELSE verdict
    BY <1>6 DEF Bookkeeping
  <2>2. verdict' \in Verdicts
    BY <2>1, VerdictType
  <2>3. \/ pc' = "done" /\ UNCHANGED stage
        \/ stage < MaxStage /\ pc' = "begin" /\ stage' = stage + 1
    BY <1>6 DEF Bookkeeping
  <2>4. stage' \in 1..MaxStage
    BY <2>3, ExecutionAssumption
  <2> QED BY <1>6, <2>2, <2>3, <2>4 DEF Bookkeeping
<1> QED BY <1>1, <1>2, <1>3, <1>4, <1>5, <1>6 DEF Stopping

\* Interrupts, exits and crashes keep the types.
LEMMA EventType == TypeOK /\ (Interrupted \/ WorkerExits \/ Crash) => TypeOK'
<1> SUFFICES ASSUME TypeOK, Interrupted \/ WorkerExits \/ Crash PROVE TypeOK'
  OBVIOUS
<1> USE PcNames DEF TypeOK, procVars, listVars, resultVars
<1>1. CASE Interrupted
  <2>1. interrupts' \in 0..MaxInterrupt
    BY <1>1, ExecutionAssumption
       DEF Interrupted, Interrupt, InterruptLaunch, RaiseUnguarded, OperatorStop, LoopRaises,
           InterruptStop, InterruptFinish
  <2>2. 1 \in 1..(Entries + 1) /\ "aborted" \in Verdicts
    BY ExecutionAssumption DEF Verdicts
  <2> QED BY <1>1, <2>1, <2>2 DEF Interrupted, InterruptLaunch, RaiseUnguarded, OperatorStop,
                                  LoopRaises, InterruptStop, InterruptFinish
<1>2. CASE WorkerExits
  <2>1. proc' \in Processes
    BY <1>2, SignalType DEF WorkerExits, Processes
  <2> QED BY <1>2, <2>1 DEF WorkerExits, Processes
<1>3. CASE Crash
  BY <1>3 DEF Crash
<1> QED BY <1>1, <1>2, <1>3

LEMMA StepType == TypeOK /\ [Next]_vars => TypeOK'
<1>1. TypeOK /\ UNCHANGED vars => TypeOK'
  BY DEF TypeOK, vars, procVars, listVars, resultVars
<1> QED BY <1>1, LaunchType, LoopType, StopType, EventType DEF Next

\* Type correctness: no handler, at any interrupt, leaves the types the code's
\* variables have, and no signal goes to a process that was never created.
THEOREM TypeCorrect == Spec => []TypeOK
BY InitType, StepType, PTL DEF Spec


-----------------------------------------------------------------------------
(* What signals do to the workers that may be running.                     *)

LEMMA TerminateLive ==
  ASSUME proc \in Processes, NEW s \in Slots, NEW g \in Gens, Terminate(s, g)
  PROVE  \A x \in Slots, h \in Gens : Live(x, h)' => Live(x, h)
BY DEF Processes, Terminate, Live

LEMMA KillLive ==
  ASSUME proc \in Processes, NEW s \in Slots, NEW g \in 0..MaxGen, Kill(s, g)
  PROVE  \A x \in Slots, h \in Gens : Live(x, h)' => Live(x, h) /\ ~(x = s /\ h = g)
BY DEF Processes, Kill, Live

LEMMA PopenLive ==
  ASSUME proc \in Processes, created \in Lists, NEW s \in Slots, Popen(s)
  PROVE  /\ \A x \in Slots, h \in Gens :
              Live(x, h)' => Live(x, h) \/ (x = s /\ h = created[s] + 1)
         /\ created'[s] = created[s] + 1
         /\ \A x \in Slots : x # s => created'[x] = created[x]
BY DEF Processes, Lists, Popen, Live

LEMMA ExitLive ==
  ASSUME TypeOK, WorkerExits
  PROVE  \A x \in Slots, h \in Gens : Live(x, h)' => Live(x, h)
BY DEF TypeOK, WorkerExits, Live

\* A list's entry is a number, and a generation is not 0.
LEMMA Numbers ==
  ASSUME TypeOK
  PROVE  /\ at \in Nat /\ Entries \in Nat /\ Slots = 1..Entries
         /\ \A s \in Slots : /\ s \in Nat /\ created[s] \in Nat /\ owned[s] \in Nat
                             /\ loop[s] \in Nat /\ updated[s] \in Nat
         /\ \A g \in Gens : g \in Nat /\ g # 0
BY ExecutionAssumption DEF TypeOK, Lists, Slots, Gens

-----------------------------------------------------------------------------
(* The inductive invariant, one lemma for each phase of the stage.         *)

LEMMA InitInv == Init => IInv
<1> SUFFICES ASSUME Init PROVE IInv
  OBVIOUS
<1>1. TypeOK
  BY InitType
<1>2. \A s \in Slots, g \in Gens : ~Live(s, g)
  BY DEF Init, Live
<1>3. Newest
  BY <1>2 DEF Newest, Init, NoEntries
<1>4. WhileLaunching /\ WhileLooping /\ WhileStopping
  BY <1>2 DEF WhileLaunching, WhileLooping, WhileStopping, Init, RetunePcs, EndPcs
<1>5. StopIsAborted /\ RaisedInLoop /\ MarkedWhileWorking
  BY <1>2, ExecutionAssumption
     DEF StopIsAborted, RaisedInLoop, MarkedWhileWorking, MarkerCoversWorkers, Escaped, Init,
         Slots
<1> QED BY <1>1, <1>3, <1>4, <1>5 DEF IInv

LEMMA LaunchInv == IInv /\ Launching => IInv'
<1> SUFFICES ASSUME IInv, Launching PROVE IInv'
  OBVIOUS
<1>0. TypeOK /\ TypeOK'
  BY LaunchType DEF IInv
<1> USE DEF IInv, procVars, listVars, resultVars
<1>1. CASE StartLifecycle
  <2>1. (\A s \in Slots, g \in Gens : ~Live(s, g)) /\ UNCHANGED proc
    BY <1>1 DEF StartLifecycle, WhileStopping
  <2>2. \A s \in Slots, g \in Gens : ~Live(s, g)'
    BY <2>1 DEF Live
  <2>3. Newest'
    BY <1>1, <1>0, <2>2, Numbers DEF StartLifecycle, Newest, NoEntries
  <2>4. WhileLaunching' /\ WhileLooping' /\ WhileStopping'
    BY <1>1, <2>2 DEF StartLifecycle, WhileLaunching, WhileLooping, WhileStopping, RetunePcs,
                      EndPcs
  <2>5. StopIsAborted' /\ RaisedInLoop' /\ MarkedWhileWorking'
    BY <1>1, <2>2, ExecutionAssumption
       DEF StartLifecycle, StopIsAborted, RaisedInLoop, MarkedWhileWorking, MarkerCoversWorkers,
           Slots, StopPcs, Terminal
  <2> QED BY <1>0, <2>3, <2>4, <2>5
<1>2. CASE LaunchRefused \/ LaunchReturns \/ EnterLoop
  <2>1. Newest'
    BY <1>2 DEF LaunchRefused, LaunchReturns, EnterLoop, Newest, Live
  <2>2. WhileLaunching' /\ WhileLooping' /\ WhileStopping'
    BY <1>2 DEF LaunchRefused, LaunchReturns, EnterLoop, Live, WhileLaunching, WhileLooping,
                WhileStopping, RetunePcs, EndPcs
  <2>3. StopIsAborted' /\ RaisedInLoop' /\ MarkedWhileWorking'
    BY <1>2 DEF LaunchRefused, LaunchReturns, EnterLoop, Live, StopIsAborted, RaisedInLoop,
                MarkedWhileWorking, MarkerCoversWorkers, Escaped, Terminal, StopPcs, EndPcs
  <2> QED BY <1>0, <2>1, <2>2, <2>3
<1>3. CASE LaunchWorker
  <2>1. at \in Slots /\ pc = "popen" /\ Popen(at) /\ proc \in Processes /\ created \in Lists
    BY <1>3, <1>0 DEF LaunchWorker, TypeOK, Processes
  <2>2. \A s \in Slots, g \in Gens : Live(s, g)' => Live(s, g) \/ (s = at /\ g = created'[at])
    BY <2>1, PopenLive
  <2>3. \A s \in Slots, g \in Gens : Live(s, g) => s < at /\ g = owned[s]
    BY <2>1 DEF WhileLaunching
  <2>4. \A s \in Slots, g \in Gens : Live(s, g)' => g = created'[s]
    <3> SUFFICES ASSUME NEW s \in Slots, NEW g \in Gens, Live(s, g)'
                 PROVE  g = created'[s]
      OBVIOUS
    <3>1. CASE s = at
      BY <3>1, <2>1, <2>2, <2>3, Numbers, <1>0
    <3>2. CASE s # at
      <4>1. Live(s, g)
        BY <3>2, <2>2
      <4>2. g = created[s]
        BY <4>1 DEF Newest
      <4> QED BY <3>2, <4>2, <2>1, PopenLive
    <3> QED BY <3>1, <3>2
  <2>5. \A s \in Slots : /\ owned'[s] <= created'[s]
                            /\ loop'[s] <= created'[s]
                            /\ updated'[s] <= created'[s]
    <3> TAKE s \in Slots
    <3>1. owned[s] <= created[s] /\ loop[s] <= created[s] /\ updated[s] <= created[s]
      BY DEF Newest
    <3>2. created'[s] = created[s] \/ created'[s] = created[s] + 1
      BY <2>1, PopenLive
    <3>3. UNCHANGED listVars
      BY <1>3 DEF LaunchWorker
    <3> QED BY <1>0, <3>1, <3>2, <3>3, Numbers DEF listVars
  <2>6. WhileLaunching' /\ WhileLooping' /\ WhileStopping'
    BY <1>3, <2>2, <2>3 DEF LaunchWorker, WhileLaunching, WhileLooping, WhileStopping, RetunePcs,
                            EndPcs
  <2>7. StopIsAborted' /\ RaisedInLoop' /\ MarkedWhileWorking'
    BY <1>3 DEF LaunchWorker, StopIsAborted, RaisedInLoop, MarkedWhileWorking,
                MarkerCoversWorkers, Escaped, Terminal, StopPcs, EndPcs
  <2> QED BY <1>0, <2>4, <2>5, <2>6, <2>7 DEF Newest
<1>4. CASE LaunchFails
  <2>1. Newest'
    BY <1>4 DEF LaunchFails, Newest, Live
  <2>2. \A s \in Slots, g \in Gens : Live(s, g)' => s < at' /\ g = owned'[s]
    BY <1>4, <1>0, Numbers DEF LaunchFails, WhileLaunching, Live
  <2>3. WhileLaunching' /\ WhileLooping' /\ WhileStopping'
    BY <1>4, <2>2 DEF LaunchFails, WhileLaunching, WhileLooping, WhileStopping, RetunePcs, EndPcs
  <2>4. StopIsAborted' /\ RaisedInLoop' /\ MarkedWhileWorking'
    BY <1>4 DEF LaunchFails, StopIsAborted, RaisedInLoop, MarkedWhileWorking, MarkerCoversWorkers,
                Escaped, Terminal, StopPcs, EndPcs
  <2> QED BY <1>0, <2>1, <2>3, <2>4
<1>5. CASE AppendEntry
  <2>1. at \in Slots /\ owned \in Lists /\ UNCHANGED procVars
    BY <1>5, <1>0 DEF AppendEntry, TypeOK
  <2>2. owned'[at] = created[at] /\ \A s \in Slots : s # at => owned'[s] = owned[s]
    BY <1>5, <2>1 DEF AppendEntry, Lists
  <2>3. Newest'
    <3>1. UNCHANGED <<procVars, loop, updated>>
      BY <1>5 DEF AppendEntry
    <3>2. \A s \in Slots, g \in Gens : Live(s, g)' = Live(s, g)
      BY <2>1 DEF Live, procVars
    <3>3. \A s \in Slots, g \in Gens : Live(s, g)' => g = created'[s]
      BY <3>2, <2>1 DEF Newest, procVars
    <3>4. created' = created
      BY <2>1 DEF procVars
    <3> QED BY <2>1, <2>2, <3>1, <3>3, <3>4, <1>0, Numbers DEF Newest
  <2>4. \A s \in Slots, g \in Gens : Live(s, g)' => s < at' /\ g = owned'[s]
    BY <1>5, <1>0, <2>1, <2>2, Numbers DEF AppendEntry, WhileLaunching, Newest, Live
  <2>5. WhileLaunching' /\ WhileLooping' /\ WhileStopping'
    BY <1>5, <2>4 DEF AppendEntry, WhileLaunching, WhileLooping, WhileStopping, RetunePcs, EndPcs
  <2>6. StopIsAborted' /\ RaisedInLoop' /\ MarkedWhileWorking'
    BY <1>5 DEF AppendEntry, StopIsAborted, RaisedInLoop, MarkedWhileWorking, MarkerCoversWorkers,
                Escaped, Terminal, StopPcs, EndPcs
  <2> QED BY <1>0, <2>3, <2>5, <2>6
<1> QED BY <1>1, <1>2, <1>3, <1>4, <1>5 DEF Launching


\* Steps that create no process and drop none from the owner's list.
LEMMA FewerLive ==
  ASSUME Newest, UNCHANGED <<created, listVars>>,
         \A s \in Slots, g \in Gens : Live(s, g)' => Live(s, g)
  PROVE  Newest'
BY DEF Newest, listVars

LEMMA LoopInv == IInv /\ Looping => IInv'
<1> SUFFICES ASSUME IInv, Looping PROVE IInv'
  OBVIOUS
<1>0. TypeOK /\ TypeOK' /\ Looping
  BY LoopType DEF IInv
<1> USE DEF IInv, procVars, listVars, resultVars
<1>a. ~stopped /\ raising # "loop"
  BY <1>0 DEF StopIsAborted, RaisedInLoop, StopPcs, EndPcs, Terminal, Looping, TimeUp, LoopEvent,
              SystemSafety, RetuneBegins, RetuneSkips, RetuneTerminates, RetuneWait, RetunePopen,
              RetuneSwap, RetuneReturns, HandBack
<1>b. StopIsAborted' /\ RaisedInLoop' /\ MarkedWhileWorking'
  <2>1. UNCHANGED <<stopped, raising, marker>> /\ pc' \in LoopPcs \cup {"term"}
    BY <1>0 DEF Looping, TimeUp, LoopEvent, SystemSafety, RetuneBegins, RetuneSkips,
                RetuneTerminates, RetuneWait, RetunePopen, RetuneSwap, RetuneReturns, HandBack,
                LoopPcs
  <2>2. marker \/ GpuSlots = {}
    BY <1>0 DEF MarkedWhileWorking, Terminal, Looping, TimeUp, LoopEvent, SystemSafety,
                RetuneBegins, RetuneSkips, RetuneTerminates, RetuneWait, RetunePopen, RetuneSwap,
                RetuneReturns, HandBack
  <2> QED BY <1>a, <2>1, <2>2 DEF StopIsAborted, RaisedInLoop, MarkedWhileWorking,
                                  MarkerCoversWorkers, Escaped
<1>1. CASE TimeUp \/ LoopEvent \/ SystemSafety
  <2>1. UNCHANGED <<procVars, listVars, stopped>> /\ pc = "loop" /\ pc' \in {"loop", "handback"}
    BY <1>1 DEF TimeUp, LoopEvent, SystemSafety
  <2>2. Newest' /\ WhileLaunching' /\ WhileLooping' /\ WhileStopping'
    BY <2>1 DEF Newest, Live, WhileLaunching, WhileLooping, WhileStopping, RetunePcs, EndPcs
  <2> QED BY <1>0, <1>b, <2>2
<1>2. CASE RetuneBegins \/ RetuneSkips \/ RetuneReturns
  <2>1. Newest'
    BY <1>2 DEF RetuneBegins, RetuneSkips, RetuneReturns, Newest, Live
  <2>2. WhileLaunching' /\ WhileLooping' /\ WhileStopping'
    BY <1>2 DEF RetuneBegins, RetuneSkips, RetuneReturns, Live, WhileLaunching, WhileLooping,
                WhileStopping, RetunePcs, EndPcs
  <2> QED BY <1>0, <1>b, <2>1, <2>2
<1>3. CASE RetuneTerminates
  <2>1. at \in Slots /\ updated[at] \in Gens /\ proc \in Processes
    <3>1. at \in Slots /\ updated \in Lists /\ updated[at] # 0
      BY <1>3, <1>0, ExecutionAssumption DEF RetuneTerminates, Slots, TypeOK
    <3> QED BY <1>0, <3>1, EntryType DEF TypeOK, Processes
  <2>2. \A s \in Slots, g \in Gens : Live(s, g)' => Live(s, g)
    BY <1>3, <2>1, TerminateLive DEF RetuneTerminates
  <2>3. Newest'
    BY <1>3, <2>2, FewerLive DEF RetuneTerminates
  <2>4. WhileLaunching' /\ WhileLooping' /\ WhileStopping'
    BY <1>3, <2>2 DEF RetuneTerminates, WhileLaunching, WhileLooping, WhileStopping, RetunePcs,
                      EndPcs
  <2> QED BY <1>0, <1>b, <2>3, <2>4
<1>4. CASE RetuneWait
  <2>1. at \in Slots /\ updated[at] \in 0..MaxGen /\ proc \in Processes
    BY <1>4, <1>0 DEF RetuneWait, TypeOK, Processes, Lists
  <2>2. \A s \in Slots, g \in Gens : Live(s, g)' => Live(s, g) /\ ~(s = at /\ g = updated[at])
    BY <1>4, <2>1, KillLive DEF RetuneWait
  <2>3. Newest'
    BY <1>4, <2>2, FewerLive DEF RetuneWait
  <2>4. \A g \in Gens : ~Live(at, g)'
    BY <1>4, <2>1, <2>2 DEF RetuneWait, WhileLooping, RetunePcs
  <2>5. WhileLaunching' /\ WhileLooping' /\ WhileStopping'
    BY <1>4, <2>2, <2>4 DEF RetuneWait, Live, WhileLaunching, WhileLooping, WhileStopping,
                            RetunePcs, EndPcs
  <2> QED BY <1>0, <1>b, <2>3, <2>5
<1>5. CASE RetunePopen
  <2>1. CASE Popen(at) /\ pc' = "rswap" /\ UNCHANGED at
    <3>1. at \in Slots /\ proc \in Processes /\ created \in Lists
      BY <1>5, <1>0 DEF RetunePopen, TypeOK, Processes
    <3>2. \A s \in Slots, g \in Gens : Live(s, g)' => Live(s, g) \/ (s = at /\ g = created'[at])
      BY <2>1, <3>1, PopenLive
    <3>3. \A g \in Gens : ~Live(at, g)
      BY <1>5 DEF RetunePopen, WhileLooping
    <3>4. \A s \in Slots, g \in Gens : Live(s, g)' => g = created'[s]
      BY <2>1, <3>1, <3>2, <3>3, PopenLive DEF Newest
    <3>5. \A s \in Slots : /\ owned'[s] <= created'[s]
                            /\ loop'[s] <= created'[s]
                            /\ updated'[s] <= created'[s]
      <4> TAKE s \in Slots
      <4>1. owned[s] <= created[s] /\ loop[s] <= created[s] /\ updated[s] <= created[s]
        BY DEF Newest
      <4>2. created'[s] = created[s] \/ created'[s] = created[s] + 1
        BY <2>1, <3>1, PopenLive
      <4>3. UNCHANGED listVars
        BY <1>5 DEF RetunePopen
      <4> QED BY <1>0, <4>1, <4>2, <4>3, Numbers DEF listVars
    <3>6. WhileLaunching' /\ WhileLooping' /\ WhileStopping'
      BY <1>5, <2>1, <3>2 DEF RetunePopen, WhileLaunching, WhileLooping, WhileStopping, RetunePcs,
                              EndPcs
    <3> QED BY <1>0, <1>b, <3>4, <3>5, <3>6 DEF Newest
  <2>2. CASE pc' = "retune" /\ at' = at + 1 /\ UNCHANGED procVars
    <3>1. Newest'
      BY <1>5, <2>2 DEF RetunePopen, Newest, Live
    <3>2. WhileLaunching' /\ WhileLooping' /\ WhileStopping'
      BY <1>5, <2>2 DEF RetunePopen, Live, WhileLaunching, WhileLooping, WhileStopping, RetunePcs,
                        EndPcs
    <3> QED BY <1>0, <1>b, <3>1, <3>2
  <2> QED BY <1>5, <2>1, <2>2 DEF RetunePopen
<1>6. CASE RetuneSwap
  <2>1. at \in Slots /\ updated \in Lists /\ UNCHANGED procVars
    BY <1>6, <1>0 DEF RetuneSwap, TypeOK
  <2>2. updated'[at] = created[at] /\ \A s \in Slots : s # at => updated'[s] = updated[s]
    BY <1>6, <2>1 DEF RetuneSwap, Lists
  <2>3. Newest'
    <3>1. UNCHANGED <<procVars, owned, loop>>
      BY <1>6 DEF RetuneSwap
    <3>2. \A s \in Slots, g \in Gens : Live(s, g)' = Live(s, g)
      BY <2>1 DEF Live, procVars
    <3>3. \A s \in Slots, g \in Gens : Live(s, g)' => g = created'[s]
      BY <3>2, <2>1 DEF Newest, procVars
    <3>4. created' = created
      BY <2>1 DEF procVars
    <3> QED BY <2>1, <2>2, <3>1, <3>3, <3>4, <1>0, Numbers DEF Newest
  <2>4. \A s \in Slots, g \in Gens : Live(s, g)' => g = updated'[s]
    BY <1>6, <2>1, <2>2 DEF RetuneSwap, Live, Newest, WhileLooping, RetunePcs
  <2>5. \A s \in Slots : updated'[s] # 0 => owned'[s] # 0
    BY <1>6, <2>1, <2>2 DEF RetuneSwap, WhileLooping, RetunePcs
  <2>6. WhileLaunching' /\ WhileLooping' /\ WhileStopping'
    BY <1>6, <2>4, <2>5 DEF RetuneSwap, WhileLaunching, WhileLooping, WhileStopping, RetunePcs,
                            EndPcs
  <2> QED BY <1>0, <1>b, <2>3, <2>6
<1>7. CASE HandBack
  <2>1. Newest'
    BY <1>7 DEF HandBack, Newest, Live
  <2>2. WhileLaunching' /\ WhileLooping' /\ WhileStopping'
    BY <1>7 DEF HandBack, Live, WhileLaunching, WhileLooping, WhileStopping, RetunePcs, EndPcs
  <2> QED BY <1>0, <1>b, <2>1, <2>2
<1> QED BY <1>0, <1>1, <1>2, <1>3, <1>4, <1>5, <1>6, <1>7 DEF Looping


\* Both passes of the shutdown move past one entry.
LEMMA StopInv == IInv /\ Stopping => IInv'
<1> SUFFICES ASSUME IInv, Stopping PROVE IInv'
  OBVIOUS
<1>0. TypeOK /\ TypeOK'
  BY StopType DEF IInv
<1> USE DEF IInv, procVars, listVars, resultVars
<1>a. proc \in Processes /\ owned \in Lists
  BY <1>0 DEF TypeOK, Processes
<1>1. CASE StopTerminates
  <2>1. \A s \in Slots, g \in Gens : Live(s, g)' => Live(s, g)
    <3>1. CASE owned[at] # 0
      <4>1. at \in Slots /\ owned[at] \in Gens
        BY <1>1, <1>a, <3>1, EntryType DEF StopTerminates
      <4> QED BY <1>1, <1>a, <3>1, <4>1, TerminateLive DEF StopTerminates
    <3> QED BY <1>1, <3>1 DEF StopTerminates, Live
  <2>2. Newest'
    BY <1>1, <2>1, FewerLive DEF StopTerminates
  <2>3. WhileLaunching' /\ WhileLooping' /\ WhileStopping'
    BY <1>1, <2>1 DEF StopTerminates, WhileLaunching, WhileLooping, WhileStopping, RetunePcs,
                      EndPcs, Escaped
  <2>4. StopIsAborted' /\ RaisedInLoop' /\ MarkedWhileWorking'
    BY <1>1, <2>1 DEF StopTerminates, StopIsAborted, RaisedInLoop, MarkedWhileWorking,
                      MarkerCoversWorkers, Escaped, Terminal, StopPcs
  <2> QED BY <1>0, <2>2, <2>3, <2>4
<1>2. CASE StopPassEnds
  <2>1. UNCHANGED <<procVars, listVars, stopped>> /\ at' = 1 /\ pc' \in {"wait", "lwait"}
    BY <1>2 DEF StopPassEnds
  <2>2. Newest'
    BY <2>1 DEF Newest, Live
  <2>3. WhileLaunching' /\ WhileLooping' /\ WhileStopping'
    BY <1>2, <2>1, <1>0, Numbers DEF StopPassEnds, Live, Escaped, WhileLaunching, WhileLooping,
                                     WhileStopping, RetunePcs, EndPcs
  <2>4. StopIsAborted' /\ RaisedInLoop'
    BY <1>2 DEF StopPassEnds, StopIsAborted, RaisedInLoop, StopPcs, EndPcs, Terminal
  <2>5. MarkedWhileWorking'
    BY <1>2, <2>1 DEF StopPassEnds, MarkedWhileWorking, MarkerCoversWorkers, Terminal, Live
  <2> QED BY <1>0, <2>2, <2>3, <2>4, <2>5
<1>3. CASE StopWaits
  <2>1. \A s \in Slots, g \in Gens : Live(s, g)' => Live(s, g) /\ ~(s = at /\ g = owned[at])
    <3>1. at \in Slots /\ owned[at] \in 0..MaxGen
      BY <1>3, <1>a DEF StopWaits, Lists
    <3>2. CASE owned[at] # 0
      BY <1>3, <1>a, <3>1, <3>2, KillLive DEF StopWaits
    <3>3. CASE owned[at] = 0
      BY <1>3, <3>3, <1>0, Numbers DEF StopWaits, Live
    <3> QED BY <3>2, <3>3
  <2>2. Newest'
    BY <1>3, <2>1, FewerLive DEF StopWaits
  <2>3. WhileLaunching' /\ WhileLooping' /\ WhileStopping'
    <3>1. pc = "wait" => \A s \in Slots, g \in Gens :
                            Live(s, g)' => (g = owned[s] /\ at + 1 <= s) \/ Escaped(s, g)
      BY <2>1, <1>0, Numbers DEF WhileStopping
    <3> QED BY <1>3, <3>1 DEF StopWaits, WhileLaunching, WhileLooping, WhileStopping, RetunePcs,
                              EndPcs, Escaped
  <2>4. StopIsAborted' /\ RaisedInLoop' /\ MarkedWhileWorking'
    BY <1>3, <2>1 DEF StopWaits, StopIsAborted, RaisedInLoop, MarkedWhileWorking,
                      MarkerCoversWorkers, Escaped, Terminal, StopPcs
  <2> QED BY <1>0, <2>2, <2>3, <2>4
<1>4. CASE StopReturns \/ FinishSession \/ ClearMarker
  <2>1. UNCHANGED <<procVars, listVars, stopped, verdict>>
    BY <1>4 DEF StopReturns, FinishSession, ClearMarker
  <2>2. Newest'
    BY <2>1 DEF Newest, Live
  <2>3. pc = "wait" /\ at = Entries + 1 =>
          \A s \in Slots, g \in Gens : Live(s, g) => Escaped(s, g)
    BY <1>0, Numbers DEF WhileStopping
  <2>4. WhileLaunching' /\ WhileLooping' /\ WhileStopping'
    BY <1>4, <2>1, <2>3 DEF StopReturns, FinishSession, ClearMarker, Live, Escaped,
                            WhileLaunching, WhileLooping, WhileStopping, RetunePcs, EndPcs
  <2>5. StopIsAborted' /\ RaisedInLoop'
    BY <1>4 DEF StopReturns, FinishSession, ClearMarker, StopIsAborted, RaisedInLoop, Terminal,
                StopPcs, EndPcs
  <2>6. MarkedWhileWorking'
    BY <1>4, <2>1, <1>0, ExecutionAssumption
       DEF StopReturns, FinishSession, ClearMarker, MarkedWhileWorking, MarkerCoversWorkers,
           Terminal, Live, Escaped, WhileStopping, EndPcs, TypeOK, Slots
  <2> QED BY <1>0, <2>2, <2>4, <2>5, <2>6
<1>5. CASE Evaluate
  <2>1. /\ UNCHANGED <<procVars, listVars, stopped, marker, session, raising>>
        /\ pc = "evaluate" /\ pc' = "book"
    BY <1>5 DEF Evaluate
  <2>2. verdict = "aborted" => verdict' = "aborted"
    BY <1>5 DEF Evaluate, VerdictAfter
  <2>3. Newest' /\ WhileLaunching' /\ WhileLooping' /\ WhileStopping'
    BY <2>1 DEF Newest, Live, Escaped, WhileLaunching, WhileLooping, WhileStopping, RetunePcs,
                EndPcs
  <2>4. StopIsAborted' /\ RaisedInLoop' /\ MarkedWhileWorking'
    BY <2>1, <2>2 DEF StopIsAborted, RaisedInLoop, MarkedWhileWorking, MarkerCoversWorkers,
                      Escaped, Terminal, StopPcs, EndPcs, Live
  <2> QED BY <1>0, <2>3, <2>4
<1>6. CASE Bookkeeping
  <2>1. /\ UNCHANGED <<procVars, listVars, stopped, marker, session, raising>>
        /\ pc = "book" /\ pc' \in {"done", "begin"}
    BY <1>6 DEF Bookkeeping
  <2>2. verdict = "aborted" => verdict' = "aborted"
    BY <1>6 DEF Bookkeeping, VerdictAfter
  <2>3. stopped => pc' = "done"
    BY <1>6, <2>2 DEF Bookkeeping, StopIsAborted
  <2>4. Newest' /\ WhileLaunching' /\ WhileLooping'
    BY <2>1 DEF Newest, Live, WhileLaunching, WhileLooping, RetunePcs
  <2>5. WhileStopping'
    BY <2>1, <2>3 DEF Live, Escaped, WhileStopping, RaisedInLoop, StopPcs, EndPcs
  <2>6. StopIsAborted' /\ RaisedInLoop' /\ MarkedWhileWorking'
    BY <2>1, <2>2, <2>3 DEF StopIsAborted, RaisedInLoop, MarkedWhileWorking, MarkerCoversWorkers,
                            Escaped, Terminal, StopPcs, Live
  <2> QED BY <1>0, <2>4, <2>5, <2>6
<1> QED BY <1>1, <1>2, <1>3, <1>4, <1>5, <1>6 DEF Stopping


\* What the operator's stop finds running: an entry of the list it will stop, or a
\* worker of a later generation than that entry.
LEMMA StopFinds ==
  ASSUME IInv, pc \in LoopPcs, NEW s \in Slots, NEW g \in Gens, Live(s, g)
  PROVE  owned[s] # 0 /\ owned[s] <= g
<1> USE DEF IInv
<1>1. g = created[s] /\ owned[s] <= created[s]
  BY DEF Newest
<1>2. CASE pc \in {"loop", "handback"}
  BY <1>1, <1>2, Numbers DEF WhileLooping
<1>3. CASE pc \in RetunePcs
  BY <1>1, <1>3, Numbers DEF WhileLooping, RetunePcs
<1> QED BY <1>2, <1>3 DEF LoopPcs, RetunePcs

LEMMA EventInv == IInv /\ (Interrupted \/ WorkerExits \/ Crash) => IInv'
<1> SUFFICES ASSUME IInv, Interrupted \/ WorkerExits \/ Crash PROVE IInv'
  OBVIOUS
<1>0. TypeOK /\ TypeOK'
  BY EventType DEF IInv
<1> USE DEF IInv, procVars, listVars, resultVars
<1>1. CASE InterruptLaunch \/ RaiseUnguarded \/ InterruptFinish \/ Crash
  <2>1. /\ UNCHANGED <<procVars, listVars, stopped, verdict, marker, session>>
        /\ pc \notin Terminal
        /\ \/ pc' = "lterm" /\ pc \in LaunchPcs /\ raising' = raising
           \/ pc' \in {"raised", "crashed"}
    BY <1>1 DEF InterruptLaunch, RaiseUnguarded, InterruptFinish, Crash, LaunchPcs, Terminal
  <2>2. Newest' /\ WhileLaunching' /\ WhileLooping' /\ WhileStopping'
    BY <2>1 DEF Newest, Live, WhileLaunching, WhileLooping, WhileStopping, RetunePcs, EndPcs
  <2>3. StopIsAborted' /\ RaisedInLoop' /\ MarkedWhileWorking'
    BY <2>1 DEF StopIsAborted, RaisedInLoop, MarkedWhileWorking, MarkerCoversWorkers, Escaped,
                Live, Terminal, LaunchPcs, StopPcs, EndPcs
  <2> QED BY <1>0, <2>2, <2>3
<1>2. CASE OperatorStop \/ LoopRaises
  <2>1. /\ UNCHANGED <<procVars, listVars, marker>> /\ pc \in LoopPcs
        /\ pc' = "term" /\ at' = 1
        /\ \/ stopped' /\ verdict' = "aborted"
           \/ UNCHANGED <<stopped, verdict>> /\ raising' = "loop"
    BY <1>2 DEF OperatorStop, LoopRaises, LoopPcs
  <2>2. \A s \in Slots, g \in Gens : Live(s, g)' => owned'[s] # 0 /\ owned'[s] <= g
    BY <2>1, StopFinds DEF Live
  <2>3. \A s \in Slots, g \in Gens : Live(s, g)' => g = owned'[s] \/ Escaped(s, g)'
    BY <1>0, <2>1, <2>2, Numbers DEF Escaped
  <2>4. Newest'
    BY <2>1 DEF Newest, Live
  <2>5. WhileLaunching' /\ WhileLooping' /\ WhileStopping'
    BY <2>1, <2>3 DEF WhileLaunching, WhileLooping, WhileStopping, RetunePcs, EndPcs
  <2>6. StopIsAborted' /\ RaisedInLoop' /\ MarkedWhileWorking'
    BY <2>1, <1>0, ExecutionAssumption
       DEF StopIsAborted, RaisedInLoop, MarkedWhileWorking, MarkerCoversWorkers, Escaped,
           Terminal, LoopPcs, StopPcs, Slots
  <2> QED BY <1>0, <2>4, <2>5, <2>6
<1>3. CASE InterruptStop
  <2>1. /\ UNCHANGED <<procVars, listVars, stopped, verdict, marker, session>>
        /\ pc \in StopPcs /\ pc' = "finish" /\ raising' = "stop"
    BY <1>3 DEF InterruptStop
  <2>2. Newest' /\ WhileLaunching' /\ WhileLooping' /\ WhileStopping'
    BY <2>1 DEF Newest, Live, WhileLaunching, WhileLooping, WhileStopping, RetunePcs, EndPcs
  <2>3. StopIsAborted' /\ RaisedInLoop' /\ MarkedWhileWorking'
    BY <2>1 DEF StopIsAborted, RaisedInLoop, MarkedWhileWorking, MarkerCoversWorkers, Escaped,
                Live, Terminal, StopPcs
  <2> QED BY <1>0, <2>2, <2>3
<1>4. CASE WorkerExits
  <2>1. \A s \in Slots, g \in Gens : Live(s, g)' => Live(s, g)
    BY <1>0, <1>4, ExitLive
  <2>2. UNCHANGED <<created, listVars, stopped, verdict, marker, session, pc, at, raising>>
    BY <1>4 DEF WorkerExits
  <2>3. Newest'
    BY <2>1, <2>2, FewerLive
  <2>4. WhileLaunching' /\ WhileLooping' /\ WhileStopping'
    <3>1. WhileLaunching' /\ WhileStopping'
      BY <2>1, <2>2 DEF WhileLaunching, WhileStopping, Escaped
    <3>2. pc = "rpopen" => at \in Slots
      BY <1>0 DEF TypeOK
    <3>3. WhileLooping'
      BY <2>1, <2>2, <3>2 DEF WhileLooping, RetunePcs
    <3> QED BY <3>1, <3>3
  <2>5. StopIsAborted' /\ RaisedInLoop' /\ MarkedWhileWorking'
    BY <2>1, <2>2, <1>0, ExecutionAssumption
       DEF StopIsAborted, RaisedInLoop, MarkedWhileWorking, MarkerCoversWorkers, Escaped, Slots
  <2> QED BY <1>0, <2>3, <2>4, <2>5
<1> QED BY <1>1, <1>2, <1>3, <1>4 DEF Interrupted

LEMMA StutterInv == IInv /\ UNCHANGED vars => IInv'
<1> SUFFICES ASSUME IInv, UNCHANGED vars PROVE IInv'
  OBVIOUS
<1> USE DEF IInv, vars, procVars, listVars, resultVars
<1>1. TypeOK' /\ Newest'
  BY DEF TypeOK, Newest, Live
<1>2. WhileLaunching' /\ WhileLooping' /\ WhileStopping'
  BY DEF WhileLaunching, WhileLooping, WhileStopping, Live, Escaped
<1>3. StopIsAborted' /\ RaisedInLoop' /\ MarkedWhileWorking'
  BY DEF StopIsAborted, RaisedInLoop, MarkedWhileWorking, MarkerCoversWorkers, Escaped, Live
<1> QED BY <1>1, <1>2, <1>3

LEMMA Inductive == Spec => []IInv
<1>1. IInv /\ [Next]_vars => IInv'
  BY LaunchInv, LoopInv, StopInv, EventInv, StutterInv DEF Next
<1> QED BY InitInv, <1>1, PTL DEF Spec

-----------------------------------------------------------------------------
(* The guarantees.                                                         *)

\* A stage that no exception left, the operator's stop or another one, leaves no worker
\* that was not at least sent SIGKILL, however often its workers were replaced
\* (execute_stage_runtime).
THEOREM StagesLeaveNothing == Spec => []NormalEndLeavesNothing
<1>1. IInv => NormalEndLeavesNothing
  BY DEF IInv, NormalEndLeavesNothing, WhileStopping, Escaped, EndPcs
<1> QED BY Inductive, <1>1, PTL

\* Two workers that may both be running never share a slot, through any sequence of
\* launches, failed launches, retunes and stages (replace_gpu_process_for_retune).
THEOREM SlotsAreExclusive == Spec => []OneWorkerPerSlot
<1>1. IInv => OneWorkerPerSlot
  BY DEF IInv, OneWorkerPerSlot, Newest
<1> QED BY Inductive, <1>1, PTL

\* Whenever a GPU worker may be running the safety marker is on disk, unless a retune
\* started it in a stage that an exception left, the operator's stop or another one
\* (GpuSafetyMarkerStore, stop_stage_lifecycle).
THEOREM MarkerIsKept == Spec => []MarkerCoversWorkers
<1>1. IInv => MarkerCoversWorkers
  BY DEF IInv, MarkedWhileWorking
<1> QED BY Inductive, <1>1, PTL

\* No event, fault or setting makes a run go on to another stage after an operator
\* stop (apply_stage_events, apply_completed_stage_bookkeeping).
THEOREM StopEndsRun == Spec => OperatorStopEndsRun
<1>1. IInv /\ [Next]_vars => [stopped => stage' = stage]_vars
  <2> SUFFICES ASSUME IInv, Next, stopped PROVE stage' = stage
    BY DEF vars
  <2>1. CASE Bookkeeping
    <3>1. PICK fault \in BOOLEAN, abort \in BOOLEAN, abortRun \in BOOLEAN :
            LET v == IF fault THEN VerdictAfter(verdict, "error", abort, TRUE) ELSE verdict
                break == systemWide \/ (v = "aborted" /\ (stopped \/ abortRun))
            IN  \/ (break \/ stage = MaxStage) /\ pc' = "done" /\ UNCHANGED stage
                \/ ~break /\ stage < MaxStage /\ pc' = "begin" /\ stage' = stage + 1
      BY <2>1 DEF Bookkeeping
    <3> QED BY <3>1 DEF IInv, StopIsAborted, VerdictAfter
  <2>2. CASE Next /\ ~Bookkeeping
    BY <2>2 DEF Next, Launching, StartLifecycle, LaunchRefused, LaunchWorker, LaunchFails,
                AppendEntry, LaunchReturns, EnterLoop, Looping, TimeUp, LoopEvent, SystemSafety,
                RetuneBegins, RetuneSkips, RetuneTerminates, RetuneWait, RetunePopen, RetuneSwap,
                RetuneReturns, HandBack, Stopping, StopTerminates, StopPassEnds, StopWaits,
                StopReturns, FinishSession, ClearMarker, Evaluate, Interrupted, InterruptLaunch,
                RaiseUnguarded, OperatorStop, LoopRaises, InterruptStop, InterruptFinish,
                WorkerExits, Crash
  <2> QED BY <2>1, <2>2
<1> QED BY Inductive, <1>1, PTL DEF Spec, OperatorStopEndsRun

=============================================================================
