--------------------------- MODULE ProcessShutdown --------------------------
(***************************************************************************)
(* stop_stage_processes(): SIGTERM for every worker, then one bounded wait *)
(* after another, SIGKILL and a bounded reap for those that overrun.  A    *)
(* native Vulkan worker has an absolute deadline, fixed when its SIGTERM   *)
(* is requested and enforced while the parent waits for other workers; any *)
(* other worker has a budget that starts when the parent turns to it.      *)
(*                                                                         *)
(* StageExecution takes this function in single steps; here it runs        *)
(* against a clock.  Time passes while the parent waits, in whole units.   *)
(***************************************************************************)
EXTENDS Integers, FiniteSets, FiniteSetsExt

CONSTANTS Entries,    \* number of StageProcess entries
          Vulkan,     \* positions of native Vulkan compute workers
          Allowance,  \* total_allowance_seconds or wait_timeout of each entry
          ReapTime,   \* the wait after SIGKILL
          MaxCalls    \* bound: calls of stop_stage_processes on the list

Positions == 1..Entries
ASSUME ShutdownAssumption ==
  /\ Entries \in Nat /\ Vulkan \subseteq Positions
  /\ Allowance \in [Positions -> Nat \ {0}]
  /\ ReapTime \in Nat \ {0} /\ MaxCalls \in Nat \ {0}

\* Longest call: other workers' budgets are used one after another, Vulkan
\* allowances run side by side, and every worker may need a reap.
Longest ==
  MapThenSumSet(LAMBDA i : Allowance[i], Positions \ Vulkan)
    + Max({0} \cup {Allowance[i] : i \in Vulkan}) + Entries * ReapTime

VARIABLES
  now,        \* monotonic()
  pc,         \* where the call is
  at,         \* the entry its current pass has reached
  proc,       \* each worker, as the kernel knows it
  requested,  \* when SIGTERM was last requested, -1 before
  deadline,   \* deadline_monotonic of a Vulkan entry, -1 without one
  timedOut,   \* shutdown_timed_out
  reaped,     \* reap_attempted
  limit,      \* the deadline wait_with_deadlines() was given
  until,      \* when the current process.wait() times out
  calls,      \* calls so far
  began       \* when the current call began

entryVars == <<proc, requested, deadline, timedOut, reaped>>
waitVars == <<limit, until>>
vars == <<now, pc, at, entryVars, waitVars, calls, began>>

TypeOK ==
  /\ now \in Nat /\ began \in Nat /\ limit \in Nat /\ until \in Nat
  /\ pc \in {"idle", "term", "turn", "check", "waiting", "reap", "done"}
  /\ at \in 1..(Entries + 1)
  /\ proc \in [Positions -> {"running", "killed", "gone"}]
  /\ requested \in [Positions -> Nat \cup {-1}]
  /\ deadline \in [Positions -> Nat \cup {-1}]
  /\ timedOut \subseteq Positions /\ reaped \subseteq Positions
  /\ calls \in 0..MaxCalls

Init ==
  /\ now = 0 /\ pc = "idle" /\ at = 1
  /\ proc \in [Positions -> {"running", "gone"}]
  /\ requested = [i \in Positions |-> -1]
  /\ deadline = [i \in Positions |-> -1]
  /\ timedOut = {} /\ reaped = {}
  /\ limit = 0 /\ until = 0
  /\ calls = 0 /\ began = 0

-----------------------------------------------------------------------------
Running(i) == proc[i] # "gone"     \* poll() is None

\* Vulkan workers whose deadline a wait has to keep.
Pending == {i \in Vulkan : deadline[i] # -1 /\ i \notin timedOut /\ Running(i)}

\* Mutant: a deadline counts as expired one unit early.
AlmostExpired == {i \in Pending : now + 1 >= deadline[i]}

\* expire_vulkan_deadlines()
Expired == {i \in Pending : now >= deadline[i]}

\* The first call, or another one on the same entries.
StopCalled ==
  /\ pc \in {"idle", "done"}
  /\ calls < MaxCalls
  /\ calls' = calls + 1 /\ began' = now
  /\ pc' = "term" /\ at' = 1
  /\ UNCHANGED <<now, entryVars, waitVars>>

\* First pass, one entry: a Vulkan deadline is fixed once and never renewed.
RequestTermination ==
  /\ pc = "term" /\ at \in Positions
  /\ IF Running(at) /\ ~(at \in Vulkan /\ requested[at] # -1)
     THEN /\ requested' = [requested EXCEPT ![at] = now]
          /\ deadline' = IF at \in Vulkan THEN [deadline EXCEPT ![at] = now + Allowance[at]]
                         ELSE deadline
     ELSE UNCHANGED <<requested, deadline>>
  /\ at' = at + 1
  /\ UNCHANGED <<now, pc, proc, timedOut, reaped, waitVars, calls, began>>

SecondPass ==
  /\ pc = "term" /\ at = Entries + 1
  /\ pc' = "turn" /\ at' = 1
  /\ UNCHANGED <<now, entryVars, waitVars, calls, began>>

\* Mutant: a Vulkan worker's allowance starts when the parent turns to it.
TurnRenewed ==
  /\ pc = "turn" /\ at \in Positions
  /\ limit' = now + Allowance[at]
  /\ deadline' = IF at \in Vulkan /\ deadline[at] # -1 THEN [deadline EXCEPT ![at] = limit'] ELSE deadline
  /\ pc' = "check"
  /\ UNCHANGED <<now, at, proc, requested, timedOut, reaped, until, calls, began>>

\* Second pass, one entry: how long this worker may still take.
Turn ==
  /\ pc = "turn" /\ at \in Positions
  /\ limit' = IF at \in Vulkan THEN IF deadline[at] = -1 THEN now ELSE deadline[at]
              ELSE now + Allowance[at]
  /\ pc' = "check"
  /\ UNCHANGED <<now, at, entryVars, until, calls, began>>

\* Mutant: a wait on one worker is not cut at another worker's deadline.
CheckUncut ==
  /\ pc = "check"
  /\ proc' = [i \in Positions |-> IF i \in Expired THEN "killed" ELSE proc[i]]
  /\ timedOut' = timedOut \cup Expired
  /\ IF at \in timedOut' \cap Vulkan
     THEN /\ IF at \in reaped THEN pc' = "turn" /\ at' = at + 1 /\ UNCHANGED until
             ELSE pc' = "reap" /\ until' = now + ReapTime /\ UNCHANGED at
          /\ reaped' = reaped \cup {at}
     ELSE /\ until' = IF limit > now THEN limit ELSE now
          /\ pc' = "waiting"
          /\ UNCHANGED <<at, reaped>>
  /\ UNCHANGED <<now, requested, deadline, limit, calls, began>>

\* Mutant: a Vulkan worker killed while another one was waited for is not reaped.
CheckUnreaped ==
  /\ pc = "check"
  /\ proc' = [i \in Positions |-> IF i \in Expired THEN "killed" ELSE proc[i]]
  /\ timedOut' = timedOut \cup Expired
  /\ IF at \in timedOut' \cap Vulkan
     THEN pc' = "turn" /\ at' = at + 1 /\ UNCHANGED until
     ELSE /\ until' = Min({IF limit > now THEN limit ELSE now}
                            \cup {deadline[i] : i \in Pending \ Expired})
          /\ pc' = "waiting" /\ UNCHANGED at
  /\ UNCHANGED <<now, requested, deadline, reaped, limit, calls, began>>

\* The top of wait_with_deadlines(): expired Vulkan workers are killed, then the
\* parent waits for this worker, at most until the next Vulkan deadline.  A Vulkan
\* worker that timed out meanwhile is not waited for, only reaped, once.
Check ==
  /\ pc = "check"
  /\ proc' = [i \in Positions |-> IF i \in Expired THEN "killed" ELSE proc[i]]
  /\ timedOut' = timedOut \cup Expired
  /\ IF at \in timedOut' \cap Vulkan
     THEN /\ IF at \in reaped THEN pc' = "turn" /\ at' = at + 1 /\ UNCHANGED until
             ELSE pc' = "reap" /\ until' = now + ReapTime /\ UNCHANGED at
          /\ reaped' = reaped \cup {at}
     ELSE /\ until' = Min({IF limit > now THEN limit ELSE now}
                            \cup {deadline[i] : i \in Pending \ Expired})
          /\ pc' = "waiting"
          /\ UNCHANGED <<at, reaped>>
  /\ UNCHANGED <<now, requested, deadline, limit, calls, began>>

\* process.wait() sees the exit, during the wait or the reap.
WaitReturns ==
  /\ pc \in {"waiting", "reap"} /\ ~Running(at)
  /\ pc' = "turn" /\ at' = at + 1
  /\ UNCHANGED <<now, entryVars, waitVars, calls, began>>

\* The wait ended for another worker's deadline.
WaitResumes ==
  /\ pc = "waiting" /\ Running(at)
  /\ now = until /\ now < limit
  /\ pc' = "check"
  /\ UNCHANGED <<now, at, entryVars, waitVars, calls, began>>

\* TimeoutExpired at the worker's own limit: SIGKILL and a reap.  kill_vulkan()
\* marks a Vulkan worker; its reap is attempted once.
Overrun ==
  /\ pc = "waiting" /\ Running(at)
  /\ now = until /\ now >= limit
  /\ proc' = [proc EXCEPT ![at] = "killed"]
  /\ timedOut' = timedOut \cup {at}
  /\ reaped' = IF at \in Vulkan THEN reaped \cup {at} ELSE reaped
  /\ IF at \in Vulkan /\ at \in reaped
     THEN pc' = "turn" /\ at' = at + 1 /\ UNCHANGED until
     ELSE pc' = "reap" /\ until' = now + ReapTime /\ UNCHANGED at
  /\ UNCHANGED <<now, requested, deadline, limit, calls, began>>

\* The reap timed out: the worker is stuck in the kernel.
ReapFails ==
  /\ pc = "reap" /\ Running(at) /\ now = until
  /\ pc' = "turn" /\ at' = at + 1
  /\ UNCHANGED <<now, entryVars, waitVars, calls, began>>

Return ==
  /\ pc = "turn" /\ at = Entries + 1
  /\ pc' = "done" /\ at' = 1
  /\ UNCHANGED <<now, entryVars, waitVars, calls, began>>

WorkerExits ==
  /\ \E i \in Positions : Running(i) /\ proc' = [proc EXCEPT ![i] = "gone"]
  /\ UNCHANGED <<now, pc, at, requested, deadline, timedOut, reaped, waitVars, calls, began>>

\* A wait lasts until the worker exits or its timeout.
Tick ==
  /\ pc \in {"waiting", "reap"} /\ Running(at) /\ now < until
  /\ now' = now + 1
  /\ UNCHANGED <<pc, at, entryVars, waitVars, calls, began>>

Next == StopCalled \/ RequestTermination \/ SecondPass \/ Turn \/ Check \/ WaitReturns
          \/ WaitResumes \/ Overrun \/ ReapFails \/ Return \/ WorkerExits \/ Tick

Spec == Init /\ [][Next]_vars

-----------------------------------------------------------------------------
(* Properties.                                                             *)

\* No worker is killed before the whole allowance since its SIGTERM request has
\* passed, whoever the parent was waiting for meanwhile and however often it is
\* asked to stop the list (wait_with_deadlines, kill_vulkan).
NoEarlyKill ==
  [][\A i \in Positions :
       proc[i] = "running" /\ proc'[i] = "killed" =>
         requested[i] # -1 /\ now >= requested[i] + Allowance[i]]_vars

\* A Vulkan worker never outlives its deadline by more than one reap of another
\* worker (expire_vulkan_deadlines runs before every wait, not before a reap).
LateByOneReap == \A i \in Pending : now <= deadline[i] + ReapTime

\* One call takes at most the other workers' budgets one after another, the longest
\* Vulkan allowance and one reap per worker, whatever the workers do.
CallBounded == pc \notin {"idle", "done"} => now - began <= Longest

\* A worker the parent need not come back to: it exited, or was sent SIGKILL, and a
\* Vulkan worker's reap was attempted.
Handled(i) ==
  proc[i] # "running" /\ (i \in Vulkan /\ proc[i] = "killed" => i \in reaped)

\* When stop_stage_processes returns it has handled every worker of the list, those it
\* killed while it waited for another one included, in every call (StageExecution takes
\* its second pass in merged steps on the strength of this).
StoppedLeavesNone == pc = "done" => \A i \in Positions : Handled(i)
=============================================================================
