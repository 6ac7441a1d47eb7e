-------------------------- MODULE RuntimeMemoryGuard ------------------------
(***************************************************************************)
(* The runtime memory guard of one stage: a control file, rewritten under  *)
(* an flock, that the stage loop updates with every MemAvailable sample    *)
(* and that GPU workers sharing system memory claim from before they       *)
(* allocate.  The sample is read before the lock is taken, memory is taken *)
(* after the claim and returned before or after its release, and every     *)
(* update replaces the allowance by the sample's headroom.                 *)
(*                                                                         *)
(* Other users of the memory are free to take and return any amount, so a  *)
(* sample is any level.  Claims of dedicated device memory are not         *)
(* modelled: they take no allowance; nor are the warning that precedes the *)
(* emergency and what the file only reports.                               *)
(***************************************************************************)
EXTENDS Integers, FiniteSets, FiniteSetsExt

CONSTANTS Workers,    \* worker processes that share system memory
          Levels,     \* MemAvailable levels a sample may read
          Requests,   \* sizes a worker asks for
          Reserve,    \* system_memory_reserve_bytes, the plan's safety reserve
          Emergency,  \* emergency_mem_available_bytes
          EmergencySamples,  \* emergency_consecutive_samples
          Unread,     \* no sample waits for the lock
          MaxClaims   \* bound: bytes one worker holds claims for

ASSUME GuardAssumption ==
  /\ Levels \subseteq Nat /\ Levels # {} /\ Requests \subseteq Nat \ {0}
  /\ Reserve \in Nat /\ Emergency \in 0..Reserve
  /\ EmergencySamples \in Nat \ {0} /\ MaxClaims \in Nat
  /\ Unread \notin Levels /\ IsFiniteSet(Workers)

VARIABLES
  allowance,      \* runtime_growth_allowance_bytes
  headroom,       \* runtime_headroom_bytes
  lowSamples,     \* emergency_consecutive_count
  terminate,      \* stage_termination_required
  reading,        \* the sample the stage loop has read, or Unread
  st,             \* where each worker is
  ledger,         \* RuntimeMemoryClaims.outstanding of each worker
  asked,          \* granted to it and not yet allocated
  held,           \* bytes it has allocated
  claimed         \* claims the live workers had when the sample was applied

fileVars == <<allowance, headroom, lowSamples, terminate>>
workerVars == <<st, ledger, asked, held>>
guardVars == <<fileVars, reading, workerVars, claimed>>

Total(f, S) == MapThenSumSet(LAMBDA w : f[w], S)
Alive == {w \in Workers : st[w] # "gone"}

GuardTypeOK ==
  /\ headroom \in Nat /\ allowance \in 0..headroom
  /\ lowSamples \in 0..EmergencySamples /\ terminate \in BOOLEAN
  /\ reading \in Levels \cup {Unread}
  /\ st \in [Workers -> {"running", "granted", "rejected", "stopping", "destroyed", "gone"}]
  /\ ledger \in [Workers -> Nat] /\ asked \in [Workers -> Nat] /\ held \in [Workers -> Nat]

HeadroomAt(level) == IF level > Reserve THEN level - Reserve ELSE 0

\* initialize_runtime_memory_guard(), before the workers are launched.
GuardInit ==
  /\ \E level \in Levels : headroom = HeadroomAt(level)
  /\ allowance = headroom
  /\ lowSamples = 0 /\ terminate = FALSE
  /\ reading = Unread
  /\ st = [w \in Workers |-> "running"]
  /\ ledger = [w \in Workers |-> 0]
  /\ asked = [w \in Workers |-> 0]
  /\ held = [w \in Workers |-> 0]
  /\ claimed = 0

-----------------------------------------------------------------------------
(* The stage loop.  It ends when the guard requires termination.           *)

\* memory_snapshot_reader()
SampleRead ==
  /\ reading = Unread /\ ~terminate
  /\ reading' \in Levels
  /\ UNCHANGED <<fileVars, workerVars, claimed>>

\* update_runtime_memory_guard(): consecutive emergency samples end the stage, and
\* the headroom replaces whatever allowance the claims had left.
Update ==
  /\ reading # Unread
  /\ lowSamples' = IF reading < Emergency THEN lowSamples + 1 ELSE 0
  /\ terminate' = (terminate \/ lowSamples' >= EmergencySamples)
  /\ headroom' = HeadroomAt(reading) /\ allowance' = HeadroomAt(reading)
  /\ claimed' = Total(ledger, Alive)
  /\ reading' = Unread
  /\ UNCHANGED workerVars

-----------------------------------------------------------------------------
(* The workers.                                                            *)

\* Mutant: any remaining allowance is enough.
AllowedWhileAny(request) == ~terminate /\ allowance > 0

Allowed(request) == ~terminate /\ allowance >= request

\* claim_runtime_allocation_growth() for shared memory, for a first piece or for
\* what the driver needs beyond it.  A denied extra fails the attempt.
Claim(w, request) ==
  /\ st[w] \in {"running", "granted"}
  /\ ledger[w] + request <= MaxClaims
  /\ IF Allowed(request)
     THEN /\ allowance' = allowance - request
          /\ ledger' = [ledger EXCEPT ![w] = @ + request]
          /\ asked' = [asked EXCEPT ![w] = @ + request]
          /\ st' = [st EXCEPT ![w] = "granted"]
     ELSE /\ st' = [st EXCEPT ![w] = IF @ = "granted" THEN "rejected" ELSE @]
          /\ UNCHANGED <<allowance, ledger, asked>>
  /\ UNCHANGED <<headroom, lowSamples, terminate, reading, held, claimed>>

Allocated(w) ==
  /\ st[w] = "granted"
  /\ st' = [st EXCEPT ![w] = "running"]
  /\ held' = [held EXCEPT ![w] = @ + asked[w]]
  /\ asked' = [asked EXCEPT ![w] = 0]
  /\ UNCHANGED <<fileVars, reading, ledger, claimed>>

AllocationFails(w) ==
  /\ st[w] = "granted"
  /\ st' = [st EXCEPT ![w] = "rejected"]
  /\ UNCHANGED <<fileVars, reading, ledger, asked, held, claimed>>

\* Mutant: a released claim is credited whatever the last sample said.
ReleaseUncapped(w, amount) ==
  /\ allowance' = allowance + amount
  /\ ledger' = [ledger EXCEPT ![w] = @ - amount]

\* release_runtime_allocation_claim() and the process's own account of it.
Release(w, amount) ==
  /\ allowance' = Min({headroom, allowance + amount})
  /\ ledger' = [ledger EXCEPT ![w] = @ - amount]

\* A failed attempt gives its claim back, then whatever it had allocated.
ReleaseRejected(w) ==
  /\ st[w] = "rejected"
  /\ Release(w, asked[w])
  /\ asked' = [asked EXCEPT ![w] = 0]
  /\ st' = [st EXCEPT ![w] = "running"]
  /\ UNCHANGED <<headroom, lowSamples, terminate, reading, held, claimed>>

\* Mutant: only a worker that still grows polls the guard.
PollsWhileGrowing(w) ==
  /\ st[w] = "running" /\ terminate /\ ledger[w] < MaxClaims
  /\ st' = [st EXCEPT ![w] = "stopping"]
  /\ UNCHANGED <<fileVars, reading, ledger, asked, held, claimed>>

\* runtime_memory_stop_required() in the worker's loop.
PollsStop(w) ==
  /\ st[w] = "running" /\ terminate
  /\ st' = [st EXCEPT ![w] = "stopping"]
  /\ UNCHANGED <<fileVars, reading, ledger, asked, held, claimed>>

\* Its load is over or it is told to stop.
Finishes(w) ==
  /\ st[w] = "running"
  /\ st' = [st EXCEPT ![w] = "stopping"]
  /\ UNCHANGED <<fileVars, reading, ledger, asked, held, claimed>>

\* Cleanup destroys the worker's objects first ...
Destroys(w) ==
  /\ st[w] = "stopping"
  /\ st' = [st EXCEPT ![w] = "destroyed"]
  /\ held' = [held EXCEPT ![w] = 0]
  /\ UNCHANGED <<fileVars, reading, ledger, asked, claimed>>

\* ... and then closes its claims.
ClosesClaims(w) ==
  /\ st[w] = "destroyed"
  /\ Release(w, ledger[w])
  /\ st' = [st EXCEPT ![w] = "gone"]
  /\ UNCHANGED <<headroom, lowSamples, terminate, reading, asked, held, claimed>>

\* Killed, crashed, or its cleanup failed: the claims stay charged in the file.
Dies(w) ==
  /\ st[w] # "gone"
  /\ st' = [st EXCEPT ![w] = "gone"]
  /\ held' = [held EXCEPT ![w] = 0]
  /\ asked' = [asked EXCEPT ![w] = 0]
  /\ UNCHANGED <<fileVars, reading, ledger, claimed>>

Works(w) == Allocated(w) \/ AllocationFails(w) \/ ReleaseRejected(w) \/ PollsStop(w)
              \/ Destroys(w) \/ ClosesClaims(w)

GuardNext == SampleRead \/ Update
          \/ \E w \in Workers : Works(w) \/ Finishes(w) \/ Dies(w)
                                 \/ \E request \in Requests : Claim(w, request)

\* The stage loop applies the samples it reads, and a worker's loop keeps running
\* and polls the guard; nothing makes a sample low or a worker ask.
GuardSpec == GuardInit /\ [][GuardNext]_guardVars
FairSpec == GuardSpec /\ WF_guardVars(Update) /\ \A w \in Workers : WF_guardVars(Works(w)) /\ SF_guardVars(PollsStop(w))

-----------------------------------------------------------------------------
(* Properties.                                                             *)

\* The workers never hold more than was claimed when the latest sample was applied
\* plus the headroom it found, although every update overwrites the allowance:
\* claims granted and not yet allocated, or destroyed and not yet released, at that
\* moment are all that the allowance can count twice.
GrowthWithinSample == Total(held, Workers) <= claimed + headroom

\* Below the reserve nothing is granted, whatever is released meanwhile: a released
\* claim never becomes allowance that the sample in force does not have.
NoGrowthUnderPressure ==
  [][headroom = 0 => \A w \in Workers : ledger'[w] <= ledger[w]]_guardVars

\* Once the guard requires termination every worker gives up its memory.
WorkersStop == \A w \in Workers : terminate ~> held[w] = 0 /\ st[w] \in {"destroyed", "gone"}
=============================================================================
