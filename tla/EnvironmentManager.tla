------------------------- MODULE EnvironmentManager -------------------------
(***************************************************************************)
(* EnvironmentManager: the maintenance operations on the project's Python  *)
(* environment.  Several managers may be started; a kernel lease admits    *)
(* one operation at a time, and an installer process inherits the lease.   *)
(* A rebuild sets the environment aside, makes a new one in its place and  *)
(* puts the old one back when that fails; what it is doing is kept in an   *)
(* operation record on disk, which a later recovery reads.                 *)
(*                                                                         *)
(* A call may fail or be interrupted at any step, a manager may be killed  *)
(* at any step and leaves its installer running, an interrupt at the wrong *)
(* moment makes a manager lose sight of the installer it just started, and *)
(* the operator may move directories by hand while nothing of this runs.   *)
(***************************************************************************)
EXTENDS Integers

CONSTANTS Managers,       \* manager processes that may be started
          MaxDirs,        \* bound: environment directories ever made
          Commands,       \* installer commands of one operation
          MaxMishaps,     \* bound: calls that fail or are interrupted
          MaxCrashes,     \* bound: managers killed
          MaxMoves        \* bound: moves by hand

ASSUME ManagerAssumption ==
  /\ MaxDirs \in Nat \ {0} /\ Commands \in Nat \ {0}
  /\ MaxMishaps \in Nat /\ MaxCrashes \in Nat /\ MaxMoves \in Nat

VARIABLES
  pc,         \* where the operation of each manager is
  record,     \* the record that operation has in memory
  left,       \* installer commands it still has to run
  installer,  \* the process group it started ("lost": running, but left without a kill)
  disk,       \* the operation record on disk
  venv,       \* the directory at .venv (its identity), 0 if there is none
  backups,    \* directories at the backup path of a rebuild
  kept,       \* directories set aside under any other name
  formed,     \* directories that hold a pyvenv.cfg
  verified,   \* directories whose packages were installed and verified
  made,       \* directories made so far
  strays,     \* directories a lost installer made at .venv
  byHand,     \* something was moved by hand since the record was saved
  mishaps, crashes, moves

managerVars == <<pc, record, left>>
treeVars == <<venv, backups, kept, formed, verified, made, strays>>
boundVars == <<mishaps, crashes, moves>>
vars == <<managerVars, installer, disk, treeVars, byHand, boundVars>>

Dirs == 1..MaxDirs
Entry == [operation : {"none", "rebuild", "synchronize"},
          status : {"none", "running", "completed", "failed", "restored", "cleanup_unconfirmed"},
          old : 0..MaxDirs, new : 0..MaxDirs]
NoRecord == [operation |-> "none", status |-> "none", old |-> 0, new |-> 0]

Rebuilding == {"aside", "mkdir", "identify", "undo", "restore", "settle"}
Installing == {"install", "wait", "reap", "unconfirmed", "failed", "commit"}

TypeOK ==
  /\ pc \in [Managers -> Rebuilding \cup Installing \cup {"idle", "dead"}]
  /\ record \in [Managers -> Entry] /\ disk \in Entry
  /\ left \in [Managers -> 0..Commands]
  /\ installer \in [Managers -> {"none", "alive", "lost", "killed"}]
  /\ venv \in 0..MaxDirs /\ made \in 0..MaxDirs
  /\ backups \subseteq Dirs /\ kept \subseteq Dirs
  /\ formed \subseteq Dirs /\ verified \subseteq Dirs /\ strays \subseteq Dirs
  /\ byHand \in BOOLEAN
  /\ mishaps \in 0..MaxMishaps /\ crashes \in 0..MaxCrashes /\ moves \in 0..MaxMoves

\* A checkout without an environment, or with one set up earlier.
Init ==
  /\ pc = [m \in Managers |-> "idle"] /\ record = [m \in Managers |-> NoRecord]
  /\ left = [m \in Managers |-> 0]
  /\ installer = [m \in Managers |-> "none"]
  /\ disk = NoRecord /\ made \in {0, 1} /\ venv = made
  /\ backups = {} /\ kept = {} /\ formed = 1..made /\ verified = 1..made
  /\ strays = {} /\ byHand = FALSE /\ mishaps = 0 /\ crashes = 0 /\ moves = 0

-----------------------------------------------------------------------------
(* The lease.  It belongs to the open file, which the installer shares: it *)
(* is free again when manager and installer are both gone from it.         *)
InOperation(m) == pc[m] \notin {"idle", "dead"}
LeasedByManager(m) == InOperation(m)          \* mutant: the lock is not inherited
Leased(m) == InOperation(m) \/ installer[m] # "none"
LockFree == \A m \in Managers : ~Leased(m)

Goto(m, next) == pc' = [pc EXCEPT ![m] = next]
End(m) == Goto(m, "idle") /\ record' = [record EXCEPT ![m] = NoRecord]
          /\ left' = [left EXCEPT ![m] = 0]

NoMishap == UNCHANGED boundVars
Mishap == mishaps < MaxMishaps /\ mishaps' = mishaps + 1 /\ UNCHANGED <<crashes, moves>>

\* save_operation(): a temporary file, synced and renamed over the record.
Save(entry) == disk' = entry /\ byHand' = FALSE
Settled(m, status) == Save([record[m] EXCEPT !.status = status])
Unsaved == UNCHANGED <<disk, byHand>>

\* check_pending_operation()
NothingPending ==
  /\ disk.status # "cleanup_unconfirmed"
  /\ ~(disk.operation = "rebuild" /\ disk.status = "running")

Begin(m, entry, next) ==
  /\ pc[m] = "idle" /\ LockFree
  /\ record' = [record EXCEPT ![m] = entry]
  /\ left' = [left EXCEPT ![m] = Commands]
  /\ Goto(m, next)
  /\ UNCHANGED <<installer, treeVars>> /\ NoMishap

(* sync(), upgrade_tools(), and create_or_repair() of an environment that *)
(* is there: packages are installed in place.                             *)
Synchronize(m) ==
  LET entry == [operation |-> "synchronize", status |-> "running", old |-> 0, new |-> 0]
  IN /\ NothingPending /\ venv \in formed
     /\ Begin(m, entry, "install") /\ Save(entry)

(* rebuild(), and create_or_repair() where there is no environment:        *)
(* replace_environment() records the old directory before it moves it, and *)
(* moves only a directory it recognises.                                   *)
Rebuild(m) ==
  LET entry == [operation |-> "rebuild", status |-> "running", old |-> venv, new |-> 0]
  IN /\ NothingPending /\ venv \in formed \cup {0} /\ made < MaxDirs
     /\ Begin(m, entry, IF venv = 0 THEN "mkdir" ELSE "aside") /\ Save(entry)

\* .venv renamed to its backup.  This is outside the try: a failure ends the
\* operation and leaves the record as it is.
Aside(m) ==
  /\ pc[m] = "aside"
  /\ \/ /\ Goto(m, "mkdir") /\ NoMishap
        /\ venv' = 0 /\ backups' = backups \cup {venv}
        /\ UNCHANGED <<record, left, kept, formed, verified, made, strays>>
     \/ Mishap /\ End(m) /\ UNCHANGED treeVars
  /\ UNCHANGED installer /\ Unsaved

MakeDirectory(m) ==
  /\ pc[m] = "mkdir"
  /\ \/ /\ Goto(m, "identify") /\ NoMishap
        /\ made' = made + 1 /\ venv' = made + 1
        /\ UNCHANGED <<backups, kept, formed, verified, strays>>
     \/ Mishap /\ Goto(m, "undo") /\ UNCHANGED treeVars
  /\ UNCHANGED <<record, left, installer>> /\ Unsaved

\* The identity of the new directory is taken and recorded.
Identify(m) ==
  /\ pc[m] = "identify"
  /\ LET entry == [record[m] EXCEPT !.new = venv]
     IN /\ record' = [record EXCEPT ![m] = entry]
        /\ \/ Goto(m, "install") /\ NoMishap /\ Save(entry)
           \/ Goto(m, "undo") /\ Mishap /\ Unsaved
  /\ UNCHANGED <<left, installer, treeVars>>

-----------------------------------------------------------------------------
(* run_managed_command(), once per command of the installation.            *)
\* Where a failed installation goes: a rebuild is undone, the packages of an
\* installation in place stay partial.
Recourse(m) == IF record[m].operation = "rebuild" THEN "undo" ELSE "failed"

\* An installer process runs, and may write to the environment at once.
Starts(m, how) ==
  /\ installer' = [installer EXCEPT ![m] = how]
  /\ verified' = verified \ {venv}
  /\ formed' \in {formed, formed \cup {venv}}

\* The process is started outside the try: an interrupt that comes when it
\* runs already, but is not waited for yet, leaves it behind unkilled.
Launch(m) ==
  /\ pc[m] = "install"
  /\ \/ Goto(m, "wait") /\ NoMishap /\ Starts(m, "alive")
     \/ Goto(m, Recourse(m)) /\ Mishap /\ Starts(m, "lost")
     \/ Goto(m, Recourse(m)) /\ Mishap /\ UNCHANGED <<installer, formed, verified>>
  /\ UNCHANGED <<record, left, venv, backups, kept, made, strays>> /\ Unsaved

Gone(m) == installer' = [installer EXCEPT ![m] = "none"]

\* A command ends well: the next one, or the packages are verified.
Installed(m) ==
  /\ pc[m] = "wait" /\ Gone(m)
  /\ left' = [left EXCEPT ![m] = @ - 1]
  /\ Goto(m, IF left[m] = 1 THEN "commit" ELSE "install")
  /\ verified' = IF left[m] = 1 THEN verified \cup {venv} ELSE verified
  /\ formed' = formed \cup {venv}
  /\ UNCHANGED <<record, venv, backups, kept, made, strays>> /\ Unsaved /\ NoMishap

\* mutant: the exit status is not looked at.
CommandUnchecked(m) ==
  /\ pc[m] = "wait" /\ Gone(m)
  /\ left' = [left EXCEPT ![m] = @ - 1]
  /\ Goto(m, IF left[m] = 1 THEN "commit" ELSE "install")
  /\ UNCHANGED <<record, treeVars>> /\ Unsaved /\ NoMishap

CommandFails(m) ==
  /\ pc[m] = "wait" /\ Gone(m) /\ Goto(m, Recourse(m))
  /\ UNCHANGED <<record, left, treeVars>> /\ Unsaved /\ NoMishap

\* The command times out, or the operator interrupts it: its group is killed,
\* or cannot be, or the handler is interrupted before it kills.
Kill(m) ==
  /\ pc[m] = "wait"
  /\ \/ /\ Goto(m, "reap") /\ NoMishap
        /\ installer' = [installer EXCEPT ![m] = "killed"]
     \/ Goto(m, "unconfirmed") /\ Mishap /\ UNCHANGED installer
     \/ /\ Goto(m, Recourse(m)) /\ Mishap
        /\ installer' = [installer EXCEPT ![m] = "lost"]
  /\ UNCHANGED <<record, left, treeVars>> /\ Unsaved

\* mutant: the killed group is waited for without a time-out.
ReapPatiently(m) ==
  /\ pc[m] = "reap" /\ installer[m] = "none" /\ Goto(m, Recourse(m)) /\ NoMishap
  /\ UNCHANGED <<record, left, installer, treeVars>> /\ Unsaved

\* The five seconds a killed group is given.
Reap(m) ==
  /\ pc[m] = "reap"
  /\ \/ installer[m] = "none" /\ Goto(m, Recourse(m)) /\ NoMishap
     \/ installer[m] = "killed" /\ Goto(m, "unconfirmed") /\ NoMishap
     \/ Mishap /\ Goto(m, Recourse(m))     \* interrupted once more
  /\ UNCHANGED <<record, left, installer, treeVars>> /\ Unsaved

\* A save that ends the operation; where it fails the record stays as it is.
Conclude(m, at, status) ==
  /\ pc[m] = at /\ End(m) /\ UNCHANGED <<installer, treeVars>>
  /\ \/ Settled(m, status) /\ NoMishap
     \/ Mishap /\ Unsaved

Complete(m) == Conclude(m, "commit", "completed")
Fail(m) == Conclude(m, "failed", "failed")
Unconfirmed(m) == Conclude(m, "unconfirmed", "cleanup_unconfirmed")

-----------------------------------------------------------------------------
(* The handler of replace_environment(), and recover_interrupted() once it *)
(* has verified the directories: the same three steps.                     *)
Undo(m) ==
  /\ pc[m] = "undo"
  /\ \/ /\ Goto(m, "restore") /\ NoMishap /\ UNCHANGED <<record, left>>
        /\ venv' = 0 /\ kept' = kept \cup ({venv} \ {0})
     \/ Mishap /\ End(m) /\ UNCHANGED <<venv, kept>>
  /\ UNCHANGED <<backups, formed, verified, made, strays, installer>> /\ Unsaved

\* A directory a lost installer made at .venv meanwhile is in the way.
Restore(m) ==
  /\ pc[m] = "restore"
  /\ \/ /\ record[m].old = 0
        /\ Goto(m, "settle") /\ UNCHANGED <<record, left, venv, backups>> /\ NoMishap
     \/ /\ record[m].old # 0 /\ venv = 0
        /\ Goto(m, "settle") /\ UNCHANGED <<record, left>> /\ NoMishap
        /\ venv' = record[m].old /\ backups' = backups \ {record[m].old}
     \/ /\ Mishap \/ (record[m].old # 0 /\ venv # 0 /\ NoMishap)
        /\ End(m) /\ UNCHANGED <<venv, backups>>
  /\ UNCHANGED <<kept, formed, verified, made, strays, installer>> /\ Unsaved

Settle(m) == Conclude(m, "settle", IF record[m].old = 0 THEN "failed" ELSE "restored")

(* recover_interrupted(): what the record and the identities of the        *)
(* directories say of the rebuild that was interrupted.                    *)
Interrupted == disk.operation = "rebuild" /\ disk.status = "running"

\* mutant: only a rebuild that had not moved anything is recognised.
InPlaceUnmoved == disk.old # 0 /\ venv = disk.old /\ disk.new = 0

\* The old directory is where it was: never moved, or put back already.
InPlace == disk.old # 0 /\ venv = disk.old
BackupVerified == disk.old = 0 \/ disk.old \in backups
ReplacementVerified == venv = 0 \/ (disk.new # 0 /\ venv = disk.new)

RecoverInPlace(m) ==
  /\ Interrupted /\ pc[m] = "idle" /\ LockFree /\ InPlace
  /\ Save([disk EXCEPT !.status = "restored"])
  /\ UNCHANGED <<managerVars, installer, treeVars>> /\ NoMishap

Recover(m) ==
  /\ Interrupted /\ ~InPlace /\ BackupVerified /\ ReplacementVerified
  /\ Begin(m, disk, "undo") /\ Unsaved

-----------------------------------------------------------------------------
Crash(m) ==
  /\ InOperation(m) /\ crashes < MaxCrashes /\ crashes' = crashes + 1
  /\ Goto(m, "dead") /\ record' = [record EXCEPT ![m] = NoRecord]
  /\ left' = [left EXCEPT ![m] = 0]
  /\ UNCHANGED <<installer, treeVars, mishaps, moves>> /\ Unsaved

\* Another manager is started once the installer of this one has ended.
Restart(m) ==
  /\ pc[m] = "dead" /\ installer[m] = "none" /\ Goto(m, "idle")
  /\ UNCHANGED <<record, left, installer, treeVars>> /\ Unsaved /\ NoMishap

\* An installer nobody waits for any more ends, or a killed one is gone.
InstallerEnds(m) ==
  /\ \/ installer[m] = "killed"
     \/ installer[m] = "lost"
     \/ installer[m] = "alive" /\ pc[m] # "wait"
  /\ Gone(m) /\ UNCHANGED <<managerVars, treeVars>> /\ Unsaved /\ NoMishap

\* A lost installer knows its environment by its path: it writes to whatever
\* is at .venv now, or makes a directory there again.
LostInstallerWrites(m) ==
  /\ installer[m] = "lost"
  /\ \/ /\ venv # 0 /\ verified' = verified \ {venv}
        /\ UNCHANGED <<venv, made, strays, formed>>
     \/ /\ venv = 0 /\ made < MaxDirs /\ made' = made + 1 /\ venv' = made + 1
        /\ strays' = strays \cup {made + 1}
        /\ formed' \in {formed, formed \cup {made + 1}}
        /\ UNCHANGED verified
  /\ UNCHANGED <<managerVars, installer, backups, kept>> /\ Unsaved /\ NoMishap

(* The operator, with LVS, manager and installers stopped: moves the       *)
(* environment aside, puts a retained one back, makes one, or moves aside  *)
(* a record that needs manual resolution.                                  *)
ByHand ==
  /\ LockFree /\ moves < MaxMoves /\ moves' = moves + 1 /\ byHand' = TRUE
  /\ UNCHANGED <<managerVars, installer, mishaps, crashes>>

MoveAside ==
  /\ ByHand /\ venv # 0 /\ venv' = 0 /\ kept' = kept \cup {venv}
  /\ UNCHANGED <<disk, backups, formed, verified, made, strays>>

PutBack ==
  /\ ByHand /\ venv = 0
  /\ \E d \in backups \cup kept :
       venv' = d /\ backups' = backups \ {d} /\ kept' = kept \ {d}
  /\ UNCHANGED <<disk, formed, verified, made, strays>>

MakeOwn ==
  /\ ByHand /\ venv = 0 /\ made < MaxDirs /\ made' = made + 1 /\ venv' = made + 1
  /\ formed' = formed \cup {made + 1}
  /\ UNCHANGED <<disk, backups, kept, verified, strays>>

Resolve ==
  /\ LockFree /\ ~NothingPending /\ disk' = NoRecord /\ byHand' = TRUE
  /\ UNCHANGED <<managerVars, installer, treeVars>> /\ NoMishap

-----------------------------------------------------------------------------
Step(m) ==
  \/ Aside(m) \/ MakeDirectory(m) \/ Identify(m)
  \/ Launch(m) \/ Installed(m) \/ CommandFails(m) \/ Kill(m) \/ Reap(m)
  \/ Complete(m) \/ Fail(m) \/ Unconfirmed(m)
  \/ Undo(m) \/ Restore(m) \/ Settle(m)

Start(m) == Synchronize(m) \/ Rebuild(m) \/ RecoverInPlace(m) \/ Recover(m)

Operator == MoveAside \/ PutBack \/ MakeOwn \/ Resolve

Next ==
  \/ \E m \in Managers : \/ Start(m) \/ Step(m) \/ Crash(m) \/ Restart(m)
                         \/ InstallerEnds(m) \/ LostInstallerWrites(m)
  \/ Operator

\* Every call a manager makes returns, installer commands through their
\* timeouts; nothing is assumed of installers, crashes or the operator.
Spec == Init /\ [][Next]_vars /\ \A m \in Managers : WF_vars(Step(m))

-----------------------------------------------------------------------------
KeepsItsEnvironment(m) ==
  installer[m] \in {"alive", "lost"} /\ venv' # venv =>
    /\ installer[m] = "lost"
    /\ pc[m] \in {"undo", "restore"} \/ venv' \in strays'

(* While an installer that was not killed runs, nobody moves .venv or puts *)
(* another directory in its place: no rebuild, recovery or later manager,  *)
(* whoever of its managers has died.  The exception is the rollback of the *)
(* operation whose manager lost it, and what the lost installer itself     *)
(* makes there.                                                            *)
LiveInstallerKeepsItsEnvironment == [][\A m \in Managers : KeepsItsEnvironment(m)]_vars

(* A rebuild that did not end can always be recovered: its record leads to *)
(* the old directory, and recover_interrupted() accepts what it finds.     *)
(* The exceptions are a new directory whose identity was never saved and   *)
(* one that a lost installer made, which it leaves alone.                  *)
InterruptedIsRecoverable ==
  Interrupted /\ LockFree /\ ~byHand =>
    /\ disk.old # 0 => disk.old \in backups \cup {venv}
    /\ \/ InPlace
       \/ BackupVerified /\ ReplacementVerified
       \/ disk.new = 0 /\ venv = made
       \/ venv \in strays

(* What a finished operation recorded is so: a completed one left a        *)
(* verified environment, a rebuild's the new one; a restored one has the   *)
(* old directory back at .venv; a first creation that failed left none but *)
(* one that a lost installer made after it.                                *)
RecordTruthful ==
  ~byHand =>
    /\ disk.status = "completed" => venv \in verified
    /\ disk.status = "completed" /\ disk.operation = "rebuild" => venv = disk.new
    /\ disk.status = "restored" => venv = disk.old
    /\ disk.status = "failed" /\ disk.operation = "rebuild" => venv \in strays \cup {0}

(* Every operation ends, or its manager is killed: no failing command,     *)
(* time-out or failing recovery leaves a manager holding the lease.        *)
OperationEnds == \A m \in Managers : InOperation(m) ~> ~InOperation(m)
=============================================================================
