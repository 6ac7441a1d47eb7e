------------------------ MODULE MigrationTransaction ------------------------
(***************************************************************************)
(* MigrationTransaction.execute(): the actions of a migration plan are     *)
(* applied one by one, each journalled first, with replaced files set      *)
(* aside in a private workspace; anything that goes wrong, an operator's   *)
(* interrupt included, undoes them in reverse.                             *)
(*                                                                         *)
(* A file system call may fail, another program may write a destination at *)
(* any time (only validation runs and other migrations take the lock), and *)
(* an interrupt may arrive between any two steps.  One workspace stands    *)
(* for the one per root; its directory is private, so nothing else is      *)
(* written there.                                                          *)
(***************************************************************************)
EXTENDS Integers, FiniteSets

CONSTANTS Actions,        \* number of actions in the plan
          Operation,      \* what each does: "mkdir", "create" or "replace"
          Inside,         \* the mkdir action whose directory it is in, or 0
          MaxFaults,      \* bound: file system calls that fail
          MaxTouched,     \* bound: destinations another program writes
          MaxInterrupts   \* bound: steps an interrupt arrives at

Targets == 1..Actions

ASSUME PlanAssumption ==
  /\ Actions \in Nat \ {0}
  /\ Operation \in [Targets -> {"mkdir", "create", "replace"}]
  /\ Inside \in [Targets -> 0..Actions]
  \* a directory the plan makes comes first, holds nothing to replace, and is
  \* only made for a file
  /\ \A i \in Targets : Inside[i] # 0 =>
       Inside[i] < i /\ Operation[Inside[i]] = "mkdir" /\ Operation[i] # "replace"
  /\ \E i \in Targets : Operation[i] # "mkdir"
  /\ MaxFaults \in Nat /\ MaxTouched \in Nat /\ MaxInterrupts \in Nat

VARIABLES
  pc,         \* where execute() is
  at,         \* the action it has reached
  tree,       \* what is at each destination
  backup,     \* what backup-N.bin holds, if that file exists
  after,      \* after_identity of each action, "unknown" before it is taken
  begun,      \* actions with a JournalOperation in memory
  installed,  \* actions in self.installed
  todo,       \* those the rollback has still to undo
  room,       \* the workspace directory exists
  work,       \* files in the workspace
  tracked,    \* workspace_files
  pending,    \* files the cleanup has still to remove
  complete,   \* the cleanup has removed everything so far
  disk,       \* journal.json: its phase and its operations
  outcome,    \* what execute() is about to return, or returned
  touched,    \* destinations another program wrote
  faults,     \* calls that failed
  cut         \* steps an interrupt arrived at

planVars == <<at, begun, installed>>
treeVars == <<tree, backup, after>>
workVars == <<room, work, tracked, disk>>
sweepVars == <<pending, complete>>
worldVars == <<touched, faults, cut>>
vars == <<pc, planVars, treeVars, todo, workVars, sweepVars, outcome, worldVars>>

Payload(i) == <<i, "payload">>
Backup(i) == <<i, "backup">>
Journal == <<0, "journal">>
Temporary == <<0, "temporary">>     \* journal-<uuid>.tmp, never in workspace_files
Files == {Payload(i) : i \in Targets} \cup {Backup(i) : i \in Targets} \cup {Journal, Temporary}

\* The destinations as the preview saw them, and as the plan wants them.
Previewed == [i \in Targets |-> IF Operation[i] = "replace" THEN "old" ELSE "none"]
Planned == [i \in Targets |-> IF Operation[i] = "mkdir" THEN "dir" ELSE "new"]

Body == {"pin", "revalidate", "begin", "make", "aside", "note", "own", "link",
         "identify", "complete", "verify"}
Contents == {"none", "dir", "old", "new", "other"}
Outcomes == {"none", "drift", "applied", "review", "rolled_back", "rollback_review",
             "recovery_required", "raised", "interrupted"}

TypeOK ==
  /\ pc \in Body \cup {"sweep", "undo", "remove", "restore", "settle", "returned"}
  /\ at \in Targets
  /\ tree \in [Targets -> Contents] /\ backup \in [Targets -> Contents]
  /\ after \in [Targets -> Contents \cup {"unknown"}]
  /\ begun \subseteq Targets /\ installed \subseteq Targets /\ todo \subseteq installed
  /\ room \in BOOLEAN /\ work \subseteq Files
  /\ tracked \subseteq Files \ {Temporary} /\ pending \subseteq tracked
  /\ complete \in BOOLEAN
  /\ disk \in [phase : Outcomes \cup {"applying", "verified"}, ops : SUBSET Targets]
  /\ outcome \in Outcomes
  /\ touched \subseteq Targets /\ faults \in 0..MaxFaults
  /\ cut \subseteq Body \cup {"sweep", "undo", "remove", "restore", "settle"}

Init ==
  /\ pc = "pin" /\ at = 1 /\ tree = Previewed
  /\ backup = [i \in Targets |-> "none"] /\ after = [i \in Targets |-> "unknown"]
  /\ begun = {} /\ installed = {} /\ todo = {}
  /\ room = FALSE /\ work = {} /\ tracked = {} /\ pending = {} /\ complete = TRUE
  /\ disk = [phase |-> "none", ops |-> {}]
  /\ outcome = "none" /\ touched = {} /\ faults = 0 /\ cut = {}

-----------------------------------------------------------------------------
Reachable(i) == Inside[i] # 0 => tree[Inside[i]] = "dir"

NoFault == UNCHANGED worldVars
Fault == faults < MaxFaults /\ faults' = faults + 1 /\ UNCHANGED <<touched, cut>>

\* A call refuses, or fails although it need not.
Refused(works) == (~works /\ NoFault) \/ Fault

\* The except clause: everything registered so far is to be undone.
StartUndo(registered) ==
  /\ pc' = "undo" /\ todo' = registered /\ installed' = registered
  /\ outcome' = "none" /\ pending' = {} /\ complete' = TRUE

Continue(next) == pc' = next /\ UNCHANGED <<todo, sweepVars, outcome>>

\* _write_journal(): a temporary file renamed over journal.json.  Before the
\* first file is pinned there is no workspace and nothing is written.
JournalWritten(phase, ops) ==
  /\ IF room THEN /\ disk' = [phase |-> phase, ops |-> ops]
                  /\ work' = work \cup {Journal} /\ tracked' = tracked \cup {Journal}
             ELSE UNCHANGED <<disk, work, tracked>>
  /\ UNCHANGED room /\ NoFault

JournalFails ==
  /\ room /\ Fault
  /\ \/ UNCHANGED work
     \/ work' = work \cup {Temporary}
  /\ UNCHANGED <<room, tracked, disk>>

\* _cleanup() starts on the files the transaction knows of.
StartSweep(result) ==
  /\ pc' = "sweep" /\ outcome' = result /\ complete' = TRUE
  /\ UNCHANGED todo

-----------------------------------------------------------------------------
\* Every payload is copied into the workspace before anything is changed.
\* A copy that fails may leave a file, known to workspace_files or not yet.
Pin ==
  /\ pc = "pin"
  /\ UNCHANGED <<begun, treeVars, disk>>
  /\ \/ /\ IF Operation[at] = "mkdir" THEN UNCHANGED <<room, work, tracked>>
           ELSE /\ room' = TRUE /\ work' = work \cup {Payload(at)}
                /\ tracked' = tracked \cup {Payload(at)}
        /\ IF at = Actions THEN at' = 1 /\ Continue("revalidate")
           ELSE at' = at + 1 /\ Continue("pin")
        /\ NoFault /\ UNCHANGED installed
     \/ /\ Fault /\ StartUndo(installed) /\ UNCHANGED at
        /\ \/ UNCHANGED <<room, work, tracked>>
           \/ /\ Operation[at] # "mkdir" /\ room' = TRUE
              /\ work' = work \cup {Payload(at)}
              /\ tracked' \in {tracked, tracked \cup {Payload(at)}}

\* The plan is built again: another preview token means a destination drifted.
Revalidate ==
  /\ pc = "revalidate"
  /\ UNCHANGED <<at, begun, treeVars, workVars>>
  /\ \/ tree = Previewed /\ Continue("begin") /\ NoFault /\ UNCHANGED installed
     \/ /\ tree # Previewed /\ StartSweep("drift") /\ pending' = tracked
        /\ NoFault /\ UNCHANGED installed
     \/ Fault /\ StartUndo(installed)

Expected(i) == Reachable(i) /\ (Operation[i] = "replace" <=> tree[i] # "none")

FirstStep == [mkdir |-> "make", create |-> "link", replace |-> "aside"]

\* Mutant: the operation is not journalled before it is carried out.
BeginUnlogged ==
  /\ pc = "begin" /\ UNCHANGED <<at, treeVars>>
  /\ \/ /\ Expected(at) /\ begun' = begun \cup {at} /\ UNCHANGED workVars /\ NoFault
        /\ Continue(FirstStep[Operation[at]]) /\ UNCHANGED installed
     \/ Refused(Expected(at)) /\ StartUndo(installed) /\ UNCHANGED <<begun, workVars>>

\* The destination is looked at again and the operation journalled.
Begin ==
  /\ pc = "begin"
  /\ UNCHANGED <<at, treeVars>>
  /\ \/ /\ Expected(at) /\ begun' = begun \cup {at}
        /\ JournalWritten("applying", begun') /\ Continue(FirstStep[Operation[at]])
        /\ UNCHANGED installed
     \/ /\ Expected(at) /\ begun' = begun \cup {at} /\ JournalFails /\ StartUndo(installed)
     \/ Refused(Expected(at)) /\ StartUndo(installed) /\ UNCHANGED <<begun, workVars>>

\* ensure_private_dir() takes a directory that is already there, and may fail
\* after creating it.
Make ==
  /\ pc = "make"
  /\ UNCHANGED <<at, begun, backup, after, workVars>>
  /\ \/ /\ Reachable(at) /\ tree' = [tree EXCEPT ![at] = "dir"]
        /\ Continue("complete") /\ NoFault /\ UNCHANGED installed
     \/ /\ Refused(Reachable(at)) /\ StartUndo(installed)
        /\ \/ UNCHANGED tree
           \/ Reachable(at) /\ tree' = [tree EXCEPT ![at] = "dir"]

\* A file to be replaced is renamed into the workspace ...
Aside ==
  /\ pc = "aside"
  /\ UNCHANGED <<at, begun, after, room, tracked, disk>>
  /\ \/ /\ tree[at] # "none" /\ Reachable(at)
        /\ backup' = [backup EXCEPT ![at] = tree[at]]
        /\ tree' = [tree EXCEPT ![at] = "none"] /\ work' = work \cup {Backup(at)}
        /\ Continue("note") /\ NoFault /\ UNCHANGED installed
     \/ /\ Refused(tree[at] # "none" /\ Reachable(at)) /\ StartUndo(installed)
        /\ UNCHANGED <<tree, backup, work>>

\* ... added to workspace_files ...
Note ==
  /\ pc = "note" /\ tracked' = tracked \cup {Backup(at)} /\ Continue("own") /\ NoFault
  /\ UNCHANGED <<planVars, treeVars, room, work, disk>>

\* Mutant: a replacement is registered only once it is identified.
OwnLater ==
  /\ pc = "own" /\ Continue("link") /\ NoFault
  /\ UNCHANGED <<planVars, treeVars, workVars>>

\* ... and the replacement registered, before the new file is linked.
Own ==
  /\ pc = "own" /\ installed' = installed \cup {at} /\ Continue("link") /\ NoFault
  /\ UNCHANGED <<at, begun, treeVars, workVars>>

Linkable == tree[at] = "none" /\ Reachable(at)

\* link_exclusive() never overwrites.
Link ==
  /\ pc = "link"
  /\ UNCHANGED <<at, begun, backup, after, workVars>>
  /\ \/ /\ Linkable /\ tree' = [tree EXCEPT ![at] = "new"]
        /\ Continue("identify") /\ NoFault /\ UNCHANGED installed
     \/ Refused(Linkable) /\ StartUndo(installed) /\ UNCHANGED tree

\* The identity of what is now at the destination is what the rollback may
\* remove; it must be the payload.
Identify ==
  /\ pc = "identify"
  /\ UNCHANGED <<at, begun, tree, backup, workVars>>
  /\ \/ /\ after' = [after EXCEPT ![at] = tree[at]] /\ tree[at] = "new"
        /\ installed' = installed \cup {at} /\ Continue("complete") /\ NoFault
     \/ /\ tree[at] # "none" /\ after' = [after EXCEPT ![at] = tree[at]]
        /\ Refused(tree[at] = "new") /\ StartUndo(installed \cup {at})
     \/ /\ Refused(Reachable(at) /\ tree[at] # "none")
        /\ StartUndo(installed) /\ UNCHANGED after

Advance ==
  IF at = Actions THEN UNCHANGED at /\ Continue("verify")
  ELSE at' = at + 1 /\ Continue("begin")

Registered == IF Operation[at] = "mkdir" THEN installed \cup {at} ELSE installed

\* The action is complete; a directory is registered only now.
Complete ==
  /\ pc = "complete"
  /\ UNCHANGED <<begun, treeVars>>
  /\ \/ JournalWritten("applying", begun) /\ Advance /\ installed' = Registered
     \/ JournalFails /\ StartUndo(Registered) /\ UNCHANGED at

Verify ==
  /\ pc = "verify"
  /\ UNCHANGED <<at, begun, treeVars>>
  /\ \/ /\ JournalWritten("verified", begun) /\ StartSweep("applied") /\ pending' = tracked'
        /\ UNCHANGED installed
     \/ JournalFails /\ StartUndo(installed)

-----------------------------------------------------------------------------
Incomplete == [applied |-> "review", drift |-> "drift", rolled_back |-> "rollback_review"]

\* reverse=True: payloads, then the journal, then the backups.
Rank(f) == IF f[2] = "payload" THEN 2 ELSE IF f = Journal THEN 1 ELSE 0
Sooner(f, g) == Rank(f) > Rank(g) \/ (Rank(f) = Rank(g) /\ (f[2] = "payload" \/ f[1] >= g[1]))

\* _cleanup() removes the files it knows of and goes on when one stays.
SweepFile ==
  /\ pc = "sweep"
  /\ \E f \in pending :
       /\ \A g \in pending : Sooner(f, g)
       /\ pending' = pending \ {f}
       /\ \/ work' = work \ {f} /\ UNCHANGED complete /\ NoFault
          \/ Fault /\ complete' = FALSE /\ UNCHANGED work
  /\ UNCHANGED <<pc, planVars, treeVars, todo, room, tracked, disk, outcome>>

\* The directory must be empty; then execute() returns.
SweepDirectory ==
  /\ pc = "sweep" /\ pending = {} /\ pc' = "returned"
  /\ \/ /\ room => work = {}
        /\ NoFault /\ room' = FALSE
        /\ outcome' = IF complete THEN outcome ELSE Incomplete[outcome]
     \/ /\ room /\ Refused(work = {}) /\ UNCHANGED room
        /\ outcome' = Incomplete[outcome]
  /\ UNCHANGED <<planVars, treeVars, todo, work, tracked, disk, sweepVars>>

-----------------------------------------------------------------------------
Occupied(i) == \E j \in Targets : Inside[j] = i /\ tree[j] # "none"

\* Mutant: remove_verified() does not compare identities.
RemovableAnyway(i) ==
  IF Operation[i] = "mkdir" THEN tree[i] = "dir" /\ ~Occupied(i)
  ELSE Reachable(i) /\ tree[i] # "none"

\* rmdir() will remove the directory, or the identity of the file is the one noted
\* when it was installed.
Removable(i) ==
  IF Operation[i] = "mkdir" THEN tree[i] = "dir" /\ ~Occupied(i)
  ELSE Reachable(i) /\ tree[i] = after[i] /\ tree[i] # "none"

\* Mutant: the rollback goes forward.
Earliest(i) == i \in todo /\ \A j \in todo : j >= i

Latest(i) == i \in todo /\ \A j \in todo : j <= i

\* The first step that fails ends the rollback.
GiveUp == pc' = "settle" /\ outcome' = "recovery_required" /\ UNCHANGED <<todo, sweepVars>>

\* The newest action is undone: a directory removed, a file compared with what the
\* transaction put there before it is removed ...
Undo ==
  /\ pc = "undo"
  /\ UNCHANGED <<planVars, backup, after, workVars>>
  /\ \E i \in todo :
       /\ Latest(i)
       /\ \/ /\ Operation[i] = "replace" /\ after[i] = "unknown"
             /\ Continue("restore") /\ NoFault /\ UNCHANGED tree
          \/ /\ Operation[i] = "mkdir" /\ Removable(i) /\ NoFault
             /\ tree' = [tree EXCEPT ![i] = "none"]
             /\ todo' = todo \ {i} /\ UNCHANGED <<pc, sweepVars, outcome>>
          \/ /\ Operation[i] # "mkdir" /\ after[i] # "unknown"
             /\ Removable(i) /\ NoFault
             /\ Continue("remove") /\ UNCHANGED tree
          \/ /\ Operation[i] # "replace" \/ after[i] # "unknown"
             /\ Refused(Removable(i)) /\ GiveUp /\ UNCHANGED tree

\* ... unlink() removes whatever file is there by now ...
Remove ==
  /\ pc = "remove"
  /\ UNCHANGED <<planVars, backup, after, workVars>>
  /\ \E i \in todo :
       LET works == Reachable(i) /\ tree[i] # "none"
       IN  /\ Latest(i)
           /\ \/ /\ works /\ NoFault /\ tree' = [tree EXCEPT ![i] = "none"]
                 /\ IF Operation[i] = "replace" THEN Continue("restore")
                    ELSE /\ todo' = todo \ {i} /\ pc' = "undo"
                         /\ UNCHANGED <<sweepVars, outcome>>
              \/ Refused(works) /\ GiveUp /\ UNCHANGED tree

\* ... and rename() puts a backup back over whatever is at the destination.
Restore ==
  /\ pc = "restore"
  /\ UNCHANGED <<planVars, backup, after, room, disk>>
  /\ \E i \in todo :
       LET works == Backup(i) \in work /\ Reachable(i)
       IN  /\ Latest(i)
           /\ \/ /\ works /\ NoFault
                 /\ tree' = [tree EXCEPT ![i] = backup[i]]
                 /\ work' = work \ {Backup(i)} /\ tracked' = tracked \ {Backup(i)}
                 /\ todo' = todo \ {i} /\ pc' = "undo" /\ UNCHANGED <<sweepVars, outcome>>
              \/ Refused(works) /\ GiveUp /\ UNCHANGED <<tree, work, tracked>>

Undone ==
  /\ pc = "undo" /\ todo = {} /\ pc' = "settle" /\ outcome' = "rolled_back" /\ NoFault
  /\ UNCHANGED <<planVars, treeVars, todo, workVars, sweepVars>>

\* The handler records the outcome, and cleans up only after a whole rollback.
\* If the record cannot be written execute() raises instead of returning.
Settle ==
  /\ pc = "settle"
  /\ UNCHANGED <<planVars, treeVars>>
  /\ \/ /\ JournalWritten(outcome, begun)
        /\ IF outcome = "rolled_back" THEN StartSweep(outcome) /\ pending' = tracked'
           ELSE Continue("returned")
     \/ /\ JournalFails /\ pc' = "returned" /\ outcome' = "raised"
        /\ UNCHANGED <<todo, sweepVars>>

-----------------------------------------------------------------------------
InHandler == pc \in {"undo", "remove", "restore", "settle"} \/ (pc = "sweep" /\ outcome = "rolled_back")

JournalSteps == IF room THEN {"begin", "complete", "verify", "settle"} ELSE {}

\* KeyboardInterrupt: caught once by the except clause, from which a second
\* one escapes.  It may cut the writing of the journal short.
Interrupt ==
  /\ pc # "returned" /\ Cardinality(cut) < MaxInterrupts
  /\ cut' = cut \cup {pc}
  /\ \/ ~InHandler /\ StartUndo(installed)
     \/ /\ InHandler /\ pc' = "returned" /\ outcome' = "interrupted"
        /\ UNCHANGED <<installed, todo, sweepVars>>
  /\ work' \in {work} \cup {work \cup {Temporary} : p \in {pc} \cap JournalSteps}
  /\ UNCHANGED <<at, begun, treeVars, room, tracked, disk, touched, faults>>

\* Another program writes or deletes a destination, or makes a directory.
Touch ==
  /\ pc # "returned" /\ Cardinality(touched) < MaxTouched
  /\ \E i \in Targets \ touched :
       /\ touched' = touched \cup {i}
       /\ \/ Operation[i] = "mkdir" /\ tree[i] = "none" /\ tree' = [tree EXCEPT ![i] = "dir"]
          \/ /\ Operation[i] # "mkdir" /\ Reachable(i)
             /\ \E c \in {"other", "none"} \ {tree[i]} : tree' = [tree EXCEPT ![i] = c]
  /\ UNCHANGED <<pc, planVars, backup, after, todo, workVars, sweepVars, outcome, faults, cut>>

Next ==
  \/ Pin \/ Revalidate \/ Begin \/ Make \/ Aside \/ Note \/ Own \/ Link \/ Identify
  \/ Complete \/ Verify \/ SweepFile \/ SweepDirectory
  \/ Undo \/ Remove \/ Restore \/ Undone \/ Settle \/ Interrupt \/ Touch

Spec == Init /\ [][Next]_vars

-----------------------------------------------------------------------------
\* Targets no other program wrote: what the transaction answers for.
Mine == Targets \ touched
Replaced == {i \in Mine : Operation[i] = "replace"}

\* The file a replacement displaces can still be found.
OriginalFound(i) == tree[i] = "old" \/ (Backup(i) \in work /\ backup[i] = "old")

\* Successful, whatever became of the cleanup.
Applied == outcome \in {"applied", "review"}

\* No failing call, in the apply or in the rollback, loses an original: until
\* every action is applied and verified it is at its destination or in the
\* workspace.  An interrupt loses it only between rename and registration, or
\* while the backups are being removed.
OriginalKept ==
  cut \cap {"own", "sweep"} = {} =>
    \A i \in Replaced : OriginalFound(i) \/ (Applied /\ tree[i] = "new")

\* What the operator notes promise, with no exception for interrupts: a
\* replaced credential keeps its backup until the new one is in place
\* (OPERATOR_NOTES.md:219-221).
OriginalSurvives ==
  \A i \in Replaced : OriginalFound(i) \/ (Applied /\ tree[i] = "new")

\* A process killed, or a rollback given up, leaves a journal that lists every
\* destination the transaction has changed (journal write before each change,
\* and no cleanup before the outcome is settled).
JournalWrittenAhead ==
  outcome \in {"none", "recovery_required", "raised"} /\ "sweep" \notin cut =>
    \A i \in Mine : tree[i] # Previewed[i] => Journal \in work /\ i \in disk.ops

\* An action under way that is not registered yet: rollback cannot see it.
Unseen(i) == i = at /\ i \notin installed

\* applied: everything is as planned and nothing of the workspace is left.
AppliedHolds ==
  /\ Applied => \A i \in Mine : tree[i] = Planned[i]
  /\ outcome = "applied" /\ pc = "returned" => ~room /\ work = {}

\* rollback_complete: everything is as before, except what an action cut off
\* between its change and its registration left behind.
RolledBackHolds ==
  outcome \in {"drift", "rolled_back", "rollback_review"} =>
    \A i \in Mine : tree[i] = Previewed[i] \/ Unseen(i)

\* recovery_required after a failed rollback: the journal says so and lists
\* what is left, and one failing call in an undisturbed run never leads there
\* unless it left such an unregistered target in the way.
RecoveryHolds ==
  outcome = "recovery_required" /\ pc = "returned" =>
    /\ room => disk.phase = "recovery_required" /\ Journal \in work
    /\ \A i \in Mine : tree[i] # Previewed[i] => i \in disk.ops
    /\ \/ faults > 1 \/ touched # {} \/ cut # {}
       \/ Unseen(at) /\ tree[at] # Previewed[at]

\* The result the operator is shown is true of the files.
OutcomeTruthful == AppliedHolds /\ RolledBackHolds /\ RecoveryHolds

\* The rollback never begins to remove a file another program wrote over an
\* installed one, and no other step touches it: it compares identities first
\* (remove_verified).  Lost is only what is written at the target being undone
\* after that comparison, before the unlink or before the backup's rename.
LateWritesKept ==
  [][\A i \in Targets : after[i] = "new" /\ tree[i] = "other" =>
       \/ tree'[i] = "other" /\ (pc = "undo" /\ Latest(i) => pc' \notin {"remove", "restore"})
       \/ pc \in {"remove", "restore"} /\ Latest(i)]_vars
=============================================================================
