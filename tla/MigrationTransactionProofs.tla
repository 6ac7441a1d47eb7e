--------------------- MODULE MigrationTransactionProofs ---------------------
(***************************************************************************)
(* For every plan and any number of failing calls, writes by others and    *)
(* interrupts: types, what the journal and the workspace hold, and that    *)
(* the result execute() returns is true.                                   *)
(***************************************************************************)
EXTENDS MigrationTransaction, TLAPS

Handler == {"undo", "remove", "restore", "settle"}

-----------------------------------------------------------------------------
(* Which outcome, and which files still to be removed, go with which place. *)
Places ==
  /\ pc \in Body \cup {"undo", "remove", "restore"} => outcome = "none"
  /\ pc = "settle" => outcome \in {"rolled_back", "recovery_required"}
  /\ pc = "sweep" => outcome \in {"applied", "drift", "rolled_back"}
  /\ pc = "returned" => outcome # "none"
  /\ pc \in {"undo", "remove", "restore", "settle"} => pending = {}
  /\ pc \in Body \cup {"sweep"} => todo = {}
  /\ pc = "settle" /\ outcome = "rolled_back" => todo = {}

(* Once a file is pinned the workspace is there until it is cleaned up. *)
Roomy ==
  /\ pc = "pin" /\ (\E i \in Targets : i < at /\ Operation[i] # "mkdir") => room
  /\ pc \in Body \ {"pin"} => room
  /\ pc = "sweep" /\ outcome = "applied" => room
  /\ pc # "returned" /\ begun # {} => room

Begun == disk.ops \subseteq begun

(* Actions that have changed nothing yet. *)
Untried(i) ==
  \/ pc \in {"pin", "revalidate"}
  \/ pc \in Body /\ i > at
  \/ pc \in {"begin", "make", "aside"} /\ i = at
  \/ pc = "link" /\ i = at /\ Operation[at] = "create"

FreshAt(i) == Untried(i) =>
  /\ after[i] = "unknown" /\ i \notin installed
  /\ Backup(i) \notin work /\ Backup(i) \notin tracked
  /\ i \notin touched => tree[i] = Previewed[i]

Fresh == \A i \in Targets : FreshAt(i)

(* The action under way. *)
Midway ==
  /\ pc = "make" => Operation[at] = "mkdir"
  /\ pc \in {"aside", "note", "own"} => Operation[at] = "replace"
  /\ pc \in {"link", "identify"} => Operation[at] # "mkdir"
  /\ pc \in {"note", "own", "link", "identify"} => after[at] = "unknown"
  /\ pc = "note" => Backup(at) \notin tracked
  /\ pc \in {"note", "own", "link", "identify"} /\ Operation[at] = "replace" => Backup(at) \in work
  /\ pc \in {"note", "own", "link"} /\ at \notin touched => tree[at] = "none"
  /\ pc = "remove" => \A j \in todo : Latest(j) =>
       /\ Operation[j] # "mkdir" /\ after[j] # "unknown"
       /\ j \notin touched => tree[j] = after[j]
  /\ pc = "restore" => \A j \in todo : Latest(j) => Operation[j] = "replace"
  /\ pc = "identify" => tree[at] \in {"new", "other", "none"}
  /\ pc = "identify" /\ at \notin touched => tree[at] = "new"
  /\ pc = "complete" /\ Operation[at] # "mkdir" => at \in installed
  /\ pc = "revalidate" => at = 1
  /\ pc = "verify" => at = Actions /\ at \in installed
  /\ pc \in {"make", "aside", "note", "own", "link", "identify", "complete"} => at \in begun

(* Actions that are over are as planned. *)
Over(i) ==
  \/ pc \in Body \ {"pin", "revalidate"} /\ i < at
  \/ pc \in {"complete", "verify"} /\ i = at

DoneAt(i) == Over(i) =>
  /\ i \notin touched => tree[i] = Planned[i]
  /\ i < at => i \in installed

Done == \A i \in Targets : DoneAt(i)

(* Files of other programs, and what a backup and an identity can be. *)
ContainedAt(i) ==
  /\ after[i] \in {"unknown", "new", "other", "none"}
  /\ tree[i] = "other" \/ backup[i] = "other" => i \in touched
  /\ i \notin touched /\ Backup(i) \in work => backup[i] = "old"
  /\ i \notin touched => after[i] \in {"unknown", "new"}
  /\ Operation[i] = "mkdir" => tree[i] \in {"none", "dir"} /\ after[i] = "unknown"
  /\ Operation[i] # "mkdir" => tree[i] # "dir" /\ backup[i] # "dir"

Contained == \A i \in Targets : ContainedAt(i)

AppliedAt(i) == Applied /\ i \notin touched => tree[i] = Planned[i]

AppliedAsPlanned == \A i \in Targets : AppliedAt(i)

BodyInv == Places /\ Roomy /\ Begun /\ Fresh /\ Midway /\ Done /\ Contained /\ AppliedAsPlanned

(* A backup is listed for cleanup only while the rollback knows of it. *)
Sheltered(i) ==
  \/ Backup(i) \notin tracked
  \/ pc = "own" /\ i = at
  \/ pc \in Body /\ i \in installed
  \/ pc \in Handler \cup {"returned"} /\ i \in todo

KeepingAt(i) ==
  cut \cap {"own", "sweep"} = {} /\ i \notin touched /\ Operation[i] = "replace" =>
    \/ tree[i] = "old"
    \/ Backup(i) \in work /\ backup[i] = "old" /\ Sheltered(i)
    \/ Applied /\ tree[i] = "new"

Keeping == \A i \in Targets : KeepingAt(i)

(* What changed is in the journal. *)
LoggedAt(i) ==
  /\ outcome \in {"none", "recovery_required", "raised"} \/ pc = "settle"
  /\ "sweep" \notin cut /\ i \notin touched
  /\ \/ tree[i] # Previewed[i]
     \/ pc \in {"make", "aside", "note", "own", "link", "identify", "complete"} /\ i = at
  => Journal \in work /\ i \in disk.ops

Logged == \A i \in Targets : LoggedAt(i)

(* What changed was begun, and the rollback knows of it or cannot see it. *)
RolledBack == outcome \in {"drift", "rolled_back", "rollback_review"}
Going == pc \in Body \/ (pc = "sweep" /\ outcome \in {"applied", "drift"})

KnownAt(i) == i \notin touched /\ tree[i] # Previewed[i] =>
  /\ i \in begun
  /\ Going => i \in installed \/ i = at
  /\ pc \in {"undo", "remove", "restore"} \/ RolledBack => i \in todo \/ Unseen(i)

Known == (RolledBack => todo = {}) /\ \A i \in Targets : KnownAt(i)

(* Undisturbed, what the rollback still has to undo is as it was left, and   *)
(* only a failing call started it.                                           *)
Undisturbed == touched = {} /\ cut = {}

ToUndo(i) ==
  IF pc \in Body THEN i \in installed ELSE pc \in {"undo", "remove", "restore"} /\ i \in todo

LeftAt(i) == Undisturbed =>
  /\ ToUndo(i) /\ Operation[i] = "mkdir" => tree[i] = "dir"
  /\ ToUndo(i) /\ Operation[i] = "create" => tree[i] = "new" /\ after[i] = "new"
  /\ ToUndo(i) /\ Operation[i] = "replace" =>
       /\ Backup(i) \in work
       /\ after[i] \in {"unknown", "new"}
       /\ after[i] = "new" => tree[i] = "new" \/ (pc = "restore" /\ Latest(i))

ReachedAt(i) == Undisturbed /\ tree[i] # "none" => Reachable(i)

Reversible == \A i \in Targets : LeftAt(i) /\ ReachedAt(i)

Caused == Undisturbed /\ pc \in Handler => faults > 0

Settled ==
  /\ outcome = "recovery_required" /\ pc = "returned" =>
       /\ room => disk.phase = "recovery_required" /\ Journal \in work
       /\ disk.ops = begun \/ begun = {}
  /\ outcome = "applied" /\ pc = "returned" => ~room /\ work = {}

Justified == outcome = "recovery_required" /\ Undisturbed =>
  faults > 1 \/ (Unseen(at) /\ tree[at] # Previewed[at])

IInv ==
  /\ TypeOK /\ BodyInv /\ Keeping /\ Logged /\ Known
  /\ Reversible /\ Caused /\ Settled /\ Justified

-----------------------------------------------------------------------------
(* The files of a workspace are distinct. *)
LEMMA FileNames ==
  /\ \A i \in Targets : Payload(i) \in Files \ {Temporary} /\ Backup(i) \in Files \ {Temporary}
  /\ \A i, j \in Targets : Payload(i) # Backup(j) /\ (Backup(i) = Backup(j) => i = j)
  /\ \A i \in Targets : Payload(i) # Journal /\ Backup(i) # Journal /\ Backup(i) # Temporary
  /\ Journal \in Files \ {Temporary} /\ Temporary \in Files
BY DEF Payload, Backup, Journal, Temporary, Files, Targets

LEMMA MaxFaultsNat == MaxFaults \in Nat
BY PlanAssumption

(* The actions of a plan are numbered from 1. *)
LEMMA Numbers ==
  /\ Actions \in Nat /\ 1 \in Targets /\ Actions \in Targets
  /\ \A i \in Targets : i \in Int /\ 1 <= i /\ i <= Actions
  /\ \A i \in Targets : i # Actions => i + 1 \in Targets
BY PlanAssumption DEF Targets

(* A directory of the plan comes before what is in it. *)
LEMMA Directories ==
  \A i \in Targets : Inside[i] # 0 =>
    /\ Inside[i] \in Targets /\ Inside[i] < i
    /\ Operation[Inside[i]] = "mkdir" /\ Operation[i] # "replace"
BY PlanAssumption DEF Targets

(* The rollback takes one action at a time. *)
LEMMA OneLatest ==
  ASSUME NEW i \in Targets, NEW j \in Targets, Latest(i), Latest(j)
  PROVE i = j
BY Numbers DEF Latest

(* What an action does first. *)
LEMMA FirstSteps ==
  \A i \in Targets :
    /\ Operation[i] \in {"mkdir", "create", "replace"}
    /\ FirstStep[Operation[i]] \in {"make", "link", "aside"}
    /\ (FirstStep[Operation[i]] = "make") = (Operation[i] = "mkdir")
    /\ (FirstStep[Operation[i]] = "link") = (Operation[i] = "create")
BY PlanAssumption DEF Targets, FirstStep

(* How its target looks before and after. *)
LEMMA Shapes ==
  /\ Previewed \in [Targets -> {"old", "none"}] /\ Planned \in [Targets -> {"dir", "new"}]
  /\ \A i \in Targets : (Previewed[i] = "old") = (Operation[i] = "replace")
  /\ \A i \in Targets : (Planned[i] = "dir") = (Operation[i] = "mkdir")
BY PlanAssumption DEF Targets, Previewed, Planned

(* What the outcome is after an incomplete cleanup. *)
LEMMA Incompletes ==
  /\ Incomplete["applied"] = "review" /\ Incomplete["drift"] = "drift"
  /\ Incomplete["rolled_back"] = "rollback_review"
BY DEF Incomplete

-----------------------------------------------------------------------------
(* Only a touch touches, only an interrupt cuts. *)
LEMMA Steady ==
  ASSUME [Next]_vars
  PROVE /\ touched \subseteq touched' /\ (Touch \/ touched' = touched)
        /\ cut \subseteq cut' /\ (Interrupt \/ cut' = cut)
<1> USE DEF NoFault, Fault, Refused, JournalWritten, JournalFails, worldVars
<1>1. CASE Pin BY <1>1 DEF Pin
<1>2. CASE Revalidate BY <1>2 DEF Revalidate
<1>3. CASE Begin BY <1>3 DEF Begin
<1>4. CASE Make BY <1>4 DEF Make
<1>5. CASE Aside BY <1>5 DEF Aside
<1>6. CASE Note BY <1>6 DEF Note
<1>7. CASE Own BY <1>7 DEF Own
<1>8. CASE Link BY <1>8 DEF Link
<1>9. CASE Identify BY <1>9 DEF Identify
<1>10. CASE Complete BY <1>10 DEF Complete, Advance, Registered
<1>11. CASE Verify BY <1>11 DEF Verify
<1>12. CASE SweepFile BY <1>12 DEF SweepFile
<1>13. CASE SweepDirectory BY <1>13 DEF SweepDirectory
<1>14. CASE Undo BY <1>14 DEF Undo, GiveUp
<1>15. CASE Remove BY <1>15 DEF Remove, GiveUp
<1>16. CASE Restore BY <1>16 DEF Restore, GiveUp
<1>17. CASE Undone BY <1>17 DEF Undone
<1>18. CASE Settle BY <1>18 DEF Settle
<1>19. CASE Interrupt BY <1>19 DEF Interrupt
<1>20. CASE Touch BY <1>20 DEF Touch
<1>21. CASE UNCHANGED vars BY <1>21 DEF vars
<1>22. QED BY <1>1, <1>2, <1>3, <1>4, <1>5, <1>6, <1>7, <1>8, <1>9, <1>10,
  <1>11, <1>12, <1>13, <1>14, <1>15, <1>16, <1>17, <1>18, <1>19, <1>20, <1>21
  DEF Next

-----------------------------------------------------------------------------
(* Initially everything holds. *)
LEMMA InitIInv == Init => IInv
<1> SUFFICES ASSUME Init PROVE IInv OBVIOUS
<1> USE DEF Init
<1>1. TypeOK
  <2>1. Previewed \in [Targets -> Contents] BY Shapes DEF Contents
  <2>2. faults \in 0..MaxFaults BY MaxFaultsNat
  <2>3. QED BY <2>1, <2>2, Numbers DEF TypeOK, Body, Contents, Outcomes
<1>2. Places /\ Roomy /\ Begun BY Numbers DEF Places, Roomy, Begun, Body
<1>3. Fresh /\ Midway /\ Done BY DEF Fresh, FreshAt, Midway, Done, DoneAt, Over, Body
<1>4. Contained BY Shapes, FirstSteps DEF Contained, ContainedAt
<1>5. AppliedAsPlanned /\ Keeping /\ Logged /\ Known /\ Settled /\ Caused /\ Justified
  BY Shapes DEF AppliedAsPlanned, AppliedAt, Applied, Keeping, KeepingAt, Logged, LoggedAt,
    Known, KnownAt, RolledBack, Settled, Caused, Justified, Handler
<1>6. Reversible
  BY Shapes, PlanAssumption DEF Reversible, LeftAt, ReachedAt, ToUndo, Body, Reachable,
  Targets
<1>7. QED BY <1>1, <1>2, <1>3, <1>4, <1>5, <1>6 DEF IInv, BodyInv

-----------------------------------------------------------------------------
(* What other programs, failures and interrupts did keeps its type. *)
World ==
  /\ touched \subseteq Targets /\ faults \in 0..MaxFaults
  /\ cut \subseteq Body \cup {"sweep", "undo", "remove", "restore", "settle"}

(* A step counts one failing call or none. *)
LEMMA FaultStep ==
  ASSUME [Next]_vars
  PROVE NoFault \/ Fault \/ Interrupt \/ Touch
<1> USE DEF Refused
<1>1. CASE Pin BY <1>1 DEF Pin
<1>2. CASE Revalidate BY <1>2 DEF Revalidate
<1>3. CASE Begin BY <1>3 DEF Begin, JournalWritten, JournalFails
<1>4. CASE Make BY <1>4 DEF Make
<1>5. CASE Aside BY <1>5 DEF Aside
<1>6. CASE Note BY <1>6 DEF Note
<1>7. CASE Own BY <1>7 DEF Own
<1>8. CASE Link BY <1>8 DEF Link
<1>9. CASE Identify BY <1>9 DEF Identify
<1>10. CASE Complete
       BY <1>10 DEF Complete, Advance, Registered, JournalWritten, JournalFails
<1>11. CASE Verify BY <1>11 DEF Verify, JournalWritten, JournalFails
<1>12. CASE SweepFile BY <1>12 DEF SweepFile
<1>13. CASE SweepDirectory BY <1>13 DEF SweepDirectory
<1>14. CASE Undo BY <1>14 DEF Undo, GiveUp
<1>15. CASE Remove BY <1>15 DEF Remove, GiveUp
<1>16. CASE Restore BY <1>16 DEF Restore, GiveUp
<1>17. CASE Undone BY <1>17 DEF Undone
<1>18. CASE Settle BY <1>18 DEF Settle, JournalWritten, JournalFails
<1>19. CASE Interrupt BY <1>19 DEF Interrupt
<1>20. CASE Touch BY <1>20 DEF Touch
<1>21. CASE UNCHANGED vars BY <1>21 DEF vars, NoFault, worldVars
<1>22. QED BY <1>1, <1>2, <1>3, <1>4, <1>5, <1>6, <1>7, <1>8, <1>9, <1>10,
  <1>11, <1>12, <1>13, <1>14, <1>15, <1>16, <1>17, <1>18, <1>19, <1>20, <1>21
  DEF Next

LEMMA WorldStep ==
  ASSUME TypeOK, [Next]_vars
  PROVE World'
<1>1. CASE NoFault BY <1>1 DEF NoFault, worldVars, TypeOK, World
<1>2. CASE Fault
  <2>1. faults' \in 0..MaxFaults BY <1>2, MaxFaultsNat DEF Fault, TypeOK
  <2>2. QED BY <1>2, <2>1 DEF Fault, TypeOK, World
<1>3. CASE Interrupt BY <1>3 DEF Interrupt, TypeOK, World
<1>4. CASE Touch BY <1>4 DEF Touch, TypeOK, World
<1>5. QED BY FaultStep, <1>1, <1>2, <1>3, <1>4

(* The control state keeps its type. *)
LEMMA ControlStep ==
  ASSUME TypeOK, Places, [Next]_vars
  PROVE /\ pc' \in Body \cup {"sweep", "undo", "remove", "restore", "settle", "returned"}
        /\ at' \in Targets /\ outcome' \in Outcomes /\ complete' \in BOOLEAN
        /\ begun' \subseteq Targets /\ installed' \subseteq Targets /\ todo' \subseteq installed'
<1> USE DEF TypeOK, Outcomes, Body, StartUndo, Continue, StartSweep, planVars, sweepVars
<1>1. CASE Pin BY <1>1, Numbers DEF Pin
<1>2. CASE Revalidate BY <1>2 DEF Revalidate
<1>3. CASE Begin BY <1>3, FirstSteps DEF Begin
<1>4. CASE Make BY <1>4 DEF Make
<1>5. CASE Aside BY <1>5 DEF Aside
<1>6. CASE Note BY <1>6 DEF Note
<1>7. CASE Own BY <1>7 DEF Own
<1>8. CASE Link BY <1>8 DEF Link
<1>9. CASE Identify BY <1>9 DEF Identify
<1>10. CASE Complete BY <1>10, Numbers DEF Complete, Advance, Registered
<1>11. CASE Verify BY <1>11 DEF Verify
<1>12. CASE SweepFile BY <1>12 DEF SweepFile
<1>13. CASE SweepDirectory BY <1>13, Incompletes DEF SweepDirectory, Places
<1>14. CASE Undo BY <1>14 DEF Undo, GiveUp
<1>15. CASE Remove BY <1>15 DEF Remove, GiveUp
<1>16. CASE Restore BY <1>16 DEF Restore, GiveUp
<1>17. CASE Undone BY <1>17 DEF Undone
<1>18. CASE Settle BY <1>18 DEF Settle
<1>19. CASE Interrupt BY <1>19 DEF Interrupt
<1>20. CASE Touch BY <1>20 DEF Touch
<1>21. CASE UNCHANGED vars BY <1>21 DEF vars
<1>22. QED BY <1>1, <1>2, <1>3, <1>4, <1>5, <1>6, <1>7, <1>8, <1>9, <1>10,
  <1>11, <1>12, <1>13, <1>14, <1>15, <1>16, <1>17, <1>18, <1>19, <1>20, <1>21
  DEF Next

(* The files keep theirs. *)
LEMMA TreeStep ==
  ASSUME TypeOK, [Next]_vars
  PROVE /\ tree' \in [Targets -> Contents] /\ backup' \in [Targets -> Contents]
        /\ after' \in [Targets -> Contents \cup {"unknown"}]
<1> USE DEF TypeOK, Contents, treeVars
<1>1. CASE Pin BY <1>1 DEF Pin
<1>2. CASE Revalidate BY <1>2 DEF Revalidate
<1>3. CASE Begin BY <1>3 DEF Begin
<1>4. CASE Make BY <1>4 DEF Make
<1>5. CASE Aside BY <1>5 DEF Aside
<1>6. CASE Note BY <1>6 DEF Note
<1>7. CASE Own BY <1>7 DEF Own
<1>8. CASE Link BY <1>8 DEF Link
<1>9. CASE Identify BY <1>9 DEF Identify
<1>10. CASE Complete BY <1>10 DEF Complete, Advance, Registered
<1>11. CASE Verify BY <1>11 DEF Verify
<1>12. CASE SweepFile BY <1>12 DEF SweepFile
<1>13. CASE SweepDirectory BY <1>13 DEF SweepDirectory
<1>14. CASE Undo BY <1>14 DEF Undo, GiveUp
<1>15. CASE Remove BY <1>15 DEF Remove, GiveUp
<1>16. CASE Restore BY <1>16 DEF Restore, GiveUp
<1>17. CASE Undone BY <1>17 DEF Undone
<1>18. CASE Settle BY <1>18 DEF Settle
<1>19. CASE Interrupt BY <1>19 DEF Interrupt
<1>20. CASE Touch BY <1>20 DEF Touch
<1>21. CASE UNCHANGED vars BY <1>21 DEF vars
<1>22. QED BY <1>1, <1>2, <1>3, <1>4, <1>5, <1>6, <1>7, <1>8, <1>9, <1>10,
  <1>11, <1>12, <1>13, <1>14, <1>15, <1>16, <1>17, <1>18, <1>19, <1>20, <1>21
  DEF Next

(* And the workspace. *)
LEMMA WorkStep ==
  ASSUME TypeOK, Places, [Next]_vars
  PROVE /\ room' \in BOOLEAN /\ work' \subseteq Files
        /\ tracked' \subseteq Files \ {Temporary} /\ pending' \subseteq tracked'
        /\ disk' \in [phase : Outcomes \cup {"applying", "verified"}, ops : SUBSET Targets]
<1> USE FileNames DEF TypeOK, StartUndo, Continue, StartSweep, JournalWritten, JournalFails,
      workVars, sweepVars
<1>1. CASE Pin
  <2>1. Payload(at) \in Files \ {Temporary} BY FileNames
  <2>2. work' \in {work, work \cup {Payload(at)}} BY <1>1 DEF Pin
  <2>3. tracked' \in {tracked, tracked \cup {Payload(at)}} BY <1>1 DEF Pin
  <2>4. room' \in BOOLEAN /\ disk' = disk /\ pending' \in {pending, {}} BY <1>1 DEF Pin
  <2>5. QED BY <2>1, <2>2, <2>3, <2>4
<1>2. CASE Revalidate BY <1>2 DEF Revalidate
<1>3. CASE Begin BY <1>3 DEF Begin, Outcomes
<1>4. CASE Make BY <1>4 DEF Make
<1>5. CASE Aside BY <1>5 DEF Aside
<1>6. CASE Note BY <1>6 DEF Note
<1>7. CASE Own BY <1>7 DEF Own
<1>8. CASE Link BY <1>8 DEF Link
<1>9. CASE Identify BY <1>9 DEF Identify
<1>10. CASE Complete BY <1>10 DEF Complete, Advance, Registered, Outcomes
<1>11. CASE Verify BY <1>11 DEF Verify, Outcomes
<1>12. CASE SweepFile BY <1>12 DEF SweepFile
<1>13. CASE SweepDirectory BY <1>13 DEF SweepDirectory
<1>14. CASE Undo BY <1>14 DEF Undo, GiveUp
<1>15. CASE Remove BY <1>15 DEF Remove, GiveUp, Places
<1>16. CASE Restore BY <1>16 DEF Restore, GiveUp, Places
<1>17. CASE Undone BY <1>17 DEF Undone
<1>18. CASE Settle BY <1>18 DEF Settle, Outcomes, Places
<1>19. CASE Interrupt BY <1>19 DEF Interrupt
<1>20. CASE Touch BY <1>20 DEF Touch
<1>21. CASE UNCHANGED vars BY <1>21 DEF vars
<1>22. QED BY <1>1, <1>2, <1>3, <1>4, <1>5, <1>6, <1>7, <1>8, <1>9, <1>10,
  <1>11, <1>12, <1>13, <1>14, <1>15, <1>16, <1>17, <1>18, <1>19, <1>20, <1>21
  DEF Next

LEMMA TypeStep ==
  ASSUME TypeOK, Places, [Next]_vars
  PROVE TypeOK'
BY WorldStep, ControlStep, TreeStep, WorkStep DEF TypeOK, World

-----------------------------------------------------------------------------
(* Outcome and pending files fit the place. *)
LEMMA PlacesStep ==
  ASSUME TypeOK, Places, [Next]_vars
  PROVE Places'
<1> USE DEF TypeOK, Places, Body, Outcomes, StartUndo, Continue, StartSweep,
      sweepVars
<1>1. CASE Pin BY <1>1 DEF Pin
<1>2. CASE Revalidate BY <1>2 DEF Revalidate
<1>3. CASE Begin BY <1>3, FirstSteps DEF Begin
<1>4. CASE Make BY <1>4 DEF Make
<1>5. CASE Aside BY <1>5 DEF Aside
<1>6. CASE Note BY <1>6 DEF Note
<1>7. CASE Own BY <1>7 DEF Own
<1>8. CASE Link BY <1>8 DEF Link
<1>9. CASE Identify BY <1>9 DEF Identify
<1>10. CASE Complete BY <1>10 DEF Complete, Advance, Registered
<1>11. CASE Verify BY <1>11 DEF Verify
<1>12. CASE SweepFile BY <1>12 DEF SweepFile
<1>13. CASE SweepDirectory BY <1>13, Incompletes DEF SweepDirectory
<1>14. CASE Undo BY <1>14 DEF Undo, GiveUp
<1>15. CASE Remove BY <1>15 DEF Remove, GiveUp
<1>16. CASE Restore BY <1>16 DEF Restore, GiveUp
<1>17. CASE Undone BY <1>17 DEF Undone
<1>18. CASE Settle BY <1>18 DEF Settle
<1>19. CASE Interrupt BY <1>19 DEF Interrupt
<1>20. CASE Touch BY <1>20 DEF Touch
<1>21. CASE UNCHANGED vars BY <1>21 DEF vars
<1>22. QED BY <1>1, <1>2, <1>3, <1>4, <1>5, <1>6, <1>7, <1>8, <1>9, <1>10,
  <1>11, <1>12, <1>13, <1>14, <1>15, <1>16, <1>17, <1>18, <1>19, <1>20, <1>21
  DEF Next

(* The workspace is there. *)
LEMMA RoomyStep ==
  ASSUME TypeOK, Places, Roomy, [Next]_vars
  PROVE Roomy'
<1> USE DEF TypeOK, Places, Roomy, Body, StartUndo, Continue, StartSweep, JournalWritten,
    JournalFails, planVars, treeVars, workVars, sweepVars, worldVars
<1>1. CASE Pin BY <1>1, Numbers, PlanAssumption, SMTT(30) DEF Pin, Targets
<1>2. CASE Revalidate BY <1>2 DEF Revalidate
<1>3. CASE Begin BY <1>3, FirstSteps DEF Begin
<1>4. CASE Make BY <1>4 DEF Make
<1>5. CASE Aside BY <1>5 DEF Aside
<1>6. CASE Note BY <1>6 DEF Note
<1>7. CASE Own BY <1>7 DEF Own
<1>8. CASE Link BY <1>8 DEF Link
<1>9. CASE Identify BY <1>9 DEF Identify
<1>10. CASE Complete BY <1>10 DEF Complete, Advance, Registered
<1>11. CASE Verify BY <1>11 DEF Verify
<1>12. CASE SweepFile BY <1>12 DEF SweepFile
<1>13. CASE SweepDirectory BY <1>13 DEF SweepDirectory
<1>14. CASE Undo BY <1>14 DEF Undo, GiveUp
<1>15. CASE Remove BY <1>15 DEF Remove, GiveUp
<1>16. CASE Restore BY <1>16 DEF Restore, GiveUp
<1>17. CASE Undone BY <1>17 DEF Undone
<1>18. CASE Settle BY <1>18 DEF Settle
<1>19. CASE Interrupt BY <1>19 DEF Interrupt
<1>20. CASE Touch BY <1>20 DEF Touch
<1>21. CASE UNCHANGED vars BY <1>21 DEF vars
<1>22. QED BY <1>1, <1>2, <1>3, <1>4, <1>5, <1>6, <1>7, <1>8, <1>9, <1>10,
  <1>11, <1>12, <1>13, <1>14, <1>15, <1>16, <1>17, <1>18, <1>19, <1>20, <1>21
  DEF Next

(* The journal on disk is no longer than the one in memory. *)
LEMMA BegunStep ==
  ASSUME TypeOK, [Next]_vars, Begun
  PROVE Begun'
<1> USE DEF Begun, JournalWritten, JournalFails, planVars, workVars
<1>1. CASE Pin BY <1>1 DEF Pin
<1>2. CASE Revalidate BY <1>2 DEF Revalidate
<1>3. CASE Begin BY <1>3 DEF Begin
<1>4. CASE Make BY <1>4 DEF Make
<1>5. CASE Aside BY <1>5 DEF Aside
<1>6. CASE Note BY <1>6 DEF Note
<1>7. CASE Own BY <1>7 DEF Own
<1>8. CASE Link BY <1>8 DEF Link
<1>9. CASE Identify BY <1>9 DEF Identify
<1>10. CASE Complete BY <1>10 DEF Complete, Advance, Registered
<1>11. CASE Verify BY <1>11 DEF Verify
<1>12. CASE SweepFile BY <1>12 DEF SweepFile
<1>13. CASE SweepDirectory BY <1>13 DEF SweepDirectory
<1>14. CASE Undo BY <1>14 DEF Undo, GiveUp
<1>15. CASE Remove BY <1>15 DEF Remove, GiveUp
<1>16. CASE Restore BY <1>16 DEF Restore, GiveUp
<1>17. CASE Undone BY <1>17 DEF Undone
<1>18. CASE Settle BY <1>18 DEF Settle
<1>19. CASE Interrupt BY <1>19 DEF Interrupt
<1>20. CASE Touch BY <1>20 DEF Touch
<1>21. CASE UNCHANGED vars BY <1>21 DEF vars
<1>22. QED BY <1>1, <1>2, <1>3, <1>4, <1>5, <1>6, <1>7, <1>8, <1>9, <1>10,
  <1>11, <1>12, <1>13, <1>14, <1>15, <1>16, <1>17, <1>18, <1>19, <1>20, <1>21
  DEF Next

(* What is not begun is untouched. *)
LEMMA FreshStep ==
  ASSUME TypeOK, Places, Midway, [Next]_vars, NEW i \in Targets, FreshAt(i)
  PROVE FreshAt(i)'
<1> USE Numbers, FileNames, Steady DEF TypeOK, Places, Midway, FreshAt, Untried, Body,
    StartUndo, Continue,
      StartSweep, JournalWritten, JournalFails, planVars, treeVars, workVars, sweepVars,
      worldVars
<1>1. CASE Pin BY <1>1 DEF Pin
<1>2. CASE Revalidate BY <1>2 DEF Revalidate
<1>3. CASE Begin BY <1>3, FirstSteps DEF Begin
<1>4. CASE Make BY <1>4 DEF Make
<1>5. CASE Aside BY <1>5 DEF Aside
<1>6. CASE Note BY <1>6 DEF Note
<1>7. CASE Own BY <1>7 DEF Own
<1>8. CASE Link BY <1>8 DEF Link
<1>9. CASE Identify BY <1>9 DEF Identify
<1>10. CASE Complete BY <1>10 DEF Complete, Advance, Registered
<1>11. CASE Verify BY <1>11 DEF Verify
<1>12. CASE SweepFile BY <1>12 DEF SweepFile
<1>13. CASE SweepDirectory BY <1>13 DEF SweepDirectory
<1>14. CASE Undo BY <1>14 DEF Undo, GiveUp
<1>15. CASE Remove BY <1>15 DEF Remove, GiveUp
<1>16. CASE Restore BY <1>16 DEF Restore, GiveUp
<1>17. CASE Undone BY <1>17 DEF Undone
<1>18. CASE Settle BY <1>18 DEF Settle
<1>19. CASE Interrupt BY <1>19 DEF Interrupt
<1>20. CASE Touch BY <1>20 DEF Touch
<1>21. CASE UNCHANGED vars BY <1>21 DEF vars
<1>22. QED BY <1>1, <1>2, <1>3, <1>4, <1>5, <1>6, <1>7, <1>8, <1>9, <1>10,
  <1>11, <1>12, <1>13, <1>14, <1>15, <1>16, <1>17, <1>18, <1>19, <1>20, <1>21
  DEF Next

(* The action under way is as its step says. *)
LEMMA MidwayStep ==
  ASSUME TypeOK, Midway, [Next]_vars, FreshAt(at)
  PROVE Midway'
<1> USE Numbers, FileNames, Steady DEF TypeOK, FreshAt, Untried, Midway, Latest, Body,
    StartUndo, Continue, StartSweep, JournalWritten, JournalFails, planVars, treeVars,
    workVars, sweepVars, worldVars
<1>1. CASE Pin BY <1>1 DEF Pin
<1>2. CASE Revalidate BY <1>2 DEF Revalidate
<1>3. CASE Begin BY <1>3, FirstSteps DEF Begin, Expected
<1>4. CASE Make BY <1>4 DEF Make
<1>5. CASE Aside BY <1>5 DEF Aside
<1>6. CASE Note BY <1>6 DEF Note
<1>7. CASE Own BY <1>7 DEF Own
<1>8. CASE Link BY <1>8 DEF Link
<1>9. CASE Identify BY <1>9 DEF Identify
<1>10. CASE Complete BY <1>10 DEF Complete, Advance, Registered
<1>11. CASE Verify BY <1>11 DEF Verify
<1>12. CASE SweepFile BY <1>12 DEF SweepFile
<1>13. CASE SweepDirectory BY <1>13 DEF SweepDirectory
<1>14. CASE Undo
  <2>1. ASSUME pc' = "restore", NEW j \in todo', Latest(j)'
        PROVE Operation[j] = "replace"
    <3>1. todo' = todo BY <1>14, <2>1 DEF Undo, GiveUp
    <3>2. PICK i \in todo : Latest(i) /\ Operation[i] = "replace"
          BY <1>14, <2>1 DEF Undo, GiveUp
    <3>3. j \in Targets /\ i \in Targets /\ Latest(j) BY <2>1, <3>1
    <3>4. QED BY <3>2, <3>3, OneLatest
  <2>2. ASSUME pc' = "remove", NEW j \in todo', Latest(j)'
        PROVE /\ Operation[j] # "mkdir" /\ after'[j] # "unknown"
              /\ j \notin touched' => tree'[j] = after'[j]
    <3>1. todo' = todo /\ tree' = tree /\ after' = after BY <1>14, <2>2 DEF Undo, GiveUp
    <3>2. PICK i \in todo : /\ Latest(i) /\ Operation[i] # "mkdir" /\ after[i] # "unknown"
                           /\ Removable(i)
          BY <1>14, <2>2 DEF Undo, GiveUp
    <3>3. j \in Targets /\ i \in Targets /\ Latest(j) BY <2>2, <3>1
    <3>4. i = j BY <3>2, <3>3, OneLatest
    <3>5. QED BY <3>1, <3>2, <3>4 DEF Removable
  <2>3. pc' \in {"undo", "remove", "restore", "settle"} BY <1>14 DEF Undo, GiveUp
  <2>4. QED BY <2>1, <2>2, <2>3
<1>15. CASE Remove
  <2>1. ASSUME pc' = "restore", NEW j \in todo', Latest(j)'
        PROVE Operation[j] = "replace"
    <3>1. todo' = todo BY <1>15, <2>1 DEF Remove, GiveUp
    <3>2. PICK i \in todo : Latest(i) /\ Operation[i] = "replace"
          BY <1>15, <2>1 DEF Remove, GiveUp
    <3>3. j \in Targets /\ i \in Targets /\ Latest(j) BY <2>1, <3>1
    <3>4. QED BY <3>2, <3>3, OneLatest
  <2>2. pc' \in {"undo", "restore", "settle"} BY <1>15 DEF Remove, GiveUp
  <2>3. QED BY <2>1, <2>2
<1>16. CASE Restore BY <1>16 DEF Restore, GiveUp
<1>17. CASE Undone BY <1>17 DEF Undone
<1>18. CASE Settle BY <1>18 DEF Settle
<1>19. CASE Interrupt BY <1>19 DEF Interrupt
<1>20. CASE Touch BY <1>20 DEF Touch
<1>21. CASE UNCHANGED vars BY <1>21 DEF vars
<1>22. QED BY <1>1, <1>2, <1>3, <1>4, <1>5, <1>6, <1>7, <1>8, <1>9, <1>10,
  <1>11, <1>12, <1>13, <1>14, <1>15, <1>16, <1>17, <1>18, <1>19, <1>20, <1>21
  DEF Next

(* What is over is as planned. *)
LEMMA DoneStep ==
  ASSUME TypeOK, Places, Midway, [Next]_vars, NEW i \in Targets, DoneAt(i)
  PROVE DoneAt(i)'
<1> USE Numbers, Steady DEF TypeOK, Places, Midway, DoneAt, Over, Body, StartUndo,
    Continue, StartSweep, planVars, treeVars, workVars, sweepVars, worldVars
<1>1. CASE Pin BY <1>1 DEF Pin
<1>2. CASE Revalidate BY <1>2 DEF Revalidate
<1>3. CASE Begin BY <1>3, FirstSteps DEF Begin
<1>4. CASE Make BY <1>4, Shapes DEF Make
<1>5. CASE Aside BY <1>5 DEF Aside
<1>6. CASE Note BY <1>6 DEF Note
<1>7. CASE Own BY <1>7 DEF Own
<1>8. CASE Link BY <1>8 DEF Link
<1>9. CASE Identify BY <1>9, Shapes DEF Identify
<1>10. CASE Complete BY <1>10 DEF Complete, Advance, Registered
<1>11. CASE Verify BY <1>11 DEF Verify
<1>12. CASE SweepFile BY <1>12 DEF SweepFile
<1>13. CASE SweepDirectory BY <1>13 DEF SweepDirectory
<1>14. CASE Undo BY <1>14 DEF Undo, GiveUp
<1>15. CASE Remove BY <1>15 DEF Remove, GiveUp
<1>16. CASE Restore BY <1>16 DEF Restore, GiveUp
<1>17. CASE Undone BY <1>17 DEF Undone
<1>18. CASE Settle BY <1>18 DEF Settle
<1>19. CASE Interrupt BY <1>19 DEF Interrupt
<1>20. CASE Touch BY <1>20 DEF Touch
<1>21. CASE UNCHANGED vars BY <1>21 DEF vars
<1>22. QED BY <1>1, <1>2, <1>3, <1>4, <1>5, <1>6, <1>7, <1>8, <1>9, <1>10,
  <1>11, <1>12, <1>13, <1>14, <1>15, <1>16, <1>17, <1>18, <1>19, <1>20, <1>21
  DEF Next

(* Targets, backups and identities hold what they can. *)
LEMMA ContainedStep ==
  ASSUME TypeOK, Midway, [Next]_vars, NEW i \in Targets, ContainedAt(i), FreshAt(i)
  PROVE ContainedAt(i)'
<1> USE Steady, FileNames DEF TypeOK, Midway, ContainedAt, FreshAt, Untried, Body,
    Contents, JournalWritten, JournalFails, StartSweep, planVars, treeVars, workVars,
    sweepVars, worldVars
<1>1. CASE Pin BY <1>1 DEF Pin
<1>2. CASE Revalidate BY <1>2 DEF Revalidate
<1>3. CASE Begin BY <1>3 DEF Begin
<1>4. CASE Make BY <1>4 DEF Make
<1>5. CASE Aside BY <1>5, Shapes DEF Aside
<1>6. CASE Note BY <1>6 DEF Note
<1>7. CASE Own BY <1>7 DEF Own
<1>8. CASE Link BY <1>8, FirstSteps DEF Link
<1>9. CASE Identify BY <1>9 DEF Identify
<1>10. CASE Complete BY <1>10 DEF Complete, Advance, Registered
<1>11. CASE Verify BY <1>11 DEF Verify
<1>12. CASE SweepFile BY <1>12 DEF SweepFile
<1>13. CASE SweepDirectory BY <1>13 DEF SweepDirectory
<1>14. CASE Undo BY <1>14 DEF Undo, GiveUp
<1>15. CASE Remove BY <1>15 DEF Remove, GiveUp
<1>16. CASE Restore BY <1>16 DEF Restore, GiveUp
<1>17. CASE Undone BY <1>17 DEF Undone
<1>18. CASE Settle BY <1>18 DEF Settle
<1>19. CASE Interrupt BY <1>19 DEF Interrupt
<1>20. CASE Touch BY <1>20 DEF Touch
<1>21. CASE UNCHANGED vars BY <1>21 DEF vars
<1>22. QED BY <1>1, <1>2, <1>3, <1>4, <1>5, <1>6, <1>7, <1>8, <1>9, <1>10,
  <1>11, <1>12, <1>13, <1>14, <1>15, <1>16, <1>17, <1>18, <1>19, <1>20, <1>21
  DEF Next

(* What was applied stays as planned. *)
LEMMA AppliedStep ==
  ASSUME TypeOK, Places, Midway, [Next]_vars, NEW i \in Targets, AppliedAt(i), DoneAt(i)
  PROVE AppliedAt(i)'
<1> USE Steady DEF TypeOK, Places, Midway, DoneAt, Over, AppliedAt, Applied, Body,
    StartUndo, Continue,
      StartSweep, planVars, treeVars, workVars, sweepVars, worldVars
<1>1. CASE Pin BY <1>1 DEF Pin
<1>2. CASE Revalidate BY <1>2 DEF Revalidate
<1>3. CASE Begin BY <1>3 DEF Begin
<1>4. CASE Make BY <1>4 DEF Make
<1>5. CASE Aside BY <1>5 DEF Aside
<1>6. CASE Note BY <1>6 DEF Note
<1>7. CASE Own BY <1>7 DEF Own
<1>8. CASE Link BY <1>8 DEF Link
<1>9. CASE Identify BY <1>9 DEF Identify
<1>10. CASE Complete BY <1>10 DEF Complete, Advance, Registered
<1>11. CASE Verify BY <1>11, Numbers DEF Verify
<1>12. CASE SweepFile BY <1>12 DEF SweepFile
<1>13. CASE SweepDirectory BY <1>13, Incompletes DEF SweepDirectory
<1>14. CASE Undo BY <1>14 DEF Undo, GiveUp
<1>15. CASE Remove BY <1>15 DEF Remove, GiveUp
<1>16. CASE Restore BY <1>16 DEF Restore, GiveUp
<1>17. CASE Undone BY <1>17 DEF Undone
<1>18. CASE Settle BY <1>18 DEF Settle
<1>19. CASE Interrupt BY <1>19 DEF Interrupt
<1>20. CASE Touch BY <1>20 DEF Touch
<1>21. CASE UNCHANGED vars BY <1>21 DEF vars
<1>22. QED BY <1>1, <1>2, <1>3, <1>4, <1>5, <1>6, <1>7, <1>8, <1>9, <1>10,
  <1>11, <1>12, <1>13, <1>14, <1>15, <1>16, <1>17, <1>18, <1>19, <1>20, <1>21
  DEF Next

LEMMA BodyStep ==
  ASSUME TypeOK, BodyInv, [Next]_vars
  PROVE BodyInv'
<1>1. at \in Targets BY DEF TypeOK
<1>2. QED BY <1>1, PlacesStep, RoomyStep, BegunStep, FreshStep, MidwayStep, DoneStep,
      ContainedStep, AppliedStep
  DEF BodyInv, Fresh, Done, Contained, AppliedAsPlanned

-----------------------------------------------------------------------------
(* An original is at its destination or sheltered in the workspace. *)
LEMMA KeepingStep ==
  ASSUME TypeOK, Places, Midway, Fresh, Done, Contained, [Next]_vars, NEW i \in Targets,
         KeepingAt(i)
  PROVE KeepingAt(i)'
<1> USE FileNames, Steady DEF TypeOK, Places, Midway, KeepingAt, Sheltered, Applied, Body,
    Handler, StartUndo, Continue, StartSweep, JournalWritten, JournalFails, planVars,
    treeVars, workVars, sweepVars, worldVars
<1>1. CASE Pin BY <1>1 DEF Pin
<1>2. CASE Revalidate BY <1>2 DEF Revalidate, Fresh, FreshAt, Untried
<1>3. CASE Begin BY <1>3, FirstSteps DEF Begin
<1>4. CASE Make BY <1>4 DEF Make
<1>5. CASE Aside BY <1>5, Shapes DEF Aside, Fresh, FreshAt, Untried
<1>6. CASE Note BY <1>6 DEF Note
<1>7. CASE Own BY <1>7 DEF Own
<1>8. CASE Link BY <1>8 DEF Link
<1>9. CASE Identify BY <1>9 DEF Identify
<1>10. CASE Complete BY <1>10 DEF Complete, Advance, Registered
<1>11. CASE Verify BY <1>11, Numbers, Shapes DEF Verify, Done, DoneAt, Over
<1>12. CASE SweepFile BY <1>12 DEF SweepFile
<1>13. CASE SweepDirectory BY <1>13, Incompletes DEF SweepDirectory
<1>14. CASE Undo BY <1>14 DEF Undo, GiveUp, Contained, ContainedAt, Removable
<1>15. CASE Remove BY <1>15 DEF Remove, GiveUp, Contained, ContainedAt
<1>16. CASE Restore BY <1>16 DEF Restore, GiveUp, Contained, ContainedAt
<1>17. CASE Undone BY <1>17 DEF Undone
<1>18. CASE Settle BY <1>18 DEF Settle
<1>19. CASE Interrupt
  <2>1. work \subseteq work' BY <1>19 DEF Interrupt
  <2>2. QED BY <1>19, <2>1 DEF Interrupt, InHandler
<1>20. CASE Touch BY <1>20 DEF Touch
<1>21. CASE UNCHANGED vars BY <1>21 DEF vars
<1>22. QED BY <1>1, <1>2, <1>3, <1>4, <1>5, <1>6, <1>7, <1>8, <1>9, <1>10,
  <1>11, <1>12, <1>13, <1>14, <1>15, <1>16, <1>17, <1>18, <1>19, <1>20, <1>21
  DEF Next

(* The journal is ahead of the files. *)
LEMMA LoggedStep ==
  ASSUME TypeOK, Places, Midway, Contained, Begun, Roomy, [Next]_vars, NEW i \in Targets,
         LoggedAt(i), KnownAt(i)
  PROVE LoggedAt(i)'
<1> USE FileNames, Steady, Shapes DEF TypeOK, Places, Midway, LoggedAt, KnownAt, Roomy,
    Body, StartUndo, Continue, StartSweep, JournalWritten, JournalFails, planVars,
    treeVars, workVars, sweepVars, worldVars
<1>1. CASE Pin BY <1>1 DEF Pin
<1>2. CASE Revalidate BY <1>2 DEF Revalidate
<1>3. CASE Begin
  <2>1. room BY <1>3 DEF Begin
  <2>2. tree' = tree /\ touched' = touched /\ cut' = cut
        BY <1>3 DEF Begin, Refused, NoFault, Fault
  <2>3. CASE JournalWritten("applying", begun')
    <3>1. work' = work \cup {Journal} /\ disk' = [phase |-> "applying", ops |-> begun']
          BY <1>3, <2>1, <2>3 DEF Begin
    <3>2. Journal \in work' /\ disk'.ops = begun' BY <3>1
    <3>3. /\ begun \subseteq begun' /\ (pc' \in {"make", "link", "aside"} => at' \in begun')
          /\ pc' \notin {"note", "own", "identify", "complete", "settle"}
      BY <1>3, <2>3, FirstSteps DEF Begin
    <3>4. tree[i] # Previewed[i] /\ i \notin touched => i \in begun BY DEF KnownAt
    <3>5. QED BY <2>2, <3>2, <3>3, <3>4
  <2>4. CASE ~JournalWritten("applying", begun')
    <3>1. disk' = disk /\ work \subseteq work' /\ pc' = "undo" /\ outcome = "none"
          BY <1>3, <2>1, <2>4 DEF Begin
    <3>2. QED BY <2>2, <3>1
  <2>5. QED BY <2>3, <2>4
<1>4. CASE Make BY <1>4 DEF Make
<1>5. CASE Aside BY <1>5 DEF Aside
<1>6. CASE Note BY <1>6 DEF Note
<1>7. CASE Own BY <1>7 DEF Own
<1>8. CASE Link BY <1>8 DEF Link
<1>9. CASE Identify BY <1>9 DEF Identify
<1>10. CASE Complete
  <2>1. room BY <1>10 DEF Complete
  <2>2. tree' = tree /\ touched' = touched /\ cut' = cut
        BY <1>10 DEF Complete, Refused, NoFault, Fault
  <2>3. CASE JournalWritten("applying", begun)
    <3>1. work' = work \cup {Journal} /\ disk' = [phase |-> "applying", ops |-> begun']
          BY <1>10, <2>1, <2>3 DEF Complete
    <3>2. Journal \in work' /\ disk'.ops = begun' BY <3>1
    <3>3. /\ begun \subseteq begun' /\ (pc' \in {"make", "link", "aside"} => at' \in begun')
          /\ pc' \notin {"note", "own", "identify", "complete", "settle"}
      BY <1>10, <2>3 DEF Complete, Advance, Registered
    <3>4. tree[i] # Previewed[i] /\ i \notin touched => i \in begun BY DEF KnownAt
    <3>5. QED BY <2>2, <3>2, <3>3, <3>4
  <2>4. CASE ~JournalWritten("applying", begun)
    <3>1. disk' = disk /\ work \subseteq work' /\ pc' = "undo" /\ outcome = "none"
          BY <1>10, <2>1, <2>4 DEF Complete
    <3>2. QED BY <2>2, <3>1
  <2>5. QED BY <2>3, <2>4
<1>11. CASE Verify BY <1>11 DEF Verify
<1>12. CASE SweepFile BY <1>12 DEF SweepFile
<1>13. CASE SweepDirectory BY <1>13, Incompletes DEF SweepDirectory
<1>14. CASE Undo BY <1>14 DEF Undo, GiveUp, Contained, ContainedAt, Removable
<1>15. CASE Remove BY <1>15 DEF Remove, GiveUp, Contained, ContainedAt
<1>16. CASE Restore BY <1>16 DEF Restore, GiveUp, Contained, ContainedAt
<1>17. CASE Undone BY <1>17 DEF Undone
<1>18. CASE Settle
  <2>1. tree' = tree /\ at' = at /\ begun' = begun /\ pc' \in {"sweep", "returned"}
        BY <1>18 DEF Settle
  <2>2. touched' = touched /\ cut' = cut BY <1>18, Steady DEF Settle, Touch, Interrupt
  <2>3. CASE JournalWritten(outcome, begun) /\ room
    <3>1. work' = work \cup {Journal} /\ disk' = [phase |-> outcome, ops |-> begun] BY <2>3
    <3>2. Journal \in work' /\ disk'.ops = begun BY <3>1
    <3>3. tree[i] # Previewed[i] /\ i \notin touched => i \in begun BY DEF KnownAt
    <3>4. QED BY <2>1, <2>2, <3>2, <3>3
  <2>4. CASE ~(JournalWritten(outcome, begun) /\ room)
    <3>1. disk' = disk /\ work \subseteq work' BY <1>18, <2>4 DEF Settle
    <3>2. pc = "settle" BY <1>18 DEF Settle
    <3>3. QED BY <2>1, <2>2, <3>1, <3>2
  <2>5. QED BY <2>3, <2>4
<1>19. CASE Interrupt
  <2>1. work \subseteq work' BY <1>19 DEF Interrupt
  <2>2. QED BY <1>19, <2>1 DEF Interrupt, InHandler
<1>20. CASE Touch BY <1>20 DEF Touch
<1>21. CASE UNCHANGED vars BY <1>21 DEF vars
<1>22. QED BY <1>1, <1>2, <1>3, <1>4, <1>5, <1>6, <1>7, <1>8, <1>9, <1>10,
  <1>11, <1>12, <1>13, <1>14, <1>15, <1>16, <1>17, <1>18, <1>19, <1>20, <1>21
  DEF Next

(* The rollback knows what changed. *)
LEMMA KnownStep ==
  ASSUME TypeOK, Places, Midway, Fresh, Contained, Done, [Next]_vars, NEW i \in Targets,
         KnownAt(i)
  PROVE KnownAt(i)'
<1> USE Steady, Shapes DEF TypeOK, Places, Midway, KnownAt, RolledBack, Going, Unseen,
    Body, Outcomes, StartUndo, Continue, StartSweep, JournalWritten, JournalFails,
    planVars, treeVars, workVars, sweepVars, worldVars
<1>1. CASE Pin BY <1>1 DEF Pin, Fresh, FreshAt, Untried
<1>2. CASE Revalidate BY <1>2 DEF Revalidate, Fresh, FreshAt, Untried
<1>3. CASE Begin BY <1>3, FirstSteps DEF Begin
<1>4. CASE Make BY <1>4 DEF Make
<1>5. CASE Aside BY <1>5 DEF Aside
<1>6. CASE Note BY <1>6 DEF Note
<1>7. CASE Own BY <1>7 DEF Own
<1>8. CASE Link BY <1>8 DEF Link
<1>9. CASE Identify BY <1>9 DEF Identify
<1>10. CASE Complete BY <1>10, Numbers DEF Complete, Advance, Registered, Done, DoneAt, Over
<1>11. CASE Verify BY <1>11 DEF Verify
<1>12. CASE SweepFile BY <1>12 DEF SweepFile
<1>13. CASE SweepDirectory BY <1>13, Incompletes DEF SweepDirectory
<1>14. CASE Undo BY <1>14 DEF Undo, GiveUp, Contained, ContainedAt, Removable
<1>15. CASE Remove BY <1>15 DEF Remove, GiveUp, Contained, ContainedAt
<1>16. CASE Restore BY <1>16 DEF Restore, GiveUp, Contained, ContainedAt
<1>17. CASE Undone BY <1>17 DEF Undone
<1>18. CASE Settle BY <1>18 DEF Settle
<1>19. CASE Interrupt
  <2>1. QED BY <1>19 DEF Interrupt, InHandler
<1>20. CASE Touch BY <1>20 DEF Touch
<1>21. CASE UNCHANGED vars BY <1>21 DEF vars
<1>22. QED BY <1>1, <1>2, <1>3, <1>4, <1>5, <1>6, <1>7, <1>8, <1>9, <1>10,
  <1>11, <1>12, <1>13, <1>14, <1>15, <1>16, <1>17, <1>18, <1>19, <1>20, <1>21
  DEF Next

(* A rollback that is over has nothing left to undo. *)
LEMMA RolledBackStep ==
  ASSUME TypeOK, Places, [Next]_vars, RolledBack => todo = {}
  PROVE (RolledBack => todo = {})'
<1> USE DEF TypeOK, Places, RolledBack, Body, StartUndo, Continue, StartSweep, sweepVars
<1>1. CASE Pin BY <1>1 DEF Pin
<1>2. CASE Revalidate BY <1>2 DEF Revalidate
<1>3. CASE Begin BY <1>3 DEF Begin
<1>4. CASE Make BY <1>4 DEF Make
<1>5. CASE Aside BY <1>5 DEF Aside
<1>6. CASE Note BY <1>6 DEF Note
<1>7. CASE Own BY <1>7 DEF Own
<1>8. CASE Link BY <1>8 DEF Link
<1>9. CASE Identify BY <1>9 DEF Identify
<1>10. CASE Complete BY <1>10 DEF Complete, Advance, Registered
<1>11. CASE Verify BY <1>11 DEF Verify
<1>12. CASE SweepFile BY <1>12 DEF SweepFile
<1>13. CASE SweepDirectory BY <1>13, Incompletes DEF SweepDirectory
<1>14. CASE Undo BY <1>14 DEF Undo, GiveUp
<1>15. CASE Remove BY <1>15 DEF Remove, GiveUp
<1>16. CASE Restore BY <1>16 DEF Restore, GiveUp
<1>17. CASE Undone BY <1>17 DEF Undone
<1>18. CASE Settle BY <1>18 DEF Settle
<1>19. CASE Interrupt BY <1>19 DEF Interrupt
<1>20. CASE Touch BY <1>20 DEF Touch
<1>21. CASE UNCHANGED vars BY <1>21 DEF vars
<1>22. QED BY <1>1, <1>2, <1>3, <1>4, <1>5, <1>6, <1>7, <1>8, <1>9, <1>10,
  <1>11, <1>12, <1>13, <1>14, <1>15, <1>16, <1>17, <1>18, <1>19, <1>20, <1>21
  DEF Next

(* Undisturbed, what there is can be reached. *)
LEMMA ReachedStep ==
  ASSUME TypeOK, Places, Midway, [Next]_vars, NEW i \in Targets, ReachedAt(i)
  PROVE ReachedAt(i)'
<1> USE Steady, Directories DEF TypeOK, Places, Midway, ReachedAt, Undisturbed, Reachable,
    Body, StartUndo, Continue, StartSweep, JournalWritten, JournalFails, planVars,
    treeVars, workVars, sweepVars, worldVars
<1>1. CASE Pin BY <1>1 DEF Pin
<1>2. CASE Revalidate BY <1>2 DEF Revalidate
<1>3. CASE Begin BY <1>3 DEF Begin
<1>4. CASE Make BY <1>4 DEF Make
<1>5. CASE Aside BY <1>5 DEF Aside
<1>6. CASE Note BY <1>6 DEF Note
<1>7. CASE Own BY <1>7 DEF Own
<1>8. CASE Link BY <1>8 DEF Link, Linkable
<1>9. CASE Identify BY <1>9 DEF Identify
<1>10. CASE Complete BY <1>10 DEF Complete, Advance, Registered
<1>11. CASE Verify BY <1>11 DEF Verify
<1>12. CASE SweepFile BY <1>12 DEF SweepFile
<1>13. CASE SweepDirectory BY <1>13 DEF SweepDirectory
<1>14. CASE Undo BY <1>14 DEF Undo, GiveUp, Removable, Occupied
<1>15. CASE Remove BY <1>15 DEF Remove, GiveUp
<1>16. CASE Restore BY <1>16 DEF Restore, GiveUp
<1>17. CASE Undone BY <1>17 DEF Undone
<1>18. CASE Settle BY <1>18 DEF Settle
<1>19. CASE Interrupt BY <1>19 DEF Interrupt
<1>20. CASE Touch BY <1>20 DEF Touch
<1>21. CASE UNCHANGED vars BY <1>21 DEF vars
<1>22. QED BY <1>1, <1>2, <1>3, <1>4, <1>5, <1>6, <1>7, <1>8, <1>9, <1>10,
  <1>11, <1>12, <1>13, <1>14, <1>15, <1>16, <1>17, <1>18, <1>19, <1>20, <1>21
  DEF Next

(* Undisturbed, what is to be undone is as it was left. *)
LEMMA LeftStep ==
  ASSUME TypeOK, Places, Midway, Fresh, Contained, Done, [Next]_vars, NEW i \in Targets,
  LeftAt(i)
  PROVE LeftAt(i)'
<1> USE Steady, FileNames DEF TypeOK, Places, Midway, LeftAt, ToUndo, Undisturbed, Latest,
    Body, StartUndo, Continue, StartSweep, JournalWritten, JournalFails, planVars,
    treeVars, workVars, sweepVars, worldVars
<1>1. CASE Pin BY <1>1 DEF Pin, Fresh, FreshAt, Untried
<1>2. CASE Revalidate BY <1>2 DEF Revalidate
<1>3. CASE Begin BY <1>3, FirstSteps DEF Begin
<1>4. CASE Make BY <1>4 DEF Make, Fresh, FreshAt, Untried
<1>5. CASE Aside BY <1>5 DEF Aside, Fresh, FreshAt, Untried
<1>6. CASE Note BY <1>6 DEF Note
<1>7. CASE Own BY <1>7 DEF Own
<1>8. CASE Link BY <1>8 DEF Link, Linkable, Fresh, FreshAt, Untried
<1>9. CASE Identify BY <1>9 DEF Identify
<1>10. CASE Complete BY <1>10, Shapes DEF Complete, Advance, Registered, Done, DoneAt, Over
<1>11. CASE Verify BY <1>11 DEF Verify
<1>12. CASE SweepFile BY <1>12 DEF SweepFile
<1>13. CASE SweepDirectory BY <1>13 DEF SweepDirectory
<1>14. CASE Undo BY <1>14 DEF Undo, GiveUp
<1>15. CASE Remove BY <1>15 DEF Remove, GiveUp
<1>16. CASE Restore BY <1>16, OneLatest DEF Restore, GiveUp
<1>17. CASE Undone BY <1>17 DEF Undone
<1>18. CASE Settle BY <1>18 DEF Settle
<1>19. CASE Interrupt BY <1>19 DEF Interrupt
<1>20. CASE Touch BY <1>20 DEF Touch
<1>21. CASE UNCHANGED vars BY <1>21 DEF vars
<1>22. QED BY <1>1, <1>2, <1>3, <1>4, <1>5, <1>6, <1>7, <1>8, <1>9, <1>10,
  <1>11, <1>12, <1>13, <1>14, <1>15, <1>16, <1>17, <1>18, <1>19, <1>20, <1>21
  DEF Next

(* The directory of the action under way is there, while undisturbed. *)
LEMMA ReachedNow ==
  ASSUME TypeOK, Done, Undisturbed, pc \in Body \ {"pin", "revalidate"}
  PROVE Reachable(at)
<1>1. at \in Targets BY DEF TypeOK
<1>2. CASE Inside[at] = 0 BY <1>2 DEF Reachable
<1>3. CASE Inside[at] # 0
  <2>1. DoneAt(Inside[at]) BY <1>1, <1>3, Directories DEF Done
  <2>2. QED BY <2>1, <1>1, <1>3, Directories, Shapes DEF DoneAt, Over, Undisturbed,
        Reachable
<1>4. QED BY <1>2, <1>3

(* Undisturbed, only a failing call starts a rollback. *)
LEMMA CausedStep ==
  ASSUME TypeOK, Places, Midway, Fresh, Done, Caused, [Next]_vars
  PROVE Caused'
<1> USE Steady DEF TypeOK, Midway, Caused, Undisturbed, Handler, Body,
      Refused, Fault, NoFault, StartUndo, Continue, StartSweep, JournalWritten,
      JournalFails, planVars, treeVars, workVars, sweepVars, worldVars
<1>1. CASE Pin BY <1>1 DEF Pin
<1>2. CASE Revalidate BY <1>2 DEF Revalidate
<1>3. CASE Begin
      BY <1>3, ReachedNow, FirstSteps, Shapes DEF Begin, Expected, Fresh, FreshAt, Untried
<1>4. CASE Make BY <1>4, ReachedNow DEF Make
<1>5. CASE Aside BY <1>5, ReachedNow, Shapes DEF Aside, Fresh, FreshAt, Untried
<1>6. CASE Note BY <1>6 DEF Note
<1>7. CASE Own BY <1>7 DEF Own
<1>8. CASE Link
      BY <1>8, ReachedNow, Shapes, FirstSteps DEF Link, Linkable, Fresh, FreshAt, Untried
<1>9. CASE Identify BY <1>9, ReachedNow DEF Identify
<1>10. CASE Complete BY <1>10 DEF Complete, Advance, Registered
<1>11. CASE Verify BY <1>11 DEF Verify
<1>12. CASE SweepFile BY <1>12 DEF SweepFile
<1>13. CASE SweepDirectory BY <1>13 DEF SweepDirectory
<1>14. CASE Undo BY <1>14 DEF Undo, GiveUp
<1>15. CASE Remove BY <1>15 DEF Remove, GiveUp
<1>16. CASE Restore BY <1>16 DEF Restore, GiveUp
<1>17. CASE Undone BY <1>17 DEF Undone
<1>18. CASE Settle BY <1>18 DEF Settle
<1>19. CASE Interrupt BY <1>19 DEF Interrupt
<1>20. CASE Touch BY <1>20 DEF Touch
<1>21. CASE UNCHANGED vars BY <1>21 DEF vars
<1>22. QED BY <1>1, <1>2, <1>3, <1>4, <1>5, <1>6, <1>7, <1>8, <1>9, <1>10,
  <1>11, <1>12, <1>13, <1>14, <1>15, <1>16, <1>17, <1>18, <1>19, <1>20, <1>21
  DEF Next

(* The record of a rollback given up, and the end of a complete one. *)
LEMMA SettledStep ==
  ASSUME TypeOK, Places, Roomy, Begun, Settled, [Next]_vars
  PROVE Settled'
<1> USE DEF TypeOK, Places, Roomy, Begun, Settled, Body, StartUndo, Continue, StartSweep,
    JournalWritten, JournalFails, planVars, treeVars, workVars, sweepVars, worldVars
<1>1. CASE Pin BY <1>1 DEF Pin
<1>2. CASE Revalidate BY <1>2 DEF Revalidate
<1>3. CASE Begin BY <1>3 DEF Begin
<1>4. CASE Make BY <1>4 DEF Make
<1>5. CASE Aside BY <1>5 DEF Aside
<1>6. CASE Note BY <1>6 DEF Note
<1>7. CASE Own BY <1>7 DEF Own
<1>8. CASE Link BY <1>8 DEF Link
<1>9. CASE Identify BY <1>9 DEF Identify
<1>10. CASE Complete BY <1>10 DEF Complete, Advance, Registered
<1>11. CASE Verify BY <1>11 DEF Verify
<1>12. CASE SweepFile BY <1>12 DEF SweepFile
<1>13. CASE SweepDirectory BY <1>13, Incompletes DEF SweepDirectory
<1>14. CASE Undo BY <1>14 DEF Undo, GiveUp
<1>15. CASE Remove BY <1>15 DEF Remove, GiveUp
<1>16. CASE Restore BY <1>16 DEF Restore, GiveUp
<1>17. CASE Undone BY <1>17 DEF Undone
<1>18. CASE Settle BY <1>18 DEF Settle
<1>19. CASE Interrupt BY <1>19 DEF Interrupt
<1>20. CASE Touch BY <1>20 DEF Touch
<1>21. CASE UNCHANGED vars BY <1>21 DEF vars
<1>22. QED BY <1>1, <1>2, <1>3, <1>4, <1>5, <1>6, <1>7, <1>8, <1>9, <1>10,
  <1>11, <1>12, <1>13, <1>14, <1>15, <1>16, <1>17, <1>18, <1>19, <1>20, <1>21
  DEF Next

(* Undisturbed, only an unregistered file can stop the rollback by itself. *)
LEMMA UndoWorks ==
  ASSUME TypeOK, Known, Reversible, Undisturbed, pc = "undo", NEW i \in todo, Latest(i),
         Operation[i] # "replace" \/ after[i] # "unknown", ~Removable(i)
  PROVE Unseen(at) /\ tree[at] # Previewed[at]
<1>1. i \in Targets /\ i \in todo /\ LeftAt(i) /\ ReachedAt(i) BY DEF TypeOK, Reversible
<1>2. ToUndo(i) BY <1>1 DEF ToUndo, Body
<1>3. Operation[i] \in {"mkdir", "create", "replace"} BY <1>1, FirstSteps
<1>4. CASE Operation[i] = "mkdir"
  <2>1. tree[i] = "dir" BY <1>1, <1>2, <1>4 DEF LeftAt
  <2>2. PICK j \in Targets : Inside[j] = i /\ tree[j] # "none"
        BY <1>4, <2>1 DEF Removable, Occupied
  <2>3. i < j /\ Operation[j] # "replace" BY <1>1, <2>2, Directories, Numbers
  <2>4. j \notin todo BY <2>3, <1>1, Numbers DEF Latest
  <2>5. tree[j] # Previewed[j] BY <2>2, <2>3, Shapes
  <2>6. Unseen(j) BY <2>4, <2>5 DEF Known, KnownAt, Undisturbed
  <2>7. QED BY <2>5, <2>6 DEF Unseen
<1>5. CASE Operation[i] # "mkdir"
  <2>1. tree[i] = "new" /\ after[i] = "new" BY <1>1, <1>2, <1>3, <1>5 DEF LeftAt
  <2>2. Reachable(i) BY <1>1, <2>1 DEF ReachedAt
  <2>3. QED BY <1>5, <2>1, <2>2 DEF Removable
<1>6. QED BY <1>4, <1>5

LEMMA RemoveWorks ==
  ASSUME TypeOK, Midway, Contained, Reversible, Undisturbed, pc = "remove", NEW i \in todo,
         Latest(i)
  PROVE Reachable(i) /\ tree[i] # "none"
<1>1. i \in Targets /\ ReachedAt(i) /\ ContainedAt(i) BY DEF TypeOK, Reversible, Contained
<1>2. after[i] = "new" /\ tree[i] = "new" BY <1>1 DEF Midway, ContainedAt, Undisturbed
<1>3. QED BY <1>1, <1>2 DEF ReachedAt

LEMMA RestoreWorks ==
  ASSUME TypeOK, Midway, Reversible, Undisturbed, pc = "restore", NEW i \in todo, Latest(i)
  PROVE Backup(i) \in work /\ Reachable(i)
<1>1. i \in Targets /\ LeftAt(i) BY DEF TypeOK, Reversible
<1>2. Operation[i] = "replace" BY DEF Midway
<1>3. Backup(i) \in work BY <1>1, <1>2 DEF LeftAt, ToUndo, Body
<1>4. Inside[i] = 0 BY <1>1, <1>2, Directories
<1>5. QED BY <1>3, <1>4 DEF Reachable

(* Undisturbed, one failing call alone does not end in recovery. *)
LEMMA JustifiedStep ==
  ASSUME TypeOK, Places, Midway, Contained, Known, Reversible, Caused, Justified, [Next]_vars
  PROVE Justified'
<1> USE DEF TypeOK, Justified, Undisturbed, Unseen, Body,
      Refused, Fault, NoFault, StartUndo, Continue, StartSweep, JournalWritten,
      JournalFails, planVars, treeVars, workVars, sweepVars, worldVars
<1>1. CASE Pin BY <1>1 DEF Pin, Places
<1>2. CASE Revalidate BY <1>2 DEF Revalidate, Places
<1>3. CASE Begin BY <1>3, FirstSteps DEF Begin, Places
<1>4. CASE Make BY <1>4 DEF Make, Places
<1>5. CASE Aside BY <1>5 DEF Aside, Places
<1>6. CASE Note BY <1>6 DEF Note, Places
<1>7. CASE Own BY <1>7 DEF Own, Places
<1>8. CASE Link BY <1>8 DEF Link, Places
<1>9. CASE Identify BY <1>9 DEF Identify, Places
<1>10. CASE Complete BY <1>10 DEF Complete, Advance, Registered, Places
<1>11. CASE Verify BY <1>11 DEF Verify, Places
<1>12. CASE SweepFile BY <1>12 DEF SweepFile, Places
<1>13. CASE SweepDirectory BY <1>13, Incompletes DEF SweepDirectory, Places
<1>14. CASE Undo
  <2> SUFFICES ASSUME Undisturbed', outcome' = "recovery_required"
      PROVE faults' > 1 \/ (Unseen(at) /\ tree[at] # Previewed[at])'
    BY DEF Justified
  <2>1. Undisturbed BY Steady DEF Undisturbed
  <2>2. pc = "undo" /\ outcome = "none" BY <1>14 DEF Undo, Places
  <2>3. PICK i \in todo : /\ Latest(i)
                          /\ Operation[i] # "replace" \/ after[i] # "unknown"
                          /\ Refused(Removable(i))
                          /\ tree' = tree /\ UNCHANGED <<planVars>>
    BY <1>14, <2>2 DEF Undo, GiveUp
  <2>4. CASE Fault
    <3>1. faults > 0 BY <2>1, <2>2 DEF Caused, Handler
    <3>2. faults' = faults + 1 /\ faults \in Int BY <2>4, MaxFaultsNat DEF Fault, TypeOK
    <3>3. QED BY <3>1, <3>2
  <2>5. CASE ~Fault
    BY <2>1, <2>2, <2>3, <2>5, UndoWorks DEF planVars
  <2>6. QED BY <2>4, <2>5
<1>15. CASE Remove
  <2> SUFFICES ASSUME Undisturbed', outcome' = "recovery_required"
      PROVE faults' > 1 \/ (Unseen(at) /\ tree[at] # Previewed[at])'
    BY DEF Justified
  <2>1. Undisturbed BY Steady DEF Undisturbed
  <2>2. pc = "remove" /\ outcome = "none" BY <1>15 DEF Remove, Places
  <2>3. PICK i \in todo : /\ Latest(i)
                          /\ Refused(Reachable(i) /\ tree[i] # "none")
                          /\ tree' = tree /\ UNCHANGED <<planVars>>
    BY <1>15, <2>2 DEF Remove, GiveUp
  <2>4. CASE Fault
    <3>1. faults > 0 BY <2>1, <2>2 DEF Caused, Handler
    <3>2. faults' = faults + 1 /\ faults \in Int BY <2>4, MaxFaultsNat DEF Fault, TypeOK
    <3>3. QED BY <3>1, <3>2
  <2>5. CASE ~Fault
    BY <2>1, <2>2, <2>3, <2>5, RemoveWorks DEF planVars
  <2>6. QED BY <2>4, <2>5
<1>16. CASE Restore
  <2> SUFFICES ASSUME Undisturbed', outcome' = "recovery_required"
      PROVE faults' > 1 \/ (Unseen(at) /\ tree[at] # Previewed[at])'
    BY DEF Justified
  <2>1. Undisturbed BY Steady DEF Undisturbed
  <2>2. pc = "restore" /\ outcome = "none" BY <1>16 DEF Restore, Places
  <2>3. PICK i \in todo : /\ Latest(i)
                          /\ Refused(Backup(i) \in work /\ Reachable(i))
                          /\ tree' = tree /\ UNCHANGED <<planVars>>
    BY <1>16, <2>2 DEF Restore, GiveUp
  <2>4. CASE Fault
    <3>1. faults > 0 BY <2>1, <2>2 DEF Caused, Handler
    <3>2. faults' = faults + 1 /\ faults \in Int BY <2>4, MaxFaultsNat DEF Fault, TypeOK
    <3>3. QED BY <3>1, <3>2
  <2>5. CASE ~Fault
    BY <2>1, <2>2, <2>3, <2>5, RestoreWorks DEF planVars
  <2>6. QED BY <2>4, <2>5
<1>17. CASE Undone BY <1>17 DEF Undone, Places
<1>18. CASE Settle BY <1>18, Steady DEF Settle, Places
<1>19. CASE Interrupt BY <1>19 DEF Interrupt
<1>20. CASE Touch BY <1>20 DEF Touch
<1>21. CASE UNCHANGED vars BY <1>21 DEF vars
<1>22. QED BY <1>1, <1>2, <1>3, <1>4, <1>5, <1>6, <1>7, <1>8, <1>9, <1>10,
  <1>11, <1>12, <1>13, <1>14, <1>15, <1>16, <1>17, <1>18, <1>19, <1>20, <1>21
  DEF Next

-----------------------------------------------------------------------------
(* The invariant is inductive. *)
LEMMA IInvStep ==
  ASSUME IInv, [Next]_vars
  PROVE IInv'
<1> USE DEF IInv
<1>1. TypeOK' BY TypeStep DEF BodyInv
<1>2. BodyInv' BY BodyStep
<1>3. Places /\ Roomy /\ Begun /\ Fresh /\ Midway /\ Done /\ Contained BY DEF BodyInv
<1>4. Keeping' BY <1>3, KeepingStep DEF Keeping
<1>5. Logged'
  <2>1. \A i \in Targets : LoggedAt(i) /\ KnownAt(i) BY DEF Logged, Known
  <2>2. QED BY <1>3, <2>1, LoggedStep DEF Logged
<1>6. Known' BY <1>3, KnownStep, RolledBackStep DEF Known
<1>7. Reversible' BY <1>3, LeftStep, ReachedStep DEF Reversible
<1>8. Caused' BY <1>3, CausedStep
<1>9. Settled' BY <1>3, SettledStep
<1>10. Justified' BY <1>3, JustifiedStep
<1>11. QED BY <1>1, <1>2, <1>4, <1>5, <1>6, <1>7, <1>8, <1>9, <1>10

LEMMA AlwaysIInv == Spec => []IInv
<1>1. IInv /\ [Next]_vars => IInv' BY IInvStep
<1>2. QED BY InitIInv, <1>1, PTL DEF Spec

(* What another program wrote over an installed file stays for one step, and *)
(* the rollback does not begin to remove it; unless the step is the unlink   *)
(* or the rename that the comparison allowed.                                *)
LateWriteStays(i) ==
  \/ tree'[i] = "other" /\ (pc = "undo" /\ Latest(i) => pc' \notin {"remove", "restore"})
  \/ pc \in {"remove", "restore"} /\ Latest(i)

LEMMA LateWriteStep ==
  ASSUME TypeOK, Midway, [Next]_vars, NEW i \in Targets, FreshAt(i), ContainedAt(i),
         after[i] = "new", tree[i] = "other"
  PROVE LateWriteStays(i)
<1> USE DEF LateWriteStays, TypeOK, Midway, FreshAt, Untried, ContainedAt, Body, planVars, treeVars,
    workVars, sweepVars, worldVars
<1>1. CASE Pin BY <1>1 DEF Pin
<1>2. CASE Revalidate BY <1>2 DEF Revalidate
<1>3. CASE Begin BY <1>3 DEF Begin
<1>4. CASE Make BY <1>4 DEF Make
<1>5. CASE Aside BY <1>5 DEF Aside
<1>6. CASE Note BY <1>6 DEF Note
<1>7. CASE Own BY <1>7 DEF Own
<1>8. CASE Link BY <1>8 DEF Link, Linkable
<1>9. CASE Identify BY <1>9 DEF Identify
<1>10. CASE Complete BY <1>10 DEF Complete, Advance, Registered
<1>11. CASE Verify BY <1>11 DEF Verify
<1>12. CASE SweepFile BY <1>12 DEF SweepFile
<1>13. CASE SweepDirectory BY <1>13 DEF SweepDirectory
<1>14. CASE Undo
  <2>1. ASSUME Latest(i) PROVE LateWriteStays(i)
    <3>1. pc = "undo" /\ \A j \in todo : Latest(j) => j = i
      BY <1>14, <2>1, OneLatest DEF Undo
    <3>2. Operation[i] # "mkdir" /\ ~Removable(i) BY DEF Removable
    <3>3. tree' = tree /\ pc' = "settle" BY <1>14, <3>1, <3>2 DEF Undo, GiveUp
    <3>4. QED BY <3>3
  <2>2. ASSUME ~Latest(i) PROVE LateWriteStays(i) BY <1>14, <2>2 DEF Undo, GiveUp
  <2>3. QED BY <2>1, <2>2
<1>15. CASE Remove BY <1>15 DEF Remove, GiveUp
<1>16. CASE Restore BY <1>16 DEF Restore, GiveUp
<1>17. CASE Undone BY <1>17 DEF Undone
<1>18. CASE Settle BY <1>18 DEF Settle
<1>19. CASE Interrupt BY <1>19 DEF Interrupt, InHandler, StartUndo
<1>20. CASE Touch BY <1>20 DEF Touch
<1>21. CASE UNCHANGED vars BY <1>21 DEF vars
<1>22. QED BY <1>1, <1>2, <1>3, <1>4, <1>5, <1>6, <1>7, <1>8, <1>9, <1>10,
  <1>11, <1>12, <1>13, <1>14, <1>15, <1>16, <1>17, <1>18, <1>19, <1>20, <1>21
  DEF Next

-----------------------------------------------------------------------------
(* Type correctness of MigrationTransaction.execute(): wherever it is, the   *)
(* workspace files it tracks, what is registered and what is left to undo    *)
(* are what the code can hold.                                               *)
THEOREM TypeCorrect == Spec => []TypeOK
<1>1. IInv => TypeOK BY DEF IInv
<1>2. QED BY AlwaysIInv, <1>1, PTL

(* A file the plan replaces can always be found, at its destination or in    *)
(* the workspace, until every action is applied and verified; except for an  *)
(* interrupt between rename and registration or during cleanup.              *)
THEOREM OriginalsKept == Spec => []OriginalKept
<1>1. IInv => OriginalKept
  BY DEF IInv, Keeping, KeepingAt, OriginalKept, Replaced, Mine, OriginalFound
<1>2. QED BY AlwaysIInv, <1>1, PTL

(* Whatever a transaction that did not settle its outcome changed is in the  *)
(* journal on disk, for whoever recovers by hand.                            *)
THEOREM JournalAhead == Spec => []JournalWrittenAhead
<1>1. IInv => JournalWrittenAhead
  BY DEF IInv, Logged, LoggedAt, JournalWrittenAhead, Mine
<1>2. QED BY AlwaysIInv, <1>1, PTL

(* The TransactionResult is true of the files: what is applied is as planned *)
(* and cleaned up, what is rolled back is as before but for a target that    *)
(* was never registered, and recovery is asked for with reason and a record. *)
THEOREM OutcomeIsTrue == Spec => []OutcomeTruthful
<1>1. ASSUME IInv PROVE OutcomeTruthful
  <2>1. AppliedHolds
    BY <1>1 DEF IInv, BodyInv, AppliedAsPlanned, AppliedAt, Settled, AppliedHolds, Mine
  <2>2. RolledBackHolds
    BY <1>1 DEF IInv, Known, KnownAt, RolledBack, RolledBackHolds, Mine
  <2>3. RecoveryHolds
    <3>1. SUFFICES ASSUME outcome = "recovery_required", pc = "returned" PROVE RecoveryHolds
      BY DEF RecoveryHolds
    <3>2. room => disk.phase = "recovery_required" /\ Journal \in work
      BY <1>1, <3>1 DEF IInv, Settled
    <3>3. ASSUME NEW i \in Mine, tree[i] # Previewed[i] PROVE i \in disk.ops
      <4>1. KnownAt(i) /\ i \notin touched BY <1>1 DEF IInv, Known, Mine
      <4>2. i \in begun BY <4>1, <3>3 DEF KnownAt
      <4>3. QED BY <1>1, <3>1, <4>2 DEF IInv, Settled
    <3>4. faults > 1 \/ touched # {} \/ cut # {} \/ (Unseen(at) /\ tree[at] # Previewed[at])
      BY <1>1, <3>1 DEF IInv, Justified, Undisturbed
    <3>5. QED BY <3>2, <3>3, <3>4 DEF RecoveryHolds
  <2>4. QED BY <2>1, <2>2, <2>3 DEF OutcomeTruthful
<1>2. QED BY AlwaysIInv, <1>1, PTL

(* What another program writes over a file that is installed and identified  *)
(* survives: no step begins to remove it, whatever order the writes come in, *)
(* and only the unlink or rename of an action already compared can lose it.  *)
THEOREM LateWritesSurvive == Spec => LateWritesKept
<1>1. ASSUME IInv, [Next]_vars, NEW i \in Targets, after[i] = "new", tree[i] = "other"
      PROVE LateWriteStays(i)
  <2>1. TypeOK /\ Midway /\ FreshAt(i) /\ ContainedAt(i)
    BY <1>1 DEF IInv, BodyInv, Fresh, Contained
  <2>2. QED BY <1>1, <2>1, LateWriteStep
<1>2. IInv /\ [Next]_vars =>
        [\A i \in Targets : after[i] = "new" /\ tree[i] = "other" =>
           \/ tree'[i] = "other" /\ (pc = "undo" /\ Latest(i) => pc' \notin {"remove", "restore"})
           \/ pc \in {"remove", "restore"} /\ Latest(i)]_vars
  BY <1>1 DEF LateWriteStays
<1>3. QED BY AlwaysIInv, <1>2, PTL DEF Spec, LateWritesKept
=============================================================================
