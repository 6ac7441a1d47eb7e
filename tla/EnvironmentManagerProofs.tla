------------------------ MODULE EnvironmentManagerProofs ---------------------
(***************************************************************************)
(* For any managers, any number of commands, failing calls, crashes and    *)
(* moves by hand: an installer keeps its environment, an interrupted       *)
(* rebuild can be recovered and the operation record is true.              *)
(*                                                                         *)
(* The lease makes the manager in operation the only one, and leaves no    *)
(* other installer; that manager knows where the directories are at each   *)
(* of its steps (Progress), and what it saved last says enough of it for a *)
(* recovery, wherever it is killed.                                        *)
(***************************************************************************)
EXTENDS EnvironmentManager, TLAPS

\* The lease is held by one manager with its installer.
Exclusive == \A m, n \in Managers : Leased(m) /\ Leased(n) => m = n

\* The manager of a running installer waits for it, has given it up or is dead; one
\* that lost it is on the way back from its installation, or done with it.
Accounted(m) ==
  /\ installer[m] = "alive" => pc[m] \in {"wait", "unconfirmed", "dead", "idle"}
  /\ installer[m] = "lost" =>
       /\ pc[m] \in {"undo", "restore", "settle", "failed", "dead", "idle"}
       /\ pc[m] = "undo" => venv # 0
       /\ disk.status # "completed"
Attended == \A m \in Managers : Accounted(m)

\* What the tree and the record on disk are at each step of an operation.
Progress(m) ==
  /\ disk.status = "running" /\ disk.operation = record[m].operation
  /\ record[m].status = "running" /\ disk.old = record[m].old
  /\ record[m].operation \in {"rebuild", "synchronize"}
  /\ pc[m] \in Rebuilding => disk.operation = "rebuild"
  /\ pc[m] = "failed" => disk.operation = "synchronize"
  /\ pc[m] = "aside" => venv = disk.old
  /\ pc[m] \in {"aside", "mkdir", "identify"} => disk.new = 0
  /\ pc[m] = "mkdir" => venv = 0
  /\ pc[m] = "restore" => venv \in strays \cup {0}
  /\ pc[m] \in {"aside", "identify", "install", "wait"} => venv # 0
  /\ pc[m] = "identify" => venv = made
  /\ disk.operation = "rebuild" /\ pc[m] \in Installing =>
       venv = disk.new /\ venv = record[m].new
  /\ disk.operation = "rebuild" /\ pc[m] \notin {"aside", "settle"} => BackupVerified
  /\ pc[m] = "undo" => ReplacementVerified \/ (disk.new = 0 /\ venv = made)
  /\ pc[m] = "settle" => venv = disk.old \/ (disk.old = 0 /\ venv \in strays)
  /\ pc[m] = "commit" => venv \in verified
  /\ pc[m] \in {"aside", "mkdir"} => made < MaxDirs
  /\ pc[m] \in {"aside", "mkdir", "identify", "install", "wait"} => left[m] >= 1

Tracked == \A m \in Managers : InOperation(m) => Progress(m)

\* The conclusion of InterruptedIsRecoverable.
Recoverable ==
  /\ disk.old # 0 => disk.old \in backups \cup {venv}
  /\ \/ InPlace
     \/ BackupVerified /\ ReplacementVerified
     \/ disk.new = 0 /\ venv = made
     \/ venv \in strays
Recorded ==
  /\ RecordTruthful
  /\ disk.status = "restored" => disk.old # 0
  /\ Interrupted /\ ~byHand => Recoverable

IInv == TypeOK /\ Exclusive /\ Attended /\ Tracked /\ Recorded

\* While a manager is in operation nobody else holds anything.
LEMMA Alone ==
  ASSUME IInv, NEW m \in Managers, InOperation(m), NEW n \in Managers, n # m
  PROVE  ~InOperation(n) /\ installer[n] = "none"
BY DEF IInv, Exclusive, Leased

\* What is left to show of a step of the manager in operation.
LEMMA OwnStep ==
  ASSUME IInv, NEW m \in Managers, InOperation(m), TypeOK',
         \A n \in Managers \ {m} : pc'[n] = pc[n] /\ installer'[n] = installer[n],
         Accounted(m)',
         InOperation(m)' => Progress(m)',
         Recorded'
  PROVE  IInv'
<1>1. \A n \in Managers \ {m} : ~InOperation(n)' /\ installer'[n] = "none"
  BY Alone DEF InOperation
<1>2. Exclusive' BY <1>1 DEF Exclusive, Leased
<1>3. Attended' BY <1>1 DEF Attended, Accounted
<1>4. Tracked' BY <1>1 DEF Tracked
<1> QED BY <1>2, <1>3, <1>4 DEF IInv

LEMMA NoEntry == NoRecord \in Entry
BY ManagerAssumption DEF NoRecord, Entry

LEMMA InitIInv == Init => IInv
<1> SUFFICES ASSUME Init PROVE IInv OBVIOUS
<1>1. TypeOK
  <2>1. made \in {0, 1} /\ venv = made /\ formed = 1..made /\ verified = 1..made
    BY DEF Init
  <2>2. made \in 0..MaxDirs /\ 1..made \subseteq Dirs BY <2>1, ManagerAssumption DEF Dirs
  <2>3. pc \in [Managers -> Rebuilding \cup Installing \cup {"idle", "dead"}]
    BY DEF Init
  <2>4. record \in [Managers -> Entry] /\ disk \in Entry BY NoEntry DEF Init
  <2>5. left \in [Managers -> 0..Commands]
    BY ManagerAssumption DEF Init
  <2>6. installer \in [Managers -> {"none", "alive", "lost", "killed"}] BY DEF Init
  <2>7. /\ backups \subseteq Dirs /\ kept \subseteq Dirs /\ strays \subseteq Dirs
        /\ byHand \in BOOLEAN
    BY Zenon DEF Init
  <2>8. mishaps \in 0..MaxMishaps /\ crashes \in 0..MaxCrashes /\ moves \in 0..MaxMoves
    <3>1. mishaps = 0 /\ crashes = 0 /\ moves = 0 BY DEF Init
    <3> QED BY <3>1, ManagerAssumption
  <2> QED BY <2>1, <2>2, <2>3, <2>4, <2>5, <2>6, <2>7, <2>8 DEF TypeOK
<1>2. Exclusive /\ Attended /\ Tracked
  BY DEF Init, Exclusive, Attended, Accounted, Tracked, Leased, InOperation
<1>3. Recorded
  BY DEF Init, Recorded, RecordTruthful, Interrupted, NoRecord
<1> QED BY <1>1, <1>2, <1>3 DEF IInv

LEMMA AsideStep ==
  ASSUME IInv, NEW m \in Managers, Aside(m)
  PROVE  IInv'
<1> USE DEF Aside, Goto, End, Unsaved, Save, NoMishap, Mishap, Gone, Recourse,
        boundVars, treeVars,  managerVars
<1>1. pc[m] = "aside" /\ InOperation(m) /\ Progress(m)
  BY DEF InOperation, IInv, Tracked
<1>2. TypeOK'
  <2>1. pc' \in [Managers -> Rebuilding \cup Installing \cup {"idle", "dead"}]
    BY DEF IInv, TypeOK, Rebuilding, Installing
  <2>2. record' \in [Managers -> Entry] /\ disk' \in Entry /\ byHand' \in BOOLEAN
    <3>1. disk' = disk /\ byHand' = byHand OBVIOUS
    <3>2. record' \in {record, [record EXCEPT ![m] = NoRecord]} OBVIOUS
    <3> QED BY <3>1, <3>2, NoEntry DEF IInv, TypeOK
  <2>3. left' \in [Managers -> 0..Commands]
    BY <1>1, ManagerAssumption DEF IInv, TypeOK, Progress
  <2>4. installer' \in [Managers -> {"none", "alive", "lost", "killed"}]
    BY DEF IInv, TypeOK
  <2>5. venv' \in 0..MaxDirs /\ made' \in 0..MaxDirs
    BY <1>1, ManagerAssumption DEF IInv, TypeOK, Progress
  <2>6. /\ backups' \subseteq Dirs /\ kept' \subseteq Dirs
        /\ formed' \subseteq Dirs /\ verified' \subseteq Dirs /\ strays' \subseteq Dirs
    <3>1. venv # 0 => venv \in Dirs BY DEF IInv, TypeOK, Dirs
    <3> QED BY <1>1, <3>1 DEF IInv, TypeOK, Progress
  <2>7. mishaps' \in 0..MaxMishaps /\ crashes' \in 0..MaxCrashes /\ moves' \in 0..MaxMoves
    BY ManagerAssumption DEF IInv, TypeOK
  <2> QED BY <2>1, <2>2, <2>3, <2>4, <2>5, <2>6, <2>7 DEF TypeOK
<1>3. \A n \in Managers \ {m} : pc'[n] = pc[n] /\ installer'[n] = installer[n]
  BY DEF IInv, TypeOK
<1>4. Accounted(m)'
  BY <1>1 DEF IInv, TypeOK, Attended, Accounted, Progress, Rebuilding, Installing
<1>5. InOperation(m)' => Progress(m)'
  BY <1>1 DEF IInv, TypeOK, Progress, InOperation, Rebuilding,
    Installing, BackupVerified, ReplacementVerified
<1>6. Recorded'
  BY <1>1 DEF IInv, TypeOK, Recorded, RecordTruthful, Interrupted, Recoverable,
    Progress, Rebuilding, Installing, InPlace, BackupVerified, ReplacementVerified
<1> QED BY <1>1, <1>2, <1>3, <1>4, <1>5, <1>6, OwnStep

LEMMA MakeDirectoryStep ==
  ASSUME IInv, NEW m \in Managers, MakeDirectory(m)
  PROVE  IInv'
<1> USE DEF MakeDirectory, Goto, End, Unsaved, Save, NoMishap, Mishap, Gone, Recourse,
        boundVars, treeVars,  managerVars
<1>1. pc[m] = "mkdir" /\ InOperation(m) /\ Progress(m)
  BY DEF InOperation, IInv, Tracked
<1>2. TypeOK'
  <2>1. pc' \in [Managers -> Rebuilding \cup Installing \cup {"idle", "dead"}]
    BY DEF IInv, TypeOK, Rebuilding, Installing
  <2>2. record' \in [Managers -> Entry] /\ disk' \in Entry /\ byHand' \in BOOLEAN
    BY NoEntry DEF IInv, TypeOK
  <2>3. left' \in [Managers -> 0..Commands]
    BY <1>1, ManagerAssumption DEF IInv, TypeOK, Progress
  <2>4. installer' \in [Managers -> {"none", "alive", "lost", "killed"}]
    BY DEF IInv, TypeOK
  <2>5. venv' \in 0..MaxDirs /\ made' \in 0..MaxDirs
    BY <1>1, ManagerAssumption DEF IInv, TypeOK, Progress
  <2>6. /\ backups' \subseteq Dirs /\ kept' \subseteq Dirs
        /\ formed' \subseteq Dirs /\ verified' \subseteq Dirs /\ strays' \subseteq Dirs
    <3>1. venv # 0 => venv \in Dirs BY DEF IInv, TypeOK, Dirs
    <3> QED BY <1>1, <3>1 DEF IInv, TypeOK, Progress
  <2>7. mishaps' \in 0..MaxMishaps /\ crashes' \in 0..MaxCrashes /\ moves' \in 0..MaxMoves
    BY ManagerAssumption DEF IInv, TypeOK
  <2> QED BY <2>1, <2>2, <2>3, <2>4, <2>5, <2>6, <2>7 DEF TypeOK
<1>3. \A n \in Managers \ {m} : pc'[n] = pc[n] /\ installer'[n] = installer[n]
  BY DEF IInv, TypeOK
<1>4. Accounted(m)'
  BY <1>1 DEF IInv, TypeOK, Attended, Accounted, Progress, Rebuilding, Installing
<1>5. InOperation(m)' => Progress(m)'
  BY <1>1 DEF IInv, TypeOK, Progress, InOperation, Rebuilding,
    Installing, BackupVerified, ReplacementVerified
<1>6. Recorded'
  BY <1>1 DEF IInv, TypeOK, Recorded, RecordTruthful, Interrupted, Recoverable,
    Progress, Rebuilding, Installing, InPlace, BackupVerified, ReplacementVerified
<1> QED BY <1>1, <1>2, <1>3, <1>4, <1>5, <1>6, OwnStep

LEMMA IdentifyStep ==
  ASSUME IInv, NEW m \in Managers, Identify(m)
  PROVE  IInv'
<1> USE DEF Identify, Goto, End, Unsaved, Save, NoMishap, Mishap, Gone, Recourse,
        boundVars, treeVars,  managerVars
<1>1. pc[m] = "identify" /\ InOperation(m) /\ Progress(m)
  BY DEF InOperation, IInv, Tracked
<1>2. TypeOK'
  <2>1. pc' \in [Managers -> Rebuilding \cup Installing \cup {"idle", "dead"}]
    BY DEF IInv, TypeOK, Rebuilding, Installing
  <2>2. record' \in [Managers -> Entry] /\ disk' \in Entry /\ byHand' \in BOOLEAN
    <3>1. [record[m] EXCEPT !.new = venv] \in Entry BY ManagerAssumption DEF Entry, IInv, TypeOK
    <3>2. /\ record' = [record EXCEPT ![m] = [record[m] EXCEPT !.new = venv]]
          /\ \/ disk' = [record[m] EXCEPT !.new = venv] /\ byHand' = FALSE
             \/ disk' = disk /\ byHand' = byHand
      OBVIOUS
    <3> QED BY <3>1, <3>2 DEF IInv, TypeOK
  <2>3. left' \in [Managers -> 0..Commands]
    BY <1>1, ManagerAssumption DEF IInv, TypeOK, Progress
  <2>4. installer' \in [Managers -> {"none", "alive", "lost", "killed"}]
    BY DEF IInv, TypeOK
  <2>5. venv' \in 0..MaxDirs /\ made' \in 0..MaxDirs
    BY <1>1, ManagerAssumption DEF IInv, TypeOK, Progress
  <2>6. /\ backups' \subseteq Dirs /\ kept' \subseteq Dirs
        /\ formed' \subseteq Dirs /\ verified' \subseteq Dirs /\ strays' \subseteq Dirs
    <3>1. venv # 0 => venv \in Dirs BY DEF IInv, TypeOK, Dirs
    <3> QED BY <1>1, <3>1 DEF IInv, TypeOK, Progress
  <2>7. mishaps' \in 0..MaxMishaps /\ crashes' \in 0..MaxCrashes /\ moves' \in 0..MaxMoves
    BY ManagerAssumption DEF IInv, TypeOK
  <2> QED BY <2>1, <2>2, <2>3, <2>4, <2>5, <2>6, <2>7 DEF TypeOK
<1>3. \A n \in Managers \ {m} : pc'[n] = pc[n] /\ installer'[n] = installer[n]
  BY DEF IInv, TypeOK
<1>4. Accounted(m)'
  BY <1>1 DEF IInv, TypeOK, Attended, Accounted, Progress, Rebuilding, Installing
<1>0. \E e \in Entry :
         /\ e.status = record[m].status /\ e.operation = record[m].operation
         /\ e.old = record[m].old /\ e.new = venv /\ record'[m] = e
         /\ \/ disk' = e /\ byHand' = FALSE /\ pc'[m] = "install"
            \/ disk' = disk /\ byHand' = byHand /\ pc'[m] = "undo"
         /\ UNCHANGED <<venv, made, strays, backups, verified, left>>
  <2>1. [record[m] EXCEPT !.new = venv] \in Entry BY ManagerAssumption DEF Entry, IInv, TypeOK
  <2> WITNESS [record[m] EXCEPT !.new = venv] \in Entry
  <2> QED BY <1>1 DEF IInv, TypeOK
<1>7. PICK e \in Entry :
         /\ e.status = record[m].status /\ e.operation = record[m].operation
         /\ e.old = record[m].old /\ e.new = venv /\ record'[m] = e
         /\ \/ disk' = e /\ byHand' = FALSE /\ pc'[m] = "install"
            \/ disk' = disk /\ byHand' = byHand /\ pc'[m] = "undo"
         /\ UNCHANGED <<venv, made, strays, backups, verified, left>>
  BY <1>0
<1> HIDE DEF Identify
<1>5. InOperation(m)' => Progress(m)'
  <2>1. CASE disk' = e /\ byHand' = FALSE /\ pc'[m] = "install"
    BY <1>1, <1>7, <2>1 DEF Progress, Rebuilding, Installing, BackupVerified
  <2>2. CASE disk' = disk /\ byHand' = byHand /\ pc'[m] = "undo"
    BY <1>1, <1>7, <2>2 DEF Progress, Rebuilding, Installing, BackupVerified, ReplacementVerified
  <2> QED BY <1>7, <2>1, <2>2
<1>6. Recorded'
  <2>1. CASE disk' = e /\ byHand' = FALSE /\ pc'[m] = "install"
    BY <1>1, <1>7, <2>1 DEF Progress, Rebuilding, Installing, Recorded, RecordTruthful,
      Interrupted, Recoverable, BackupVerified, ReplacementVerified
  <2>2. CASE disk' = disk /\ byHand' = byHand /\ pc'[m] = "undo"
    BY <1>1, <1>7, <2>2 DEF Progress, Rebuilding, Recorded, RecordTruthful,
      Interrupted, Recoverable, BackupVerified, ReplacementVerified
  <2> QED BY <1>7, <2>1, <2>2
<1> QED BY <1>1, <1>2, <1>3, <1>4, <1>5, <1>6, OwnStep

LEMMA LaunchStep ==
  ASSUME IInv, NEW m \in Managers, Launch(m)
  PROVE  IInv'
<1> USE DEF Launch, Starts, Goto, End, Unsaved, Save, NoMishap, Mishap, Gone, Recourse,
        boundVars, treeVars,  managerVars
<1>1. pc[m] = "install" /\ InOperation(m) /\ Progress(m)
  BY DEF InOperation, IInv, Tracked
<1>2. TypeOK'
  <2>1. pc' \in [Managers -> Rebuilding \cup Installing \cup {"idle", "dead"}]
    BY DEF IInv, TypeOK, Rebuilding, Installing
  <2>2. record' \in [Managers -> Entry] /\ disk' \in Entry /\ byHand' \in BOOLEAN
    BY NoEntry DEF IInv, TypeOK
  <2>3. left' \in [Managers -> 0..Commands]
    BY <1>1, ManagerAssumption DEF IInv, TypeOK, Progress
  <2>4. installer' \in [Managers -> {"none", "alive", "lost", "killed"}]
    BY DEF IInv, TypeOK
  <2>5. venv' \in 0..MaxDirs /\ made' \in 0..MaxDirs
    BY <1>1, ManagerAssumption DEF IInv, TypeOK, Progress
  <2>6. /\ backups' \subseteq Dirs /\ kept' \subseteq Dirs
        /\ formed' \subseteq Dirs /\ verified' \subseteq Dirs /\ strays' \subseteq Dirs
    <3>1. venv # 0 => venv \in Dirs BY DEF IInv, TypeOK, Dirs
    <3> QED BY <1>1, <3>1 DEF IInv, TypeOK, Progress
  <2>7. mishaps' \in 0..MaxMishaps /\ crashes' \in 0..MaxCrashes /\ moves' \in 0..MaxMoves
    BY ManagerAssumption DEF IInv, TypeOK
  <2> QED BY <2>1, <2>2, <2>3, <2>4, <2>5, <2>6, <2>7 DEF TypeOK
<1>3. \A n \in Managers \ {m} : pc'[n] = pc[n] /\ installer'[n] = installer[n]
  BY DEF IInv, TypeOK
<1>4. Accounted(m)'
  BY <1>1 DEF IInv, TypeOK, Attended, Accounted, Progress, Rebuilding, Installing
<1>5. InOperation(m)' => Progress(m)'
  BY <1>1 DEF IInv, TypeOK, Progress, InOperation, Rebuilding,
    Installing, BackupVerified, ReplacementVerified
<1>6. Recorded'
  BY <1>1 DEF IInv, TypeOK, Recorded, RecordTruthful, Interrupted, Recoverable,
    Progress, Rebuilding, Installing, InPlace, BackupVerified, ReplacementVerified
<1> QED BY <1>1, <1>2, <1>3, <1>4, <1>5, <1>6, OwnStep

LEMMA InstalledStep ==
  ASSUME IInv, NEW m \in Managers, Installed(m)
  PROVE  IInv'
<1> USE DEF Installed, Goto, End, Unsaved, Save, NoMishap, Mishap, Gone, Recourse,
        boundVars, treeVars,  managerVars
<1>1. pc[m] = "wait" /\ InOperation(m) /\ Progress(m)
  BY DEF InOperation, IInv, Tracked
<1>2. TypeOK'
  <2>1. pc' \in [Managers -> Rebuilding \cup Installing \cup {"idle", "dead"}]
    BY DEF IInv, TypeOK, Rebuilding, Installing
  <2>2. record' \in [Managers -> Entry] /\ disk' \in Entry /\ byHand' \in BOOLEAN
    BY NoEntry DEF IInv, TypeOK
  <2>3. left' \in [Managers -> 0..Commands]
    BY <1>1, ManagerAssumption DEF IInv, TypeOK, Progress
  <2>4. installer' \in [Managers -> {"none", "alive", "lost", "killed"}]
    BY DEF IInv, TypeOK
  <2>5. venv' \in 0..MaxDirs /\ made' \in 0..MaxDirs
    BY <1>1, ManagerAssumption DEF IInv, TypeOK, Progress
  <2>6. /\ backups' \subseteq Dirs /\ kept' \subseteq Dirs
        /\ formed' \subseteq Dirs /\ verified' \subseteq Dirs /\ strays' \subseteq Dirs
    <3>1. venv # 0 => venv \in Dirs BY DEF IInv, TypeOK, Dirs
    <3> QED BY <1>1, <3>1 DEF IInv, TypeOK, Progress
  <2>7. mishaps' \in 0..MaxMishaps /\ crashes' \in 0..MaxCrashes /\ moves' \in 0..MaxMoves
    BY ManagerAssumption DEF IInv, TypeOK
  <2> QED BY <2>1, <2>2, <2>3, <2>4, <2>5, <2>6, <2>7 DEF TypeOK
<1>3. \A n \in Managers \ {m} : pc'[n] = pc[n] /\ installer'[n] = installer[n]
  BY DEF IInv, TypeOK
<1>4. Accounted(m)'
  BY <1>1 DEF IInv, TypeOK, Attended, Accounted, Progress, Rebuilding, Installing
<1>5. InOperation(m)' => Progress(m)'
  BY <1>1 DEF IInv, TypeOK, Progress, InOperation, Rebuilding,
    Installing, BackupVerified, ReplacementVerified
<1>6. Recorded'
  BY <1>1 DEF IInv, TypeOK, Recorded, RecordTruthful, Interrupted, Recoverable,
    Progress, Rebuilding, Installing, InPlace, BackupVerified, ReplacementVerified
<1> QED BY <1>1, <1>2, <1>3, <1>4, <1>5, <1>6, OwnStep

LEMMA CommandFailsStep ==
  ASSUME IInv, NEW m \in Managers, CommandFails(m)
  PROVE  IInv'
<1> USE DEF CommandFails, Goto, End, Unsaved, Save, NoMishap, Mishap, Gone, Recourse,
        boundVars, treeVars,  managerVars
<1>1. pc[m] = "wait" /\ InOperation(m) /\ Progress(m)
  BY DEF InOperation, IInv, Tracked
<1>2. TypeOK'
  <2>1. pc' \in [Managers -> Rebuilding \cup Installing \cup {"idle", "dead"}]
    BY DEF IInv, TypeOK, Rebuilding, Installing
  <2>2. record' \in [Managers -> Entry] /\ disk' \in Entry /\ byHand' \in BOOLEAN
    BY NoEntry DEF IInv, TypeOK
  <2>3. left' \in [Managers -> 0..Commands]
    BY <1>1, ManagerAssumption DEF IInv, TypeOK, Progress
  <2>4. installer' \in [Managers -> {"none", "alive", "lost", "killed"}]
    BY DEF IInv, TypeOK
  <2>5. venv' \in 0..MaxDirs /\ made' \in 0..MaxDirs
    BY <1>1, ManagerAssumption DEF IInv, TypeOK, Progress
  <2>6. /\ backups' \subseteq Dirs /\ kept' \subseteq Dirs
        /\ formed' \subseteq Dirs /\ verified' \subseteq Dirs /\ strays' \subseteq Dirs
    <3>1. venv # 0 => venv \in Dirs BY DEF IInv, TypeOK, Dirs
    <3> QED BY <1>1, <3>1 DEF IInv, TypeOK, Progress
  <2>7. mishaps' \in 0..MaxMishaps /\ crashes' \in 0..MaxCrashes /\ moves' \in 0..MaxMoves
    BY ManagerAssumption DEF IInv, TypeOK
  <2> QED BY <2>1, <2>2, <2>3, <2>4, <2>5, <2>6, <2>7 DEF TypeOK
<1>3. \A n \in Managers \ {m} : pc'[n] = pc[n] /\ installer'[n] = installer[n]
  BY DEF IInv, TypeOK
<1>4. Accounted(m)'
  BY <1>1 DEF IInv, TypeOK, Attended, Accounted, Progress, Rebuilding, Installing
<1>5. InOperation(m)' => Progress(m)'
  BY <1>1 DEF IInv, TypeOK, Progress, InOperation, Rebuilding,
    Installing, BackupVerified, ReplacementVerified
<1>6. Recorded'
  BY <1>1 DEF IInv, TypeOK, Recorded, RecordTruthful, Interrupted, Recoverable,
    Progress, Rebuilding, Installing, InPlace, BackupVerified, ReplacementVerified
<1> QED BY <1>1, <1>2, <1>3, <1>4, <1>5, <1>6, OwnStep

LEMMA KillStep ==
  ASSUME IInv, NEW m \in Managers, Kill(m)
  PROVE  IInv'
<1> USE DEF Kill, Goto, End, Unsaved, Save, NoMishap, Mishap, Gone, Recourse, boundVars,
        treeVars,  managerVars
<1>1. pc[m] = "wait" /\ InOperation(m) /\ Progress(m)
  BY DEF InOperation, IInv, Tracked
<1>2. TypeOK'
  <2>1. pc' \in [Managers -> Rebuilding \cup Installing \cup {"idle", "dead"}]
    BY DEF IInv, TypeOK, Rebuilding, Installing
  <2>2. record' \in [Managers -> Entry] /\ disk' \in Entry /\ byHand' \in BOOLEAN
    BY NoEntry DEF IInv, TypeOK
  <2>3. left' \in [Managers -> 0..Commands]
    BY <1>1, ManagerAssumption DEF IInv, TypeOK, Progress
  <2>4. installer' \in [Managers -> {"none", "alive", "lost", "killed"}]
    BY DEF IInv, TypeOK
  <2>5. venv' \in 0..MaxDirs /\ made' \in 0..MaxDirs
    BY <1>1, ManagerAssumption DEF IInv, TypeOK, Progress
  <2>6. /\ backups' \subseteq Dirs /\ kept' \subseteq Dirs
        /\ formed' \subseteq Dirs /\ verified' \subseteq Dirs /\ strays' \subseteq Dirs
    <3>1. venv # 0 => venv \in Dirs BY DEF IInv, TypeOK, Dirs
    <3> QED BY <1>1, <3>1 DEF IInv, TypeOK, Progress
  <2>7. mishaps' \in 0..MaxMishaps /\ crashes' \in 0..MaxCrashes /\ moves' \in 0..MaxMoves
    BY ManagerAssumption DEF IInv, TypeOK
  <2> QED BY <2>1, <2>2, <2>3, <2>4, <2>5, <2>6, <2>7 DEF TypeOK
<1>3. \A n \in Managers \ {m} : pc'[n] = pc[n] /\ installer'[n] = installer[n]
  BY DEF IInv, TypeOK
<1>4. Accounted(m)'
  BY <1>1 DEF IInv, TypeOK, Attended, Accounted, Progress, Rebuilding, Installing
<1>5. InOperation(m)' => Progress(m)'
  BY <1>1 DEF IInv, TypeOK, Progress, InOperation, Rebuilding,
    Installing, BackupVerified, ReplacementVerified
<1>6. Recorded'
  BY <1>1 DEF IInv, TypeOK, Recorded, RecordTruthful, Interrupted, Recoverable,
    Progress, Rebuilding, Installing, InPlace, BackupVerified, ReplacementVerified
<1> QED BY <1>1, <1>2, <1>3, <1>4, <1>5, <1>6, OwnStep

LEMMA ReapStep ==
  ASSUME IInv, NEW m \in Managers, Reap(m)
  PROVE  IInv'
<1> USE DEF Reap, Goto, End, Unsaved, Save, NoMishap, Mishap, Gone, Recourse, boundVars,
        treeVars,  managerVars
<1>1. pc[m] = "reap" /\ InOperation(m) /\ Progress(m)
  BY DEF InOperation, IInv, Tracked
<1>2. TypeOK'
  <2>1. pc' \in [Managers -> Rebuilding \cup Installing \cup {"idle", "dead"}]
    BY DEF IInv, TypeOK, Rebuilding, Installing
  <2>2. record' \in [Managers -> Entry] /\ disk' \in Entry /\ byHand' \in BOOLEAN
    BY NoEntry DEF IInv, TypeOK
  <2>3. left' \in [Managers -> 0..Commands]
    BY <1>1, ManagerAssumption DEF IInv, TypeOK, Progress
  <2>4. installer' \in [Managers -> {"none", "alive", "lost", "killed"}]
    BY DEF IInv, TypeOK
  <2>5. venv' \in 0..MaxDirs /\ made' \in 0..MaxDirs
    BY <1>1, ManagerAssumption DEF IInv, TypeOK, Progress
  <2>6. /\ backups' \subseteq Dirs /\ kept' \subseteq Dirs
        /\ formed' \subseteq Dirs /\ verified' \subseteq Dirs /\ strays' \subseteq Dirs
    <3>1. venv # 0 => venv \in Dirs BY DEF IInv, TypeOK, Dirs
    <3> QED BY <1>1, <3>1 DEF IInv, TypeOK, Progress
  <2>7. mishaps' \in 0..MaxMishaps /\ crashes' \in 0..MaxCrashes /\ moves' \in 0..MaxMoves
    BY ManagerAssumption DEF IInv, TypeOK
  <2> QED BY <2>1, <2>2, <2>3, <2>4, <2>5, <2>6, <2>7 DEF TypeOK
<1>3. \A n \in Managers \ {m} : pc'[n] = pc[n] /\ installer'[n] = installer[n]
  BY DEF IInv, TypeOK
<1>4. Accounted(m)'
  BY <1>1 DEF IInv, TypeOK, Attended, Accounted, Progress, Rebuilding, Installing
<1>5. InOperation(m)' => Progress(m)'
  BY <1>1 DEF IInv, TypeOK, Progress, InOperation, Rebuilding,
    Installing, BackupVerified, ReplacementVerified
<1>6. Recorded'
  BY <1>1 DEF IInv, TypeOK, Recorded, RecordTruthful, Interrupted, Recoverable,
    Progress, Rebuilding, Installing, InPlace, BackupVerified, ReplacementVerified
<1> QED BY <1>1, <1>2, <1>3, <1>4, <1>5, <1>6, OwnStep

LEMMA UndoStep ==
  ASSUME IInv, NEW m \in Managers, Undo(m)
  PROVE  IInv'
<1> USE DEF Undo, Goto, End, Unsaved, Save, NoMishap, Mishap, Gone, Recourse, boundVars,
        treeVars,  managerVars
<1>1. pc[m] = "undo" /\ InOperation(m) /\ Progress(m)
  BY DEF InOperation, IInv, Tracked
<1>2. TypeOK'
  <2>1. pc' \in [Managers -> Rebuilding \cup Installing \cup {"idle", "dead"}]
    BY DEF IInv, TypeOK, Rebuilding, Installing
  <2>2. record' \in [Managers -> Entry] /\ disk' \in Entry /\ byHand' \in BOOLEAN
    BY NoEntry DEF IInv, TypeOK
  <2>3. left' \in [Managers -> 0..Commands]
    BY <1>1, ManagerAssumption DEF IInv, TypeOK, Progress
  <2>4. installer' \in [Managers -> {"none", "alive", "lost", "killed"}]
    BY DEF IInv, TypeOK
  <2>5. venv' \in 0..MaxDirs /\ made' \in 0..MaxDirs
    BY <1>1, ManagerAssumption DEF IInv, TypeOK, Progress
  <2>6. /\ backups' \subseteq Dirs /\ kept' \subseteq Dirs
        /\ formed' \subseteq Dirs /\ verified' \subseteq Dirs /\ strays' \subseteq Dirs
    <3>1. venv # 0 => venv \in Dirs BY DEF IInv, TypeOK, Dirs
    <3> QED BY <1>1, <3>1 DEF IInv, TypeOK, Progress
  <2>7. mishaps' \in 0..MaxMishaps /\ crashes' \in 0..MaxCrashes /\ moves' \in 0..MaxMoves
    BY ManagerAssumption DEF IInv, TypeOK
  <2> QED BY <2>1, <2>2, <2>3, <2>4, <2>5, <2>6, <2>7 DEF TypeOK
<1>3. \A n \in Managers \ {m} : pc'[n] = pc[n] /\ installer'[n] = installer[n]
  BY DEF IInv, TypeOK
<1>4. Accounted(m)'
  BY <1>1 DEF IInv, TypeOK, Attended, Accounted, Progress, Rebuilding, Installing
<1>5. InOperation(m)' => Progress(m)'
  BY <1>1 DEF IInv, TypeOK, Progress, InOperation, Rebuilding,
    Installing, BackupVerified, ReplacementVerified
<1>6. Recorded'
  BY <1>1 DEF IInv, TypeOK, Recorded, RecordTruthful, Interrupted, Recoverable,
    Progress, Rebuilding, Installing, InPlace, BackupVerified, ReplacementVerified
<1> QED BY <1>1, <1>2, <1>3, <1>4, <1>5, <1>6, OwnStep

LEMMA RestoreStep ==
  ASSUME IInv, NEW m \in Managers, Restore(m)
  PROVE  IInv'
<1> USE DEF Restore, Goto, End, Unsaved, Save, NoMishap, Mishap, Gone, Recourse,
        boundVars, treeVars,  managerVars
<1>1. pc[m] = "restore" /\ InOperation(m) /\ Progress(m)
  BY DEF InOperation, IInv, Tracked
<1>2. TypeOK'
  <2>1. pc' \in [Managers -> Rebuilding \cup Installing \cup {"idle", "dead"}]
    BY DEF IInv, TypeOK, Rebuilding, Installing
  <2>2. record' \in [Managers -> Entry] /\ disk' \in Entry /\ byHand' \in BOOLEAN
    BY NoEntry DEF IInv, TypeOK
  <2>3. left' \in [Managers -> 0..Commands]
    BY <1>1, ManagerAssumption DEF IInv, TypeOK, Progress
  <2>4. installer' \in [Managers -> {"none", "alive", "lost", "killed"}]
    BY DEF IInv, TypeOK
  <2>5. venv' \in 0..MaxDirs /\ made' \in 0..MaxDirs
    BY <1>1, ManagerAssumption DEF IInv, TypeOK, Entry, Progress
  <2>6. /\ backups' \subseteq Dirs /\ kept' \subseteq Dirs
        /\ formed' \subseteq Dirs /\ verified' \subseteq Dirs /\ strays' \subseteq Dirs
    <3>1. venv # 0 => venv \in Dirs BY DEF IInv, TypeOK, Dirs
    <3> QED BY <1>1, <3>1 DEF IInv, TypeOK, Progress
  <2>7. mishaps' \in 0..MaxMishaps /\ crashes' \in 0..MaxCrashes /\ moves' \in 0..MaxMoves
    BY ManagerAssumption DEF IInv, TypeOK
  <2> QED BY <2>1, <2>2, <2>3, <2>4, <2>5, <2>6, <2>7 DEF TypeOK
<1>3. \A n \in Managers \ {m} : pc'[n] = pc[n] /\ installer'[n] = installer[n]
  BY DEF IInv, TypeOK
<1>4. Accounted(m)'
  BY <1>1 DEF IInv, TypeOK, Attended, Accounted, Progress, Rebuilding, Installing
<1>5. InOperation(m)' => Progress(m)'
  BY <1>1 DEF IInv, TypeOK, Progress, InOperation, Rebuilding,
    Installing, BackupVerified, ReplacementVerified
<1>6. Recorded'
  BY <1>1 DEF IInv, TypeOK, Recorded, RecordTruthful, Interrupted, Recoverable,
    Progress, Rebuilding, Installing, InPlace, BackupVerified, ReplacementVerified
<1> QED BY <1>1, <1>2, <1>3, <1>4, <1>5, <1>6, OwnStep

\* Types a step that only ends an operation keeps, whatever it saved.
LEMMA ConcludeStep ==
  ASSUME IInv, NEW m \in Managers, NEW at, NEW status,
         status \in {"completed", "failed", "restored", "cleanup_unconfirmed"},
         at \in {"commit", "failed", "unconfirmed", "settle"},
         at = "commit" => status = "completed",
         at = "failed" => status = "failed",
         at = "unconfirmed" => status = "cleanup_unconfirmed",
         at = "settle" => status = IF record[m].old = 0 THEN "failed" ELSE "restored",
         Conclude(m, at, status)
  PROVE  IInv'
<1> DEFINE e == [record[m] EXCEPT !.status = status]
<1>1. pc[m] = at /\ InOperation(m) /\ Progress(m)
  BY DEF Conclude, InOperation, IInv, Tracked
<1>2. /\ e \in Entry /\ e.status = status /\ e.operation = record[m].operation
      /\ e.old = record[m].old /\ e.new = record[m].new
  <2>1. record[m] \in Entry BY DEF IInv, TypeOK
  <2> QED BY <2>1 DEF Entry
<1>3. /\ pc' = [pc EXCEPT ![m] = "idle"] /\ record' = [record EXCEPT ![m] = NoRecord]
      /\ left' = [left EXCEPT ![m] = 0]
      /\ UNCHANGED <<installer, venv, backups, kept, formed, verified, made, strays,
                     crashes, moves>>
  BY DEF Conclude, End, Goto, treeVars, NoMishap, Mishap, boundVars
<1>4. \/ disk' = e /\ byHand' = FALSE
      \/ disk' = disk /\ byHand' = byHand
  BY DEF Conclude, Settled, Save, Unsaved
<1>5. mishaps' \in 0..MaxMishaps
  BY ManagerAssumption DEF Conclude, NoMishap, Mishap, boundVars, IInv, TypeOK
<1> HIDE DEF e
<1>6. TypeOK'
  <2>1. disk' \in Entry /\ byHand' \in BOOLEAN BY <1>2, <1>4 DEF IInv, TypeOK
  <2>2. record' \in [Managers -> Entry] BY <1>3, NoEntry DEF IInv, TypeOK
  <2>3. left' \in [Managers -> 0..Commands] BY <1>3, ManagerAssumption DEF IInv, TypeOK
  <2>4. pc' \in [Managers -> Rebuilding \cup Installing \cup {"idle", "dead"}]
    BY <1>3 DEF IInv, TypeOK
  <2> QED BY <1>3, <1>5, <2>1, <2>2, <2>3, <2>4 DEF IInv, TypeOK
<1>7. ~InOperation(m)' BY <1>3 DEF InOperation, IInv, TypeOK
<1>8. Recorded'
  <2>1. CASE disk' = e /\ byHand' = FALSE
    <3>1. ~Interrupted'
      BY <1>2, <2>1 DEF Interrupted
    <3>2. RecordTruthful'
      BY <1>1, <1>2, <1>3, <2>1 DEF RecordTruthful, Progress, Rebuilding, Installing
    <3>3. disk'.status = "restored" => disk'.old # 0 BY <1>2, <2>1
    <3> QED BY <3>1, <3>2, <3>3 DEF Recorded
  <2>2. CASE disk' = disk /\ byHand' = byHand
    <3>1. RecordTruthful' BY <1>1, <2>2 DEF RecordTruthful, Progress
    <3>2. Interrupted' => Recoverable'
      BY <1>1, <1>3, <2>2 DEF Interrupted, Recoverable, Progress, Rebuilding, Installing,
        InPlace, BackupVerified, ReplacementVerified
    <3> QED BY <2>2, <3>1, <3>2 DEF IInv, Recorded
  <2> QED BY <1>4, <2>1, <2>2
<1>9. Accounted(m)'
  <2>1. pc'[m] = "idle" /\ installer'[m] = installer[m] BY <1>3 DEF IInv, TypeOK
  <2>2. installer[m] = "lost" => disk'.status # "completed"
    BY <1>1, <1>2, <1>4 DEF IInv, Attended, Accounted, Progress
  <2> QED BY <2>1, <2>2 DEF Accounted
<1>10. \A n \in Managers \ {m} : pc'[n] = pc[n] /\ installer'[n] = installer[n]
  BY <1>3 DEF IInv, TypeOK
<1> QED BY <1>1, <1>6, <1>7, <1>8, <1>9, <1>10, OwnStep

LEMMA EndsStep ==
  ASSUME IInv, NEW m \in Managers, Complete(m) \/ Fail(m) \/ Unconfirmed(m) \/ Settle(m)
  PROVE  IInv'
<1>1. CASE Complete(m) BY <1>1, ConcludeStep DEF Complete
<1>2. CASE Fail(m) BY <1>2, ConcludeStep DEF Fail
<1>3. CASE Unconfirmed(m) BY <1>3, ConcludeStep DEF Unconfirmed
<1>4. CASE Settle(m)
  <2> DEFINE status == IF record[m].old = 0 THEN "failed" ELSE "restored"
  <2>1. Conclude(m, "settle", status) BY <1>4 DEF Settle
  <2>2. status \in {"completed", "failed", "restored", "cleanup_unconfirmed"} OBVIOUS
  <2> QED BY <2>1, <2>2, ConcludeStep
<1> QED BY <1>1, <1>2, <1>3, <1>4

\* A manager takes the lease.
LEMMA BeginStep ==
  ASSUME IInv, NEW m \in Managers, NEW entry \in Entry,
         NEW next \in {"install", "aside", "mkdir", "undo"},
         Begin(m, entry, next), disk' = entry, byHand' \in BOOLEAN,
         entry.status = "running", entry.operation \in {"rebuild", "synchronize"},
         next = "install" => entry.operation = "synchronize" /\ venv # 0,
         next # "install" => entry.operation = "rebuild",
         next = "aside" => venv = entry.old /\ venv # 0,
         next \in {"aside", "mkdir"} => entry.new = 0 /\ made < MaxDirs,
         next = "mkdir" => entry.old = 0 /\ venv = 0,
         next = "undo" => (entry.old = 0 \/ entry.old \in backups)
                            /\ (venv = 0 \/ (entry.new # 0 /\ venv = entry.new))
  PROVE  IInv'
<1>1. /\ pc[m] = "idle" /\ LockFree /\ pc' = [pc EXCEPT ![m] = next]
      /\ record' = [record EXCEPT ![m] = entry] /\ left' = [left EXCEPT ![m] = Commands]
      /\ UNCHANGED <<installer, venv, backups, kept, formed, verified, made, strays, mishaps,
                     crashes, moves>>
  BY DEF Begin, Goto, treeVars, NoMishap, boundVars
<1>2. \A n \in Managers : ~InOperation(n) /\ installer[n] = "none"
  BY <1>1 DEF LockFree, Leased
<1>3. TypeOK'
  <2>1. pc' \in [Managers -> Rebuilding \cup Installing \cup {"idle", "dead"}]
    BY <1>1 DEF IInv, TypeOK, Rebuilding, Installing
  <2>2. left' \in [Managers -> 0..Commands] BY <1>1, ManagerAssumption DEF IInv, TypeOK
  <2>3. record' \in [Managers -> Entry] BY <1>1 DEF IInv, TypeOK
  <2> QED BY <1>1, <2>1, <2>2, <2>3 DEF IInv, TypeOK
<1>4. \A n \in Managers \ {m} : ~InOperation(n)' /\ installer'[n] = "none"
  BY <1>1, <1>2 DEF InOperation, IInv, TypeOK
<1>5. Exclusive' BY <1>4 DEF Exclusive, Leased
<1>6. Attended' BY <1>1, <1>2 DEF Attended, Accounted
<1>7. Progress(m)'
  BY <1>1, ManagerAssumption DEF IInv, TypeOK, Progress, Rebuilding, Installing, BackupVerified,
    ReplacementVerified
<1>8. Tracked' BY <1>4, <1>7 DEF Tracked
<1>9. Recorded'
  <2>1. RecordTruthful' BY DEF RecordTruthful
  <2>2. entry.operation = "rebuild" => Recoverable'
    BY <1>1 DEF Recoverable, InPlace, BackupVerified, ReplacementVerified
  <2> QED BY <2>1, <2>2 DEF Recorded, Interrupted
<1> QED BY <1>3, <1>5, <1>6, <1>8, <1>9 DEF IInv

LEMMA StartStep ==
  ASSUME IInv, NEW m \in Managers, Start(m)
  PROVE  IInv'
<1>1. CASE Synchronize(m)
  <2> DEFINE e == [operation |-> "synchronize", status |-> "running", old |-> 0, new |-> 0]
  <2>1. /\ e \in Entry /\ e.operation = "synchronize" /\ e.status = "running"
    BY ManagerAssumption DEF Entry
  <2>2. /\ Begin(m, e, "install") /\ disk' = e /\ byHand' = FALSE /\ venv \in formed
    BY <1>1 DEF Synchronize, Save
  <2>3. venv # 0 BY <2>2 DEF IInv, TypeOK, Dirs
  <2> HIDE DEF e
  <2> QED BY <2>1, <2>2, <2>3, BeginStep
<1>2. CASE Rebuild(m)
  <2> DEFINE e == [operation |-> "rebuild", status |-> "running", old |-> venv, new |-> 0]
             next == IF venv = 0 THEN "mkdir" ELSE "aside"
  <2>1. /\ e \in Entry /\ e.operation = "rebuild" /\ e.status = "running" /\ e.old = venv
        /\ e.new = 0
    BY ManagerAssumption DEF Entry, IInv, TypeOK
  <2>2. Begin(m, e, next) /\ disk' = e /\ byHand' = FALSE /\ made < MaxDirs
    BY <1>2 DEF Rebuild, Save
  <2> HIDE DEF e
  <2>3. CASE venv = 0 BY <2>1, <2>2, <2>3, BeginStep
  <2>4. CASE venv # 0 BY <2>1, <2>2, <2>4, BeginStep
  <2> QED BY <2>3, <2>4
<1>3. CASE RecoverInPlace(m)
  <2> DEFINE e == [disk EXCEPT !.status = "restored"]
  <2>1. /\ e \in Entry /\ e.status = "restored" /\ e.operation = disk.operation
        /\ e.old = disk.old /\ e.new = disk.new
    BY DEF IInv, TypeOK, Entry
  <2>2. /\ disk' = e /\ byHand' = FALSE /\ LockFree /\ venv = disk.old /\ disk.old # 0
        /\ UNCHANGED <<pc, record, left, installer, venv, backups, kept, formed, verified,
                       made, strays, mishaps, crashes, moves>>
    BY <1>3 DEF RecoverInPlace, Save, InPlace, managerVars, treeVars, NoMishap, boundVars
  <2> HIDE DEF e
  <2>3. TypeOK' /\ Exclusive' /\ Attended'
    BY <2>1, <2>2 DEF IInv, TypeOK, Exclusive, Attended, Accounted, Leased, LockFree, InOperation
  <2>4. Tracked' BY <2>2 DEF Tracked, LockFree, Leased, InOperation
  <2>5. Recorded' BY <2>1, <2>2 DEF Recorded, RecordTruthful, Interrupted
  <2> QED BY <2>3, <2>4, <2>5 DEF IInv
<1>4. CASE Recover(m)
  <2>1. /\ disk.operation = "rebuild" /\ disk.status = "running" /\ disk \in Entry
        /\ BackupVerified /\ ReplacementVerified
        /\ Begin(m, disk, "undo") /\ disk' = disk /\ byHand' = byHand /\ byHand \in BOOLEAN
    BY <1>4 DEF Recover, Interrupted, Unsaved, IInv, TypeOK
  <2> QED BY <2>1, BeginStep DEF BackupVerified, ReplacementVerified
<1> QED BY <1>1, <1>2, <1>3, <1>4 DEF Start

LEMMA OutsideStep ==
  ASSUME IInv, NEW m \in Managers, Crash(m) \/ Restart(m) \/ InstallerEnds(m)
  PROVE  IInv'
<1> USE DEF Crash, Restart, InstallerEnds, Goto, Gone, Unsaved, NoMishap, managerVars,
        treeVars, boundVars
<1>1. UNCHANGED <<disk, byHand, venv, backups, kept, formed, verified, made, strays>>
  OBVIOUS
<1>2. TypeOK'
  <2>1. pc' \in [Managers -> Rebuilding \cup Installing \cup {"idle", "dead"}]
    BY DEF IInv, TypeOK
  <2>2. record' \in [Managers -> Entry] BY NoEntry DEF IInv, TypeOK
  <2>3. left' \in [Managers -> 0..Commands] BY ManagerAssumption DEF IInv, TypeOK
  <2>4. installer' \in [Managers -> {"none", "alive", "lost", "killed"}]
    BY DEF IInv, TypeOK
  <2>5. mishaps' \in 0..MaxMishaps /\ crashes' \in 0..MaxCrashes /\ moves' \in 0..MaxMoves
    BY ManagerAssumption DEF IInv, TypeOK
  <2> QED BY <1>1, <2>1, <2>2, <2>3, <2>4, <2>5 DEF IInv, TypeOK
<1>3. \A n \in Managers : /\ InOperation(n)' => InOperation(n)
                          /\ Leased(n)' => Leased(n)
                          /\ InOperation(n)' => pc'[n] = pc[n] /\ record'[n] = record[n]
                                                  /\ left'[n] = left[n]
  BY DEF InOperation, Leased, IInv, TypeOK
<1>4. Exclusive' BY <1>3 DEF IInv, Exclusive
<1>5. Attended' BY <1>1 DEF IInv, TypeOK, Attended, Accounted, InOperation
<1>6. Tracked' BY <1>1, <1>3 DEF IInv, Tracked, Progress, BackupVerified, ReplacementVerified
<1>7. Recorded'
  BY <1>1 DEF IInv, Recorded, RecordTruthful, Interrupted, Recoverable, InPlace, BackupVerified,
    ReplacementVerified
<1> QED BY <1>2, <1>4, <1>5, <1>6, <1>7 DEF IInv

\* By hand only while the lease is free, and then nothing is promised until a save.
LEMMA OperatorStep ==
  ASSUME IInv, Operator
  PROVE  IInv'
<1> USE DEF Operator, MoveAside, PutBack, MakeOwn, Resolve, ByHand, NoMishap, managerVars,
        treeVars, boundVars
<1>1. LockFree /\ byHand' = TRUE /\ UNCHANGED <<pc, record, left, installer>>
  OBVIOUS
<1>2. TypeOK'
  <2>1. disk' \in Entry BY NoEntry DEF IInv, TypeOK
  <2>2. venv' \in 0..MaxDirs /\ made' \in 0..MaxDirs
    BY ManagerAssumption DEF IInv, TypeOK, Dirs
  <2>3. /\ backups' \subseteq Dirs /\ kept' \subseteq Dirs
        /\ formed' \subseteq Dirs /\ verified' \subseteq Dirs /\ strays' \subseteq Dirs
    <3>1. venv # 0 => venv \in Dirs BY DEF IInv, TypeOK, Dirs
    <3>2. made < MaxDirs => made + 1 \in Dirs BY ManagerAssumption DEF IInv, TypeOK, Dirs
    <3> QED BY <3>1, <3>2 DEF IInv, TypeOK
  <2>4. mishaps' \in 0..MaxMishaps /\ crashes' \in 0..MaxCrashes /\ moves' \in 0..MaxMoves
    BY ManagerAssumption DEF IInv, TypeOK
  <2> QED BY <1>1, <2>1, <2>2, <2>3, <2>4 DEF IInv, TypeOK
<1>3. \A n \in Managers : ~InOperation(n) /\ installer[n] = "none" BY <1>1 DEF LockFree, Leased
<1>4. Exclusive' /\ Attended' /\ Tracked'
  BY <1>1, <1>3 DEF Exclusive, Attended, Accounted, Tracked, Leased, InOperation
<1>5. Recorded'
  <2>1. disk' \in {disk, NoRecord} OBVIOUS
  <2> QED BY <1>1, <2>1 DEF IInv, Recorded, RecordTruthful, NoRecord
<1> QED BY <1>2, <1>4, <1>5 DEF IInv

\* A lost installer writes: its manager has nothing left to lose by it.
LEMMA StrayStep ==
  ASSUME IInv, NEW m \in Managers, LostInstallerWrites(m)
  PROVE  IInv'
<1>1. /\ installer[m] = "lost"
      /\ UNCHANGED <<pc, record, left, installer, disk, byHand, backups, kept, mishaps, crashes,
                     moves>>
  BY DEF LostInstallerWrites, managerVars, Unsaved, NoMishap, boundVars
<1>2. \/ /\ venv # 0 /\ verified' = verified \ {venv}
         /\ UNCHANGED <<venv, made, strays, formed>>
      \/ /\ venv = 0 /\ made < MaxDirs /\ made' = made + 1 /\ venv' = made + 1
         /\ strays' = strays \cup {made + 1} /\ verified' = verified
         /\ formed' \in {formed, formed \cup {made + 1}}
  BY DEF LostInstallerWrites
<1>3. TypeOK'
  <2>1. made < MaxDirs => made + 1 \in Dirs BY ManagerAssumption DEF IInv, TypeOK, Dirs
  <2>2. venv' \in 0..MaxDirs /\ made' \in 0..MaxDirs
    BY <1>2, ManagerAssumption DEF IInv, TypeOK
  <2>3. verified' \subseteq Dirs /\ formed' \subseteq Dirs /\ strays' \subseteq Dirs
    BY <1>2, <2>1 DEF IInv, TypeOK
  <2> QED BY <1>1, <2>2, <2>3 DEF IInv, TypeOK
<1>4. \A n \in Managers \ {m} : ~InOperation(n) /\ installer[n] = "none"
  BY <1>1 DEF IInv, Exclusive, Leased
<1>5. Exclusive' BY <1>1 DEF IInv, Exclusive, Leased, InOperation
<1>6. Accounted(m) /\ (InOperation(m) => Progress(m)) /\ Recorded
  BY DEF IInv, Attended, Tracked
<1>7. Attended'
  <2>1. Accounted(m)' BY <1>1, <1>2, <1>6, ManagerAssumption DEF Accounted, IInv, TypeOK
  <2> QED BY <1>1, <1>4, <2>1 DEF Attended, Accounted
<1>8. Tracked'
  <2>1. ASSUME InOperation(m) PROVE Progress(m)'
    BY <1>1, <1>2, <1>6, <2>1 DEF Accounted, InOperation, Progress, Rebuilding, Installing,
      BackupVerified, ReplacementVerified
  <2> QED BY <1>1, <1>4, <2>1 DEF Tracked, InOperation
<1>9. Recorded'
  BY <1>1, <1>2, <1>6, ManagerAssumption DEF Accounted, Recorded, RecordTruthful, Interrupted,
    Recoverable, InPlace, BackupVerified, ReplacementVerified, IInv, TypeOK
<1> QED BY <1>3, <1>5, <1>7, <1>8, <1>9 DEF IInv

LEMMA StepIInv ==
  ASSUME IInv, [Next]_vars
  PROVE  IInv'
<1>1. ASSUME NEW m \in Managers, Step(m) PROVE IInv'
  BY <1>1, AsideStep, MakeDirectoryStep, IdentifyStep, LaunchStep, InstalledStep,
    CommandFailsStep, KillStep, ReapStep, EndsStep, UndoStep, RestoreStep DEF Step
<1>2. ASSUME NEW m \in Managers,
             \/ Start(m) \/ Crash(m) \/ Restart(m)
             \/ InstallerEnds(m) \/ LostInstallerWrites(m)
      PROVE  IInv'
  BY <1>2, StartStep, OutsideStep, StrayStep
<1>3. CASE Operator BY <1>3, OperatorStep
<1>4. CASE UNCHANGED vars
  BY <1>4 DEF vars, managerVars, treeVars, boundVars, IInv, TypeOK, Exclusive, Attended,
    Accounted, Tracked, Recorded, Leased, InOperation, Progress, BackupVerified,
    ReplacementVerified, RecordTruthful, Interrupted, Recoverable, InPlace
<1> QED BY <1>1, <1>2, <1>3, <1>4 DEF Next

\* .venv changes only in steps of the manager in operation, which then has no running
\* installer but a lost one, in a lost installer's own, or by hand.
LEMMA UntouchedStep ==
  ASSUME IInv, Next, NEW n \in Managers
  PROVE  KeepsItsEnvironment(n)
<1> SUFFICES ASSUME installer[n] \in {"alive", "lost"}, venv' # venv
             PROVE  /\ installer[n] = "lost"
                    /\ pc[n] \in {"undo", "restore"} \/ venv' \in strays'
  BY DEF KeepsItsEnvironment
<1>1. Accounted(n) /\ Leased(n) BY DEF IInv, Attended, Leased
<1>2. ~Operator
  BY <1>1 DEF Operator, MoveAside, PutBack, MakeOwn, Resolve, ByHand, LockFree, treeVars
<1>3. PICK m \in Managers : \/ Step(m) \/ Start(m) \/ Crash(m) \/ Restart(m)
                             \/ InstallerEnds(m) \/ LostInstallerWrites(m)
  BY <1>2 DEF Next
<1>4. CASE LostInstallerWrites(m)
  <2>1. installer[m] = "lost" /\ m = n
    BY <1>1, <1>4 DEF LostInstallerWrites, Leased, IInv, Exclusive
  <2>2. made < MaxDirs /\ strays' = strays \cup {made + 1} /\ venv = 0 /\ venv' = made + 1
    BY <1>4 DEF LostInstallerWrites
  <2> QED BY <2>1, <2>2
<1>5. CASE Step(m)
  <2>1. InOperation(m) BY <1>5 DEF Step, Aside, MakeDirectory, Identify, Launch, Installed,
    CommandFails, Kill, Reap, Complete, Fail, Unconfirmed, Settle, Conclude, Undo, Restore,
    InOperation
  <2>2. m = n BY <1>1, <2>1 DEF IInv, Exclusive, Leased
  <2>3. Aside(m) \/ MakeDirectory(m) \/ Undo(m) \/ Restore(m)
    BY <1>5 DEF Step, Identify, Launch, Installed, CommandFails, Kill, Reap, Complete, Fail,
      Unconfirmed, Settle, Conclude, treeVars
  <2>4. pc[n] \in {"aside", "mkdir", "undo", "restore"}
    BY <2>2, <2>3 DEF Aside, MakeDirectory, Undo, Restore
  <2> QED BY <1>1, <2>4 DEF Accounted
<1>6. CASE Start(m)
  BY <1>6 DEF Start, Synchronize, Rebuild, RecoverInPlace, Recover, Begin, treeVars
<1>7. CASE Crash(m) \/ Restart(m) \/ InstallerEnds(m)
  BY <1>7 DEF Crash, Restart, InstallerEnds, treeVars
<1> QED BY <1>3, <1>4, <1>5, <1>6, <1>7

LEMMA Inductive == Spec => []IInv
<1>1. Init => IInv BY InitIInv
<1>2. IInv /\ [Next]_vars => IInv' BY StepIInv
<1> QED BY <1>1, <1>2, PTL DEF Spec

\* Every variable of the environment's managers keeps its type.
THEOREM TypeCorrect == Spec => []TypeOK
<1>1. IInv => TypeOK BY DEF IInv
<1> QED BY <1>1, Inductive, PTL

\* .venv is not moved from under a running installer, whichever managers rebuild,
\* recover or have died (the lease inherited by run_managed_command's children).
THEOREM InstallerIsSafe == Spec => LiveInstallerKeepsItsEnvironment
<1>1. IInv /\ [Next]_vars => [\A m \in Managers : KeepsItsEnvironment(m)]_vars
  BY UntouchedStep
<1> QED BY <1>1, Inductive, PTL DEF Spec, LiveInstallerKeepsItsEnvironment

\* What replace_environment() leaves behind at any step, recover_interrupted() accepts,
\* but for a new directory whose identity was never saved.
THEOREM RebuildsAreRecoverable == Spec => []InterruptedIsRecoverable
<1>1. IInv => InterruptedIsRecoverable
  BY DEF IInv, Recorded, Recoverable, InterruptedIsRecoverable
<1> QED BY <1>1, Inductive, PTL

\* The outcome a finished operation recorded is the state of the environment.
THEOREM RecordIsTrue == Spec => []RecordTruthful
<1>1. IInv => RecordTruthful BY DEF IInv, Recorded
<1> QED BY <1>1, Inductive, PTL
=============================================================================
