---------------------------- MODULE UpdateProofs ----------------------------
(***************************************************************************)
(* Proofs about the installation of updates, for any number of releases,   *)
(* checks, downloads and crashes.                                          *)
(***************************************************************************)
EXTENDS Update, TLAPS

(* The part of the state that renames touch.                               *)
Disk ==
  /\ files \in [Paths -> File \cup {None}]
  /\ writing \in [Download -> Paths \cup {None}]
  /\ \A d \in Download : writing[d] # None => files[writing[d]] # None

(* A goroutine past its first step knows its release.                      *)
CheckEntry ==
  {e \in [pc : {"idle", "query", "compare", "fetched"},
          release : Release \cup {NoHash, None}] :
     /\ e.pc = "compare" => e.release \in Release \cup {NoHash}
     /\ e.pc = "fetched" => e.release \in Release}

DownloadEntry ==
  {e \in [pc : {"idle", "start", "download", "verify", "write", "ready", "backup",
                "replace", "exec"}, release : Release \cup {None}] :
     e.pc # "idle" => e.release \in Release}

(* TypeOK, strengthened until it is inductive.                             *)
Shape ==
  /\ registry \in Release \cup {NoHash}
  /\ status \in [state : States, hash : Release \cup {NoHash}]
  /\ failed \subseteq Release
  /\ rollback \in {"idle", "restore", "clean"}
  /\ running \in Versions \cup {FirstVersion, None}
  /\ checks \in [Check -> CheckEntry]
  /\ downloads \in [Download -> DownloadEntry]
  /\ Disk

(* Shape is stronger than the type invariant.                              *)
LEMMA ShapeTypes == Shape => TypeOK
  BY DEF Shape, TypeOK, CheckEntry, DownloadEntry, Disk

(* Where a live process keeps a binary it could still run from: at its     *)
(* path, or where the update or roll-back that moved it away will find it. *)
Placed ==
  \/ files[Current] # None
  \/ rollback = "restore" /\ files[Temp] # None
  \/ files[Backup] # None /\ \E d \in Download : downloads[d].pc = "replace"

Inv == Shape /\ (Alive => Placed) /\ BinaryNeverLost

(* The three paths of the binary are different, and none is a version's.   *)
LEMMA PathFacts ==
  /\ Current \in Paths /\ Backup \in Paths /\ Temp \in Paths
  /\ Current # Backup /\ Current # Temp /\ Backup # Temp
  /\ None \notin Paths
  /\ \A r \in Release : VersionOf[r] \in Versions
  /\ \A v \in Versions : v \in Paths /\ v # Current /\ v # Backup /\ v # Temp
  /\ \A v \in Versions \cup {FirstVersion} : v # None
  BY UpdateAssumption DEF Paths, Binaries, Versions

(* A rename keeps open files attached to something that exists, and leaves *)
(* a file at its target whenever there was one to move.                    *)
LEMMA RenameKeepsDisk ==
  ASSUME Disk, NEW from \in Paths, NEW to \in Paths, from # to, Rename(from, to)
  PROVE  /\ Disk'
         /\ files[from] # None => files'[to] # None
         /\ files[from] = None => files' = files
         /\ \A p \in Paths : p # from /\ p # to => files'[p] = files[p]
         /\ \A p \in Paths : p # from /\ files[p] # None => files'[p] # None
<1>1. CASE files[from] = None
  BY <1>1 DEF Rename, Disk
<1>2. CASE files[from] # None
  <2>1. /\ files' = [files EXCEPT ![to] = files[from], ![from] = None]
        /\ writing' = [d \in Download |-> Moved(writing[d], from, to)]
    BY <1>2 DEF Rename
  <2>2. files' \in [Paths -> File \cup {None}]
    BY <2>1 DEF Disk
  <2>3. writing' \in [Download -> Paths \cup {None}]
    BY <2>1 DEF Disk, Moved
  <2>4. /\ files'[to] = files[from] /\ files'[from] = None
        /\ \A p \in Paths : p # from /\ p # to => files'[p] = files[p]
    BY <2>1 DEF Disk
  <2>5. ASSUME NEW d \in Download, writing'[d] # None
        PROVE  files'[writing'[d]] # None
    <3>1. CASE writing[d] = from
      BY <1>2, <2>1, <2>4, <3>1 DEF Moved
    <3>2. CASE writing[d] = to
      BY <2>1, <2>5, <3>2 DEF Moved
    <3>3. CASE writing[d] # from /\ writing[d] # to
      <4>1. writing'[d] = writing[d]
        BY <2>1, <3>3 DEF Moved
      <4>2. QED
        BY <2>4, <2>5, <3>3, <4>1 DEF Disk
    <3>4. QED
      BY <3>1, <3>2, <3>3
  <2>6. QED
    BY <1>2, <2>2, <2>3, <2>4, <2>5 DEF Disk
<1>3. QED
  BY <1>1, <1>2

(* Removing a file closes nothing but forgets where the writers of it are. *)
LEMMA RemovedKeepsDisk ==
  ASSUME Disk, NEW p \in Paths, Removed(p)
  PROVE  Disk' /\ \A q \in Paths \ {p} : files'[q] = files[q]
<1>1. files' \in [Paths -> File \cup {None}]
  BY DEF Removed, Disk
<1>2. writing' \in [Download -> Paths \cup {None}]
  BY DEF Removed, Disk
<1>3. \A q \in Paths \ {p} : files'[q] = files[q]
  BY DEF Removed, Disk
<1>4. ASSUME NEW d \in Download, writing'[d] # None
      PROVE  files'[writing'[d]] # None
  <2>1. writing'[d] = writing[d] /\ writing[d] # p
    BY <1>4 DEF Removed, Disk
  <2>2. QED
    BY <1>3, <1>4, <2>1 DEF Disk
<1>5. QED
  BY <1>1, <1>2, <1>3, <1>4 DEF Disk

-----------------------------------------------------------------------------
(* Every step keeps the shape of the state, and a live process its binary. *)
LEMMA InitEstablishes == Init => Inv
<1>1. ASSUME Init PROVE Disk
  BY <1>1, PathFacts DEF Init, Disk, File
<1>3. ASSUME Init PROVE Shape
  <2>1. Idle \in CheckEntry /\ Idle \in DownloadEntry
    BY DEF Idle, CheckEntry, DownloadEntry
  <2>2. QED
    BY <1>1, <1>3, <2>1 DEF Init, Shape, States
<1>4. ASSUME Init PROVE files[Current] # None
  <2>1. [version |-> FirstVersion, whole |-> TRUE] \in File
    BY DEF File
  <2>2. files[Current] = [version |-> FirstVersion, whole |-> TRUE]
    BY <1>4, PathFacts DEF Init
  <2>3. QED
    BY <2>1, <2>2, UpdateAssumption
<1>5. QED
  BY <1>3, <1>4 DEF Inv, Placed, BinaryNeverLost, Binaries

(* Steps of a check leave the disk, the downloads' files and the roll-back *)
(* alone; they only start downloads.                                       *)
LEMMA ChecksKeepInv ==
  ASSUME Inv, NEW c \in Check, BeginCheck(c) \/ CheckNow(c) \/ CheckFails(c)
  PROVE  Inv'
<1>1. PICK from \in {"idle", "query", "compare", "fetched"},
           to \in CheckEntry : CheckStep(c, from, to)
  <2>1. /\ Idle \in CheckEntry /\ At("query", None) \in CheckEntry
        /\ At("compare", registry) \in CheckEntry
    BY DEF Idle, At, CheckEntry, Inv, Shape
  <2>2. checks[c] \in CheckEntry
    BY DEF Inv, Shape
  <2>3. checks[c].pc = "compare" /\ checks[c].release \notin {NoHash, status.hash}
          => At("fetched", checks[c].release) \in CheckEntry
    BY <2>2 DEF At, CheckEntry
  <2>4. QED
    BY <2>1, <2>3 DEF BeginCheck, CheckNow, CheckFails, Query, QueryFails, NothingNew,
                FetchManifest, FetchManifestFails, NotNewer, UpdateAvailable,
                CheckStep
<1>2. UNCHANGED <<files, writing, rollback, running, registry>>
  BY <1>1 DEF CheckStep, registryVars, diskVars, processVars
<1>3. Disk'
  BY <1>2 DEF Inv, Shape, Disk
<1>4. checks' \in [Check -> CheckEntry]
  BY <1>1 DEF CheckStep, Inv, Shape
<1>5. status' \in [state : States, hash : Release \cup {NoHash}] /\ failed' = failed
  <2>1. checks[c].pc = "fetched" => checks[c].release \in Release
    BY DEF Inv, Shape, CheckEntry
  <2>2. QED
    BY <2>1 DEF Inv, Shape, BeginCheck, CheckNow, CheckFails, Query, QueryFails,
         NothingNew, FetchManifest, FetchManifestFails, NotNewer, UpdateAvailable,
         CheckStep, HashAfterCheck, States
<1>6. /\ downloads' \in [Download -> DownloadEntry]
      /\ \A d \in Download : downloads[d].pc = "replace" => downloads'[d] = downloads[d]
  <2>1. CASE downloads' = downloads
    BY <2>1 DEF Inv, Shape
  <2>2. CASE UpdateAvailable(c) /\ downloads' # downloads
    <3>1. PICK d \in Download :
            /\ downloads[d] = Idle
            /\ downloads' = [downloads EXCEPT ![d] = At("start", checks[c].release)]
      BY <2>2 DEF UpdateAvailable
    <3>2. checks[c].release \in Release
      BY <2>2 DEF UpdateAvailable, CheckStep, Inv, Shape, CheckEntry
    <3>3. At("start", checks[c].release) \in DownloadEntry
      BY <3>2 DEF At, DownloadEntry
    <3>4. downloads[d].pc # "replace"
      BY <3>1 DEF Idle
    <3>5. QED
      BY <3>1, <3>3, <3>4 DEF Inv, Shape
  <2>3. QED
    BY <2>1, <2>2 DEF BeginCheck, CheckNow, CheckFails, Query, QueryFails,
           NothingNew, FetchManifest, FetchManifestFails, NotNewer
<1>8. Shape'
  BY <1>2, <1>3, <1>4, <1>5, <1>6 DEF Inv, Shape
<1>9. (Alive => Placed)' /\ BinaryNeverLost'
  BY <1>2, <1>6 DEF Inv, Alive, Placed, BinaryNeverLost
<1>10. QED
  BY <1>8, <1>9 DEF Inv

(* A download that has not been handed to the applier changes no path of   *)
(* the binary from something to nothing.                                   *)
LEMMA DownloadsKeepInv ==
  ASSUME Inv, NEW d \in Download,
         DownloadUpdate(d) \/ DownloadFails(d) \/ WriteFails(d)
  PROVE  Inv'
<1> DEFINE v == VersionOf[downloads[d].release]
<1>1. downloads[d].release \in Release /\ v \in Versions
  <2>1. downloads[d].pc # "idle"
    BY DEF DownloadUpdate, StartDownload, Downloaded, DownloadFails, OpenFile,
           WriteFile, WriteFails, DownloadStep
  <2>2. QED
    BY <2>1, PathFacts DEF Inv, Shape, DownloadEntry
<1>2. PICK from \in {"start", "download", "verify", "write"},
           to \in DownloadEntry,
           state \in States : DownloadStep(d, from, to, state)
  <2>1. /\ Idle \in DownloadEntry
        /\ \A pc \in {"download", "verify", "write", "ready"} :
              At(pc, downloads[d].release) \in DownloadEntry
    BY <1>1 DEF Idle, At, DownloadEntry
  <2>2. QED
    BY <2>1 DEF DownloadUpdate, StartDownload, Downloaded, DownloadFails, OpenFile,
                WriteFile, WriteFails, States
<1>3. UNCHANGED <<rollback, running, registry, checks>>
  BY <1>2 DEF DownloadStep, registryVars, processVars, diskVars, DownloadUpdate,
              StartDownload, Downloaded, DownloadFails, OpenFile, WriteFile, WriteFails
<1>4. /\ downloads' \in [Download -> DownloadEntry]
      /\ \A e \in Download : downloads[e].pc = "replace" => downloads'[e] = downloads[e]
  BY <1>2 DEF DownloadStep, Inv, Shape
<1>5. status' \in [state : States, hash : Release \cup {NoHash}]
  BY <1>2 DEF DownloadStep, Inv, Shape
<1>6. failed' \subseteq Release
  BY <1>1 DEF Inv, Shape, DownloadUpdate, StartDownload, Downloaded, DownloadFails,
              OpenFile, WriteFile, WriteFails
<1>7. Disk' /\ \A p \in Paths : files[p] # None => files'[p] # None
  <2>1. CASE UNCHANGED <<files, writing>>
    BY <2>1 DEF Inv, Shape, Disk
  <2>2. CASE OpenFile(d)
    <3>1. [version |-> v, whole |-> FALSE] \in File
      BY <1>1 DEF File
    <3>2. [version |-> v, whole |-> FALSE] # None
      BY <3>1, UpdateAssumption
    <3>3. v \in Paths /\ v # None
      BY <1>1, PathFacts
    <3>4. /\ files' = [files EXCEPT ![v] = [version |-> v, whole |-> FALSE]]
          /\ writing' = [writing EXCEPT ![d] = v]
      BY <2>2 DEF OpenFile
    <3>5. files' \in [Paths -> File \cup {None}] /\ writing' \in [Download -> Paths \cup {None}]
      BY <3>1, <3>3, <3>4 DEF Inv, Shape, Disk
    <3>6. \A p \in Paths : files[p] # None => files'[p] # None
      BY <3>2, <3>3, <3>4 DEF Inv, Shape, Disk
    <3>7. files'[v] # None
      BY <3>2, <3>3, <3>4 DEF Inv, Shape, Disk
    <3>8. \A e \in Download : writing'[e] # None => files'[writing'[e]] # None
      BY <3>3, <3>4, <3>6, <3>7 DEF Inv, Shape, Disk
    <3>9. QED
      BY <3>5, <3>6, <3>8 DEF Disk
  <2>3. CASE WriteFile(d)
    <3>1. writing' = [writing EXCEPT ![d] = None]
      BY <2>3 DEF WriteFile
    <3>2. CASE writing[d] = None
      <4>1. files' = files
        BY <2>3, <3>2 DEF WriteFile
      <4>2. QED
        BY <3>1, <4>1 DEF Inv, Shape, Disk
    <3>3. CASE writing[d] # None
      <4>1. PICK whole \in BOOLEAN : files' = [files EXCEPT ![writing[d]].whole = whole]
        BY <2>3, <3>3 DEF WriteFile
      <4>2. writing[d] \in Paths /\ files[writing[d]] \in File
        BY <3>3 DEF Inv, Shape, Disk
      <4>3. [files[writing[d]] EXCEPT !.whole = whole] \in File
        BY <4>2 DEF File
      <4>4. [files[writing[d]] EXCEPT !.whole = whole] # None
        BY <4>3, UpdateAssumption
      <4>5. files' = [files EXCEPT ![writing[d]] = [files[writing[d]] EXCEPT !.whole = whole]]
        BY <4>1
      <4>6. files' \in [Paths -> File \cup {None}] /\ writing' \in [Download -> Paths \cup {None}]
        BY <3>1, <4>2, <4>3, <4>5 DEF Inv, Shape, Disk
      <4>7. \A p \in Paths : files[p] # None => files'[p] # None
        BY <4>2, <4>4, <4>5 DEF Inv, Shape, Disk
      <4>8. \A e \in Download : writing'[e] # None => files'[writing'[e]] # None
        BY <3>1, <4>7 DEF Inv, Shape, Disk
      <4>9. QED
        BY <4>6, <4>7, <4>8 DEF Disk
    <3>4. QED
      BY <3>2, <3>3
  <2>4. CASE WriteFails(d)
    BY <2>4 DEF WriteFails, diskVars, Inv, Shape, Disk
  <2>5. QED
    BY <2>1, <2>2, <2>3, <2>4 DEF DownloadUpdate, StartDownload, Downloaded,
                                  DownloadFails, diskVars
<1>8. Shape'
  BY <1>3, <1>4, <1>5, <1>6, <1>7 DEF Inv, Shape
<1>9. (Alive => Placed)' /\ BinaryNeverLost'
  BY <1>3, <1>4, <1>7, PathFacts DEF Inv, Alive, Placed, BinaryNeverLost, Binaries, Paths
<1>10. QED
  BY <1>8, <1>9 DEF Inv

(* The applier.  Whatever is missing when a step of it looks, the binary   *)
(* it moved away is still where the error path, or another goroutine's,    *)
(* finds it.                                                               *)
LEMMA AppliersKeepInv ==
  ASSUME Inv, NEW d \in Download, ApplyUpdate(d), ~Exec(d)
  PROVE  Inv'
<1>1. Alive /\ downloads[d].pc # "idle"
  BY DEF ApplyUpdate, Apply, ApplyBackup, ApplyReplace, ChmodFails, ExecFails,
         NotApplied, ApplyStep
<1>2. downloads[d].release \in Release /\ NewBinary(d) \in Versions
  BY <1>1, PathFacts DEF Inv, Shape, DownloadEntry, NewBinary
<1>3. PICK from \in {"ready", "backup", "replace", "exec"},
           to \in DownloadEntry : ApplyStep(d, from, to)
  <2>1. /\ Idle \in DownloadEntry
        /\ \A pc \in {"backup", "replace", "exec"} :
              At(pc, downloads[d].release) \in DownloadEntry
    BY <1>2 DEF Idle, At, DownloadEntry
  <2>2. QED
    BY <2>1 DEF ApplyUpdate, Apply, ApplyBackup, ApplyReplace, ChmodFails,
                ExecFails, NotApplied
<1>4. UNCHANGED <<registry, status, checks, failed, rollback>>
  BY <1>3 DEF ApplyStep, registryVars
<1>5. running' = running
  BY DEF ApplyUpdate, Apply, ApplyBackup, ApplyReplace, ChmodFails, ExecFails,
         NotApplied, processVars
<1>6. /\ downloads' \in [Download -> DownloadEntry]
      /\ \A e \in Download \ {d} : downloads'[e] = downloads[e]
  BY <1>3 DEF ApplyStep, Inv, Shape
<1>7. Disk
  BY DEF Inv, Shape
<1>8. Placed
  BY <1>1 DEF Inv
<1>9. SUFFICES Disk' /\ Placed'
  <2>1. ASSUME Disk', Placed' PROVE Shape'
    BY <1>4, <1>5, <1>6, <2>1 DEF Inv, Shape
  <2>2. ASSUME Placed' PROVE BinaryNeverLost'
    BY <2>2 DEF Placed, BinaryNeverLost, Binaries
  <2>3. QED
    BY <2>1, <2>2 DEF Inv
<1>10. CASE Apply(d) \/ NotApplied(d) \/ ExecFails(d)
  <2>1. UNCHANGED <<files, writing>>
    BY <1>10 DEF Apply, NotApplied, ExecFails
  <2>2. downloads[d].pc = "replace" => FALSE
    BY <1>10 DEF Apply, NotApplied, ExecFails, ApplyStep
  <2>3. QED
    BY <1>4, <1>6, <1>7, <1>8, <2>1, <2>2 DEF Disk, Placed
<1>11. CASE ApplyBackup(d)
  <2>1. Rename(Current, Backup)
    BY <1>11 DEF ApplyBackup
  <2>2. Disk'
    BY <1>7, <2>1, PathFacts, RenameKeepsDisk
  <2>3. CASE files[Current] = None
    <3>1. files' = files
      BY <1>7, <2>1, <2>3, PathFacts, RenameKeepsDisk
    <3>2. downloads[d].pc = "backup"
      BY <1>11 DEF ApplyBackup, ApplyStep
    <3>3. QED
      BY <1>4, <1>6, <1>8, <2>2, <3>1, <3>2 DEF Placed
  <2>4. CASE files[Current] # None
    <3>1. files'[Backup] # None
      BY <1>7, <2>1, <2>4, PathFacts, RenameKeepsDisk
    <3>2. downloads'[d].pc = "replace"
      BY <1>11, <2>4 DEF ApplyBackup, ApplyStep, At, Inv, Shape
    <3>3. QED
      BY <2>2, <3>1, <3>2 DEF Placed
  <2>5. QED
    BY <2>3, <2>4
<1>12. CASE ApplyReplace(d) /\ files[NewBinary(d)] # None
  <2>1. Rename(NewBinary(d), Current)
    BY <1>12 DEF ApplyReplace
  <2>2. Disk' /\ files'[Current] # None
    BY <1>2, <1>7, <1>12, <2>1, PathFacts, RenameKeepsDisk
  <2>3. QED
    BY <2>2 DEF Placed
<1>13. CASE (ApplyReplace(d) /\ files[NewBinary(d)] = None) \/ ChmodFails(d)
  <2>1. Rename(Backup, Current)
    BY <1>13 DEF ApplyReplace, ChmodFails, RestoreBackup
  <2>2. Disk'
    BY <1>7, <2>1, PathFacts, RenameKeepsDisk
  <2>3. CASE files[Backup] # None
    <3>1. files'[Current] # None
      BY <1>7, <2>1, <2>3, PathFacts, RenameKeepsDisk
    <3>2. QED
      BY <2>2, <3>1 DEF Placed
  <2>4. CASE files[Backup] = None
    <3>1. files' = files
      BY <1>7, <2>1, <2>4, PathFacts, RenameKeepsDisk
    <3>2. QED
      BY <1>4, <1>8, <2>2, <2>4, <3>1 DEF Placed
  <2>5. QED
    BY <2>3, <2>4
<1>14. QED
  BY <1>10, <1>11, <1>12, <1>13 DEF ApplyUpdate

(* The roll-back: its restoring step finds either the backup or what its   *)
(* first step put aside.                                                   *)
LEMMA RollbackKeepsInv ==
  ASSUME Inv, BeginRollback \/ RollbackRestore \/ RollbackClean
  PROVE  Inv'
<1>1. Alive /\ UNCHANGED <<registry, status, checks, downloads, failed, running>>
  BY DEF BeginRollback, RollbackRestore, RollbackClean, RollbackStep, registryVars,
         processVars
<1>2. rollback' \in {"idle", "restore", "clean"}
  BY DEF BeginRollback, RollbackRestore, RollbackClean, RollbackStep
<1>3. Disk /\ Placed
  BY <1>1 DEF Inv, Shape
<1>4. SUFFICES Disk' /\ Placed'
  <2>1. ASSUME Disk' PROVE Shape'
    BY <1>1, <1>2, <2>1 DEF Inv, Shape
  <2>2. ASSUME Placed' PROVE BinaryNeverLost'
    BY <2>2 DEF Placed, BinaryNeverLost, Binaries
  <2>3. QED
    BY <2>1, <2>2 DEF Inv
<1>5. CASE BeginRollback
  <2>1. Rename(Current, Temp) /\ files[Current] # None /\ rollback' = "restore"
    BY <1>5 DEF BeginRollback, RollbackStep
  <2>2. Disk' /\ files'[Temp] # None
    BY <1>3, <2>1, PathFacts, RenameKeepsDisk
  <2>3. QED
    BY <2>1, <2>2 DEF Placed
<1>6. CASE RollbackRestore /\ files[Backup] = None
  <2>1. Rename(Temp, Current)
    BY <1>6 DEF RollbackRestore
  <2>2. Disk' /\ (files[Temp] # None => files'[Current] # None)
              /\ (files[Temp] = None => files' = files)
    BY <1>3, <2>1, PathFacts, RenameKeepsDisk
  <2>3. files[Current] # None \/ files[Temp] # None
    BY <1>3, <1>6 DEF Placed
  <2>4. QED
    BY <2>2, <2>3 DEF Placed
<1>7. CASE RollbackRestore /\ files[Backup] # None
  <2>1. Rename(Backup, Current)
    BY <1>7 DEF RollbackRestore
  <2>2. Disk' /\ files'[Current] # None
    BY <1>3, <1>7, <2>1, PathFacts, RenameKeepsDisk
  <2>3. QED
    BY <2>2 DEF Placed
<1>8. CASE RollbackClean
  <2>1. Removed(Temp) /\ rollback = "clean"
    BY <1>8 DEF RollbackClean, RollbackStep
  <2>2. Disk' /\ files'[Current] = files[Current] /\ files'[Backup] = files[Backup]
    BY <1>3, <2>1, PathFacts, RemovedKeepsDisk
  <2>3. QED
    BY <1>1, <1>3, <2>1, <2>2 DEF Placed
<1>9. QED
  BY <1>5, <1>6, <1>7, <1>8

(* A new process starts from the files the old one left.                   *)
LEMMA FreshKeepsInv ==
  ASSUME Inv, NEW version \in Versions \cup {FirstVersion, None}, Fresh(version),
         version # None => files[Current] # None
  PROVE  Inv'
<1>1. Idle \in CheckEntry /\ Idle \in DownloadEntry
  BY DEF Idle, CheckEntry, DownloadEntry
<1>2. Disk'
  BY DEF Inv, Shape, Disk, Fresh
<1>3. Shape'
  BY <1>1, <1>2 DEF Inv, Shape, Fresh, States, registryVars
<1>4. (Alive => Placed)' /\ BinaryNeverLost'
  BY DEF Inv, Fresh, Alive, Placed, BinaryNeverLost
<1>5. QED
  BY <1>3, <1>4 DEF Inv

(* Every step of the specification keeps the invariant.                    *)
LEMMA NextKeepsInv == Inv /\ [Next]_vars => Inv'
<1> SUFFICES ASSUME Inv, [Next]_vars PROVE Inv'
  OBVIOUS
<1>1. CASE UNCHANGED vars
  BY <1>1 DEF vars, registryVars, checkerVars, diskVars, processVars, Inv, Shape,
              Disk, Alive, Placed, BinaryNeverLost
<1>2. ASSUME NEW r \in Release, SetManifest(r) PROVE Inv'
  BY <1>2 DEF SetManifest, checkerVars, diskVars, processVars, Inv, Shape, Disk,
              Alive, Placed, BinaryNeverLost
<1>3. ASSUME NEW c \in Check, BeginCheck(c) \/ CheckNow(c) \/ CheckFails(c) PROVE Inv'
  BY <1>3, ChecksKeepInv
<1>4. ASSUME NEW d \in Download, DownloadUpdate(d) \/ DownloadFails(d) \/ WriteFails(d)
      PROVE  Inv'
  BY <1>4, DownloadsKeepInv
<1>5. files[Current] # None => files[Current].version \in Versions \cup {FirstVersion}
  BY PathFacts DEF Inv, Shape, Disk, File
<1>6. ASSUME NEW d \in Download, ApplyUpdate(d) PROVE Inv'
  <2>1. CASE Exec(d)
    BY <1>5, <2>1, FreshKeepsInv DEF Exec, Executable
  <2>2. QED
    BY <1>6, <2>1, AppliersKeepInv
<1>7. CASE BeginRollback \/ RollbackRestore \/ RollbackClean
  BY <1>7, RollbackKeepsInv
<1>8. ASSUME NEW v \in Versions, CleanupOldVersions(v) PROVE Inv'
  <2>1. /\ Removed(v)
        /\ UNCHANGED <<registry, status, checks, downloads, failed, rollback, running>>
    BY <1>8 DEF CleanupOldVersions, registryVars, processVars
  <2>2. /\ Disk' /\ files'[Current] = files[Current]
        /\ files'[Backup] = files[Backup] /\ files'[Temp] = files[Temp]
    BY <2>1, PathFacts, RemovedKeepsDisk DEF Inv, Shape
  <2>3. Shape'
    BY <2>1, <2>2 DEF Inv, Shape
  <2>4. (Alive => Placed)' /\ BinaryNeverLost'
    BY <2>1, <2>2 DEF Inv, Alive, Placed, BinaryNeverLost, Binaries
  <2>5. QED
    BY <2>3, <2>4 DEF Inv
<1>9. CASE Crash
  BY <1>9, FreshKeepsInv DEF Crash
<1>10. CASE Restart
  BY <1>5, <1>10, FreshKeepsInv DEF Restart
<1>11. QED
  BY <1>1, <1>2, <1>3, <1>4, <1>6, <1>7, <1>8, <1>9, <1>10 DEF Next

(* The invariant holds in every reachable state.                           *)
LEMMA AlwaysInv == Spec => []Inv
  BY InitEstablishes, NextKeepsInv, PTL DEF Spec

(* The state of the checker and the applier keeps its type.                *)
THEOREM TypeCorrect == Spec => []TypeOK
<1>1. Inv => TypeOK
  BY ShapeTypes DEF Inv
<1>2. QED
  BY <1>1, AlwaysInv, PTL

(* No interleaving of updates, roll-backs, clean-ups and crashes leaves    *)
(* the node without any binary, however many downloads are being applied.  *)
THEOREM BinarySurvives == Spec => []BinaryNeverLost
<1>1. Inv => BinaryNeverLost
  BY DEF Inv
<1>2. QED
  BY <1>1, AlwaysInv, PTL

(* When no update and no roll-back is between its renames, a live process  *)
(* has its binary in place, whatever errors ended the earlier ones.        *)
THEOREM AlwaysEndsInPlace == Spec => []EndsWithBinaryInPlace
<1>1. Inv => EndsWithBinaryInPlace
  BY DEF Inv, EndsWithBinaryInPlace, Placed
<1>2. QED
  BY <1>1, AlwaysInv, PTL
=============================================================================
