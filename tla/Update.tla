------------------------------- MODULE Update -------------------------------
(***************************************************************************)
(* update/: the checker that asks the registry contract for the current    *)
(* manifest, the downloads it starts, and the applier that installs a      *)
(* downloaded binary and restarts.  Checks run in checkLoop and, one       *)
(* goroutine each, for every POST /update/check; each download runs in a   *)
(* goroutine of its own.  Steps under c.mu, system calls and answers of    *)
(* the network are atomic; everything else interleaves.                    *)
(*                                                                         *)
(* A manifest is known by its hash, a release; the version it announces    *)
(* and whether it has a binary for this platform are constants of it.  A   *)
(* file is whole or truncated: os.WriteFile truncates, then writes.  The   *)
(* applier is the one for Unix.                                            *)
(***************************************************************************)
EXTENDS Integers

CONSTANTS Release,       \* manifest hashes
          VersionOf,     \* the version each manifest announces
          Supported,     \* releases with a binary for this platform
          NoHash,        \* the zero hash
          Check,         \* goroutines that run CheckNow
          Download,      \* goroutines that run DownloadUpdate
          MaxManifests,  \* bound: manifests published
          MaxCrashes,    \* bound: crashes of the process
          Current,       \* the path of the binary
          Backup, Temp,  \* the same with ".backup", ".temp" appended
          None           \* no file, no release

FirstVersion == 0        \* the version the node starts with

Versions == {VersionOf[r] : r \in Release}
Binaries == {Current, Backup, Temp}
Paths == Binaries \cup Versions

File == [version : Versions \cup {FirstVersion}, whole : BOOLEAN]

ASSUME UpdateAssumption ==
  /\ VersionOf \in [Release -> Nat]
  /\ Supported \subseteq Release
  /\ NoHash \notin Release
  /\ None \notin File /\ None \notin Release
  /\ None \notin Paths \cup {FirstVersion}
  /\ Current # Backup /\ Current # Temp /\ Backup # Temp
  /\ Binaries \cap Versions = {}
  /\ MaxManifests \in Nat /\ MaxCrashes \in Nat

VARIABLES registry,   \* manifestHash of the contract
          published,  \* how often it was set
          status,     \* c.status: State, ManifestHash
          checks,     \* CheckNow by goroutine: where it is, the hash it read
          downloads,  \* DownloadUpdate by goroutine: where it is, the release
          writing,    \* the file a download has open for writing
          failed,     \* releases this process failed to download
          files,      \* what is on disk
          rollback,   \* where Rollback is
          running,    \* the version of the running process, None after a crash
          crashes     \* crashes so far

checkerVars == <<status, checks, downloads, writing, failed>>
diskVars == <<files, rollback>>
processVars == <<running, crashes>>
registryVars == <<registry, published>>
vars == <<registryVars, checkerVars, diskVars, processVars>>

Idle == [pc |-> "idle", release |-> None]

Init ==
  /\ registry = NoHash
  /\ published = 0
  /\ status = [state |-> "idle", hash |-> NoHash]
  /\ checks = [c \in Check |-> Idle]
  /\ downloads = [d \in Download |-> Idle]
  /\ writing = [d \in Download |-> None]
  /\ failed = {}
  /\ files = [p \in Paths |-> IF p = Current
                              THEN [version |-> FirstVersion, whole |-> TRUE]
                              ELSE None]
  /\ rollback = "idle"
  /\ running = FirstVersion
  /\ crashes = 0

Alive == running # None

(* setManifest of contracts/ZeamRegistry.sol, by its owner.                *)
SetManifest(r) ==
  /\ published < MaxManifests
  /\ registry' = r
  /\ published' = published + 1
  /\ UNCHANGED <<checkerVars, diskVars, processVars>>

-----------------------------------------------------------------------------
(* CheckNow.                                                               *)
CheckStep(c, from, to) ==
  /\ Alive
  /\ checks[c].pc = from
  /\ checks' = [checks EXCEPT ![c] = to]
  /\ UNCHANGED <<registryVars, writing, diskVars, processVars>>

At(pc, r) == [pc |-> pc, release |-> r]

BeginCheck(c) ==
  /\ CheckStep(c, "idle", At("query", None))
  /\ status' = [status EXCEPT !.state = "checking"]
  /\ UNCHANGED <<downloads, failed>>

(* GetManifestHash answers, or fails.                                      *)
Query(c) ==
  /\ CheckStep(c, "query", At("compare", registry))
  /\ UNCHANGED <<status, downloads, failed>>

QueryFails(c) ==
  /\ CheckStep(c, "query", Idle)
  /\ status' = [status EXCEPT !.state = "failed"]
  /\ UNCHANGED <<downloads, failed>>

(* Nothing published, or the manifest the checker knows.                   *)
NothingNew(c) ==
  /\ checks[c].release \in {NoHash, status.hash}
  /\ CheckStep(c, "compare", Idle)
  /\ status' = [status EXCEPT !.state = "idle"]
  /\ UNCHANGED <<downloads, failed>>

FetchManifest(c) ==
  /\ checks[c].release \notin {NoHash, status.hash}
  /\ CheckStep(c, "compare", At("fetched", checks[c].release))
  /\ UNCHANGED <<status, downloads, failed>>

FetchManifestFails(c) ==
  /\ checks[c].release \notin {NoHash, status.hash}
  /\ CheckStep(c, "compare", Idle)
  /\ status' = [status EXCEPT !.state = "failed"]
  /\ UNCHANGED <<downloads, failed>>

(* Mutant: an update must be two versions ahead.                           *)
IsMuchNewer(r) == VersionOf[r] > running + 1

IsNewerVersion(r) == VersionOf[r] > running

(* The hash is recorded before the download that it announces.             *)
HashAfterCheck(r) == r

NotNewer(c) ==
  LET r == checks[c].release
  IN  /\ CheckStep(c, "fetched", Idle)
      /\ ~IsNewerVersion(r)
      /\ status' = [state |-> "idle", hash |-> HashAfterCheck(r)]
      /\ UNCHANGED <<downloads, failed>>

(* AutoUpdate: a download is started.  Without a binary for the platform   *)
(* it returns at once, and leaves the state as it is.                      *)
UpdateAvailable(c) ==
  LET r == checks[c].release
  IN  /\ CheckStep(c, "fetched", Idle)
      /\ IsNewerVersion(r)
      /\ status' = [state |-> "idle", hash |-> HashAfterCheck(r)]
      /\ \/ /\ r \in Supported
            /\ \E d \in Download :
                  /\ downloads[d] = Idle
                  /\ downloads' = [downloads EXCEPT ![d] = At("start", r)]
         \/ r \notin Supported /\ UNCHANGED downloads
      /\ UNCHANGED failed

-----------------------------------------------------------------------------
(* DownloadUpdate.                                                         *)
DownloadStep(d, from, to, state) ==
  /\ Alive
  /\ downloads[d].pc = from
  /\ downloads' = [downloads EXCEPT ![d] = to]
  /\ status' = [status EXCEPT !.state = state]
  /\ UNCHANGED <<registryVars, checks, processVars>>

StartDownload(d) ==
  /\ DownloadStep(d, "start", At("download", downloads[d].release), "downloading")
  /\ UNCHANGED <<writing, failed, diskVars>>

Downloaded(d) ==
  /\ DownloadStep(d, "download", At("verify", downloads[d].release), "verifying")
  /\ UNCHANGED <<writing, failed, diskVars>>

(* The network failed, the hash does not match (that of no data, when a    *)
(* content:// fetch failed), the directory or the file cannot be created:  *)
(* setError, and the goroutine ends.                                       *)
DownloadFails(d) ==
  /\ downloads[d].pc \in {"download", "verify"}
  /\ DownloadStep(d, downloads[d].pc, Idle, "failed")
  /\ failed' = failed \cup {downloads[d].release}
  /\ UNCHANGED <<writing, diskVars>>

(* The hash matched and WriteFile truncates what is at the path.           *)
OpenFile(d) ==
  LET v == VersionOf[downloads[d].release]
  IN  /\ DownloadStep(d, "verify", At("write", downloads[d].release), "verifying")
      /\ files' = [files EXCEPT ![v] = [version |-> v, whole |-> FALSE]]
      /\ writing' = [writing EXCEPT ![d] = v]
      /\ UNCHANGED <<failed, rollback>>

(* The data goes to the file that was opened, wherever it has been renamed *)
(* to.  It is whole then, unless another download truncated it meanwhile.  *)
WriteFile(d) ==
  /\ DownloadStep(d, "write", At("ready", downloads[d].release), "ready")
  /\ \E whole \in IF \E e \in Download \ {d} : writing[e] = writing[d]
                   THEN BOOLEAN ELSE {TRUE} :
        files' = IF writing[d] = None THEN files
                 ELSE [files EXCEPT ![writing[d]].whole = whole]
  /\ writing' = [writing EXCEPT ![d] = None]
  /\ UNCHANGED <<failed, rollback>>

WriteFails(d) ==
  /\ DownloadStep(d, "write", Idle, "failed")
  /\ failed' = failed \cup {downloads[d].release}
  /\ writing' = [writing EXCEPT ![d] = None]
  /\ UNCHANGED diskVars

-----------------------------------------------------------------------------
(* The applier, called by OnUpdateReady in the goroutine of the download.  *)
(* A rename fails, and is skipped, when its source is missing; it takes    *)
(* open files along.                                                       *)
Moved(p, from, to) == IF p = from THEN to ELSE IF p = to THEN None ELSE p

Rename(from, to) ==
  IF files[from] = None THEN UNCHANGED <<files, writing>>
  ELSE /\ files' = [files EXCEPT ![to] = files[from], ![from] = None]
       /\ writing' = [d \in Download |-> Moved(writing[d], from, to)]

Removed(p) ==
  /\ files' = [files EXCEPT ![p] = None]
  /\ writing' = [d \in Download |-> IF writing[d] = p THEN None ELSE writing[d]]

ApplyStep(d, from, to) ==
  /\ Alive
  /\ downloads[d].pc = from
  /\ downloads' = [downloads EXCEPT ![d] = to]
  /\ UNCHANGED <<registryVars, status, checks, failed, rollback>>

NewBinary(d) == VersionOf[downloads[d].release]

(* Without OnUpdateReady, or when one of the two files is missing.         *)
NotApplied(d) ==
  /\ ApplyStep(d, "ready", Idle)
  /\ UNCHANGED <<files, writing, processVars>>

Apply(d) ==
  /\ ApplyStep(d, "ready", At("backup", downloads[d].release))
  /\ files[Current] # None
  /\ files[NewBinary(d)] # None
  /\ UNCHANGED <<files, writing, processVars>>

ApplyBackup(d) ==
  /\ ApplyStep(d, "backup", IF files[Current] = None THEN Idle
                            ELSE At("replace", downloads[d].release))
  /\ Rename(Current, Backup)
  /\ UNCHANGED processVars

(* Mutants: the error path forgets the backup, or deletes it.              *)
NothingRestored == UNCHANGED <<files, writing>>
BackupDeleted == Removed(Backup)

RestoreBackup == Rename(Backup, Current)

ApplyReplace(d) ==
  /\ downloads[d].pc = "replace"
  /\ IF files[NewBinary(d)] = None
     THEN ApplyStep(d, "replace", Idle) /\ RestoreBackup
     ELSE /\ ApplyStep(d, "replace", At("exec", downloads[d].release))
          /\ Rename(NewBinary(d), Current)
  /\ UNCHANGED processVars

(* Chmod fails when the binary is gone again.  Exec fails on a file that   *)
(* is truncated or still open for writing.                                 *)
ChmodFails(d) ==
  /\ files[Current] = None
  /\ ApplyStep(d, "exec", Idle)
  /\ RestoreBackup
  /\ UNCHANGED processVars

Executable == /\ files[Current] # None
              /\ files[Current].whole
              /\ \A d \in Download : writing[d] # Current

ExecFails(d) ==
  /\ files[Current] # None
  /\ ~Executable
  /\ ApplyStep(d, "exec", Idle)
  /\ UNCHANGED <<files, writing, processVars>>

(* A new process: nothing of the old one's memory is left.                 *)
Fresh(version) ==
  /\ running' = version
  /\ status' = [state |-> "idle", hash |-> NoHash]
  /\ checks' = [c \in Check |-> Idle]
  /\ downloads' = [d \in Download |-> Idle]
  /\ writing' = [d \in Download |-> None]
  /\ rollback' = "idle"
  /\ failed' = {}
  /\ UNCHANGED <<registryVars, files>>

Exec(d) ==
  /\ Alive
  /\ downloads[d].pc = "exec"
  /\ Executable
  /\ Fresh(files[Current].version)
  /\ UNCHANGED crashes

RollbackStep(from, to) ==
  /\ Alive
  /\ rollback = from
  /\ rollback' = to
  /\ UNCHANGED <<registryVars, status, checks, downloads, failed, processVars>>

BeginRollback ==
  /\ files[Backup] # None
  /\ files[Current] # None
  /\ RollbackStep("idle", "restore")
  /\ Rename(Current, Temp)

RollbackRestore ==
  IF files[Backup] = None
  THEN RollbackStep("restore", "idle") /\ Rename(Temp, Current)
  ELSE RollbackStep("restore", "clean") /\ Rename(Backup, Current)

RollbackClean == RollbackStep("clean", "idle") /\ Removed(Temp)

(* CleanupOldVersions removes the directory of a version.                  *)
CleanupOldVersions(v) ==
  /\ Alive
  /\ Removed(v)
  /\ UNCHANGED <<registryVars, status, checks, downloads, failed, rollback,
                 processVars>>

-----------------------------------------------------------------------------
Crash ==
  /\ Alive
  /\ crashes < MaxCrashes
  /\ crashes' = crashes + 1
  /\ Fresh(None)

Restart ==
  /\ ~Alive
  /\ files[Current] # None /\ files[Current].whole
  /\ Fresh(files[Current].version)
  /\ UNCHANGED crashes

CheckNow(c) ==
  \/ Query(c) \/ NothingNew(c) \/ FetchManifest(c)
  \/ NotNewer(c) \/ UpdateAvailable(c)

CheckFails(c) == QueryFails(c) \/ FetchManifestFails(c)

DownloadUpdate(d) ==
  StartDownload(d) \/ Downloaded(d) \/ OpenFile(d) \/ WriteFile(d)

ApplyUpdate(d) ==
  \/ Apply(d) \/ ApplyBackup(d) \/ ApplyReplace(d) \/ ChmodFails(d)
  \/ ExecFails(d) \/ Exec(d) \/ NotApplied(d)

Next ==
  \/ \E r \in Release : SetManifest(r)
  \/ \E c \in Check : BeginCheck(c) \/ CheckNow(c) \/ CheckFails(c)
  \/ \E d \in Download :
        DownloadUpdate(d) \/ DownloadFails(d) \/ WriteFails(d) \/ ApplyUpdate(d)
  \/ BeginRollback \/ RollbackRestore \/ RollbackClean
  \/ \E v \in Versions : CleanupOldVersions(v)
  \/ Crash \/ Restart

Spec == Init /\ [][Next]_vars

(* The ticker of checkLoop keeps starting checks, goroutines run, and the  *)
(* network, asked again and again, answers now and then.                   *)
Fairness ==
  /\ WF_vars(\E c \in Check : BeginCheck(c))
  /\ \A c \in Check : /\ WF_vars(CheckNow(c))
                      /\ SF_vars(Query(c))
                      /\ SF_vars(FetchManifest(c))
  /\ \A d \in Download : /\ WF_vars(DownloadUpdate(d))
                         /\ WF_vars(ApplyUpdate(d))

FairSpec == Spec /\ Fairness

-----------------------------------------------------------------------------
States == {"idle", "checking", "downloading", "verifying", "ready", "failed"}

TypeOK ==
  /\ registry \in Release \cup {NoHash}
  /\ status \in [state : States, hash : Release \cup {NoHash}]
  /\ checks \in [Check -> [pc : {"idle", "query", "compare", "fetched"},
                           release : Release \cup {NoHash, None}]]
  /\ downloads \in [Download ->
        [pc : {"idle", "start", "download", "verify", "write", "ready", "backup",
               "replace", "exec"}, release : Release \cup {None}]]
  /\ writing \in [Download -> Paths \cup {None}]
  /\ failed \subseteq Release
  /\ files \in [Paths -> File \cup {None}]
  /\ rollback \in {"idle", "restore", "clean"}
  /\ running \in Versions \cup {FirstVersion, None}

(* Whatever updates, roll-backs and clean-ups interleave and wherever the  *)
(* process crashes, one of the three paths of the binary holds a file.     *)
BinaryNeverLost == \E p \in Binaries : files[p] # None

(* Every way an update or a roll-back can end, errors included, leaves a   *)
(* binary at its own path while the process lives.                         *)
EndsWithBinaryInPlace ==
  (/\ Alive
   /\ rollback = "idle"
   /\ \A d \in Download : downloads[d].pc \notin {"replace", "exec"})
  => files[Current] # None

(* A manifest with a newer version for this platform that the checker has  *)
(* not seen is downloaded to the end or its download fails, unless the     *)
(* registry moves on, the process dies or the version is reached           *)
(* otherwise: concurrent checks that write each other's old hash into the  *)
(* status, and crashes at any point, do not make the node miss it.         *)
ReleaseNotMissed ==
  \A r \in Supported :
     (Alive /\ registry = r /\ status.hash # r /\ running < VersionOf[r])
       ~> \/ \E d \in Download : downloads[d] = At("ready", r)
          \/ r \in failed
          \/ registry # r
          \/ ~Alive
          \/ running # None /\ running >= VersionOf[r]
=============================================================================
