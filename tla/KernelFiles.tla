----------------------------- MODULE KernelFiles ----------------------------
(***************************************************************************)
(* The files of a kernel update (src-tauri/src/kernel_updater.rs): the     *)
(* cache of downloaded archives and unpacked versions, the core directory, *)
(* and the backups that install makes before it copies a version over the  *)
(* core directory file by file.                                            *)
(*                                                                         *)
(* The service and the GUI (in compatibility mode) run the same functions  *)
(* and differ in what they throw away when an update does not succeed.     *)
(* The updates here are one at a time.                                     *)
(***************************************************************************)
EXTENDS Naturals, FiniteSets

CONSTANTS
    Files,          \* the files of a core: programs, libraries and drivers
    Programs,       \* easytier-core.exe and easytier-cli.exe
    Versions,       \* versions of the core
    Releases,       \* those that can be downloaded
    NoFile,         \* there is no such file
    TornFile,       \* a file whose content is incomplete
    Callers,        \* who runs updates: "service", "gui"
    KernelFaults,   \* what may go wrong
    MaxKept         \* bound on the backups of updates that did not succeed

KernelFaultKinds == {
    "unzip",        \* an entry of an archive is damaged, or the disk is full
    "lock",         \* a file of the core directory is in use
    "disk",         \* a copy fails, also that of a backup or of the restore
    "stop" }        \* the process that updates ends at any point

ASSUME KernelAssumption ==
    /\ Programs \subseteq Files /\ Programs # {}
    /\ Releases \subseteq Versions
    /\ NoFile # TornFile /\ {NoFile, TornFile} \cap Versions = {}
    /\ Callers \subseteq {"service", "gui"}
    /\ KernelFaults \subseteq KernelFaultKinds
    /\ MaxKept \in Nat

VARIABLES
    dir,            \* the core directory
    staged,         \* per release, the directory it is unpacked to
    zip,            \* per release, the downloaded archive
    kept,           \* the older backup directories that hold something
    bak,            \* the newest backup directory
    upd,            \* the update under way
    spoilt          \* history: a directory that is no version was installed,
                    \* or a file could not be backed up, with no whole
                    \* install since

kernelVars == <<dir, staged, zip, kept, bak, upd, spoilt>>

FileContent == Versions \cup {NoFile, TornFile}
Directory == [Files -> FileContent]
EmptyDir == [f \in Files |-> NoFile]
FilesOf(d) == {f \in Files : d[f] # NoFile}

\* A directory that holds one version, all of it.
Whole(d) == \E v \in Versions : d = [f \in Files |-> v]

UpdatePcs == {"idle", "cachedZip", "request", "download", "unzip", "staged",
              "backup", "copy", "restore"}
NoUpdate == [pc |-> "idle", ver |-> NoFile, by |-> "none", todo |-> {}, locked |-> {},
             old |-> EmptyDir, failed |-> {}]

Updates == [
    pc : UpdatePcs, ver : Releases \cup {NoFile}, by : Callers \cup {"none"},
    todo : SUBSET Files,    \* what the loop at pc has before it
    locked : SUBSET Files,  \* files in use
    old : Directory,        \* history: dir before the install
    failed : SUBSET Files]  \* history: not backed up, or not restored

KernelTypeOK ==
    /\ dir \in Directory
    /\ staged \in [Releases -> Directory]
    /\ zip \in [Releases -> {"none", "short", "full"}]
    /\ kept \subseteq Directory /\ bak \in Directory
    /\ upd \in Updates
    /\ spoilt \in BOOLEAN

KernelInit ==
    /\ \E v \in Versions : dir = [f \in Files |-> v]
    /\ staged = [v \in Releases |-> EmptyDir]
    /\ zip = [v \in Releases |-> "none"]
    /\ kept = {} /\ bak = EmptyDir
    /\ upd = NoUpdate
    /\ spoilt = FALSE

Step(pc, todo) == upd' = [upd EXCEPT !.pc = pc, !.todo = todo]
EndUpdate == upd' = NoUpdate
InstallUntouched == UNCHANGED <<dir, kept, bak, spoilt>>
CacheUntouched == UNCHANGED <<staged, zip>>

(***************************************************************************)
(* download_and_stage_with_progress: the version is taken from the cache,  *)
(* unpacked from an archive in the cache, or downloaded.                   *)
(***************************************************************************)

\* The cache holds a version when both programs exist, whatever else does.
Cached(v) == \A f \in Programs : staged[v][f] # NoFile

FromCache(v, by) ==
    /\ upd.pc = "idle" /\ Cached(v)
    /\ upd' = [NoUpdate EXCEPT !.pc = "staged", !.ver = v, !.by = by]
    /\ CacheUntouched /\ InstallUntouched

FromZip(v, by) ==
    /\ upd.pc = "idle" /\ ~Cached(v) /\ zip[v] # "none"
    /\ upd' = [NoUpdate EXCEPT !.pc = "cachedZip", !.ver = v, !.by = by,
                               !.todo = IF zip[v] = "full" THEN Files ELSE {}]
    /\ CacheUntouched /\ InstallUntouched

FromNet(v, by) ==
    /\ upd.pc = "idle" /\ ~Cached(v) /\ zip[v] = "none"
    /\ upd' = [NoUpdate EXCEPT !.pc = "request", !.ver = v, !.by = by]
    /\ CacheUntouched /\ InstallUntouched

\* The archive in the cache cannot be used.
ZipUnusable ==
    /\ upd.pc = "cachedZip" /\ zip[upd.ver] = "short"
    /\ Step("request", {})
    /\ CacheUntouched /\ InstallUntouched

\* The server does not answer; nothing has been removed yet.
RequestErr ==
    /\ upd.pc = "request"
    /\ EndUpdate
    /\ CacheUntouched /\ InstallUntouched

\* The directory of the version is removed and the archive created anew.
DownloadBegin ==
    /\ upd.pc = "request"
    /\ staged' = [staged EXCEPT ![upd.ver] = EmptyDir]
    /\ zip' = [zip EXCEPT ![upd.ver] = "short"]
    /\ Step("download", {})
    /\ InstallUntouched

DownloadDone ==
    /\ upd.pc = "download"
    /\ zip' = [zip EXCEPT ![upd.ver] = "full"]
    /\ Step("unzip", Files)
    /\ UNCHANGED staged /\ InstallUntouched

\* The connection breaks; what has arrived stays.
DownloadErr ==
    /\ upd.pc = "download"
    /\ EndUpdate
    /\ CacheUntouched /\ InstallUntouched

\* The cancel flag is seen during or right after the download.
DownloadCancelled ==
    /\ upd.pc = "download"
    /\ staged' = [staged EXCEPT ![upd.ver] = EmptyDir]
    /\ zip' = [zip EXCEPT ![upd.ver] = "none"]
    /\ EndUpdate
    /\ InstallUntouched

Unzipping == upd.pc \in {"cachedZip", "unzip"} /\ zip[upd.ver] = "full"

\* validate_archive writes one entry after another to where the cache is
\* looked for.
Unzip(f) ==
    /\ Unzipping /\ f \in upd.todo
    /\ staged' = [staged EXCEPT ![upd.ver][f] = upd.ver]
    /\ Step(upd.pc, upd.todo \ {f})
    /\ UNCHANGED zip /\ InstallUntouched

\* It fails at an entry and leaves what it has written.  After a fresh
\* download that is the end of the update.
UnzipErr(f) ==
    /\ "unzip" \in KernelFaults
    /\ upd.pc = "unzip" /\ f \in upd.todo
    /\ staged' = [staged EXCEPT ![upd.ver][f] = TornFile]
    /\ EndUpdate
    /\ UNCHANGED zip /\ InstallUntouched

\* An archive of the cache is downloaded again instead.
CachedZipErr(f) ==
    /\ "unzip" \in KernelFaults
    /\ upd.pc = "cachedZip" /\ Unzipping /\ f \in upd.todo
    /\ staged' = [staged EXCEPT ![upd.ver][f] = TornFile]
    /\ Step("request", {})
    /\ UNCHANGED zip /\ InstallUntouched

UnzipDone ==
    /\ Unzipping /\ upd.todo = {}
    /\ Step("staged", {})
    /\ CacheUntouched /\ InstallUntouched

(***************************************************************************)
(* The update is given up.                                                 *)
(***************************************************************************)

\* What the caller throws away.  The service removes the parent of the
\* staged directory.  The GUI joins the staged directory's name, which is
\* "core", to the parent of the core directory, and that is the core
\* directory itself.
Discard ==
    IF upd.by = "service"
    THEN /\ staged' = [staged EXCEPT ![upd.ver] = EmptyDir]
         /\ zip' = [zip EXCEPT ![upd.ver] = "none"]
         /\ UNCHANGED dir
    ELSE /\ \E inUse \in SUBSET Files :
              /\ "lock" \in KernelFaults \/ inUse = {}
              /\ dir' = [f \in Files |-> IF f \in inUse THEN dir[f] ELSE NoFile]
         /\ CacheUntouched

\* The cancel flag is up after staging.
Cancelled ==
    /\ upd.pc = "staged"
    /\ Discard
    /\ EndUpdate
    /\ UNCHANGED <<kept, bak, spoilt>>

\* A network cannot be stopped.  Only the service throws its files away.
StopNetworksErr ==
    /\ upd.pc = "staged"
    /\ IF upd.by = "service" THEN Discard ELSE CacheUntouched /\ UNCHANGED dir
    /\ EndUpdate
    /\ UNCHANGED <<kept, bak, spoilt>>

(***************************************************************************)
(* install.                                                                *)
(***************************************************************************)

\* Mutant: the older backups are removed before the copy.
InstallBeginPruned ==
    /\ upd.pc = "staged"
    /\ kept' = {} /\ bak' = EmptyDir
    /\ \E L \in SUBSET Files :
         /\ "lock" \in KernelFaults \/ L = {}
         /\ upd' = [upd EXCEPT !.pc = "backup", !.todo = FilesOf(dir), !.locked = L,
                               !.old = dir, !.failed = {}]
    /\ CacheUntouched /\ UNCHANGED <<dir, spoilt>>

\* A new backup directory.  `locked' are the files that are in use until the
\* end of the install.
InstallBegin ==
    /\ upd.pc = "staged" /\ Cardinality(kept) < MaxKept
    /\ kept' = (kept \cup {bak}) \ {EmptyDir} /\ bak' = EmptyDir
    /\ \E L \in SUBSET Files :
         /\ "lock" \in KernelFaults \/ L = {}
         /\ upd' = [upd EXCEPT !.pc = "backup", !.todo = FilesOf(dir), !.locked = L,
                               !.old = dir, !.failed = {}]
    /\ CacheUntouched /\ UNCHANGED <<dir, spoilt>>

BackUp(f) ==
    /\ upd.pc = "backup" /\ f \in upd.todo
    /\ bak' = [bak EXCEPT ![f] = dir[f]]
    /\ Step("backup", upd.todo \ {f})
    /\ CacheUntouched /\ UNCHANGED <<dir, kept, spoilt>>

\* Errors of the backup are ignored.
BackUpErr(f) ==
    /\ "disk" \in KernelFaults
    /\ upd.pc = "backup" /\ f \in upd.todo
    /\ bak' \in {bak, [bak EXCEPT ![f] = TornFile]}
    /\ upd' = [upd EXCEPT !.todo = @ \ {f}, !.failed = @ \cup {f}]
    /\ spoilt' = TRUE
    /\ CacheUntouched /\ UNCHANGED <<dir, kept>>

CopyBegin ==
    /\ upd.pc = "backup" /\ upd.todo = {}
    /\ Step("copy", FilesOf(staged[upd.ver]))
    /\ CacheUntouched /\ InstallUntouched

Copy(f) ==
    /\ upd.pc = "copy" /\ f \in upd.todo \ upd.locked
    /\ dir' = [dir EXCEPT ![f] = staged[upd.ver][f]]
    /\ Step("copy", upd.todo \ {f})
    /\ CacheUntouched /\ UNCHANGED <<kept, bak, spoilt>>

\* A file that stays in use, or cannot be written in full, five times over.
CannotCopy(f) ==
    /\ upd.pc = "copy" /\ f \in upd.todo
    /\ \/ f \in upd.locked /\ UNCHANGED dir
       \/ /\ "disk" \in KernelFaults /\ f \notin upd.locked
          /\ dir' \in {dir, [dir EXCEPT ![f] = TornFile]}

\* Mutant: that ends the install on the spot.
CopyErrNoRestore(f) ==
    /\ CannotCopy(f)
    /\ Step("restore", {})
    /\ CacheUntouched /\ UNCHANGED <<kept, bak, spoilt>>

\* What was copied so far is taken back from the backup.
CopyErr(f) ==
    /\ CannotCopy(f)
    /\ Step("restore", FilesOf(bak))
    /\ CacheUntouched /\ UNCHANGED <<kept, bak, spoilt>>

\* A file in use is still the old one.
Restore(f) ==
    /\ upd.pc = "restore" /\ f \in upd.todo
    /\ dir' = IF f \in upd.locked THEN dir ELSE [dir EXCEPT ![f] = bak[f]]
    /\ Step("restore", upd.todo \ {f})
    /\ CacheUntouched /\ UNCHANGED <<kept, bak, spoilt>>

\* Errors of the restore are ignored.
RestoreErr(f) ==
    /\ "disk" \in KernelFaults
    /\ upd.pc = "restore" /\ f \in upd.todo \ upd.locked
    /\ dir' \in {dir, [dir EXCEPT ![f] = TornFile]}
    /\ upd' = [upd EXCEPT !.todo = @ \ {f}, !.failed = @ \cup {f}]
    /\ CacheUntouched /\ UNCHANGED <<kept, bak, spoilt>>

\* install returns its error; the GUI then throws its files away.
InstallErr ==
    /\ upd.pc = "restore" /\ upd.todo = {}
    /\ IF upd.by = "gui" THEN Discard ELSE CacheUntouched /\ UNCHANGED dir
    /\ EndUpdate
    /\ UNCHANGED <<kept, bak, spoilt>>

\* install is done: all backups but the newest are removed.
InstallOk ==
    /\ upd.pc = "copy" /\ upd.todo = {}
    /\ kept' = {}
    /\ spoilt' = ~Whole(staged[upd.ver])
    /\ EndUpdate
    /\ CacheUntouched /\ UNCHANGED <<dir, bak>>

\* The process ends at any point.  The file that was being written may be
\* incomplete.
KernelStop ==
    /\ upd' = NoUpdate
    /\ LET torn(d) == {d} \cup {[d EXCEPT ![f] = TornFile] : f \in upd.todo}
       IN  /\ dir' \in IF upd.pc \in {"copy", "restore"} THEN torn(dir) ELSE {dir}
           /\ bak' \in IF upd.pc = "backup" THEN torn(bak) ELSE {bak}
           /\ IF Unzipping
                THEN \E d \in torn(staged[upd.ver]) :
                        staged' = [staged EXCEPT ![upd.ver] = d]
                ELSE UNCHANGED staged
    /\ UNCHANGED <<zip, kept, spoilt>>

KernelStep ==
    \/ \E v \in Releases, by \in Callers :
         FromCache(v, by) \/ FromZip(v, by) \/ FromNet(v, by)
    \/ ZipUnusable \/ RequestErr \/ DownloadBegin \/ DownloadDone \/ DownloadErr \/ DownloadCancelled
    \/ \E f \in Files : Unzip(f) \/ UnzipErr(f) \/ CachedZipErr(f)
    \/ UnzipDone
    \/ Cancelled \/ StopNetworksErr
    \/ InstallBegin \/ CopyBegin \/ InstallErr \/ InstallOk
    \/ \E f \in Files : BackUp(f) \/ BackUpErr(f) \/ Copy(f) \/ CopyErr(f) \/ Restore(f) \/ RestoreErr(f)

KernelNext == KernelStep \/ ("stop" \in KernelFaults /\ KernelStop)

KernelSpec == KernelInit /\ [][KernelNext]_kernelVars

(***************************************************************************)
(* What the updates promise.                                               *)
(***************************************************************************)

\* Wherever an update fails or stops, one whole version is in the core
\* directory or in a backup, so the core can be brought back by hand; unless
\* what was installed was no whole version, or could not be backed up.
Recoverable ==
    ~spoilt => \E d \in kept \cup {bak, dir} : Whole(d)

\* An update that fails or is cancelled leaves the core directory as it was:
\* untouched before install, and given back by install, up to the files that
\* could not be backed up or restored.
FailureKeepsCore ==
    [][upd'.pc = "idle" =>
         /\ upd.pc \notin {"copy", "restore"} => dir' = dir
         /\ upd.pc = "restore" /\ upd.todo = {} =>
              \A f \in Files \ upd.failed : dir'[f] = upd.old[f]]_kernelVars
=============================================================================
