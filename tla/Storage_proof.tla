---------------------------- MODULE Storage_proof ---------------------------
(***************************************************************************)
(* The configuration file is an atomic register, and a whole version of    *)
(* the core survives every update, for all configurations, files, versions *)
(* and combinations of faults.                                             *)
(***************************************************************************)
EXTENDS ConfigStore, KernelFiles, TLAPS

(***************************************************************************)
(* ConfigStore.                                                            *)
(***************************************************************************)

\* Only a complete file that is on the disk is renamed: without that a power
\* loss could leave a part of it under the final name.
StoreInv ==
    /\ StoreTypeOK
    /\ file # Torn /\ "file" \notin cached
    /\ step \in {"sync", "rename", "remove", "again"} => tmp = mem
    /\ step \in {"rename", "remove", "again"} => "tmp" \notin cached
    /\ step \in {"remove", "again"} => "rename" \in StoreFaults
    /\ step # "idle" => mem # Down

LEMMA StoreInvInit == StoreInit => StoreInv
BY StoreAssumption DEF StoreInit, StoreInv, StoreTypeOK, Content

LEMMA StoreInvStep == StoreInv /\ [StoreNext]_storeVars => StoreInv'
<1> SUFFICES ASSUME StoreInv, [StoreNext]_storeVars PROVE StoreInv'
    OBVIOUS
<1> USE StoreAssumption DEF StoreInv, StoreTypeOK, Content
<1>1. CASE LoadFile \/ ChangeConfig \/ SaveBegin
    BY <1>1 DEF LoadFile, ChangeConfig, SaveBegin
<1>2. CASE SaveCreate \/ SaveErr
    BY <1>2 DEF SaveCreate, SaveErr
<1>3. CASE SaveWrite
    BY <1>3 DEF SaveWrite
<1>4. CASE SaveSync
    BY <1>4 DEF SaveSync
<1>5. CASE SaveRename
    BY <1>5 DEF SaveRename
<1>6. CASE RenameRefused \/ RemoveOld \/ RenameRefusedAgain
    BY <1>6 DEF RenameRefused, RemoveOld, RenameRefusedAgain
<1>7. CASE StoreStop \/ StorePowerLoss
    BY <1>7 DEF StoreStop, StorePowerLoss
<1>8. CASE UNCHANGED storeVars
    BY <1>8 DEF storeVars
<1> QED
    BY <1>1, <1>2, <1>3, <1>4, <1>5, <1>6, <1>7, <1>8 DEF StoreNext, StoreStep

\* Every step of load and save is a step of the register, or none.
LEMMA StoreStepRefines ==
    StoreInv /\ [StoreNext]_storeVars
        => [Register!Next]_<<mem, IF file = Missing THEN Default ELSE file, step # "idle">>
<1> DEFINE stored == IF file = Missing THEN Default ELSE file
<1> SUFFICES ASSUME StoreInv, [StoreNext]_storeVars
             PROVE  [Register!Next]_<<mem, stored, step # "idle">>
    OBVIOUS
<1> USE StoreAssumption DEF StoreInv, StoreTypeOK, Content
<1>1. CASE LoadFile
    <2>1. Register!Load
        BY <1>1 DEF LoadFile, Register!Load
    <2> QED
        BY <2>1 DEF Register!Next
<1>2. CASE ChangeConfig
    <2>1. Register!Change
        BY <1>2 DEF ChangeConfig, Register!Change
    <2> QED
        BY <2>1 DEF Register!Next
<1>3. CASE SaveBegin
    <2>1. Register!Begin
        BY <1>3 DEF SaveBegin, Register!Begin
    <2> QED
        BY <2>1 DEF Register!Next
<1>4. CASE SaveCreate \/ SaveWrite \/ SaveSync \/ RenameRefused
    BY <1>4 DEF SaveCreate, SaveWrite, SaveSync, RenameRefused
<1>5. CASE SaveErr \/ RenameRefusedAgain
    <2>1. Register!Fail
        BY <1>5 DEF SaveErr, RenameRefusedAgain, Register!Fail
    <2> QED
        BY <2>1 DEF Register!Next
<1>6. CASE SaveRename
    <2>1. Register!Commit
        BY <1>6 DEF SaveRename, Register!Commit
    <2> QED
        BY <2>1 DEF Register!Next
<1>7. CASE RemoveOld
    <2>1. CASE file' = file
        BY <1>7, <2>1 DEF RemoveOld
    <2>2. CASE file' = Missing
        <3>1. Register!Forget
            BY <1>7, <2>2 DEF RemoveOld, Register!Forget
        <3> QED
            BY <3>1 DEF Register!Next
    <2> QED
        BY <1>7, <2>1, <2>2 DEF RemoveOld
<1>8. CASE StoreStop \/ StorePowerLoss
    <2>1. Register!Stop
        BY <1>8 DEF StoreStop, StorePowerLoss, Register!Stop
    <2> QED
        BY <2>1 DEF Register!Next
<1>9. CASE UNCHANGED storeVars
    BY <1>9 DEF storeVars
<1> QED
    BY <1>1, <1>2, <1>3, <1>4, <1>5, <1>6, <1>7, <1>8, <1>9 DEF StoreNext, StoreStep

\* load and save implement the register: no failure and no stop leaves the
\* next start with a part of a configuration, and only a file that cannot be
\* replaced can be lost.
THEOREM StoreImplementsRegister == StoreSpec => SaveIsAtomic
<1>1. StoreInit => Register!Init
    BY StoreAssumption DEF StoreInit, Register!Init
<1> QED
    BY <1>1, StoreInvInit, StoreInvStep, StoreStepRefines, PTL
    DEF StoreSpec, SaveIsAtomic, Register!Spec

(***************************************************************************)
(* KernelFiles, for updates that the service runs.                         *)
(***************************************************************************)

WholeIn(S) == spoilt \/ \E d \in S : Whole(d)

\* Recoverable alone is not kept by Copy, which overwrites what may be the
\* only whole version: while the core directory is being changed, one is in
\* the backups, and while the backup is being made, one is elsewhere.
KernelInv ==
    /\ KernelTypeOK
    /\ WholeIn(kept \cup {bak, dir})
    /\ upd.pc # "idle" => upd.ver \in Releases /\ upd.by = "service"
    /\ \A f \in Files : dir[f] # NoFile
    /\ upd.pc \in {"backup", "copy", "restore"} =>
         /\ \A f \in Files : upd.old[f] # NoFile
         /\ \A f \in upd.locked : dir[f] = upd.old[f]
    /\ upd.pc = "backup" =>
         /\ dir = upd.old
         /\ WholeIn(kept \cup {dir})
         /\ \A f \in Files \ (upd.todo \cup upd.failed) : bak[f] = upd.old[f]
         /\ upd.failed # {} => spoilt
    /\ upd.pc \in {"copy", "restore"} =>
         /\ WholeIn(kept \cup {bak})
         /\ \A f \in Files \ upd.failed : bak[f] = upd.old[f]
    /\ upd.pc = "copy" =>
         /\ upd.todo \subseteq FilesOf(staged[upd.ver])
         /\ \A f \in FilesOf(staged[upd.ver]) \ upd.todo : dir[f] = staged[upd.ver][f]
    /\ upd.pc = "restore" =>
         /\ upd.todo \subseteq FilesOf(bak)
         /\ \A f \in Files \ (upd.todo \cup upd.failed) : dir[f] = upd.old[f]

LEMMA WholeHasNoGap ==
    ASSUME NEW d, Whole(d), NEW f \in Files
    PROVE  d[f] \in Versions /\ d[f] # NoFile
BY KernelAssumption DEF Whole

LEMMA EmptyNotWhole == ~Whole(EmptyDir)
BY KernelAssumption, WholeHasNoGap DEF EmptyDir

LEMMA EmptyIsDirectory == EmptyDir \in Directory
BY DEF EmptyDir, Directory, FileContent

LEMMA NoUpdateIsUpdate ==
    NoUpdate \in Updates /\ NoUpdate.pc = "idle"
BY EmptyIsDirectory DEF NoUpdate, Updates, UpdatePcs

LEMMA KernelInvInit == KernelInit => KernelInv
<1> SUFFICES ASSUME KernelInit PROVE KernelInv
    OBVIOUS
<1>1. Whole(dir)
    BY DEF KernelInit, Whole
<1>2. KernelTypeOK
    BY EmptyIsDirectory, NoUpdateIsUpdate DEF KernelInit, KernelTypeOK, Directory, FileContent
<1> QED
    BY <1>1, <1>2, WholeHasNoGap DEF KernelInit, KernelInv, WholeIn, NoUpdate

\* The steps before install, and the end of an update, as far as install is
\* concerned.
LEMMA BesidesInstall ==
    ASSUME KernelInv, KernelTypeOK', UNCHANGED <<dir, kept, bak, spoilt>>,
           upd'.pc \notin {"backup", "copy", "restore"},
           upd'.pc # "idle" => upd'.ver \in Releases /\ upd'.by = "service"
    PROVE  KernelInv'
BY DEF KernelInv, WholeIn, Whole

LEMMA StagingStep ==
    ASSUME KernelInv, Callers = {"service"},
           \/ \E v \in Releases, by \in Callers :
                FromCache(v, by) \/ FromZip(v, by) \/ FromNet(v, by)
           \/ ZipUnusable \/ RequestErr \/ DownloadBegin \/ DownloadDone
           \/ DownloadErr \/ DownloadCancelled
           \/ \E f \in Files : Unzip(f) \/ UnzipErr(f) \/ CachedZipErr(f)
           \/ UnzipDone
           \/ Cancelled \/ StopNetworksErr
    PROVE  KernelInv'
<1> USE NoUpdateIsUpdate DEF KernelInv, KernelTypeOK, Updates, UpdatePcs, EndUpdate, Step
<1>1. ASSUME NEW v \in Releases, NEW by \in Callers,
             FromCache(v, by) \/ FromZip(v, by) \/ FromNet(v, by)
      PROVE  KernelInv'
    <2>1. /\ upd' \in Updates /\ upd'.ver = v /\ upd'.by = "service"
          /\ upd'.pc \in {"staged", "cachedZip", "request"}
        <3>1. by = "service"
            OBVIOUS
        <3>2. CASE FromCache(v, by)
            BY <3>1, <3>2 DEF FromCache
        <3>3. CASE FromZip(v, by)
            BY <3>1, <3>3 DEF FromZip
        <3>4. CASE FromNet(v, by)
            BY <3>1, <3>4 DEF FromNet
        <3> QED
            BY <1>1, <3>2, <3>3, <3>4
    <2>2. KernelTypeOK'
        BY <1>1, <2>1 DEF FromCache, FromZip, FromNet, CacheUntouched, InstallUntouched
    <2> QED
        BY <1>1, <2>1, <2>2, BesidesInstall
        DEF FromCache, FromZip, FromNet, CacheUntouched, InstallUntouched
<1>2. CASE ZipUnusable \/ UnzipDone
    BY <1>2, BesidesInstall DEF ZipUnusable, UnzipDone, Unzipping, CacheUntouched, InstallUntouched
<1>3. CASE RequestErr \/ DownloadErr
    BY <1>3, BesidesInstall DEF RequestErr, DownloadErr, CacheUntouched, InstallUntouched
<1>7. CASE DownloadBegin
    <2>1. staged' \in [Releases -> Directory] /\ zip' \in [Releases -> {"none", "short", "full"}]
        BY <1>7, EmptyIsDirectory DEF DownloadBegin
    <2>2. KernelTypeOK'
        BY <1>7, <2>1 DEF DownloadBegin, InstallUntouched
    <2> QED
        BY <1>7, <2>2, BesidesInstall DEF DownloadBegin, InstallUntouched
<1>8. CASE DownloadCancelled
    <2>1. staged' \in [Releases -> Directory] /\ zip' \in [Releases -> {"none", "short", "full"}]
        BY <1>8, EmptyIsDirectory DEF DownloadCancelled
    <2>2. KernelTypeOK'
        BY <1>8, <2>1 DEF DownloadCancelled, InstallUntouched
    <2> QED
        BY <1>8, <2>2, BesidesInstall DEF DownloadCancelled, InstallUntouched
<1>4. CASE DownloadDone
    BY <1>4, BesidesInstall DEF DownloadDone, InstallUntouched
<1>5. ASSUME NEW f \in Files, Unzip(f) \/ UnzipErr(f) \/ CachedZipErr(f)
      PROVE  KernelInv'
    <2>1. UNCHANGED <<dir, kept, bak, spoilt, zip>>
        BY <1>5 DEF Unzip, UnzipErr, CachedZipErr, InstallUntouched
    <2>2. staged' \in [Releases -> Directory]
        <3>1. upd.ver \in Releases /\ upd.ver \in FileContent
            BY <1>5, KernelAssumption DEF Unzip, UnzipErr, CachedZipErr, Unzipping, FileContent
        <3>2. \A c \in FileContent : [staged[upd.ver] EXCEPT ![f] = c] \in Directory
            BY <1>5, <3>1 DEF Directory
        <3>3. PICK c \in FileContent :
                staged' = [staged EXCEPT ![upd.ver] = [staged[upd.ver] EXCEPT ![f] = c]]
            BY <1>5, <3>1 DEF Unzip, UnzipErr, CachedZipErr, FileContent
        <3> QED
            BY <3>1, <3>2, <3>3
    <2>3. /\ upd'.pc \in UpdatePcs \ {"backup", "copy", "restore"}
          /\ upd' \in Updates
          /\ upd'.pc # "idle" => upd'.ver \in Releases /\ upd'.by = "service"
        <3>1. CASE Unzip(f)
            BY <1>5, <3>1 DEF Unzip, Unzipping
        <3>2. CASE UnzipErr(f)
            BY <1>5, <3>2 DEF UnzipErr
        <3>3. CASE CachedZipErr(f)
            BY <1>5, <3>3 DEF CachedZipErr
        <3> QED
            BY <1>5, <3>1, <3>2, <3>3
    <2>4. KernelTypeOK'
        BY <2>1, <2>2, <2>3
    <2> QED
        BY <2>1, <2>3, <2>4, BesidesInstall
<1>6. CASE Cancelled \/ StopNetworksErr
    <2>1. upd.by = "service" /\ upd.ver \in Releases
        BY <1>6 DEF Cancelled, StopNetworksErr
    <2>2. staged' \in [Releases -> Directory] /\ zip' \in [Releases -> {"none", "short", "full"}]
        BY <1>6, <2>1, EmptyIsDirectory DEF Cancelled, StopNetworksErr, Discard
    <2>3. UNCHANGED <<dir, kept, bak, spoilt>> /\ upd' = NoUpdate
        BY <1>6, <2>1 DEF Cancelled, StopNetworksErr, Discard
    <2>4. KernelTypeOK'
        BY <2>2, <2>3
    <2> QED
        BY <2>3, <2>4, BesidesInstall
<1> QED
    BY <1>1, <1>2, <1>3, <1>4, <1>5, <1>6, <1>7, <1>8

LEMMA InstallStep ==
    ASSUME KernelInv, InstallBegin \/ CopyBegin \/ InstallErr \/ InstallOk
    PROVE  KernelInv'
<1> USE NoUpdateIsUpdate DEF KernelInv, KernelTypeOK, Updates, UpdatePcs, EndUpdate, Step, CacheUntouched,
            FilesOf, Directory, FileContent
<1>1. CASE InstallBegin
    <2>1. KernelTypeOK'
        <3>1. PICK L \in SUBSET Files :
                upd' = [upd EXCEPT !.pc = "backup", !.todo = FilesOf(dir), !.locked = L,
                                   !.old = dir, !.failed = {}]
            BY <1>1 DEF InstallBegin
        <3>2. upd' \in Updates
            BY <3>1
        <3>3. kept' \subseteq Directory /\ bak' \in Directory
            BY <1>1, EmptyIsDirectory DEF InstallBegin
        <3> QED
            BY <1>1, <3>2, <3>3 DEF InstallBegin
    <2>2. WholeIn(kept \cup {dir})'
        <3>1. CASE spoilt
            BY <1>1, <3>1 DEF InstallBegin, WholeIn
        <3>2. CASE ~spoilt
            <4>1. PICK d \in kept \cup {bak, dir} : Whole(d)
                BY <3>2 DEF WholeIn
            <4>2. d # EmptyDir
                BY <4>1, EmptyNotWhole
            <4>3. d \in kept' \cup {dir'}
                BY <1>1, <4>2 DEF InstallBegin
            <4>4. Whole(d)'
                BY <4>1 DEF Whole
            <4> QED
                BY <4>3, <4>4 DEF WholeIn
        <3> QED
            BY <3>1, <3>2
    <2>3. /\ upd'.pc = "backup" /\ upd'.ver = upd.ver /\ upd'.by = upd.by
          /\ upd'.todo = Files /\ upd'.old = dir /\ upd'.failed = {}
        <3>1. FilesOf(dir) = Files
            OBVIOUS
        <3>2. PICK L \in SUBSET Files :
                upd' = [upd EXCEPT !.pc = "backup", !.todo = FilesOf(dir), !.locked = L,
                                   !.old = dir, !.failed = {}]
            BY <1>1 DEF InstallBegin
        <3> QED
            BY <3>1, <3>2
    <2>4. WholeIn(kept \cup {bak, dir})'
        BY <2>2 DEF WholeIn
    <2> QED
        BY <1>1, <2>1, <2>2, <2>3, <2>4 DEF InstallBegin
<1>2. CASE CopyBegin
    <2>1. bak = dir \/ spoilt
        BY <1>2 DEF CopyBegin
    <2> QED
        BY <1>2, <2>1 DEF CopyBegin, InstallUntouched, WholeIn, Whole
<1>3. CASE InstallErr
    BY <1>3, BesidesInstall DEF InstallErr
<1>4. CASE InstallOk
    <2>1. CASE Whole(staged[upd.ver])
        <3>1. \A f \in Files : dir[f] = staged[upd.ver][f]
            BY <1>4, <2>1, WholeHasNoGap DEF InstallOk
        <3>2. dir = staged[upd.ver]
            BY <3>1, <1>4 DEF InstallOk
        <3> QED
            BY <1>4, <2>1, <3>2 DEF InstallOk, WholeIn, Whole
    <2>2. CASE ~Whole(staged[upd.ver])
        BY <1>4, <2>2 DEF InstallOk, WholeIn
    <2> QED
        BY <2>1, <2>2
<1> QED
    BY <1>1, <1>2, <1>3, <1>4

LEMMA FileStep ==
    ASSUME KernelInv, NEW f \in Files, BackUp(f) \/ BackUpErr(f) \/ Copy(f) \/ CopyErr(f) \/ Restore(f) \/ RestoreErr(f)
    PROVE  KernelInv'
<1> USE DEF KernelInv, KernelTypeOK, Updates, UpdatePcs, Step, CacheUntouched, Directory
<1>1. CASE BackUp(f)
    <2>1. KernelTypeOK'
        BY <1>1 DEF BackUp
    <2>2. WholeIn(kept \cup {dir})' /\ WholeIn(kept \cup {bak, dir})'
        BY <1>1 DEF BackUp, WholeIn, Whole
    <2> QED
        BY <1>1, <2>1, <2>2 DEF BackUp
<1>2. CASE BackUpErr(f)
    <2>1. KernelTypeOK'
        BY <1>2 DEF BackUpErr, FileContent
    <2> QED
        BY <1>2, <2>1 DEF BackUpErr, WholeIn
<1>3. CASE Copy(f)
    <2>1. upd.ver \in Releases /\ staged[upd.ver] \in Directory
        BY <1>3 DEF Copy
    <2>2. f \in FilesOf(staged[upd.ver])
        BY <1>3 DEF Copy
    <2>3. KernelTypeOK'
        BY <1>3, <2>1 DEF Copy
    <2>4. WholeIn(kept \cup {bak})' /\ WholeIn(kept \cup {bak, dir})'
        BY <1>3 DEF Copy, WholeIn, Whole
    <2> QED
        BY <1>3, <2>1, <2>2, <2>3, <2>4 DEF Copy, FilesOf
<1>4. CASE CopyErr(f)
    <2>1. KernelTypeOK'
        BY <1>4 DEF CopyErr, CannotCopy, FilesOf, FileContent
    <2>2. WholeIn(kept \cup {bak})' /\ WholeIn(kept \cup {bak, dir})'
        BY <1>4 DEF CopyErr, CannotCopy, WholeIn, Whole
    <2>3. /\ \A g \in Files : dir'[g] # NoFile
          /\ \A g \in upd.locked : dir'[g] = upd.old[g]
        BY <1>4, KernelAssumption DEF CopyErr, CannotCopy
    <2>4. Files \ upd.failed \subseteq FilesOf(bak)
        BY <1>4 DEF CopyErr, CannotCopy, FilesOf
    <2> QED
        BY <1>4, <2>1, <2>2, <2>3, <2>4 DEF CopyErr, CannotCopy
<1>5. CASE Restore(f)
    <2>1. KernelTypeOK'
        BY <1>5 DEF Restore
    <2>2. WholeIn(kept \cup {bak})' /\ WholeIn(kept \cup {bak, dir})'
        BY <1>5 DEF Restore, WholeIn, Whole
    <2> QED
        BY <1>5, <2>1, <2>2, KernelAssumption DEF Restore, FilesOf
<1>6. CASE RestoreErr(f)
    <2>1. KernelTypeOK'
        BY <1>6 DEF RestoreErr, FileContent
    <2>2. WholeIn(kept \cup {bak})' /\ WholeIn(kept \cup {bak, dir})'
        BY <1>6 DEF RestoreErr, WholeIn, Whole
    <2> QED
        BY <1>6, <2>1, <2>2, KernelAssumption DEF RestoreErr, FilesOf
<1> QED
    BY <1>1, <1>2, <1>3, <1>4, <1>5, <1>6

LEMMA StopStep == KernelInv /\ KernelStop => KernelInv'
<1> SUFFICES ASSUME KernelInv, KernelStop PROVE KernelInv'
    OBVIOUS
<1> USE KernelAssumption, NoUpdateIsUpdate DEF KernelInv, KernelTypeOK, Updates, UpdatePcs, Directory, FileContent
<1>1. KernelTypeOK'
    <2>1. dir' \in Directory /\ bak' \in Directory
        <3>1. \A d \in Directory, f \in Files : [d EXCEPT ![f] = TornFile] \in Directory
            OBVIOUS
        <3>2. upd.todo \subseteq Files
            OBVIOUS
        <3>3. dir' = dir \/ \E f \in upd.todo : dir' = [dir EXCEPT ![f] = TornFile]
            BY DEF KernelStop
        <3>4. bak' = bak \/ \E f \in upd.todo : bak' = [bak EXCEPT ![f] = TornFile]
            BY DEF KernelStop
        <3> QED
            BY <3>1, <3>2, <3>3, <3>4
    <2>2. staged' \in [Releases -> Directory]
        <3>1. CASE Unzipping
            <4>1. upd.ver \in Releases /\ staged[upd.ver] \in Directory
                BY <3>1 DEF Unzipping
            <4>2. PICK d \in {staged[upd.ver]}
                                \cup {[staged[upd.ver] EXCEPT ![f] = TornFile] : f \in upd.todo} :
                        staged' = [staged EXCEPT ![upd.ver] = d]
                BY <3>1 DEF KernelStop
            <4>3. d \in Directory
                BY <4>1, <4>2
            <4> QED
                BY <4>1, <4>2, <4>3
        <3>2. CASE ~Unzipping
            BY <3>2 DEF KernelStop
        <3> QED
            BY <3>1, <3>2
    <2> QED
        BY <2>1, <2>2 DEF KernelStop
<1>2. \A f \in Files : dir'[f] # NoFile
    BY DEF KernelStop
<1>3. WholeIn(kept \cup {bak, dir})'
    BY DEF KernelStop, WholeIn, Whole
<1> QED
    BY <1>1, <1>2, <1>3 DEF KernelStop

LEMMA KernelInvStep ==
    ASSUME Callers = {"service"}
    PROVE  KernelInv /\ [KernelNext]_kernelVars => KernelInv'
<1> SUFFICES ASSUME KernelInv, [KernelNext]_kernelVars PROVE KernelInv'
    OBVIOUS
<1>1. CASE UNCHANGED kernelVars
    BY <1>1 DEF kernelVars, KernelInv, KernelTypeOK, WholeIn, Whole, FilesOf
<1> QED
    BY <1>1, StagingStep, InstallStep, FileStep, StopStep DEF KernelNext, KernelStep

\* After an update by the service that failed or stopped at any point, a whole
\* version of the core is in the core directory or in a backup directory.
THEOREM RecoverableAlways ==
    ASSUME Callers = {"service"}
    PROVE  KernelSpec => []Recoverable
<1>1. KernelInv => Recoverable
    BY DEF KernelInv, Recoverable, WholeIn
<1> QED
    BY <1>1, KernelInvInit, KernelInvStep, PTL DEF KernelSpec

KeepsCore ==
    upd'.pc = "idle" =>
         /\ upd.pc \notin {"copy", "restore"} => dir' = dir
         /\ upd.pc = "restore" /\ upd.todo = {} =>
              \A f \in Files \ upd.failed : dir'[f] = upd.old[f]

LEMMA KeepsCoreStep ==
    ASSUME Callers = {"service"}, KernelInv, KernelNext
    PROVE  KeepsCore
<1> USE DEF KeepsCore, InstallUntouched, EndUpdate, NoUpdate, Step
<1>1. CASE \E v \in Releases, by \in Callers :
             FromCache(v, by) \/ FromZip(v, by) \/ FromNet(v, by)
    BY <1>1 DEF FromCache, FromZip, FromNet, KernelInv, KernelTypeOK, UpdatePcs
<1>2. CASE \/ ZipUnusable \/ RequestErr \/ DownloadBegin \/ DownloadDone
           \/ DownloadErr \/ DownloadCancelled \/ UnzipDone
    BY <1>2 DEF ZipUnusable, RequestErr, DownloadBegin, DownloadDone, DownloadErr,
                DownloadCancelled, UnzipDone, Unzipping
<1>3. CASE \E f \in Files : Unzip(f) \/ UnzipErr(f) \/ CachedZipErr(f)
    BY <1>3 DEF Unzip, UnzipErr, CachedZipErr, Unzipping
<1>4. CASE Cancelled \/ StopNetworksErr
    BY <1>4 DEF Cancelled, StopNetworksErr, Discard, KernelInv, CacheUntouched
<1>5. CASE InstallBegin \/ CopyBegin \/ InstallOk
    BY <1>5 DEF InstallBegin, CopyBegin, InstallOk, KernelInv, KernelTypeOK
<1>6. CASE InstallErr
    BY <1>6 DEF InstallErr, KernelInv
<1>7. CASE \E f \in Files : BackUp(f) \/ BackUpErr(f) \/ Copy(f) \/ CopyErr(f) \/ Restore(f) \/ RestoreErr(f)
    BY <1>7 DEF BackUp, BackUpErr, Copy, CopyErr, CannotCopy, Restore,
                RestoreErr, KernelInv, KernelTypeOK, Updates
<1>8. CASE KernelStop
    BY <1>8 DEF KernelStop, KernelInv, KernelTypeOK
<1> QED
    BY <1>1, <1>2, <1>3, <1>4, <1>5, <1>6, <1>7, <1>8 DEF KernelNext, KernelStep

\* An update by the service that does not succeed gives the core directory
\* back as it found it.
THEOREM FailureKeepsCoreAlways ==
    ASSUME Callers = {"service"}
    PROVE  KernelSpec => FailureKeepsCore
<1>1. KernelInv /\ [KernelNext]_kernelVars => [KeepsCore]_kernelVars
    BY KeepsCoreStep
<1> QED
    BY <1>1, KernelInvInit, KernelInvStep, PTL DEF KernelSpec, FailureKeepsCore, KeepsCore
=============================================================================
