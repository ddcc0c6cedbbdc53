----------------------------- MODULE ConfigStore ----------------------------
(***************************************************************************)
(* instances.json: load and save of src-tauri/src/config_store.rs, step by *)
(* step on the file system, with the ways a step can fail and the points   *)
(* at which the process or the machine can stop.  The service calls both   *)
(* under its state mutex, so there is one save at a time and the           *)
(* configuration does not change meanwhile.                                *)
(***************************************************************************)
CONSTANTS
    Configurations, \* contents of the file: lists of instances
    Default,        \* ServiceState::default()
    Down,           \* the service does not run
    Missing,        \* there is no such file
    Torn,           \* a file whose content is incomplete
    StoreFaults     \* what the file system may do wrong

StoreFaultKinds == {
    "disk",         \* creating, writing or syncing a file fails
    "rename",       \* the file is in use and cannot be replaced
    "power" }       \* data that was not synced is lost

ASSUME StoreAssumption ==
    /\ Default \in Configurations
    /\ {Down, Missing, Torn} \cap Configurations = {}
    /\ Down # Missing /\ Missing # Torn /\ Down # Torn
    /\ StoreFaults \subseteq StoreFaultKinds

VARIABLES
    mem,            \* ServiceState of the running service
    file,           \* instances.json
    tmp,            \* instances.json.tmp
    cached,         \* the files whose data is not on the disk yet
    step            \* where save is

storeVars == <<mem, file, tmp, cached, step>>

Content == Configurations \cup {Missing, Torn}

StoreTypeOK ==
    /\ mem \in Configurations \cup {Down}
    /\ file \in Content /\ tmp \in Content
    /\ cached \subseteq {"file", "tmp"}
    /\ step \in {"idle", "create", "write", "sync", "rename", "remove", "again"}

StoreInit ==
    /\ mem = Down
    /\ file \in Configurations \cup {Missing}
    /\ tmp = Missing /\ cached = {} /\ step = "idle"

\* load.  A file that cannot be parsed would keep the service from starting.
LoadFile ==
    /\ mem = Down /\ file # Torn
    /\ mem' = IF file = Missing THEN Default ELSE file
    /\ UNCHANGED <<file, tmp, cached, step>>

\* A request changes the configuration in memory.
ChangeConfig ==
    /\ mem # Down /\ step = "idle"
    /\ mem' \in Configurations
    /\ UNCHANGED <<file, tmp, cached, step>>

SaveBegin ==
    /\ mem # Down /\ step = "idle"
    /\ step' = "create"
    /\ UNCHANGED <<mem, file, tmp, cached>>

\* File::create truncates a temporary file that an earlier save left behind.
SaveCreate ==
    /\ step = "create"
    /\ tmp' = Torn
    /\ step' = "write"
    /\ UNCHANGED <<mem, file, cached>>

\* Mutant: the data is not synced before the rename.
SaveWriteUnsynced ==
    /\ step = "write"
    /\ tmp' = mem /\ cached' = cached \cup {"tmp"}
    /\ step' = "rename"
    /\ UNCHANGED <<mem, file>>

SaveWrite ==
    /\ step = "write"
    /\ tmp' = mem /\ cached' = cached \cup {"tmp"}
    /\ step' = "sync"
    /\ UNCHANGED <<mem, file>>

SaveSync ==
    /\ step = "sync"
    /\ cached' = cached \ {"tmp"}
    /\ step' = "rename"
    /\ UNCHANGED <<mem, file, tmp>>

\* An error before the rename is returned, and the caller ignores it.
SaveErr ==
    /\ "disk" \in StoreFaults
    /\ step \in {"create", "write", "sync"}
    /\ step' = "idle"
    /\ UNCHANGED <<mem, file, tmp, cached>>

\* The temporary file becomes instances.json, at once.
SaveRename ==
    /\ step \in {"rename", "again"}
    /\ file' = tmp /\ tmp' = Missing
    /\ cached' = IF "tmp" \in cached THEN {"file"} ELSE {}
    /\ step' = "idle"
    /\ UNCHANGED mem

RenameRefused ==
    /\ "rename" \in StoreFaults
    /\ step = "rename"
    /\ step' = "remove"
    /\ UNCHANGED <<mem, file, tmp, cached>>

\* The fallback removes the file first; an error of that is ignored.
RemoveOld ==
    /\ step = "remove"
    /\ file' \in {Missing, file}
    /\ step' = "again"
    /\ UNCHANGED <<mem, tmp, cached>>

\* The second rename fails as well, and save returns an error.
RenameRefusedAgain ==
    /\ "rename" \in StoreFaults
    /\ step = "again"
    /\ step' = "idle"
    /\ UNCHANGED <<mem, file, tmp, cached>>

\* The process stops at any point: what was written stays in the files.
StoreStop ==
    /\ mem' = Down /\ step' = "idle"
    /\ UNCHANGED <<file, tmp, cached>>

\* The machine stops at any point: data that was not synced may be lost.
StorePowerLoss ==
    /\ "power" \in StoreFaults
    /\ mem' = Down /\ step' = "idle" /\ cached' = {}
    /\ file' \in IF "file" \in cached THEN {file, Torn} ELSE {file}
    /\ tmp' \in IF "tmp" \in cached THEN {tmp, Torn} ELSE {tmp}

StoreStep ==
    \/ LoadFile \/ ChangeConfig
    \/ SaveBegin \/ SaveCreate \/ SaveWrite \/ SaveSync \/ SaveErr
    \/ SaveRename \/ RenameRefused \/ RemoveOld \/ RenameRefusedAgain

StoreNext == StoreStep \/ StoreStop \/ StorePowerLoss

StoreSpec == StoreInit /\ [][StoreNext]_storeVars

(***************************************************************************)
(* The file is the register the service expects.                           *)
(***************************************************************************)

Register == INSTANCE ConfigRegister
    WITH stored <- IF file = Missing THEN Default ELSE file,
         saving <- step # "idle",
         MayForget <- "rename" \in StoreFaults

\* Whatever fails and wherever the process or the machine stops, the next
\* load reads the configuration of the last save or of the one that was
\* interrupted, never a part of one.  Only when the file could not be
\* replaced may the fallback of save lose it: load then sees no file.
SaveIsAtomic == Register!Spec
=============================================================================
