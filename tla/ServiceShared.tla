---------------------------- MODULE ServiceShared ---------------------------
(***************************************************************************)
(* What the threads of the service process share                           *)
(* (src-tauri/src/service_main.rs, run_service): the configuration under   *)
(* the state mutex, the RuntimeManager under the runtime mutex, the        *)
(* update_lock and stopped flags, the table of update tasks, the cancel    *)
(* flag of kernel_updater, and the program counters of the main thread,    *)
(* the watchdog thread and the kernel update threads.                      *)
(*                                                                         *)
(* An IPC request that holds the state mutex from its first to its last    *)
(* step is one step of the model, unless it also releases the runtime      *)
(* mutex in between (stop_all_instances and shutdown_service): those are   *)
(* spread over several steps and `ipc' shows that the state mutex is held. *)
(***************************************************************************)
EXTENDS RuntimeManager

CONSTANTS
    Commands,       \* the requests that clients send
    Workers,        \* bound on kernel update threads alive at once
    Handlers,       \* bound on IPC handlers between dispatch and save
    AutoValues,     \* the auto_start values clients use
    Preset          \* the instances in the file when the machine starts

CommandKinds == {
    "query", "list_instances", "sync_instance", "remove_instance",
    "start_instance", "stop_instance", "set_auto_start",
    "stop_all_instances", "shutdown_service", "update_kernel",
    "cancel_kernel_update",
    "service_stop" }            \* not IPC: a stop from the service manager

Config == [conf : Confs, auto : BOOLEAN, desired : {"stopped", "running"}]

ASSUME ServiceAssumption ==
    /\ None \notin Config
    /\ Commands \subseteq CommandKinds
    /\ Handlers \in Nat \ {0}
    /\ AutoValues \subseteq BOOLEAN
    /\ Preset \subseteq Instances

VARIABLES
    inst,           \* ServiceState.instances, in memory
    disk,           \* instances.json
    saving,         \* handlers between dispatch and save
    ipc,            \* the request that holds the state mutex between steps
    svc,            \* the life of the service process
    stopped,        \* the stop flag
    boot,           \* locals of run_service's start-up block
    updateLock,     \* update_lock
    cancel,         \* CANCEL_UPDATE of kernel_updater
    worker,         \* the kernel update threads
    task,           \* phase of each update task
    wd              \* the watchdog thread

config == <<inst, disk, saving>>
update == <<updateLock, cancel, worker, task>>
control == <<svc, stopped, boot>>
vars == <<runtime, config, ipc, control, update, wd>>

WorkerPcs == {"idle", "queued", "staging", "aborting", "staged", "snapshot",
              "filter", "stopping", "installing", "restoring", "restarting"}
Phases == {"none", "queued", "staging", "stopping", "installing",
           "restarting", "completed", "failed", "cancelled"}

NoConfs == [i \in Instances |-> None]
NoIpc == [cmd |-> "none", todo |-> {}]
NoBoot == [orphans |-> NoConfs, check |-> {}, start |-> {}]
FreshWorker(pc) == [pc |-> pc, run |-> NoConfs, todo |-> {}]
IdleWorker == FreshWorker("idle")
FreshWatchdog(pc) ==
    [pc |-> pc, snap |-> NoConfs, cur |-> None, conf |-> None, pid |-> None]
WatchdogOff == FreshWatchdog("off")

ConfigTypeOK ==
    /\ inst \in [Instances -> Config \cup {None}]
    /\ disk \in [Instances -> Config \cup {None}]
    /\ saving \in 0..Handlers

IpcTypeOK ==
    ipc \in [cmd : {"none", "stop_all_instances", "shutdown_service"},
             todo : SUBSET Instances]

ControlTypeOK ==
    /\ svc \in {"down", "boot", "up", "exiting"}
    /\ stopped \in BOOLEAN
    /\ boot \in [orphans : [Instances -> Pids \cup {None}],
                 check : SUBSET Instances, start : SUBSET Instances]

UpdateTypeOK ==
    /\ updateLock \in BOOLEAN
    /\ cancel \in BOOLEAN
    /\ worker \in [Workers -> [pc : WorkerPcs,
                               run : [Instances -> Confs \cup {None}],
                               todo : SUBSET Instances]]
    /\ task \in [Workers -> Phases]

WatchdogTypeOK ==
    wd \in [pc : {"off", "sleep", "pass", "scan", "kill", "start"},
            snap : [Instances -> Confs \cup {None}],
            cur : Instances \cup {None}, conf : Confs \cup {None},
            pid : Pids \cup {None}]

TypeOK ==
    /\ RuntimeTypeOK /\ ConfigTypeOK /\ IpcTypeOK
    /\ ControlTypeOK /\ UpdateTypeOK /\ WatchdogTypeOK

(***************************************************************************)
(* Shared conditions and helpers.                                          *)
(***************************************************************************)

Known(i) == inst[i] # None
Wanted(i) == Known(i) /\ inst[i].desired = "running"

\* The state mutex is free.
StateFree == ipc = NoIpc

\* The threads beside the main thread run from the end of the start-up block
\* until process::exit.
ThreadsRun == svc \in {"up", "exiting"}

\* Pids remembered without a handle outside RuntimeManager: what the scans
\* of the start-up block and of the watchdog returned.
NotedPids == ({boot.orphans[i] : i \in Instances} \cup {wd.pid}) \ {None}

SetDesired(i, d) == inst' = [inst EXCEPT ![i].desired = d]

\* The pids a scan for the orphan of i may return: one live core if there is
\* any, or nothing if there is none or PowerShell fails.
ScanResults(i) ==
    IF CoresOf(i) = {} THEN {None}
    ELSE CoresOf(i) \cup (IF "scan" \in Faults THEN {None} ELSE {})

\* The end of the process takes every thread and all memory with it.  The
\* cores live on.
Gone ==
    /\ svc' = "down"
    /\ stopped' = FALSE
    /\ children' = NoConfs /\ adopted' = NoConfs
    /\ inst' = NoConfs
    /\ saving' = 0
    /\ ipc' = NoIpc
    /\ boot' = NoBoot
    /\ updateLock' = FALSE /\ cancel' = FALSE
    /\ worker' = [w \in Workers |-> IdleWorker]
    /\ task' = [w \in Workers |-> "none"]
    /\ wd' = WatchdogOff
    /\ UNCHANGED <<proc, disk>>
=============================================================================
