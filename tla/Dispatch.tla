------------------------------ MODULE Dispatch ------------------------------
(***************************************************************************)
(* The IPC requests of the service: dispatch under the state mutex, then   *)
(* the save that handle makes after every successful response, in a second *)
(* acquisition of the state mutex (src-tauri/src/service_main.rs).         *)
(***************************************************************************)
EXTENDS ServiceShared

\* A client's request c reaches dispatch.
Request(c) == c \in Commands /\ ThreadsRun /\ StateFree /\ saving < Handlers

\* The requests dispatch refuses while update_lock is set.
NotBusy == ~updateLock

\* A successful response is followed by a save, an error is not.
Respond == saving' = saving + 1
RespondError == UNCHANGED saving

UnchangedControl == UNCHANGED <<control, wd>>

\* service_status, the log requests, get_task_status and run_cli change
\* nothing that is modelled, and the file is written after them all the same.
Query ==
    /\ Request("query")
    /\ Respond
    /\ UNCHANGED <<runtime, inst, disk, ipc, update>> /\ UnchangedControl

ListInstances ==
    /\ Request("list_instances")
    /\ Reap({i \in Instances : Known(i)})
    /\ Respond
    /\ UNCHANGED <<proc, inst, disk, ipc, update>> /\ UnchangedControl

\* Mutant: the request is not refused during an update.
SyncInstanceAnytime(i) ==
    /\ Request("sync_instance")
    /\ \E c \in Confs, a \in AutoValues, d \in {"stopped", "running"} :
         inst' = [inst EXCEPT ![i] = [conf |-> c, auto |-> a, desired |-> d]]
    /\ Respond
    /\ UNCHANGED <<runtime, disk, ipc, update>> /\ UnchangedControl

\* The whole stored configuration is replaced by the client's, auto_start
\* and desired_state included.
SyncInstance(i) ==
    /\ Request("sync_instance") /\ NotBusy
    /\ \E c \in Confs, a \in AutoValues, d \in {"stopped", "running"} :
         inst' = [inst EXCEPT ![i] = [conf |-> c, auto |-> a, desired |-> d]]
    /\ Respond
    /\ UNCHANGED <<runtime, disk, ipc, update>> /\ UnchangedControl

RemoveInstance(i) ==
    /\ Request("remove_instance") /\ NotBusy /\ Known(i)
    /\ Reap({i})
    /\ IF InstanceRunning(i)
         THEN RespondError /\ UNCHANGED inst
         ELSE Respond /\ inst' = [inst EXCEPT ![i] = None]
    /\ UNCHANGED <<proc, disk, ipc, update>> /\ UnchangedControl

\* desired_state is changed before the core is spawned; after a failed spawn
\* it stays changed, in memory only.  The snapshot that ends the readiness
\* probe drops the handle again if the core has ended by then; every later
\* use of the handle drops it likewise, so that reap is not a step here.
StartInstance(i) ==
    /\ Request("start_instance") /\ NotBusy /\ Known(i)
    /\ SetDesired(i, "running")
    /\ \/ StartOk(i, inst[i].conf, NotedPids) /\ Respond
       \/ StartErr(i) /\ RespondError
    /\ UNCHANGED <<disk, ipc, update>> /\ UnchangedControl

\* Mutant: the request is answered without saving.
StopInstanceUnsaved(i) ==
    /\ Request("stop_instance") /\ NotBusy /\ Known(i)
    /\ SetDesired(i, "stopped")
    /\ StopOk(i) \/ StopErr(i)
    /\ UNCHANGED <<disk, saving, ipc, update>> /\ UnchangedControl

StopInstance(i) ==
    /\ Request("stop_instance") /\ NotBusy /\ Known(i)
    /\ SetDesired(i, "stopped")
    /\ \/ StopOk(i) /\ Respond
       \/ StopErr(i) /\ RespondError
    /\ UNCHANGED <<disk, ipc, update>> /\ UnchangedControl

SetAutoStart(i) ==
    /\ Request("set_auto_start") /\ NotBusy /\ Known(i)
    /\ \E a \in AutoValues : inst' = [inst EXCEPT ![i].auto = a]
    /\ Respond
    /\ UNCHANGED <<runtime, disk, ipc, update>> /\ UnchangedControl

(***************************************************************************)
(* stop_all_instances and shutdown_service.  Neither is refused during a   *)
(* kernel update.                                                          *)
(***************************************************************************)

StopAllBegin(c) ==
    /\ c \in {"stop_all_instances", "shutdown_service"} /\ Request(c)
    /\ ipc' = [cmd |-> c, todo |-> {i \in Instances : Known(i)}]
    /\ UNCHANGED <<runtime, config, update>> /\ UnchangedControl

\* One turn of the loop.  An error of stop is ignored.
StopAllOne(i) ==
    /\ ThreadsRun /\ i \in ipc.todo
    /\ ipc' = [ipc EXCEPT !.todo = @ \ {i}]
    /\ IF Wanted(i) \/ InstanceRunning(i)
         THEN SetDesired(i, "stopped") /\ (StopOk(i) \/ StopErr(i))
         ELSE Reap({i}) /\ UNCHANGED <<proc, inst>>
    /\ UNCHANGED <<disk, saving, update>> /\ UnchangedControl

StopAllEnd ==
    /\ ThreadsRun /\ ~StateFree /\ ipc.todo = {}
    /\ ipc' = NoIpc
    /\ stopped' = (stopped \/ ipc.cmd = "shutdown_service")
    /\ Respond
    /\ UNCHANGED <<runtime, inst, disk, svc, boot, update, wd>>

(***************************************************************************)
(* The kernel update requests.  A worker that is idle is a thread and a    *)
(* task id that do not exist yet.                                          *)
(***************************************************************************)

\* Mutant: the request does not look at update_lock.
UpdateKernelUnlocked(w) ==
    /\ Request("update_kernel")
    /\ worker[w].pc = "idle"
    /\ updateLock' = TRUE
    /\ worker' = [worker EXCEPT ![w] = FreshWorker("queued")]
    /\ task' = [task EXCEPT ![w] = "queued"]
    /\ Respond
    /\ UNCHANGED <<runtime, inst, disk, ipc, cancel>> /\ UnchangedControl

UpdateKernel(w) ==
    /\ Request("update_kernel") /\ NotBusy
    /\ worker[w].pc = "idle"
    /\ updateLock' = TRUE
    /\ worker' = [worker EXCEPT ![w] = FreshWorker("queued")]
    /\ task' = [task EXCEPT ![w] = "queued"]
    /\ Respond
    /\ UNCHANGED <<runtime, inst, disk, ipc, cancel>> /\ UnchangedControl

Final == {"none", "completed", "failed", "cancelled"}

\* Mutant: finished tasks become cancelled as well.
CancelKernelUpdateAll ==
    /\ Request("cancel_kernel_update")
    /\ cancel' = TRUE
    /\ updateLock' = FALSE
    /\ task' = [w \in Workers |-> IF task[w] = "none" THEN "none" ELSE "cancelled"]
    /\ Respond
    /\ UNCHANGED <<runtime, inst, disk, ipc, worker>> /\ UnchangedControl

CancelKernelUpdate ==
    /\ Request("cancel_kernel_update")
    /\ cancel' = TRUE
    /\ updateLock' = FALSE
    /\ task' = [w \in Workers |->
                  IF task[w] \in Final THEN task[w] ELSE "cancelled"]
    /\ Respond
    /\ UNCHANGED <<runtime, inst, disk, ipc, worker>> /\ UnchangedControl

\* Mutant: a file is written that no response asked for.
SaveAgain ==
    /\ ThreadsRun /\ StateFree
    /\ saving' = saving - 1
    /\ disk' = inst
    /\ UNCHANGED <<runtime, inst, ipc, update>> /\ UnchangedControl

\* handle writes the file: whatever the configuration is by then.
Save ==
    /\ ThreadsRun /\ StateFree /\ saving > 0
    /\ saving' = saving - 1
    /\ disk' = inst \/ ("save" \in Faults /\ disk' = disk)
    /\ UNCHANGED <<runtime, inst, ipc, update>> /\ UnchangedControl

DispatchNext ==
    \/ Query \/ ListInstances
    \/ \E i \in Instances :
         \/ SyncInstance(i) \/ RemoveInstance(i)
         \/ StartInstance(i) \/ StopInstance(i) \/ SetAutoStart(i)
         \/ StopAllOne(i)
    \/ \E c \in Commands : StopAllBegin(c)
    \/ StopAllEnd
    \/ \E w \in Workers : UpdateKernel(w)
    \/ CancelKernelUpdate
    \/ Save
=============================================================================
