------------------------- MODULE ServiceCores_proof -------------------------
(***************************************************************************)
(* Theorems about what the threads of the service do to each other: first  *)
(* the kernel updates, update_lock and the configuration that is restarted *)
(* and saved, then how many cores a network has.                           *)
(***************************************************************************)
EXTENDS EasyTierService_proof

(***************************************************************************)
(* The kernel update threads, update_lock and the tasks the clients see,   *)
(* and the configuration the threads and the file hold.                    *)
(***************************************************************************)

\* A thread that takes a step is at work; it stays at work and leaves
\* update_lock alone, or it ends and clears it.
LEMMA WorkerMoves ==
    ASSUME TypeInv, NEW w \in Workers, WorkerStep(w)
    PROVE  /\ Updating(w)
           /\ \A v \in Workers \ {w} : worker'[v] = worker[v]
           /\ \/ Updating(w)' /\ UNCHANGED updateLock
              \/ ~Updating(w)' /\ ~updateLock'
<1> USE DEF TypeInv, TypeOK, UpdateTypeOK, Updating, At
<1>1. CASE WkReset(w) \/ WkProgress(w) \/ WkStageOk(w) \/ WkStageAbort(w)
             \/ WkNotCancelled(w) \/ WkSnapshot(w)
    BY <1>1 DEF WkReset, WkProgress, WkStageOk, WkStageAbort, WkNotCancelled, WkSnapshot, GoTo
<1>2. CASE WkStageErr(w) \/ WkAborted(w) \/ WkCancelled(w)
             \/ \E i \in Instances : WkStopErr(w, i)
    BY <1>2 DEF WkStageErr, WkAborted, WkCancelled, WkStopErr, Finish, IdleWorker, FreshWorker
<1>3. CASE WkFinish(w)
    BY <1>3 DEF WkFinish, Finish, IdleWorker, FreshWorker
<1>4. CASE WkStopBegin(w) \/ WkInstallBegin(w) \/ WkInstallOk(w) \/ WkInstallErr(w)
    BY <1>4 DEF WkStopBegin, WkInstallBegin, WkInstallOk, WkInstallErr, GoTo, GoWith
<1>5. CASE \E i \in Instances : WkFilter(w, i)
    BY <1>5 DEF WkFilter
<1>6. CASE \E i \in Instances : WkStop(w, i) \/ WkStart(w, i)
    BY <1>6 DEF WkStop, WkStart
<1> QED
    BY <1>1, <1>2, <1>3, <1>4, <1>5, <1>6 DEF WorkerStep

\* Everything but the update requests, the threads themselves and the end of
\* the process leaves update_lock, the threads and their tasks alone.
LEMMA OthersLeaveUpdates ==
    ASSUME \/ Boot \/ MainStopAll \/ ScmStop \/ WatchdogNext
           \/ \E p \in Pids : CoreExit(p) \/ PidReuse(p)
           \/ Query \/ ListInstances \/ StopAllEnd \/ Save
           \/ \E i \in Instances :
                \/ SyncInstance(i) \/ RemoveInstance(i) \/ StartInstance(i)
                \/ StopInstance(i) \/ SetAutoStart(i) \/ StopAllOne(i)
           \/ \E c \in Commands : StopAllBegin(c)
    PROVE  UNCHANGED update
<1>1. CASE Boot \/ MainStopAll \/ ScmStop
    BY <1>1 DEF Boot, BootLoad, BootOrphan, BootSkip, BootKill, BootStart, BootReady,
                MainStopAll, ScmStop
<1>2. CASE WatchdogNext
    BY <1>2 DEF WatchdogNext, WdBegin, WdPass, WdAttempt, WdScan, WdKill, WdStart, WdGiveUp,
                WdEnd, WdStop, UnchangedByWatchdog
<1>3. CASE \E p \in Pids : CoreExit(p) \/ PidReuse(p)
    BY <1>3 DEF CoreExit, PidReuse
<1>4. CASE Query \/ ListInstances \/ StopAllEnd \/ Save
    BY <1>4 DEF Query, ListInstances, StopAllEnd, Save
<1>5. CASE \E i \in Instances :
             \/ SyncInstance(i) \/ RemoveInstance(i) \/ StartInstance(i)
             \/ StopInstance(i) \/ SetAutoStart(i) \/ StopAllOne(i)
    BY <1>5 DEF SyncInstance, RemoveInstance, StartInstance, StopInstance, SetAutoStart,
                StopAllOne
<1>6. CASE \E c \in Commands : StopAllBegin(c)
    BY <1>6 DEF StopAllBegin
<1> QED
    BY <1>1, <1>2, <1>3, <1>4, <1>5, <1>6

\* What a step may do to update_lock, the threads and their tasks.
LEMMA UpdateSteps ==
    ASSUME TypeInv, [Next]_vars
    PROVE  \/ UNCHANGED update
           \/ \E w \in Workers : WorkerStep(w)
           \/ \E w \in Workers : UpdateKernel(w)
           \/ CancelKernelUpdate
           \/ Gone
BY OthersLeaveUpdates
DEF Next, Main, MainExit, Environment, Crash, DispatchNext, vars

\* update_lock is only ever set while an update is under way, whatever is
\* cancelled, whatever fails: a finished update cannot leave it set and block
\* the requests that look at it.
THEOREM NoStuckUpdateLockAlways == Spec => []NoStuckUpdateLock
<1>1. Init => NoStuckUpdateLock
    BY DEF Init, NoStuckUpdateLock
<1>2. TypeInv /\ NoStuckUpdateLock /\ [Next]_vars => NoStuckUpdateLock'
    <2> SUFFICES ASSUME TypeInv, NoStuckUpdateLock, [Next]_vars
                 PROVE  NoStuckUpdateLock'
        OBVIOUS
    <2> USE DEF NoStuckUpdateLock, Updating
    <2>1. CASE UNCHANGED update
        BY <2>1 DEF update
    <2>2. ASSUME NEW w \in Workers, WorkerStep(w) PROVE NoStuckUpdateLock'
        BY <2>2, WorkerMoves
    <2>3. ASSUME NEW w \in Workers, UpdateKernel(w) PROVE NoStuckUpdateLock'
        BY <2>3 DEF UpdateKernel, FreshWorker, TypeInv, TypeOK, UpdateTypeOK
    <2>4. CASE CancelKernelUpdate \/ Gone
        BY <2>4 DEF CancelKernelUpdate, Gone
    <2> QED
        BY <2>1, <2>2, <2>3, <2>4, UpdateSteps
<1> QED
    BY <1>1, <1>2, InitType, NextType, PTL DEF Spec

\* The threads at work are covered by update_lock.
Covered == \A w \in Workers : Updating(w) => updateLock

LEMMA ExclusiveSteps ==
    ASSUME "cancel_kernel_update" \notin Commands,
           TypeInv, UpdateExclusive, Covered, [Next]_vars
    PROVE  UpdateExclusive' /\ Covered'
<1>1. CASE UNCHANGED update
    BY <1>1 DEF update, UpdateExclusive, Covered, Updating
<1>2. ASSUME NEW w \in Workers, WorkerStep(w) PROVE UpdateExclusive' /\ Covered'
    <2>1. \A v \in Workers \ {w} : ~Updating(v) /\ ~Updating(v)'
        BY <1>2, WorkerMoves DEF UpdateExclusive, Updating
    <2> QED
        BY <1>2, <2>1, WorkerMoves DEF UpdateExclusive, Covered
<1>3. ASSUME NEW w \in Workers, UpdateKernel(w) PROVE UpdateExclusive' /\ Covered'
    <2>1. \A v \in Workers : ~Updating(v)
        BY <1>3 DEF UpdateKernel, NotBusy, Covered
    <2>2. \A v \in Workers \ {w} : ~Updating(v)'
        BY <1>3, <2>1 DEF UpdateKernel, Updating, TypeInv, TypeOK, UpdateTypeOK
    <2> QED
        BY <1>3, <2>2 DEF UpdateKernel, UpdateExclusive, Covered
<1>4. CASE CancelKernelUpdate
    BY <1>4 DEF CancelKernelUpdate, Request
<1>5. CASE Gone
    BY <1>5 DEF Gone, UpdateExclusive, Covered, Updating, IdleWorker, FreshWorker
<1> QED
    BY <1>1, <1>2, <1>3, <1>4, <1>5, UpdateSteps

LEMMA InitExclusive == Init => UpdateExclusive /\ Covered
BY DEF Init, UpdateExclusive, Covered, Updating, IdleWorker, FreshWorker

\* As long as no client cancels an update, the flag alone keeps a second
\* update from starting, though it is not held as a mutex by the thread.
THEOREM OneUpdateAtATime ==
    ASSUME "cancel_kernel_update" \notin Commands
    PROVE  Spec => []UpdateExclusive
<1>1. TypeInv /\ UpdateExclusive /\ Covered /\ [Next]_vars => UpdateExclusive' /\ Covered'
    BY ExclusiveSteps
<1> QED
    BY <1>1, InitExclusive, InitType, NextType, PTL DEF Spec

(***************************************************************************)
(* The tasks.                                                              *)
(***************************************************************************)

\* A thread writes the phase of its own task only, and the one that
\* completes the task or lets it fail is its last.
LEMMA TaskMoves ==
    ASSUME TypeInv, NEW w \in Workers, WorkerStep(w)
    PROVE  /\ \A v \in Workers \ {w} : task'[v] = task[v]
           /\ Updating(w)' => \/ task'[w] = task[w]
                               \/ task'[w] \notin {"completed", "failed"}
<1> USE DEF TypeInv, TypeOK, UpdateTypeOK, Updating, At
<1>1. CASE WkReset(w) \/ WkProgress(w) \/ WkStageOk(w) \/ WkStageAbort(w)
             \/ WkNotCancelled(w) \/ WkSnapshot(w)
    BY <1>1 DEF WkReset, WkProgress, WkStageOk, WkStageAbort, WkNotCancelled, WkSnapshot,
                SetTask
<1>2. CASE WkStageErr(w) \/ WkAborted(w) \/ WkCancelled(w)
             \/ \E i \in Instances : WkStopErr(w, i)
    BY <1>2 DEF WkStageErr, WkAborted, WkCancelled, WkStopErr, Finish, IdleWorker, FreshWorker,
                SetTask
<1>3. CASE WkFinish(w)
    BY <1>3 DEF WkFinish, Finish, IdleWorker, FreshWorker, SetTask
<1>4. CASE WkStopBegin(w) \/ WkInstallBegin(w) \/ WkInstallOk(w) \/ WkInstallErr(w)
    BY <1>4 DEF WkStopBegin, WkInstallBegin, WkInstallOk, WkInstallErr, SetTask
<1>5. CASE \E i \in Instances : WkFilter(w, i)
    BY <1>5 DEF WkFilter
<1>6. CASE \E i \in Instances : WkStop(w, i) \/ WkStart(w, i)
    BY <1>6 DEF WkStop, WkStart
<1> QED
    BY <1>1, <1>2, <1>3, <1>4, <1>5, <1>6 DEF WorkerStep

\* A task that completed or failed has no thread any more that could still
\* report progress.
TaskOver == \A w \in Workers : Updating(w) => task[w] \notin {"completed", "failed"}

\* What one step keeps of the tasks.
TaskStays ==
    \A w \in Workers :
        task[w] \in {"completed", "failed"} /\ task'[w] # task[w] =>
            svc' = "down" \/ (~updateLock /\ task'[w] = "queued")

LEMMA TaskSteps ==
    ASSUME TypeInv, TaskOver, [Next]_vars
    PROVE  TaskOver' /\ TaskStays
<1>1. CASE UNCHANGED update
    BY <1>1 DEF update, TaskOver, TaskStays, Updating
<1>2. ASSUME NEW w \in Workers, WorkerStep(w) PROVE TaskOver' /\ TaskStays
    <2>1. task[w] \notin {"completed", "failed"}
        BY <1>2, WorkerMoves DEF TaskOver
    <2>2. \A v \in Workers \ {w} : worker'[v] = worker[v] /\ task'[v] = task[v]
        BY <1>2, WorkerMoves, TaskMoves
    <2>3. Updating(w)' => task'[w] \notin {"completed", "failed"}
        BY <1>2, <2>1, TaskMoves
    <2> QED
        BY <2>1, <2>2, <2>3 DEF TaskOver, TaskStays, Updating
<1>3. ASSUME NEW w \in Workers, UpdateKernel(w) PROVE TaskOver' /\ TaskStays
    BY <1>3 DEF UpdateKernel, NotBusy, TaskOver, TaskStays, Updating, FreshWorker,
                TypeInv, TypeOK, UpdateTypeOK
<1>4. CASE CancelKernelUpdate
    BY <1>4 DEF CancelKernelUpdate, Final, TaskOver, TaskStays, Updating
<1>5. CASE Gone
    BY <1>5 DEF Gone, TaskOver, TaskStays, Updating
<1> QED
    BY <1>1, <1>2, <1>3, <1>4, <1>5, UpdateSteps

\* What a client was told about the end of an update stays so, whatever is
\* cancelled and asked for again: no thread is left to overwrite it.
THEOREM FinalPhaseStaysAlways == Spec => FinalPhaseStays
<1>1. Init => TaskOver
    BY DEF Init, TaskOver
<1>2. TypeInv /\ TaskOver /\ [Next]_vars => TaskOver'
    BY TaskSteps
<1>3. TypeInv /\ TaskOver /\ [Next]_vars => [TaskStays]_vars
    BY TaskSteps
<1>4. Spec => [][TaskStays]_vars
    BY <1>1, <1>2, <1>3, InitType, NextType, PTL DEF Spec
<1> QED
    BY <1>4 DEF FinalPhaseStays, TaskStays

(***************************************************************************)
(* The configuration an update restores.                                   *)
(***************************************************************************)

\* What a step keeps of the configurations.
SameConfs ==
    \A i \in Instances :
        Known(i) => inst'[i] # None /\ inst'[i].conf = inst[i].conf

LEMMA SetDesiredKeeps ==
    ASSUME TypeInv, NEW i \in Instances, NEW d \in {"stopped", "running"},
           Known(i), SetDesired(i, d)
    PROVE  SameConfs
<1>1. inst[i] \in Config /\ inst'[i] = [inst[i] EXCEPT !.desired = d]
    BY DEF SetDesired, Known, TypeInv, TypeOK, ConfigTypeOK
<1>2. inst'[i].conf = inst[i].conf
    BY <1>1 DEF Config
<1>3. \A j \in Instances : Known(j) => Known(j)'
    BY SetFields DEF TypeInv, TypeOK
<1> QED
    BY <1>2, <1>3 DEF SetDesired, SameConfs, Known, TypeInv, TypeOK, ConfigTypeOK

LEMMA DispatchConfs ==
    ASSUME TypeInv, DispatchNext
    PROVE  SameConfs \/ (NotBusy /\ UNCHANGED update)
<1> USE DEF UnchangedControl
<1>1. CASE \/ Query \/ ListInstances \/ StopAllEnd \/ CancelKernelUpdate \/ Save
           \/ \E c \in Commands : StopAllBegin(c)
           \/ \E w \in Workers : UpdateKernel(w)
    BY <1>1 DEF Query, ListInstances, StopAllEnd, CancelKernelUpdate, Save, StopAllBegin,
                UpdateKernel, SameConfs, Known, config
<1>2. CASE \E i \in Instances :
             \/ SyncInstance(i) \/ RemoveInstance(i) \/ StartInstance(i)
             \/ StopInstance(i) \/ SetAutoStart(i)
    BY <1>2 DEF SyncInstance, RemoveInstance, StartInstance, StopInstance, SetAutoStart
<1>3. ASSUME NEW i \in Instances, StopAllOne(i) PROVE SameConfs
    <2>1. Known(i)
        BY <1>3 DEF StopAllOne, TypeInv, IpcRefs
    <2>2. CASE UNCHANGED inst
        BY <2>2 DEF SameConfs, Known
    <2>3. CASE SetDesired(i, "stopped")
        BY <2>1, <2>3, SetDesiredKeeps
    <2> QED
        BY <1>3, <2>2, <2>3 DEF StopAllOne
<1> QED
    BY <1>1, <1>2, <1>3 DEF DispatchNext

\* What a thread does to its copy of the configurations.
LEMMA WorkerRuns ==
    ASSUME TypeInv, NEW w \in Workers, WorkerStep(w)
    PROVE  /\ ThreadsRun /\ UNCHANGED <<inst, svc>>
           /\ ~Updating(w)' => worker'[w].run = NoConfs
           /\ \A i \in Instances :
                \/ worker'[w].run[i] \in {None, worker[w].run[i]}
                \/ Known(i) /\ worker'[w].run[i] = inst[i].conf
<1> USE DEF TypeInv, TypeOK, UpdateTypeOK, Updating, At, UnchangedElsewhere, config, control
<1>1. CASE WkReset(w) \/ WkProgress(w) \/ WkStageOk(w) \/ WkStageAbort(w)
             \/ WkNotCancelled(w)
    BY <1>1 DEF WkReset, WkProgress, WkStageOk, WkStageAbort, WkNotCancelled, GoTo
<1>2. CASE WkStageErr(w) \/ WkAborted(w) \/ WkCancelled(w) \/ WkFinish(w)
             \/ \E i \in Instances : WkStopErr(w, i)
    BY <1>2 DEF WkStageErr, WkAborted, WkCancelled, WkFinish, WkStopErr, Finish, IdleWorker,
                FreshWorker, NoConfs
<1>3. CASE WkSnapshot(w)
    BY <1>3 DEF WkSnapshot
<1>4. CASE WkStopBegin(w) \/ WkInstallBegin(w) \/ WkInstallOk(w) \/ WkInstallErr(w)
    BY <1>4 DEF WkStopBegin, WkInstallBegin, WkInstallOk, WkInstallErr, GoTo, GoWith
<1>5. CASE \E i \in Instances : WkFilter(w, i)
    BY <1>5 DEF WkFilter
<1>6. ASSUME NEW i \in Instances, WkStop(w, i) \/ WkStart(w, i)
      PROVE  /\ ThreadsRun /\ UNCHANGED <<inst, svc>>
             /\ Updating(w)' /\ worker'[w].run = worker[w].run
    <2>1. worker[w].pc \in {"stopping", "restarting", "restoring"}
        BY <1>6 DEF WkStop, WkStart
    <2>2. worker' = [worker EXCEPT ![w].todo = @ \ {i}]
        BY <1>6 DEF WkStop, WkStart
    <2>3. worker'[w].pc = worker[w].pc /\ worker'[w].run = worker[w].run
        BY <2>2
    <2> QED
        BY <1>6, <2>1, <2>3 DEF WkStop, WkStart
<1> QED
    BY <1>1, <1>2, <1>3, <1>4, <1>5, <1>6 DEF WorkerStep

\* The configurations only change while the service starts or ends, and in
\* requests that are refused during an update.
LEMMA ConfSteps ==
    ASSUME TypeInv, [Next]_vars
    PROVE  \/ SameConfs
           \/ ~ThreadsRun /\ UNCHANGED update
           \/ NotBusy /\ UNCHANGED update
           \/ Gone
<1>1. CASE UNCHANGED vars
    BY <1>1 DEF vars, config, SameConfs, Known
<1>2. CASE Boot
    BY <1>2, OthersLeaveUpdates
    DEF Boot, BootLoad, BootOrphan, BootSkip, BootKill, BootStart, BootReady, ThreadsRun
<1>3. CASE Main \/ Environment
    BY <1>3
    DEF Main, MainStopAll, MainExit, Environment, ScmStop, Crash, CoreExit, PidReuse,
        config, SameConfs, Known
<1>4. ASSUME NEW w \in Workers, WorkerStep(w) PROVE SameConfs
    BY <1>4, WorkerRuns DEF SameConfs, Known
<1>5. CASE WatchdogNext
    BY <1>5
    DEF WatchdogNext, WdBegin, WdPass, WdAttempt, WdScan, WdKill, WdStart, WdGiveUp, WdEnd,
        WdStop, UnchangedByWatchdog, config, SameConfs, Known
<1> QED
    BY <1>1, <1>2, <1>3, <1>4, <1>5, DispatchConfs DEF Next

\* The threads run until the process ends.
LEMMA ServiceRuns ==
    ASSUME TypeInv, [Next]_vars, ThreadsRun
    PROVE  ThreadsRun' \/ Gone
<1> USE DEF ThreadsRun
<1>1. CASE UNCHANGED vars
    BY <1>1 DEF vars, control
<1>2. CASE Boot
    BY <1>2 DEF Boot, BootLoad, BootOrphan, BootSkip, BootKill, BootStart, BootReady
<1>3. CASE Main \/ Environment
    BY <1>3
    DEF Main, MainStopAll, MainExit, Environment, ScmStop, Crash, CoreExit, PidReuse, control
<1>4. CASE DispatchNext
    BY <1>4
    DEF DispatchNext, Query, ListInstances, SyncInstance, RemoveInstance, StartInstance,
        StopInstance, SetAutoStart, StopAllOne, StopAllBegin, StopAllEnd, UpdateKernel,
        CancelKernelUpdate, Save, UnchangedControl, control
<1>5. ASSUME NEW w \in Workers, WorkerStep(w) PROVE ThreadsRun'
    BY <1>5, WorkerRuns
<1>6. CASE WatchdogNext
    BY <1>6
    DEF WatchdogNext, WdBegin, WdPass, WdAttempt, WdScan, WdKill, WdStart, WdGiveUp, WdEnd,
        WdStop, UnchangedByWatchdog, control
<1> QED
    BY <1>1, <1>2, <1>3, <1>4, <1>5, <1>6 DEF Next

\* The copies that the threads work with are current.  Covered keeps the
\* requests that would change a configuration out as long as there are any.
RunInv ==
    /\ Covered
    /\ ~ThreadsRun => \A w \in Workers : ~Updating(w)
    /\ \A w \in Workers : ~Updating(w) => worker[w].run = NoConfs
    /\ \A w \in Workers, i \in Instances :
         worker[w].run[i] # None => Known(i) /\ inst[i].conf = worker[w].run[i]

LEMMA InitRun == Init => RunInv
BY InitExclusive DEF Init, RunInv, Updating, IdleWorker, FreshWorker, NoConfs

LEMMA RunSteps ==
    ASSUME "cancel_kernel_update" \notin Commands,
           TypeInv, UpdateExclusive, RunInv, [Next]_vars
    PROVE  RunInv'
<1>1. Covered'
    BY ExclusiveSteps DEF RunInv
<1>2. CASE UNCHANGED update
    <2>1. worker' = worker
        BY <1>2 DEF update
    <2>2. ~ThreadsRun' => ~ThreadsRun \/ Gone
        BY ServiceRuns
    <2>3. (\A w \in Workers : ~Updating(w)) \/ SameConfs \/ Gone
        BY ConfSteps DEF RunInv, Covered, NotBusy
    <2> QED
        BY <1>1, <2>1, <2>2, <2>3
        DEF RunInv, Updating, SameConfs, Known, NoConfs, Gone, IdleWorker, FreshWorker
<1>3. ASSUME NEW w \in Workers, WorkerStep(w) PROVE RunInv'
    <2>1. /\ ThreadsRun /\ ThreadsRun'
          /\ \A v \in Workers \ {w} : worker'[v] = worker[v]
        BY <1>3, WorkerRuns, WorkerMoves DEF ThreadsRun
    <2> QED
        BY <1>1, <1>3, <2>1, WorkerRuns DEF RunInv, Updating, Known
<1>4. ASSUME NEW w \in Workers, UpdateKernel(w) PROVE RunInv'
    BY <1>1, <1>4
    DEF UpdateKernel, UnchangedControl, control, RunInv, Updating, FreshWorker, NoConfs,
        Known, Request, ThreadsRun, TypeInv, TypeOK, UpdateTypeOK
<1>5. CASE CancelKernelUpdate
    BY <1>5 DEF CancelKernelUpdate, Request
<1>6. CASE Gone
    BY <1>1, <1>6 DEF Gone, RunInv, Updating, IdleWorker, FreshWorker, NoConfs
<1> QED
    BY <1>2, <1>3, <1>4, <1>5, <1>6, UpdateSteps

\* A core that appears in a step of an update runs the configuration the
\* service holds for its network.
StartsCurrent ==
    Restarting /\ worker' # worker =>
        \A p \in Pids : proc'[p] \in Core /\ proc'[p] # proc[p] =>
            inst[proc'[p].id] # None /\ proc'[p].conf = inst[proc'[p].id].conf

LEMMA CurrentSteps ==
    ASSUME TypeInv, RunInv, [Next]_vars
    PROVE  StartsCurrent
<1>1. ASSUME NEW w \in Workers, NEW i \in Instances, WkStart(w, i) PROVE StartsCurrent
    <2>1. worker[w].run[i] # None
        BY <1>1 DEF WkStart, At, TypeInv, WorkerRefs
    <2>2. inst[i] # None /\ inst[i].conf = worker[w].run[i]
        BY <2>1 DEF RunInv, Known
    <2>3. \/ proc' = proc
          \/ \E p \in Pids : proc' = [proc EXCEPT ![p] = [id |-> i, conf |-> worker[w].run[i]]]
        BY <1>1 DEF WkStart, StartOk, StartRunning, StartSpawn, StartErr, FreePids
    <2> QED
        BY <2>2, <2>3 DEF StartsCurrent, TypeInv, TypeOK, RuntimeTypeOK
<1>2. ASSUME NEW w \in Workers, WorkerStep(w), \A i \in Instances : ~WkStart(w, i)
      PROVE  \A p \in Pids : proc'[p] \in {proc[p], None}
    <2>1. ASSUME NEW i \in Instances, WkStop(w, i) \/ WkStopErr(w, i)
          PROVE  \A p \in Pids : proc'[p] \in {proc[p], None}
        BY <2>1 DEF WkStop, WkStopErr, StopOk, StopErr, Terminate, Without
    <2>2. CASE \/ WkReset(w) \/ WkProgress(w) \/ WkStageOk(w) \/ WkStageErr(w)
               \/ WkStageAbort(w) \/ WkAborted(w) \/ WkCancelled(w) \/ WkNotCancelled(w)
        BY <2>2 DEF WkReset, WkProgress, WkStageOk, WkStageErr, WkStageAbort, WkAborted,
                    WkCancelled, WkNotCancelled, runtime
    <2>3. CASE \/ WkStopBegin(w) \/ WkInstallBegin(w) \/ WkInstallOk(w)
               \/ WkInstallErr(w) \/ WkFinish(w) \/ WkSnapshot(w)
               \/ \E i \in Instances : WkFilter(w, i)
        BY <2>3 DEF WkStopBegin, WkInstallBegin, WkInstallOk, WkInstallErr, WkFinish,
                    WkSnapshot, WkFilter, runtime
    <2> QED
        BY <1>2, <2>1, <2>2, <2>3 DEF WorkerStep
<1>3. ASSUME \A p \in Pids : proc'[p] \in {proc[p], None} PROVE StartsCurrent
    BY <1>3, RuntimeAssumption DEF StartsCurrent
<1>4. CASE UNCHANGED update
    BY <1>4 DEF update, StartsCurrent
<1>5. CASE (\E w \in Workers : UpdateKernel(w)) \/ CancelKernelUpdate \/ Gone
    BY <1>3, <1>5 DEF UpdateKernel, CancelKernelUpdate, Gone, runtime
<1> QED
    BY <1>1, <1>2, <1>3, <1>4, <1>5, UpdateSteps

\* As long as no client cancels an update, a network that an update starts
\* again gets the configuration the service holds for it by then, though
\* the thread cloned it before the download's networks were stopped.
THEOREM RestartsCurrentConfAlways ==
    ASSUME "cancel_kernel_update" \notin Commands
    PROVE  Spec => RestartsCurrentConf
<1> DEFINE IInv == UpdateExclusive /\ RunInv
<1>1. Init => IInv
    BY InitRun, InitExclusive
<1>2. TypeInv /\ IInv /\ [Next]_vars => IInv'
    BY RunSteps, ExclusiveSteps DEF RunInv
<1>3. TypeInv /\ IInv /\ [Next]_vars => [StartsCurrent]_vars
    BY CurrentSteps
<1> HIDE DEF IInv
<1>4. Spec => [][StartsCurrent]_vars
    BY <1>1, <1>2, <1>3, InitType, NextType, PTL DEF Spec
<1> QED
    BY <1>4 DEF RestartsCurrentConf, StartsCurrent

(***************************************************************************)
(* The file.                                                               *)
(***************************************************************************)

\* What the environment must do right for the file to follow memory.
Writable == {"save", "kill"} \cap Faults = {}

\* A request that holds the state mutex between its steps is the only one
\* with instances left to stop.
DurInv == DurableWhenQuiet /\ (ipc.cmd = "none" => ipc.todo = {})

LEMMA BootDurable ==
    ASSUME Writable, DurInv, Boot
    PROVE  DurInv'
BY DEF Writable, DurInv, DurableWhenQuiet, Agrees, StateFree, Boot, BootLoad, BootOrphan,
       BootSkip, BootKill, BootStart, BootReady, config

LEMMA MainDurable ==
    ASSUME DurInv, Main \/ Environment
    PROVE  DurInv'
BY DEF DurInv, DurableWhenQuiet, StateFree, NoIpc, Main, MainStopAll, MainExit, Environment,
       ScmStop, Crash, Gone, CoreExit, PidReuse, config, control

\* A network that could not be started is wanted in memory, and perhaps not
\* in the file.
LEMMA WantedAgrees ==
    ASSUME ConfigTypeOK, NEW i \in Instances, Known(i), SetDesired(i, "running"),
           \A j \in Instances : Agrees(inst[j], disk[j])
    PROVE  \A j \in Instances : Agrees(inst'[j], disk[j])
<1>1. CASE inst[i] = disk[i]
    <2>1. inst'[i] # None
        BY SetFields DEF Known
    <2>2. inst'[i] = [disk[i] EXCEPT !.desired = "running"]
        BY <1>1 DEF ConfigTypeOK, SetDesired
    <2>3. Agrees(inst'[i], disk[i])
        BY <1>1, <2>1, <2>2 DEF Agrees, Known
    <2>4. \A j \in Instances \ {i} : inst'[j] = inst[j]
        BY DEF ConfigTypeOK, SetDesired
    <2> QED
        BY <2>3, <2>4
<1>2. CASE inst[i] # disk[i]
    <2>1. disk[i] # None /\ disk[i] \in Config /\ inst[i] \in Config
        BY <1>2 DEF ConfigTypeOK, Known, Agrees
    <2>2. inst[i] = [disk[i] EXCEPT !.desired = "running"]
        BY <1>2 DEF Agrees
    <2>3. inst'[i] = inst[i]
        BY <2>1, <2>2 DEF ConfigTypeOK, SetDesired, Config
    <2> QED
        BY <2>3 DEF ConfigTypeOK, SetDesired
<1> QED
    BY <1>1, <1>2

LEMMA DispatchDurable ==
    ASSUME Writable, TypeInv, DurInv, DispatchNext
    PROVE  DurInv'
<1> USE DEF TypeInv, TypeOK, ConfigTypeOK, IpcTypeOK, DurInv, DurableWhenQuiet, StateFree,
            NoIpc
<1>1. ASSUME Respond, StateFree, UNCHANGED ipc PROVE DurInv'
    BY <1>1 DEF Respond
<1>2. CASE \/ Query \/ ListInstances \/ CancelKernelUpdate
           \/ \E w \in Workers : UpdateKernel(w)
           \/ \E i \in Instances : SyncInstance(i) \/ SetAutoStart(i)
    BY <1>1, <1>2 DEF Query, ListInstances, CancelKernelUpdate, UpdateKernel, SyncInstance,
                      SetAutoStart, Request
<1>3. ASSUME NEW i \in Instances, RemoveInstance(i) PROVE DurInv'
    BY <1>1, <1>3 DEF RemoveInstance, RespondError, Request, UnchangedControl, control
<1>4. ASSUME NEW i \in Instances, StartInstance(i) PROVE DurInv'
    BY <1>1, <1>4, WantedAgrees
    DEF StartInstance, RespondError, Request, UnchangedControl, control
<1>5. ASSUME NEW i \in Instances, StopInstance(i) PROVE DurInv'
    BY <1>1, <1>5 DEF StopInstance, StopErr, Writable, Request
<1>6. CASE \E c \in Commands : StopAllBegin(c)
    BY <1>6 DEF StopAllBegin
<1>7. ASSUME NEW i \in Instances, StopAllOne(i) PROVE DurInv'
    BY <1>7 DEF StopAllOne
<1>8. CASE StopAllEnd
    BY <1>8 DEF StopAllEnd, Respond
<1>9. CASE Save
    BY <1>9 DEF Save, Writable, Agrees
<1> QED
    BY <1>2, <1>3, <1>4, <1>5, <1>6, <1>7, <1>8, <1>9 DEF DispatchNext

\* The threads beside the IPC handlers write neither the file nor memory.
LEMMA ThreadsDurable ==
    ASSUME TypeInv, DurInv, WatchdogNext \/ \E w \in Workers : WorkerStep(w)
    PROVE  DurInv'
<1>1. CASE WatchdogNext
    BY <1>1
    DEF WatchdogNext, WdBegin, WdPass, WdAttempt, WdScan, WdKill, WdStart, WdGiveUp, WdEnd,
        WdStop, UnchangedByWatchdog, config, control, DurInv, DurableWhenQuiet, StateFree
<1>2. ASSUME NEW w \in Workers, WorkerStep(w) PROVE DurInv'
    <2>1. UnchangedElsewhere
        BY <1>2
        DEF WorkerStep, WkReset, WkProgress, WkStageOk, WkStageErr, WkStageAbort, WkAborted,
            WkCancelled, WkNotCancelled, WkSnapshot, WkStopBegin, WkInstallBegin,
            WkInstallOk, WkInstallErr, WkFinish, WkFilter, WkStop, WkStopErr, WkStart
    <2> QED
        BY <2>1 DEF UnchangedElsewhere, config, control, DurInv, DurableWhenQuiet, StateFree
<1> QED
    BY <1>1, <1>2

\* If the file can be written and a stop does what it says, the file agrees
\* with memory whenever no request is being answered: a restart of the
\* service never brings back a network whose stop was acknowledged.
THEOREM DurableAlways ==
    ASSUME Writable
    PROVE  Spec => []DurableWhenQuiet
<1>1. Init => DurInv
    BY DEF Init, DurInv, DurableWhenQuiet, NoIpc
<1>2. TypeInv /\ DurInv /\ [Next]_vars => DurInv'
    <2> SUFFICES ASSUME TypeInv, DurInv, [Next]_vars PROVE DurInv'
        OBVIOUS
    <2>1. CASE UNCHANGED vars
        BY <2>1 DEF vars, config, control, DurInv, DurableWhenQuiet, StateFree
    <2> QED
        BY <2>1, BootDurable, MainDurable, DispatchDurable, ThreadsDurable DEF Next
<1>3. DurInv => DurableWhenQuiet
    BY DEF DurInv
<1> QED
    BY <1>1, <1>2, <1>3, InitType, NextType, PTL DEF Spec

(***************************************************************************)
(* No network ever has two cores, no core is out of the service's books    *)
(* once it is up, and no network that was stopped has a core or gets one   *)
(* from a late start: for every set of networks and pids, through          *)
(* crashes of the service and the cores, failed starts, reused pids,       *)
(* cancelled and concurrent kernel updates, and orderly shutdowns.         *)
(*                                                                         *)
(* It takes a process table the service can trust (a terminated process    *)
(* goes away and a scan sees what runs) and a fixed set of networks: when  *)
(* the service dies before the file knows a network, or after the file has *)
(* forgotten one, no later scan looks for that network's core.             *)
(***************************************************************************)

Trusted ==
    /\ {"kill", "scan"} \cap Faults = {}
    /\ "remove_instance" \notin Commands
    /\ Preset = Instances

\* Every network is in the file, and in memory while there is a process.
AllKnown ==
    /\ \A i \in Instances : disk[i] # None
    /\ svc # "down" => \A i \in Instances : Known(i)

\* During start-up a loose core is the orphan the scan found for its network,
\* and the network is still to be dealt with.  AtMostOneCore alone is not
\* kept by BootStart: it needs to know that no orphan is left by then.
BootInv ==
    /\ \A p \in Loose :
         /\ p = boot.orphans[proc[p].id]
         /\ proc[p].id \in boot.check \cup boot.start
    /\ \A i \in boot.check : Wanted(i) => i \in boot.start
    /\ \A i \in Instances : adopted[i] \in {None, boot.orphans[i]}

CoreInv ==
    /\ AtMostOneCore
    /\ AllKnown
    /\ svc = "down" => adopted = NoConfs
    /\ svc = "boot" => BootInv
    /\ ThreadsRun => Loose = {}

\* What a step that only touches processes and books must preserve.
LEMMA Calm ==
    ASSUME TypeInv, CoreInv, NoMoreLoose /\ (Single => Single'),
           UNCHANGED <<svc, boot>>,
           svc = "boot" => UNCHANGED <<adopted, inst>>, AllKnown',
           svc = "down" => UNCHANGED adopted
    PROVE  CoreInv'
<1>1. AtMostOneCore'
    BY DEF CoreInv, AtMostOneCore, Single
<1>2. svc = "boot" => BootInv'
    BY DEF CoreInv, BootInv, NoMoreLoose, Wanted, Known
<1>3. ThreadsRun' => Loose' = {}
    BY DEF CoreInv, NoMoreLoose, ThreadsRun
<1> QED
    BY <1>1, <1>2, <1>3 DEF CoreInv, NoConfs

\* The books and the processes are not touched at all.
LEMMA Untouched ==
    RuntimeTypeOK /\ UNCHANGED runtime => NoMoreLoose /\ (Single => Single')
BY DEF runtime, NoMoreLoose, Loose, IsCore, Tracked, Single

LEMMA KeptKnown ==
    AllKnown /\ UNCHANGED <<svc, inst, disk>> => AllKnown'
BY DEF AllKnown, Known

LEMMA BootCores ==
    ASSUME Trusted, TypeInv, CoreInv, Boot
    PROVE  CoreInv'
<1> USE DEF TypeInv, TypeOK
<1>1. CASE BootLoad
    <2>1. PICK found \in [Instances -> Pids \cup {None}] :
            /\ \A i \in Instances :
                 found[i] \in IF disk[i] = None THEN {None} ELSE ScanResults(i)
            /\ boot' = [orphans |-> found,
                        check |-> {i \in Instances : found[i] # None},
                        start |-> {i \in Instances :
                                     /\ disk[i] # None
                                     /\ disk[i].auto \/ disk[i].desired = "running"}]
        BY <1>1 DEF BootLoad
    <2>2. svc = "down" /\ svc' = "boot" /\ inst' = disk /\ UNCHANGED <<disk, runtime>>
        BY <1>1 DEF BootLoad
    <2>3. AllKnown'
        BY <2>2 DEF CoreInv, AllKnown, Known
    <2>4. ASSUME NEW p \in Loose'
          PROVE  found[proc[p].id] = p /\ proc'[p] = proc[p] /\ proc[p].id \in Instances
        <3>1. p \in Pids /\ IsCore(p) /\ proc'[p] = proc[p]
            BY <2>2, <2>4 DEF Loose, IsCore, runtime
        <3>2. proc[p].id \in Instances /\ disk[proc[p].id] # None
            BY <3>1 DEF RuntimeTypeOK, IsCore, Core, CoreInv, AllKnown
        <3>3. p \in CoresOf(proc[p].id)
            BY <3>1 DEF CoresOf
        <3>4. found[proc[p].id] \in CoresOf(proc[p].id)
            BY <2>1, <3>2, <3>3 DEF ScanResults, Trusted
        <3> QED
            BY <3>1, <3>2, <3>4 DEF CoresOf, CoreInv, AtMostOneCore
    <2>5. BootInv'
        <3>1. \A p \in Loose' : p # None
            BY RuntimeAssumption DEF Loose
        <3>2. \A p \in Loose' : p = boot'.orphans[proc'[p].id] /\ proc'[p].id \in boot'.check
            BY <2>1, <2>4, <3>1
        <3>3. \A i \in boot'.check : Wanted(i)' => i \in boot'.start
            BY <2>1, <2>2 DEF Wanted, Known
        <3>4. \A i \in Instances : adopted'[i] = None
            BY <2>2 DEF CoreInv, NoConfs, runtime
        <3> QED
            BY <3>2, <3>3, <3>4 DEF BootInv
    <2> QED
        BY <2>2, <2>3, <2>5, Untouched DEF CoreInv, ThreadsRun, AtMostOneCore, Single
<1>2. ASSUME NEW i \in Instances, BootOrphan(i) PROVE CoreInv'
    <2>1. /\ svc = "boot" /\ i \in boot.check /\ BootInv
          /\ boot' = [boot EXCEPT !.check = @ \ {i}]
          /\ UNCHANGED <<svc, inst, disk, children>>
        BY <1>2 DEF BootOrphan, CoreInv, Adopt, runtime, config
    <2>2. /\ boot'.check = boot.check \ {i} /\ boot'.start = boot.start
          /\ boot'.orphans = boot.orphans
        BY <2>1 DEF ControlTypeOK
    <2>3. NoMoreLoose /\ (Single => Single')
        <3>1. CASE Terminate({boot.orphans[i]}) /\ UNCHANGED <<children, adopted>>
            BY <3>1, DeathLoose DEF Terminate
        <3>2. CASE Adopt(i, boot.orphans[i])
            BY <2>1, <3>2 DEF Adopt, NoMoreLoose, Loose, Tracked, IsCore, Single, BootInv,
                             RuntimeTypeOK
        <3>3. CASE UNCHANGED runtime
            BY <3>3, Untouched
        <3> QED
            BY <1>2, <3>1, <3>2, <3>3 DEF BootOrphan
    <2>4. ASSUME NEW p \in Loose', proc'[p].id = i PROVE i \in boot.start
        <3>1. p \in Loose /\ proc'[p] = proc[p] /\ p = boot.orphans[i]
            BY <2>1, <2>3, <2>4 DEF NoMoreLoose, BootInv
        <3>2. p \in Pids /\ IsCore(p)' /\ p \notin Tracked(i)'
            BY <2>4 DEF Loose
        <3>3. CASE ~Wanted(i)
            <4>1. proc' = Without({p})
                BY <1>2, <3>1, <3>3 DEF BootOrphan, Terminate, Deaths, Trusted
            <4> QED
                BY <3>2, <4>1 DEF Without, IsCore
        <3>4. CASE Wanted(i)
            BY <2>1, <3>4 DEF BootInv
        <3> QED
            BY <3>3, <3>4
    <2>5. \A p \in Loose' : p = boot'.orphans[proc'[p].id]
                            /\ proc'[p].id \in boot'.check \cup boot'.start
        BY <2>1, <2>2, <2>3, <2>4 DEF NoMoreLoose, BootInv
    <2>6. \A j \in boot'.check : Wanted(j)' => j \in boot'.start
        BY <2>1, <2>2 DEF BootInv, Wanted, Known
    <2>7. \A j \in Instances : adopted'[j] \in {None, boot'.orphans[j]}
        BY <1>2, <2>1, <2>2 DEF BootOrphan, BootInv, Adopt, runtime, RuntimeTypeOK
    <2>8. BootInv'
        BY <2>5, <2>6, <2>7 DEF BootInv
    <2> QED
        BY <2>1, <2>3, <2>8, KeptKnown DEF CoreInv, AtMostOneCore, Single, ThreadsRun
<1>3. ASSUME NEW i \in Instances, BootSkip(i) PROVE CoreInv'
    <2>1. /\ svc = "boot" /\ BootInv /\ adopted[i] # None
          /\ UNCHANGED <<svc, inst, disk, runtime>>
        BY <1>3 DEF BootSkip, CoreInv, config
    <2>2. /\ boot'.check = boot.check /\ boot'.start = boot.start \ {i}
          /\ boot'.orphans = boot.orphans
        BY <1>3 DEF BootSkip, ControlTypeOK
    <2>3. NoMoreLoose /\ (Single => Single')
        BY <2>1, Untouched
    <2>4. \A p \in Loose : proc[p].id # i
        BY <2>1 DEF BootInv, Loose, Tracked
    <2>5. BootInv'
        <3>1. \A p \in Loose' : p = boot'.orphans[proc'[p].id]
                                /\ proc'[p].id \in boot'.check \cup boot'.start
            BY <2>1, <2>2, <2>3, <2>4 DEF NoMoreLoose, BootInv
        <3>2. \A j \in boot'.check : Wanted(j)' => j \in boot'.start
            <4>1. \A j \in boot.check : j # i
                BY <1>3 DEF BootSkip
            <4> QED
                BY <2>1, <2>2, <4>1 DEF BootInv, Wanted, Known
        <3>3. \A j \in Instances : adopted'[j] \in {None, boot'.orphans[j]}
            BY <2>1, <2>2 DEF BootInv, runtime
        <3> QED
            BY <3>1, <3>2, <3>3 DEF BootInv
    <2> QED
        BY <2>1, <2>3, <2>5, KeptKnown DEF CoreInv, AtMostOneCore, Single, ThreadsRun
<1>4. ASSUME NEW i \in Instances, BootKill(i) PROVE CoreInv'
    <2>1. /\ svc = "boot" /\ BootInv /\ adopted[i] = None /\ boot.check = {}
          /\ proc' = Without({boot.orphans[i]})
          /\ UNCHANGED <<svc, inst, disk, children, adopted>>
        BY <1>4 DEF BootKill, CoreInv, config, Terminate, Deaths, Trusted
    <2>2. /\ boot'.check = {} /\ boot'.start = boot.start
          /\ boot'.orphans = [boot.orphans EXCEPT ![i] = None]
        BY <1>4, <2>1 DEF BootKill, ControlTypeOK
    <2>3. NoMoreLoose /\ (Single => Single')
        BY <2>1, DeathLoose
    <2>4. ASSUME NEW p \in Loose' PROVE proc'[p] = proc[p] /\ p \in Loose /\ proc[p].id # i
        BY <2>1, <2>3, <2>4 DEF NoMoreLoose, BootInv, Loose, Without, IsCore
    <2>5. ASSUME NEW p \in Loose' PROVE proc[p].id \in Instances
        BY <2>4, <2>5 DEF Loose, IsCore, RuntimeTypeOK, Core
    <2>6. BootInv'
        <3>1. \A p \in Loose' : p = boot'.orphans[proc'[p].id]
                                /\ proc'[p].id \in boot'.check \cup boot'.start
            <4> SUFFICES ASSUME NEW p \in Loose'
                         PROVE  /\ p = boot'.orphans[proc[p].id]
                                /\ proc[p].id \in boot'.start
                BY <2>4
            <4>1. p = boot.orphans[proc[p].id] /\ proc[p].id \in boot.start
                BY <2>1, <2>4 DEF BootInv
            <4>2. \A j \in Instances \ {i} : boot'.orphans[j] = boot.orphans[j]
                BY <2>2 DEF ControlTypeOK
            <4> QED
                BY <2>2, <2>4, <2>5, <4>1, <4>2
        <3>2. \A j \in Instances : adopted'[j] \in {None, boot'.orphans[j]}
            BY <2>1, <2>2 DEF BootInv, ControlTypeOK
        <3> QED
            BY <2>2, <3>1, <3>2 DEF BootInv
    <2> QED
        BY <2>1, <2>3, <2>6, KeptKnown DEF CoreInv, AtMostOneCore, Single, ThreadsRun
<1>5. ASSUME NEW i \in Instances, BootStart(i) PROVE CoreInv'
    <2>1. /\ svc = "boot" /\ BootInv /\ boot.check = {}
          /\ boot.orphans[i] = None /\ Known(i)
          /\ UNCHANGED <<svc, disk>>
        BY <1>5 DEF BootStart, CoreInv, BootRefs
    <2>2. /\ boot'.check = {} /\ boot'.start = boot.start \ {i}
          /\ boot'.orphans = boot.orphans
        BY <1>5, <2>1 DEF BootStart, ControlTypeOK
    <2>3. \A p \in Loose : proc[p].id # i
        BY <2>1, RuntimeAssumption DEF BootInv, Loose
    <2>4. NoMoreLoose /\ (Single => Single')
        <3>1. CoresOf(i) \cap Loose = {}
            BY <2>3 DEF CoresOf
        <3> QED
            BY <1>5, <2>1, <3>1, StartOkLoose, StartErrLoose, SetFields DEF BootStart
    <2>5. \A j \in Instances : adopted'[j] \in {None, adopted[j]}
        BY <1>5 DEF BootStart, StartOk, StartRunning, StartSpawn, StartErr, Reap, RuntimeTypeOK
    <2>6. AllKnown'
        BY <1>5, <2>1, SetFields DEF BootStart, CoreInv, AllKnown, Known
    <2>7. BootInv'
        BY <2>1, <2>2, <2>3, <2>4, <2>5 DEF BootInv, NoMoreLoose
    <2> QED
        BY <2>1, <2>4, <2>6, <2>7 DEF CoreInv, AtMostOneCore, Single, ThreadsRun
<1>6. CASE BootReady
    <2>1. Loose = {}
        BY <1>6 DEF BootReady, CoreInv, BootInv
    <2>2. NoMoreLoose /\ (Single => Single')
        BY <1>6, Untouched DEF BootReady
    <2>3. AllKnown'
        BY <1>6 DEF BootReady, CoreInv, AllKnown, Known
    <2> QED
        BY <1>6, <2>1, <2>2, <2>3
        DEF BootReady, CoreInv, AtMostOneCore, Single, NoMoreLoose, ThreadsRun
<1> QED
    BY <1>1, <1>2, <1>3, <1>4, <1>5, <1>6 DEF Boot

LEMMA MainCores ==
    ASSUME Trusted, TypeInv, CoreInv, Main \/ Environment
    PROVE  CoreInv'
<1> USE DEF TypeInv, TypeOK
<1>1. CASE MainStopAll
    <2>1. NoMoreLoose /\ (Single => Single')
        BY <1>1, StopAllLoose DEF MainStopAll, Trusted
    <2> QED
        BY <1>1, <2>1 DEF MainStopAll, CoreInv, AllKnown, Known, ThreadsRun, config,
                          NoMoreLoose, Single, AtMostOneCore
<1>2. CASE MainExit \/ Crash
    BY <1>2 DEF MainExit, Crash, Gone, CoreInv, AllKnown, AtMostOneCore, IsCore, ThreadsRun
<1>3. CASE ScmStop
    BY <1>3, Untouched, KeptKnown, Calm DEF ScmStop, CoreInv, runtime, config
<1>4. ASSUME NEW p \in Pids, CoreExit(p) \/ PidReuse(p) PROVE CoreInv'
    <2>1. NoMoreLoose /\ (Single => Single')
        BY <1>4, ExitLoose, ReuseLoose DEF CoreExit, PidReuse
    <2> QED
        BY <1>4, <2>1, KeptKnown, Calm
        DEF CoreExit, PidReuse, ProcessExit, PidReused, config, control, CoreInv
<1> QED
    BY <1>1, <1>2, <1>3, <1>4 DEF Main, Environment

\* What the threads beside the main thread need of the invariant, and what
\* they must keep of it.
LEMMA Threads ==
    ASSUME TypeInv, CoreInv, ThreadsRun
    PROVE  /\ Loose = {} /\ AllKnown
           /\ \A i \in Instances : CoresOf(i) \cap Loose = {}
           /\ /\ NoMoreLoose /\ (Single => Single')
              /\ UNCHANGED <<svc, boot>> /\ AllKnown'
              => CoreInv'
BY Calm DEF CoreInv, ThreadsRun

LEMMA DispatchCores ==
    ASSUME Trusted, TypeInv, CoreInv, DispatchNext
    PROVE  CoreInv'
<1> USE DEF TypeInv, TypeOK, UnchangedControl, control
<1>1. CASE \/ Query \/ StopAllEnd \/ CancelKernelUpdate
           \/ \E c \in Commands : StopAllBegin(c)
           \/ \E w \in Workers : UpdateKernel(w)
    BY <1>1, Threads, Untouched, KeptKnown
    DEF Query, StopAllEnd, CancelKernelUpdate, StopAllBegin, UpdateKernel, Request,
        config, runtime
<1>2. CASE ListInstances
    BY <1>2, Threads, ReapLoose, KeptKnown DEF ListInstances, Request
<1>3. ASSUME NEW i \in Instances, SyncInstance(i) \/ SetAutoStart(i) PROVE CoreInv'
    <2>1. AllKnown'
        <3>1. CASE SyncInstance(i)
            <4>1. PICK c \in Confs, a \in AutoValues, d \in {"stopped", "running"} :
                     inst' = [inst EXCEPT ![i] = [conf |-> c, auto |-> a, desired |-> d]]
                BY <3>1 DEF SyncInstance
            <4>2. [conf |-> c, auto |-> a, desired |-> d] \in Config
                BY ServiceAssumption DEF Config
            <4> QED
                BY <3>1, <4>1, <4>2, ServiceAssumption, RuntimeAssumption
                DEF SyncInstance, CoreInv, AllKnown, Known, ConfigTypeOK
        <3>2. CASE SetAutoStart(i)
            BY <3>2, ServiceAssumption, SetFields DEF SetAutoStart, CoreInv, AllKnown
        <3> QED
            BY <1>3, <3>1, <3>2
    <2> QED
        BY <1>3, <2>1, Threads, Untouched DEF SyncInstance, SetAutoStart, Request
<1>4. ASSUME NEW i \in Instances, RemoveInstance(i) PROVE CoreInv'
    BY <1>4 DEF RemoveInstance, Request, Trusted
<1>5. ASSUME NEW i \in Instances, StartInstance(i) PROVE CoreInv'
    <2>1. ThreadsRun /\ Known(i) /\ inst[i].conf \in Confs
        BY <1>5, SetFields DEF StartInstance, Request
    <2>2. NoMoreLoose /\ (Single => Single')
        BY <1>5, <2>1, Threads, StartOkLoose, StartErrLoose DEF StartInstance
    <2>3. AllKnown'
        BY <1>5, <2>1, SetFields DEF StartInstance, CoreInv, AllKnown
    <2> QED
        BY <1>5, <2>1, <2>2, <2>3, Threads DEF StartInstance
<1>6. ASSUME NEW i \in Instances, StopInstance(i) PROVE CoreInv'
    <2>1. NoMoreLoose /\ (Single => Single')
        BY <1>6, StopLoose DEF StopInstance, Trusted
    <2>2. AllKnown'
        BY <1>6, SetFields DEF StopInstance, CoreInv, AllKnown
    <2> QED
        BY <1>6, <2>1, <2>2, Threads DEF StopInstance, Request
<1>7. ASSUME NEW i \in Instances, StopAllOne(i) PROVE CoreInv'
    <2>1. Known(i) /\ ThreadsRun
        BY <1>7 DEF StopAllOne, IpcRefs
    <2>2. NoMoreLoose /\ (Single => Single')
        BY <1>7, StopLoose, ReapLoose DEF StopAllOne, Trusted
    <2>3. AllKnown'
        BY <1>7, <2>1, SetFields DEF StopAllOne, CoreInv, AllKnown, Known
    <2> QED
        BY <1>7, <2>1, <2>2, <2>3, Threads DEF StopAllOne
<1>8. CASE Save
    <2>1. AllKnown'
        BY <1>8 DEF Save, CoreInv, AllKnown, Known, ThreadsRun
    <2> QED
        BY <1>8, <2>1, Threads, Untouched DEF Save
<1> QED
    BY <1>1, <1>2, <1>3, <1>4, <1>5, <1>6, <1>7, <1>8 DEF DispatchNext

LEMMA WorkerCores ==
    ASSUME Trusted, TypeInv, CoreInv, NEW w \in Workers, WorkerStep(w)
    PROVE  CoreInv'
<1> USE DEF TypeInv, TypeOK, UnchangedElsewhere, config, control, At
<1>1. CASE \/ WkReset(w) \/ WkProgress(w) \/ WkStageOk(w) \/ WkStageErr(w)
           \/ WkStageAbort(w) \/ WkAborted(w) \/ WkCancelled(w) \/ WkNotCancelled(w)
    BY <1>1, Threads, Untouched, KeptKnown
    DEF WkReset, WkProgress, WkStageOk, WkStageErr, WkStageAbort, WkAborted, WkCancelled,
        WkNotCancelled
<1>2. CASE \/ WkSnapshot(w) \/ WkStopBegin(w) \/ WkInstallBegin(w) \/ WkInstallOk(w)
           \/ WkInstallErr(w) \/ WkFinish(w)
    BY <1>2, Threads, Untouched, KeptKnown
    DEF WkSnapshot, WkStopBegin, WkInstallBegin, WkInstallOk, WkInstallErr, WkFinish
<1>3. ASSUME NEW i \in Instances, WkFilter(w, i) PROVE CoreInv'
    BY <1>3, Threads, ReapLoose, KeptKnown DEF WkFilter
<1>4. ASSUME NEW i \in Instances, WkStop(w, i) \/ WkStopErr(w, i) PROVE CoreInv'
    BY <1>4, Threads, StopLoose, KeptKnown DEF WkStop, WkStopErr, Trusted
<1>5. ASSUME NEW i \in Instances, WkStart(w, i) PROVE CoreInv'
    <2>1. worker[w].run[i] \in Confs
        BY <1>5 DEF WkStart, UpdateTypeOK, WorkerRefs
    <2>2. NoMoreLoose /\ (Single => Single')
        BY <1>5, <2>1, Threads, StartOkLoose, StartErrLoose DEF WkStart
    <2> QED
        BY <1>5, <2>2, Threads, KeptKnown DEF WkStart
<1> QED
    BY <1>1, <1>2, <1>3, <1>4, <1>5 DEF WorkerStep

LEMMA WatchdogCores ==
    ASSUME Trusted, TypeInv, CoreInv, WatchdogNext
    PROVE  CoreInv'
<1> USE DEF TypeInv, TypeOK, UnchangedByWatchdog, config, control, WdAt
<1>1. CASE WdBegin \/ WdScan \/ WdGiveUp \/ WdEnd \/ WdStop
    BY <1>1, Threads, Untouched, KeptKnown DEF WdBegin, WdScan, WdGiveUp, WdEnd, WdStop
<1>2. ASSUME NEW i \in Instances, WdPass(i) \/ WdAttempt(i) PROVE CoreInv'
    BY <1>2, Threads, ReapLoose, KeptKnown DEF WdPass, WdAttempt
<1>3. CASE WdKill
    <2>1. NoMoreLoose /\ (Single => Single')
        BY <1>3, DeathLoose DEF WdKill, Terminate
    <2> QED
        BY <1>3, <2>1, Threads, KeptKnown DEF WdKill
<1>4. CASE WdStart
    <2>1. wd.cur \in Instances /\ wd.conf \in Confs
        BY <1>4 DEF WdStart, WatchdogRefs
    <2>2. NoMoreLoose /\ (Single => Single')
        BY <1>4, <2>1, Threads, StartOkLoose, StartErrLoose DEF WdStart
    <2> QED
        BY <1>4, <2>2, Threads, KeptKnown DEF WdStart
<1> QED
    BY <1>1, <1>2, <1>3, <1>4 DEF WatchdogNext

LEMMA InitCores == Trusted /\ Init => CoreInv
BY DEF Trusted, Init, CoreInv, AtMostOneCore, IsCore, AllKnown, ThreadsRun

LEMMA NextCores == Trusted /\ TypeInv /\ CoreInv /\ [Next]_vars => CoreInv'
<1> SUFFICES ASSUME Trusted, TypeInv, CoreInv, [Next]_vars PROVE CoreInv'
    OBVIOUS
<1>1. CASE UNCHANGED vars
    BY <1>1, Untouched, KeptKnown, Calm
    DEF vars, config, control, runtime, TypeInv, TypeOK, CoreInv
<1>2. CASE Next
    BY <1>2, BootCores, MainCores, DispatchCores, WorkerCores, WatchdogCores DEF Next
<1> QED
    BY <1>1, <1>2

\* No network ever has two cores: not through repeated starts, the watchdog,
\* updates, or any number of crashes and restarts of the service.
THEOREM OneCoreAlways ==
    ASSUME Trusted
    PROVE  Spec => []AtMostOneCore
<1>1. Init => TypeInv /\ CoreInv
    BY InitType, InitCores
<1>2. TypeInv /\ CoreInv /\ [Next]_vars => TypeInv' /\ CoreInv'
    BY NextType, NextCores
<1>3. CoreInv => AtMostOneCore
    BY DEF CoreInv
<1> QED
    BY <1>1, <1>2, <1>3, PTL DEF Spec

\* Once the service is up, every core on the machine is in its books, so
\* that a stop reaches it.
THEOREM CoresAccountedAlways ==
    ASSUME Trusted
    PROVE  Spec => []CoresAccounted
<1>1. Init => TypeInv /\ CoreInv
    BY InitType, InitCores
<1>2. TypeInv /\ CoreInv /\ [Next]_vars => TypeInv' /\ CoreInv'
    BY NextType, NextCores
<1>3. CoreInv => CoresAccounted
    BY DEF CoreInv, CoresAccounted, Loose
<1> QED
    BY <1>1, <1>2, <1>3, PTL DEF Spec

(***************************************************************************)
(* Networks that are stopped.                                              *)
(***************************************************************************)

\* The requests that stop networks behind the back of an update, or change
\* what is wanted without touching the cores, are not sent.
Orderly ==
    /\ Trusted
    /\ {"sync_instance", "stop_all_instances", "shutdown_service",
        "cancel_kernel_update"} \cap Commands = {}

\* The networks that a thread is going to start again.
ToRestore(w) ==
    {i \in Instances :
        /\ worker[w].run[i] # None
        /\ \/ worker[w].pc \in {"stopping", "installing", "restoring", "restarting"}
           \/ worker[w].pc = "filter" /\ i \notin worker[w].todo}

\* StoppedHasNoCore follows from the books; to keep them so, whatever an
\* update is going to start has to be wanted until it ends.
StopInv ==
    /\ StateFree
    /\ \A i \in Instances : ~Wanted(i) => children[i] = None /\ adopted[i] = None
    /\ svc = "down" => children = NoConfs /\ adopted = NoConfs
    /\ \A w \in Workers : \A i \in ToRestore(w) : Wanted(i)

\* What a step keeps of what is wanted, and of the books.
StaysWanted == \A i \in Instances : Wanted(i) => Wanted(i)'
Dropped(i) ==
    children'[i] \in {None, children[i]} /\ adopted'[i] \in {None, adopted[i]}

LEMMA DesiredWanted ==
    ASSUME TypeInv, NEW i \in Instances, Known(i)
    PROVE  /\ SetDesired(i, "running") => StaysWanted /\ Wanted(i)'
           /\ \A d \in {"stopped", "running"} : SetDesired(i, d) =>
                \A j \in Instances \ {i} : Wanted(j)' <=> Wanted(j)
           /\ \A a \in BOOLEAN : inst' = [inst EXCEPT ![i].auto = a] => StaysWanted
<1>1. ASSUME SetDesired(i, "running") PROVE StaysWanted /\ Wanted(i)'
    BY <1>1, SetFields DEF SetDesired, StaysWanted, Wanted, Known, TypeInv, TypeOK,
                          ConfigTypeOK, Config
<1>2. ASSUME NEW d \in {"stopped", "running"}, SetDesired(i, d), NEW j \in Instances \ {i}
      PROVE  Wanted(j)' <=> Wanted(j)
    BY <1>2 DEF SetDesired, Wanted, Known, TypeInv, TypeOK, ConfigTypeOK
<1>3. ASSUME NEW a \in BOOLEAN, inst' = [inst EXCEPT ![i].auto = a] PROVE StaysWanted
    <2>1. inst[i] \in Config /\ inst'[i] = [inst[i] EXCEPT !.auto = a]
        BY <1>3 DEF Known, TypeInv, TypeOK, ConfigTypeOK
    <2>2. inst'[i].desired = inst[i].desired
        BY <2>1 DEF Config
    <2>3. \A j \in Instances : Known(j)' <=> Known(j)
        BY <1>3, SetFields DEF TypeInv, TypeOK
    <2> QED
        BY <1>3, <2>2, <2>3 DEF StaysWanted, Wanted, TypeInv, TypeOK, ConfigTypeOK
<1> QED
    BY <1>1, <1>2, <1>3

\* What each operation of RuntimeManager does to the books.
LEMMA BookMoves ==
    ASSUME RuntimeTypeOK, NEW i \in Instances
    PROVE  /\ UNCHANGED <<children, adopted>> => \A j \in Instances : Dropped(j)
           /\ \A S \in SUBSET Instances : Reap(S) => \A j \in Instances : Dropped(j)
           /\ StartErr(i) => \A j \in Instances : Dropped(j)
           /\ \A c, noted : StartOk(i, c, noted) => \A j \in Instances \ {i} : Dropped(j)
           /\ StopOk(i) => /\ children'[i] = None /\ adopted'[i] = None
                           /\ \A j \in Instances : Dropped(j)
           /\ StopAllTracked => \A j \in Instances : Dropped(j)
<1> USE DEF RuntimeTypeOK, Dropped
<1>1. ASSUME NEW S \in SUBSET Instances, Reap(S) PROVE \A j \in Instances : Dropped(j)
    BY <1>1 DEF Reap
<1>2. StartErr(i) => \A j \in Instances : Dropped(j)
    BY <1>1 DEF StartErr
<1>3. ASSUME NEW c, NEW noted, StartOk(i, c, noted)
      PROVE  \A j \in Instances \ {i} : Dropped(j)
    BY <1>1, <1>3 DEF StartOk, StartRunning, StartSpawn
<1>4. StopOk(i) => /\ children'[i] = None /\ adopted'[i] = None
                  /\ \A j \in Instances : Dropped(j)
    BY DEF StopOk
<1>5. StopAllTracked => \A j \in Instances : Dropped(j)
    BY DEF StopAllTracked
<1> QED
    BY <1>1, <1>2, <1>3, <1>4, <1>5

\* A network that is not wanted keeps nothing in the books, if the step gives
\* nothing to it and empties the books of what it makes unwanted.
BooksOfWanted == \A i \in Instances : ~Wanted(i) => children[i] = None /\ adopted[i] = None

LEMMA StillBooked ==
    ASSUME BooksOfWanted,
           \A i \in Instances : Dropped(i) \/ Wanted(i)',
           \A i \in Instances :
               Wanted(i) => Wanted(i)' \/ (children'[i] = None /\ adopted'[i] = None)
    PROVE  BooksOfWanted'
BY DEF BooksOfWanted, Dropped

LEMMA BootBooks ==
    ASSUME TypeInv, StopInv, Boot
    PROVE  BooksOfWanted'
<1> USE DEF TypeInv, TypeOK
<1>1. BooksOfWanted
    BY DEF StopInv, BooksOfWanted
<1>2. CASE BootLoad
    BY <1>2 DEF BootLoad, StopInv, BooksOfWanted, NoConfs, runtime
<1>3. ASSUME NEW i \in Instances, BootOrphan(i) PROVE BooksOfWanted'
    <2>1. UNCHANGED inst
        BY <1>3 DEF BootOrphan, config
    <2>2. CASE UNCHANGED <<children, adopted>>
        BY <1>1, <2>1, <2>2 DEF BooksOfWanted, Wanted, Known
    <2>3. CASE Wanted(i) /\ Adopt(i, boot.orphans[i])
        BY <1>1, <2>1, <2>3 DEF BooksOfWanted, Wanted, Known, Adopt, RuntimeTypeOK
    <2> QED
        BY <1>3, <2>2, <2>3 DEF BootOrphan, runtime
<1>4. CASE BootReady \/ \E i \in Instances : BootSkip(i) \/ BootKill(i)
    BY <1>1, <1>4 DEF BootReady, BootSkip, BootKill, BooksOfWanted, Wanted, Known, runtime,
                      config
<1>5. ASSUME NEW i \in Instances, BootStart(i) PROVE BooksOfWanted'
    <2>1. Known(i)
        BY <1>5 DEF BootStart, BootRefs
    <2>2. CASE StartOk(i, inst[i].conf, NotedPids) /\ SetDesired(i, "running")
        BY <1>1, <2>1, <2>2, BookMoves, DesiredWanted, StillBooked DEF StaysWanted
    <2>3. CASE StartErr(i) /\ UNCHANGED inst
        BY <1>1, <2>3, BookMoves, StillBooked DEF Wanted, Known
    <2> QED
        BY <1>5, <2>2, <2>3 DEF BootStart
<1> QED
    BY <1>2, <1>3, <1>4, <1>5 DEF Boot

LEMMA BootStop ==
    ASSUME TypeInv, RunInv, StopInv, Boot
    PROVE  StopInv'
<1>1. BooksOfWanted'
    BY BootBooks
<1>2. ~ThreadsRun /\ svc' # "down" /\ UNCHANGED ipc
    BY DEF Boot, BootLoad, BootOrphan, BootSkip, BootKill, BootStart, BootReady, ThreadsRun
<1>3. UNCHANGED worker
    BY OthersLeaveUpdates DEF update
<1>4. \A w \in Workers : ToRestore(w)' = {}
    BY <1>2, <1>3 DEF RunInv, Updating, ToRestore
<1> QED
    BY <1>1, <1>2, <1>4 DEF StopInv, BooksOfWanted, StateFree

LEMMA MainStop ==
    ASSUME TypeInv, StopInv, Main \/ Environment
    PROVE  StopInv'
<1> USE DEF TypeInv, TypeOK
<1>1. CASE MainExit \/ Crash
    BY <1>1 DEF MainExit, Crash, Gone, StopInv, StateFree, NoConfs, ToRestore, IdleWorker,
                FreshWorker
<1>2. CASE MainStopAll
    <2>1. svc' # "down" /\ UNCHANGED <<inst, ipc, worker>> /\ \A i \in Instances : Dropped(i)
        BY <1>2, BookMoves DEF MainStopAll, config, update, StopAllTracked, Dropped
    <2> QED
        BY <2>1 DEF StopInv, StateFree, Wanted, Known, ToRestore, Dropped
<1>3. ASSUME NEW p \in Pids, CoreExit(p) \/ PidReuse(p) PROVE StopInv'
    <2>1. UNCHANGED <<svc, inst, ipc, worker, children, adopted>>
        BY <1>3 DEF CoreExit, PidReuse, ProcessExit, PidReused, config, control,
                    update
    <2> QED
        BY <2>1 DEF StopInv, StateFree, Wanted, Known, ToRestore
<1>4. CASE ScmStop
    <2>1. UNCHANGED <<svc, inst, ipc, worker, children, adopted>>
        BY <1>4 DEF ScmStop, config, update, runtime
    <2> QED
        BY <2>1 DEF StopInv, StateFree, Wanted, Known, ToRestore
<1> QED
    BY <1>1, <1>2, <1>3, <1>4 DEF Main, Environment

\* What a step of a thread or a handler must show.
LEMMA StillStopped ==
    ASSUME TypeInv, StopInv, ThreadsRun, UNCHANGED <<svc, ipc>>, BooksOfWanted',
           \A w \in Workers : \A i \in ToRestore(w)' : Wanted(i)'
    PROVE  StopInv'
BY DEF StopInv, StateFree, BooksOfWanted, ThreadsRun

LEMMA DispatchStop ==
    ASSUME Orderly, TypeInv, RunInv, StopInv, DispatchNext
    PROVE  StopInv'
<1> USE DEF TypeInv, TypeOK, UnchangedControl, control
<1>1. BooksOfWanted
    BY DEF StopInv, BooksOfWanted
<1>2. ASSUME NotBusy, UNCHANGED worker
      PROVE  \A w \in Workers : ToRestore(w)' = {}
    BY <1>2 DEF NotBusy, RunInv, Covered, Updating, ToRestore
<1>3. CASE Query \/ ListInstances \/ Save
    <2>1. ThreadsRun /\ UNCHANGED <<svc, ipc, inst, worker>> /\ \A i \in Instances : Dropped(i)
        BY <1>3, BookMoves DEF Query, ListInstances, Save, Request, update, runtime, Dropped
    <2> QED
        BY <2>1 DEF StopInv, StateFree, Wanted, Known, ToRestore, Dropped, ThreadsRun
<1>4. ASSUME NEW w \in Workers, UpdateKernel(w) PROVE StopInv'
    <2>1. ThreadsRun /\ UNCHANGED <<svc, ipc, inst, children, adopted>>
        BY <1>4 DEF UpdateKernel, Request, runtime
    <2>2. \A v \in Workers : ToRestore(v)' \subseteq ToRestore(v)
        BY <1>4 DEF UpdateKernel, FreshWorker, NoConfs, ToRestore, UpdateTypeOK
    <2> QED
        BY <2>1, <2>2 DEF StopInv, StateFree, Wanted, Known
<1>5. ASSUME NEW i \in Instances, StartInstance(i) PROVE StopInv'
    <2>1. /\ ThreadsRun /\ UNCHANGED <<svc, ipc, worker>> /\ NotBusy
          /\ Known(i) /\ SetDesired(i, "running")
          /\ StartOk(i, inst[i].conf, NotedPids) \/ StartErr(i)
        BY <1>5 DEF StartInstance, Request, update
    <2>2. BooksOfWanted'
        BY <1>1, <2>1, BookMoves, DesiredWanted, StillBooked DEF StaysWanted
    <2> QED
        BY <1>2, <2>1, <2>2, StillStopped
<1>6. ASSUME NEW i \in Instances, StopInstance(i) PROVE StopInv'
    <2>1. /\ ThreadsRun /\ UNCHANGED <<svc, ipc, worker>> /\ NotBusy
          /\ Known(i) /\ SetDesired(i, "stopped") /\ StopOk(i)
        BY <1>6 DEF StopInstance, StopErr, Request, update, Orderly, Trusted
    <2>2. BooksOfWanted'
        BY <1>1, <2>1, BookMoves, DesiredWanted, StillBooked
    <2> QED
        BY <1>2, <2>1, <2>2, StillStopped
<1>7. ASSUME NEW i \in Instances, SetAutoStart(i) PROVE StopInv'
    <2>1. /\ ThreadsRun /\ UNCHANGED <<svc, ipc, worker, children, adopted>> /\ NotBusy
          /\ Known(i) /\ \E a \in BOOLEAN : inst' = [inst EXCEPT ![i].auto = a]
        BY <1>7, ServiceAssumption DEF SetAutoStart, Request, update, runtime
    <2>2. BooksOfWanted'
        BY <1>1, <2>1, DesiredWanted DEF StaysWanted, BooksOfWanted
    <2> QED
        BY <1>2, <2>1, <2>2, StillStopped
<1>8. CASE \/ CancelKernelUpdate \/ StopAllEnd
           \/ \E c \in Commands : StopAllBegin(c)
           \/ \E i \in Instances : SyncInstance(i) \/ RemoveInstance(i) \/ StopAllOne(i)
    BY <1>8 DEF CancelKernelUpdate, StopAllEnd, StopAllBegin, SyncInstance, RemoveInstance,
                StopAllOne, Request, Orderly, Trusted, StopInv, StateFree, NoIpc
<1> QED
    BY <1>3, <1>4, <1>5, <1>6, <1>7, <1>8 DEF DispatchNext

LEMMA WatchdogStop ==
    ASSUME TypeInv, StopInv, WatchdogNext
    PROVE  StopInv'
<1> USE DEF TypeInv, TypeOK, WdAt, UnchangedByWatchdog, config, control, update
<1>1. BooksOfWanted
    BY DEF StopInv, BooksOfWanted
<1>2. ThreadsRun /\ UNCHANGED <<svc, ipc, inst, worker>>
    BY DEF WatchdogNext, WdBegin, WdPass, WdAttempt, WdScan, WdKill, WdStart, WdGiveUp, WdEnd,
           WdStop
<1>3. CASE WdBegin \/ WdScan \/ WdKill \/ WdGiveUp \/ WdEnd \/ WdStop
    BY <1>2, <1>3 DEF WdBegin, WdScan, WdKill, WdGiveUp, WdEnd, WdStop, runtime, StopInv,
                      StateFree, Wanted, Known, ToRestore, ThreadsRun
<1>4. CASE WdStart \/ \E i \in Instances : WdPass(i) \/ WdAttempt(i)
    <2>1. BooksOfWanted'
        <3>1. CASE WdStart
            <4>1. wd.cur \in Instances /\ Wanted(wd.cur)
                BY <3>1 DEF WdStart, WatchdogRefs
            <4> QED
                BY <1>1, <1>2, <3>1, <4>1, BookMoves, StillBooked DEF WdStart, Wanted, Known
        <3>2. ASSUME NEW i \in Instances, WdPass(i) \/ WdAttempt(i) PROVE BooksOfWanted'
            BY <1>1, <1>2, <3>2, BookMoves, StillBooked DEF WdPass, WdAttempt, Wanted, Known
        <3> QED
            BY <1>4, <3>1, <3>2
    <2>2. \A w \in Workers : \A i \in ToRestore(w)' : Wanted(i)'
        BY <1>2 DEF StopInv, ToRestore, Wanted, Known
    <2> QED
        BY <1>2, <2>1, <2>2, StillStopped
<1> QED
    BY <1>3, <1>4 DEF WatchdogNext

\* What a thread is going to start again is wanted when it joins the list,
\* for it runs then.
LEMMA WorkerRestores ==
    ASSUME TypeInv, StopInv, NEW w \in Workers, WorkerStep(w)
    PROVE  \A i \in ToRestore(w)' : Wanted(i)
<1> USE DEF TypeInv, TypeOK, UpdateTypeOK, At
<1>1. \A i \in ToRestore(w) : Wanted(i)
    BY DEF StopInv
<1>2. CASE \/ WkReset(w) \/ WkStageOk(w) \/ WkStageAbort(w) \/ WkNotCancelled(w)
    BY <1>2 DEF WkReset, WkStageOk, WkStageAbort, WkNotCancelled, GoTo, ToRestore
<1>3. CASE WkProgress(w)
    BY <1>1, <1>3 DEF WkProgress, ToRestore
<1>4. CASE \/ WkStageErr(w) \/ WkAborted(w) \/ WkCancelled(w) \/ WkFinish(w)
           \/ \E i \in Instances : WkStopErr(w, i)
    BY <1>4 DEF WkStageErr, WkAborted, WkCancelled, WkFinish, WkStopErr, Finish, IdleWorker,
                FreshWorker, ToRestore
<1>5. CASE WkSnapshot(w)
    BY <1>5 DEF WkSnapshot, ToRestore, Known
<1>6. CASE WkStopBegin(w) \/ WkInstallBegin(w) \/ WkInstallOk(w) \/ WkInstallErr(w)
    <2>1. ToRestore(w)' \subseteq ToRestore(w)
        BY <1>6 DEF WkStopBegin, WkInstallBegin, WkInstallOk, WkInstallErr, GoTo, GoWith,
                    ToRestore
    <2> QED
        BY <1>1, <2>1
<1>7. ASSUME NEW i \in Instances, WkFilter(w, i) PROVE \A j \in ToRestore(w)' : Wanted(j)
    <2>1. /\ worker[w].pc = "filter" /\ worker'[w].pc = "filter"
          /\ worker'[w].todo = worker[w].todo \ {i}
          /\ worker'[w].run = [worker[w].run EXCEPT ![i] =
                                 IF InstanceRunning(i) THEN @ ELSE None]
        BY <1>7 DEF WkFilter
    <2>2. \A j \in ToRestore(w)' \ {i} : j \in ToRestore(w)
        BY <2>1 DEF ToRestore
    <2>3. i \in ToRestore(w)' => InstanceRunning(i)
        BY <2>1 DEF ToRestore
    <2>4. InstanceRunning(i) => Wanted(i)
        BY DEF InstanceRunning, ChildAlive, AdoptedAlive, StopInv
    <2> QED
        BY <1>1, <2>2, <2>3, <2>4
<1>8. ASSUME NEW i \in Instances, WkStop(w, i) \/ WkStart(w, i)
      PROVE  \A j \in ToRestore(w)' : Wanted(j)
    <2>1. worker' = [worker EXCEPT ![w].todo = @ \ {i}]
        BY <1>8 DEF WkStop, WkStart
    <2>2. worker[w].pc \in {"stopping", "restarting", "restoring"}
        BY <1>8 DEF WkStop, WkStart
    <2>3. worker'[w].pc = worker[w].pc /\ worker'[w].run = worker[w].run
        BY <2>1
    <2>4. ToRestore(w)' = ToRestore(w)
        BY <2>2, <2>3 DEF ToRestore
    <2> QED
        BY <1>1, <2>4
<1> QED
    BY <1>2, <1>3, <1>4, <1>5, <1>6, <1>7, <1>8 DEF WorkerStep

LEMMA WorkerStop ==
    ASSUME Orderly, TypeInv, StopInv, NEW w \in Workers, WorkerStep(w)
    PROVE  StopInv'
<1> USE DEF TypeInv, TypeOK, UnchangedElsewhere, config, control
<1>1. BooksOfWanted
    BY DEF StopInv, BooksOfWanted
<1>2. ThreadsRun /\ UNCHANGED <<svc, inst, ipc>>
    <2>1. UNCHANGED ipc
        BY DEF WorkerStep, WkReset, WkProgress, WkStageOk, WkStageErr, WkStageAbort, WkAborted,
               WkCancelled, WkNotCancelled, WkSnapshot, WkStopBegin, WkInstallBegin,
               WkInstallOk, WkInstallErr, WkFinish, WkFilter, WkStop, WkStopErr, WkStart
    <2> QED
        BY <2>1, WorkerRuns
<1>3. BooksOfWanted'
    <2>1. ASSUME NEW i \in Instances, WkStart(w, i) PROVE BooksOfWanted'
        <3>1. Wanted(i)
            BY <2>1 DEF WkStart, At, WorkerRefs, ToRestore, StopInv
        <3> QED
            BY <1>1, <1>2, <2>1, <3>1, BookMoves, StillBooked DEF WkStart, Wanted, Known
    <2>2. ASSUME NEW i \in Instances, WkFilter(w, i) \/ WkStop(w, i) \/ WkStopErr(w, i)
          PROVE  BooksOfWanted'
        BY <1>1, <1>2, <2>2, BookMoves, StillBooked
        DEF WkFilter, WkStop, WkStopErr, StopErr, Orderly, Trusted, Wanted, Known
    <2>3. CASE UNCHANGED runtime
        BY <1>1, <1>2, <2>3 DEF runtime, BooksOfWanted, Wanted, Known
    <2>4. \/ UNCHANGED runtime
          \/ \E i \in Instances :
               WkFilter(w, i) \/ WkStop(w, i) \/ WkStopErr(w, i) \/ WkStart(w, i)
        BY DEF WorkerStep, WkReset, WkProgress, WkStageOk, WkStageErr, WkStageAbort, WkAborted,
               WkCancelled, WkNotCancelled, WkSnapshot, WkStopBegin, WkInstallBegin,
               WkInstallOk, WkInstallErr, WkFinish
    <2> QED
        BY <2>1, <2>2, <2>3, <2>4
<1>4. \A v \in Workers : \A i \in ToRestore(v)' : Wanted(i)'
    <2>1. \A v \in Workers \ {w} : ToRestore(v)' = ToRestore(v)
        BY WorkerMoves DEF ToRestore
    <2>2. \A i \in Instances : Wanted(i)' <=> Wanted(i)
        BY <1>2 DEF Wanted, Known
    <2> QED
        BY <2>1, <2>2, WorkerRestores DEF StopInv, ToRestore
<1> QED
    BY <1>2, <1>3, <1>4, StillStopped

\* While the service is up, a network whose desired state is stopped has no
\* core: no watchdog pass, no update that began earlier and no restart of the
\* service starts one again.
THEOREM StoppedHasNoCoreAlways ==
    ASSUME Orderly
    PROVE  Spec => []StoppedHasNoCore
<1> DEFINE IInv == CoreInv /\ UpdateExclusive /\ RunInv /\ StopInv
<1>1. Init => IInv
    <2>1. Init => StopInv
        BY DEF Init, StopInv, StateFree, NoConfs, IdleWorker, FreshWorker, ToRestore
    <2> QED
        BY <2>1, InitCores, InitExclusive, InitRun DEF Orderly
<1>2. TypeInv /\ IInv /\ [Next]_vars => IInv'
    <2> SUFFICES ASSUME TypeInv, IInv, [Next]_vars PROVE IInv'
        OBVIOUS
    <2>1. CoreInv' /\ UpdateExclusive' /\ RunInv'
        BY NextCores, ExclusiveSteps, RunSteps DEF Orderly, RunInv
    <2>2. CASE UNCHANGED vars
        <3>1. UNCHANGED <<svc, ipc, inst, children, adopted, worker>>
            BY <2>2 DEF vars, runtime, config, control, update
        <3>2. StopInv'
            BY <3>1 DEF StopInv, StateFree, Wanted, Known, ToRestore
        <3> QED
            BY <2>1, <3>2
    <2>3. CASE Next
        <3>1. StopInv'
            BY <2>3, BootStop, MainStop, DispatchStop, WorkerStop, WatchdogStop DEF Next
        <3> QED
            BY <2>1, <3>1
    <2> QED
        BY <2>2, <2>3
<1>3. IInv => StoppedHasNoCore
    BY DEF CoreInv, StopInv, StoppedHasNoCore, Loose, CoresOf, Tracked, Wanted
<1> HIDE DEF IInv
<1> QED
    BY <1>1, <1>2, <1>3, InitType, NextType, PTL DEF Spec
=============================================================================
