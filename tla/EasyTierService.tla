--------------------------- MODULE EasyTierService --------------------------
(***************************************************************************)
(* The EasyTier Windows service as a whole: the start-up block and the     *)
(* main thread, the IPC handlers, the kernel update threads and the        *)
(* watchdog, interleaved over their shared state, and what they promise.   *)
(***************************************************************************)
EXTENDS Lifecycle, Dispatch, KernelUpdate, Watchdog

\* The machine starts: no core runs, and the file holds the preset
\* instances.
Init ==
    /\ proc = [p \in Pids |-> None]
    /\ children = NoConfs /\ adopted = NoConfs
    /\ inst = NoConfs
    /\ \E c \in Confs :
         disk \in [Instances -> {None} \cup [conf : {c}, auto : AutoValues,
                                             desired : {"stopped", "running"}]]
    /\ \A i \in Instances : disk[i] # None <=> i \in Preset
    /\ saving = 0 /\ ipc = NoIpc
    /\ svc = "down" /\ stopped = FALSE /\ boot = NoBoot
    /\ updateLock = FALSE /\ cancel = FALSE
    /\ worker = [w \in Workers |-> IdleWorker]
    /\ task = [w \in Workers |-> "none"]
    /\ wd = WatchdogOff

Next ==
    \/ Boot \/ Main \/ Environment
    \/ DispatchNext
    \/ \E w \in Workers : WorkerStep(w)
    \/ WatchdogNext

Spec == Init /\ [][Next]_vars

(***************************************************************************)
(* Fairness.  Every thread that can run does.  A step that needs the state *)
(* mutex competes with the IPC handlers for it, and the watchdog looks at  *)
(* update_lock only once per tick, so those are strongly fair: handlers    *)
(* give the mutex up between requests.  The restart of a dead core is      *)
(* throttled for a bounded time, after which the attempt is made.  No      *)
(* client has to send anything, no core has to fail.                       *)
(***************************************************************************)
Fairness ==
    /\ WF_vars(Boot) /\ WF_vars(Main)
    /\ WF_vars(\E i \in Instances : StopAllOne(i)) /\ WF_vars(StopAllEnd)
    /\ \A w \in Workers :
         /\ WF_vars(WorkerStep(w) /\ worker'[w] # worker[w])
         /\ SF_vars(WkSnapshot(w))
    /\ SF_vars(Save)
    /\ SF_vars(WdBegin) /\ SF_vars(WdStart) /\ SF_vars(WdGiveUp)
    /\ WF_vars(WatchdogNext)
    /\ \A i \in Instances : SF_vars(WdAttempt(i))

FairSpec == Spec /\ Fairness

(***************************************************************************)
(* Cores.                                                                  *)
(***************************************************************************)

\* Starting twice, restarting the service, the watchdog and a kernel update
\* never give one network two cores.
AtMostOneCore ==
    \A p, q \in Pids :
        IsCore(p) /\ IsCore(q) /\ proc[p].id = proc[q].id => p = q

\* Once the service is up, every core that runs is in the books of its own
\* instance: none is beyond the reach of a stop request.
CoresAccounted ==
    ThreadsRun => \A p \in Pids : IsCore(p) => p \in Tracked(proc[p].id)

\* An instance is tracked by a handle or by a pid, never by both, whatever
\* fails: stop after a start would otherwise leave one process behind.
TrackedOnce == \A i \in Instances : children[i] = None \/ adopted[i] = None

\* While the service is up, a network whose desired state is stopped has no
\* core: a stop that was accepted is not undone by the watchdog, by an update
\* that began earlier, or by a late start.
StoppedHasNoCore ==
    ThreadsRun => \A i \in Instances :
        Known(i) /\ inst[i].desired = "stopped" => CoresOf(i) = {}

\* An update restores a network with the configuration the service holds for
\* it, though it cloned that configuration before the download's networks
\* were stopped: requests that would change it are refused meanwhile.
Restarting == \E w \in Workers : worker[w].pc \in {"restarting", "restoring"}
RestartsCurrentConf ==
    [][Restarting /\ worker' # worker =>
         \A p \in Pids : proc'[p] \in Core /\ proc'[p] # proc[p] =>
            inst[proc'[p].id] # None /\ proc'[p].conf = inst[proc'[p].id].conf]_vars

(***************************************************************************)
(* Kernel updates.                                                         *)
(***************************************************************************)

Updating(w) == worker[w].pc # "idle"

\* At most one kernel update is under way.
UpdateExclusive ==
    \A v, w \in Workers : Updating(v) /\ Updating(w) => v = w

\* update_lock is never left set with no update under way: it would refuse
\* every later request until the service is restarted.
NoStuckUpdateLock == updateLock => \E w \in Workers : Updating(w)

\* What a client was told about the end of an update stays so: the final
\* phase of a task is not overwritten while the task's thread is gone.
FinalPhaseStays ==
    [][\A w \in Workers :
         task[w] \in {"completed", "failed"} /\ task'[w] # task[w] =>
            svc' = "down" \/ (~updateLock /\ task'[w] = "queued")]_vars

(***************************************************************************)
(* Durability.                                                             *)
(***************************************************************************)

\* When no request is being answered, the file agrees with memory, except
\* that the file still says stopped when a start failed.  So a restart of
\* the service never brings back a network whose stop was acknowledged.
Agrees(m, d) ==
    \/ m = d
    \/ /\ m # None /\ d # None
       /\ m = [d EXCEPT !.desired = "running"]
DurableWhenQuiet ==
    svc = "up" /\ saving = 0 /\ StateFree =>
        \A i \in Instances : Agrees(inst[i], disk[i])

(***************************************************************************)
(* Liveness.                                                               *)
(***************************************************************************)

\* Every kernel update ends, and gives update_lock back.
UpdateEnds == updateLock ~> ~updateLock

\* A core that dies is replaced, unless the instance is not wanted any more
\* or the service stops.
CoreRecovered ==
    \A i \in Instances :
        (svc = "up" /\ Wanted(i) /\ CoresOf(i) = {}) ~>
            (CoresOf(i) # {} \/ ~Wanted(i) \/ stopped)

\* A stop request is followed by the end of the process.
StopsWhenAsked == stopped ~> svc = "down"
=============================================================================
