---------------------------- MODULE KernelUpdate ----------------------------
(***************************************************************************)
(* The kernel update threads: run_kernel_update                            *)
(* (src-tauri/src/service_main.rs) and the cancel flag and the staging it  *)
(* calls (src-tauri/src/kernel_updater.rs).  A thread takes the state      *)
(* mutex once, to clone the configuration, and the runtime mutex once per  *)
(* instance; update_lock is only a flag, which it clears when it ends.     *)
(***************************************************************************)
EXTENDS ServiceShared

At(w, pc) == ThreadsRun /\ worker[w].pc = pc
GoTo(w, pc) == worker' = [worker EXCEPT ![w].pc = pc]
GoWith(w, pc, todo) ==
    worker' = [worker EXCEPT ![w].pc = pc, ![w].todo = todo]
SetTask(w, phase) == task' = [task EXCEPT ![w] = phase]

RunSet(w) == {i \in Instances : worker[w].run[i] # None}

UnchangedElsewhere == UNCHANGED <<config, ipc, control, wd>>

\* Mutant: finish forgets update_lock.
FinishLocked(w, phase) ==
    /\ SetTask(w, phase)
    /\ worker' = [worker EXCEPT ![w] = IdleWorker]
    /\ UNCHANGED <<updateLock, cancel>>

\* finish: the final phase is published, then update_lock cleared; nothing
\* can tell the two apart, so they are one step.
Finish(w, phase) ==
    /\ SetTask(w, phase)
    /\ worker' = [worker EXCEPT ![w] = IdleWorker]
    /\ updateLock' = FALSE
    /\ UNCHANGED cancel

\* reset_cancel: the first thing the thread does.
WkReset(w) ==
    /\ At(w, "queued")
    /\ cancel' = FALSE
    /\ GoTo(w, "staging")
    /\ UNCHANGED <<runtime, updateLock, task>> /\ UnchangedElsewhere

\* The progress callback overwrites whatever phase the task shows.
WkProgress(w) ==
    /\ At(w, "staging") /\ task[w] # "staging"
    /\ SetTask(w, "staging")
    /\ UNCHANGED <<runtime, updateLock, cancel, worker>> /\ UnchangedElsewhere

\* download_and_stage_with_progress returns the staged files.  Its own looks
\* at the cancel flag come before, so the flag may be up by now.
WkStageOk(w) ==
    /\ At(w, "staging")
    /\ GoTo(w, "staged")
    /\ UNCHANGED <<runtime, updateLock, cancel, task>> /\ UnchangedElsewhere

\* It saw the flag up and gives up with an error that says so ...
WkStageAbort(w) ==
    /\ At(w, "staging") /\ cancel
    /\ GoTo(w, "aborting")
    /\ UNCHANGED <<runtime, updateLock, cancel, task>> /\ UnchangedElsewhere

\* ... which makes the task cancelled even if the flag is down again.
WkAborted(w) ==
    /\ At(w, "aborting")
    /\ Finish(w, "cancelled")
    /\ UNCHANGED runtime /\ UnchangedElsewhere

\* Any other error: cancelled when the flag is up by now, failed otherwise.
WkStageErr(w) ==
    /\ At(w, "staging")
    /\ Finish(w, IF cancel THEN "cancelled" ELSE "failed")
    /\ UNCHANGED runtime /\ UnchangedElsewhere

WkCancelled(w) ==
    /\ At(w, "staged") /\ cancel
    /\ Finish(w, "cancelled")
    /\ UNCHANGED runtime /\ UnchangedElsewhere

WkNotCancelled(w) ==
    /\ At(w, "staged") /\ ~cancel
    /\ GoTo(w, "snapshot")
    /\ UNCHANGED <<runtime, updateLock, cancel, task>> /\ UnchangedElsewhere

\* The configuration is cloned under the state mutex.
WkSnapshot(w) ==
    /\ At(w, "snapshot") /\ StateFree
    /\ worker' = [worker EXCEPT ![w] =
          [pc |-> "filter",
           run |-> [i \in Instances |-> IF Known(i) THEN inst[i].conf ELSE None],
           todo |-> {i \in Instances : Known(i)}]]
    /\ UNCHANGED <<runtime, updateLock, cancel, task>> /\ UnchangedElsewhere

\* Only the instances that run now are stopped and restored.
WkFilter(w, i) ==
    /\ At(w, "filter") /\ i \in worker[w].todo
    /\ worker' = [worker EXCEPT ![w] =
          [pc |-> "filter",
           run |-> [worker[w].run EXCEPT ![i] = IF InstanceRunning(i) THEN @ ELSE None],
           todo |-> worker[w].todo \ {i}]]
    /\ Reap({i})
    /\ UNCHANGED <<proc, updateLock, cancel, task>> /\ UnchangedElsewhere

WkStopBegin(w) ==
    /\ At(w, "filter") /\ worker[w].todo = {}
    /\ GoWith(w, "stopping", RunSet(w))
    /\ SetTask(w, "stopping")
    /\ UNCHANGED <<runtime, updateLock, cancel>> /\ UnchangedElsewhere

WkStop(w, i) ==
    /\ At(w, "stopping") /\ i \in worker[w].todo
    /\ StopOk(i)
    /\ worker' = [worker EXCEPT ![w].todo = @ \ {i}]
    /\ UNCHANGED <<updateLock, cancel, task>> /\ UnchangedElsewhere

\* One stop fails: the update ends there, and what was already stopped stays
\* stopped.
WkStopErr(w, i) ==
    /\ At(w, "stopping") /\ i \in worker[w].todo
    /\ StopErr(i)
    /\ Finish(w, "failed")
    /\ UnchangedElsewhere

WkInstallBegin(w) ==
    /\ At(w, "stopping") /\ worker[w].todo = {}
    /\ GoTo(w, "installing")
    /\ SetTask(w, "installing")
    /\ UNCHANGED <<runtime, updateLock, cancel>> /\ UnchangedElsewhere

\* install succeeds.  The operating system refuses to overwrite the file of
\* a running program, so no core is alive.
WkInstallOk(w) ==
    /\ At(w, "installing") /\ ~AnyCore
    /\ GoWith(w, "restarting", RunSet(w))
    /\ SetTask(w, "restarting")
    /\ UNCHANGED <<runtime, updateLock, cancel>> /\ UnchangedElsewhere

\* install fails; the thread starts again what it stopped.
WkInstallErr(w) ==
    /\ At(w, "installing")
    /\ GoWith(w, "restoring", RunSet(w))
    /\ UNCHANGED <<runtime, updateLock, cancel, task>> /\ UnchangedElsewhere

\* One network is started again, with the configuration cloned earlier and
\* without looking at the current one.  A failure is only reported.
WkStart(w, i) ==
    /\ At(w, "restarting") \/ At(w, "restoring")
    /\ i \in worker[w].todo
    /\ StartOk(i, worker[w].run[i], NotedPids) \/ StartErr(i)
    /\ worker' = [worker EXCEPT ![w].todo = @ \ {i}]
    /\ UNCHANGED <<updateLock, cancel, task>> /\ UnchangedElsewhere

WkFinish(w) ==
    /\ worker[w].todo = {}
    /\ \/ At(w, "restarting") /\ Finish(w, "completed")
       \/ At(w, "restoring") /\ Finish(w, "failed")
    /\ UNCHANGED runtime /\ UnchangedElsewhere

WorkerStep(w) ==
    \/ WkReset(w) \/ WkProgress(w) \/ WkStageOk(w) \/ WkStageErr(w)
    \/ WkStageAbort(w) \/ WkAborted(w)
    \/ WkCancelled(w) \/ WkNotCancelled(w) \/ WkSnapshot(w)
    \/ WkStopBegin(w) \/ WkInstallBegin(w) \/ WkInstallOk(w) \/ WkInstallErr(w)
    \/ WkFinish(w)
    \/ \E i \in Instances :
         WkFilter(w, i) \/ WkStop(w, i) \/ WkStopErr(w, i) \/ WkStart(w, i)
=============================================================================
