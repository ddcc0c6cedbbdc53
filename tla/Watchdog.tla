------------------------------ MODULE Watchdog ------------------------------
(***************************************************************************)
(* The watchdog thread (src-tauri/src/service_main.rs, watchdog): every    *)
(* tick it takes a snapshot of the instances that should run and, for each *)
(* one whose core is gone, scans for an orphan, terminates it, and starts  *)
(* a core if the instance should still run.  Time is abstracted: a dead    *)
(* core may be passed over because its last attempt is too recent or it is *)
(* in cooldown.                                                            *)
(***************************************************************************)
EXTENDS ServiceShared

WdAt(pc) == ThreadsRun /\ wd.pc = pc
UnchangedByWatchdog == UNCHANGED <<config, ipc, control, update>>

\* The pass over one instance is done.
NextInstance == wd' = [wd EXCEPT !.pc = "pass", !.cur = None, !.conf = None,
                                 !.pid = None]

\* A tick: stop flag and update_lock are looked at once for the whole pass,
\* then the wanted instances are cloned under the state mutex.
WdBegin ==
    /\ WdAt("sleep") /\ ~stopped /\ ~updateLock /\ StateFree
    /\ wd' = [wd EXCEPT !.pc = "pass",
                        !.snap = [i \in Instances |->
                                    IF Wanted(i) THEN inst[i].conf ELSE None]]
    /\ UNCHANGED runtime /\ UnchangedByWatchdog

\* The instance is alive, or its restart is throttled.
WdPass(i) ==
    /\ WdAt("pass") /\ wd.snap[i] # None
    /\ Reap({i})
    /\ wd' = [wd EXCEPT !.snap[i] = None]
    /\ UNCHANGED proc /\ UnchangedByWatchdog

\* Its core is gone and an attempt is due.
WdAttempt(i) ==
    /\ WdAt("pass") /\ wd.snap[i] # None /\ ~InstanceRunning(i)
    /\ Reap({i})
    /\ wd' = [wd EXCEPT !.pc = "scan", !.cur = i, !.conf = wd.snap[i],
                        !.snap[i] = None]
    /\ UNCHANGED proc /\ UnchangedByWatchdog

\* The PowerShell scan takes seconds and holds no mutex.
WdScan ==
    /\ WdAt("scan")
    /\ \E p \in ScanResults(wd.cur) :
         wd' = [wd EXCEPT !.pc = IF p = None THEN "start" ELSE "kill",
                          !.pid = p]
    /\ UNCHANGED runtime /\ UnchangedByWatchdog

\* What the scan found is terminated, tracked or not.
WdKill ==
    /\ WdAt("kill")
    /\ Terminate({wd.pid})
    /\ wd' = [wd EXCEPT !.pc = "start", !.pid = None]
    /\ UNCHANGED <<children, adopted>> /\ UnchangedByWatchdog

\* Mutant: the instance is started without looking again whether it should
\* run.
WdStartUnchecked ==
    /\ WdAt("start") /\ StateFree
    /\ StartOk(wd.cur, wd.conf, NotedPids) \/ StartErr(wd.cur)
    /\ NextInstance
    /\ UnchangedByWatchdog

\* Under the state mutex: if the instance should still run, it is started
\* with the configuration of the snapshot.
WdStart ==
    /\ WdAt("start") /\ StateFree /\ Wanted(wd.cur)
    /\ StartOk(wd.cur, wd.conf, NotedPids) \/ StartErr(wd.cur)
    /\ NextInstance
    /\ UnchangedByWatchdog

WdGiveUp ==
    /\ WdAt("start") /\ StateFree /\ ~Wanted(wd.cur)
    /\ NextInstance
    /\ UNCHANGED runtime /\ UnchangedByWatchdog

\* Mutant: the thread returns after a pass.
WdEndForGood ==
    /\ WdAt("pass") /\ wd.snap = NoConfs
    /\ wd' = WatchdogOff
    /\ UNCHANGED runtime /\ UnchangedByWatchdog

WdEnd ==
    /\ WdAt("pass") /\ wd.snap = NoConfs
    /\ wd' = [wd EXCEPT !.pc = "sleep"]
    /\ UNCHANGED runtime /\ UnchangedByWatchdog

\* The thread leaves its loop once the stop flag is up.
WdStop ==
    /\ WdAt("sleep") /\ stopped
    /\ wd' = WatchdogOff
    /\ UNCHANGED runtime /\ UnchangedByWatchdog

WatchdogNext ==
    \/ WdBegin \/ WdScan \/ WdKill \/ WdStart \/ WdGiveUp \/ WdEnd \/ WdStop
    \/ \E i \in Instances : WdPass(i) \/ WdAttempt(i)
=============================================================================
