------------------------------ MODULE Lifecycle -----------------------------
(***************************************************************************)
(* The life of the service process: the start-up block of run_service,     *)
(* the main thread's wait for the stop flag, stop_all and process::exit,   *)
(* the service control handler, and the process dying                      *)
(* (src-tauri/src/service_main.rs).                                        *)
(***************************************************************************)
EXTENDS ServiceShared

\* The service manager starts the process: the file is loaded and the scan
\* for orphans looks at every configured instance once.
BootLoad ==
    /\ svc = "down"
    /\ svc' = "boot"
    /\ inst' = disk
    /\ \E found \in [Instances -> Pids \cup {None}] :
         /\ \A i \in Instances :
              found[i] \in IF disk[i] = None THEN {None} ELSE ScanResults(i)
         /\ boot' = [orphans |-> found,
                     check |-> {i \in Instances : found[i] # None},
                     start |-> {i \in Instances :
                                  /\ disk[i] # None
                                  /\ disk[i].auto \/ disk[i].desired = "running"}]
    /\ UNCHANGED <<runtime, disk, saving, ipc, stopped, update, wd>>

\* Mutant: an orphan of a stopped instance is left alone.
BootOrphanSpared(i) ==
    /\ svc = "boot" /\ i \in boot.check
    /\ boot' = [boot EXCEPT !.check = @ \ {i}]
    /\ (Wanted(i) /\ Adopt(i, boot.orphans[i])) \/ UNCHANGED runtime
    /\ UNCHANGED <<svc, stopped, config, ipc, update, wd>>

\* First pass over the orphans.  One whose instance should be stopped is
\* terminated; one whose RPC portal answers is adopted; the others are left
\* for the second pass.  The probe only sees whether something listens on the
\* instance's port, so both answers are possible.
BootOrphan(i) ==
    /\ svc = "boot" /\ i \in boot.check
    /\ boot' = [boot EXCEPT !.check = @ \ {i}]
    /\ IF ~Wanted(i)
         THEN Terminate({boot.orphans[i]}) /\ UNCHANGED <<children, adopted>>
         ELSE Adopt(i, boot.orphans[i]) \/ UNCHANGED runtime
    /\ UNCHANGED <<svc, stopped, config, ipc, update, wd>>

\* Second pass.  An adopted instance is skipped.
BootSkip(i) ==
    /\ svc = "boot" /\ boot.check = {} /\ i \in boot.start
    /\ adopted[i] # None
    /\ boot' = [boot EXCEPT !.start = @ \ {i}]
    /\ UNCHANGED <<runtime, svc, stopped, config, ipc, update, wd>>

\* Second pass: the orphan that was not adopted is terminated before the
\* restart; it holds the instance's ports.
BootKill(i) ==
    /\ svc = "boot" /\ boot.check = {} /\ i \in boot.start
    /\ adopted[i] = None /\ boot.orphans[i] # None
    /\ Terminate({boot.orphans[i]})
    /\ boot' = [boot EXCEPT !.orphans[i] = None]
    /\ UNCHANGED <<children, adopted, svc, stopped, config, ipc, update, wd>>

\* Second pass: the instance is started, and from then on should run.  A
\* failure is only recorded as last_error.
BootStart(i) ==
    /\ svc = "boot" /\ boot.check = {} /\ i \in boot.start
    /\ adopted[i] = None /\ boot.orphans[i] = None
    /\ \/ StartOk(i, inst[i].conf, NotedPids) /\ SetDesired(i, "running")
       \/ StartErr(i) /\ UNCHANGED inst
    /\ boot' = [boot EXCEPT !.start = @ \ {i}]
    /\ UNCHANGED <<svc, stopped, disk, saving, ipc, update, wd>>

\* The start-up block ends: the configuration is written, and the watchdog
\* and the IPC server start.
BootReady ==
    /\ svc = "boot" /\ boot.check = {} /\ boot.start = {}
    /\ disk' = inst \/ ("save" \in Faults /\ disk' = disk)
    /\ svc' = "up"
    /\ boot' = NoBoot
    /\ wd' = FreshWatchdog("sleep")
    /\ UNCHANGED <<runtime, inst, saving, ipc, stopped, update>>

\* The service manager asks the service to stop, or the machine shuts down.
ScmStop ==
    /\ "service_stop" \in Commands
    /\ svc # "down" /\ ~stopped
    /\ stopped' = TRUE
    /\ UNCHANGED <<runtime, config, ipc, svc, boot, update, wd>>

\* The main thread leaves its wait loop and stops every tracked core.  The
\* other threads are not stopped.
MainStopAll ==
    /\ svc = "up" /\ stopped
    /\ StopAllTracked
    /\ svc' = "exiting"
    /\ UNCHANGED <<config, ipc, stopped, boot, update, wd>>

\* Mutant: the process stays until its cores are gone.
MainExitWhenEmpty ==
    /\ svc = "exiting" /\ ~AnyCore
    /\ Gone

\* process::exit(0).
MainExit ==
    /\ svc = "exiting"
    /\ Gone

\* The service process dies at any point.
Crash ==
    /\ "crash" \in Faults
    /\ svc # "down"
    /\ Gone

CoreExit(p) ==
    /\ ProcessExit(p)
    /\ UNCHANGED <<config, ipc, control, update, wd>>

PidReuse(p) ==
    /\ PidReused(p, NotedPids)
    /\ UNCHANGED <<config, ipc, control, update, wd>>

Boot ==
    \/ BootLoad
    \/ \E i \in Instances :
         BootOrphan(i) \/ BootSkip(i) \/ BootKill(i) \/ BootStart(i)
    \/ BootReady

Main == MainStopAll \/ MainExit
Environment ==
    \/ ScmStop
    \/ Crash
    \/ \E p \in Pids : CoreExit(p) \/ PidReuse(p)
=============================================================================
