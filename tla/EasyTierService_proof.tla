------------------------ MODULE EasyTierService_proof -----------------------
(***************************************************************************)
(* Theorems about the service, for every set of instances, pids, update    *)
(* threads and configurations, every set of requests and every bound.      *)
(***************************************************************************)
EXTENDS EasyTierService, TLAPS

(***************************************************************************)
(* RuntimeManager: what its operations preserve, for every set of          *)
(* instances and pids.                                                     *)
(***************************************************************************)

\* The live cores that are not in the books of their own instance.
Loose == {p \in Pids : IsCore(p) /\ p \notin Tracked(proc[p].id)}

\* No network has two cores.
Single ==
    \A p, q \in Pids :
        IsCore(p) /\ IsCore(q) /\ proc[p].id = proc[q].id => p = q

\* A step makes no core loose, and gives no loose core's pid to another.
NoMoreLoose == \A p \in Loose' : p \in Loose /\ proc'[p] = proc[p]

USE RuntimeAssumption DEF RuntimeTypeOK

(***************************************************************************)
(* Types of the process tables.                                            *)
(***************************************************************************)

\* Every operation of RuntimeManager keeps the three tables well typed.
LEMMA ReapType ==
    ASSUME RuntimeTypeOK, NEW S, Reap(S), UNCHANGED proc
    PROVE  RuntimeTypeOK'
BY DEF Reap

LEMMA StartOkType ==
    ASSUME RuntimeTypeOK, NEW i \in Instances, NEW c \in Confs, NEW noted,
           StartOk(i, c, noted)
    PROVE  RuntimeTypeOK'
<1>1. CASE StartRunning(i)
    BY <1>1, ReapType DEF StartRunning
<1>2. CASE StartSpawn(i, c, noted)
    <2>1. PICK p \in FreePids(i, noted) :
             /\ proc' = [proc EXCEPT ![p] = [id |-> i, conf |-> c]]
             /\ children' = [children EXCEPT ![i] = p]
        BY <1>2 DEF StartSpawn
    <2>2. p \in Pids
        BY DEF FreePids
    <2>3. [id |-> i, conf |-> c] \in Core
        BY DEF Core
    <2> QED
        BY <1>2, <2>1, <2>2, <2>3 DEF StartSpawn
<1> QED
    BY <1>1, <1>2 DEF StartOk

LEMMA StartErrType ==
    ASSUME RuntimeTypeOK, NEW i \in Instances, StartErr(i)
    PROVE  RuntimeTypeOK'
BY ReapType DEF StartErr

LEMMA TerminateType ==
    ASSUME RuntimeTypeOK, NEW S, Terminate(S)
    PROVE  proc' \in [Pids -> Core \cup {None, Foreign}]
BY DEF Terminate, Without

LEMMA StopType ==
    ASSUME RuntimeTypeOK, NEW i \in Instances, StopOk(i) \/ StopErr(i)
    PROVE  RuntimeTypeOK'
BY TerminateType DEF StopOk, StopErr

LEMMA StopAllType ==
    ASSUME RuntimeTypeOK, StopAllTracked
    PROVE  RuntimeTypeOK'
BY TerminateType DEF StopAllTracked

(***************************************************************************)
(* Loose cores.                                                            *)
(***************************************************************************)

\* Dropping dead handles loses no live core.
LEMMA ReapLoose ==
    ASSUME RuntimeTypeOK, NEW S, Reap(S), UNCHANGED proc
    PROVE  NoMoreLoose /\ (Single => Single')
<1>1. ASSUME NEW p \in Pids, IsCore(p), p \in Tracked(proc[p].id)
      PROVE  p \in Tracked(proc[p].id)'
    <2>1. proc[p] # None /\ proc[p].id \in Instances
        BY <1>1 DEF IsCore, Core
    <2> QED
        BY <1>1, <2>1 DEF Tracked, Reap, ChildAlive, AdoptedAlive, InstanceRunning
<1> QED
    BY <1>1 DEF NoMoreLoose, Loose, IsCore, Single

\* A start of an instance none of whose cores is loose makes no core loose
\* and gives no instance a second core.
LEMMA StartOkLoose ==
    ASSUME RuntimeTypeOK, NEW i \in Instances, NEW c \in Confs, NEW noted,
           StartOk(i, c, noted), CoresOf(i) \cap Loose = {}
    PROVE  NoMoreLoose /\ (Single => Single')
<1>1. CASE StartRunning(i)
    BY <1>1, ReapLoose DEF StartRunning
<1>2. CASE StartSpawn(i, c, noted)
    <2>1. PICK p \in FreePids(i, noted) :
             /\ proc' = [proc EXCEPT ![p] = [id |-> i, conf |-> c]]
             /\ children' = [children EXCEPT ![i] = p]
        BY <1>2 DEF StartSpawn
    <2>2. p \in Pids /\ proc[p] = None
        BY DEF FreePids
    <2>3. CoresOf(i) = {}
        <3> SUFFICES ASSUME NEW q \in CoresOf(i) PROVE FALSE
            OBVIOUS
        <3>1. q \in Tracked(i)
            BY DEF Loose, CoresOf
        <3>2. proc[q] # None
            BY DEF CoresOf, IsCore
        <3> QED
            BY <1>2, <3>1, <3>2
            DEF StartSpawn, Tracked, InstanceRunning, ChildAlive, AdoptedAlive
    <2>4. [id |-> i, conf |-> c] \in Core /\ [id |-> i, conf |-> c] \notin {None, Foreign}
        BY DEF Core
    <2>5. ASSUME NEW q \in Pids, q # p
          PROVE  proc'[q] = proc[q] /\ (IsCore(q) => proc[q].id # i /\ proc[q].id \in Instances)
        BY <2>1, <2>2, <2>3, <2>5 DEF CoresOf, IsCore, Core
    <2>6. proc'[p] = [id |-> i, conf |-> c] /\ children'[i] = p
        BY <2>1, <2>2
    <2>7. NoMoreLoose
        <3> SUFFICES ASSUME NEW q \in Loose' PROVE q \in Loose /\ proc'[q] = proc[q]
            BY DEF NoMoreLoose
        <3>1. q \in Pids /\ IsCore(q)' /\ q \notin Tracked(proc[q].id)'
            BY DEF Loose
        <3>2. q # p
            <4> SUFFICES ASSUME q = p PROVE FALSE
                OBVIOUS
            <4>1. proc'[q].id = i
                BY <2>6
            <4>2. q \in Tracked(proc[q].id)'
                BY <2>2, <2>6, <4>1 DEF Tracked
            <4> QED
                BY <3>1, <4>2
        <3>3. proc'[q] = proc[q] /\ IsCore(q)
            BY <2>5, <3>1, <3>2 DEF IsCore
        <3>4. proc[q].id # i /\ proc[q].id \in Instances
            BY <2>5, <3>1, <3>2, <3>3
        <3>5. Tracked(proc[q].id)' = Tracked(proc[q].id)
            BY <1>2, <2>1, <3>3, <3>4 DEF StartSpawn, Tracked
        <3> QED
            BY <3>1, <3>3, <3>5 DEF Loose
    <2>8. Single => Single'
        BY <2>2, <2>5, <2>6 DEF Single, IsCore
    <2> QED
        BY <2>7, <2>8
<1> QED
    BY <1>1, <1>2 DEF StartOk

LEMMA StartErrLoose ==
    ASSUME RuntimeTypeOK, NEW i \in Instances, StartErr(i)
    PROVE  NoMoreLoose /\ (Single => Single')
BY ReapLoose DEF StartErr

\* Ending processes makes no core loose.
LEMMA DeathLoose ==
    ASSUME RuntimeTypeOK, NEW D, proc' = Without(D), UNCHANGED <<children, adopted>>
    PROVE  NoMoreLoose /\ (Single => Single')
BY DEF Without, NoMoreLoose, Loose, IsCore, Tracked, Single

\* Where every kill succeeds, what stop drops from the books is dead.
LEMMA StopLoose ==
    ASSUME RuntimeTypeOK, NEW i \in Instances, StopOk(i) \/ StopErr(i),
           "kill" \notin Faults
    PROVE  NoMoreLoose /\ (Single => Single')
<1>1. StopOk(i) /\ proc' = Without(Tracked(i))
    BY DEF StopErr, StopOk, Terminate, Deaths
<1>2. ASSUME NEW q \in Pids, IsCore(q)'
      PROVE  proc'[q] = proc[q] /\ IsCore(q) /\ q \notin Tracked(i)
    BY <1>1, <1>2 DEF Without, IsCore
<1>3. ASSUME NEW q \in Loose' PROVE q \in Loose /\ proc'[q] = proc[q]
    <2>1. q \in Pids /\ IsCore(q)' /\ q \notin Tracked(proc[q].id)'
        BY <1>3 DEF Loose
    <2>2. proc'[q] = proc[q] /\ IsCore(q) /\ q \notin Tracked(i)
        BY <1>2, <2>1
    <2>3. proc[q].id \in Instances
        BY <2>1, <2>2 DEF IsCore, Core
    <2>4. CASE proc[q].id = i
        BY <2>1, <2>2, <2>4 DEF Loose
    <2>5. CASE proc[q].id # i
        <3>1. Tracked(proc[q].id)' = Tracked(proc[q].id)
            BY <1>1, <2>2, <2>3, <2>5 DEF StopOk, Tracked
        <3> QED
            BY <2>1, <2>2, <3>1 DEF Loose
    <2> QED
        BY <2>2, <2>4, <2>5
<1>4. Single => Single'
    BY <1>2 DEF Single
<1> QED
    BY <1>3, <1>4 DEF NoMoreLoose

LEMMA StopAllLoose ==
    ASSUME RuntimeTypeOK, StopAllTracked, "kill" \notin Faults
    PROVE  NoMoreLoose /\ (Single => Single')
<1>1. proc' = Without(ChildPids \cup AdoptedPids)
    BY DEF StopAllTracked, Terminate, Deaths
<1>2. ASSUME NEW q \in Pids, IsCore(q)'
      PROVE  /\ proc'[q] = proc[q] /\ IsCore(q)
             /\ q \notin ChildPids \cup AdoptedPids
    BY <1>1, <1>2 DEF Without, IsCore
<1>3. ASSUME NEW q \in Loose' PROVE q \in Loose /\ proc'[q] = proc[q]
    <2>1. q \in Pids /\ IsCore(q)'
        BY <1>3 DEF Loose
    <2>2. proc'[q] = proc[q] /\ IsCore(q) /\ q \notin ChildPids \cup AdoptedPids
        BY <1>2, <2>1
    <2>3. proc[q].id \in Instances
        BY <2>1, <2>2 DEF IsCore, Core
    <2>4. q # None
        BY <2>1
    <2> QED
        BY <2>1, <2>2, <2>3, <2>4 DEF Loose, Tracked, ChildPids, AdoptedPids
<1>4. Single => Single'
    BY <1>2 DEF Single
<1> QED
    BY <1>3, <1>4 DEF NoMoreLoose

\* A pid that goes to a foreign process has no effect on the cores.
LEMMA ReuseLoose ==
    ASSUME RuntimeTypeOK, NEW p \in Pids, NEW noted, PidReused(p, noted)
    PROVE  NoMoreLoose /\ (Single => Single')
BY DEF PidReused, NoMoreLoose, Loose, IsCore, Tracked, Single

LEMMA ExitLoose ==
    ASSUME RuntimeTypeOK, NEW p \in Pids, ProcessExit(p)
    PROVE  NoMoreLoose /\ (Single => Single')
BY DEF ProcessExit, NoMoreLoose, Loose, IsCore, Tracked, Single
HIDE RuntimeAssumption DEF RuntimeTypeOK

USE ServiceAssumption

(***************************************************************************)
(* Types of the service.                                                   *)
(***************************************************************************)

\* TypeOK alone is not kept by the steps that follow a reference: an entry
\* of a list of things still to do must name an instance there is.
BootRefs == svc = "boot" => \A i \in boot.start : Known(i)
IpcRefs ==
    /\ \A i \in ipc.todo : Known(i)
    /\ ~ThreadsRun => ipc = NoIpc
WorkerRefs ==
    \A w \in Workers : worker[w].pc \in {"restarting", "restoring"} =>
        \A i \in worker[w].todo : worker[w].run[i] # None
WatchdogRefs ==
    /\ wd.pc \in {"scan", "kill", "start"} =>
         wd.cur \in Instances /\ wd.conf \in Confs
    /\ wd.pc = "kill" => wd.pid \in Pids

\* A request that is being answered has kept a place for its save.
Reserved == ipc # NoIpc => saving < Handlers

TypeInv == TypeOK /\ Reserved /\ BootRefs /\ IpcRefs /\ WorkerRefs /\ WatchdogRefs

\* What a step leaves alone stays well typed.
LEMMA Kept ==
    /\ RuntimeTypeOK /\ UNCHANGED runtime => RuntimeTypeOK'
    /\ ConfigTypeOK /\ UNCHANGED config => ConfigTypeOK'
    /\ IpcTypeOK /\ UNCHANGED ipc => IpcTypeOK'
    /\ ControlTypeOK /\ UNCHANGED control => ControlTypeOK'
    /\ UpdateTypeOK /\ UNCHANGED update => UpdateTypeOK'
    /\ WatchdogTypeOK /\ UNCHANGED wd => WatchdogTypeOK'
<1>1. RuntimeTypeOK /\ UNCHANGED runtime => RuntimeTypeOK'
    BY DEF runtime, RuntimeTypeOK
<1>2. ConfigTypeOK /\ UNCHANGED config => ConfigTypeOK'
    BY DEF config, ConfigTypeOK
<1>3. IpcTypeOK /\ UNCHANGED ipc => IpcTypeOK'
    BY DEF IpcTypeOK
<1>4. ControlTypeOK /\ UNCHANGED control => ControlTypeOK'
    BY DEF control, ControlTypeOK
<1>5. UpdateTypeOK /\ UNCHANGED update => UpdateTypeOK'
    BY DEF update, UpdateTypeOK
<1>6. WatchdogTypeOK /\ UNCHANGED wd => WatchdogTypeOK'
    BY DEF WatchdogTypeOK
<1> QED
    BY <1>1, <1>2, <1>3, <1>4, <1>5, <1>6

LEMMA KeptRefs ==
    /\ BootRefs /\ UNCHANGED <<svc, boot, inst>> => BootRefs'
    /\ IpcRefs /\ UNCHANGED <<ipc, svc, inst>> => IpcRefs'
    /\ WorkerRefs /\ UNCHANGED worker => WorkerRefs'
    /\ WatchdogRefs /\ UNCHANGED wd => WatchdogRefs'
    /\ UNCHANGED ipc /\ (ipc = NoIpc \/ (Reserved /\ UNCHANGED saving)) => Reserved'
<1>1. BootRefs /\ UNCHANGED <<svc, boot, inst>> => BootRefs'
    BY DEF BootRefs, Known
<1>2. IpcRefs /\ UNCHANGED <<ipc, svc, inst>> => IpcRefs'
    BY DEF IpcRefs, Known, ThreadsRun
<1>3. WorkerRefs /\ UNCHANGED worker => WorkerRefs'
    BY DEF WorkerRefs
<1>4. WatchdogRefs /\ UNCHANGED wd => WatchdogRefs'
    BY DEF WatchdogRefs
<1>5. UNCHANGED ipc /\ (ipc = NoIpc \/ (Reserved /\ UNCHANGED saving)) => Reserved'
    BY DEF Reserved
<1> QED
    BY <1>1, <1>2, <1>3, <1>4, <1>5

\* An instance that is there can have its desired state or its auto_start
\* set, and stays there.
LEMMA SetFields ==
    ASSUME ConfigTypeOK, NEW i \in Instances, Known(i)
    PROVE  /\ inst[i].conf \in Confs
           /\ \A d \in {"stopped", "running"} : SetDesired(i, d) =>
                /\ inst' \in [Instances -> Config \cup {None}]
                /\ \A j \in Instances : Known(j)' <=> Known(j)
           /\ \A a \in BOOLEAN : inst' = [inst EXCEPT ![i].auto = a] =>
                /\ inst' \in [Instances -> Config \cup {None}]
                /\ \A j \in Instances : Known(j)' <=> Known(j)
BY DEF ConfigTypeOK, Known, Config, SetDesired

LEMMA BootType ==
    ASSUME TypeInv, Boot
    PROVE  TypeInv'
<1> USE Kept, KeptRefs DEF TypeInv, TypeOK
<1>1. CASE BootLoad
    <2>1. ControlTypeOK' /\ ConfigTypeOK' /\ BootRefs'
        BY <1>1 DEF BootLoad, ConfigTypeOK, ControlTypeOK, BootRefs, Known
    <2>2. IpcRefs'
        BY <1>1 DEF BootLoad, IpcRefs, ThreadsRun, NoIpc
    <2> QED
        BY <1>1, <2>1, <2>2 DEF BootLoad, update
<1>2. ASSUME NEW i \in Instances, BootOrphan(i) PROVE TypeInv'
    <2>1. RuntimeTypeOK'
        <3>1. i \in boot.check /\ boot.orphans[i] \in Pids \cup {None}
            BY <1>2 DEF BootOrphan, ControlTypeOK
        <3>2. CASE ~Wanted(i)
            BY <1>2, <3>2, TerminateType DEF BootOrphan, RuntimeTypeOK
        <3>3. CASE Wanted(i)
            BY <1>2, <3>1, <3>3 DEF BootOrphan, Adopt, RuntimeTypeOK
        <3> QED
            BY <3>2, <3>3
    <2>2. ControlTypeOK' /\ BootRefs'
        BY <1>2 DEF BootOrphan, ControlTypeOK, BootRefs, Known, config
    <2> QED
        BY <1>2, <2>1, <2>2 DEF BootOrphan, config, update
<1>3. ASSUME NEW i \in Instances, BootSkip(i) PROVE TypeInv'
    <2>1. ControlTypeOK' /\ BootRefs'
        BY <1>3 DEF BootSkip, ControlTypeOK, BootRefs, Known, config
    <2> QED
        BY <1>3, <2>1 DEF BootSkip, config, update
<1>4. ASSUME NEW i \in Instances, BootKill(i) PROVE TypeInv'
    <2>1. RuntimeTypeOK'
        BY <1>4, TerminateType DEF BootKill, RuntimeTypeOK
    <2>2. ControlTypeOK' /\ BootRefs'
        BY <1>4 DEF BootKill, ControlTypeOK, BootRefs, Known, config
    <2> QED
        BY <1>4, <2>1, <2>2 DEF BootKill, config, update
<1>5. ASSUME NEW i \in Instances, BootStart(i) PROVE TypeInv'
    <2>1. svc = "boot" /\ i \in boot.start /\ Known(i)
        BY <1>5 DEF BootStart, BootRefs
    <2>2. RuntimeTypeOK'
        BY <1>5, <2>1, StartOkType, StartErrType, SetFields DEF BootStart
    <2>3. /\ inst' \in [Instances -> Config \cup {None}]
          /\ \A j \in Instances : Known(j)' <=> Known(j)
        <3>1. CASE SetDesired(i, "running")
            BY <2>1, <3>1, SetFields
        <3>2. CASE UNCHANGED inst
            BY <3>2 DEF ConfigTypeOK, Known
        <3> QED
            BY <1>5, <3>1, <3>2 DEF BootStart
    <2>4. ConfigTypeOK' /\ ControlTypeOK'
        BY <1>5, <2>3 DEF BootStart, ConfigTypeOK, ControlTypeOK
    <2>5. BootRefs'
        BY <1>5, <2>3 DEF BootStart, ControlTypeOK, BootRefs
    <2>6. IpcRefs'
        BY <1>5, <2>1 DEF BootStart, IpcRefs, ThreadsRun, NoIpc
    <2> QED
        BY <1>5, <2>2, <2>4, <2>5, <2>6 DEF BootStart, update
<1>6. CASE BootReady
    <2>1. ControlTypeOK' /\ ConfigTypeOK'
        BY <1>6 DEF BootReady, ControlTypeOK, ConfigTypeOK, NoBoot, NoConfs
    <2>2. WatchdogTypeOK' /\ WatchdogRefs'
        BY <1>6 DEF BootReady, WatchdogTypeOK, WatchdogRefs, FreshWatchdog, NoConfs
    <2>3. BootRefs' /\ IpcRefs'
        BY <1>6 DEF BootReady, BootRefs, IpcRefs, ThreadsRun, Known
    <2> QED
        BY <1>6, <2>1, <2>2, <2>3 DEF BootReady, update
<1> QED
    BY <1>1, <1>2, <1>3, <1>4, <1>5, <1>6 DEF Boot

LEMMA GoneType ==
    ASSUME TypeInv, Gone
    PROVE  TypeInv'
<1> USE DEF Gone, TypeInv, TypeOK
<1>0. RuntimeTypeOK' /\ ConfigTypeOK'
    BY DEF ConfigTypeOK, NoConfs, RuntimeTypeOK
<1>1. IpcTypeOK' /\ ControlTypeOK'
    BY DEF IpcTypeOK, ControlTypeOK, NoConfs, NoIpc, NoBoot
<1>2. UpdateTypeOK' /\ WorkerRefs'
    BY DEF UpdateTypeOK, WorkerRefs, IdleWorker, FreshWorker, NoConfs, WorkerPcs, Phases
<1>3. WatchdogTypeOK' /\ WatchdogRefs'
    BY DEF WatchdogTypeOK, WatchdogRefs, WatchdogOff, FreshWatchdog, NoConfs
<1>4. BootRefs' /\ IpcRefs'
    BY DEF BootRefs, IpcRefs, NoIpc
<1>5. Reserved'
    BY DEF Reserved
<1> QED
    BY <1>0, <1>1, <1>2, <1>3, <1>4, <1>5

LEMMA MainType ==
    ASSUME TypeInv, Main \/ Environment
    PROVE  TypeInv'
<1> USE Kept, KeptRefs DEF TypeInv, TypeOK
<1>1. CASE MainStopAll
    <2>1. RuntimeTypeOK' /\ ControlTypeOK'
        BY <1>1, StopAllType DEF MainStopAll, ControlTypeOK
    <2>2. BootRefs' /\ IpcRefs'
        BY <1>1 DEF MainStopAll, BootRefs, IpcRefs, ThreadsRun, Known, config
    <2> QED
        BY <1>1, <2>1, <2>2 DEF MainStopAll, config, update
<1>2. CASE MainExit \/ Crash
    BY <1>2, GoneType DEF MainExit, Crash
<1>3. CASE ScmStop
    <2>1. ControlTypeOK'
        BY <1>3 DEF ScmStop, ControlTypeOK
    <2> QED
        BY <1>3, <2>1 DEF ScmStop, config, update
<1>4. ASSUME NEW p \in Pids, CoreExit(p) \/ PidReuse(p) PROVE TypeInv'
    <2>1. RuntimeTypeOK'
        BY <1>4 DEF CoreExit, ProcessExit, PidReuse, PidReused, RuntimeTypeOK
    <2> QED
        BY <1>4, <2>1 DEF CoreExit, PidReuse, config, control, update
<1> QED
    BY <1>1, <1>2, <1>3, <1>4 DEF Main, Environment

\* A request that respects the bound keeps the counter of saves in range.
LEMMA RequestFacts ==
    ASSUME TypeInv, NEW c, Request(c)
    PROVE  /\ saving \in 0..Handlers /\ saving + 1 \in 0..Handlers
           /\ ThreadsRun /\ ipc = NoIpc
BY DEF Request, StateFree, TypeInv, TypeOK, ConfigTypeOK

LEMMA DispatchType ==
    ASSUME TypeInv, DispatchNext
    PROVE  TypeInv'
<1> USE Kept, KeptRefs DEF TypeInv, TypeOK, UnchangedControl, control, update, Respond,
        RespondError
<1>1. CASE Query \/ ListInstances
    <2>1. ConfigTypeOK'
        BY <1>1, RequestFacts DEF Query, ListInstances, ConfigTypeOK
    <2>2. RuntimeTypeOK'
        BY <1>1, ReapType DEF Query, ListInstances
    <2> QED
        BY <1>1, <2>1, <2>2, RequestFacts DEF Query, ListInstances
<1>2. ASSUME NEW i \in Instances, SyncInstance(i) PROVE TypeInv'
    <2>1. PICK c \in Confs, a \in AutoValues, d \in {"stopped", "running"} :
             inst' = [inst EXCEPT ![i] = [conf |-> c, auto |-> a, desired |-> d]]
        BY <1>2 DEF SyncInstance
    <2>2. [conf |-> c, auto |-> a, desired |-> d] \in Config
        BY DEF Config
    <2>3. ConfigTypeOK'
        BY <1>2, <2>1, <2>2, RequestFacts DEF SyncInstance, ConfigTypeOK
    <2>4. \A j \in Instances : Known(j) => Known(j)'
        BY <2>1, <2>2 DEF ConfigTypeOK, Known
    <2>5. BootRefs' /\ IpcRefs'
        BY <1>2, <2>4, RequestFacts
        DEF SyncInstance, BootRefs, IpcRefs, ThreadsRun, NoIpc
    <2> QED
        BY <1>2, <2>3, <2>5, RequestFacts DEF SyncInstance
<1>3. ASSUME NEW i \in Instances, RemoveInstance(i) PROVE TypeInv'
    <2>1. RuntimeTypeOK'
        BY <1>3, ReapType DEF RemoveInstance
    <2>2. ConfigTypeOK'
        BY <1>3, RequestFacts DEF RemoveInstance, ConfigTypeOK
    <2>3. BootRefs' /\ IpcRefs'
        BY <1>3, RequestFacts DEF RemoveInstance, BootRefs, IpcRefs, ThreadsRun, NoIpc
    <2> QED
        BY <1>3, <2>1, <2>2, <2>3, RequestFacts DEF RemoveInstance
<1>4. ASSUME NEW i \in Instances, StartInstance(i) PROVE TypeInv'
    <2>1. Known(i) /\ inst[i].conf \in Confs
        BY <1>4, SetFields DEF StartInstance
    <2>2. RuntimeTypeOK'
        BY <1>4, <2>1, StartOkType, StartErrType DEF StartInstance
    <2>3. ConfigTypeOK'
        BY <1>4, <2>1, SetFields, RequestFacts DEF StartInstance, ConfigTypeOK
    <2>4. BootRefs' /\ IpcRefs'
        BY <1>4, RequestFacts DEF StartInstance, BootRefs, IpcRefs, ThreadsRun, NoIpc
    <2> QED
        BY <1>4, <2>2, <2>3, <2>4, RequestFacts DEF StartInstance
<1>5. ASSUME NEW i \in Instances, StopInstance(i) PROVE TypeInv'
    <2>1. RuntimeTypeOK'
        BY <1>5, StopType DEF StopInstance
    <2>2. ConfigTypeOK'
        BY <1>5, SetFields, RequestFacts DEF StopInstance, ConfigTypeOK
    <2>3. BootRefs' /\ IpcRefs'
        BY <1>5, RequestFacts DEF StopInstance, BootRefs, IpcRefs, ThreadsRun, NoIpc
    <2> QED
        BY <1>5, <2>1, <2>2, <2>3, RequestFacts DEF StopInstance
<1>6. ASSUME NEW i \in Instances, SetAutoStart(i) PROVE TypeInv'
    <2>1. ConfigTypeOK'
        BY <1>6, SetFields, RequestFacts DEF SetAutoStart, ConfigTypeOK
    <2>2. BootRefs' /\ IpcRefs'
        BY <1>6, RequestFacts DEF SetAutoStart, BootRefs, IpcRefs, ThreadsRun, NoIpc
    <2> QED
        BY <1>6, <2>1, <2>2, RequestFacts DEF SetAutoStart
<1>7. ASSUME NEW i \in Instances, StopAllOne(i) PROVE TypeInv'
    <2>1. i \in ipc.todo /\ Known(i) /\ ThreadsRun
        BY <1>7 DEF StopAllOne, IpcRefs
    <2>2. RuntimeTypeOK'
        BY <1>7, StopType, ReapType DEF StopAllOne
    <2>3. /\ inst' \in [Instances -> Config \cup {None}]
          /\ \A j \in Instances : Known(j)' <=> Known(j)
        <3>1. CASE SetDesired(i, "stopped")
            BY <2>1, <3>1, SetFields
        <3>2. CASE UNCHANGED inst
            BY <3>2 DEF ConfigTypeOK, Known
        <3> QED
            BY <1>7, <3>1, <3>2 DEF StopAllOne
    <2>4. ConfigTypeOK' /\ IpcTypeOK'
        BY <1>7, <2>3 DEF StopAllOne, ConfigTypeOK, IpcTypeOK
    <2>5. BootRefs'
        BY <1>7, <2>3 DEF StopAllOne, BootRefs, ControlTypeOK
    <2>6. IpcRefs' /\ Reserved'
        BY <1>7, <2>1, <2>3
        DEF StopAllOne, IpcRefs, IpcTypeOK, ThreadsRun, Reserved, NoIpc
    <2> QED
        BY <1>7, <2>2, <2>4, <2>5, <2>6 DEF StopAllOne
<1>8. ASSUME NEW c \in Commands, StopAllBegin(c) PROVE TypeInv'
    <2>1. IpcTypeOK'
        BY <1>8 DEF StopAllBegin, IpcTypeOK
    <2>2. IpcRefs'
        BY <1>8, RequestFacts DEF StopAllBegin, IpcRefs, ThreadsRun, Known, config
    <2>3. Reserved'
        BY <1>8 DEF StopAllBegin, Request, Reserved, config
    <2> QED
        BY <1>8, <2>1, <2>2, <2>3 DEF StopAllBegin, config
<1>9. CASE StopAllEnd
    <2>0. ConfigTypeOK'
        BY <1>9 DEF StopAllEnd, ConfigTypeOK, Reserved, StateFree
    <2>1. IpcTypeOK' /\ ControlTypeOK'
        BY <1>9 DEF StopAllEnd, IpcTypeOK, ControlTypeOK, NoIpc
    <2>2. IpcRefs' /\ Reserved'
        BY <1>9 DEF StopAllEnd, IpcRefs, Reserved, NoIpc
    <2> QED
        BY <1>9, <2>0, <2>1, <2>2 DEF StopAllEnd
<1>10. ASSUME NEW w \in Workers, UpdateKernel(w) PROVE TypeInv'
    <2>1. ConfigTypeOK'
        BY <1>10, RequestFacts DEF UpdateKernel, ConfigTypeOK
    <2>2. UpdateTypeOK' /\ WorkerRefs'
        BY <1>10 DEF UpdateKernel, UpdateTypeOK, WorkerRefs, FreshWorker, NoConfs,
                     WorkerPcs, Phases
    <2> QED
        BY <1>10, <2>1, <2>2, RequestFacts DEF UpdateKernel
<1>11. CASE CancelKernelUpdate
    <2>1. ConfigTypeOK'
        BY <1>11, RequestFacts DEF CancelKernelUpdate, ConfigTypeOK
    <2>2. UpdateTypeOK'
        BY <1>11 DEF CancelKernelUpdate, UpdateTypeOK, Phases
    <2> QED
        BY <1>11, <2>1, <2>2, RequestFacts DEF CancelKernelUpdate
<1>12. CASE Save
    <2>1. ConfigTypeOK'
        BY <1>12 DEF Save, ConfigTypeOK
    <2> QED
        BY <1>12, <2>1 DEF Save, StateFree
<1> QED
    BY <1>1, <1>2, <1>3, <1>4, <1>5, <1>6, <1>7, <1>8, <1>9, <1>10, <1>11, <1>12
    DEF DispatchNext

LEMMA WorkerType ==
    ASSUME TypeInv, NEW w \in Workers, WorkerStep(w)
    PROVE  TypeInv'
<1> USE Kept, KeptRefs DEF TypeInv, TypeOK, UnchangedElsewhere, config, control, update
<1>f. ASSUME NEW phase \in Phases, Finish(w, phase)
      PROVE  UpdateTypeOK' /\ WorkerRefs'
    BY <1>f DEF Finish, SetTask, IdleWorker, FreshWorker, NoConfs, WorkerPcs,
                UpdateTypeOK, WorkerRefs
<1>t. ASSUME UNCHANGED task \/ \E phase \in Phases : SetTask(w, phase)
      PROVE  task' \in [Workers -> Phases]
    BY <1>t DEF SetTask, UpdateTypeOK
<1>g. ASSUME NEW pc \in WorkerPcs \ {"restarting", "restoring"}, GoTo(w, pc),
             cancel' \in BOOLEAN, UNCHANGED updateLock, task' \in [Workers -> Phases]
      PROVE  UpdateTypeOK' /\ WorkerRefs'
    <2>1. UpdateTypeOK'
        BY <1>g DEF GoTo, UpdateTypeOK
    <2>2. WorkerRefs'
        BY <1>g DEF GoTo, UpdateTypeOK, WorkerRefs
    <2> QED
        BY <2>1, <2>2
<1>h. ASSUME NEW pc \in WorkerPcs, GoWith(w, pc, RunSet(w)),
             UNCHANGED <<updateLock, cancel>>, task' \in [Workers -> Phases]
      PROVE  UpdateTypeOK' /\ WorkerRefs'
    <2>1. UpdateTypeOK'
        BY <1>h DEF GoWith, RunSet, UpdateTypeOK
    <2>2. ASSUME NEW v \in Workers, v # w
          PROVE  worker'[v] = worker[v]
        BY <1>h, <2>2 DEF GoWith, UpdateTypeOK
    <2>3. worker'[w].todo = RunSet(w) /\ worker'[w].run = worker[w].run
        BY <1>h DEF GoWith, UpdateTypeOK
    <2>4. WorkerRefs'
        BY <2>2, <2>3 DEF WorkerRefs, RunSet
    <2> QED
        BY <2>1, <2>4
<1>1. CASE WkReset(w) \/ WkStageOk(w) \/ WkNotCancelled(w) \/ WkStageAbort(w)
             \/ WkInstallBegin(w)
    <2>1. UpdateTypeOK' /\ WorkerRefs'
        BY <1>1, <1>g, <1>t DEF WkReset, WkStageOk, WkNotCancelled, WkStageAbort,
                                WkInstallBegin, WorkerPcs, Phases, UpdateTypeOK
    <2> QED
        BY <1>1, <2>1 DEF WkReset, WkStageOk, WkNotCancelled, WkStageAbort, WkInstallBegin
<1>2. CASE WkProgress(w)
    <2>1. UpdateTypeOK'
        BY <1>2 DEF WkProgress, SetTask, UpdateTypeOK, Phases
    <2> QED
        BY <1>2, <2>1 DEF WkProgress
<1>3. CASE WkStageErr(w) \/ WkAborted(w) \/ WkCancelled(w) \/ WkFinish(w)
    <2>1. UpdateTypeOK' /\ WorkerRefs'
        BY <1>3, <1>f DEF WkStageErr, WkAborted, WkCancelled, WkFinish, Phases
    <2> QED
        BY <1>3, <2>1 DEF WkStageErr, WkAborted, WkCancelled, WkFinish
<1>4. CASE WkSnapshot(w)
    <2>1. [i \in Instances |-> IF Known(i) THEN inst[i].conf ELSE None]
             \in [Instances -> Confs \cup {None}]
        BY SetFields
    <2>2. UpdateTypeOK' /\ WorkerRefs'
        BY <1>4, <2>1 DEF WkSnapshot, UpdateTypeOK, WorkerRefs, WorkerPcs
    <2> QED
        BY <1>4, <2>2 DEF WkSnapshot
<1>5. CASE WkStopBegin(w) \/ WkInstallOk(w) \/ WkInstallErr(w)
    <2>1. UpdateTypeOK' /\ WorkerRefs'
        BY <1>5, <1>h, <1>t DEF WkStopBegin, WkInstallOk, WkInstallErr, WorkerPcs, Phases
    <2> QED
        BY <1>5, <2>1 DEF WkStopBegin, WkInstallOk, WkInstallErr
<1>6. ASSUME NEW i \in Instances, WkFilter(w, i) PROVE TypeInv'
    <2>1. RuntimeTypeOK'
        BY <1>6, ReapType DEF WkFilter
    <2>2. UpdateTypeOK'
        <3> DEFINE r == [worker[w].run EXCEPT ![i] = IF InstanceRunning(i) THEN @ ELSE None]
                   t == worker[w].todo \ {i}
        <3>1. r \in [Instances -> Confs \cup {None}] /\ t \in SUBSET Instances
            BY DEF UpdateTypeOK
        <3>2. worker' = [worker EXCEPT ![w] = [pc |-> "filter", run |-> r, todo |-> t]]
            BY <1>6 DEF WkFilter
        <3> HIDE DEF r, t
        <3> QED
            BY <1>6, <3>1, <3>2 DEF WkFilter, UpdateTypeOK, WorkerPcs
    <2>3. WorkerRefs'
        <3>1. worker'[w].pc = "filter"
            BY <1>6 DEF WkFilter, At, UpdateTypeOK
        <3>2. \A v \in Workers \ {w} : worker'[v] = worker[v]
            BY <1>6 DEF WkFilter, UpdateTypeOK
        <3> QED
            BY <3>1, <3>2 DEF WorkerRefs
    <2> QED
        BY <1>6, <2>1, <2>2, <2>3 DEF WkFilter
<1>7. ASSUME NEW i \in Instances, WkStop(w, i) PROVE TypeInv'
    <2>1. RuntimeTypeOK'
        BY <1>7, StopType DEF WkStop
    <2>2. UpdateTypeOK' /\ WorkerRefs'
        BY <1>7 DEF WkStop, At, UpdateTypeOK, WorkerRefs
    <2> QED
        BY <1>7, <2>1, <2>2 DEF WkStop
<1>8. ASSUME NEW i \in Instances, WkStopErr(w, i) PROVE TypeInv'
    <2>1. RuntimeTypeOK'
        BY <1>8, StopType DEF WkStopErr
    <2>2. UpdateTypeOK' /\ WorkerRefs'
        BY <1>8, <1>f DEF WkStopErr, Phases
    <2> QED
        BY <1>8, <2>1, <2>2 DEF WkStopErr
<1>9. ASSUME NEW i \in Instances, WkStart(w, i) PROVE TypeInv'
    <2>1. worker[w].run[i] \in Confs
        BY <1>9 DEF WkStart, At, UpdateTypeOK, WorkerRefs
    <2>2. RuntimeTypeOK'
        BY <1>9, <2>1, StartOkType, StartErrType DEF WkStart
    <2>3. UpdateTypeOK' /\ WorkerRefs'
        BY <1>9 DEF WkStart, UpdateTypeOK, WorkerRefs
    <2> QED
        BY <1>9, <2>2, <2>3 DEF WkStart
<1> QED
    BY <1>1, <1>2, <1>3, <1>4, <1>5, <1>6, <1>7, <1>8, <1>9 DEF WorkerStep

LEMMA WatchdogType ==
    ASSUME TypeInv, WatchdogNext
    PROVE  TypeInv'
<1> USE Kept, KeptRefs DEF TypeInv, TypeOK, UnchangedByWatchdog, config, control, update
<1>1. CASE WdBegin
    <2>1. [i \in Instances |-> IF Wanted(i) THEN inst[i].conf ELSE None]
             \in [Instances -> Confs \cup {None}]
        BY SetFields DEF Wanted
    <2>2. WatchdogTypeOK' /\ WatchdogRefs'
        BY <1>1, <2>1 DEF WdBegin, WatchdogTypeOK, WatchdogRefs
    <2> QED
        BY <1>1, <2>2 DEF WdBegin
<1>2. ASSUME NEW i \in Instances, WdPass(i) \/ WdAttempt(i) PROVE TypeInv'
    <2>1. RuntimeTypeOK'
        BY <1>2, ReapType DEF WdPass, WdAttempt
    <2>2. CASE WdPass(i)
        BY <1>2, <2>1, <2>2 DEF WdPass, WdAt, WatchdogTypeOK, WatchdogRefs
    <2>3. CASE WdAttempt(i)
        <3>1. wd.snap[i] \in Confs
            BY <2>3 DEF WdAttempt, WatchdogTypeOK
        <3>2. WatchdogTypeOK' /\ WatchdogRefs'
            BY <2>3, <3>1 DEF WdAttempt, WatchdogTypeOK, WatchdogRefs
        <3> QED
            BY <2>1, <2>3, <3>2 DEF WdAttempt
    <2> QED
        BY <1>2, <2>2, <2>3
<1>3. CASE WdScan
    <2>1. PICK p \in ScanResults(wd.cur) :
             wd' = [wd EXCEPT !.pc = IF p = None THEN "start" ELSE "kill", !.pid = p]
        BY <1>3 DEF WdScan
    <2>2. p \in Pids \cup {None}
        BY DEF ScanResults, CoresOf
    <2>3. WatchdogTypeOK' /\ WatchdogRefs'
        BY <1>3, <2>1, <2>2 DEF WdScan, WdAt, WatchdogTypeOK, WatchdogRefs
    <2> QED
        BY <1>3, <2>3 DEF WdScan
<1>4. CASE WdKill
    <2>1. RuntimeTypeOK'
        BY <1>4, TerminateType DEF WdKill, RuntimeTypeOK
    <2>2. WatchdogTypeOK' /\ WatchdogRefs'
        BY <1>4 DEF WdKill, WdAt, WatchdogTypeOK, WatchdogRefs
    <2> QED
        BY <1>4, <2>1, <2>2 DEF WdKill
<1>5. CASE WdStart \/ WdGiveUp
    <2>1. wd.cur \in Instances /\ wd.conf \in Confs
        BY <1>5 DEF WdStart, WdGiveUp, WdAt, WatchdogRefs
    <2>2. RuntimeTypeOK'
        BY <1>5, <2>1, StartOkType, StartErrType DEF WdStart, WdGiveUp
    <2>3. WatchdogTypeOK' /\ WatchdogRefs'
        BY <1>5 DEF WdStart, WdGiveUp, NextInstance, WatchdogTypeOK, WatchdogRefs
    <2> QED
        BY <1>5, <2>2, <2>3 DEF WdStart, WdGiveUp
<1>6. CASE WdEnd \/ WdStop
    <2>1. WatchdogTypeOK' /\ WatchdogRefs'
        BY <1>6 DEF WdEnd, WdStop, WatchdogOff, FreshWatchdog, NoConfs,
                    WatchdogTypeOK, WatchdogRefs
    <2> QED
        BY <1>6, <2>1 DEF WdEnd, WdStop
<1> QED
    BY <1>1, <1>2, <1>3, <1>4, <1>5, <1>6 DEF WatchdogNext

LEMMA InitType == Init => TypeInv
<1> SUFFICES ASSUME Init PROVE TypeInv
    OBVIOUS
<1> USE DEF Init, TypeInv, TypeOK
<1>1. RuntimeTypeOK /\ ConfigTypeOK
    BY DEF RuntimeTypeOK, ConfigTypeOK, NoConfs, Config
<1>2. IpcTypeOK /\ ControlTypeOK
    BY DEF IpcTypeOK, ControlTypeOK, NoConfs, NoIpc, NoBoot
<1>3. UpdateTypeOK /\ WatchdogTypeOK
    BY DEF UpdateTypeOK, IdleWorker, FreshWorker, NoConfs, WorkerPcs, Phases,
           WatchdogTypeOK, WatchdogOff, FreshWatchdog
<1>4. BootRefs /\ IpcRefs /\ Reserved /\ WorkerRefs /\ WatchdogRefs
    BY DEF BootRefs, Reserved, IpcRefs, WorkerRefs, WatchdogRefs, NoIpc, IdleWorker, FreshWorker,
           WatchdogOff, FreshWatchdog
<1> QED
    BY <1>1, <1>2, <1>3, <1>4

LEMMA NextType == TypeInv /\ [Next]_vars => TypeInv'
<1> SUFFICES ASSUME TypeInv, [Next]_vars PROVE TypeInv'
    OBVIOUS
<1>1. CASE UNCHANGED vars
    BY <1>1, Kept, KeptRefs DEF vars, config, control, update, TypeInv, TypeOK
<1>2. CASE Next
    BY <1>2, BootType, MainType, DispatchType, WorkerType, WatchdogType DEF Next
<1> QED
    BY <1>1, <1>2

\* Every variable of the service keeps its type, whatever the clients ask
\* for and whatever the environment does wrong.
THEOREM TypeCorrect == Spec => []TypeOK
<1>1. TypeInv => TypeOK
    BY DEF TypeInv
<1> QED
    BY <1>1, InitType, NextType, PTL DEF Spec

(***************************************************************************)
(* The two books of RuntimeManager never overlap, whatever the clients ask *)
(* for and whatever the environment does wrong: processes that cannot be   *)
(* terminated or found, failed starts, reused pids and crashes included.   *)
(***************************************************************************)

\* TrackedOnce alone is not kept by Adopt, which does not look at the Child
\* handles: it needs to know that the service has started no core as long as
\* an orphan may still be adopted.
TrackInv ==
    /\ TrackedOnce
    /\ svc = "down" => children = NoConfs /\ adopted = NoConfs
    /\ svc = "boot" /\ boot.check # {} => children = NoConfs

\* The operations of RuntimeManager other than Adopt, in any combination of
\* arguments.
Bookkeeping ==
    \/ UNCHANGED <<children, adopted>>
    \/ \E S \in SUBSET Instances : Reap(S)
    \/ \E i \in Instances, c \in Confs \cup {None}, noted \in SUBSET (Pids \cup {None}) :
         StartOk(i, c, noted)
    \/ \E i \in Instances : StartErr(i) \/ StopOk(i) \/ StopErr(i)
    \/ StopAllTracked

LEMMA BooksApart ==
    ASSUME RuntimeTypeOK, TrackedOnce, Bookkeeping
    PROVE  TrackedOnce'
<1> USE RuntimeAssumption DEF RuntimeTypeOK, TrackedOnce
<1>1. ASSUME NEW S, Reap(S) PROVE TrackedOnce'
    BY <1>1 DEF Reap
<1>2. ASSUME NEW i \in Instances, NEW c, NEW noted, StartSpawn(i, c, noted)
      PROVE  TrackedOnce'
    BY <1>2 DEF StartSpawn
<1>3. ASSUME NEW i \in Instances, StopOk(i) \/ StopErr(i) PROVE TrackedOnce'
    BY <1>3 DEF StopOk, StopErr
<1>4. CASE StopAllTracked
    BY <1>4 DEF StopAllTracked
<1> QED
    BY <1>1, <1>2, <1>3, <1>4 DEF Bookkeeping, StartOk, StartRunning, StartErr

\* What a step of a running service must show.
LEMMA StillApart ==
    ASSUME TypeInv, TrackInv, Bookkeeping, ThreadsRun, UNCHANGED <<svc, boot>>
    PROVE  TrackInv'
BY BooksApart DEF TypeInv, TypeOK, TrackInv, ThreadsRun

LEMMA BootTracking ==
    ASSUME TypeInv, TrackInv, Boot
    PROVE  TrackInv'
<1> USE DEF TypeInv, TypeOK
<1>1. CASE BootLoad
    BY <1>1 DEF BootLoad, TrackInv, TrackedOnce, runtime
<1>2. ASSUME NEW i \in Instances, BootOrphan(i) PROVE TrackInv'
    <2>1. children = NoConfs /\ UNCHANGED <<svc, children>>
        BY <1>2 DEF BootOrphan, TrackInv, Adopt, runtime
    <2> QED
        BY <1>2, <2>1 DEF BootOrphan, TrackInv, TrackedOnce, NoConfs
<1>3. ASSUME NEW i \in Instances, BootSkip(i) \/ BootKill(i) PROVE TrackInv'
    <2>1. svc = "boot" /\ boot'.check = {} /\ UNCHANGED <<svc, children, adopted>>
        BY <1>3 DEF BootSkip, BootKill, runtime, ControlTypeOK
    <2> QED
        BY <2>1 DEF TrackInv, TrackedOnce
<1>4. ASSUME NEW i \in Instances, BootStart(i) PROVE TrackInv'
    <2>1. svc = "boot" /\ boot'.check = {} /\ UNCHANGED svc /\ Known(i)
        BY <1>4 DEF BootStart, ControlTypeOK, BootRefs
    <2>2. inst[i].conf \in Confs /\ NotedPids \in SUBSET (Pids \cup {None})
        BY <2>1, SetFields DEF NotedPids, ControlTypeOK, WatchdogTypeOK
    <2>3. TrackedOnce'
        BY <1>4, <2>2, BooksApart DEF BootStart, Bookkeeping, TrackInv
    <2> QED
        BY <2>1, <2>3 DEF TrackInv
<1>5. CASE BootReady
    BY <1>5 DEF BootReady, TrackInv, TrackedOnce, runtime
<1> QED
    BY <1>1, <1>2, <1>3, <1>4, <1>5 DEF Boot

LEMMA MainTracking ==
    ASSUME TypeInv, TrackInv, Main \/ Environment
    PROVE  TrackInv'
<1> USE DEF TypeInv, TypeOK
<1>1. CASE MainStopAll
    BY <1>1, BooksApart DEF MainStopAll, Bookkeeping, TrackInv
<1>2. CASE MainExit \/ Crash
    BY <1>2 DEF MainExit, Crash, Gone, TrackInv, TrackedOnce, NoConfs
<1>3. CASE ScmStop
    BY <1>3 DEF ScmStop, TrackInv, TrackedOnce, runtime
<1>4. ASSUME NEW p \in Pids, CoreExit(p) \/ PidReuse(p) PROVE TrackInv'
    BY <1>4 DEF CoreExit, PidReuse, ProcessExit, PidReused, TrackInv, TrackedOnce, control
<1> QED
    BY <1>1, <1>2, <1>3, <1>4 DEF Main, Environment

LEMMA DispatchTracking ==
    ASSUME TypeInv, TrackInv, DispatchNext
    PROVE  TrackInv'
<1> USE DEF TypeInv, TypeOK, UnchangedControl, control
<1>1. CASE \/ Query \/ StopAllEnd \/ CancelKernelUpdate \/ Save
           \/ \E c \in Commands : StopAllBegin(c)
           \/ \E w \in Workers : UpdateKernel(w)
           \/ \E i \in Instances : SyncInstance(i) \/ SetAutoStart(i)
    BY <1>1, StillApart
    DEF Query, StopAllEnd, CancelKernelUpdate, Save, StopAllBegin, UpdateKernel,
        SyncInstance, SetAutoStart, Request, runtime, Bookkeeping
<1>2. CASE ListInstances \/ \E i \in Instances : RemoveInstance(i)
    BY <1>2, StillApart DEF ListInstances, RemoveInstance, Request, Bookkeeping
<1>3. ASSUME NEW i \in Instances, StartInstance(i) PROVE TrackInv'
    <2>1. inst[i].conf \in Confs /\ NotedPids \in SUBSET (Pids \cup {None})
        BY <1>3, SetFields DEF StartInstance, NotedPids, ControlTypeOK, WatchdogTypeOK
    <2>2. Bookkeeping
        BY <1>3, <2>1 DEF StartInstance, Bookkeeping
    <2> QED
        BY <1>3, <2>2, StillApart DEF StartInstance, Request
<1>4. ASSUME NEW i \in Instances, StopInstance(i) PROVE TrackInv'
    BY <1>4, StillApart DEF StopInstance, Request, Bookkeeping
<1>5. ASSUME NEW i \in Instances, StopAllOne(i) PROVE TrackInv'
    BY <1>5, StillApart DEF StopAllOne, Bookkeeping
<1> QED
    BY <1>1, <1>2, <1>3, <1>4, <1>5 DEF DispatchNext

LEMMA WorkerTracking ==
    ASSUME TypeInv, TrackInv, NEW w \in Workers, WorkerStep(w)
    PROVE  TrackInv'
<1> USE DEF TypeInv, TypeOK, UnchangedElsewhere, control, At
<1>1. ThreadsRun /\ UNCHANGED <<svc, boot>>
    <2>1. CASE \E i \in Instances :
                 WkFilter(w, i) \/ WkStop(w, i) \/ WkStopErr(w, i) \/ WkStart(w, i)
        BY <2>1 DEF WkFilter, WkStop, WkStopErr, WkStart
    <2>2. CASE \/ WkStopBegin(w) \/ WkInstallBegin(w) \/ WkInstallOk(w)
               \/ WkInstallErr(w) \/ WkFinish(w) \/ WkSnapshot(w)
        BY <2>2 DEF WkStopBegin, WkInstallBegin, WkInstallOk, WkInstallErr, WkFinish,
                    WkSnapshot
    <2>3. CASE \/ WkReset(w) \/ WkProgress(w) \/ WkStageOk(w) \/ WkStageErr(w)
               \/ WkStageAbort(w) \/ WkAborted(w) \/ WkCancelled(w) \/ WkNotCancelled(w)
        BY <2>3 DEF WkReset, WkProgress, WkStageOk, WkStageErr, WkStageAbort, WkAborted,
                    WkCancelled, WkNotCancelled
    <2> QED
        BY <2>1, <2>2, <2>3 DEF WorkerStep
<1>2. Bookkeeping
    <2>1. ASSUME NEW i \in Instances, WkStart(w, i) PROVE Bookkeeping
        <3>1. worker[w].run[i] \in Confs
            BY <2>1 DEF WkStart, UpdateTypeOK, WorkerRefs
        <3>2. NotedPids \in SUBSET (Pids \cup {None})
            BY DEF NotedPids, ControlTypeOK, WatchdogTypeOK
        <3> QED
            BY <2>1, <3>1, <3>2 DEF WkStart, Bookkeeping
    <2>2. CASE \E i \in Instances : WkFilter(w, i) \/ WkStop(w, i) \/ WkStopErr(w, i)
        BY <2>2 DEF WkFilter, WkStop, WkStopErr, Bookkeeping
    <2>3. CASE \/ WkStopBegin(w) \/ WkInstallBegin(w) \/ WkInstallOk(w)
               \/ WkInstallErr(w) \/ WkFinish(w) \/ WkSnapshot(w)
        BY <2>3 DEF WkStopBegin, WkInstallBegin, WkInstallOk, WkInstallErr, WkFinish,
                    WkSnapshot, Bookkeeping, runtime
    <2>4. CASE \/ WkReset(w) \/ WkProgress(w) \/ WkStageOk(w) \/ WkStageErr(w)
               \/ WkStageAbort(w) \/ WkAborted(w) \/ WkCancelled(w) \/ WkNotCancelled(w)
        BY <2>4 DEF WkReset, WkProgress, WkStageOk, WkStageErr, WkStageAbort, WkAborted,
                    WkCancelled, WkNotCancelled, Bookkeeping, runtime
    <2> QED
        BY <2>1, <2>2, <2>3, <2>4 DEF WorkerStep
<1> QED
    BY <1>1, <1>2, StillApart

LEMMA WatchdogTracking ==
    ASSUME TypeInv, TrackInv, WatchdogNext
    PROVE  TrackInv'
<1> USE DEF TypeInv, TypeOK, UnchangedByWatchdog, control, WdAt
<1>1. CASE WdBegin \/ WdScan \/ WdKill \/ WdGiveUp \/ WdEnd \/ WdStop
    BY <1>1, StillApart
    DEF WdBegin, WdScan, WdKill, WdGiveUp, WdEnd, WdStop, Bookkeeping, runtime
<1>2. ASSUME NEW i \in Instances, WdPass(i) \/ WdAttempt(i) PROVE TrackInv'
    BY <1>2, StillApart DEF WdPass, WdAttempt, Bookkeeping
<1>3. CASE WdStart
    <2>1. /\ wd.cur \in Instances /\ wd.conf \in Confs
          /\ NotedPids \in SUBSET (Pids \cup {None})
        BY <1>3 DEF WdStart, WatchdogRefs, NotedPids, ControlTypeOK, WatchdogTypeOK
    <2> QED
        BY <1>3, <2>1, StillApart DEF WdStart, Bookkeeping
<1> QED
    BY <1>1, <1>2, <1>3 DEF WatchdogNext

\* An instance is tracked by a Child handle or by an adopted pid, never by
\* both, so one stop ends whatever it tracks.
THEOREM TrackedOnceAlways == Spec => []TrackedOnce
<1>1. Init => TrackInv
    BY DEF Init, TrackInv, TrackedOnce, NoConfs
<1>2. TypeInv /\ TrackInv /\ [Next]_vars => TrackInv'
    <2> SUFFICES ASSUME TypeInv, TrackInv, [Next]_vars PROVE TrackInv'
        OBVIOUS
    <2>1. CASE UNCHANGED vars
        BY <2>1 DEF vars, runtime, control, TrackInv, TrackedOnce
    <2>2. CASE Next
        BY <2>2, BootTracking, MainTracking, DispatchTracking, WorkerTracking,
           WatchdogTracking DEF Next
    <2> QED
        BY <2>1, <2>2
<1>3. TrackInv => TrackedOnce
    BY DEF TrackInv
<1> QED
    BY <1>1, <1>2, <1>3, InitType, NextType, PTL DEF Spec
=============================================================================
