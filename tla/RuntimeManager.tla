--------------------------- MODULE RuntimeManager ---------------------------
(***************************************************************************)
(* The process table of the machine and RuntimeManager, the part of the    *)
(* service that starts, stops and tracks easytier-core processes           *)
(* (src-tauri/src/runtime_manager.rs).                                     *)
(*                                                                         *)
(* Every method of RuntimeManager runs under the runtime mutex, so each is *)
(* one step here.  A core the service spawned is tracked by a Child handle *)
(* in `children'; a core inherited from an earlier service process is      *)
(* tracked by its bare pid in `adopted'.  While a Child handle is open the *)
(* operating system does not give its pid to another process; a bare pid   *)
(* has no such protection.                                                 *)
(***************************************************************************)
EXTENDS Integers, FiniteSets

CONSTANTS
    Instances,      \* ids of the networks
    Pids,           \* process ids; the bound on processes alive at once
    Confs,          \* contents of a network's configuration
    None,           \* no process, no instance, no configuration
    Foreign,        \* a process that is not an easytier-core
    Faults          \* what the environment may do wrong

FaultKinds == {
    "start",        \* a core cannot be spawned
    "kill",         \* TerminateProcess fails, or the process outlives the wait
    "scan",         \* the PowerShell scan for orphans fails and finds nothing
    "save",         \* writing the configuration file fails
    "reuse",        \* a pid nobody holds a handle of is given to a new process
    "crash" }       \* the service process dies

Core == [id : Instances, conf : Confs]

ASSUME RuntimeAssumption ==
    /\ None \notin Instances \cup Pids \cup Confs \cup Core
    /\ Foreign \notin Core \cup {None}
    /\ Faults \subseteq FaultKinds

VARIABLES
    proc,           \* what runs under each pid
    children,       \* RuntimeManager.children: pid of the Child handle
    adopted         \* RuntimeManager.adopted

runtime == <<proc, children, adopted>>

RuntimeTypeOK ==
    /\ proc \in [Pids -> Core \cup {None, Foreign}]
    /\ children \in [Instances -> Pids \cup {None}]
    /\ adopted \in [Instances -> Pids \cup {None}]

(***************************************************************************)
(* The processes.                                                          *)
(***************************************************************************)

IsCore(p) == proc[p] \notin {None, Foreign}
CoresOf(i) == {p \in Pids : IsCore(p) /\ proc[p].id = i}
AnyCore == \E p \in Pids : IsCore(p)

ChildPids == {children[i] : i \in Instances} \ {None}
AdoptedPids == {adopted[i] : i \in Instances} \ {None}

\* The pids a new core of i may get, i's own dead processes having been
\* dropped, when `noted' are pids that other code remembers without a handle.
FreePids(i, noted) ==
    LET held == {children[j] : j \in Instances \ {i}}
        known == {adopted[j] : j \in Instances \ {i}} \cup noted
    IN  {p \in Pids : /\ proc[p] = None
                      /\ p \notin held
                      /\ "reuse" \in Faults \/ p \notin known}

\* The sets of processes that may be gone after an attempt to terminate
\* those of S.
Deaths(S) == IF "kill" \in Faults THEN SUBSET S ELSE {S}

Without(D) == [p \in Pids |-> IF p \in D THEN None ELSE proc[p]]

Terminate(S) == \E D \in Deaths(S) : proc' = Without(D)

(***************************************************************************)
(* What an instance's bookkeeping says about it.                           *)
(***************************************************************************)

Tracked(i) == {children[i], adopted[i]} \ {None}

ChildAlive(i) == children[i] # None /\ proc[children[i]] # None
AdoptedAlive(i) == adopted[i] # None /\ proc[adopted[i]] # None

\* Mutant: instance_running asks the Child handles only.
ChildRunning(i) == ChildAlive(i)

\* What instance_running returns.  An adopted pid counts as running whatever
\* process holds it.
InstanceRunning(i) == ChildAlive(i) \/ AdoptedAlive(i)

\* What instance_running leaves behind: exited children and dead adopted
\* pids of the instances of S are dropped.  A live child returns early and
\* leaves `adopted' alone.
Reap(S) ==
    /\ children' = [i \in Instances |->
                      IF i \in S /\ ~ChildAlive(i) THEN None ELSE children[i]]
    /\ adopted' = [i \in Instances |->
                      IF i \in S /\ ~InstanceRunning(i) THEN None ELSE adopted[i]]

\* start when the bookkeeping already shows a live process: nothing is
\* spawned.
StartRunning(i) ==
    /\ InstanceRunning(i)
    /\ Reap({i})
    /\ UNCHANGED proc

\* Mutant: the adopted pid stays in the books beside the new child.
StartSpawnBeside(i, c, noted) ==
    /\ ~InstanceRunning(i)
    /\ \E p \in FreePids(i, noted) :
         /\ proc' = [proc EXCEPT ![p] = [id |-> i, conf |-> c]]
         /\ children' = [children EXCEPT ![i] = p]
    /\ UNCHANGED adopted

StartSpawn(i, c, noted) ==
    /\ ~InstanceRunning(i)
    /\ \E p \in FreePids(i, noted) :
         /\ proc' = [proc EXCEPT ![p] = [id |-> i, conf |-> c]]
         /\ children' = [children EXCEPT ![i] = p]
    /\ adopted' = [adopted EXCEPT ![i] = None]

StartOk(i, c, noted) == StartRunning(i) \/ StartSpawn(i, c, noted)

\* start fails: no executable, the staged file cannot be written, or the
\* spawn fails.
StartErr(i) ==
    /\ "start" \in Faults
    /\ ~InstanceRunning(i)
    /\ Reap({i})
    /\ UNCHANGED proc

\* stop: both handles are dropped whatever happens to the processes.
StopOk(i) ==
    /\ Terminate(Tracked(i))
    /\ children' = [children EXCEPT ![i] = None]
    /\ adopted' = [adopted EXCEPT ![i] = None]

\* stop when killing the child fails: it returns before the adopted pid, and
\* the child's handle is already gone.
StopErr(i) ==
    /\ "kill" \in Faults
    /\ ChildAlive(i)
    /\ children' = [children EXCEPT ![i] = None]
    /\ UNCHANGED <<proc, adopted>>

StopAllTracked ==
    /\ Terminate(ChildPids \cup AdoptedPids)
    /\ children' = [i \in Instances |-> None]
    /\ adopted' = [i \in Instances |-> None]

\* adopt: take over a core that an earlier service process left running.
Adopt(i, p) ==
    /\ adopted' = [adopted EXCEPT ![i] = p]
    /\ UNCHANGED <<proc, children>>

\* A process of the machine ends on its own: a core crashes or is killed by
\* the user, or a foreign process exits.
ProcessExit(p) ==
    /\ proc[p] # None
    /\ proc' = [proc EXCEPT ![p] = None]
    /\ UNCHANGED <<children, adopted>>

\* A pid that somebody remembers without a handle is given to a process that
\* has nothing to do with EasyTier.
PidReused(p, noted) ==
    /\ "reuse" \in Faults
    /\ proc[p] = None
    /\ p \in (AdoptedPids \cup noted) \ ChildPids
    /\ proc' = [proc EXCEPT ![p] = Foreign]
    /\ UNCHANGED <<children, adopted>>
=============================================================================
