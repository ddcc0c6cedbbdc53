----------------------------- MODULE ServiceLink ----------------------------
(***************************************************************************)
(* The GUI's link to the service: useService (src/hooks/useService.ts)     *)
(* and the requests it sends (src/service-client.ts).  The service answers *)
(* requests as src-tauri/src/service_main.rs does; only what the GUI can   *)
(* notice of it is kept here, the rest is in EasyTierService.              *)
(*                                                                         *)
(* JavaScript runs one callback at a time, so a step of the model is what  *)
(* happens between two awaits.  Every call of an async function that is    *)
(* still running is a record of `flow'.                                    *)
(***************************************************************************)
EXTENDS Naturals, FiniteSets

CONSTANTS
    Nets,           \* network ids: those there are and those still to come
    Flows,          \* bound on async functions in flight
    None,           \* no such network
    Gone,           \* the id is not in the GUI's list and never will be
    Scenes,         \* what users and environment do, one set per behaviour
    Budget          \* bound on what they do in a behaviour

Events == {"toggle", "tray", "early", "auto", "level", "add", "remove",
           "resume", "down", "hang", "refuse", "spawn", "repair"}

ASSUME LinkAssumption ==
    /\ None # Gone /\ None \notin Nets
    /\ Budget \in Nat
    /\ Scenes \subseteq SUBSET Events

VARIABLES
    env,            \* what happens in this behaviour, and how often still
    asked,          \* history: the autoStart the user has last asked for
    svc,            \* the service: absent, down, up, or hung
    rec,            \* its records: auto_start and desired_state
    core,           \* networks with a core of the service
    child,          \* networks with a core of the GUI
    gui,            \* `instances': status and autoStart
    seen,           \* `service': none, off (not installed), sick, on
    checking,       \* serviceChecking
    recovering,     \* recoveryRef
    cooling,        \* the last heal is less than 60 s ago
    tried,          \* attemptedAutoConnectIds
    queue,          \* networks the auto-connect loop has still to start
    repaired,       \* the flags in sessionStorage
    flow,           \* the async functions in flight
    late,           \* refreshes that a timer will start
    sent            \* calls nobody waits for

service == <<svc, rec, core>>
link == <<seen, checking, recovering, cooling, repaired>>
vars == <<env, asked, service, child, gui, link, tried, queue, flow, late, sent>>

Statuses == {"stopped", "starting", "running", "stopping", "failed"}
Instance == [st : Statuses, auto : BOOLEAN]
Record == [auto : BOOLEAN, on : BOOLEAN]

ASSUME InstanceAssumption == {None, Gone} \cap Instance = {}

Kinds == {"refresh", "toggle", "level", "recover", "auto"}
Pcs == {"idle", "query", "status", "list", "apply", "caught",
        "start_service", "check_start", "repair", "zombie",
        "heal", "wait", "ports", "sync", "command", "restop", "restart",
        "local_stop", "local_start", "local_wait"}
Answer == [Nets -> {"none", "stopped", "running"}]
NoAnswer == [n \in Nets |-> "none"]
Idle == [pc |-> "idle", kind |-> "refresh", net |-> None, mode |-> FALSE,
         was |-> FALSE, auto |-> FALSE, skip |-> FALSE, states |-> NoAnswer]
Flow == [pc : Pcs, kind : Kinds, net : Nets \cup {None}, mode : BOOLEAN,
         was : BOOLEAN, auto : BOOLEAN, skip : BOOLEAN, states : Answer]
Refresh(skip) == [Idle EXCEPT !.pc = "query", !.skip = skip]

Shown == {n \in Nets : gui[n] \notin {None, Gone}}
Known == {n \in Nets : rec[n] # None}
serviceMode == seen = "on"

\* One more event of the kind `e'.
Happens(e) ==
    /\ e \in env.events /\ env.left > 0
    /\ env' = [env EXCEPT !.left = @ - 1]

\* A call of an async function takes a free place; which one is all the same.
Free(f) == f = CHOOSE g \in Flows : flow[g].pc = "idle"
Begin(f, call) ==
    /\ flow[f].pc = "idle" /\ Free(f)
    /\ flow' = [flow EXCEPT ![f] = call]
Goto(f, pc) == flow' = [flow EXCEPT ![f].pc = pc]
At(f, pc) == flow[f].pc = pc

\* A network that is not in the list any more is not changed by a
\* setInstances(xs => xs.map(...)).
Mark(n, st) == gui' = [gui EXCEPT ![n] = IF n \in Shown THEN [@ EXCEPT !.st = st] ELSE @]

(***************************************************************************)
(* The service.                                                            *)
(***************************************************************************)

\* A request reaches the service.  One that meets a service that is down or
\* hung fails, after its retries or its timeout.
Serves == svc = "up"

\* sync_instance.
SyncRecord(n, auto, on) ==
    rec' = [rec EXCEPT ![n] = [auto |-> auto, on |-> on]]

\* start_instance and stop_instance of a known network.
ServiceStart(n) ==
    /\ n \in Known
    /\ rec' = [rec EXCEPT ![n].on = TRUE]
    /\ core' = core \cup {n}
ServiceStop(n) ==
    /\ n \in Known
    /\ rec' = [rec EXCEPT ![n].on = FALSE]
    /\ core' = core \ {n}

\* The service comes up: it adopts or starts what should run, and
\* terminates the other cores.
Wanted == {n \in Known : rec[n].auto \/ rec[n].on}
ServiceUp ==
    /\ svc' = "up"
    /\ core' = Wanted
    /\ rec' = [n \in Nets |-> IF n \in Wanted THEN [rec[n] EXCEPT !.on = TRUE] ELSE rec[n]]

\* list_instances: the observed state of every record.  The snapshot has no
\* auto_start.
Snapshot ==
    [n \in Nets |-> IF n \notin Known THEN "none"
                    ELSE IF n \in core THEN "running" ELSE "stopped"]

SvcDies ==
    /\ Happens("down") /\ svc # "absent" /\ svc # "down"
    /\ svc' = "down"
    /\ UNCHANGED <<asked, rec, core, child, gui, link, tried, queue, flow, late, sent>>

SvcHangs ==
    /\ Happens("hang") /\ svc = "up"
    /\ svc' = "hung"
    /\ UNCHANGED <<asked, rec, core, child, gui, link, tried, queue, flow, late, sent>>

(***************************************************************************)
(* refreshService.                                                         *)
(***************************************************************************)

\* Mutant: the flag of the recovery is cleared by its timer only.
ReturnKeepsFlag(f, next) ==
    /\ flow' = [flow EXCEPT ![f] = next]
    /\ late' = IF flow[f].kind = "toggle" /\ ~flow[f].was THEN late + 1 ELSE late
    /\ UNCHANGED recovering

\* What its caller does once it returns: a toggle that has started a network
\* and a restart for a log level ask for another refresh 800 ms later, the
\* recovery clears its flags.
Return(f, next) ==
    /\ flow' = [flow EXCEPT ![f] = next]
    /\ late' = IF flow[f].kind = "toggle" /\ ~flow[f].was THEN late + 1 ELSE late
    /\ recovering' = (recovering /\ flow[f].kind # "recover")

\* query_service_installation says that the service is not installed, or
\* that it is and runs.
Query(f) ==
    /\ At(f, "query")
    /\ \/ /\ svc = "absent"
          /\ seen' = "off" /\ checking' = FALSE
          /\ Return(f, Idle)
       \/ /\ svc \in {"up", "hung"}
          /\ Goto(f, "status")
          /\ UNCHANGED <<seen, checking, recovering, late>>
    /\ UNCHANGED <<env, asked, service, child, gui, cooling, repaired, tried, queue, sent>>

\* It is installed and does not run.  Unless the session has tried before,
\* it is started in the background; the `finally' of refreshService takes
\* serviceChecking back at once.
QueryDown(f) ==
    /\ At(f, "query") /\ svc = "down"
    /\ seen' = "sick" /\ checking' = FALSE
    /\ Return(f, IF flow[f].skip \/ "start" \in repaired THEN Idle
                 ELSE [Idle EXCEPT !.pc = "start_service"])
    /\ UNCHANGED <<env, asked, service, child, gui, cooling, repaired, tried, queue, sent>>

\* start_service, and 1.5 s later another look.
StartService(f) ==
    /\ At(f, "start_service")
    /\ \/ /\ svc = "down" /\ ServiceUp
          /\ Goto(f, "check_start")
          /\ UNCHANGED <<env, seen, checking>>
       \/ /\ svc # "down"
          /\ Goto(f, "check_start")
          /\ UNCHANGED <<env, seen, checking, service>>
       \/ /\ Happens("repair")
          /\ flow' = [flow EXCEPT ![f] = Idle]
          /\ seen' = "sick" /\ checking' = FALSE
          /\ UNCHANGED service
    /\ UNCHANGED <<asked, child, gui, recovering, cooling, repaired, tried, queue, late, sent>>

CheckStart(f) ==
    /\ At(f, "check_start")
    /\ IF svc = "down"
         THEN /\ repaired' = repaired \cup {"start"}
              /\ seen' = "sick"
              /\ Goto(f, "repair")
         ELSE /\ flow' = [flow EXCEPT ![f] = Refresh(TRUE)]
              /\ UNCHANGED <<repaired, seen>>
    /\ UNCHANGED <<env, asked, service, child, gui, checking, recovering, cooling,
                   tried, queue, late, sent>>

\* repair_service installs the service anew and starts it.
Repair(f) ==
    /\ At(f, "repair") \/ At(f, "zombie")
    /\ \/ /\ ServiceUp
          /\ flow' = [flow EXCEPT ![f] = Refresh(TRUE)]
          /\ UNCHANGED <<env, seen, checking>>
       \/ /\ Happens("repair")
          /\ flow' = [flow EXCEPT ![f] = Idle]
          /\ seen' = "sick"
          /\ checking' = (checking /\ At(f, "zombie"))
          /\ UNCHANGED service
    /\ UNCHANGED <<asked, child, gui, recovering, cooling, repaired, tried, queue, late, sent>>

\* withScmGuardedStatus: three attempts while the service manager says that
\* the service runs.
withScmGuardedStatus(f) ==
    /\ At(f, "status")
    /\ IF Serves
         THEN seen' = "on" /\ checking' = FALSE /\ Goto(f, "list")
         ELSE Goto(f, "caught") /\ UNCHANGED <<seen, checking>>
    /\ UNCHANGED <<env, asked, service, child, gui, recovering, cooling, repaired,
                   tried, queue, late, sent>>

List(f) ==
    /\ At(f, "list")
    /\ IF Serves
         THEN flow' = [flow EXCEPT ![f] = [@ EXCEPT !.pc = "apply", !.states = Snapshot]]
         ELSE Goto(f, "caught")
    /\ UNCHANGED <<env, asked, service, child, gui, link, tried, queue, late, sent>>

\* Mutant: the missing auto_start is taken for a value.
MergedUndefined(states) ==
    [n \in Nets |-> IF n \in Shown /\ states[n] # "none"
                    THEN [st |-> states[n], auto |-> None] ELSE gui[n]]

\* Mutant: networks only the service has come back into the list.
MergedWithOrphans(states) ==
    [n \in Nets |-> IF states[n] # "none"
                    THEN [st |-> states[n], auto |-> FALSE] ELSE gui[n]]

\* What an answer makes of the list.  A network that the service does not
\* know stays as it is; the answer has no autoStart.
Merged(states) ==
    [n \in Nets |-> IF n \in Shown /\ states[n] # "none"
                    THEN [st |-> states[n], auto |-> FALSE] ELSE gui[n]]

Orphans(states) == {n \in Nets : states[n] # "none"} \ Shown

\* The answer is merged into the list as it is by now, and the service is
\* told to drop what the list does not have.
Apply(f) ==
    /\ At(f, "apply")
    /\ gui' = Merged(flow[f].states)
    /\ sent' = sent \cup {<<"remove", n>> : n \in Orphans(flow[f].states)}
    /\ checking' = FALSE
    /\ Return(f, Idle)
    /\ UNCHANGED <<env, asked, service, child, seen, cooling, repaired, tried, queue>>

\* The catch block: a service that runs and does not answer is repaired once
\* per session; if the service manager says anything else it counts as not
\* installed.
Caught(f) ==
    /\ At(f, "caught")
    /\ checking' = FALSE
    /\ IF svc \in {"up", "hung"}
         THEN /\ seen' = "sick"
              /\ repaired' = repaired \cup {"zombie"}
              /\ Return(f, IF "zombie" \in repaired THEN Idle
                           ELSE [Idle EXCEPT !.pc = "zombie"])
         ELSE seen' = "off" /\ Return(f, Idle) /\ UNCHANGED repaired
    /\ UNCHANGED <<env, asked, service, child, gui, cooling, tried, queue, sent>>

\* A refresh that a timer starts.
Late(f) ==
    /\ late > 0 /\ late' = late - 1
    /\ Begin(f, Refresh(FALSE))
    /\ UNCHANGED <<env, asked, service, child, gui, link, tried, queue, sent>>

(***************************************************************************)
(* The watchdog of the GUI and runServiceRecovery.                         *)
(***************************************************************************)

\* Every 20 s while the GUI believes that there is a service.
Watch(f) ==
    /\ seen \in {"sick", "on"} /\ ~recovering
    /\ svc \in {"down", "hung"}
    /\ seen' = "sick"
    /\ IF cooling
         THEN UNCHANGED <<flow, recovering, cooling>>
         ELSE /\ Begin(f, [Idle EXCEPT !.pc = "heal", !.kind = "recover"])
              /\ recovering' = TRUE /\ cooling' = TRUE
    /\ UNCHANGED <<env, asked, service, child, gui, checking, repaired, tried, queue,
                   late, sent>>

CoolsDown ==
    /\ cooling /\ ~recovering
    /\ cooling' = FALSE
    /\ UNCHANGED <<env, asked, service, child, gui, seen, checking, recovering,
                   repaired, tried, queue, flow, late, sent>>

\* repair_service, which may fail.
Heal(f) ==
    /\ At(f, "heal")
    /\ \/ ServiceUp /\ Goto(f, "wait") /\ UNCHANGED <<env, seen, recovering>>
       \/ /\ Happens("repair")
          /\ flow' = [flow EXCEPT ![f] = Idle]
          /\ seen' = "sick" /\ recovering' = FALSE
          /\ UNCHANGED service
    /\ UNCHANGED <<asked, child, gui, checking, cooling, repaired, tried, queue, late, sent>>

\* Up to ten looks at the service manager.
Wait(f) ==
    /\ At(f, "wait")
    /\ IF svc \in {"up", "hung"}
         THEN /\ flow' = [flow EXCEPT ![f] = [@ EXCEPT !.pc = "query", !.skip = TRUE]]
              /\ UNCHANGED <<seen, recovering>>
         ELSE /\ flow' = [flow EXCEPT ![f] = Idle]
              /\ seen' = "sick" /\ recovering' = FALSE
    /\ UNCHANGED <<env, asked, service, child, gui, checking, cooling, repaired,
                   tried, queue, late, sent>>

RefreshStep(f) ==
    \/ Query(f) \/ QueryDown(f) \/ StartService(f) \/ CheckStart(f)
    \/ Repair(f) \/ withScmGuardedStatus(f) \/ List(f) \/ Apply(f) \/ Caught(f)
RecoveryStep(f) == Heal(f) \/ Wait(f)
=============================================================================
