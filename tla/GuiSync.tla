------------------------------- MODULE GuiSync ------------------------------
(***************************************************************************)
(* The GUI's list of networks, the service's records and the cores of      *)
(* both: the handlers of src/App.tsx and src/hooks/useInstances.ts over    *)
(* ServiceLink.  In service mode the GUI asks the service, otherwise       *)
(* (compatibility mode) it starts and stops cores of its own.              *)
(***************************************************************************)
EXTENDS ServiceLink

\* A request of the flow fails: a toggle shows the network as failed, the
\* others only say so.
Fail(f) ==
    /\ flow' = [flow EXCEPT ![f] = Idle]
    /\ IF flow[f].kind = "toggle" THEN Mark(flow[f].net, "failed") ELSE UNCHANGED gui

(***************************************************************************)
(* toggle.                                                                 *)
(***************************************************************************)

\* The button is disabled while the network is starting or stopping; the
\* entry of the tray menu is not.  Neither waits for the first look at the
\* service (`early').
Toggle(f, n) ==
    /\ n \in Shown
    /\ \/ Happens("toggle") /\ gui[n].st \notin {"starting", "stopping"} /\ ~checking
       \/ Happens("tray") /\ ~checking
       \/ Happens("early") /\ checking
    /\ LET was == gui[n].st = "running"
           call(pc) == [Idle EXCEPT !.pc = pc, !.kind = "toggle", !.net = n,
                          !.mode = serviceMode, !.was = was, !.auto = gui[n].auto]
       IN IF was THEN /\ Begin(f, call(IF serviceMode THEN "sync" ELSE "local_stop"))
                      /\ Mark(n, "stopping")
                 ELSE Begin(f, call("ports")) /\ UNCHANGED gui
    /\ UNCHANGED <<asked, service, child, link, tried, queue, late, sent>>

\* A start waits for the checks of the ports; the user may give up there.
Ports(f) ==
    /\ At(f, "ports")
    /\ \/ /\ Goto(f, IF flow[f].mode THEN "sync" ELSE "local_start")
          /\ Mark(flow[f].net, "starting")
       \/ flow' = [flow EXCEPT ![f] = Idle] /\ UNCHANGED gui
    /\ UNCHANGED <<env, asked, service, child, link, tried, queue, late, sent>>

\* sync_instance with the autoStart that the click has seen.  A restart for
\* a log level keeps the network running.
Sync(f) ==
    /\ At(f, "sync")
    /\ \/ /\ Serves
          /\ SyncRecord(flow[f].net, flow[f].auto,
                        flow[f].was <=> flow[f].kind = "level")
          /\ Goto(f, IF flow[f].kind = "toggle" THEN "command"
                     ELSE IF flow[f].was THEN "restop" ELSE "query")
          /\ UNCHANGED <<env, core, gui>>
       \/ ~Serves /\ Fail(f) /\ UNCHANGED <<env, rec, core>>
       \/ Serves /\ Happens("refuse") /\ Fail(f) /\ UNCHANGED <<rec, core>>
    /\ UNCHANGED <<asked, svc, child, link, tried, queue, late, sent>>

\* Mutant: the list is not asked for again after a stop.
CommandNoRefresh(f) ==
    /\ At(f, "command")
    /\ Serves
    /\ IF flow[f].was THEN ServiceStop(flow[f].net) /\ flow' = [flow EXCEPT ![f] = Idle]
                      ELSE ServiceStart(flow[f].net) /\ Goto(f, "query")
    /\ UNCHANGED <<env, asked, svc, child, gui, link, tried, queue, late, sent>>

\* start_instance or stop_instance, then the list is asked for again.  A
\* core that does not start leaves the record as it should run.
Command(f) ==
    /\ At(f, "command")
    /\ LET n == flow[f].net IN
       \/ /\ Serves
          /\ IF flow[f].was THEN ServiceStop(n) ELSE ServiceStart(n)
          /\ Goto(f, "query")
          /\ UNCHANGED <<env, gui>>
       \/ /\ ~Serves \/ n \notin Known
          /\ Fail(f)
          /\ UNCHANGED <<env, rec, core>>
       \/ /\ Serves /\ n \in Known /\ Happens("spawn")
          /\ rec' = [rec EXCEPT ![n].on = ~flow[f].was]
          /\ Fail(f)
          /\ UNCHANGED core
    /\ UNCHANGED <<asked, svc, child, link, tried, queue, late, sent>>

(***************************************************************************)
(* Compatibility mode: start_instance, wait_for_exit and stop_instance of  *)
(* src-tauri/src/lib.rs.                                                   *)
(***************************************************************************)

\* The stop of a toggle gives up waiting after five seconds.
LocalStop(f) ==
    /\ At(f, "local_stop")
    /\ child' = child \ {flow[f].net}
    /\ \/ /\ flow[f].kind = "toggle"
          /\ flow' = [flow EXCEPT ![f] = Idle]
          /\ Mark(flow[f].net, "stopped")
          /\ UNCHANGED env
       \/ flow[f].kind = "level" /\ Goto(f, "local_start") /\ UNCHANGED <<env, gui>>
       \/ Happens("refuse") /\ Fail(f)
    /\ UNCHANGED <<asked, service, link, tried, queue, late, sent>>

\* A network that is in the table of children is not started again.
LocalStart(f) ==
    /\ At(f, "local_start")
    /\ \/ /\ child' = child \cup {flow[f].net}
          /\ Goto(f, "local_wait")
          /\ UNCHANGED <<env, gui>>
       \/ Happens("spawn") /\ Fail(f) /\ UNCHANGED child
    /\ UNCHANGED <<asked, service, link, tried, queue, late, sent>>

\* 1.2 s later: the core has exited, or the network is shown as running.
LocalWait(f) ==
    /\ At(f, "local_wait")
    /\ \/ /\ flow' = [flow EXCEPT ![f] = Idle]
          /\ Mark(flow[f].net, "running")
          /\ UNCHANGED <<env, child>>
       \/ Happens("spawn") /\ child' = child \ {flow[f].net} /\ Fail(f)
    /\ UNCHANGED <<asked, service, link, tried, queue, late, sent>>

(***************************************************************************)
(* changeConsoleLogLevel: a running network is restarted.                  *)
(***************************************************************************)

Level(f, n) ==
    /\ Happens("level") /\ n \in Shown
    /\ serviceMode \/ gui[n].st = "running"
    /\ Begin(f, [Idle EXCEPT !.pc = IF serviceMode THEN "sync" ELSE "local_stop",
                   !.kind = "level", !.net = n, !.mode = serviceMode,
                   !.was = gui[n].st = "running", !.auto = gui[n].auto])
    /\ UNCHANGED <<asked, service, child, gui, link, tried, queue, late, sent>>

Restart(f) ==
    /\ LET n == flow[f].net IN
       \/ /\ At(f, "restop") /\ Serves
          /\ ServiceStop(n) /\ Goto(f, "restart")
          /\ UNCHANGED late
       \/ /\ At(f, "restart") /\ Serves
          /\ ServiceStart(n) /\ Goto(f, "query")
          /\ late' = late + 1
       \/ /\ At(f, "restop") \/ At(f, "restart")
          /\ ~Serves \/ n \notin Known
          /\ flow' = [flow EXCEPT ![f] = Idle]
          /\ UNCHANGED <<rec, core, late>>
    /\ UNCHANGED <<env, asked, svc, child, gui, link, tried, queue, sent>>

(***************************************************************************)
(* The list, and the switch for autoStart.                                 *)
(***************************************************************************)

\* The service is told first, in service mode.
SetAuto(n) ==
    /\ Happens("auto") /\ n \in Shown
    /\ LET next == ~gui[n].auto IN
       /\ \/ ~serviceMode /\ UNCHANGED rec
          \/ /\ serviceMode /\ Serves /\ n \in Known
             /\ rec' = [rec EXCEPT ![n].auto = next]
       /\ gui' = [gui EXCEPT ![n].auto = next]
       /\ asked' = [asked EXCEPT ![n] = next]
    /\ UNCHANGED <<svc, core, child, link, tried, queue, flow, late, sent>>

addInstance(n) ==
    /\ Happens("add") /\ gui[n] = None
    /\ gui' = [gui EXCEPT ![n] = [st |-> "stopped", auto |-> FALSE]]
    /\ UNCHANGED <<asked, service, child, link, tried, queue, flow, late, sent>>

\* Mutant: by the time of the call the selection has moved on.
RemoveSelected(n) ==
    /\ Happens("remove") /\ n \in Shown
    /\ \E m \in Shown \ {n} :
         sent' = sent \cup {<<"stop", n>>, <<"remove", m>>}
    /\ gui' = [gui EXCEPT ![n] = Gone]
    /\ UNCHANGED <<asked, service, child, link, tried, queue, flow, late>>

\* The last network cannot be removed.  Nobody waits for the stop of the
\* core and for the service.
removeInstance(n) ==
    /\ Happens("remove") /\ n \in Shown /\ Shown # {n}
    /\ gui' = [gui EXCEPT ![n] = Gone]
    /\ sent' = sent \cup {<<"stop", n>>, <<"remove", n>>}
    /\ UNCHANGED <<asked, service, child, link, tried, queue, flow, late>>

\* A call nobody waits for is made.  stop_instance stops a core of the GUI;
\* the service refuses to remove a network that runs, and no one looks at
\* the answer.
Deliver(m) ==
    /\ m \in sent /\ sent' = sent \ {m}
    /\ LET n == m[2] IN
       IF m[1] = "stop" THEN child' = child \ {n} /\ UNCHANGED rec
       ELSE /\ UNCHANGED child
            /\ rec' = IF Serves /\ n \notin core THEN [rec EXCEPT ![n] = None] ELSE rec
    /\ UNCHANGED <<env, asked, svc, core, gui, link, tried, queue, flow, late>>

(***************************************************************************)
(* What happens by itself: the networks to connect at the start, and the   *)
(* machine waking up.                                                      *)
(***************************************************************************)

\* The effect runs after every change of what it looks at.
AutoConnect ==
    /\ ~checking /\ ~serviceMode
    /\ LET toStart == {n \in Shown \ tried : gui[n].auto /\ gui[n].st # "running"} IN
       /\ toStart # {}
       /\ tried' = tried \cup toStart
       /\ queue' = queue \cup toStart
    /\ UNCHANGED <<env, asked, service, child, gui, link, flow, late, sent>>

\* One network after the other, whatever the mode is by then.
AutoStart(f) ==
    /\ \A g \in Flows : flow[g].kind # "auto"
    /\ \E n \in queue :
         /\ Begin(f, [Idle EXCEPT !.pc = "local_start", !.kind = "auto", !.net = n])
         /\ queue' = queue \ {n}
    /\ UNCHANGED <<env, asked, service, child, gui, link, tried, late, sent>>

Resume(f) ==
    /\ Happens("resume")
    /\ IF serviceMode
         THEN Begin(f, Refresh(FALSE)) /\ UNCHANGED child
         ELSE /\ child' = child \cup {n \in Shown : gui[n].st = "running"}
              /\ UNCHANGED flow
    /\ UNCHANGED <<asked, service, gui, link, tried, queue, late, sent>>

(***************************************************************************)
(* The GUI starts with the list of the last session: every network is      *)
(* stopped, some of them known to the service.  The service may have       *)
(* records the GUI has dropped.                                            *)
(***************************************************************************)

Init ==
    /\ env \in [events : Scenes, left : {Budget}]
    /\ svc \in {"absent", "down", "up"}
    /\ gui \in [Nets -> {None, Gone} \cup [st : {"stopped"}, auto : BOOLEAN]]
    /\ Shown # {}
    /\ rec \in [Nets -> {None} \cup Record]
    /\ svc = "absent" => Known = {}
    /\ \A n \in Known :
         /\ gui[n] # None
         /\ n \in Shown => rec[n].auto = gui[n].auto
         /\ svc = "up" /\ rec[n].auto => rec[n].on
    /\ core = IF svc = "up" THEN Wanted ELSE {}
    /\ child = {}
    /\ asked = [n \in Nets |-> n \in Shown /\ gui[n].auto]
    /\ seen = "none" /\ checking = TRUE /\ recovering = FALSE /\ cooling = FALSE
    /\ tried = {} /\ queue = {} /\ repaired = {}
    /\ \E f \in Flows : flow = [g \in Flows |-> IF g = f THEN Refresh(FALSE) ELSE Idle]
    /\ late = 0 /\ sent = {}

ToggleStep(f) == Ports(f) \/ Sync(f) \/ Command(f)
LocalStep(f) == LocalStop(f) \/ LocalStart(f) \/ LocalWait(f)
FlowStep(f) == RefreshStep(f) \/ RecoveryStep(f) \/ ToggleStep(f) \/ LocalStep(f) \/ Restart(f)

User ==
    \/ \E n \in Nets, f \in Flows : Toggle(f, n) \/ Level(f, n)
    \/ \E n \in Nets : SetAuto(n) \/ addInstance(n) \/ removeInstance(n)
    \/ \E f \in Flows : Resume(f)

Next ==
    \/ \E f \in Flows : FlowStep(f) \/ Watch(f) \/ Late(f) \/ AutoStart(f)
    \/ \E m \in sent : Deliver(m)
    \/ AutoConnect \/ CoolsDown
    \/ User
    \/ SvcDies \/ SvcHangs

Spec == Init /\ [][Next]_vars

(***************************************************************************)
(* Fairness: calls are answered or time out, timers fire, effects run.     *)
(* The window is visible, or else the watchdog of the GUI does nothing.    *)
(* No user has to do anything.                                             *)
(***************************************************************************)
Fairness ==
    /\ \A f \in Flows : WF_vars(FlowStep(f))
    /\ WF_vars(\E f \in Flows : Watch(f))
    /\ WF_vars(\E f \in Flows : Late(f))
    /\ WF_vars(\E f \in Flows : AutoStart(f))
    /\ WF_vars(\E m \in sent : Deliver(m))
    /\ WF_vars(AutoConnect) /\ WF_vars(CoolsDown)

FairSpec == Spec /\ Fairness

TypeOK ==
    /\ env \in [events : Scenes, left : 0..Budget]
    /\ asked \in [Nets -> BOOLEAN]
    /\ svc \in {"absent", "down", "up", "hung"}
    /\ rec \in [Nets -> {None} \cup Record]
    /\ core \subseteq Nets /\ child \subseteq Nets
    /\ gui \in [Nets -> {None, Gone} \cup Instance]
    /\ seen \in {"none", "off", "sick", "on"}
    /\ checking \in BOOLEAN /\ recovering \in BOOLEAN /\ cooling \in BOOLEAN
    /\ tried \subseteq Nets /\ queue \subseteq Nets
    /\ repaired \subseteq {"start", "zombie"}
    /\ flow \in [Flows -> Flow]
    /\ late \in Nat
    /\ sent \subseteq {"stop", "remove"} \X Nets

(***************************************************************************)
(* The list.                                                               *)
(***************************************************************************)

\* A network that the user has removed is never in the list again, although
\* the service may still have it, and answers that are older than the
\* removal arrive after it.
RemovedStaysRemoved ==
    [][\A n \in Nets : gui[n] = Gone => gui'[n] = Gone]_vars

\* Only networks that the list does not have are removed from the service:
\* neither the removal of another network nor the clean-up after an old
\* answer takes the record of one that is shown.
CleanupSparesShown == \A n \in Shown : <<"remove", n>> \notin sent

\* The service's auto_start of a network changes only to what the user has
\* asked for: starting or stopping the network keeps it.
AutoByUserOnly ==
    [][\A n \in Nets :
         rec[n] # None /\ rec'[n] # None /\ rec'[n].auto # rec[n].auto =>
            rec'[n].auto = asked'[n]]_vars

(***************************************************************************)
(* Progress.                                                               *)
(***************************************************************************)

Busy(n) == n \in Shown /\ gui[n].st \in {"starting", "stopping"}

\* While the service neither dies nor hangs, no network is shown as starting
\* or stopping for ever, which would disable its button.
BusyEnds ==
    \A n \in Nets :
        (Busy(n) /\ env.events \cap {"down", "hang"} = {}) ~> ~Busy(n)

\* A service that dies or hangs is brought back by the GUI, unless the GUI
\* has come to believe that there is none.
ServiceComesBack ==
    (svc \in {"down", "hung"} /\ seen \in {"sick", "on"}) ~>
        (svc = "up" \/ seen = "off")
=============================================================================
