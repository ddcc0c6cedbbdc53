--------------------------- MODULE GuiSync_proof ----------------------------
(***************************************************************************)
(* What the GUI's list keeps, for any number of networks and of async      *)
(* functions in flight, in whatever order their answers arrive.            *)
(***************************************************************************)
EXTENDS GuiSync, TLAPS

(***************************************************************************)
(* Types.  A call that has to do with a network has one.                   *)
(***************************************************************************)

NetPcs == {"ports", "sync", "command", "restop", "restart",
           "local_stop", "local_start", "local_wait"}
Calls == {c \in Flow : c.pc \in NetPcs => c.net \in Nets}
Lists == [Nets -> {None, Gone} \cup Instance]

TypeInv == TypeOK /\ flow \in [Flows -> Calls]

LEMMA EnvStays ==
    ASSUME env \in [events : Scenes, left : 0..Budget], NEW e, Happens(e)
    PROVE  env' \in [events : Scenes, left : 0..Budget]
BY LinkAssumption DEF Happens

\* Two fields of a call at once.
LEMMA CallListed ==
    ASSUME NEW c \in Flow, NEW states \in Answer
    PROVE  [c EXCEPT !.pc = "apply", !.states = states] \in Calls
BY DEF Flow, Pcs, Calls, NetPcs

LEMMA CallSkips ==
    ASSUME NEW c \in Flow, NEW skip \in BOOLEAN
    PROVE  [c EXCEPT !.pc = "query", !.skip = skip] \in Calls
BY DEF Flow, Pcs, Calls, NetPcs

LEMMA IdleIsCall == Idle \in Flow /\ Idle \in Calls /\ Idle.pc = "idle"
BY DEF Idle, Flow, Calls, Pcs, NetPcs, Kinds, Answer, NoAnswer

LEMMA RefreshIsCall == ASSUME NEW skip \in BOOLEAN PROVE Refresh(skip) \in Calls
BY IdleIsCall, CallSkips DEF Refresh

LEMMA RepairIsCall ==
    ASSUME NEW pc \in {"start_service", "zombie"} PROVE [Idle EXCEPT !.pc = pc] \in Calls
BY IdleIsCall DEF Calls, Flow, Pcs, NetPcs

LEMMA HealIsCall == [Idle EXCEPT !.pc = "heal", !.kind = "recover"] \in Calls
BY IdleIsCall DEF Calls, Flow, Pcs, NetPcs, Kinds

LEMMA AutoIsCall ==
    ASSUME NEW n \in Nets
    PROVE  [Idle EXCEPT !.pc = "local_start", !.kind = "auto", !.net = n] \in Calls
BY IdleIsCall DEF Calls, Flow, Pcs, Kinds

LEMMA ToggleIsCall ==
    ASSUME NEW n \in Nets, NEW pc \in NetPcs, NEW kind \in {"toggle", "level"},
           NEW mode \in BOOLEAN, NEW was \in BOOLEAN, NEW auto \in BOOLEAN
    PROVE  [Idle EXCEPT !.pc = pc, !.kind = kind, !.net = n, !.mode = mode,
              !.was = was, !.auto = auto] \in Calls
<1>1. pc \in Pcs /\ kind \in Kinds
    BY DEF NetPcs, Pcs, Kinds
<1> QED
    BY <1>1, IdleIsCall DEF Calls, Flow

LEMMA FlowIsSet ==
    ASSUME TypeInv, NEW f \in Flows, NEW call \in Calls, flow' = [flow EXCEPT ![f] = call]
    PROVE  flow' \in [Flows -> Calls]
BY DEF TypeInv

LEMMA FlowGoesOn ==
    ASSUME TypeInv, NEW f \in Flows, NEW pc \in Pcs, Goto(f, pc),
           pc \in NetPcs => flow[f].pc \in NetPcs
    PROVE  flow' \in [Flows -> Calls]
<1>1. [flow[f] EXCEPT !.pc = pc] \in Calls
    BY DEF TypeInv, Calls, Flow
<1> QED
    BY <1>1, FlowIsSet DEF Goto

LEMMA ListIsMarked ==
    ASSUME gui \in Lists, NEW n, NEW st \in Statuses, Mark(n, st)
    PROVE  gui' \in Lists
BY DEF Lists, Mark, Shown, Instance

LEMMA FailTypes ==
    ASSUME TypeInv, NEW f \in Flows, Fail(f)
    PROVE  flow' \in [Flows -> Calls] /\ gui' \in Lists
BY IdleIsCall, FlowIsSet, ListIsMarked DEF TypeInv, TypeOK, Lists, Fail, Statuses

LEMMA RecordsStay ==
    ASSUME rec \in [Nets -> {None} \cup Record], core \subseteq Nets, NEW n,
           ServiceStart(n) \/ ServiceStop(n) \/ ServiceUp
    PROVE  rec' \in [Nets -> {None} \cup Record] /\ core' \subseteq Nets
BY DEF ServiceStart, ServiceStop, ServiceUp, Known, Record, Wanted

\* TypeInv, from what a step has shown of the flow.
LEMMA CallsAreFlows ==
    ASSUME flow' \in [Flows -> Calls] PROVE flow' \in [Flows -> Flow]
BY DEF Calls

LEMMA RefreshTypes ==
    ASSUME TypeInv, NEW f \in Flows, RefreshStep(f)
    PROVE  TypeInv'
<1> USE CallsAreFlows DEF TypeOK, service
<1>1. ASSUME NEW next \in Calls, Return(f, next)
      PROVE  flow' \in [Flows -> Calls] /\ late' \in Nat /\ recovering' \in BOOLEAN
    <2>1. flow' \in [Flows -> Calls]
        BY <1>1, FlowIsSet DEF Return
    <2>2. late' \in Nat
        <3>1. late \in Nat
            BY DEF TypeInv
        <3> HIDE DEF TypeOK
        <3> QED
            BY <1>1, <3>1 DEF Return
    <2>3. recovering' \in BOOLEAN
        BY <1>1 DEF Return
    <2> QED
        BY <2>1, <2>2, <2>3
<1>2. flow[f] \in Flow /\ Idle \in Calls
    BY IdleIsCall DEF TypeInv
<1>3. CASE Query(f)
    <2>1. flow' \in [Flows -> Calls] /\ late' \in Nat /\ recovering' \in BOOLEAN
        BY <1>3, <1>1, <1>2, FlowGoesOn DEF Query, Pcs, NetPcs, TypeInv
    <2> QED
        BY <1>3, <2>1 DEF Query, TypeInv
<1>4. CASE QueryDown(f)
    <2>1. [Idle EXCEPT !.pc = "start_service"] \in Calls
        BY RepairIsCall
    <2> QED
        BY <1>4, <1>1, <1>2, <2>1 DEF QueryDown, TypeInv
<1>5. CASE StartService(f)
    <2>1. flow' \in [Flows -> Calls]
        BY <1>5, <1>2, FlowGoesOn, FlowIsSet DEF StartService, Pcs, NetPcs
    <2> QED
        BY <1>5, <2>1, EnvStays, RecordsStay DEF StartService, ServiceUp, TypeInv
<1>6. CASE CheckStart(f)
    <2>1. flow' \in [Flows -> Calls]
        BY <1>6, RefreshIsCall, FlowGoesOn, FlowIsSet DEF CheckStart, Pcs, NetPcs
    <2> QED
        BY <1>6, <2>1 DEF CheckStart, TypeInv
<1>7. CASE Repair(f)
    <2>1. flow' \in [Flows -> Calls]
        BY <1>7, <1>2, RefreshIsCall, FlowIsSet DEF Repair
    <2> QED
        BY <1>7, <2>1, EnvStays, RecordsStay DEF Repair, ServiceUp, TypeInv
<1>8. CASE withScmGuardedStatus(f)
    <2>1. flow' \in [Flows -> Calls]
        BY <1>8, FlowGoesOn DEF withScmGuardedStatus, Pcs, NetPcs
    <2> QED
        BY <1>8, <2>1 DEF withScmGuardedStatus, TypeInv
<1>9. CASE List(f)
    <2>1. Snapshot \in Answer
        BY DEF Snapshot, Answer
    <2>2. [flow[f] EXCEPT !.pc = "apply", !.states = Snapshot] \in Calls
        BY <2>1, <1>2, CallListed
    <2>3. flow' \in [Flows -> Calls]
        BY <1>9, <2>2, FlowGoesOn, FlowIsSet DEF List, Pcs, NetPcs
    <2> QED
        BY <1>9, <2>3 DEF List, link, TypeInv
<1>10. CASE Apply(f)
    <2>1. flow[f].states \in Answer
        BY <1>2 DEF Flow
    <2>2. gui' \in Lists
        BY <1>10, <2>1 DEF Apply, Merged, Shown, Answer, Instance, Statuses, Lists, TypeInv
    <2>3. sent' \subseteq {"stop", "remove"} \X Nets
        <3>1. Orphans(flow[f].states) \subseteq Nets
            BY DEF Orphans
        <3>2. sent \subseteq {"stop", "remove"} \X Nets
            BY DEF TypeInv
        <3>3. sent' = sent \cup {<<"remove", n>> : n \in Orphans(flow[f].states)}
            BY <1>10 DEF Apply
        <3> QED
            BY <3>1, <3>2, <3>3
    <2> QED
        BY <1>10, <1>1, <1>2, <2>2, <2>3 DEF Apply, TypeInv, Lists
<1>11. CASE Caught(f)
    <2>1. [Idle EXCEPT !.pc = "zombie"] \in Calls
        BY RepairIsCall
    <2> QED
        BY <1>11, <1>1, <1>2, <2>1 DEF Caught, TypeInv
<1> QED
    BY <1>3, <1>4, <1>5, <1>6, <1>7, <1>8, <1>9, <1>10, <1>11 DEF RefreshStep

LEMMA RecoveryTypes ==
    ASSUME TypeInv, NEW f \in Flows, RecoveryStep(f) \/ Watch(f) \/ Late(f)
    PROVE  TypeInv'
<1> USE CallsAreFlows DEF TypeOK, service, link
<1>1. CASE Heal(f)
    <2>1. flow' \in [Flows -> Calls]
        BY <1>1, IdleIsCall, FlowGoesOn, FlowIsSet DEF Heal, Pcs, NetPcs
    <2> QED
        BY <1>1, <2>1, EnvStays, RecordsStay DEF Heal, ServiceUp, TypeInv
<1>2. CASE Wait(f)
    <2>1. [flow[f] EXCEPT !.pc = "query", !.skip = TRUE] \in Calls
        BY CallSkips DEF TypeInv
    <2>2. flow' \in [Flows -> Calls]
        BY <1>2, <2>1, IdleIsCall, FlowIsSet DEF Wait
    <2> QED
        BY <1>2, <2>2 DEF Wait, TypeInv
<1>3. CASE Watch(f)
    <2>1. flow' \in [Flows -> Calls]
        BY <1>3, HealIsCall, FlowIsSet DEF Watch, Begin, TypeInv
    <2> QED
        BY <1>3, <2>1 DEF Watch, TypeInv
<1>4. CASE Late(f)
    <2>1. flow' \in [Flows -> Calls]
        BY <1>4, RefreshIsCall, FlowIsSet DEF Late, Begin
    <2>2. late' \in Nat
        <3>1. late \in Nat
            BY DEF TypeInv
        <3> HIDE DEF TypeOK
        <3> QED
            BY <1>4, <3>1 DEF Late
    <2> QED
        BY <1>4, <2>1, <2>2 DEF Late, TypeInv
<1> QED
    BY <1>1, <1>2, <1>3, <1>4 DEF RecoveryStep

LEMMA ToggleTypes ==
    ASSUME TypeInv, NEW f \in Flows, ToggleStep(f) \/ LocalStep(f) \/ Restart(f)
    PROVE  TypeInv'
<1> USE CallsAreFlows DEF TypeOK, service, link, Lists
<1>1. flow[f] \in Flow /\ (flow[f].pc \in NetPcs => flow[f].net \in Nets)
    BY DEF TypeInv, Calls
<1>2. CASE Ports(f)
    <2>1. flow' \in [Flows -> Calls] /\ gui' \in Lists
        BY <1>2, IdleIsCall, FlowGoesOn, FlowIsSet, ListIsMarked DEF Ports, At, Pcs, NetPcs, Statuses, TypeInv
    <2> QED
        BY <1>2, <2>1 DEF Ports, TypeInv
<1>3. CASE Sync(f)
    <2>1. ASSUME NEW on \in BOOLEAN, SyncRecord(flow[f].net, flow[f].auto, on)
          PROVE  rec' \in [Nets -> {None} \cup Record]
        BY <2>1, <1>1 DEF SyncRecord, Record, Flow, TypeInv
    <2>2. flow' \in [Flows -> Calls] /\ gui' \in Lists
        BY <1>3, FlowGoesOn, FailTypes DEF Sync, At, Pcs, NetPcs, TypeInv
    <2>3. rec' \in [Nets -> {None} \cup Record]
        BY <1>3, <2>1 DEF Sync, TypeInv
    <2> QED
        BY <1>3, <2>2, <2>3, EnvStays DEF Sync, TypeInv
<1>4. CASE Command(f)
    <2>1. ASSUME NEW n \in Known, NEW on \in BOOLEAN, rec' = [rec EXCEPT ![n].on = on]
          PROVE  rec' \in [Nets -> {None} \cup Record]
        BY <2>1 DEF Known, Record, TypeInv
    <2>2. flow[f].was \in BOOLEAN
        BY <1>1 DEF Flow
    <2>3. flow' \in [Flows -> Calls] /\ gui' \in Lists
        BY <1>4, FlowGoesOn, FailTypes DEF Command, At, Pcs, NetPcs, TypeInv
    <2>4. rec' \in [Nets -> {None} \cup Record] /\ core' \subseteq Nets
        BY <1>4, <2>1, <2>2, RecordsStay DEF Command, TypeInv
    <2> QED
        BY <1>4, <2>3, <2>4, EnvStays DEF Command, TypeInv
<1>5. CASE LocalStop(f)
    <2>1. flow' \in [Flows -> Calls] /\ gui' \in Lists
        BY <1>5, IdleIsCall, FlowGoesOn, FlowIsSet, ListIsMarked, FailTypes
           DEF LocalStop, At, Pcs, NetPcs, Statuses, TypeInv
    <2> QED
        BY <1>5, <2>1, EnvStays DEF LocalStop, TypeInv
<1>6. CASE LocalStart(f)
    <2>1. flow' \in [Flows -> Calls] /\ gui' \in Lists
        BY <1>6, FlowGoesOn, FailTypes DEF LocalStart, At, Pcs, NetPcs, TypeInv
    <2>2. flow[f].net \in Nets
        BY <1>6, <1>1 DEF LocalStart, At, NetPcs
    <2> QED
        BY <1>6, <2>1, <2>2, EnvStays DEF LocalStart, TypeInv
<1>7. CASE LocalWait(f)
    <2>1. flow' \in [Flows -> Calls] /\ gui' \in Lists
        BY <1>7, IdleIsCall, FlowIsSet, ListIsMarked, FailTypes DEF LocalWait, Statuses, TypeInv
    <2> QED
        BY <1>7, <2>1, EnvStays DEF LocalWait, TypeInv
<1>8. CASE Restart(f)
    <2>1. flow' \in [Flows -> Calls]
        BY <1>8, IdleIsCall, FlowGoesOn, FlowIsSet DEF Restart, At, Pcs, NetPcs
    <2>2. rec' \in [Nets -> {None} \cup Record] /\ core' \subseteq Nets
        BY <1>8, RecordsStay DEF Restart, TypeInv
    <2>3. late' \in Nat
        <3>1. late \in Nat
            BY DEF TypeInv
        <3> HIDE DEF TypeOK
        <3> QED
            BY <1>8, <3>1 DEF Restart
    <2> QED
        BY <1>8, <2>1, <2>2, <2>3 DEF Restart, TypeInv
<1> QED
    BY <1>2, <1>3, <1>4, <1>5, <1>6, <1>7, <1>8 DEF ToggleStep, LocalStep

LEMMA UserTypes ==
    ASSUME TypeInv,
           \/ User \/ AutoConnect \/ CoolsDown \/ SvcDies \/ SvcHangs
           \/ \E f \in Flows : AutoStart(f)
           \/ \E m \in sent : Deliver(m)
    PROVE  TypeInv'
<1> USE CallsAreFlows DEF TypeOK, service, link, Lists
<1>1. ASSUME NEW n \in Shown PROVE n \in Nets /\ gui[n] \in Instance
    BY <1>1 DEF Shown, TypeInv
<1>2. ASSUME NEW n \in Nets, NEW f \in Flows, Toggle(f, n) PROVE TypeInv'
    <2>1. gui[n].auto \in BOOLEAN
        BY <1>2, <1>1 DEF Toggle, Instance
    <2>2. flow' \in [Flows -> Calls]
        BY <1>2, <2>1, ToggleIsCall, FlowIsSet DEF Toggle, Begin, NetPcs, serviceMode
    <2>3. gui' \in Lists
        BY <1>2, ListIsMarked DEF Toggle, Statuses, TypeInv
    <2> QED
        BY <1>2, <2>2, <2>3, EnvStays DEF Toggle, TypeInv
<1>3. ASSUME NEW n \in Nets, NEW f \in Flows, Level(f, n) PROVE TypeInv'
    <2>1. gui[n].auto \in BOOLEAN
        BY <1>3, <1>1 DEF Level, Instance
    <2>2. flow' \in [Flows -> Calls]
        BY <1>3, <2>1, ToggleIsCall, FlowIsSet DEF Level, Begin, NetPcs, serviceMode
    <2> QED
        BY <1>3, <2>2, EnvStays DEF Level, TypeInv
<1>4. ASSUME NEW n \in Nets, SetAuto(n) PROVE TypeInv'
    <2>1. n \in Shown
        BY <1>4 DEF SetAuto
    <2>2. gui[n] \in Instance
        BY <2>1, <1>1
    <2>3. (~gui[n].auto) \in BOOLEAN
        OBVIOUS
    <2>4. ASSUME NEW next \in BOOLEAN, gui' = [gui EXCEPT ![n].auto = next]
          PROVE  gui' \in Lists
        BY <2>4, <2>2 DEF Instance, TypeInv
    <2>5. ASSUME NEW next \in BOOLEAN, n \in Known, rec' = [rec EXCEPT ![n].auto = next]
          PROVE  rec' \in [Nets -> {None} \cup Record]
        BY <2>5 DEF Known, Record, TypeInv
    <2>6. gui' \in Lists /\ rec' \in [Nets -> {None} \cup Record]
        BY <1>4, <2>3, <2>4, <2>5 DEF SetAuto, TypeInv
    <2>7. asked' \in [Nets -> BOOLEAN]
        BY <1>4, <2>2 DEF SetAuto, Instance, TypeInv
    <2> QED
        BY <1>4, <2>6, <2>7, EnvStays DEF SetAuto, TypeInv
<1>5. ASSUME NEW n \in Nets, addInstance(n) PROVE TypeInv'
    BY <1>5, EnvStays DEF addInstance, Instance, Statuses, TypeInv
<1>6. ASSUME NEW n \in Nets, removeInstance(n) PROVE TypeInv'
    BY <1>6, EnvStays DEF removeInstance, TypeInv
<1>7. ASSUME NEW f \in Flows, Resume(f) PROVE TypeInv'
    <2>1. flow' \in [Flows -> Calls] /\ child' \subseteq Nets
        BY <1>7, <1>1, RefreshIsCall, FlowIsSet DEF Resume, Begin, TypeInv
    <2> QED
        BY <1>7, <2>1, EnvStays DEF Resume, TypeInv
<1>8. ASSUME NEW f \in Flows, AutoStart(f) PROVE TypeInv'
    <2>1. flow' \in [Flows -> Calls]
        BY <1>8, AutoIsCall, FlowIsSet DEF AutoStart, Begin, TypeInv
    <2> QED
        BY <1>8, <2>1 DEF AutoStart, TypeInv
<1>9. ASSUME NEW m \in sent, Deliver(m) PROVE TypeInv'
    BY <1>9 DEF Deliver, TypeInv
<1>10. CASE AutoConnect
    BY <1>10, <1>1 DEF AutoConnect, TypeInv
<1>11. CASE CoolsDown \/ SvcDies \/ SvcHangs
    BY <1>11, EnvStays DEF CoolsDown, SvcDies, SvcHangs, TypeInv
<1> QED
    BY <1>2, <1>3, <1>4, <1>5, <1>6, <1>7, <1>8, <1>9, <1>10, <1>11 DEF User

LEMMA TypeInit == Init => TypeInv
<1> SUFFICES ASSUME Init PROVE TypeInv
    OBVIOUS
<1>1. PICK f \in Flows : flow = [g \in Flows |-> IF g = f THEN Refresh(FALSE) ELSE Idle]
    BY DEF Init
<1>2. flow \in [Flows -> Calls] /\ flow \in [Flows -> Flow]
    BY <1>1, RefreshIsCall, IdleIsCall DEF Calls
<1>3. env \in [events : Scenes, left : 0..Budget]
    BY LinkAssumption DEF Init
<1>4. gui \in Lists /\ asked \in [Nets -> BOOLEAN]
    <2>1. \A n \in Shown : gui[n].auto \in BOOLEAN
        BY DEF Init, Shown
    <2> QED
        BY <2>1 DEF Init, Lists, Instance, Statuses
<1>5. core \subseteq Nets
    BY DEF Init, Wanted, Known
<1> QED
    BY <1>2, <1>3, <1>4, <1>5 DEF Init, TypeInv, TypeOK, Lists

LEMMA TypeStep == TypeInv /\ [Next]_vars => TypeInv'
<1> SUFFICES ASSUME TypeInv, [Next]_vars PROVE TypeInv'
    OBVIOUS
<1>1. CASE UNCHANGED vars
    BY <1>1 DEF vars, service, link, TypeInv, TypeOK
<1> QED
    BY <1>1, RefreshTypes, RecoveryTypes, ToggleTypes, UserTypes DEF Next, FlowStep

\* Every variable keeps its type: an answer never leaves a network without a
\* status or without autoStart, whichever function it comes from.
THEOREM GuiTypeCorrect == Spec => []TypeOK
<1>1. TypeInv => TypeOK
    BY DEF TypeInv
<1> QED
    BY <1>1, TypeInit, TypeStep, PTL DEF Spec

(***************************************************************************)
(* The list.  Everything that mentions a network (a record of the service, *)
(* a call, an answer on its way, the queue of the auto-connect) is about   *)
(* one that is in the list or was.                                         *)
(***************************************************************************)

Concerns(call, n) == call.net = n \/ call.states[n] # "none"

ListInv ==
    /\ \A n \in Nets : <<"remove", n>> \in sent => gui[n] = Gone
    /\ \A n \in Known \cup queue : gui[n] # None
    /\ \A n \in Nets, f \in Flows : Concerns(flow[f], n) => gui[n] # None

\* What every step does to each of them.
ListKeeps ==
    \A n \in Nets : /\ gui[n] = Gone => gui'[n] = Gone
                    /\ gui[n] # None => gui'[n] # None
CallsKeep ==
    \A n \in Nets, f \in Flows :
        Concerns(flow'[f], n) =>
            Concerns(flow[f], n) \/ n \in Shown \cup Known \cup queue
RecordsKeep == \A n \in Known' : n \in Known \/ \E f \in Flows : flow[f].net = n
SentKeeps ==
    \A n \in Nets : <<"remove", n>> \in sent' => <<"remove", n>> \in sent \/ gui'[n] = Gone

Keeps == ListKeeps /\ CallsKeep /\ RecordsKeep /\ queue' \subseteq queue \cup Shown /\ SentKeeps

LEMMA MarkKeeps ==
    ASSUME gui \in Lists, NEW n, NEW st \in Statuses, Mark(n, st)
    PROVE  ListKeeps
<1>1. ASSUME NEW m \in Shown PROVE [gui[m] EXCEPT !.st = st] \in Instance
    BY <1>1 DEF Shown, Lists, Instance
<1>2. ASSUME NEW m \in Nets, gui'[m] # gui[m]
      PROVE  m \in Shown /\ gui'[m] \in Instance
    BY <1>1, <1>2 DEF Lists, Mark
<1> QED
    BY <1>2, InstanceAssumption DEF ListKeeps, Shown

LEMMA IdleConcernsNone ==
    ASSUME NEW n \in Nets
    PROVE  /\ ~Concerns(Idle, n)
           /\ \A skip \in BOOLEAN : ~Concerns(Refresh(skip), n)
           /\ \A pc \in Pcs : ~Concerns([Idle EXCEPT !.pc = pc], n)
           /\ ~Concerns([Idle EXCEPT !.pc = "heal", !.kind = "recover"], n)
BY LinkAssumption DEF Concerns, Idle, Refresh, NoAnswer

\* A call that goes on, and one that takes the place of another.
LEMMA GotoKeeps ==
    ASSUME TypeInv, NEW f \in Flows, NEW pc, Goto(f, pc) PROVE CallsKeep
<1>1. flow[f] \in Flow
    BY DEF TypeInv, TypeOK
<1>2. ASSUME NEW g \in Flows, NEW n \in Nets, Concerns(flow'[g], n)
      PROVE  Concerns(flow[g], n)
    BY <1>1, <1>2 DEF Goto, Concerns, Flow, TypeInv
<1> QED
    BY <1>2 DEF CallsKeep

LEMMA CallKeeps ==
    ASSUME TypeInv, NEW f \in Flows, NEW call, flow' = [flow EXCEPT ![f] = call],
           \A n \in Nets : Concerns(call, n) => Concerns(flow[f], n)
                                              \/ n \in Shown \cup Known \cup queue
    PROVE  CallsKeep
BY DEF CallsKeep, TypeInv

LEMMA FailKeeps ==
    ASSUME TypeInv, NEW f \in Flows, Fail(f) PROVE ListKeeps /\ CallsKeep
<1>1. CallsKeep
    BY CallKeeps, IdleConcernsNone DEF Fail
<1>2. gui \in Lists /\ "failed" \in Statuses
    BY DEF TypeInv, TypeOK, Lists, Statuses
<1> QED
    BY <1>1, <1>2, MarkKeeps DEF Fail, ListKeeps

LEMMA ServiceKeeps ==
    ASSUME TypeInv, NEW n, ServiceStart(n) \/ ServiceStop(n) \/ ServiceUp
    PROVE  RecordsKeep
BY DEF ServiceStart, ServiceStop, ServiceUp, Wanted, Known, RecordsKeep, TypeInv, TypeOK

LEMMA Unchanged ==
    /\ UNCHANGED gui => ListKeeps
    /\ UNCHANGED flow => CallsKeep
    /\ UNCHANGED rec => RecordsKeep
    /\ UNCHANGED sent => SentKeeps
BY DEF ListKeeps, CallsKeep, RecordsKeep, SentKeeps, Known

LEMMA RefreshKeeps ==
    ASSUME TypeInv, ListInv, NEW f \in Flows, RefreshStep(f)
    PROVE  Keeps
<1> USE Unchanged, IdleConcernsNone DEF Keeps, service, link
<1>1. ASSUME NEW next, Return(f, next),
             \A n \in Nets : Concerns(next, n) => Concerns(flow[f], n)
                                                \/ n \in Shown \cup Known \cup queue
      PROVE  CallsKeep
    BY <1>1, CallKeeps DEF Return
<1>2. "start_service" \in Pcs /\ "zombie" \in Pcs
    BY DEF Pcs
<1>3. CASE Query(f)
    BY <1>3, <1>1, GotoKeeps DEF Query
<1>4. CASE QueryDown(f)
    BY <1>4, <1>1, <1>2 DEF QueryDown
<1>5. CASE StartService(f)
    <2>1. CallsKeep
        BY <1>5, GotoKeeps, CallKeeps DEF StartService
    <2> QED
        BY <1>5, <2>1, ServiceKeeps DEF StartService
<1>6. CASE CheckStart(f)
    <2>1. CallsKeep
        BY <1>6, GotoKeeps, CallKeeps DEF CheckStart
    <2> QED
        BY <1>6, <2>1 DEF CheckStart
<1>7. CASE Repair(f)
    <2>1. CallsKeep
        BY <1>7, CallKeeps DEF Repair
    <2> QED
        BY <1>7, <2>1, ServiceKeeps DEF Repair
<1>8. CASE withScmGuardedStatus(f)
    BY <1>8, GotoKeeps DEF withScmGuardedStatus
<1>9. CASE List(f)
    <2>1. ASSUME NEW n \in Nets,
                 Concerns([flow[f] EXCEPT !.pc = "apply", !.states = Snapshot], n)
          PROVE  Concerns(flow[f], n) \/ n \in Known
        BY <2>1 DEF Concerns, Snapshot, Flow, TypeInv, TypeOK
    <2>2. CallsKeep
        BY <1>9, <2>1, GotoKeeps, CallKeeps DEF List
    <2> QED
        BY <1>9, <2>2 DEF List
<1>10. CASE Apply(f)
    <2>1. ASSUME NEW n \in Nets
          PROVE  /\ gui[n] = Gone => gui'[n] = Gone
                 /\ gui[n] # None => gui'[n] # None
        <3>1. flow[f].states[n] \in {"none", "stopped", "running"}
            BY DEF Answer, Flow, TypeInv, TypeOK
        <3>2. CASE n \in Shown /\ flow[f].states[n] # "none"
            <4>1. gui'[n] \in Instance
                BY <1>10, <3>1, <3>2 DEF Apply, Merged, Instance, Statuses
            <4> QED
                BY <3>2, <4>1, InstanceAssumption DEF Shown
        <3>3. CASE ~(n \in Shown /\ flow[f].states[n] # "none")
            BY <1>10, <3>3 DEF Apply, Merged
        <3> QED
            BY <3>2, <3>3
    <2>2. ASSUME NEW n \in Orphans(flow[f].states) PROVE gui[n] = Gone
        BY <2>2 DEF Orphans, Shown, ListInv, Concerns
    <2>3. SentKeeps
        BY <1>10, <2>1, <2>2 DEF Apply, SentKeeps, Orphans
    <2> QED
        BY <1>10, <1>1, <2>1, <2>3 DEF Apply, ListKeeps
<1>11. CASE Caught(f)
    BY <1>11, <1>1, <1>2 DEF Caught
<1> QED
    BY <1>3, <1>4, <1>5, <1>6, <1>7, <1>8, <1>9, <1>10, <1>11 DEF RefreshStep

LEMMA RecoveryKeeps ==
    ASSUME TypeInv, NEW f \in Flows, RecoveryStep(f) \/ Watch(f) \/ Late(f)
    PROVE  Keeps
<1> USE Unchanged, IdleConcernsNone DEF Keeps, service, link
<1>1. CASE Heal(f)
    <2>1. CallsKeep
        BY <1>1, GotoKeeps, CallKeeps DEF Heal
    <2> QED
        BY <1>1, <2>1, ServiceKeeps DEF Heal
<1>2. CASE Wait(f)
    <2>1. ASSUME NEW n \in Nets,
                 Concerns([flow[f] EXCEPT !.pc = "query", !.skip = TRUE], n)
          PROVE  Concerns(flow[f], n)
        BY <2>1 DEF Concerns, Flow, TypeInv, TypeOK
    <2>2. CallsKeep
        BY <1>2, <2>1, CallKeeps DEF Wait
    <2> QED
        BY <1>2, <2>2 DEF Wait
<1>3. CASE Watch(f)
    <2>1. CallsKeep
        BY <1>3, CallKeeps DEF Watch, Begin
    <2> QED
        BY <1>3, <2>1 DEF Watch
<1>4. CASE Late(f)
    <2>1. CallsKeep
        BY <1>4, CallKeeps DEF Late, Begin
    <2> QED
        BY <1>4, <2>1 DEF Late
<1> QED
    BY <1>1, <1>2, <1>3, <1>4 DEF RecoveryStep

LEMMA ToggleKeeps ==
    ASSUME TypeInv, NEW f \in Flows, ToggleStep(f) \/ LocalStep(f) \/ Restart(f)
    PROVE  Keeps
<1> USE Unchanged, IdleConcernsNone, FailKeeps, GotoKeeps DEF Keeps, service, link
<1>1. gui \in Lists /\ {"starting", "stopped", "running"} \subseteq Statuses
    BY DEF TypeInv, TypeOK, Lists, Statuses
<1>2. CASE Ports(f)
    BY <1>1, <1>2, MarkKeeps, CallKeeps DEF Ports
<1>3. CASE Sync(f)
    <2>1. ASSUME NEW on, SyncRecord(flow[f].net, flow[f].auto, on) PROVE RecordsKeep
        BY <2>1 DEF SyncRecord, RecordsKeep, Known, TypeInv, TypeOK
    <2>2. ListKeeps /\ CallsKeep
        BY <1>3 DEF Sync
    <2>3. RecordsKeep
        BY <1>3, <2>1 DEF Sync
    <2> QED
        BY <1>3, <2>2, <2>3 DEF Sync
<1>4. CASE Command(f)
    <2>1. ListKeeps /\ CallsKeep
        BY <1>4 DEF Command
    <2>2. ASSUME NEW n \in Known, NEW on, rec' = [rec EXCEPT ![n].on = on]
          PROVE  RecordsKeep
        BY <2>2 DEF RecordsKeep, Known, TypeInv, TypeOK
    <2>3. RecordsKeep
        BY <1>4, <2>2, ServiceKeeps DEF Command
    <2> QED
        BY <1>4, <2>1, <2>3 DEF Command
<1>5. CASE LocalStop(f)
    <2>1. ListKeeps /\ CallsKeep
        BY <1>1, <1>5, MarkKeeps, CallKeeps DEF LocalStop
    <2> QED
        BY <1>5, <2>1 DEF LocalStop
<1>6. CASE LocalStart(f)
    <2>1. ListKeeps /\ CallsKeep
        BY <1>6 DEF LocalStart
    <2> QED
        BY <1>6, <2>1 DEF LocalStart
<1>7. CASE LocalWait(f)
    <2>1. ListKeeps /\ CallsKeep
        BY <1>1, <1>7, MarkKeeps, CallKeeps DEF LocalWait
    <2> QED
        BY <1>7, <2>1 DEF LocalWait
<1>8. CASE Restart(f)
    <2>1. CallsKeep
        BY <1>8, CallKeeps DEF Restart
    <2>2. RecordsKeep
        BY <1>8, ServiceKeeps DEF Restart
    <2> QED
        BY <1>8, <2>1, <2>2 DEF Restart
<1> QED
    BY <1>2, <1>3, <1>4, <1>5, <1>6, <1>7, <1>8 DEF ToggleStep, LocalStep

LEMMA UserKeeps ==
    ASSUME TypeInv,
           \/ User \/ AutoConnect \/ CoolsDown \/ SvcDies \/ SvcHangs
           \/ \E f \in Flows : AutoStart(f)
           \/ \E m \in sent : Deliver(m)
    PROVE  Keeps
<1> USE Unchanged, IdleConcernsNone DEF Keeps, service, link
<1>1. ASSUME NEW n \in Nets, NEW pc, NEW kind, NEW mode, NEW was, NEW auto, NEW m \in Nets,
             Concerns([Idle EXCEPT !.pc = pc, !.kind = kind, !.net = n, !.mode = mode,
                         !.was = was, !.auto = auto], m)
      PROVE  m = n
    BY <1>1 DEF Concerns, Idle, NoAnswer
<1>2. ASSUME NEW n \in Nets, NEW f \in Flows, Toggle(f, n) PROVE Keeps
    <2> DEFINE call(pc) == [Idle EXCEPT !.pc = pc, !.kind = "toggle", !.net = n,
                              !.mode = serviceMode, !.was = (gui[n].st = "running"),
                              !.auto = gui[n].auto]
    <2>1. n \in Shown
        BY <1>2 DEF Toggle
    <2>2. PICK pc : flow' = [flow EXCEPT ![f] = call(pc)]
        BY <1>2 DEF Toggle, Begin
    <2>3. ASSUME NEW m \in Nets, Concerns(call(pc), m) PROVE m \in Shown
        BY <2>1, <2>3, <1>1
    <2>4. CallsKeep
        BY <2>2, <2>3, CallKeeps
    <2>5. ListKeeps
        BY <1>2, MarkKeeps DEF Toggle, Statuses, TypeInv, TypeOK, Lists
    <2> QED
        BY <1>2, <2>4, <2>5 DEF Toggle
<1>3. ASSUME NEW n \in Nets, NEW f \in Flows, Level(f, n) PROVE Keeps
    <2>1. n \in Shown
        BY <1>3 DEF Level
    <2>2. PICK pc, mode, was, auto :
            flow' = [flow EXCEPT ![f] =
                       [Idle EXCEPT !.pc = pc, !.kind = "level", !.net = n, !.mode = mode,
                          !.was = was, !.auto = auto]]
        BY <1>3 DEF Level, Begin
    <2>3. ASSUME NEW m \in Nets,
                 Concerns([Idle EXCEPT !.pc = pc, !.kind = "level", !.net = n, !.mode = mode,
                             !.was = was, !.auto = auto], m)
          PROVE  m \in Shown
        BY <2>1, <2>3, <1>1
    <2>4. CallsKeep
        BY <2>2, <2>3, CallKeeps
    <2> QED
        BY <1>3, <2>4 DEF Level
<1>4. ASSUME NEW n \in Nets, SetAuto(n) PROVE Keeps
    <2>1. RecordsKeep
        BY <1>4 DEF SetAuto, RecordsKeep, Known, TypeInv, TypeOK
    <2>2. n \in Shown /\ gui[n] \in Instance
        BY <1>4 DEF SetAuto, Shown, TypeInv, TypeOK
    <2>3. ASSUME NEW next \in BOOLEAN, gui' = [gui EXCEPT ![n].auto = next] PROVE ListKeeps
        <3>1. gui'[n] \in Instance
            BY <2>2, <2>3 DEF Instance, TypeInv, TypeOK
        <3> QED
            BY <2>2, <2>3, <3>1, InstanceAssumption DEF ListKeeps, Shown, TypeInv, TypeOK
    <2>4. (~gui[n].auto) \in BOOLEAN
        OBVIOUS
    <2> QED
        BY <1>4, <2>1, <2>3, <2>4 DEF SetAuto
<1>5. ASSUME NEW n \in Nets, addInstance(n) PROVE Keeps
    <2>1. ListKeeps
        BY <1>5, LinkAssumption, InstanceAssumption
           DEF addInstance, ListKeeps, Instance, Statuses, TypeInv, TypeOK
    <2> QED
        BY <1>5, <2>1 DEF addInstance
<1>6. ASSUME NEW n \in Nets, removeInstance(n) PROVE Keeps
    <2>1. ListKeeps /\ SentKeeps
        BY <1>6, LinkAssumption DEF removeInstance, ListKeeps, SentKeeps, TypeInv, TypeOK
    <2> QED
        BY <1>6, <2>1 DEF removeInstance
<1>7. ASSUME NEW f \in Flows, Resume(f) PROVE Keeps
    <2>1. CallsKeep
        BY <1>7, CallKeeps DEF Resume, Begin
    <2> QED
        BY <1>7, <2>1 DEF Resume
<1>8. ASSUME NEW f \in Flows, AutoStart(f) PROVE Keeps
    <2>1. PICK n \in queue :
            flow' = [flow EXCEPT ![f] =
                       [Idle EXCEPT !.pc = "local_start", !.kind = "auto", !.net = n]]
        BY <1>8 DEF AutoStart, Begin
    <2>2. ASSUME NEW m \in Nets,
                 Concerns([Idle EXCEPT !.pc = "local_start", !.kind = "auto", !.net = n], m)
          PROVE  m = n
        BY <2>2 DEF Concerns, Idle, NoAnswer
    <2>3. CallsKeep
        BY <2>1, <2>2, CallKeeps
    <2> QED
        BY <1>8, <2>3 DEF AutoStart
<1>9. ASSUME NEW m \in sent, Deliver(m) PROVE Keeps
    <2>1. RecordsKeep
        BY <1>9 DEF Deliver, RecordsKeep, Known, TypeInv, TypeOK
    <2>2. SentKeeps
        BY <1>9 DEF Deliver, SentKeeps
    <2> QED
        BY <1>9, <2>1, <2>2 DEF Deliver
<1>10. CASE AutoConnect
    BY <1>10 DEF AutoConnect
<1>11. CASE CoolsDown \/ SvcDies \/ SvcHangs
    BY <1>11 DEF CoolsDown, SvcDies, SvcHangs, RecordsKeep, Known
<1> QED
    BY <1>2, <1>3, <1>4, <1>5, <1>6, <1>7, <1>8, <1>9, <1>10, <1>11 DEF User

LEMMA StepKeeps == ASSUME TypeInv, ListInv, [Next]_vars PROVE Keeps
<1>1. CASE UNCHANGED vars
    BY <1>1, Unchanged DEF vars, service, Keeps
<1> QED
    BY <1>1, RefreshKeeps, RecoveryKeeps, ToggleKeeps, UserKeeps DEF Next, FlowStep

LEMMA ListInvInit == Init => ListInv
<1> SUFFICES ASSUME Init PROVE ListInv
    OBVIOUS
<1>1. ASSUME NEW n \in Nets, NEW f \in Flows PROVE ~Concerns(flow[f], n)
    <2>1. PICK g \in Flows : flow = [h \in Flows |-> IF h = g THEN Refresh(FALSE) ELSE Idle]
        BY DEF Init
    <2> QED
        BY <2>1, IdleConcernsNone
<1> QED
    BY <1>1 DEF Init, ListInv, Known

LEMMA ListInvStep == ASSUME TypeInv, ListInv, Keeps PROVE ListInv'
<1> USE DEF Keeps, ListInv
<1>1. ASSUME NEW n \in Nets, <<"remove", n>> \in sent' PROVE gui'[n] = Gone
    BY <1>1 DEF SentKeeps, ListKeeps
<1>2. ASSUME NEW n \in Nets, n \in Shown \cup Known \cup queue PROVE gui'[n] # None
    BY <1>2 DEF ListKeeps, Shown
<1>3. ASSUME NEW n \in Nets, NEW f \in Flows, Concerns(flow[f], n) PROVE gui'[n] # None
    BY <1>3 DEF ListKeeps
<1>4. ASSUME NEW n \in Known' PROVE gui'[n] # None
    BY <1>2, <1>3, <1>4 DEF RecordsKeep, Known, Concerns
<1>5. ASSUME NEW n \in queue' PROVE gui'[n] # None
    BY <1>2, <1>5 DEF TypeInv, TypeOK, Shown
<1>6. ASSUME NEW n \in Nets, NEW f \in Flows, Concerns(flow'[f], n) PROVE gui'[n] # None
    BY <1>2, <1>3, <1>6 DEF CallsKeep
<1> QED
    BY <1>1, <1>4, <1>5, <1>6 DEF Concerns

LEMMA ListInvAlways == Spec => [](TypeInv /\ ListInv)
BY TypeInit, TypeStep, ListInvInit, StepKeeps, ListInvStep, PTL DEF Spec

\* A network that was removed never comes back into the list, whatever answer
\* is still on its way and however long the service keeps it.
THEOREM RemovedStaysRemovedAlways == Spec => RemovedStaysRemoved
<1>1. TypeInv /\ ListInv /\ [Next]_vars => [\A n \in Nets : gui[n] = Gone => gui'[n] = Gone]_vars
    BY StepKeeps DEF Keeps, ListKeeps
<1> QED
    BY <1>1, ListInvAlways, PTL DEF Spec, RemovedStaysRemoved

\* The service is never told to remove a network that is in the list.
THEOREM CleanupSparesShownAlways == Spec => []CleanupSparesShown
<1>1. TypeInv /\ ListInv => CleanupSparesShown
    BY DEF ListInv, CleanupSparesShown, Shown
<1> QED
    BY <1>1, ListInvAlways, PTL
=============================================================================
