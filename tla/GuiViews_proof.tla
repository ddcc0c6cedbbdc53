--------------------------- MODULE GuiViews_proof ---------------------------
(***************************************************************************)
(* What the panels and views show and send, for any number of networks,    *)
(* updates, polls and fields, and what the pool of RPC endpoints behind    *)
(* them keeps, for any number of portals and calls; and, for the runs that *)
(* explore these parts and the configurations, the types of them all.      *)
(***************************************************************************)
EXTENDS MCPanels, ConfigTab_proof, TomlText_proof

(***************************************************************************)
(* Traffic totals.  What a running network's total may still grow by, with *)
(* the answers on their way, is bounded by what the network has carried.   *)
(***************************************************************************)

\* A total and the counter it was made from; one is never there without the
\* other.
Total(n) == IF trafficTotals[n] = NoValue THEN 0 ELSE trafficTotals[n]
\* What the answer a adds, if it is recorded next.
Adds(a, n) ==
    IF trafficTotals[n] = NoValue THEN a
    ELSE Growth(a, trafficTotals[n], lastPeerCounters[n])
\* The same for an answer after it.
After(c, a) == IF c >= a THEN c - a ELSE c

TrafficInv ==
    /\ running \subseteq ViewNets
    /\ counter \in [ViewNets -> Nat] /\ carried \in [ViewNets -> Nat]
    /\ trafficTotals \in Totals /\ lastPeerCounters \in Totals
    /\ \A n \in ViewNets : trafficTotals[n] = NoValue <=> lastPeerCounters[n] = NoValue
    /\ polls \subseteq [alive : BOOLEAN, ans : Totals]
    /\ \A p, q \in polls : p.alive /\ q.alive => p = q
    /\ \A n \in running : Total(n) + Adds(counter[n], n) <= carried[n]
    /\ \A p \in polls : p.alive =>
         \A n \in ViewNets : p.ans[n] # NoValue =>
           /\ n \in running
           /\ Total(n) + Adds(p.ans[n], n) + After(counter[n], p.ans[n]) <= carried[n]

LEMMA TotalsAreBounded == TrafficInv => TotalsBounded
BY ViewAssumption DEF TrafficInv, TotalsBounded, Total, Adds, Growth, Totals

LEMMA TrafficInit == ViewInit => TrafficInv
BY ViewAssumption DEF ViewInit, TrafficInv, Unknown, Totals, Total, Adds

LEMMA NoneAlive ==
    ASSUME TrafficInv
    PROVE  /\ \A p \in Dead(polls) : ~p.alive
           /\ Dead(polls) \subseteq [alive : BOOLEAN, ans : Totals]
BY DEF Dead, TrafficInv

LEMMA TrafficStarts ==
    ASSUME TrafficInv, NEW n \in ViewNets, NetworkStarts(n) \/ NetworkStops(n)
    PROVE  TrafficInv'
<1>1. polls' = Dead(polls) /\ running' \subseteq running \cup {n} /\ clearInstanceTraffic(n)
    BY DEF NetworkStarts, NetworkStops
<1>2. counter' \in [ViewNets -> Nat] /\ carried' \in [ViewNets -> Nat]
    BY DEF NetworkStarts, NetworkStops, TrafficInv
<1>3. \A m \in ViewNets \ {n} : UNCHANGED <<counter[m], carried[m]>>
    BY DEF NetworkStarts, NetworkStops, TrafficInv
<1>4. n \in running' => counter'[n] = 0
    BY DEF NetworkStarts, NetworkStops, TrafficInv
<1>5. trafficTotals' \in Totals /\ lastPeerCounters' \in Totals
    BY <1>1 DEF clearInstanceTraffic, TrafficInv, Totals
<1>6. \A m \in running' : (Total(m) + Adds(counter[m], m) <= carried[m])'
    <2> SUFFICES ASSUME NEW m \in running' PROVE (Total(m) + Adds(counter[m], m) <= carried[m])'
        OBVIOUS
    <2>1. CASE m = n
        <3>1. trafficTotals'[n] = NoValue
            BY <1>1 DEF clearInstanceTraffic, TrafficInv, Totals
        <3> QED
            BY <1>2, <1>4, <2>1, <3>1 DEF Total, Adds
    <2>2. CASE m # n
        BY <1>1, <1>3, <2>2 DEF clearInstanceTraffic, Total, Adds, Growth, TrafficInv, Totals
    <2> QED
        BY <2>1, <2>2
<1>7. \A m \in ViewNets : trafficTotals'[m] = NoValue <=> lastPeerCounters'[m] = NoValue
    BY <1>1 DEF clearInstanceTraffic, TrafficInv, Totals
<1>8. running' \subseteq ViewNets
    BY <1>1 DEF TrafficInv
<1> QED
    BY <1>1, <1>2, <1>5, <1>6, <1>7, <1>8, NoneAlive DEF TrafficInv

LEMMA TrafficCarry ==
    ASSUME TrafficInv, NEW n \in ViewNets, Carry(n) \/ Reconnect(n)
    PROVE  TrafficInv'
BY ViewAssumption
   DEF TrafficInv, Carry, Reconnect, Totals, Total, Adds, Growth, After

LEMMA TrafficAsk ==
    ASSUME TrafficInv, AskStatus PROVE TrafficInv'
<1>1. PICK ans \in Counters :
        /\ \A n \in ViewNets :
             ans[n] \in IF n \in running THEN {counter[n], NoValue} ELSE {NoValue}
        /\ polls' = polls \cup {[alive |-> TRUE, ans |-> ans]}
    BY DEF AskStatus
<1>2. ans \in Totals /\ \A p \in polls : ~p.alive
    BY ViewAssumption DEF AskStatus, AnyAlive, Counters, Totals
<1>3. UNCHANGED <<running, counter, carried, trafficTotals, lastPeerCounters>>
    BY DEF AskStatus
<1>4. ASSUME NEW n \in ViewNets, ans[n] # NoValue
      PROVE  /\ n \in running
             /\ Total(n) + Adds(ans[n], n) + After(counter[n], ans[n]) <= carried[n]
    <2>1. n \in running /\ ans[n] = counter[n] /\ counter[n] \in Nat
        BY <1>1, <1>4 DEF TrafficInv
    <2>2. After(counter[n], ans[n]) = 0
        BY <2>1 DEF After
    <2> QED
        BY <2>1, <2>2, ViewAssumption DEF TrafficInv, Total, Adds, Growth, Totals
<1> DEFINE asked == [alive |-> TRUE, ans |-> ans]
<1>5. asked \in [alive : BOOLEAN, ans : Totals] /\ asked.alive /\ asked.ans = ans
    BY <1>2
<1>6. polls' = polls \cup {asked} /\ \A p \in polls' : p.alive => p = asked
    BY <1>1, <1>2, <1>5
<1> HIDE DEF asked
<1>7. \A p \in polls' : p.alive =>
         \A n \in ViewNets : p.ans[n] # NoValue =>
           /\ n \in running
           /\ Total(n) + Adds(p.ans[n], n) + After(counter[n], p.ans[n]) <= carried[n]
    BY <1>4, <1>5, <1>6
<1>8. \A n \in ViewNets : \A a : Total(n)' = Total(n) /\ Adds(a, n)' = Adds(a, n)
    BY <1>3 DEF Total, Adds
<1> QED
    BY <1>3, <1>5, <1>6, <1>7, <1>8 DEF TrafficInv, Total, Adds

LEMMA TrafficRecord ==
    ASSUME TrafficInv, NEW p \in polls, Record(p) PROVE TrafficInv'
<1>1. CASE ~p.alive
    BY <1>1 DEF TrafficInv, Record, Total, Adds
<1>2. CASE p.alive
    <2>1. Recorded(p.ans) /\ p.ans \in Totals /\ UNCHANGED <<running, counter, carried>>
        BY <1>2 DEF Record, TrafficInv
    <2>2. polls' \subseteq polls /\ \A q \in polls' : ~q.alive
        BY <1>2 DEF Record, TrafficInv
    <2>3. ASSUME NEW n \in ViewNets, p.ans[n] = NoValue
          PROVE  UNCHANGED <<trafficTotals[n], lastPeerCounters[n]>>
        BY <2>1, <2>3 DEF Recorded
    <2>4. ASSUME NEW n \in ViewNets, p.ans[n] # NoValue
          PROVE  /\ trafficTotals'[n] = Total(n) + Adds(p.ans[n], n)
                 /\ trafficTotals'[n] \in Nat
                 /\ lastPeerCounters'[n] = p.ans[n] /\ p.ans[n] \in Nat
        BY <2>1, <2>4, ViewAssumption DEF Recorded, Total, Adds, Growth, Totals, TrafficInv
    <2>5. trafficTotals' \in Totals /\ lastPeerCounters' \in Totals
        BY <2>1, <2>3, <2>4 DEF Recorded, Totals, TrafficInv
    <2>6. ASSUME NEW n \in ViewNets
          PROVE  trafficTotals'[n] = NoValue <=> lastPeerCounters'[n] = NoValue
        BY <2>3, <2>4, ViewAssumption DEF TrafficInv
    <2>7. ASSUME NEW n \in running
          PROVE  (Total(n) + Adds(counter[n], n) <= carried[n])'
        <3>1. n \in ViewNets /\ counter[n] \in Nat
            BY DEF TrafficInv
        <3>2. CASE p.ans[n] = NoValue
            BY <2>1, <2>3, <3>1, <3>2 DEF TrafficInv, Total, Adds
        <3>3. CASE p.ans[n] # NoValue
            <4>1. Total(n)' + Adds(counter[n], n)'
                    = Total(n) + Adds(p.ans[n], n) + After(counter[n], p.ans[n])
                BY <2>1, <2>4, <3>1, <3>3, ViewAssumption DEF Total, Adds, Growth, After
            <4> QED
                BY <1>2, <2>1, <3>1, <3>3, <4>1 DEF TrafficInv
        <3> QED
            BY <3>2, <3>3
    <2> QED
        BY <2>1, <2>2, <2>5, <2>6, <2>7 DEF TrafficInv
<1> QED
    BY <1>1, <1>2

LEMMA TrafficStep == ASSUME TrafficInv, [ViewNext]_viewVars PROVE TrafficInv'
<1>1. CASE UNCHANGED traffic /\ UNCHANGED running
    BY <1>1 DEF traffic, TrafficInv, Total, Adds
<1>2. CASE LogsNext
    BY <1>1, <1>2 DEF LogsNext, SelectNetwork, WriteLine, AskLogs, ShowLogs, clearNetworkLogs
<1>3. CASE Rerender
    BY <1>3, NoneAlive DEF Rerender, TrafficInv, Total, Adds
<1> QED
    BY <1>1, <1>2, <1>3, TrafficStarts, TrafficCarry, TrafficAsk, TrafficRecord
       DEF ViewNext, TrafficNext, viewVars

\* The total of a network never exceeds what it has carried since it was
\* started, for any number of networks and polls: the answers may be as old
\* as they like, and counters may begin anew at any time (useTraffic).
THEOREM TotalsBoundedAlways == ViewSpec => []TotalsBounded
BY TotalsAreBounded, TrafficInit, TrafficStep, PTL DEF ViewSpec

(***************************************************************************)
(* The log view.  An answer that still counts is one for the network that  *)
(* is selected, and that network runs.                                     *)
(***************************************************************************)

LogInv ==
    /\ running \subseteq ViewNets /\ sel \in ViewNets /\ source \in ViewNets
    /\ buffer \in [ViewNets -> SUBSET Lines]
    /\ networkLogs \subseteq Lines /\ cleared \subseteq Lines
    /\ logPolls \subseteq [alive : BOOLEAN, net : ViewNets, lines : SUBSET Lines]
    /\ carried \in [ViewNets -> 0..MaxBytes]
    /\ \A p \in logPolls : p.alive => p.net = sel /\ sel \in running

LogsStep == networkLogs' # networkLogs /\ networkLogs' # {} => source' = sel /\ sel \in running

LEMMA LogInvInit == ViewInit => LogInv
BY ViewAssumption DEF ViewInit, LogInv

\* An effect that starts anew leaves no answer that counts; one that goes on
\* looks at the same network, running as before.
LEMMA ReselectLogs ==
    ASSUME LogInv, NEW n \in ViewNets, NEW runs, Reselect(n, runs)
    PROVE  /\ sel' = n /\ networkLogs' \in {networkLogs, {}}
           /\ logPolls' \subseteq [alive : BOOLEAN, net : ViewNets, lines : SUBSET Lines]
           /\ \A p \in logPolls' : p.alive => p.net = n /\ n \in runs
<1>1. CASE logPolls' = logPolls /\ n = sel /\ (n \in runs <=> n \in running)
    BY <1>1 DEF Reselect, LogInv
<1>2. CASE logPolls' = Dead(logPolls)
    <2>1. /\ \A p \in Dead(logPolls) : ~p.alive
          /\ Dead(logPolls) \subseteq [alive : BOOLEAN, net : ViewNets, lines : SUBSET Lines]
        BY DEF Dead, LogInv
    <2> QED
        BY <1>2, <2>1 DEF Reselect
<1> QED
    BY <1>1, <1>2 DEF Reselect

LEMMA LogInvNext == LogInv /\ [ViewNext]_viewVars => LogInv' /\ LogsStep
<1> SUFFICES ASSUME LogInv, [ViewNext]_viewVars PROVE LogInv' /\ LogsStep
    OBVIOUS
<1> USE ViewAssumption
<1>1. CASE UNCHANGED viewVars
    BY <1>1 DEF viewVars, traffic, logs, LogInv, LogsStep
<1>2. ASSUME NEW n \in ViewNets, NetworkStarts(n) \/ NetworkStops(n)
      PROVE  LogInv' /\ LogsStep
    <2>1. /\ Reselect(sel, running') /\ running' \subseteq ViewNets
          /\ carried' \in [ViewNets -> 0..MaxBytes]
          /\ UNCHANGED <<buffer, source, cleared>>
        BY <1>2 DEF NetworkStarts, NetworkStops, LogInv
    <2> QED
        BY <2>1, ReselectLogs DEF LogInv, LogsStep
<1>3. ASSUME NEW n \in ViewNets, SelectNetwork(n) PROVE LogInv' /\ LogsStep
    <2>1. Reselect(n, running) /\ UNCHANGED <<running, carried, buffer, source, cleared>>
        BY <1>3 DEF SelectNetwork, traffic
    <2> QED
        BY <2>1, ReselectLogs DEF LogInv, LogsStep
<1>4. ASSUME NEW n \in ViewNets, NEW l \in Lines, WriteLine(n, l) PROVE LogInv' /\ LogsStep
    BY <1>4 DEF WriteLine, traffic, LogInv, LogsStep
<1>5. CASE AskLogs
    <2> DEFINE asked == [alive |-> TRUE, net |-> sel, lines |-> buffer[sel]]
    <2>1. /\ asked \in [alive : BOOLEAN, net : ViewNets, lines : SUBSET Lines]
          /\ asked.net = sel
        BY DEF LogInv
    <2>2. /\ logPolls' = logPolls \cup {asked} /\ sel \in running
          /\ UNCHANGED <<running, sel, carried, buffer, networkLogs, source, cleared>>
        BY <1>5 DEF AskLogs, traffic
    <2> HIDE DEF asked
    <2> QED
        BY <2>1, <2>2 DEF LogInv, LogsStep
<1>6. CASE clearNetworkLogs
    BY <1>6 DEF clearNetworkLogs, Clearing, traffic, LogInv, LogsStep
<1>7. ASSUME NEW p \in logPolls, ShowLogs(p) PROVE LogInv' /\ LogsStep
    <2>1. p.net \in ViewNets /\ p.lines \subseteq Lines
        BY DEF LogInv
    <2>2. p.alive => p.net = sel /\ sel \in running
        BY DEF LogInv
    <2> QED
        BY <1>7, <2>1, <2>2 DEF ShowLogs, traffic, LogInv, LogsStep
<1>8. ASSUME NEW n \in ViewNets, Carry(n) \/ Reconnect(n) PROVE LogInv' /\ LogsStep
    <2>1. carried' \in [ViewNets -> 0..MaxBytes] /\ UNCHANGED <<running, sel, logs>>
        BY <1>8 DEF Carry, Reconnect, LogInv
    <2> QED
        BY <2>1 DEF logs, LogInv, LogsStep
<1>9. ASSUME NEW p, Rerender \/ AskStatus \/ Record(p) PROVE LogInv' /\ LogsStep
    BY <1>9 DEF Rerender, AskStatus, Record, logs, LogInv, LogsStep
<1>10. CASE ViewNext
    BY <1>2, <1>3, <1>4, <1>5, <1>6, <1>7, <1>8, <1>9, <1>10
    DEF ViewNext, TrafficNext, LogsNext
<1> QED
    BY <1>1, <1>10

\* Lines that appear in the window are those of the selected network, and it
\* runs: no late answer replaces them, for any number of networks and polls.
THEOREM LogsOfSelectedAlways == ViewSpec => LogsOfSelected
<1>1. LogInv /\ [ViewNext]_viewVars => [LogsStep]_viewVars
    BY LogInvNext
<1>2. ViewSpec => [][LogsStep]_viewVars
    BY <1>1, LogInvInit, LogInvNext, PTL DEF ViewSpec
<1> QED
    BY <1>2 DEF LogsOfSelected, LogsStep

\* What the views hold and what is on its way to them keep their types.
THEOREM ViewTypeCorrect == ViewSpec => []ViewTypeOK
<1>1. TrafficInv /\ LogInv => ViewTypeOK
    BY DEF TrafficInv, LogInv, ViewTypeOK
<1> QED
    BY <1>1, TrafficInit, TrafficStep, LogInvInit, LogInvNext, PTL DEF ViewSpec

(***************************************************************************)
(* The editor of a remote configuration.                                   *)
(***************************************************************************)

Loads == [mount : Nat, from : RemotePorts, pc : {"probe", "load"},
          value : RemoteConfigs \cup {Blank}]
Patches == [mount : Nat, at : RemotePorts, touched : SUBSET Fields,
            pc : {"sent", "done", "error"},
            values : UNION {[S -> Values] : S \in SUBSET Fields}]

\* What differs from the snapshot was edited since it was loaded, and what a
\* patch sends was edited before it was sent.
EditInv ==
    /\ remote \in RemoteConfigs /\ port \in RemotePorts /\ mount \in Nat
    /\ edit \in RemoteConfigs \cup {Blank} /\ snapshot \in RemoteConfigs \cup {Blank}
    /\ touched \subseteq Fields
    /\ \A f \in Fields : edit[f] # snapshot[f] => f \in touched
    /\ loads \subseteq Loads
    /\ patches \subseteq Patches /\ \A p \in patches : DOMAIN p.values \subseteq p.touched
    /\ rename.pc = "trying" => rename.name \in Values
    /\ rename \in [pc : {"idle", "trying", "failed"}, tried : SUBSET RemotePorts,
                   name : Values \cup {Blank}]

LEMMA EditInit == RemoteInit => EditInv
BY RemoteAssumption DEF RemoteInit, EditInv, NoRename

LEMMA EditMounts ==
    ASSUME EditInv, NEW p \in RemotePorts, Mount(p), UNCHANGED <<remote, patches, rename>>
    PROVE  EditInv'
<1>1. discoverAndLoad(mount', p) \in Loads
    BY DEF EditInv, Mount, discoverAndLoad, Loads
<1> QED
    BY <1>1 DEF EditInv, Mount

LEMMA EditLoads ==
    ASSUME EditInv, NEW l \in loads, Probe(l) \/ ReadConfig(l) \/ Loaded(l)
    PROVE  EditInv'
<1>1. l \in Loads /\ [l EXCEPT !.pc = "load"] \in Loads
      /\ [l EXCEPT !.value = remote] \in Loads
    BY DEF EditInv, Loads
<1>2. CASE Probe(l)
    <2>1. ASSUME NEW p \in RemotePorts, Mount(p) PROVE EditInv'
        BY <1>2, <2>1, EditMounts DEF Probe
    <2>2. ASSUME UNCHANGED <<mount, port, edit, snapshot, touched>>, loads' \subseteq Loads
          PROVE  EditInv'
        BY <1>2, <2>2 DEF Probe, EditInv
    <2> QED
        BY <1>1, <1>2, <2>1, <2>2 DEF Probe, LoadFails, editor, EditInv
<1>3. CASE ReadConfig(l)
    BY <1>1, <1>3 DEF ReadConfig, LoadFails, editor, EditInv
<1>4. CASE Loaded(l)
    <2>1. l.value \in RemoteConfigs \cup {Blank}
        BY <1>1 DEF Loads
    <2> QED
        BY <1>4, <2>1 DEF Loaded, EditInv
<1> QED
    BY <1>2, <1>3, <1>4

LEMMA EditSaves ==
    ASSUME EditInv, Save \/ \E p \in patches : Apply(p) \/ SaveEnds(p)
    PROVE  EditInv'
<1>1. CASE Save
    <2> DEFINE changed == {g \in Fields : edit[g] # snapshot[g]}
               sent == [mount |-> mount, at |-> port, touched |-> touched, pc |-> "sent",
                       values |-> [f \in changed |-> edit[f]]]
    <2>1. [f \in changed |-> edit[f]] \in [changed -> Values] /\ changed \in SUBSET Fields
        BY <1>1 DEF Save, EditInv, RemoteConfigs
    <2>2. touched \subseteq Fields /\ port \in RemotePorts /\ mount \in Nat
          /\ changed \subseteq touched
        BY <1>1 DEF Save, EditInv
    <2>3. [f \in changed |-> edit[f]] \in UNION {[S -> Values] : S \in SUBSET Fields}
        BY <2>1
    <2>4. sent \in Patches
        <3> HIDE DEF changed
        <3> QED
            BY <2>2, <2>3 DEF Patches
    <2>5. DOMAIN sent.values \subseteq sent.touched
        BY <2>2
    <2>6. patches' = patches \cup {sent} /\ UNCHANGED <<remote, mount, port, edit,
                                                       snapshot, touched, loads, rename>>
        BY <1>1 DEF Save
    <2> HIDE DEF sent
    <2> QED
        BY <2>4, <2>5, <2>6 DEF EditInv
<1>2. ASSUME NEW p \in patches, Apply(p) PROVE EditInv'
    <2>1. p \in Patches /\ DOMAIN p.values \subseteq p.touched
        BY DEF EditInv
    <2>2. \A pc \in {"done", "error"} :
            LET q == [p EXCEPT !.pc = pc]
            IN q \in Patches /\ DOMAIN q.values \subseteq q.touched
        BY <2>1 DEF Patches
    <2>3. Patched(p.values) \in RemoteConfigs
        BY <2>1 DEF Patched, Patches, RemoteConfigs, EditInv
    <2> QED
        BY <1>2, <2>2, <2>3 DEF Apply, editor, EditInv
<1>3. ASSUME NEW p \in patches, SaveEnds(p) PROVE EditInv'
    BY <1>3 DEF SaveEnds, EditInv
<1> QED
    BY <1>1, <1>2, <1>3

LEMMA EditRenames ==
    ASSUME EditInv, RenameNext
    PROVE  EditInv'
<1>1. ASSUME NEW p \in RemotePorts, probeAndPatch(p) PROVE EditInv'
    BY <1>1, RemoteAssumption DEF probeAndPatch, EditInv, editor, RemoteConfigs, NoRename
<1>2. ASSUME NEW v \in Values, submitRename(v) PROVE EditInv'
    BY <1>2 DEF submitRename, EditInv, editor, NoRename
<1>3. CASE RenameGivesUp
    BY <1>3 DEF RenameGivesUp, EditInv, editor
<1> QED
    BY <1>1, <1>2, <1>3 DEF RenameNext

LEMMA EditStep == ASSUME EditInv, [RemoteNext]_remoteVars PROVE EditInv'
<1>1. CASE UNCHANGED remoteVars
    BY <1>1 DEF remoteVars, editor, EditInv
<1>2. ASSUME NEW p \in RemotePorts, OpenAt(p) PROVE EditInv'
    BY <1>2, EditMounts DEF OpenAt
<1>3. CASE Close
    BY <1>3 DEF Close, EditInv
<1>4. CASE Retry
    <2>1. discoverAndLoad(mount, port) \in Loads
        BY DEF EditInv, discoverAndLoad, Loads
    <2> QED
        BY <1>4, <2>1 DEF Retry, EditInv
<1>5. ASSUME NEW f \in Fields, NEW v \in Values, Edit(f, v) PROVE EditInv'
    <2>1. edit \in RemoteConfigs
        BY <1>5 DEF Edit, EditInv
    <2> QED
        BY <1>5, <2>1 DEF Edit, EditInv, RemoteConfigs
<1>6. ASSUME NEW f \in Fields, NEW v \in Values, ChangeRemote(f, v) PROVE EditInv'
    BY <1>6 DEF ChangeRemote, EditInv, editor, RemoteConfigs
<1> QED
    BY <1>1, <1>2, <1>3, <1>4, <1>5, <1>6, EditLoads, EditSaves, EditRenames
       DEF RemoteNext, EditorNext

\* A save changes nothing on the remote node but what the user has edited,
\* for any number of loads, saves and other editors (RemoteConfigDialog).
THEOREM SparesUneditedAlways == RemoteSpec => SparesUnedited
<1> DEFINE Spares == \A p \in patches \ patches' : \A f \in Fields :
                        remote'[f] # remote[f] => f \in p.touched
<1>1. ASSUME EditInv, RemoteNext PROVE Spares
    <2>1. CASE remote' = remote \/ patches' = patches
        BY <2>1
    <2>2. ASSUME NEW p \in patches, Apply(p) PROVE Spares
        <3>1. patches \ patches' \subseteq {p}
            BY <2>2 DEF Apply
        <3>2. \A f \in Fields : remote'[f] # remote[f] => f \in DOMAIN p.values
            BY <2>2 DEF Apply, Patched
        <3>3. DOMAIN p.values \subseteq p.touched
            BY <1>1, <2>2 DEF EditInv
        <3> QED
            BY <3>1, <3>2, <3>3
    <2>3. ASSUME NEW p \in patches, SaveEnds(p) PROVE remote' = remote
        BY <2>3 DEF SaveEnds
    <2>4. ASSUME NEW l \in loads, Probe(l) \/ ReadConfig(l) \/ Loaded(l)
          PROVE  remote' = remote
        BY <2>4 DEF Probe, ReadConfig, Loaded
    <2>5. CASE RenameNext
        BY <2>1, <2>5 DEF RenameNext, probeAndPatch, submitRename, RenameGivesUp
    <2>6. ASSUME NEW f \in Fields, NEW v \in Values, Edit(f, v) \/ ChangeRemote(f, v)
          PROVE  remote' = remote \/ patches' = patches
        BY <2>6 DEF Edit, ChangeRemote
    <2>7. CASE Close \/ Retry \/ Save \/ \E p \in RemotePorts : OpenAt(p)
        BY <2>1, <2>7 DEF Close, Retry, Save, OpenAt
    <2> QED
        BY <1>1, <2>1, <2>2, <2>3, <2>4, <2>5, <2>6, <2>7 DEF RemoteNext, EditorNext
<1>2. EditInv /\ [RemoteNext]_remoteVars => [Spares]_remoteVars
    BY <1>1
<1> QED
    BY <1>2, EditInit, EditStep, PTL DEF RemoteSpec, SparesUnedited

\* What the editor shows and how its loads and its renaming stand.  The
\* edited values and their snapshot are only there together.
EditRest ==
    /\ open \in BOOLEAN /\ failed \in BOOLEAN
    /\ phase \in {"discover", "load", "ready", "saving"}
    /\ edit = Blank <=> snapshot = Blank
    /\ \A l \in loads : l.mount <= mount

LEMMA EditRestMounts ==
    ASSUME EditInv, EditRest, NEW p \in RemotePorts, Mount(p)
    PROVE  EditRest'
<1>1. mount' = mount + 1 /\ mount \in Nat
    BY DEF Mount, EditInv
<1>2. \A l \in loads' : l.mount <= mount'
    <2> SUFFICES ASSUME NEW l \in loads' PROVE l.mount <= mount'
        OBVIOUS
    <2>1. CASE l \in loads
        BY <1>1, <2>1 DEF EditInv, EditRest, Loads
    <2>2. CASE l = discoverAndLoad(mount', p)
        BY <1>1, <2>2 DEF discoverAndLoad
    <2> QED
        BY <2>1, <2>2 DEF Mount
<1> QED
    BY <1>2 DEF Mount, EditRest

LEMMA EditRestLoads ==
    ASSUME EditInv, EditRest, NEW l \in loads, Probe(l) \/ ReadConfig(l) \/ Loaded(l)
    PROVE  EditRest'
<1>1. /\ l \in Loads /\ l.mount <= mount
      /\ [l EXCEPT !.pc = "load"].mount = l.mount
      /\ [l EXCEPT !.value = remote].mount = l.mount
    BY DEF EditInv, EditRest, Loads
<1>2. ASSUME NEW p \in RemotePorts, Mount(p) PROVE EditRest'
    BY <1>2, EditRestMounts
<1>3. ASSUME UNCHANGED <<mount, open, edit, snapshot>>,
             failed' \in BOOLEAN, phase' \in {"discover", "load", "ready", "saving"},
             \A k \in loads' : k.mount <= mount
      PROVE  EditRest'
    BY <1>3 DEF EditRest
<1>4. CASE Probe(l)
    BY <1>1, <1>2, <1>3, <1>4 DEF Probe, LoadFails, editor, EditRest
<1>5. CASE ReadConfig(l)
    BY <1>1, <1>3, <1>5 DEF ReadConfig, LoadFails, editor, EditRest
<1>6. CASE Loaded(l)
    BY <1>1, <1>6 DEF Loaded, EditRest
<1> QED
    BY <1>4, <1>5, <1>6

LEMMA EditRestStep ==
    ASSUME EditInv, EditRest, [RemoteNext]_remoteVars
    PROVE  EditRest'
<1>1. CASE UNCHANGED remoteVars
    BY <1>1 DEF remoteVars, editor, EditRest
<1>2. ASSUME NEW p \in RemotePorts, OpenAt(p) PROVE EditRest'
    BY <1>2, EditRestMounts DEF OpenAt
<1>3. CASE Close \/ Save
    BY <1>3 DEF Close, Save, EditRest
<1>4. CASE Retry
    <2>1. mount <= mount /\ discoverAndLoad(mount, port).mount = mount
        BY DEF EditInv, discoverAndLoad
    <2> QED
        BY <1>4, <2>1 DEF Retry, EditRest
<1>5. ASSUME NEW f \in Fields, NEW v \in Values, Edit(f, v) PROVE EditRest'
    <2>1. edit' \in RemoteConfigs /\ edit # Blank
        BY <1>5 DEF Edit, EditInv, RemoteConfigs
    <2>2. edit' # Blank
        BY <2>1, RemoteAssumption DEF RemoteConfigs
    <2> QED
        BY <1>5, <2>1, <2>2 DEF Edit, EditRest
<1>6. ASSUME NEW f \in Fields, NEW v \in Values, ChangeRemote(f, v) PROVE EditRest'
    BY <1>6 DEF ChangeRemote, EditRest, editor
<1>7. ASSUME NEW p \in patches, Apply(p) \/ SaveEnds(p) PROVE EditRest'
    BY <1>7 DEF Apply, SaveEnds, EditRest, editor
<1>8. CASE RenameNext
    BY <1>8 DEF RenameNext, probeAndPatch, submitRename, RenameGivesUp, EditRest, editor
<1> QED
    BY <1>1, <1>2, <1>3, <1>4, <1>5, <1>6, <1>7, <1>8, EditRestLoads
       DEF RemoteNext, EditorNext

\* The editor of a remote configuration and the renaming keep their types,
\* for any number of mounts, loads and saves (RemoteConfigDialog, PeersTab).
THEOREM RemoteTypeCorrect == RemoteSpec => []RemoteTypeOK
<1>1. RemoteInit => EditRest
    BY DEF RemoteInit, EditRest
<1>2. EditInv /\ EditRest => RemoteTypeOK
    BY DEF EditInv, EditRest, RemoteTypeOK, Loads
<1> QED
    BY <1>1, <1>2, EditInit, EditStep, EditRestStep, PTL DEF RemoteSpec

(***************************************************************************)
(* The update panel.  Three facts together give its word: a task that      *)
(* says completed was, the poll's answer is about the task the panel       *)
(* holds, and a window outside service mode has nothing to poll, as one    *)
(* in service mode has no mail.                                            *)
(***************************************************************************)

Calls == [pc : {"idle", "confirm", "sent"}, ans : {"none", "error", "queued"},
          task : Tasks \cup {NoTask}]
TaskPhases == {"none", "lost"} \cup WorkPhases \cup KERNEL_TERMINAL_PHASES
Letters == [phase : {"ok", "error"} \cup WorkPhases \cup KERNEL_TERMINAL_PHASES,
            call : 0..Clicks]
\* What may be in the mail, when these updates have been completed.
Truthful(done) == {m \in Letters : m.phase = "completed" => NoTask \in done}

PollInv ==
    /\ panel.task \in Tasks \cup {NoTask}
    /\ poll.pc # "off" => panel.task \in Tasks
    /\ poll.pc = "got" /\ poll.ans = "completed" => panel.task \in finished
TaskInv ==
    /\ task \in [Tasks -> TaskPhases]
    /\ \A t \in Tasks : task[t] = "completed" => t \in finished
MailInv ==
    /\ local \in [pc : {"off", "staging", "installing"}, call : 0..Clicks]
    /\ mail \in Seq(Truthful(finished))
    /\ mode => mail = <<>> /\ local.pc = "off"
    /\ ~mode => panel.task = NoTask /\ poll.pc = "off"
PanelInv ==
    /\ CompletedIsTrue /\ PollInv /\ TaskInv /\ MailInv
    /\ call \in [1..Clicks -> Calls]

LEMMA PanelStart == ASSUME PanelInit PROVE PanelInv
<1>1. TaskInv /\ call \in [1..Clicks -> Calls]
    BY DEF PanelInit, TaskInv, TaskPhases, Calls
<1>2. CompletedIsTrue /\ PollInv /\ MailInv
    BY PanelAssumption DEF PanelInit, CompletedIsTrue, PollInv, MailInv, NoPoll
<1> QED
    BY <1>1, <1>2 DEF PanelInv

\* What is put on the panel is true, if it is when it says completed.
LEMMA PutTrue ==
    ASSUME NEW ph, NEW t \in Tasks \cup {NoTask}, Put(ph, t),
           ph = "completed" => t \in finished'
    PROVE  CompletedIsTrue' /\ PollInv' /\ (t = NoTask => panel'.task = NoTask /\ poll'.pc = "off")
BY DEF Put, CompletedIsTrue, PollInv, NoPoll, NextPoll

LEMMA PanelClicks ==
    ASSUME PanelInv, NEW c \in 1..Clicks, Switch(c) \/ Confirm(c)
    PROVE  PanelInv'
<1>1. \A pc \in {"confirm", "sent", "idle"} :
        [call EXCEPT ![c].pc = pc] \in [1..Clicks -> Calls]
    BY DEF PanelInv, Calls
<1>2. CASE UNCHANGED <<panel, poll>>
    BY <1>1, <1>2 DEF PanelInv, Switch, Confirm, CompletedIsTrue, PollInv, TaskInv, MailInv,
       server, machine
<1>3. CASE Put("checking", NoTask) /\ Confirm(c)
    <2>1. CompletedIsTrue' /\ PollInv' /\ panel'.task = NoTask /\ poll'.pc = "off"
        BY <1>3, PutTrue
    <2> QED
        BY <1>1, <1>3, <2>1 DEF PanelInv, Confirm, TaskInv, MailInv, server, machine
<1> QED
    BY <1>2, <1>3 DEF Switch, Confirm

LEMMA PanelCalls ==
    ASSUME PanelInv, NEW c \in 1..Clicks, UpdateRequest(c) \/ (UpdateAnswer(c) /\ mode)
    PROVE  PanelInv'
<1>1. CASE UpdateRequest(c)
    <2>1. UNCHANGED <<mode, panel, poll, local, mail, finished>>
        BY <1>1 DEF UpdateRequest, machine
    <2>2. CompletedIsTrue' /\ PollInv' /\ MailInv'
        BY <2>1 DEF PanelInv, CompletedIsTrue, PollInv, MailInv
    <2>3. TaskInv'
        BY <1>1, <2>1 DEF UpdateRequest, PanelInv, TaskInv, TaskPhases, WorkPhases
    <2>4. [call EXCEPT ![c].ans = "error"] \in [1..Clicks -> Calls]
        BY DEF PanelInv, Calls
    <2>5. \A t \in Tasks :
            [call EXCEPT ![c].ans = "queued", ![c].task = t] \in [1..Clicks -> Calls]
        BY DEF PanelInv, Calls
    <2> QED
        BY <1>1, <2>2, <2>3, <2>4, <2>5 DEF UpdateRequest, PanelInv
<1>2. CASE UpdateAnswer(c) /\ mode
    <2>1. call[c].ans \in {"none", "error", "queued"} /\ call[c].task \in Tasks \cup {NoTask}
          /\ panel.task \in Tasks \cup {NoTask}
        BY DEF PanelInv, Calls, PollInv
    <2>2. CompletedIsTrue' /\ PollInv'
        BY <1>2, <2>1, PutTrue DEF UpdateAnswer
    <2>3. [call EXCEPT ![c] = [pc |-> "idle", ans |-> "none", task |-> NoTask]]
            \in [1..Clicks -> Calls]
        BY DEF PanelInv, Calls
    <2> QED
        BY <1>2, <2>2, <2>3 DEF UpdateAnswer, PanelInv, TaskInv, MailInv, server, machine
<1> QED
    BY <1>1, <1>2

LEMMA PanelPolls ==
    ASSUME PanelInv, PollRequest \/ PollAnswer
    PROVE  PanelInv'
<1>1. mode
    BY DEF PanelInv, MailInv, PollRequest, PollAnswer
<1>2. UNCHANGED <<mode, call, task, local, mail, finished>>
    BY DEF PollRequest, PollAnswer, server, machine
<1>3. TaskInv' /\ MailInv' /\ call' \in [1..Clicks -> Calls]
    BY <1>1, <1>2 DEF PanelInv, TaskInv, MailInv
<1>4. CASE PollRequest
    BY <1>2, <1>3, <1>4 DEF PollRequest, PanelInv, CompletedIsTrue, PollInv, TaskInv
<1>5. CASE PollAnswer /\ UNCHANGED panel
    BY <1>2, <1>3, <1>5 DEF PollAnswer, PanelInv, CompletedIsTrue, PollInv, NextPoll, Put, NoPoll
<1>6. CASE PollAnswer /\ Put(ShownPhase(poll.ans), panel.task)
    <2>1. ShownPhase(poll.ans) = "completed" => poll.ans = "completed"
        BY DEF ShownPhase, KERNEL_TERMINAL_PHASES
    <2>2. CompletedIsTrue' /\ PollInv'
        BY <1>2, <1>6, <2>1, PutTrue DEF PanelInv, PollInv, PollAnswer
    <2> QED
        BY <1>3, <2>2 DEF PanelInv
<1> QED
    BY <1>4, <1>5, <1>6 DEF PollAnswer

LEMMA PanelCancels ==
    ASSUME PanelInv, cancelKernelUpdate \/ CancelStep
    PROVE  PanelInv'
<1>1. UNCHANGED <<mode, call, local, mail, finished>>
    BY DEF cancelKernelUpdate, CancelStep, CancelService, CancelLocal, server, machine
<1>2. TaskInv'
    BY <1>1 DEF cancelKernelUpdate, CancelStep, CancelService, CancelLocal, server,
       PanelInv, TaskInv, TaskPhases, KERNEL_TERMINAL_PHASES
<1>3. CASE CancelLocal
    <2>1. CompletedIsTrue' /\ PollInv' /\ panel'.task = NoTask /\ poll'.pc = "off"
        BY <1>3, PutTrue DEF CancelLocal
    <2> QED
        BY <1>1, <1>2, <2>1 DEF PanelInv, MailInv
<1>4. CASE UNCHANGED <<panel, poll>>
    BY <1>1, <1>2, <1>4 DEF PanelInv, CompletedIsTrue, PollInv, MailInv
<1> QED
    BY <1>3, <1>4 DEF cancelKernelUpdate, CancelStep, CancelService

LEMMA PanelTasks ==
    ASSUME PanelInv, ServerStep
    PROVE  PanelInv'
<1>1. UNCHANGED <<mode, panel, call, poll, local, mail>> /\ finished \subseteq finished'
      /\ finished' \subseteq finished \cup Tasks
    BY DEF ServerStep, ThreadWorks, ThreadEnds, ServiceRestarts, machine
<1>2. TaskInv'
    <2>1. ASSUME NEW t \in Tasks, ThreadWorks(t) PROVE TaskInv'
        BY <2>1 DEF ThreadWorks, PanelInv, TaskInv, TaskPhases, WorkPhases
    <2>2. ASSUME NEW t \in Tasks, ThreadEnds(t) PROVE TaskInv'
        BY <2>2 DEF ThreadEnds, PanelInv, TaskInv, TaskPhases
    <2>3. CASE ServiceRestarts
        BY <2>3 DEF ServiceRestarts, PanelInv, TaskInv, TaskPhases
    <2> QED
        BY <2>1, <2>2, <2>3 DEF ServerStep
<1>3. CompletedIsTrue' /\ PollInv'
    BY <1>1 DEF PanelInv, CompletedIsTrue, PollInv
<1>4. NoTask \in finished' <=> NoTask \in finished
    BY <1>1, PanelAssumption
<1>5. MailInv'
    BY <1>1, <1>4 DEF PanelInv, MailInv, Truthful
<1> QED
    BY <1>1, <1>2, <1>3, <1>5 DEF PanelInv

\* Mail stays truthful when more updates are completed.
LEMMA MailGrows ==
    ASSUME NEW more, finished \subseteq more, mail \in Seq(Truthful(finished))
    PROVE  mail \in Seq(Truthful(more))
<1>1. Truthful(finished) \subseteq Truthful(more)
    BY DEF Truthful
<1> QED
    BY <1>1

LEMMA MailExtends ==
    ASSUME NEW S, NEW s \in Seq(S), NEW a \in S, NEW b \in S, NEW c \in S
    PROVE  Append(s, a) \in Seq(S) /\ s \o <<a, b>> \in Seq(S) /\ s \o <<a, b, c>> \in Seq(S)
<1>1. <<a, b>> \in Seq(S) /\ <<a, b, c>> \in Seq(S)
    OBVIOUS
<1> QED
    BY <1>1, ConcatProperties, AppendProperties

LEMMA PanelLocal ==
    ASSUME PanelInv, LocalUpdate \/ \E c \in 1..Clicks : LocalCall(c)
    PROVE  PanelInv'
<1>1. UNCHANGED <<mode, panel, poll, task>> /\ finished \subseteq finished'
    BY DEF LocalUpdate, LocalStaged, LocalInstalled, LocalCall, server
<1>2. ~mode
    BY DEF PanelInv, MailInv, LocalUpdate, LocalStaged, LocalInstalled, LocalCall
<1>3. CompletedIsTrue' /\ PollInv' /\ TaskInv'
    BY <1>1 DEF PanelInv, CompletedIsTrue, PollInv, TaskInv
<1>4. \A more : finished \subseteq more => mail \in Seq(Truthful(more))
    BY MailGrows DEF PanelInv, MailInv
<1>5. \A ph \in {"checking", "working", "failed", "cancelled"} :
        Event(ph) \in Truthful(finished)
    BY PanelAssumption DEF Event, Truthful, Letters, WorkPhases, KERNEL_TERMINAL_PHASES
<1>6. \A c \in 0..Clicks, ok \in BOOLEAN : Reply(c, ok) \in Truthful(finished)
    BY DEF Reply, Truthful, Letters
<1>7. local.call \in 0..Clicks
    BY DEF PanelInv, MailInv
<1>8. ASSUME NEW c \in 1..Clicks, LocalCall(c) PROVE PanelInv'
    <2>1. c \in 0..Clicks
        OBVIOUS
    <2>2. [call EXCEPT ![c].ans = "queued"] \in [1..Clicks -> Calls]
        BY DEF PanelInv, Calls
    <2>3. Event("checking") \in Truthful(finished) /\ Reply(c, FALSE) \in Truthful(finished)
        BY <1>5, <1>6, <2>1
    <2>4. finished' = finished
        BY <1>8 DEF LocalCall, server
    <2>5. mail' \in Seq(Truthful(finished'))
        <3>1. mail' = Append(mail, Event("checking")) \/ mail' = Append(mail, Reply(c, FALSE))
            BY <1>8 DEF LocalCall
        <3>2. mail \in Seq(Truthful(finished))
            BY DEF PanelInv, MailInv
        <3> QED
            BY <2>3, <2>4, <3>1, <3>2, MailExtends
    <2>6. local' \in [pc : {"off", "staging", "installing"}, call : 0..Clicks]
        <3>1. local' = [pc |-> "staging", call |-> c] \/ local' = local
            BY <1>8 DEF LocalCall, machine
        <3> QED
            BY <2>1, <3>1 DEF PanelInv, MailInv
    <2> QED
        BY <1>1, <1>2, <1>3, <1>8, <2>2, <2>5, <2>6 DEF LocalCall, PanelInv, MailInv
<1>9. CASE LocalStaged
    <2>1. finished' = finished /\ call' = call
        BY <1>9 DEF LocalStaged, server
    <2>2. mail \in Seq(Truthful(finished')) /\ Reply(local.call, FALSE) \in Truthful(finished')
          /\ Event("working") \in Truthful(finished')
          /\ \A ph \in {"failed", "cancelled"} : Event(ph) \in Truthful(finished')
        BY <1>4, <1>5, <1>6, <1>7, <2>1
    <2>4. mail' \in Seq(Truthful(finished'))
        <3>1. \/ mail' = Append(mail, Event("working"))
              \/ \E ph \in {"failed", "cancelled"} :
                    mail' = mail \o <<Event(ph), Reply(local.call, FALSE)>>
            BY <1>9 DEF LocalStaged
        <3> QED
            BY <2>2, <3>1, MailExtends
    <2>3. local' \in [pc : {"off", "staging", "installing"}, call : 0..Clicks]
        BY <1>9 DEF LocalStaged, PanelInv, MailInv
    <2> QED
        BY <1>1, <1>2, <1>3, <2>1, <2>3, <2>4 DEF PanelInv, MailInv
<1>10. CASE LocalInstalled
    <2>1. call' = call /\ local' \in [pc : {"off", "staging", "installing"}, call : 0..Clicks]
        BY <1>10 DEF LocalInstalled, PanelInv, MailInv
    <2>2. mail \in Seq(Truthful(finished'))
        BY <1>1, <1>4
    <2>3. /\ Event("failed") \in Truthful(finished')
          /\ Reply(local.call, TRUE) \in Truthful(finished')
          /\ Reply(local.call, FALSE) \in Truthful(finished')
          /\ NoTask \in finished' => Event("completed") \in Truthful(finished')
        BY <1>7, PanelAssumption DEF Event, Reply, Truthful, Letters, KERNEL_TERMINAL_PHASES
    <2>4. mail' \in Seq(Truthful(finished'))
        <3> DEFINE S == Truthful(finished')
        <3>1. CASE NoTask \notin finished'
            <4>1. \/ mail' = mail \o <<Event("failed"), Reply(local.call, FALSE)>>
                  \/ mail' = Append(mail, Reply(local.call, FALSE))
                BY <1>10, <3>1 DEF LocalInstalled
            <4> HIDE DEF S
            <4> QED
                BY <2>2, <2>3, <4>1, MailExtends
        <3>2. CASE NoTask \in finished'
            <4>1. \/ mail' = mail \o <<Event("failed"), Reply(local.call, FALSE)>>
                  \/ mail' = Append(mail, Reply(local.call, FALSE))
                  \/ mail' = mail \o <<Event("completed"), Reply(local.call, TRUE)>>
                  \/ mail' = mail \o <<Event("failed"), Event("completed"),
                                       Reply(local.call, TRUE)>>
                BY <1>10 DEF LocalInstalled
            <4> QED
                BY <2>2, <2>3, <3>2, <4>1, MailExtends
        <3> QED
            BY <3>1, <3>2
    <2> QED
        BY <1>1, <1>2, <1>3, <2>1, <2>4 DEF PanelInv, MailInv
<1> QED
    BY <1>8, <1>9, <1>10 DEF LocalUpdate

LEMMA PanelMail ==
    ASSUME PanelInv, Receive
    PROVE  PanelInv'
<1>1. UNCHANGED <<mode, task, local, finished>> /\ mail # <<>> /\ mail' = Tail(mail)
    BY DEF Receive, server, machine
<1>2. ~mode /\ panel.task = NoTask /\ poll.pc = "off"
    BY <1>1 DEF PanelInv, MailInv
<1>3. Head(mail) \in Truthful(finished) /\ mail' \in Seq(Truthful(finished))
    BY <1>1 DEF PanelInv, MailInv
<1>4. Head(mail).phase = "completed" => NoTask \in finished'
    BY <1>1, <1>3 DEF Truthful
<1>5. CompletedIsTrue' /\ PollInv' /\ panel'.task = NoTask /\ poll'.pc = "off"
    <2>1. CASE UNCHANGED <<panel, poll>>
        BY <1>1, <1>2, <2>1 DEF PanelInv, CompletedIsTrue, PollInv
    <2>2. CASE Put("failed", panel.task) \/ Put(Head(mail).phase, panel.task)
        BY <1>2, <1>4, <2>2, PutTrue
    <2> QED
        BY <2>1, <2>2 DEF Receive
<1>6. call' \in [1..Clicks -> Calls]
    <2>1. Head(mail).call \in 0..Clicks
        BY <1>3 DEF Truthful, Letters
    <2>2. [pc |-> "idle", ans |-> "none", task |-> NoTask] \in Calls
        BY DEF Calls
    <2> QED
        BY <2>1, <2>2 DEF Receive, PanelInv
<1>7. TaskInv'
    BY <1>1 DEF PanelInv, TaskInv
<1> QED
    BY <1>1, <1>2, <1>3, <1>5, <1>6, <1>7 DEF PanelInv, MailInv

LEMMA PanelStep == ASSUME PanelInv, [PanelNext]_panelVars PROVE PanelInv'
<1>1. CASE UNCHANGED panelVars
    BY <1>1 DEF panelVars, PanelInv, CompletedIsTrue, PollInv, TaskInv, MailInv
<1> QED
    BY <1>1, PanelClicks, PanelCalls, PanelPolls, PanelCancels, PanelTasks, PanelLocal,
       PanelMail DEF PanelNext, CallStep

\* The panel says completed only of an update that was completed, for any
\* number of clicks and tasks: no failed poll, late answer, cancelled or
\* refused update and no restart of the service makes it say so
\* (useKernelUpdate).
THEOREM CompletedIsTrueAlways == PanelSpec => []CompletedIsTrue
<1>1. PanelInit => PanelInv
    BY PanelStart
<1>2. PanelInv /\ [PanelNext]_panelVars => PanelInv'
    BY PanelStep
<1>3. PanelInv => CompletedIsTrue
    BY DEF PanelInv
<1> QED
    BY <1>1, <1>2, <1>3, PTL DEF PanelSpec

\* The types of what the invariant above leaves open.
Polls == [pc : {"off", "ask", "got"}, ans : Answers]
PanelRest ==
    /\ mode \in BOOLEAN /\ lock \in BOOLEAN /\ flag \in BOOLEAN /\ crashed \in BOOLEAN
    /\ panel \in PanelStates /\ cancelling \in {"idle", "service", "local"} /\ poll \in Polls
    /\ thread \subseteq Tasks /\ finished \subseteq Tasks \cup {NoTask}

LEMMA PollTypes ==
    NoPoll \in Polls /\ NextPoll \in Polls
BY DEF NoPoll, NextPoll, Polls, Answers

LEMMA PutTyped ==
    ASSUME NEW ph \in {"none"} \cup WorkPhases \cup KERNEL_TERMINAL_PHASES,
           NEW t \in Tasks \cup {NoTask}, Put(ph, t)
    PROVE  panel' \in PanelStates /\ poll' \in Polls
BY PollTypes DEF Put, PanelStates

LEMMA PanelRestInit == ASSUME PanelInit PROVE PanelRest
BY PollTypes DEF PanelInit, PanelRest, PanelStates

LEMMA PanelRestCalls ==
    ASSUME PanelInv, PanelRest, NEW c \in 1..Clicks, Switch(c) \/ CallStep(c)
    PROVE  PanelRest'
<1>1. /\ "checking" \in WorkPhases /\ "queued" \in WorkPhases
      /\ "failed" \in KERNEL_TERMINAL_PHASES
    BY DEF WorkPhases, KERNEL_TERMINAL_PHASES
<1>2. CASE Switch(c)
    BY <1>2 DEF Switch, PanelRest, server, machine
<1>3. CASE Confirm(c)
    <2>1. panel' \in PanelStates /\ poll' \in Polls
        BY <1>1, <1>3, PutTyped DEF Confirm, PanelRest
    <2> QED
        BY <1>3, <2>1 DEF Confirm, PanelRest, server, machine
<1>4. CASE UpdateRequest(c)
    BY <1>4 DEF UpdateRequest, PanelRest, machine
<1>5. CASE UpdateAnswer(c)
    <2>1. panel.task \in Tasks \cup {NoTask}
        BY DEF PanelRest, PanelStates
    <2>2. call[c].ans # "none" /\ call[c].ans \in {"none", "error", "queued"}
          /\ call[c].task \in Tasks \cup {NoTask}
        BY <1>5 DEF UpdateAnswer, PanelInv, Calls
    <2>3. Put("failed", panel.task) \/ Put("queued", call[c].task)
        BY <1>5, <2>2 DEF UpdateAnswer
    <2>4. panel' \in PanelStates /\ poll' \in Polls
        BY <1>1, <2>1, <2>2, <2>3, PutTyped
    <2> QED
        BY <1>5, <2>4 DEF UpdateAnswer, PanelRest, server, machine
<1>6. CASE LocalCall(c)
    BY <1>6 DEF LocalCall, PanelRest, server, machine
<1> QED
    BY <1>2, <1>3, <1>4, <1>5, <1>6 DEF CallStep

LEMMA PanelRestPolls ==
    ASSUME PanelInv, PanelRest, PollRequest \/ PollAnswer
    PROVE  PanelRest'
<1>1. CASE PollRequest
    <2>1. task[panel.task] \in TaskPhases
        BY <1>1 DEF PollRequest, PanelInv, PollInv, TaskInv
    <2>2. "error" \in Answers /\ (task[panel.task] # "lost" => task[panel.task] \in Answers)
        BY <2>1 DEF TaskPhases, Answers
    <2>3. poll' \in Polls
        BY <1>1, <2>2 DEF PollRequest, Polls
    <2> QED
        BY <1>1, <2>3 DEF PollRequest, PanelRest, server, machine
<1>2. CASE PollAnswer
    <2>1. panel.task \in Tasks \cup {NoTask} /\ poll.ans \in Answers
        BY DEF PanelRest, PanelStates, Polls
    <2>2. poll.ans # "error" =>
            ShownPhase(poll.ans) \in {"none"} \cup WorkPhases \cup KERNEL_TERMINAL_PHASES
        BY <2>1 DEF ShownPhase, Answers, KERNEL_TERMINAL_PHASES
    <2>3. panel' \in PanelStates /\ poll' \in Polls
        BY <1>2, <2>1, <2>2, PutTyped, PollTypes DEF PollAnswer, PanelRest
    <2> QED
        BY <1>2, <2>3 DEF PollAnswer, PanelRest, server, machine
<1> QED
    BY <1>1, <1>2

LEMMA PanelRestCancels ==
    ASSUME PanelRest, cancelKernelUpdate \/ CancelStep
    PROVE  PanelRest'
<1>1. CASE cancelKernelUpdate
    BY <1>1 DEF cancelKernelUpdate, PanelRest, server, machine
<1>2. CASE CancelService
    BY <1>2 DEF CancelService, PanelRest, machine
<1>3. CASE CancelLocal
    <2>1. "cancelled" \in KERNEL_TERMINAL_PHASES
        BY DEF KERNEL_TERMINAL_PHASES
    <2>2. panel' \in PanelStates /\ poll' \in Polls
        BY <1>3, <2>1, PutTyped DEF CancelLocal
    <2> QED
        BY <1>3, <2>2 DEF CancelLocal, PanelRest, server
<1> QED
    BY <1>1, <1>2, <1>3 DEF CancelStep

LEMMA PanelRestRuns ==
    ASSUME PanelInv, PanelRest, ServerStep \/ LocalUpdate \/ Receive
    PROVE  PanelRest'
<1>1. CASE ServerStep
    <2>1. /\ thread' \subseteq Tasks /\ lock' \in BOOLEAN /\ crashed' \in BOOLEAN
          /\ finished' \subseteq Tasks \cup {NoTask}
        BY <1>1 DEF ServerStep, ThreadWorks, ThreadEnds, ServiceRestarts, PanelRest
    <2> QED
        BY <1>1, <2>1 DEF ServerStep, PanelRest, machine
<1>2. CASE LocalStaged
    BY <1>2 DEF LocalStaged, PanelRest, server
<1>3. CASE LocalInstalled
    <2>1. finished' \subseteq Tasks \cup {NoTask}
        BY <1>3 DEF LocalInstalled, PanelRest
    <2> QED
        BY <1>3, <2>1 DEF LocalInstalled, PanelRest
<1>4. CASE Receive
    <2>1. panel.task \in Tasks \cup {NoTask} /\ "failed" \in KERNEL_TERMINAL_PHASES
        BY DEF PanelRest, PanelStates, KERNEL_TERMINAL_PHASES
    <2>2. Head(mail) \in Letters
        BY <1>4 DEF Receive, PanelInv, MailInv, Truthful
    <2>3. Head(mail).phase \in {"ok", "error"} \cup WorkPhases \cup KERNEL_TERMINAL_PHASES
        BY <2>2 DEF Letters
    <2>4. panel' \in PanelStates /\ poll' \in Polls
        BY <1>4, <2>1, <2>3, PutTyped DEF Receive, PanelRest
    <2> QED
        BY <1>4, <2>4 DEF Receive, PanelRest, server, machine
<1> QED
    BY <1>1, <1>2, <1>3, <1>4 DEF LocalUpdate

\* The panel, its calls and polls, and what the service and the GUI process
\* hold of an update keep their types.
THEOREM PanelTypeCorrect == PanelSpec => []PanelTypeOK
<1> DEFINE Both == PanelInv /\ PanelRest
<1>1. PanelInit => Both
    BY PanelStart, PanelRestInit
<1>2. Both /\ [PanelNext]_panelVars => Both'
    <2> SUFFICES ASSUME Both, [PanelNext]_panelVars
                 PROVE  PanelRest'
        BY PanelStep
    <2>1. CASE UNCHANGED panelVars
        BY <2>1 DEF panelVars, PanelRest
    <2> QED
        BY <2>1, PanelRestCalls, PanelRestPolls, PanelRestCancels, PanelRestRuns DEF PanelNext
<1>3. Both => PanelTypeOK
    <2>1. ASSUME PanelInv PROVE mail \in Seq(Letters)
        BY <2>1 DEF PanelInv, MailInv, Truthful
    <2> QED
        BY <2>1 DEF PanelInv, PanelRest, TaskInv, MailInv, PanelTypeOK, Polls, Calls, TaskPhases,
           Letters
<1> QED
    BY <1>1, <1>2, <1>3, PTL DEF PanelSpec

(***************************************************************************)
(* The pool of RPC endpoints.                                              *)
(***************************************************************************)

Numbers == 1..(Cardinality(Callers) + 1)

PoolCalls ==
    [pc : {"idle", "total", "own", "client", "calling", "failed", "answer"},
     op : {"status", "discover", "load"}, at : Portals \cup {NoCall.at},
     nth : Numbers \cup {0}, ans : {"none", "unavailable", "timeout", "busy"}]

\* Every dropped endpoint is still kept by a call, every call under way has
\* an endpoint, and the order has every key once.
PoolInv ==
    /\ clients \in [Portals -> Numbers \cup {0}]
    /\ order \in Seq(Portals) /\ IsInjective(order)
    /\ cooldown \subseteq Endpoints /\ dropping \subseteq LocalPortals
    /\ dropped \subseteq Endpoints \cap Used
    /\ rpc \in [Callers -> PoolCalls]
    /\ \A c \in Callers : rpc[c].pc # "idle" => rpc[c].at \in Portals /\ rpc[c].nth \in Numbers
    /\ DroppedStaysOut

USE PoolAssumption

LEMMA NumbersAreFinite ==
    /\ Cardinality(Callers) \in Nat
    /\ IsFiniteSet(Numbers) /\ Cardinality(Numbers) = Cardinality(Callers) + 1
    /\ Numbers \subseteq Nat /\ 0 \notin Numbers
<1>1. Cardinality(Callers) \in Nat
    BY FS_CardinalityType
<1> DEFINE n == Cardinality(Callers)
<1> HIDE DEF n
<1>2. n \in Nat /\ Numbers = 1..(n + 1)
    BY <1>1 DEF Numbers, n
<1>3. IsFiniteSet(1..(n + 1)) /\ Cardinality(1..(n + 1)) = n + 1
    BY <1>2, FS_Interval
<1> QED
    BY <1>1, <1>2, <1>3 DEF n

\* There is a number left for an endpoint: a caller keeps at most one of
\* them, and there is one more than there are callers.
LEMMA NewEndpointIsNew ==
    ASSUME PoolInv, NEW k \in Portals, clients[k] = 0
    PROVE  NewEndpoint(k) \in Numbers /\ <<k, NewEndpoint(k)>> \notin Used
<1> SUFFICES \E i \in Numbers : <<k, i>> \notin Used
    BY DEF NewEndpoint, Numbers
<1> SUFFICES ASSUME \A i \in Numbers : <<k, i>> \in Used PROVE FALSE
    OBVIOUS
<1> DEFINE nths == {rpc[c].nth : c \in Callers}
           f == [c \in Callers |-> rpc[c].nth]
<1>1. \A i \in Numbers : \E c \in Callers : rpc[c].nth = i
    BY NumbersAreFinite DEF Used, endpoint
<1>2. f \in Surjection(Callers, nths)
    BY DEF Surjection
<1>3. IsFiniteSet(nths) /\ Cardinality(nths) <= Cardinality(Callers)
    <2> HIDE DEF f, nths
    <2> QED
        BY <1>2, FS_Surjection
<1>4. Numbers \subseteq nths
    BY <1>1
<1>5. Cardinality(Numbers) <= Cardinality(nths) /\ Cardinality(nths) \in Nat
    <2> HIDE DEF nths
    <2> QED
        BY <1>3, <1>4, FS_Subset, FS_CardinalityType
<1> HIDE DEF nths
<1> QED
    BY <1>3, <1>5, NumbersAreFinite

\* What endpoint_for leaves: an endpoint for its portal, a new one if there
\* was none, and a table that is within the limit unless the order has run
\* out.
LEMMA EndpointFor ==
    ASSUME PoolInv, NEW k \in Portals, endpoint_for(k)
    PROVE  /\ clients' \in [Portals -> Numbers \cup {0}] /\ clients'[k] \in Numbers
           /\ order' \in Seq(Portals) /\ IsInjective(order')
           /\ \A j \in Portals :
                clients'[j] \in {0, clients[j]} \/ <<j, clients'[j]>> \notin Used
           /\ \/ UNCHANGED <<clients, order>>
              \/ Cardinality(Cached') <= RPC_MAX_ENDPOINTS
              \/ ToSet(order') = {k}
<1>1. CASE clients[k] # 0
    BY <1>1, NumbersAreFinite DEF endpoint_for, PoolInv
<1>2. CASE clients[k] = 0
    <2> DEFINE gone == ToSet(SubSeq(order, 1, Evicted))
               left == SubSeq(order, Evicted + 1, Len(order))
    <2>1. /\ clients' = [j \in Portals |-> IF j = k THEN NewEndpoint(k)
                                           ELSE IF j \in gone THEN 0 ELSE clients[j]]
          /\ order' = IF k \in ToSet(left) THEN left ELSE Append(left, k)
        BY <1>2 DEF endpoint_for
    <2>2. NewEndpoint(k) \in Numbers /\ <<k, NewEndpoint(k)>> \notin Used
        BY <1>2, NewEndpointIsNew
    <2>3. /\ Evicted \in 0..Len(order)
          /\ Evicted = Len(order) \/ Cardinality(Cached \ gone) < RPC_MAX_ENDPOINTS
        <3> DEFINE cuts == {i \in 0..Len(order) :
                           i = Len(order)
                             \/ Cardinality(Cached \ ToSet(SubSeq(order, 1, i)))
                                  < RPC_MAX_ENDPOINTS}
        <3>1. Len(order) \in Nat
            BY LenProperties DEF PoolInv
        <3>2. cuts \in SUBSET Nat /\ Len(order) \in cuts
            BY <3>1
        <3>3. Min(cuts) \in cuts
            <4> HIDE DEF cuts
            <4> QED
                BY <3>2, MinNat
        <3>4. Evicted = Min(cuts)
            BY DEF Evicted, EvictedFor
        <3> QED
            BY <3>3, <3>4
    <2>4. /\ left \in Seq(Portals) /\ IsInjective(left)
          /\ ToSet(left) = ToSet(order) \ gone
        BY <2>3, CutElements DEF PoolInv
    <2> HIDE DEF gone, left
    <2>5. /\ order' \in Seq(Portals) /\ IsInjective(order')
          /\ ToSet(order') = ToSet(left) \cup {k}
        BY <2>1, <2>4, AppendElements
    <2>6. clients' \in [Portals -> Numbers \cup {0}] /\ clients'[k] \in Numbers
        BY <2>1, <2>2 DEF PoolInv
    <2>7. \A j \in Portals :
            clients'[j] \in {0, clients[j]} \/ <<j, clients'[j]>> \notin Used
        BY <2>1, <2>2
    <2>8. CASE Evicted = Len(order)
        <3>1. gone = ToSet(order)
            BY <2>8, SubSeqFull DEF PoolInv, gone
        <3> QED
            BY <2>4, <2>5, <2>6, <2>7, <3>1
    <2>9. CASE Cardinality(Cached \ gone) < RPC_MAX_ENDPOINTS
        <3> DEFINE kept == Cached \ gone
        <3>1. IsFiniteSet(kept) /\ Cardinality(kept) \in Nat
            BY FS_Subset, FS_CardinalityType DEF Cached
        <3>2. Cached' = kept \cup {k}
            BY <2>1, <2>2, NumbersAreFinite DEF Cached
        <3> HIDE DEF kept
        <3>3. Cardinality(kept \cup {k}) <= Cardinality(kept) + 1
            <4>1. Cardinality(kept \cup {k}) =
                    IF k \in kept THEN Cardinality(kept) ELSE Cardinality(kept) + 1
                BY <3>1, FS_AddElement
            <4> QED
                BY <3>1, <4>1
        <3>4. RPC_MAX_ENDPOINTS \in Nat
            OBVIOUS
        <3>5. Cardinality(Cached') \in Nat
            BY <3>1, <3>2, FS_AddElement, FS_CardinalityType
        <3>6. Cardinality(kept) < RPC_MAX_ENDPOINTS
            BY <2>9 DEF kept
        <3>7. Cardinality(Cached') <= RPC_MAX_ENDPOINTS
            BY <3>1, <3>2, <3>3, <3>4, <3>5, <3>6
        <3> QED
            BY <2>5, <2>6, <2>7, <3>7
    <2> QED
        BY <2>3, <2>8, <2>9
<1> QED
    BY <1>1, <1>2

\* A call that goes on keeps its endpoint.
LEMMA GoesOn ==
    ASSUME PoolInv, NEW c \in Callers, NEW pc, NEW ans, Goes(c, pc, ans),
           rpc[c].pc # "idle",
           pc \in {"own", "client", "calling", "failed", "answer"},
           ans \in {"none", "unavailable", "timeout", "busy"}
    PROVE  /\ rpc' \in [Callers -> PoolCalls]
           /\ \A d \in Callers : endpoint(d)' = endpoint(d)
           /\ \A d \in Callers :
                rpc'[d].pc # "idle" => rpc'[d].at \in Portals /\ rpc'[d].nth \in Numbers
<1>1. /\ \A d \in Callers \ {c} : rpc'[d] = rpc[d]
      /\ rpc'[c] = [rpc[c] EXCEPT !.pc = pc, !.ans = ans]
      /\ DOMAIN rpc' = Callers
      /\ rpc' = [d \in Callers |-> rpc'[d]]
    BY DEF Goes, PoolInv
<1>2. /\ rpc'[c] \in PoolCalls
      /\ rpc'[c].at = rpc[c].at /\ rpc'[c].nth = rpc[c].nth
    <2> DEFINE r == rpc[c]
    <2>1. r \in PoolCalls
        BY DEF PoolInv
    <2>2. rpc'[c] = [r EXCEPT !.pc = pc, !.ans = ans]
        BY <1>1
    <2> HIDE DEF r
    <2>3. rpc'[c] = [pc |-> pc, op |-> r.op, at |-> r.at, nth |-> r.nth, ans |-> ans]
        BY <2>1, <2>2 DEF PoolCalls
    <2> QED
        BY <2>1, <2>3 DEF PoolCalls, r
<1> QED
    BY <1>1, <1>2 DEF PoolInv, endpoint

\* A call that ends keeps none.
LEMMA CallIsOver ==
    ASSUME PoolInv, NEW c \in Callers, rpc' = [rpc EXCEPT ![c] = NoCall]
    PROVE  /\ rpc' \in [Callers -> PoolCalls]
           /\ \A d \in Callers :
                rpc'[d].pc # "idle" => rpc'[d].at \in Portals /\ rpc'[d].nth \in Numbers
BY DEF PoolInv, PoolCalls, NoCall

\* What every step must show of the endpoints that were dropped.
LEMMA DroppedGo ==
    ASSUME PoolInv,
           dropped' \subseteq dropped \cap Used',
           clients' \in [Portals -> Numbers \cup {0}],
           \A j \in Portals :
             clients'[j] \in {0, clients[j]} \/ <<j, clients'[j]>> \notin Used
    PROVE  dropped' \subseteq Endpoints \cap Used' /\ DroppedStaysOut'
BY NumbersAreFinite DEF PoolInv, DroppedStaysOut, Endpoints, Numbers

LEMMA BeginKeepsInv ==
    ASSUME PoolInv, NEW c \in Callers, NEW op \in {"status", "discover", "load"},
           NEW k \in Portals, Begin(c, op, k)
    PROVE  PoolInv'
<1>1. endpoint_for(k)
    BY DEF Begin
<1>2. /\ rpc' \in [Callers -> PoolCalls]
      /\ \A d \in Callers :
           rpc'[d].pc # "idle" => rpc'[d].at \in Portals /\ rpc'[d].nth \in Numbers
    BY <1>1, EndpointFor DEF Begin, PoolInv, PoolCalls
<1>3. cooldown' \subseteq Endpoints /\ dropping' \subseteq LocalPortals
    BY DEF Begin, Forget, PoolInv
<1>4. dropped' \subseteq Endpoints \cap Used' /\ DroppedStaysOut'
    BY <1>1, EndpointFor, DroppedGo DEF Begin, Forget
<1> QED
    BY <1>1, <1>2, <1>3, <1>4, EndpointFor DEF PoolInv

\* The table only loses endpoints in every other step.
LEMMA TableShrinks ==
    ASSUME PoolInv, NEW S \in SUBSET Portals,
           clients' = [k \in Portals |-> IF k \in S THEN 0 ELSE clients[k]]
    PROVE  /\ clients' \in [Portals -> Numbers \cup {0}]
           /\ Cached' \subseteq Cached
           /\ \A j \in Portals : clients'[j] \in {0, clients[j]}
BY DEF PoolInv, Cached

\* A step of a call that leaves the table alone.
LEMMA MovesKeepInv ==
    ASSUME PoolInv, NEW c \in Callers,
           \/ AcquireTotal(c) \/ AcquireOwn(c) \/ AcquireTimeout(c)
           \/ LockClient(c) \/ CallTimeout(c)
    PROVE  PoolInv'
<1>1. UNCHANGED <<clients, order, cooldown, dropping, dropped>>
    BY DEF AcquireTotal, AcquireOwn, AcquireTimeout, LockClient, CallTimeout
<1>2. PICK pc \in {"own", "client", "calling", "failed", "answer"},
           ans \in {"none", "busy", "timeout"} : Goes(c, pc, ans) /\ rpc[c].pc # "idle"
    BY DEF AcquireTotal, AcquireOwn, AcquireTimeout, LockClient, CallTimeout
<1>3. Used' = Used
    BY <1>1, <1>2, GoesOn DEF Used
<1> QED
    BY <1>1, <1>2, <1>3, GoesOn DEF PoolInv, DroppedStaysOut

LEMMA AnsweredKeepsInv ==
    ASSUME PoolInv, NEW c \in Callers, Answered(c)
    PROVE  PoolInv'
<1>1. /\ rpc' \in [Callers -> PoolCalls]
      /\ \A d \in Callers :
           rpc'[d].pc # "idle" => rpc'[d].at \in Portals /\ rpc'[d].nth \in Numbers
    BY GoesOn, CallIsOver DEF Answered
<1>2. UNCHANGED <<clients, order, dropping>> /\ Forget
    BY DEF Answered
<1>3. dropped' \subseteq Endpoints \cap Used' /\ DroppedStaysOut'
    BY <1>2, DroppedGo DEF Forget, PoolInv
<1> QED
    BY <1>1, <1>2, <1>3 DEF PoolInv, Forget

\* The failed call's own endpoint is dropped.  Its portal has none then, and
\* whatever other endpoint it had made is not among the dropped.
LEMMA DropFailedKeepsInv ==
    ASSUME PoolInv, NEW c \in Callers, DropFailed(c)
    PROVE  PoolInv'
<1>1. /\ rpc[c].pc = "failed" /\ Goes(c, "answer", rpc[c].ans)
      /\ rpc[c].at \in Portals /\ rpc[c].nth \in Numbers
      /\ rpc[c].ans \in {"none", "unavailable", "timeout", "busy"}
      /\ clients' = [clients EXCEPT ![rpc[c].at] = 0]
    BY DEF DropFailed, PoolInv, PoolCalls
<1>2. /\ rpc' \in [Callers -> PoolCalls]
      /\ \A d \in Callers :
           rpc'[d].pc # "idle" => rpc'[d].at \in Portals /\ rpc'[d].nth \in Numbers
    BY <1>1, GoesOn
<1>3. clients' \in [Portals -> Numbers \cup {0}]
    BY <1>1 DEF PoolInv
<1>4. endpoint(c) \in Endpoints
    BY <1>1 DEF endpoint, Endpoints, Numbers
<1>5. cooldown' \subseteq Endpoints /\ dropped' \subseteq Endpoints \cap Used'
    BY <1>4 DEF DropFailed, PoolInv
<1>6. ASSUME NEW k \in Portals PROVE <<k, clients'[k]>> \notin dropped'
    <2>1. CASE k = rpc[c].at
        BY <1>1, <1>5, <2>1, NumbersAreFinite DEF PoolInv, Endpoints, Numbers
    <2>2. CASE k # rpc[c].at
        BY <1>1, <2>2 DEF DropFailed, PoolInv, DroppedStaysOut, endpoint
    <2> QED
        BY <2>1, <2>2
<1>7. UNCHANGED <<order, dropping>>
    BY DEF DropFailed
<1> QED
    BY <1>2, <1>3, <1>5, <1>6, <1>7 DEF PoolInv, DroppedStaysOut

LEMMA AnswerKeepsInv ==
    ASSUME PoolInv, NEW c \in Callers, Answer(c)
    PROVE  PoolInv'
<1>1. /\ rpc' \in [Callers -> PoolCalls]
      /\ \A d \in Callers :
           rpc'[d].pc # "idle" => rpc'[d].at \in Portals /\ rpc'[d].nth \in Numbers
    BY CallIsOver DEF Answer
<1>2. rpc[c].at \in Portals /\ endpoint(c) \in Endpoints
    BY DEF Answer, PoolInv, endpoint, Endpoints, Numbers
<1>3. /\ clients' \in [Portals -> Numbers \cup {0}]
      /\ \A j \in Portals : clients'[j] \in {0, clients[j]}
    BY <1>2 DEF Answer, PoolInv
<1>4. cooldown' \subseteq Endpoints
    BY <1>2 DEF Answer, PoolInv
<1>5. dropped' \subseteq Endpoints \cap Used' /\ DroppedStaysOut'
    BY <1>3, DroppedGo DEF Answer
<1>6. UNCHANGED <<order, dropping>>
    BY DEF Answer
<1> QED
    BY <1>1, <1>3, <1>4, <1>5, <1>6 DEF PoolInv

LEMMA StoppedKeepsInv ==
    ASSUME PoolInv, NEW k \in Portals, drop_local_endpoint(k) \/ DropOrder(k)
    PROVE  PoolInv'
<1>1. CASE drop_local_endpoint(k)
    <2>1. /\ clients' \in [Portals -> Numbers \cup {0}]
          /\ \A j \in Portals : clients'[j] \in {0, clients[j]}
          /\ UNCHANGED <<order, rpc>> /\ Forget
          /\ dropping' \subseteq LocalPortals
        BY <1>1 DEF drop_local_endpoint, PoolInv
    <2>2. dropped' \subseteq Endpoints \cap Used' /\ DroppedStaysOut'
        BY <2>1, DroppedGo DEF Forget
    <2> QED
        BY <2>1, <2>2 DEF PoolInv, Forget
<1>2. CASE DropOrder(k)
    <2>1. order' \in Seq(Portals) /\ IsInjective(order')
        BY <1>2, RemoveFirstElements DEF DropOrder, PoolInv
    <2>2. Used' = Used
        BY <1>2 DEF DropOrder, Used, endpoint
    <2> QED
        BY <1>2, <2>1, <2>2 DEF DropOrder, PoolInv, DroppedStaysOut
<1> QED
    BY <1>1, <1>2

LEMMA PoolInvInit == PoolInit => PoolInv
<1> SUFFICES ASSUME PoolInit PROVE PoolInv
    OBVIOUS
<1>1. order \in Seq(Portals) /\ IsInjective(order)
    BY EmptySeq DEF PoolInit, IsInjective
<1> QED
    BY <1>1, NumbersAreFinite DEF PoolInit, PoolInv, PoolCalls, NoCall, DroppedStaysOut

LEMMA PoolInvNext == PoolInv /\ [PoolNext]_poolVars => PoolInv'
<1> SUFFICES ASSUME PoolInv, [PoolNext]_poolVars PROVE PoolInv'
    OBVIOUS
<1>1. CASE UNCHANGED poolVars
    BY <1>1 DEF poolVars, PoolInv, Used, endpoint, DroppedStaysOut
<1>2. ASSUME NEW e \in Endpoints, CooldownEnds(e) PROVE PoolInv'
    BY <1>2 DEF CooldownEnds, PoolInv, Used, endpoint, DroppedStaysOut
<1>3. CASE PoolNext
    BY <1>2, <1>3, BeginKeepsInv, MovesKeepInv, AnsweredKeepsInv, DropFailedKeepsInv,
       AnswerKeepsInv, StoppedKeepsInv DEF PoolNext, CallMoves
<1> QED
    BY <1>1, <1>3

\* No call gets an endpoint that a failed call has dropped: whatever calls
\* fail, whoever drops or makes endpoints between, for any number of portals
\* and callers.
THEOREM DroppedStaysOutAlways == PoolSpec => []DroppedStaysOut
<1>1. PoolInv => DroppedStaysOut
    BY DEF PoolInv
<1> QED
    BY <1>1, PoolInvInit, PoolInvNext, PTL DEF PoolSpec

\* The table, the order and the history of the pool keep their types: the
\* order names a portal once, and every number of an endpoint is one that
\* NewEndpoint can give.
THEOREM PoolTypeCorrect == PoolSpec => []PoolTypeOK
<1>1. PoolInv => PoolTypeOK
    <2> SUFFICES ASSUME PoolInv PROVE PoolTypeOK
        OBVIOUS
    <2>1. ToSet(order) \subseteq Portals
        BY LenProperties, ElementOfSeq DEF PoolInv, ToSet
    <2>2. Numbers \cup {0} = 0..(Cardinality(Callers) + 1)
        BY NumbersAreFinite DEF Numbers
    <2> QED
        BY <2>1, <2>2 DEF PoolInv, PoolTypeOK
<1> QED
    BY <1>1, PoolInvInit, PoolInvNext, PTL DEF PoolSpec

\* A step that adds nothing to the table or the order adds nothing to what
\* is over the limit.
LEMMA ShrinkingBounded ==
    ASSUME PoolInv, PoolBounded, Cached' \subseteq Cached, ToSet(order') \subseteq ToSet(order)
    PROVE  PoolBounded'
<1>1. IsFiniteSet(Cached)
    BY FS_Subset DEF Cached
<1>2. IsFiniteSet(Cached \cap ToSet(order))
    BY <1>1, FS_Subset
<1>3. /\ Cardinality(Cached) \in Nat /\ Cardinality(Cached') \in Nat
      /\ Cardinality(Cached') <= Cardinality(Cached)
    BY <1>1, FS_Subset, FS_CardinalityType
<1>4. Cached' \cap ToSet(order') \subseteq Cached \cap ToSet(order)
    OBVIOUS
<1>5. /\ Cardinality(Cached \cap ToSet(order)) \in Nat
      /\ Cardinality(Cached' \cap ToSet(order')) \in Nat
      /\ Cardinality(Cached' \cap ToSet(order')) <= Cardinality(Cached \cap ToSet(order))
    BY <1>2, <1>4, FS_Subset, FS_CardinalityType
<1>6. RPC_MAX_ENDPOINTS \in Nat
    OBVIOUS
<1> QED
    BY <1>3, <1>5, <1>6 DEF PoolBounded

\* The table keeps its limit but for endpoints that have lost their place in
\* the order: however networks are stopped between the two mutexes, past the
\* limit at most one endpoint can still be evicted.
THEOREM PoolBoundedAlways == PoolSpec => []PoolBounded
<1>1. PoolInit => PoolBounded
    <2> SUFFICES ASSUME PoolInit PROVE PoolBounded
        OBVIOUS
    <2>1. Cached = {} /\ 0 <= RPC_MAX_ENDPOINTS
        BY DEF PoolInit, Cached
    <2> QED
        BY <2>1, FS_EmptySet DEF PoolBounded
<1>2. PoolInv /\ PoolBounded /\ [PoolNext]_poolVars => PoolBounded'
    <2> SUFFICES ASSUME PoolInv, PoolBounded, [PoolNext]_poolVars PROVE PoolBounded'
        OBVIOUS
    <2>1. ASSUME NEW k \in Portals, endpoint_for(k) PROVE PoolBounded'
        <3>1. CASE UNCHANGED <<clients, order>>
            BY <3>1 DEF PoolBounded, Cached
        <3>2. CASE Cardinality(Cached') <= RPC_MAX_ENDPOINTS
            BY <3>2 DEF PoolBounded
        <3>3. CASE ToSet(order') = {k}
            <4>1. Cached' \cap ToSet(order') \in SUBSET {k}
                BY <3>3
            <4>2. IsFiniteSet({k}) /\ Cardinality({k}) = 1
                BY FS_Singleton
            <4>3. Cardinality(Cached' \cap ToSet(order')) <= 1
                BY <4>1, <4>2, FS_Subset
            <4> QED
                BY <4>3 DEF PoolBounded
        <3> QED
            BY <2>1, <3>1, <3>2, <3>3, EndpointFor
    <2>2. ASSUME UNCHANGED <<clients, order>> PROVE PoolBounded'
        BY <2>2 DEF PoolBounded, Cached
    <2>3. ASSUME NEW c \in Callers, DropFailed(c) \/ Answer(c) PROVE PoolBounded'
        <3>1. Cached' \subseteq Cached /\ order' = order
            BY <2>3 DEF DropFailed, Answer, Cached, PoolInv
        <3> QED
            BY <3>1, ShrinkingBounded
    <2>4. ASSUME NEW k \in Portals, drop_local_endpoint(k) PROVE PoolBounded'
        <3>1. Cached' \subseteq Cached /\ order' = order
            BY <2>4 DEF drop_local_endpoint, Cached, PoolInv
        <3> QED
            BY <3>1, ShrinkingBounded
    <2>5. ASSUME NEW k \in Portals, DropOrder(k) PROVE PoolBounded'
        <3>1. Cached' \subseteq Cached
            BY <2>5 DEF DropOrder, Cached
        <3>2. ToSet(order') \subseteq ToSet(order)
            BY <2>5, RemoveFirstElements DEF DropOrder, PoolInv
        <3> QED
            BY <3>1, <3>2, ShrinkingBounded
    <2>6. CASE UNCHANGED poolVars
        BY <2>2, <2>6 DEF poolVars
    <2>7. ASSUME NEW c \in Callers,
                 \/ AcquireTotal(c) \/ AcquireOwn(c) \/ AcquireTimeout(c)
                 \/ CallTimeout(c) \/ LockClient(c) \/ Answered(c)
          PROVE  PoolBounded'
        BY <2>2, <2>7 DEF AcquireTotal, AcquireOwn, AcquireTimeout, CallTimeout, LockClient,
           Answered
    <2>8. ASSUME NEW e \in Endpoints, CooldownEnds(e) PROVE PoolBounded'
        BY <2>2, <2>8 DEF CooldownEnds
    <2>9. CASE PoolNext
        BY <2>1, <2>3, <2>4, <2>5, <2>7, <2>8, <2>9 DEF PoolNext, CallMoves, Begin
    <2> QED
        BY <2>6, <2>9
<1> QED
    BY <1>1, <1>2, PoolInvInit, PoolInvNext, PTL DEF PoolSpec

(***************************************************************************)
(* The runs of the panels.                                                 *)
(***************************************************************************)

\* A run starts where the parts may start, and each of its steps is one of a
\* part or leaves it alone: what is proved of the parts holds in the runs.
LEMMA PartsKeepSpecs ==
    SafeSpec => PanelSpec /\ ViewSpec /\ RemoteSpec /\ PoolSpec
<1>1. MCInit => PanelInit /\ ViewInit /\ RemoteInit /\ PoolInit
    BY DEF MCInit, RemoteStart
<1>2. [MCNext]_vars => [PanelNext]_panelVars
    BY DEF MCNext, vars, UpdatePart
<1>3. [MCNext]_vars => [ViewNext]_viewVars
    BY DEF MCNext, vars, ViewPart, ViewNext
<1>4. [MCNext]_vars => [RemoteNext]_remoteVars
    BY DEF MCNext, vars, RemotePart, RemoteNext
<1>5. [MCNext]_vars => [PoolNext]_poolVars
    BY DEF MCNext, vars, PoolPart
<1> QED
    BY <1>1, <1>2, <1>3, <1>4, <1>5, PTL DEF SafeSpec, PanelSpec, ViewSpec, RemoteSpec, PoolSpec

\* The panel of an update, the traffic and log views and the pool of RPC
\* endpoints keep their types, whatever is explored (useKernelUpdate,
\* useTraffic, useLogs, remote_rpc.rs).
THEOREM PanelsTypeCorrect == SafeSpec => []PanelsTypeOK
BY PartsKeepSpecs, PanelTypeCorrect, ViewTypeCorrect, PoolTypeCorrect, PTL DEF PanelsTypeOK

\* The list of networks and a value's text may start as a run starts them.
LEMMA TabStarts == TabStart => TabInv /\ edits \in 0..MaxEdits
<1> SUFFICES ASSUME TabStart PROVE TabInv /\ edits \in 0..MaxEdits
    OBVIOUS
<1>1. n1 \in Ids /\ n2 \in Ids /\ n1 # n2 /\ MaxEdits \in Nat /\ 2 <= MaxEdits
    BY StartAssumption, TabAssumption
<1>2. \/ list = <<n1, n2>> /\ Shown = {n1, n2}
      \/ list = <<n1>> /\ Shown = {n1}
    BY DEF TabStart, Shown, ToSet
<1>3. ListOK
    <2>1. CASE list = <<n1, n2>>
        BY <1>1, <1>2, <2>1 DEF ListOK, IsInjective, TabStart
    <2>2. CASE list = <<n1>>
        BY <1>1, <1>2, <2>2 DEF ListOK, IsInjective, TabStart
    <2> QED
        BY <1>2, <2>1, <2>2
<1>4. inst = [m \in Networks |->
                IF m = n1 THEN NewNetwork(n1, 0, TRUE)
                ELSE IF m \in Shown THEN NewNetwork(m, 1, FALSE) ELSE Absent]
    BY DEF TabStart, Shown
<1>5. ASSUME NEW m \in Ids, NEW first \in BOOLEAN, NEW k
      PROVE  /\ NewNetwork(m, k, first).config \in Configurations
             /\ NewNetwork(m, k, first).config.id = m
             /\ NewNetwork(m, k, first).status = "stopped"
             /\ NewNetwork(m, k, first) =
                  [rpc |-> NewNetwork(m, k, first).rpc,
                   status |-> NewNetwork(m, k, first).status,
                   config |-> NewNetwork(m, k, first).config]
    <2>1. listenersForInstance(first) \in Listens
        BY DEF Listens, listenersForInstance
    <2>2. [defaultConfig(m) EXCEPT !.listen = listenersForInstance(first)] \in Configurations
        BY <2>1, DefaultIsConfig, ConfigChanges
    <2>3. [defaultConfig(m) EXCEPT !.listen = listenersForInstance(first)].id = m
        BY DEF defaultConfig
    <2> QED
        BY <2>2, <2>3 DEF NewNetwork
<1>6. ASSUME NEW n \in Shown
      PROVE  /\ inst[n] = [rpc |-> inst[n].rpc, status |-> inst[n].status, config |-> Config(n)]
             /\ inst[n].status = "stopped" /\ Config(n) \in Configurations /\ Config(n).id = n
    <2>1. n \in Ids /\ n \in Networks
        BY <1>1, <1>2 DEF Networks
    <2>2. \E first \in BOOLEAN, k \in {0, 1} : inst[n] = NewNetwork(n, k, first)
        BY <1>4, <2>1
    <2>3. PICK first \in BOOLEAN, k \in {0, 1} : inst[n] = NewNetwork(n, k, first)
        BY <2>2
    <2> QED
        BY <1>5, <2>1, <2>3 DEF Config
<1>7. InstOK
    <2>1. \A n \in Networks \ Shown : inst[n] = Absent
        BY <1>2, <1>4
    <2>2. inst = [n \in Networks |-> inst[n]]
        BY <1>4
    <2> QED
        BY <1>6, <2>1, <2>2 DEF InstOK
<1>8. NodeIdsDistinct
    BY <1>6 DEF NodeIdsDistinct
<1>9. ClickedOK /\ DraftOK /\ ClipboardOK
    BY DEF TabStart, ClickedOK, DraftOK, ClipboardOK
<1>10. edits \in 0..MaxEdits
    BY <1>1 DEF TabStart
<1> QED
    BY <1>3, <1>7, <1>8, <1>9, <1>10 DEF TabInv

\* The configurations of the networks, the one of a remote node and the text
\* of a value keep their types, whatever is explored: no field is left
\* without a value by a text that has no key for it (decodeTOML).
THEOREM ConfigsTypeCorrect == SafeSpec => []ConfigsTypeOK
<1> DEFINE TabTyped == TabInv /\ edits \in 0..MaxEdits
<1>1. MCInit => TabTyped /\ Scanned
    BY TabStarts, ScannedAtFirst DEF MCInit, TextStart
<1>2. [MCNext]_vars => [TabNext]_tabVars
    <2>1. ASSUME NEW v \in Domains["listen"], patchConfig("listen", v) PROVE ConfigEditor
        BY <2>1 DEF ConfigEditor, Domains
    <2>2. ASSUME NEW v \in Domains["dev"], patchConfig("dev", v) PROVE ConfigEditor
        BY <2>2 DEF ConfigEditor, Domains
    <2>3. TabPart => TabNext
        BY <2>1, <2>2 DEF TabPart, TextsNext, StartsNext, TabNext
    <2> QED
        BY <2>3 DEF MCNext, vars
<1>3. [MCNext]_vars => [TextNext]_textVars
    BY DEF MCNext, vars
<1>4. TabTyped /\ [TabNext]_tabVars => TabTyped'
    BY NextTabInv, EditsKept
<1>5. Scanned /\ [TextNext]_textVars => Scanned'
    BY ScannedKept
<1>6. TabTyped /\ Scanned => TabTypeOK /\ TextTypeOK
    BY TabTypes, ScannedMeans
<1> HIDE DEF TabTyped
<1>7. SafeSpec => [](TabTypeOK /\ TextTypeOK)
    BY <1>1, <1>2, <1>3, <1>4, <1>5, <1>6, PTL DEF SafeSpec
<1> QED
    BY <1>7, PartsKeepSpecs, RemoteTypeCorrect, PTL DEF ConfigsTypeOK
=============================================================================
