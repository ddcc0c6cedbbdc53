----------------------------- MODULE StatusView -----------------------------
(***************************************************************************)
(* What the GUI reads from running networks: the status poller of          *)
(* src/App.tsx, the traffic totals of src/hooks/useTraffic.ts and the log  *)
(* view of src/components/tabs/LogsTab.tsx.  Each poller is an effect: a   *)
(* change of what it looks at ends the old one, whose answers may still    *)
(* arrive, and starts a new one.                                           *)
(*                                                                         *)
(* A network has one peer here and one direction; a key of trafficTotals   *)
(* is then the network itself.                                             *)
(***************************************************************************)
EXTENDS Naturals, FiniteSets

CONSTANTS
    ViewNets,
    NoValue,
    MaxBytes,       \* bound on the bytes a network carries in one run
    MaxFlights,     \* bound on polls on the way
    Lines           \* log lines that may be written, each once

ASSUME ViewAssumption ==
    /\ MaxBytes \in Nat /\ MaxFlights \in Nat
    /\ NoValue \notin Nat /\ NoValue \notin ViewNets

VARIABLES
    running,        \* networks whose status is running
    counter,        \* the peer's counter in the core
    carried,        \* history: bytes since the network was started
    trafficTotals, lastPeerCounters,
    polls,          \* status polls on the way: alive, and their answers
    sel,            \* the selected network
    buffer,         \* the backend's log of each network
    networkLogs,    \* the lines shown
    source,         \* history: the network they are of
    logPolls,       \* log polls on the way
    cleared         \* history: lines cleared while their network was selected

traffic == <<counter, carried, trafficTotals, lastPeerCounters, polls>>
logs == <<buffer, networkLogs, source, logPolls, cleared>>
viewVars == <<running, sel, traffic, logs>>

Counters == [ViewNets -> 0..MaxBytes \cup {NoValue}]
Totals == [ViewNets -> Nat \cup {NoValue}]
Unknown == [n \in ViewNets |-> NoValue]
Written == UNION {buffer[n] : n \in ViewNets} \cup UNION {p.lines : p \in logPolls}
           \cup cleared \cup networkLogs

\* The effects' cleanup: what is on the way no longer counts.
Dead(flights) == {[p EXCEPT !.alive = FALSE] : p \in flights}
AnyAlive(flights) == \E p \in flights : p.alive

(***************************************************************************)
(* Networks and their cores.                                               *)
(***************************************************************************)

\* Nothing is known of its traffic any more.
clearInstanceTraffic(n) ==
    /\ trafficTotals' = [trafficTotals EXCEPT ![n] = NoValue]
    /\ lastPeerCounters' = [lastPeerCounters EXCEPT ![n] = NoValue]

\* The log view follows the selected network.  One that does not run has its
\* lines taken away, but not the backend's.
Reselect(n, runs) ==
    /\ sel' = n
    /\ logPolls' = IF n = sel /\ (n \in runs <=> n \in running) THEN logPolls
                   ELSE Dead(logPolls)
    /\ networkLogs' = IF n \in runs THEN networkLogs ELSE {}

\* A network is started: its traffic is cleared first, and its core counts
\* from zero.
NetworkStarts(n) ==
    /\ n \notin running
    /\ running' = running \cup {n}
    /\ counter' = [counter EXCEPT ![n] = 0]
    /\ carried' = [carried EXCEPT ![n] = 0]
    /\ clearInstanceTraffic(n)
    /\ polls' = Dead(polls)
    /\ Reselect(sel, running')
    /\ UNCHANGED <<buffer, source, cleared>>

\* A network leaves the status running: the effect of useTraffic clears its
\* traffic.
NetworkStops(n) ==
    /\ n \in running
    /\ running' = running \ {n}
    /\ clearInstanceTraffic(n)
    /\ polls' = Dead(polls)
    /\ Reselect(sel, running')
    /\ UNCHANGED <<counter, carried, buffer, source, cleared>>

Carry(n) ==
    /\ n \in running /\ carried[n] < MaxBytes
    /\ counter' = [counter EXCEPT ![n] = @ + 1]
    /\ carried' = [carried EXCEPT ![n] = @ + 1]
    /\ UNCHANGED <<running, sel, trafficTotals, lastPeerCounters, polls, logs>>

\* The peer connects again, or the core is restarted with the status
\* unchanged (a log level, a kernel update).
Reconnect(n) ==
    /\ n \in running
    /\ counter' = [counter EXCEPT ![n] = 0]
    /\ UNCHANGED <<running, sel, carried, trafficTotals, lastPeerCounters, polls, logs>>

\* Another tab, another interval, the window shown again: the poller starts
\* anew.
Rerender ==
    /\ polls' = Dead(polls)
    /\ UNCHANGED <<running, sel, counter, carried, trafficTotals, lastPeerCounters, logs>>

(***************************************************************************)
(* The status poller and recordPollResults.                                *)
(***************************************************************************)

\* One query per running network, answered with its counter or failing.
AskStatus ==
    /\ running # {} /\ ~AnyAlive(polls) /\ Cardinality(polls) < MaxFlights
    /\ \E ans \in Counters :
         /\ \A n \in ViewNets :
              ans[n] \in IF n \in running THEN {counter[n], NoValue} ELSE {NoValue}
         /\ polls' = polls \cup {[alive |-> TRUE, ans |-> ans]}
    /\ UNCHANGED <<running, sel, counter, carried, trafficTotals, lastPeerCounters, logs>>

\* Mutant: the counter is compared with the total.
GrowthTotal(now, cur, last) == IF now >= cur THEN now - cur ELSE now

\* What a counter adds to a total: the difference, or all of it after it has
\* gone back to zero.
Growth(now, cur, last) ==
    IF last # NoValue
      THEN IF now >= last THEN now - last ELSE now
      ELSE IF now > cur THEN now - cur ELSE 0

Recorded(ans) ==
    /\ trafficTotals' = [n \in ViewNets |->
         IF ans[n] = NoValue THEN trafficTotals[n]
         ELSE IF trafficTotals[n] = NoValue THEN ans[n]
         ELSE trafficTotals[n] + Growth(ans[n], trafficTotals[n], lastPeerCounters[n])]
    /\ lastPeerCounters' = [n \in ViewNets |->
         IF ans[n] = NoValue THEN lastPeerCounters[n] ELSE ans[n]]

\* recordPollResults, unless the poller has ended meanwhile.
Record(p) ==
    /\ p \in polls /\ polls' = polls \ {p}
    /\ IF p.alive THEN Recorded(p.ans) ELSE UNCHANGED <<trafficTotals, lastPeerCounters>>
    /\ UNCHANGED <<running, sel, counter, carried, logs>>

(***************************************************************************)
(* Logs.                                                                   *)
(***************************************************************************)

SelectNetwork(n) ==
    /\ n # sel
    /\ Reselect(n, running)
    /\ UNCHANGED <<running, traffic, buffer, source, cleared>>

WriteLine(n, l) ==
    /\ n \in running /\ l \notin Written
    /\ buffer' = [buffer EXCEPT ![n] = @ \cup {l}]
    /\ UNCHANGED <<running, sel, traffic, networkLogs, source, logPolls, cleared>>

AskLogs ==
    /\ sel \in running /\ ~AnyAlive(logPolls) /\ Cardinality(logPolls) < MaxFlights
    /\ logPolls' = logPolls \cup {[alive |-> TRUE, net |-> sel, lines |-> buffer[sel]]}
    /\ UNCHANGED <<running, sel, traffic, buffer, networkLogs, source, cleared>>

\* Mutant: an answer is shown whenever it arrives.
ShowLate(p) ==
    /\ p \in logPolls /\ logPolls' = logPolls \ {p}
    /\ networkLogs' = p.lines /\ source' = p.net
    /\ UNCHANGED <<running, sel, traffic, buffer, cleared>>

ShowLogs(p) ==
    /\ p \in logPolls /\ logPolls' = logPolls \ {p}
    /\ IF p.alive THEN networkLogs' = p.lines /\ source' = p.net
                  ELSE UNCHANGED <<networkLogs, source>>
    /\ UNCHANGED <<running, sel, traffic, buffer, cleared>>

\* What a clear is meant for.  Until the first answer for a network just
\* selected the window still shows the lines of the one before; clearing them
\* clears the wrong buffer, and they are back when that one is selected.
Clearing == IF source = sel THEN cleared \cup networkLogs ELSE cleared

\* Mutant: only the window's lines are cleared.
clearWindowOnly ==
    /\ networkLogs' = {}
    /\ cleared' = Clearing
    /\ UNCHANGED <<running, sel, traffic, buffer, source, logPolls>>

\* The lines shown, and the backend's if the network runs.  An answer that
\* is on the way is not taken back.
clearNetworkLogs ==
    /\ networkLogs' = {}
    /\ cleared' = Clearing
    /\ buffer' = IF sel \in running THEN [buffer EXCEPT ![sel] = {}] ELSE buffer
    /\ UNCHANGED <<running, sel, traffic, source, logPolls>>

ViewInit ==
    /\ running = {} /\ sel \in ViewNets
    /\ counter = [n \in ViewNets |-> 0] /\ carried = counter
    /\ trafficTotals = Unknown /\ lastPeerCounters = Unknown
    /\ polls = {} /\ logPolls = {}
    /\ buffer = [n \in ViewNets |-> {}] /\ networkLogs = {}
    /\ source = sel /\ cleared = {}

TrafficNext ==
    \/ \E n \in ViewNets : Carry(n) \/ Reconnect(n)
    \/ Rerender \/ AskStatus
    \/ \E p \in polls : Record(p)

LogsNext ==
    \/ \E n \in ViewNets : SelectNetwork(n) \/ \E l \in Lines : WriteLine(n, l)
    \/ AskLogs \/ clearNetworkLogs
    \/ \E p \in logPolls : ShowLogs(p)

ViewNext == (\E n \in ViewNets : NetworkStarts(n) \/ NetworkStops(n)) \/ TrafficNext \/ LogsNext

ViewSpec == ViewInit /\ [][ViewNext]_viewVars

\* The pollers' timers fire and their requests are answered.  A poller that
\* is started anew again and again still gets an answer some time.
ViewFairness ==
    /\ SF_viewVars(AskLogs)
    /\ SF_viewVars(\E p \in logPolls : p.alive /\ ShowLogs(p))
    /\ WF_viewVars(\E p \in logPolls : ShowLogs(p))

ViewTypeOK ==
    /\ running \subseteq ViewNets /\ sel \in ViewNets /\ source \in ViewNets
    /\ counter \in [ViewNets -> Nat] /\ carried \in [ViewNets -> 0..MaxBytes]
    /\ trafficTotals \in Totals /\ lastPeerCounters \in Totals
    /\ \A p \in polls : p.alive \in BOOLEAN /\ p.ans \in Totals
    /\ buffer \in [ViewNets -> SUBSET Lines]
    /\ networkLogs \subseteq Lines /\ cleared \subseteq Lines
    /\ logPolls \subseteq [alive : BOOLEAN, net : ViewNets, lines : SUBSET Lines]

\* The total of a network never exceeds what it has carried since it was
\* started: neither an answer that is older than the start, nor a counter
\* that begins anew, nor polls that fail make it count twice.
TotalsBounded ==
    \A n \in running : trafficTotals[n] # NoValue => trafficTotals[n] <= carried[n]

\* Lines never come from a network that is not the selected one: an answer
\* for the network selected before does not replace them.
LogsOfSelected ==
    [][networkLogs' # networkLogs /\ networkLogs' # {} => source' = sel /\ sel \in running]_viewVars

\* Lines cleared under their own network may be shown once more by an answer that was on
\* the way, but go again, for the backend has dropped them too.
ClearedGoes ==
    \A l \in Lines : (l \in cleared /\ l \in networkLogs) ~> l \notin networkLogs
=============================================================================
