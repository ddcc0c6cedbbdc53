------------------------------- MODULE RpcPool -------------------------------
(***************************************************************************)
(* The pool of RPC endpoints (src-tauri/src/remote_rpc.rs).  A call takes  *)
(* the endpoint of its portal from the table, then a permit of all calls,  *)
(* a permit of the endpoint, and the endpoint's client.  The table and the *)
(* order in which it evicts are two mutexes.  A call that has failed drops *)
(* whatever endpoint its portal has by then.                               *)
(***************************************************************************)
EXTENDS Naturals, FiniteSets, SequencesExt

CONSTANTS
    Portals,        \* host and port, the key of an endpoint
    LocalPortals,   \* those of the networks of this computer
    Callers,        \* tasks of the RPC runtime
    RPC_MAX_ENDPOINTS, RPC_MAX_CONCURRENT_TOTAL, RPC_MAX_CONCURRENT_PER_ENDPOINT

ASSUME PoolAssumption ==
    /\ LocalPortals \subseteq Portals
    /\ {RPC_MAX_ENDPOINTS, RPC_MAX_CONCURRENT_TOTAL,
        RPC_MAX_CONCURRENT_PER_ENDPOINT} \subseteq Nat \ {0}
    /\ IsFiniteSet(Portals) /\ IsFiniteSet(Callers)

VARIABLES
    clients,        \* RPC_CLIENTS: the endpoint of a portal, or 0
    order,          \* RPC_CLIENT_ORDER
    cooldown,       \* endpoints whose cooldown_until is in the future
    rpc,            \* the calls
    dropping,       \* drop_local_endpoint between its two mutexes
    dropped         \* history: endpoints that a failed call has dropped

poolVars == <<clients, order, cooldown, rpc, dropping, dropped>>

\* An endpoint is a portal and a number.  The table and the calls that have
\* got it keep it; what is known of one that nobody keeps goes with it.
Endpoints == Portals \X (1..(Cardinality(Callers) + 1))
endpoint(c) == <<rpc[c].at, rpc[c].nth>>
Used == {<<k, clients[k]>> : k \in Portals} \cup {endpoint(c) : c \in Callers}
NewEndpoint(k) == CHOOSE i \in 1..(Cardinality(Callers) + 1) : <<k, i>> \notin Used
Forget == cooldown' = cooldown \cap Used' /\ dropped' = dropped \cap Used'

Cached == {k \in Portals : clients[k] # 0}
NoCall == [pc |-> "idle", op |-> "status", at |-> CHOOSE k \in Portals : TRUE,
           nth |-> 0, ans |-> "none"]

(***************************************************************************)
(* The table.                                                              *)
(***************************************************************************)

\* How many keys are taken from the front of the order before fewer than
\* room endpoints are left.  Some keys name no endpoint any more; when there
\* are none left, the table grows.
EvictedFor(room) ==
    Min({i \in 0..Len(order) :
           i = Len(order) \/ Cardinality(Cached \ ToSet(SubSeq(order, 1, i))) < room})

\* Mutant: the table is cut to the limit and then grows by one.
EvictedLate == EvictedFor(RPC_MAX_ENDPOINTS + 1)

Evicted == EvictedFor(RPC_MAX_ENDPOINTS)

\* A portal without an endpoint gets a new one.  A key that is still in the
\* order keeps its place.
endpoint_for(k) ==
    IF clients[k] # 0 THEN UNCHANGED <<clients, order>>
    ELSE LET gone == ToSet(SubSeq(order, 1, Evicted))
             left == SubSeq(order, Evicted + 1, Len(order))
         IN /\ clients' = [j \in Portals |-> IF j = k THEN NewEndpoint(k)
                                             ELSE IF j \in gone THEN 0 ELSE clients[j]]
            /\ order' = IF k \in ToSet(left) THEN left ELSE Append(left, k)

\* A network was stopped: the table first, the order when that is unlocked.
\* The keys in the order are distinct, so the first k is every k.
drop_local_endpoint(k) ==
    /\ k \in LocalPortals \ dropping /\ dropping' = dropping \cup {k}
    /\ clients' = [clients EXCEPT ![k] = 0]
    /\ UNCHANGED <<order, rpc>> /\ Forget

DropOrder(k) ==
    /\ k \in dropping /\ dropping' = dropping \ {k}
    /\ order' = RemoveFirst(order, k)
    /\ UNCHANGED <<clients, cooldown, rpc, dropped>>

(***************************************************************************)
(* A call: local_status_query, discover_remote_instance, or another call   *)
(* to a remote node, which all load and patch the same way.                *)
(***************************************************************************)

Goes(c, pc, ans) == rpc' = [rpc EXCEPT ![c] = [@ EXCEPT !.pc = pc, !.ans = ans]]
Holding(pcs) == {c \in Callers : rpc[c].pc \in pcs}
Sharing(c, pcs) == {d \in Holding(pcs) : endpoint(d) = endpoint(c)}

\* An endpoint in its cooldown is not asked.
Begin(c, op, k) ==
    /\ rpc[c].pc = "idle" /\ (op = "status" => k \in LocalPortals)
    /\ endpoint_for(k)
    /\ LET cold == <<k, clients'[k]>> \in cooldown IN
       rpc' = [rpc EXCEPT ![c] =
                 [pc |-> IF cold THEN "answer" ELSE "total", op |-> op, at |-> k,
                  nth |-> clients'[k], ans |-> IF cold THEN "unavailable" ELSE "none"]]
    /\ UNCHANGED dropping /\ Forget

\* acquire_rpc_permit, twice: the permit of all calls is held while the call
\* waits for the permit of its endpoint.
TotalFree ==
    Cardinality(Holding({"own", "client", "calling", "failed"})) < RPC_MAX_CONCURRENT_TOTAL
OwnFree(c) ==
    Cardinality(Sharing(c, {"client", "calling", "failed"})) < RPC_MAX_CONCURRENT_PER_ENDPOINT

AcquireTotal(c) ==
    /\ rpc[c].pc = "total" /\ TotalFree
    /\ Goes(c, "own", "none")
    /\ UNCHANGED <<clients, order, cooldown, dropping, dropped>>

AcquireOwn(c) ==
    /\ rpc[c].pc = "own" /\ OwnFree(c)
    /\ Goes(c, "client", "none")
    /\ UNCHANGED <<clients, order, cooldown, dropping, dropped>>

AcquireTimeout(c) ==
    /\ (rpc[c].pc = "total" /\ ~TotalFree) \/ (rpc[c].pc = "own" /\ ~OwnFree(c))
    /\ Goes(c, "answer", "busy")
    /\ UNCHANGED <<clients, order, cooldown, dropping, dropped>>

\* The client's mutex has no time limit.
LockClient(c) ==
    /\ rpc[c].pc = "client" /\ Sharing(c, {"calling", "failed"}) = {}
    /\ Goes(c, "calling", "none")
    /\ UNCHANGED <<clients, order, cooldown, dropping, dropped>>

Answered(c) ==
    /\ rpc[c].pc = "calling"
    /\ Goes(c, "failed", "unavailable") \/ rpc' = [rpc EXCEPT ![c] = NoCall]
    /\ UNCHANGED <<clients, order, dropping>> /\ Forget

\* Mutant: the call itself has no time limit.
CallTimeoutNever(c) == rpc[c].pc = "calling" /\ FALSE

CallTimeout(c) ==
    /\ rpc[c].pc = "calling"
    /\ Goes(c, "failed", "timeout")
    /\ UNCHANGED <<clients, order, cooldown, dropping, dropped>>

\* Mutant: only an error drops the endpoint.
DropFailedErrorsOnly(c) ==
    /\ rpc[c].pc = "failed" /\ Goes(c, "answer", rpc[c].ans)
    /\ clients' = IF rpc[c].ans = "timeout" THEN clients
                  ELSE [clients EXCEPT ![rpc[c].at] = 0]
    /\ dropped' = dropped \cup {endpoint(c)}
    /\ UNCHANGED <<order, cooldown, dropping>>

\* The endpoint is dropped by its key, and the permits are given back.
DropFailed(c) ==
    /\ rpc[c].pc = "failed" /\ Goes(c, "answer", rpc[c].ans)
    /\ clients' = [clients EXCEPT ![rpc[c].at] = 0]
    /\ dropped' = (dropped \cup {endpoint(c)}) \cap Used'
    /\ cooldown' = cooldown \cap Used'
    /\ UNCHANGED <<order, dropping>>

\* What the caller does with a failure: a status query drops the endpoint
\* (again), discover sets its cooldown whatever has failed, and load and
\* patch when the node is unavailable, which a cooldown says as well.
Answer(c) ==
    /\ rpc[c].pc = "answer" /\ rpc' = [rpc EXCEPT ![c] = NoCall]
    /\ clients' = IF rpc[c].op = "status" /\ rpc[c].ans \in {"unavailable", "timeout"}
                  THEN [clients EXCEPT ![rpc[c].at] = 0] ELSE clients
    /\ cooldown' = Used' \cap
         IF \/ rpc[c].op = "discover"
            \/ rpc[c].op = "load" /\ rpc[c].ans = "unavailable"
         THEN cooldown \cup {endpoint(c)} ELSE cooldown
    /\ dropped' = dropped \cap Used'
    /\ UNCHANGED <<order, dropping>>

CooldownEnds(e) ==
    /\ e \in cooldown /\ cooldown' = cooldown \ {e}
    /\ UNCHANGED <<clients, order, rpc, dropping, dropped>>

PoolInit ==
    /\ clients = [k \in Portals |-> 0] /\ order = <<>>
    /\ cooldown = {} /\ rpc = [c \in Callers |-> NoCall]
    /\ dropping = {} /\ dropped = {}

CallMoves(c) ==
    \/ AcquireTotal(c) \/ AcquireOwn(c) \/ AcquireTimeout(c)
    \/ CallTimeout(c) \/ DropFailed(c) \/ Answer(c)

PoolNext ==
    \/ \E c \in Callers, op \in {"status", "discover", "load"}, k \in Portals : Begin(c, op, k)
    \/ \E c \in Callers : CallMoves(c) \/ LockClient(c) \/ Answered(c)
    \/ \E k \in Portals : drop_local_endpoint(k) \/ DropOrder(k)
    \/ \E e \in Endpoints : CooldownEnds(e)

PoolSpec == PoolInit /\ [][PoolNext]_poolVars

\* Timers fire, and the client's mutex is given to whom has waited longest.
PoolFairness ==
    \A c \in Callers : WF_poolVars(CallMoves(c)) /\ SF_poolVars(LockClient(c))

PoolTypeOK ==
    /\ clients \in [Portals -> 0..(Cardinality(Callers) + 1)]
    /\ ToSet(order) \subseteq Portals /\ IsInjective(order)
    /\ cooldown \cup dropped \subseteq Endpoints /\ dropping \subseteq LocalPortals

\* The table keeps its limit, but for endpoints that have lost their place
\* in the order, which nothing evicts: past the limit, at most one can be.
PoolBounded ==
    Cardinality(Cached) <= RPC_MAX_ENDPOINTS \/ Cardinality(Cached \cap ToSet(order)) <= 1

\* No call gets an endpoint that a failed call has dropped, whoever has made
\* a new one or dropped that since.
DroppedStaysOut == \A k \in Portals : <<k, clients[k]>> \notin dropped

\* A call ends, whatever the permits it holds and waits for and however long
\* the portals are silent.
CallsEnd == \A c \in Callers : rpc[c].pc # "idle" ~> rpc[c].pc = "idle"
=============================================================================
