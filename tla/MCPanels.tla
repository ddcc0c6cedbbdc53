------------------------------- MODULE MCPanels ------------------------------
(***************************************************************************)
(* The panels and views of the window for TLC: the panel of a kernel       *)
(* update, traffic and log views, the editor of a remote node, the list of *)
(* networks with their texts, the quoting of a value, and the pool of RPC  *)
(* endpoints behind the traffic and the remote node.  They share no state  *)
(* in the code.  A behaviour has one part, and everything else rests in    *)
(* one initial state.                                                      *)
(***************************************************************************)
EXTENDS KernelPanel, StatusView, RemotePanel, ConfigTab, TomlText, RpcPool

CONSTANTS
    Parts,          \* what is explored
    n1, n2, p1, p2, old, new

ASSUME PartsAssumption ==
    Parts \subseteq {"update", "restart", "logs", "traffic", "remote", "rename",
                     "texts", "starts", "form", "quoting", "calls", "drops"}

\* The starts below show two networks, and have used up to two of the edits.
ASSUME StartAssumption ==
    /\ n1 # n2 /\ {n1, n2} \subseteq Ids /\ 2 <= MaxEdits

VARIABLE part

vars == <<panelVars, viewVars, remoteVars, tabVars, textVars, poolVars, part>>

(***************************************************************************)
(* What each part starts from.                                             *)
(***************************************************************************)

\* The node itself is behind one port and a fellow node behind the other; a
\* renaming also meets ports that nobody answers.
RemoteStart ==
    /\ RemoteInit
    /\ remote = [f \in Fields |-> old] /\ port = p1
    /\ IF part = "remote" THEN {serving[p1], serving[p2]} = {"node", "fellow"}
       ELSE serving[p1] = "fellow" /\ (serving[p2] = "fellow" \/ part = "rename")

\* Texts need two networks; devices are changed once.
TabStart ==
    /\ list = IF part = "texts" THEN <<n1, n2>> ELSE <<n1>>
    /\ current = n1
    /\ inst = [m \in Networks |->
                 IF m = n1 THEN NewNetwork(n1, 0, TRUE)
                 ELSE IF m \in ToSet(list) THEN NewNetwork(m, 1, FALSE) ELSE Absent]
    /\ draft = Absent /\ tomlDirty = FALSE /\ draftOf = Absent
    /\ clipboard = Absent /\ clicked = [m \in Networks |-> Absent]
    /\ edits = CASE part = "texts" -> 1 [] part = "starts" -> 2 [] OTHER -> 0

TextStart ==
    /\ TextInit
    /\ part # "quoting" => (value = <<>> /\ line = T(value))

MCInit ==
    /\ part \in Parts
    /\ PanelInit /\ (part # "update" => mode)
    /\ ViewInit /\ sel = n1
    /\ RemoteStart /\ TabStart /\ TextStart /\ PoolInit

(***************************************************************************)
(* The steps of each part.                                                 *)
(***************************************************************************)

ViewPart ==
    \/ \E n \in ViewNets :
         (part = "traffic" => n = sel) /\ (NetworkStarts(n) \/ NetworkStops(n))
    \/ part = "traffic" /\ TrafficNext
    \/ part = "logs" /\ LogsNext

\* The update without a restart of the service, and one update with it.
UpdatePart ==
    /\ PanelNext
    /\ part = "update" => ~crashed'
    /\ part = "restart" => call'[2] = call[2]

\* One field is changed on the node.
RemotePart ==
    \/ part = "remote" /\ EditorNext
         /\ (changes' # changes => remote'["hostname"] = remote["hostname"])
    \/ part = "rename" /\ RenameNext

TextsNext ==
    \/ \E n \in Networks : Select(n)
    \/ \E v \in Domains["listen"] : patchConfig("listen", v)
    \/ startTomlEdit \/ TypeDraft \/ applyTomlDraft \/ revertTomlDraft
    \/ exportToml \/ importToml \/ Reload

StartsNext ==
    \/ \E n \in Networks : Select(n) \/ Launch(n) \/ Stop(n)
    \/ \E v \in Domains["dev"] : patchConfig("dev", v)
    \/ addInstance \/ removeInstance \/ Click

TabPart ==
    \/ part = "texts" /\ TextsNext
    \/ part = "starts" /\ StartsNext
    \/ part = "form" /\ ConfigEditor

\* Calls alone, and calls while networks are stopped.
PoolPart ==
    /\ part \in {"calls", "drops"} /\ PoolNext
    /\ part = "calls" => dropping' = dropping

MCNext ==
    \/ part \in {"update", "restart"} /\ UpdatePart
         /\ UNCHANGED <<viewVars, remoteVars, tabVars, textVars, poolVars, part>>
    \/ part \in {"traffic", "logs"} /\ ViewPart
         /\ UNCHANGED <<panelVars, remoteVars, tabVars, textVars, poolVars, part>>
    \/ RemotePart /\ UNCHANGED <<panelVars, viewVars, tabVars, textVars, poolVars, part>>
    \/ TabPart /\ UNCHANGED <<panelVars, viewVars, remoteVars, textVars, poolVars, part>>
    \/ part = "quoting" /\ TextNext
         /\ UNCHANGED <<panelVars, viewVars, remoteVars, tabVars, poolVars, part>>
    \/ PoolPart /\ UNCHANGED <<panelVars, viewVars, remoteVars, tabVars, textVars, part>>

SafeSpec == MCInit /\ [][MCNext]_vars
MCSpec == SafeSpec /\ PanelFairness /\ ViewFairness /\ PoolFairness

\* What the live views hold has its type; the phases shown are those under
\* way and those of KERNEL_TERMINAL_PHASES (src/types.ts).
PanelsTypeOK == PanelTypeOK /\ ViewTypeOK /\ PoolTypeOK

\* A configuration is complete, wherever it comes from: no field is left
\* undefined by a text that has no key for it (src/toml-codec.ts).
ConfigsTypeOK == RemoteTypeOK /\ TabTypeOK /\ TextTypeOK
=============================================================================
