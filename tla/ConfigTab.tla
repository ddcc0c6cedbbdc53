------------------------------ MODULE ConfigTab -----------------------------
(***************************************************************************)
(* The list of networks and their configurations: src/hooks/useInstances,  *)
(* loadInstances of src/types.ts, src/components/tabs/ConfigTab.tsx, and   *)
(* what toggle of src/App.tsx does to a configuration before a start.      *)
(*                                                                         *)
(* Typed text is the text shown with one thing changed.  An import reads   *)
(* and applies its text in one step.                                       *)
(***************************************************************************)
EXTENDS ConfigCodec, Sequences, SequencesExt

CONSTANTS
    MaxNets,
    MaxEdits,       \* bound on changes of configurations and texts
    BusyPorts       \* ports that other programs use

Networks == Ids

ASSUME TabAssumption ==
    MaxNets \in 1..Cardinality(Ids) /\ MaxEdits \in Nat

VARIABLES
    list,           \* the networks, in their order
    inst,           \* RPC port, status and configuration of each
    current,        \* the selected one
    draft,          \* the text in the editor, or Absent
    tomlDirty,
    draftOf,        \* history: the network whose text was edited
    clipboard,      \* an exported document
    clicked,        \* starts under way, with the list they have seen
    edits

tab == <<draft, tomlDirty, draftOf>>
tabVars == <<list, inst, current, tab, clipboard, clicked, edits>>

Shown == ToSet(list)
Config(n) == inst[n].config
Configs == {Config(n) : n \in Shown}
Unused == (Ids \ Shown) \ {c.id : c \in Configs}
Running(n) == inst[n].status = "running"
MayEdit == edits < MaxEdits /\ edits' = edits + 1

NewNetwork(n, rpc, first) ==
    [rpc |-> rpc, status |-> "stopped",
     config |-> [defaultConfig(n) EXCEPT !.listen = listenersForInstance(first)]]

\* The lowest port from p on that is not in the set.
FreePort(p, used) == CHOOSE q \in p..(p + Cardinality(used)) :
                       q \notin used /\ \A r \in p..(q - 1) : r \in used

nextRpcPort == FreePort(0, {inst[n].rpc : n \in Shown})

(***************************************************************************)
(* The text editor.  Its two effects: another network resets it, and a     *)
(* draft that is not dirty follows the configuration.                      *)
(***************************************************************************)

Reset == draft' = Absent /\ tomlDirty' = FALSE /\ draftOf' = Absent

Follow(d, dirty, n, c) ==
    /\ draft' = IF d # Absent /\ ~dirty THEN encodeTOML(c, FALSE) ELSE d
    /\ tomlDirty' = dirty
    /\ draftOf' = IF d = Absent THEN Absent ELSE IF dirty THEN draftOf ELSE n

\* Mutant: the draft stays when another network is selected.
SelectKeepsDraft(n) ==
    /\ n \in Shown \ {current} /\ current' = n
    /\ UNCHANGED <<list, inst, tab, clipboard, clicked, edits>>

Select(n) ==
    /\ n \in Shown \ {current} /\ current' = n
    /\ Reset
    /\ UNCHANGED <<list, inst, clipboard, clicked, edits>>

\* The change of one network's configuration, and the effect that follows.
SetConfig(n, c) ==
    /\ inst' = [inst EXCEPT ![n].config = c]
    /\ Follow(draft, tomlDirty, current, IF n = current THEN c ELSE Config(current))

\* The details are opened: a dirty draft stays, but is no longer called so,
\* and the effect replaces it.
startTomlEdit ==
    /\ Follow(encodeTOML(Config(current), FALSE), FALSE, current, Config(current))
    /\ UNCHANGED <<list, inst, current, clipboard, clicked, edits>>

\* What the user may make of a text: another id, a key that is not there, a
\* prefix that is no number.
Typed(d) ==
    {[d EXCEPT !.id = i] : i \in Ids \cup {Absent}}
      \cup {[d EXCEPT !.listen = Absent], [d EXCEPT !.net = "office"],
            [d EXCEPT !.ipv4 = <<"addr", Absent>>]}

TypeDraft ==
    /\ MayEdit
    /\ \E d \in Typed(IF draft = Absent THEN encodeTOML(Config(current), FALSE) ELSE draft) :
         draft' = d
    /\ tomlDirty' = TRUE /\ draftOf' = current
    /\ UNCHANGED <<list, inst, current, clipboard, clicked>>

\* Mutant: an id is compared with the networks' own ids only.
WithOwnIdNarrow(c) ==
    IF c.id \in Shown \ {current} THEN [c EXCEPT !.id = current] ELSE c

\* An id that another network has, or has in its configuration, is replaced.
WithOwnId(c) ==
    IF \E n \in Shown \ {current} : c.id \in {n, Config(n).id}
      THEN [c EXCEPT !.id = current] ELSE c

\* The draft's text becomes the configuration, whatever has changed in the
\* form meanwhile.  tomlDirty stays as it is.
applyTomlDraft ==
    /\ draft # Absent /\ Decodable(draft)
    /\ \E random \in IF draft.id = Absent THEN Unused ELSE {current} :
         LET c == decodeTOML(draft, random) IN
         /\ validateConfig(c)
         /\ inst' = [inst EXCEPT ![current].config = WithOwnId(c)]
    /\ draft' = Absent /\ draftOf' = Absent
    /\ UNCHANGED <<list, current, tomlDirty, clipboard, clicked, edits>>

\* The text is the configuration's again, but stays dirty.
revertTomlDraft ==
    /\ draft' = encodeTOML(Config(current), FALSE) /\ draftOf' = current
    /\ UNCHANGED <<list, inst, current, tomlDirty, clipboard, clicked, edits>>

exportToml ==
    /\ clipboard' = encodeTOML(Config(current), TRUE)
    /\ UNCHANGED <<list, inst, current, tab, clicked, edits>>

\* patchConfig with a whole configuration: the id stays, and listeners that
\* are this network's already become the ones of its place in the list.
importToml ==
    /\ clipboard # Absent
    /\ LET c == [decodeTOML(clipboard, current) EXCEPT !.id = current]
           same == c.listen = Config(current).listen
       IN SetConfig(current,
            IF same THEN [c EXCEPT !.listen = listenersForInstance(current = list[1])] ELSE c)
    /\ UNCHANGED <<list, current, clipboard, clicked, edits>>

\* patchConfig: a field of the form.
patchConfig(f, v) ==
    /\ MayEdit /\ Config(current)[f] # v
    /\ SetConfig(current, [Config(current) EXCEPT ![f] = v])
    /\ UNCHANGED <<list, current, clipboard, clicked>>

\* Every field of the form reports its own value.
ConfigEditor == \E f \in DOMAIN Domains : \E v \in Domains[f] : patchConfig(f, v)

(***************************************************************************)
(* The list.                                                               *)
(***************************************************************************)

addInstance ==
    /\ Len(list) < MaxNets
    /\ \E n \in Unused :
         /\ inst' = [inst EXCEPT ![n] = NewNetwork(n, nextRpcPort, FALSE)]
         /\ list' = Append(list, n) /\ current' = n
    /\ Reset
    /\ UNCHANGED <<clipboard, clicked, edits>>

removeInstance ==
    /\ Len(list) > 1
    /\ list' = RemoveFirst(list, current)
    /\ inst' = [inst EXCEPT ![current] = Absent]
    /\ current' = list'[1]
    /\ clicked' = [clicked EXCEPT ![current] = Absent]
    /\ Reset
    /\ UNCHANGED <<clipboard, edits>>

\* The program ends and loads the list again: nothing runs, and every
\* configuration has the id of its network.
Reload ==
    /\ inst' = [n \in Networks |-> IF n \notin Shown THEN Absent ELSE
                  [inst[n] EXCEPT !.status = "stopped", !.config.id = n]]
    /\ clicked' = [n \in Networks |-> Absent]
    /\ Reset
    /\ UNCHANGED <<list, current, clipboard, edits>>

(***************************************************************************)
(* toggle: what a start changes before the core is asked for.  It works on *)
(* the list that the click has seen.                                       *)
(***************************************************************************)

Click ==
    /\ clicked[current] = Absent /\ ~Running(current)
    /\ clicked' = [clicked EXCEPT ![current] = [n \in Shown |-> inst[n]]]
    /\ UNCHANGED <<list, inst, current, tab, clipboard, edits>>

\* The RPC port moves past those that are used; listeners with a port that
\* another running network has become automatic, if the user agrees; a
\* device name that is missing or another network's is made from the id.
Launch(n) ==
    /\ clicked[n] # Absent
    /\ LET seen == clicked[n]
           others == DOMAIN seen \ {n}
           active == {m \in others : seen[m].status = "running"}
           rpc == FreePort(inst[n].rpc, BusyPorts \cup {seen[m].rpc : m \in active}
                                          \cup {inst[m].rpc : m \in {k \in Shown : Running(k)}})
           clash == seen[n].config.listen \notin {"auto", "none"}
                      /\ \E m \in active : seen[m].config.listen = seen[n].config.listen
           dev == seen[n].config.dev
           taken == dev = Absent \/ \E m \in others : seen[m].config.dev = dev
           c == [Config(n) EXCEPT !.listen = IF clash THEN "auto" ELSE @,
                                  !.dev = IF taken THEN <<"et", n>> ELSE @]
       IN /\ inst' = [inst EXCEPT ![n] = [@ EXCEPT !.rpc = rpc, !.status = "running",
                                                   !.config = c]]
          /\ Follow(draft, tomlDirty, current, IF n = current THEN c ELSE Config(current))
    /\ clicked' = [clicked EXCEPT ![n] = Absent]
    /\ UNCHANGED <<list, current, clipboard, edits>>

\* Stopped by the user, or the start is given up.
Stop(n) ==
    /\ n \in Shown
    /\ \/ Running(n) /\ inst' = [inst EXCEPT ![n].status = "stopped"] /\ UNCHANGED clicked
       \/ /\ clicked[n] # Absent /\ clicked' = [clicked EXCEPT ![n] = Absent]
          /\ UNCHANGED inst
    /\ UNCHANGED <<list, current, tab, clipboard, edits>>

TabInit ==
    /\ \E n \in Networks :
         /\ list = <<n>> /\ current = n
         /\ inst = [m \in Networks |-> IF m = n THEN NewNetwork(n, 0, TRUE) ELSE Absent]
    /\ draft = Absent /\ tomlDirty = FALSE /\ draftOf = Absent
    /\ clipboard = Absent /\ clicked = [n \in Networks |-> Absent] /\ edits = 0

TabNext ==
    \/ \E n \in Networks : Select(n) \/ Launch(n) \/ Stop(n)
    \/ ConfigEditor
    \/ startTomlEdit \/ TypeDraft \/ applyTomlDraft \/ revertTomlDraft
    \/ exportToml \/ importToml
    \/ addInstance \/ removeInstance \/ Reload \/ Click

TabSpec == TabInit /\ [][TabNext]_tabVars

TabTypeOK ==
    /\ current \in Shown /\ Len(list) = Cardinality(Shown)
    /\ \A n \in Networks \ Shown : inst[n] = Absent
    /\ \A n \in Shown : /\ DOMAIN inst[n] = {"rpc", "status", "config"}
                        /\ IsConfig(Config(n)) /\ inst[n].status \in {"running", "stopped"}
    /\ \A n \in Networks : clicked[n] # Absent => n \in Shown
    /\ tomlDirty \in BOOLEAN /\ edits \in 0..MaxEdits

\* No two networks have the same node id, however texts with ids are copied
\* from one network to another.
NodeIdsDistinct ==
    \A m, n \in Shown : m # n => Config(m).id # Config(n).id /\ Config(m).id # n

\* A document means the configuration it was made from: decoded, it makes
\* the same document again.  Only a network without any listener is given
\* the default ones.
DocumentsKeepMeaning ==
    \A c \in Configs : validateConfig(c) /\ c.listen # "none" =>
      \A out \in BOOLEAN :
        encodeTOML(decodeTOML(encodeTOML(c, FALSE), c.id), out) = encodeTOML(c, out)

\* A draft is applied to the network whose text the user has edited.
DraftForItsNetwork ==
    [][draft # Absent /\ draft' = Absent /\ inst' # inst /\ tomlDirty
         => draftOf = current \/ list' # list \/ current' # current]_tabVars
=============================================================================
