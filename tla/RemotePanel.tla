----------------------------- MODULE RemotePanel ----------------------------
(***************************************************************************)
(* The editor of another node's configuration, src/RemoteConfigDialog.tsx, *)
(* and the renaming of a node in src/components/tabs/PeersTab.tsx, over    *)
(* discover, load and patch of src-tauri/src/remote_rpc.rs.                *)
(*                                                                         *)
(* The editor is mounted anew when its port changes.  What it was waiting  *)
(* for goes on, and an answer that names another port still changes it.    *)
(***************************************************************************)
EXTENDS Naturals, FiniteSets

CONSTANTS
    RemotePorts,    \* candidate ports of the host
    Fields, Values, \* of the part of the configuration that can be edited
    Blank,          \* no value, no port
    MaxChanges,     \* bound on changes on the remote node itself
    MaxMounts, MaxWaits

ASSUME RemoteAssumption ==
    /\ Blank \notin Values \cup RemotePorts \cup [Fields -> Values]
    /\ "hostname" \in Fields
    /\ {MaxChanges, MaxMounts, MaxWaits} \subseteq Nat

VARIABLES
    serving,    \* who answers on a port: the node, a fellow node, nobody
    remote,     \* the node's configuration
    changes,    \* number of changes made on the node itself
    mount,      \* how often the editor has been mounted
    open, port, phase, edit, snapshot, failed,
    touched,    \* history: fields edited since they were loaded
    loads,      \* discoverAndLoad under way
    patches,    \* patches under way
    rename      \* the inline renaming of PeersTab

editor == <<mount, open, port, phase, edit, snapshot, failed, touched>>
remoteVars == <<serving, remote, changes, editor, loads, patches, rename>>

RemoteConfigs == [Fields -> Values]
NoRename == [pc |-> "idle", tried |-> {}, name |-> Blank]
dirty == edit # snapshot
Mounted(l) == open /\ l.mount = mount

(***************************************************************************)
(* Mounting: everything is reset and the first load begins.                *)
(***************************************************************************)

discoverAndLoad(m, p) == [mount |-> m, from |-> p, pc |-> "probe", value |-> Blank]

Mount(p) ==
    /\ mount < MaxMounts /\ mount' = mount + 1
    /\ open' = TRUE /\ port' = p /\ phase' = "discover"
    /\ edit' = Blank /\ snapshot' = Blank /\ failed' = FALSE /\ touched' = {}
    /\ loads' = (loads \ {l \in loads : l.pc = "load"}) \cup {discoverAndLoad(mount', p)}

\* The button of PeersTab, and the port typed into the dialog.
OpenAt(p) ==
    /\ ~open \/ p # port
    /\ Mount(p)
    /\ UNCHANGED <<serving, remote, changes, patches, rename>>

Close ==
    /\ open /\ open' = FALSE
    /\ UNCHANGED <<serving, remote, changes, mount, port, phase, edit, snapshot,
                   failed, touched, loads, patches, rename>>

\* The button beside a message of failure: the load is repeated over what
\* the editor holds, which stays usable.
Retry ==
    /\ open /\ failed /\ Cardinality(loads) < MaxWaits
    /\ phase' = "discover" /\ failed' = FALSE
    /\ loads' = loads \cup {discoverAndLoad(mount, port)}
    /\ UNCHANGED <<serving, remote, changes, mount, open, port, edit, snapshot,
                   touched, patches, rename>>

\* A load ends without a value; only the mounted editor shows it.
LoadFails(l, where) ==
    /\ loads' = loads \ {l}
    /\ IF Mounted(l) THEN failed' = TRUE /\ phase' = where ELSE UNCHANGED <<failed, phase>>
    /\ UNCHANGED <<mount, open, port, edit, snapshot, touched>>

\* Promise.any: the first port that knows the address wins.  A fellow node
\* knows it from its list of peers.  When the winner is not the port asked
\* for, the dialog goes there, whoever is mounted by then.
Probe(l) ==
    /\ l \in loads /\ l.pc = "probe"
    /\ \/ \E p \in RemotePorts :
            /\ serving[p] # "nobody"
            /\ \/ /\ p = l.from
                  /\ IF Mounted(l) THEN /\ phase' = "load"
                                      /\ loads' = (loads \ {l}) \cup {[l EXCEPT !.pc = "load"]}
                                 ELSE phase' = phase /\ loads' = loads \ {l}
                  /\ UNCHANGED <<mount, open, port, edit, snapshot, failed, touched>>
               \/ /\ p # l.from /\ open /\ p # port /\ Mount(p)
               \/ /\ p # l.from /\ ~(open /\ p # port)
                  /\ loads' = loads \ {l} /\ UNCHANGED editor
       \/ LoadFails(l, "discover")
    /\ UNCHANGED <<serving, remote, changes, patches, rename>>

\* get_config is answered by the node itself only, and the answer may be
\* read after the configuration has changed.
ReadConfig(l) ==
    /\ l \in loads /\ l.pc = "load" /\ l.value = Blank
    /\ \/ /\ serving[l.from] = "node"
          /\ loads' = (loads \ {l}) \cup {[l EXCEPT !.value = remote]}
          /\ UNCHANGED editor
       \/ LoadFails(l, "load")
    /\ UNCHANGED <<serving, remote, changes, patches, rename>>

\* Mutant: what the user has typed survives a load.
LoadedKeepsEdit(l) ==
    /\ l \in loads /\ l.value # Blank
    /\ loads' = loads \ {l}
    /\ IF Mounted(l) THEN /\ snapshot' = l.value /\ phase' = "ready"
                        /\ edit' = (IF edit = Blank THEN l.value ELSE edit)
                        /\ UNCHANGED touched
                   ELSE UNCHANGED <<edit, snapshot, phase, touched>>
    /\ UNCHANGED <<serving, remote, changes, mount, open, port, failed, patches, rename>>

Loaded(l) ==
    /\ l \in loads /\ l.value # Blank
    /\ loads' = loads \ {l}
    /\ IF Mounted(l) THEN /\ edit' = l.value /\ snapshot' = l.value
                        /\ phase' = "ready" /\ touched' = {}
                   ELSE UNCHANGED <<edit, snapshot, phase, touched>>
    /\ UNCHANGED <<serving, remote, changes, mount, open, port, failed, patches, rename>>

(***************************************************************************)
(* Editing and save.                                                       *)
(***************************************************************************)

Edit(f, v) ==
    /\ open /\ edit # Blank /\ edit[f] # v
    /\ edit' = [edit EXCEPT ![f] = v] /\ touched' = touched \cup {f}
    /\ UNCHANGED <<serving, remote, changes, mount, open, port, phase, snapshot,
                   failed, loads, patches, rename>>

\* Only what differs from the snapshot is sent.
Save ==
    /\ open /\ edit # Blank /\ dirty /\ phase # "saving"
    /\ Cardinality(patches) < MaxWaits
    /\ phase' = "saving" /\ failed' = FALSE
    /\ patches' = patches \cup
         {[mount |-> mount, at |-> port, touched |-> touched, pc |-> "sent",
           values |-> [f \in {g \in Fields : edit[g] # snapshot[g]} |-> edit[f]]]}
    /\ UNCHANGED <<serving, remote, changes, mount, open, port, edit, snapshot,
                   touched, loads, rename>>

Patched(values) == [f \in Fields |-> IF f \in DOMAIN values THEN values[f] ELSE remote[f]]

\* patch_config.  An answer that is lost looks like a refusal.
Apply(p) ==
    /\ p \in patches /\ p.pc = "sent"
    /\ \/ /\ serving[p.at] = "node"
          /\ remote' = Patched(p.values)
          /\ \E pc \in {"done", "error"} : patches' = (patches \ {p}) \cup {[p EXCEPT !.pc = pc]}
       \/ /\ patches' = (patches \ {p}) \cup {[p EXCEPT !.pc = "error"]}
          /\ UNCHANGED remote
    /\ UNCHANGED <<serving, changes, editor, loads, rename>>

\* onSaved closes the dialog, whoever is mounted in it; after a failure the
\* editor keeps what the user has typed.
SaveEnds(p) ==
    /\ p \in patches /\ patches' = patches \ {p}
    /\ \/ p.pc = "done" /\ open' = FALSE /\ UNCHANGED <<phase, failed>>
       \/ /\ p.pc = "error" /\ UNCHANGED open
          /\ IF Mounted(p) THEN phase' = "ready" /\ failed' = TRUE
                         ELSE UNCHANGED <<phase, failed>>
    /\ UNCHANGED <<serving, remote, changes, mount, port, edit, snapshot, touched,
                   loads, rename>>

\* Somebody changes the node's configuration on the node itself.
ChangeRemote(f, v) ==
    /\ changes < MaxChanges /\ changes' = changes + 1
    /\ remote[f] # v /\ remote' = [remote EXCEPT ![f] = v]
    /\ UNCHANGED <<serving, editor, loads, patches, rename>>

(***************************************************************************)
(* submitRename of PeersTab: port after port, discover and patch.          *)
(***************************************************************************)

\* discover_remote_instance answers with one instance_id.
DiscoverReply == [instance_id |-> "uuid", hostname |-> remote["hostname"]]

\* instance_identifier accepts nothing but a UUID.
instance_identifier(id) == id = "uuid"

\* The list that PeersTab looks for in the answer is not there.
RenameTarget ==
    IF "instance_ids" \in DOMAIN DiscoverReply THEN DiscoverReply.instance_ids[1]
    ELSE "default"

submitRename(v) ==
    /\ ~open /\ rename.pc \in {"idle", "failed"} /\ v # remote["hostname"]
    /\ rename' = [NoRename EXCEPT !.pc = "trying", !.name = v]
    /\ UNCHANGED <<serving, remote, changes, editor, loads, patches>>

probeAndPatch(p) ==
    /\ rename.pc = "trying" /\ p \in RemotePorts \ rename.tried
    /\ IF serving[p] = "node" /\ instance_identifier(RenameTarget)
         THEN /\ remote' = [remote EXCEPT !["hostname"] = rename.name]
              /\ rename' = NoRename
         ELSE rename' = [rename EXCEPT !.tried = @ \cup {p}] /\ UNCHANGED remote
    /\ UNCHANGED <<serving, changes, editor, loads, patches>>

RenameGivesUp ==
    /\ rename.pc = "trying" /\ rename.tried = RemotePorts
    /\ rename' = [rename EXCEPT !.pc = "failed"]
    /\ UNCHANGED <<serving, remote, changes, editor, loads, patches>>

RemoteInit ==
    /\ serving \in [RemotePorts -> {"node", "fellow", "nobody"}]
    /\ \A p, q \in RemotePorts : serving[p] = "node" /\ serving[q] = "node" => p = q
    /\ remote \in RemoteConfigs /\ changes = 0
    /\ mount = 0 /\ open = FALSE /\ port \in RemotePorts /\ phase = "discover"
    /\ edit = Blank /\ snapshot = Blank /\ failed = FALSE /\ touched = {}
    /\ loads = {} /\ patches = {} /\ rename = NoRename

EditorNext ==
    \/ \E p \in RemotePorts : OpenAt(p)
    \/ Close \/ Retry \/ Save
    \/ \E l \in loads : Probe(l) \/ ReadConfig(l) \/ Loaded(l)
    \/ \E p \in patches : Apply(p) \/ SaveEnds(p)
    \/ \E f \in Fields, v \in Values : Edit(f, v) \/ ChangeRemote(f, v)

RenameNext ==
    \/ \E p \in RemotePorts : probeAndPatch(p)
    \/ \E v \in Values : submitRename(v)
    \/ RenameGivesUp

RemoteNext == EditorNext \/ RenameNext

RemoteSpec == RemoteInit /\ [][RemoteNext]_remoteVars

RemoteTypeOK ==
    /\ remote \in RemoteConfigs /\ port \in RemotePorts /\ open \in BOOLEAN
    /\ phase \in {"discover", "load", "ready", "saving"} /\ failed \in BOOLEAN
    /\ edit \in RemoteConfigs \cup {Blank} /\ snapshot \in RemoteConfigs \cup {Blank}
    /\ edit = Blank <=> snapshot = Blank
    /\ touched \subseteq Fields
    /\ \A l \in loads : l.mount <= mount /\ l.from \in RemotePorts
    /\ rename.pc \in {"idle", "trying", "failed"} /\ rename.tried \subseteq RemotePorts

\* A save changes nothing on the node but what the user has edited: a field
\* that somebody else has changed since it was loaded keeps its value, also
\* after saves that failed and loads that were repeated.
SparesUnedited ==
    [][\A p \in patches \ patches' : \A f \in Fields :
         remote'[f] # remote[f] => f \in p.touched]_remoteVars

\* A renaming fails only when no port of the node is known.
RenameReaches == rename.pc = "failed" => \A p \in RemotePorts : serving[p] # "node"
=============================================================================
