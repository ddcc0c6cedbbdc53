-------------------------------- MODULE MCGui -------------------------------
(***************************************************************************)
(* GuiSync for TLC.  What users and the environment do is a scene; each    *)
(* scene has its own behaviours, so that the product of all of them is not *)
(* explored.  The list has one network at first, two where networks are    *)
(* added and removed.                                                      *)
(***************************************************************************)
EXTENDS GuiSync

CONSTANTS a, b

MCScenes == {
    {"tray", "refuse", "spawn"},
    {"early"},
    {"toggle", "add", "remove"},
    {"level", "auto"},
    {"resume"},
    {"down", "hang", "repair"}}
Toggling == {{"toggle"}}

MCInit ==
    /\ Init
    /\ a \in Shown /\ (b \in Shown => ~gui[b].auto)
    /\ gui[b] = Gone /\ b \in Known => ~rec[b].auto
    /\ "remove" \notin env.events => gui[b] = None
    /\ "remove" \in env.events => ~gui[a].auto
    /\ \A n \in Nets : (n \in Shown /\ svc # "absent") \/ gui[n] = Gone <=> n \in Known
    /\ \A n \in Known : rec[n].on => core = Wanted /\ rec[n].auto
    /\ Free(CHOOSE f \in Flows : flow[f].pc = "idle")
SafeSpec == MCInit /\ [][Next]_vars
MCSpec == MCInit /\ [][Next]_vars /\ Fairness
=============================================================================
