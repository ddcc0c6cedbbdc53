------------------------------ MODULE MCService -----------------------------
(***************************************************************************)
(* EasyTierService on small instances for TLC.  The runs differ in the     *)
(* requests clients send and in what the environment may do wrong.         *)
(***************************************************************************)
EXTENDS EasyTierService, TLC

\* Pids are interchangeable, and so are the networks (every run presets all
\* of them or has only one), the update threads and the configuration
\* contents: no action and no property names one of them.  The run that checks
\* liveness does not use this.
Symmetry ==
    Permutations(Pids) \cup Permutations(Instances)
        \cup Permutations(Workers) \cup Permutations(Confs)

\* The requests that a client sends during an update, and those that change
\* which networks there are.
InstanceCommands ==
    {"sync_instance", "remove_instance", "start_instance", "stop_instance",
     "stop_all_instances", "update_kernel", "service_stop"}

NoFaults == {}
ProcessFaults == {"kill", "scan", "reuse"}
Autos == BOOLEAN
=============================================================================
