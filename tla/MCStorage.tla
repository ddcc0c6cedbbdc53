------------------------------ MODULE MCStorage -----------------------------
(***************************************************************************)
(* ConfigStore and KernelFiles for TLC.  They share no file and no         *)
(* variable, so a step of one means nothing to the other: a behaviour lets *)
(* one of them run and leaves the other at rest.                           *)
(***************************************************************************)
EXTENDS ConfigStore, KernelFiles

VARIABLE running        \* the module whose steps are explored

MCInit ==
    /\ StoreInit /\ KernelInit
    /\ running \in {"store", "kernel"}
    /\ running = "kernel" => file = Missing

MCNext ==
    /\ UNCHANGED running
    /\ \/ running = "store" /\ StoreNext /\ UNCHANGED kernelVars
       \/ running = "kernel" /\ KernelNext /\ UNCHANGED storeVars

MCSpec == MCInit /\ [][MCNext]_<<running, storeVars, kernelVars>>
=============================================================================
