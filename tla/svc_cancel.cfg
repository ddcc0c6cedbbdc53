\* Updates that are cancelled and asked for again while the first thread is
\* still at work.
SPECIFICATION Spec
CONSTANTS
    Instances = {net1}
    Pids = {p1, p2}
    Confs = {conf1}
    None = None
    Foreign = Foreign
    Faults = {"save", "start"}
    Commands = {"query", "start_instance", "update_kernel", "cancel_kernel_update"}
    Workers = {w1, w2}
    Handlers = 1
    AutoValues = {FALSE}
    Preset = {net1}
SYMMETRY Symmetry
INVARIANTS NoStuckUpdateLock
PROPERTIES FinalPhaseStays
