\* A second update is asked for after the first was cancelled.
SPECIFICATION Spec
CONSTANTS
    Instances = {net1}
    Pids = {p1, p2}
    Confs = {conf1}
    None = None
    Foreign = Foreign
    Faults <- NoFaults
    Commands = {"update_kernel", "cancel_kernel_update"}
    Workers = {w1, w2}
    Handlers = 1
    AutoValues = {FALSE}
    Preset = {net1}
INVARIANTS UpdateExclusive
