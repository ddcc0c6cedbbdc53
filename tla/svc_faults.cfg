\* Requests that add, change and remove networks, with processes that cannot
\* be killed or found and pids that are used again.
SPECIFICATION Spec
CONSTANTS
    Instances = {net1}
    Pids = {p1, p2}
    Confs = {conf1, conf2}
    None = None
    Foreign = Foreign
    Faults <- ProcessFaults
    Commands <- InstanceCommands
    Workers = {w1, w2}
    Handlers = 1
    AutoValues = {FALSE}
    Preset = {}
SYMMETRY Symmetry
INVARIANTS TrackedOnce UpdateExclusive
PROPERTIES RestartsCurrentConf
