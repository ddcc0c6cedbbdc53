\* Every interleaving of start, stop, update, the watchdog, restarts and
\* crashes of the service; cores that crash or cannot be started.
SPECIFICATION Spec
CONSTANTS
    Instances = {net1, net2}
    Pids = {p1, p2, p3}
    Confs = {conf1}
    None = None
    Foreign = Foreign
    Faults = {"start", "crash"}
    Commands = {"list_instances", "start_instance", "stop_instance", "set_auto_start", "update_kernel", "service_stop"}
    Workers = {w1}
    Handlers = 2
    AutoValues <- Autos
    Preset = {net1, net2}
SYMMETRY Symmetry
INVARIANTS TypeOK    DurableWhenQuiet
