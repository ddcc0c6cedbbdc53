\* Saves and updates that fail or stop at every point.
SPECIFICATION MCSpec
CONSTANTS
    Configurations = {empty, conf1, conf2}
    Default = empty
    Down = Down
    Missing = Missing
    Torn = Torn
    StoreFaults = {"disk", "rename", "power"}
    Files = {core, lib}
    Programs = {core}
    Versions = {v1, v2}
    Releases = {v2}
    NoFile = NoFile
    TornFile = TornFile
    Callers = {"service"}
    KernelFaults = {"unzip", "lock", "disk", "stop"}
    MaxKept = 2
INVARIANTS Recoverable
PROPERTIES SaveIsAtomic FailureKeepsCore
