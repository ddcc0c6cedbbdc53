\* Renaming a node that answers.
SPECIFICATION SafeSpec
CONSTANTS
    Parts = {"rename"}
    n1 = n1
    n2 = n2
    p1 = p1
    p2 = p2
    old = old
    new = new
    Clicks = 2
    Tasks = {t1, t2}
    NoTask = NoTask
    PanelFaults = {"lost", "crash", "refuse", "restore"}
    ViewNets = {n1, n2}
    NoValue = NoValue
    MaxBytes = 3
    MaxFlights = 2
    Lines = {l1, l2}
    RemotePorts = {p1, p2}
    Fields = {"hostname", "cidrs"}
    Values = {old, new}
    Blank = Blank
    MaxChanges = 1
    MaxMounts = 2
    MaxWaits = 1
    Ids = {n1, n2, n3}
    Absent = Absent
    MaxNets = 2
    MaxEdits = 3
    BusyPorts = {1}
    MaxText = 4
    Portals = {k1, k2}
    LocalPortals = {k1}
    Callers = {c1, c2}
    RPC_MAX_ENDPOINTS = 1
    RPC_MAX_CONCURRENT_TOTAL = 1
    RPC_MAX_CONCURRENT_PER_ENDPOINT = 1
INVARIANTS RenameReaches
CHECK_DEADLOCK FALSE
