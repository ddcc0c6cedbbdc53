\* The views of what is under way.
SPECIFICATION MCSpec
CONSTANTS
    Parts = {"update", "restart", "logs", "calls"}
    n1 = n1
    n2 = n2
    p1 = p1
    p2 = p2
    old = old
    new = new
    Clicks = 2
    Tasks = {t1, t2}
    NoTask = NoTask
    PanelFaults = {"lost", "crash", "refuse", "restore"}
    ViewNets = {n1, n2}
    NoValue = NoValue
    MaxBytes = 3
    MaxFlights = 2
    Lines = {l1, l2}
    RemotePorts = {p1, p2}
    Fields = {"hostname", "cidrs"}
    Values = {old, new}
    Blank = Blank
    MaxChanges = 1
    MaxMounts = 2
    MaxWaits = 1
    Ids = {n1, n2, n3}
    Absent = Absent
    MaxNets = 2
    MaxEdits = 3
    BusyPorts = {1}
    MaxText = 4
    Portals = {k1}
    LocalPortals = {k1}
    Callers = {c1, c2}
    RPC_MAX_ENDPOINTS = 1
    RPC_MAX_CONCURRENT_TOTAL = 2
    RPC_MAX_CONCURRENT_PER_ENDPOINT = 2
INVARIANTS PanelsTypeOK  DroppedStaysOut
PROPERTIES  LogsOfSelected  CallsEnd
CHECK_DEADLOCK FALSE
