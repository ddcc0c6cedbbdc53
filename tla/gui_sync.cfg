SPECIFICATION MCSpec
CONSTANTS
    a = a
    b = b
    Nets = {a, b}
    Flows = {f, g}
    None = None
    Gone = Gone
    Budget = 2
    Scenes <- MCScenes
INVARIANTS TypeOK CleanupSparesShown
PROPERTIES RemovedStaysRemoved  ServiceComesBack
CHECK_DEADLOCK FALSE
