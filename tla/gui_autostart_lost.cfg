SPECIFICATION SafeSpec
CONSTANTS
    a = a
    b = b
    Nets = {a, b}
    Flows = {f, g}
    None = None
    Gone = Gone
    Budget = 2
    Scenes <- Toggling
PROPERTY AutoByUserOnly
CHECK_DEADLOCK FALSE
