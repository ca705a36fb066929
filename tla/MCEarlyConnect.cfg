SPECIFICATION Spec
CONSTANTS
    Ports = 1
    FeedLines = {"clean", "noise"}
    FeedBound = 1
PROPERTIES RelayIsBound
CHECK_DEADLOCK FALSE
