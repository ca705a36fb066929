SPECIFICATION Spec
CONSTANTS
    Ports = 1
    FeedLines = {"clean", "noise", "fragment"}
    FeedBound = 1
INVARIANTS UncleanFeedIsSkipped
CHECK_DEADLOCK FALSE
