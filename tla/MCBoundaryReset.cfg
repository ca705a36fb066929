SPECIFICATION Spec
CONSTANTS
    aTrigger = t1
    Channels = {"unknown", "light", "distance"}
    NoChannel = NoChannel
    LIMIT = 1
    Values = {0, 1, 2}
    Subscribers = {t1}
    EpochModulus = 1
    QueueBound = 3
    DoubtBound = 3
    Triggers = {t1}
    Requests <- MCRequests
    NoRequest = NoRequest
    Monitors = {}
    MonitorChannels = {"light"}
    Nothing = Nothing
PROPERTIES BoundaryDoesNotReset
