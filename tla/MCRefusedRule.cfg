SPECIFICATION FairSpec
CONSTANTS
    aTrigger = t1
    Channels = {"unknown", "light", "distance"}
    NoChannel = NoChannel
    LIMIT = 1
    Values = {1}
    Subscribers = {t1}
    EpochModulus = 1
    QueueBound = 2
    DoubtBound = 0
    Triggers = {t1}
    Requests <- MCFewRequests
    NoRequest = NoRequest
    Monitors = {}
    MonitorChannels = {"light"}
    Nothing = Nothing
PROPERTIES CreateTriggerReturns
