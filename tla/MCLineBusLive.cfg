SPECIFICATION FairSpec
CONSTANTS
    aTrigger = t1
    Channels = {"unknown", "light", "distance"}
    NoChannel = NoChannel
    LIMIT = 1
    Values = {1}
    Subscribers = {t1, m1}
    EpochModulus = 3
    QueueBound = 2
    DoubtBound = 0
    Triggers = {t1}
    Requests <- MCFewRequests
    NoRequest = NoRequest
    Monitors = {m1}
    MonitorChannels = {"light"}
    Nothing = Nothing
INVARIANTS AtMostOneOvertime
PROPERTIES HandshakesEnd WakesUp ExpiredMonitorEnds LineSettles MonitorStaysInOneEpoch
