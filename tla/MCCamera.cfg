SPECIFICATION CameraFairSpec
CONSTANTS
    HEARTBEAT = 3
    RECONNECT = 3
    HEARTBEAT_LIVENESS = 3
    QueueBound = 2
    PatienceBound = 9
INVARIANTS CameraTypeOK PictureIsFresh RepliesMatchSession AtMostOneRequestWithoutCamera IdleWorkerIsHeard DeadBrokerIsNoticed
PROPERTIES ServesAgain NoHastyReconnect
CHECK_DEADLOCK FALSE
