SPECIFICATION Spec
CONSTANTS
    Channels = {"unknown", "light", "button"}
    NoChannel = NoChannel
    LIMIT = 1
    Ids = {355, 356, 807}
    Forces <- MCForces
    Colours = {"1", "2"}
    SLEN = 3
    RxBound = 4
INVARIANTS TypeOK FewFalseReadings AccelerometerIsReady PaintedColourWasSent AccelerationIsRead
