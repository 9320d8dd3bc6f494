SPECIFICATION Spec
CONSTANTS
    d1 = d1
    d2 = d2
    None = None
    Ids = {1, 2}
    Dests = {d1, d2}
    Routable = {d1, d2}
    SendTo <- MCAtOnce
    Renotify = 0
    UnAckTimeout = 0
    Discard = 0
    Qtime <- MCNoQtime
    AutoAck = {}
    AckOnUp = {}
    AckOnBetter = {}
    AckOnWorse = {0}
    NewStatuses = {5}
    Statuses = {1}
    ChanCap = 1
    StartTime = 1
    Horizon = 2
    Step = 1
    MaxAcks = 1
    MaxUpdates = 0
    MaxPersists = 1
    MaxStops = 0
    MaxCrashes = 0
PROPERTIES
    AckHoldsPackageLock
