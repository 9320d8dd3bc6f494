SPECIFICATION FairSpec
CONSTANTS
    d1 = d1
    d2 = d2
    None = None
    Ids = {1, 2}
    Dests = {d1, d2}
    Routable = {d1, d2}
    SendTo <- MCStaged
    Renotify = 0
    UnAckTimeout = 1
    Discard = 1
    Qtime <- MCNoQtime
    AutoAck = {}
    AckOnUp = {}
    AckOnBetter = {}
    AckOnWorse = {0}
    NewStatuses = {5}
    Statuses = {1}
    ChanCap = 1
    StartTime = 1
    Horizon = 3
    Step = 2
    MaxAcks = 1
    MaxUpdates = 0
    MaxPersists = 0
    MaxStops = 0
    MaxCrashes = 0
PROPERTIES
    QueuedIsSent
    UnackedTimesOut
    SendersProceed
CHECK_DEADLOCK FALSE
