SPECIFICATION Spec
CONSTANTS
    d1 = d1
    d2 = d2
    None = None
    Ids = {1}
    Dests = {d1, d2}
    Routable = {d1, d2}
    SendTo <- MCEscalate
    Renotify = 0
    UnAckTimeout = 2
    Discard = 1
    Qtime <- MCQtime
    AutoAck = {1}
    AckOnUp = {}
    AckOnBetter = {}
    AckOnWorse = {0}
    NewStatuses = {1, 5}
    Statuses = {1, 6}
    ChanCap = 1
    StartTime = 1
    Horizon = 3
    Step = 1
    MaxAcks = 1
    MaxUpdates = 1
    MaxPersists = 1
    MaxStops = 1
    MaxCrashes = 1
INVARIANTS
    ActivesAreRegistered
    AckIsFinal
    QueuedOncePerStep
PROPERTIES
    FilesAreNotReused
    AckedStaysQuiet
