SPECIFICATION FairSpec
CONSTANTS
    t1 = t1
    t2 = t2
    w0 = w0
    w1 = w1
    w2 = w2
    c1 = c1
    NoTask = NoTask
    Tasks = {t1, t2}
    Periodic = {t1}
    Once = {t2}
    HighPrio = {}
    Workers = {w0, w2}
    Clients = {c1}
    Freq <- MCFreq
    Phase <- MCPhase
    Serves <- MCServes
    LaneCap <- MCLaneCap
    SchedCap = 1
    HOUR = 6
    JITTER = 1
    EXPRESS_LIMIT = 3
    Delays = {0, 2}
    RunTimes = {0, 4}
    StartTime = 3
    Horizon = 5
    MaxCalls = 1
INVARIANTS
    OneEntryPerTask
    RemoveSettles
    NoTaskLost
PROPERTIES
    BlockedSendersProceed
    DueWorkRuns
CHECK_DEADLOCK FALSE
