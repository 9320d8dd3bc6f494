SPECIFICATION Spec
CONSTANTS
    m1 = m1
    m2 = m2
    Ping = Ping
    Masters = {m1}
    FetchFrom = {m1}
    Objs = 1
    Statuses = {1, 5}
    Unknown = 0
    QueueMax = 2
    Conns = {1, 2}
    MaxReports = 3
    MaxFaults = 3
INVARIANTS
    AgreedWhenQuiet
PROPERTIES
    AtMostOnce
    SeenAsItIs
CHECK_DEADLOCK FALSE
