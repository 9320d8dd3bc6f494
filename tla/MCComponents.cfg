SPECIFICATION CompSpec
CONSTANTS
    Members = {"a", "b", "c"}
    Me = "a"
    i4 = i4
    i6 = i6
    None = None
    Ips = {i4, i6}
    NameOf <- MCNameOf
    Pref <- MCPref
    Names = {"host", "host."}
    Zones <- MCZones
    Has <- MCHas
    Servers = 1
    Alive = {0}
    QueueMax = 1
    MaxQueries = 1
    TRIES = 2
    Samples <- MCSamples
    Gaps = {2, 7}
    Sinces = {0, 2}
    NMax = 2
    HOUR = 4
    DAY = 12
    LockOf <- TwoLocks
    MaxAdds = 3
    MaxCrashes = 1
    XLiterals = {"2"}
    XVars = {"x"}
    XObjs = {"Top:G", "Top:A"}
    XValue <- MCXValue
    XLeaves <- MCXLeaves
    XResult <- MCXResult
    XStatus <- MCXStatus
    XOps = {"-", "*", "/", "%"}
    XFuncs = {"abs", "floor"}
    XAggs = {"SUM", "AVE", "MIN", "MAX", "COUNT", "NUP", "NDOWN", "NOVERRIDE"}
    XMaxLen = 7
    CounterMax = 7
    HalfMax = 3
    Increments = {1, 5}
    MaxSeconds = 4
    MaxReboots = 1
    MaxRenumbers = 1
    MaxRestarts = 1
    MaxLosses = 1
    Lengths = {2, 3}
    GapMax = 1
    MaxWindow = 6
    MaxResets = 1
    MaxRestores = 2
    Kinds = {"tcp", "toeof", "url", "agent", "udp", "dns", "prog", "database", "self", "darpwatch", "isforced", "compute"}
    OSes = {1}
    Verify = TRUE
    HTTP_Cache = 3
    Frequency = 2
    Deadline = 1
    Delay = 2
    MAXREDIRECT = 2
    MaxSecond = 5
    MaxChanges = 1
    p1 = p1
    p2 = p2
    p3 = p3
    pw1 = pw1
    pw2 = pw2
    Pinged = {p1, p2, p3}
    AddrOf <- MCAddrOf
    PingWorkers = {pw1, pw2}
    QUEUESIZE = 1
    MAXPING = 1
    MaxAborts = 1
INVARIANTS
    AskedIsOnTheWay
    CountsWhatIsPending
    FileIsTheHistory
    ReadersSeeTheHistory
    WorthWhatItMeans
    RatesAreTrue
    BaselineIsWhole
    EachTestIsNew
    FailuresMoveOn
    UpWasHeard
    NoPingIsForgotten
    GroupIsMedian
PROPERTIES
    WorseIsNeverBetter
CHECK_DEADLOCK FALSE
