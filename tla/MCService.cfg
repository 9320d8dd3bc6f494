SPECIFICATION FairSpec
CONSTANTS
    w1 = w1
    t1 = t1
    t2 = t2
    me = me
    s1 = s1
    Workers = {w1}
    Testers = {t1, t2}
    Me = me
    Slaves = {s1}
    Retries = 1
    Severity = 5
    Verdicts = {1, 5}
    Grav = "ietf"
    Pooled = TRUE
INVARIANTS
    OneTestAtATime
    DownMeansRetriesSpent
    MastersAgree
PROPERTIES
    StaleStatusHeals
