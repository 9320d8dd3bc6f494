SPECIFICATION Spec
CONSTANTS
    top = top
    group = group
    alias = alias
    s1 = s1
    s2 = s2
    None = None
    u1 = u1
    u2 = u2
    Mons <- MCChain
    Kids <- MCKids
    Ups <- MCUps
    Down <- MCDown
    Needs <- MCNoNeeds
    Grav <- MCGrav
    Countstop <- MCUpper
    Notifying = {s1}
    Tracked = {s1}
    Reports = {5}
    Users <- MCUsers
    Overridden <- MCUpper
    Timed <- MCOnly
    MaxUpdates = 1
    MaxOverrides = 2
SYMMETRY MCSymmetry
INVARIANTS
    OverridesAreKnown
    OverridesExpire
PROPERTIES
    QuietUnderOverride
    ExpiredIsRemoved
CHECK_DEADLOCK FALSE
