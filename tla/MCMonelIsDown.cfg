SPECIFICATION Spec
CONSTANTS
    top = top
    group = group
    alias = alias
    s1 = s1
    s2 = s2
    None = None
    u1 = u1
    u2 = u2
    Mons <- MCChain
    Kids <- MCKids
    Ups <- MCUps
    Down <- MCDown
    Needs <- MCNoNeeds
    Grav <- MCGrav
    Countstop = {}
    Notifying <- MCChain
    Tracked <- MCChain
    Reports = {1, 5}
    Users = {u1}
    Overridden <- MCUpper
    Timed = {}
    MaxUpdates = 2
    MaxOverrides = 0
INVARIANTS
    IsDownIsCurrent
CHECK_DEADLOCK FALSE
