SPECIFICATION Spec
CONSTANTS
    top = top
    group = group
    alias = alias
    s1 = s1
    s2 = s2
    None = None
    u1 = u1
    u2 = u2
    Mons <- MCAlias
    Kids <- MCKids
    Ups <- MCUps
    Down <- MCDown
    Needs <- MCNeeds
    Grav <- MCGrav
    Countstop = {alias}
    Notifying = {}
    Tracked = {}
    Reports = {1, 5}
    Users = {u1}
    Overridden = {group}
    Timed = {}
    MaxUpdates = 2
    MaxOverrides = 2
INVARIANTS
    AddsUp
    HoldersProceed
CHECK_DEADLOCK FALSE
