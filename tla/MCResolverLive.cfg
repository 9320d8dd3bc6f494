SPECIFICATION Spec
CONSTANTS
    i4 = i4
    i46 = i46
    None = None
    Ips = {i4, i46}
    NameOf <- OneName
    Pref <- Only4
    Names = {"host."}
    Zones <- MCZones
    Has <- MCHas
    Servers = 2
    Alive = {1}
    QueueMax = 2
    MaxQueries = 1
    TRIES = 3
PROPERTIES
    FoundAgain
