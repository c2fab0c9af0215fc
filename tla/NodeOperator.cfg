SPECIFICATION NodeSpec
CONSTANTS
    p1 = p1
    p2 = p2
    k1 = k1
    k2 = k2
    k3 = k3
    r1 = r1
    r2 = r2
    r3 = r3
    NoPass = NoPass
    NoReq = NoReq
    Passes = {}
    Keys = {k1, k2, k3}
    Requests = {r1, r2}
    PassOf <- NoPasses
    KeyOf <- OpenKeyOf
    KindOf <- OpenKindOf
    OpKeys = {k1, k3}
    Hosts = 2
    max_clients = 2
    lasting_cap = 1
    QueueCap = 1
    MaxFaults = 1
    MaxStops = 1
    MaxOps = 2
INVARIANTS
    AddressesDistinct
    DeviceMatchesLeases
PROPERTIES
    OthersLeasesKept
CHECK_DEADLOCK FALSE
