SPECIFICATION NodeSpec
CONSTANTS
    p1 = p1
    p2 = p2
    k1 = k1
    k2 = k2
    k3 = k3
    r1 = r1
    r2 = r2
    r3 = r3
    NoPass = NoPass
    NoReq = NoReq
    Passes = {p1}
    Keys = {k1}
    Requests = {r1, r2}
    PassOf <- OnePassTwice
    KeyOf <- OneKey
    KindOf <- BothPass
    OpKeys = {}
    Hosts = 2
    max_clients = 2
    lasting_cap = 1
    QueueCap = 2
    MaxFaults = 3
    MaxStops = 2
    MaxOps = 0
INVARIANTS
    AdmitsOnce
    PassForLease
PROPERTIES
    UsesListRightly
    QuietLeaseLapses
CHECK_DEADLOCK FALSE
