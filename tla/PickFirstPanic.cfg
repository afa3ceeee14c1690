SPECIFICATION Spec
CONSTANTS
    a1 = a1
    a2 = a2
    Addr = {a1, a2}
    AddrLists <- MCAddrLists
    Family <- MCFamily
    ExtIds = {1, 2}
    MaxQueue = 3
    MaxResolver = 2
INVARIANTS NoPanic
CHECK_DEADLOCK FALSE
