SPECIFICATION Spec
CONSTANTS
    a1 = a1
    a2 = a2
    Addr = {a1, a2}
    AddrLists <- MCAddrLists
    Family <- MCFamily
    ExtIds = {1, 2}
    MaxQueue = 2
    MaxResolver = 3
INVARIANTS TypeOK NeverOrphaned NoLeak ReadyIsReady AsksAgain
           FreshNoPanic FreshSelected FreshNotStuck
CHECK_DEADLOCK FALSE
