SPECIFICATION Spec
CONSTANTS
    Rpc = {r1, r2}
    Task = {t1, t2}
    MaxUpdates = 4
INVARIANTS TypeOK OneLifecycle Driven
PROPERTIES SeesDocumented AttemptEnds
CHECK_DEADLOCK FALSE
