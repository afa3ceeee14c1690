SPECIFICATION Spec
CONSTANTS
    Rpc = {r1}
    Task = {t1, t2}
    MaxUpdates = 4
PROPERTIES DropDisconnects
CHECK_DEADLOCK FALSE
