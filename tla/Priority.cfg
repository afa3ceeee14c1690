SPECIFICATION Spec
CONSTANTS
    a = a
    b = b
    c = c
    Name = {a, b, c}
    Orders <- MCOrders
    Reported = {"CONNECTING", "READY", "TRANSIENT_FAILURE"}
    MaxWork = 2
    None = None
INVARIANTS TypeOK BestOffered PublishedIsCurrent InUseKept NoLostWakeup
PROPERTIES Failover
