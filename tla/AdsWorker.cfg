SPECIFICATION SafetySpec
CONSTANTS
    Type = {T}
    Name = {a, b}
    Watcher = {w1, w2}
    AllRequired = {T}
    All = All
    None = None
    ResourceInitialTimeout = TRUE
    MaxQueue = 1
    MaxWatches = 3
    MaxStreams = 2
    MaxResponses = 2
INVARIANTS TypeOK SubscriptionSent NonceFresh VersionAccepted TimersCover ToldWhatIsCached
PROPERTY NoEarlyTimeout
SYMMETRY Symmetry
CHECK_DEADLOCK FALSE
