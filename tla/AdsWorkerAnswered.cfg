SPECIFICATION Spec
CONSTANTS
    Type = {T}
    Name = {a}
    Watcher = {w1, w2}
    AllRequired = {T}
    All = All
    None = None
    ResourceInitialTimeout = TRUE
    MaxQueue = 1
    MaxWatches = 3
    MaxStreams = 2
    MaxResponses = 1
PROPERTY Answered
CHECK_DEADLOCK FALSE
