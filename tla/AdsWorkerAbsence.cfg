SPECIFICATION SafetySpec
CONSTANTS
    Type = {T}
    Name = {a, b}
    Watcher = {w1, w2}
    AllRequired = {T}
    All = All
    None = None
    ResourceInitialTimeout = FALSE
    MaxQueue = 1
    MaxWatches = 3
    MaxStreams = 1
    MaxResponses = 2
PROPERTY ServerIndicatedAbsence
CHECK_DEADLOCK FALSE
