SPECIFICATION Spec
CONSTANTS
    Name = {A, B, C}
    Handle = {1, 2, 3}
    NoChild = NoChild
    Rpc = {r1}
    Ptr = {p1, p2, p3}
    MaxResolver = 3
INVARIANTS PublishedIsActive SwitchIsPrompt LatestMayResolve
PROPERTIES NoMissedPicker IdleIsLeft
CHECK_DEADLOCK FALSE
