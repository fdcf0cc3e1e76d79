SPECIFICATION Spec
CONSTANTS
    Subscribers <- MCOneSubscriber
    MaxEvents = 1
    MaxWorkspaceWrites = 0
    MaxFaults = 0
    WritesAfterStartup = FALSE
INVARIANTS
    EndsOnLatest
