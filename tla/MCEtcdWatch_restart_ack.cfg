\* A panic after a mode change was received and before it was acknowledged
\* (expected violation).
SPECIFICATION Spec
CONSTANTS
    Subscribers <- MCOneSubscriber
    MaxEvents = 1
    MaxWorkspaceWrites = 0
    MaxFaults = 1
    WritesAfterStartup = TRUE
PROPERTIES
    EveryModeAcknowledged
