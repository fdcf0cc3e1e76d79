SPECIFICATION Spec
CONSTANTS
    Subscribers <- MCSubscribers
    MaxEvents = 2
    MaxWorkspaceWrites = 0
    MaxFaults = 0
    WritesAfterStartup = TRUE
PROPERTIES
    ModesNeverRegress
