\* Two components, two /mode writes and one /workspaces write after startup,
\* one panic (connection, connect timeout or heartbeat) and its restart.
SPECIFICATION Spec
CONSTANTS
    Subscribers <- MCSubscribers
    MaxEvents = 2
    MaxWorkspaceWrites = 1
    MaxFaults = 1
    WritesAfterStartup = TRUE
INVARIANTS
    TypeOK
    EndsOnLatest
PROPERTIES
    ComponentsReachLatestMode
