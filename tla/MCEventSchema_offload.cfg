\* Idle offload, reload of cold stubs and restarts, with the default
\* relation flush interval <= offload threshold; limits admit every model.
CONSTANTS
    WriteKeys = {w1}
    Kinds = {k1, k2}
    Fields <- MCFields
    FieldOrder <- MCFieldOrder
    Payloads <- MCPayloads2
    NilValue = NilValue
    Absent = Absent
    SubTypeName <- MCSubTypeName
    CaptureNilAsUnknown = FALSE
    DisableInMemoryCache = FALSE
    EventModelLimit = 2
    SchemaVersionPerEventModelLimit = 2
    FlushInterval = 2
    OffloadLoopInterval = 1
    OffloadThreshold = 2
    MaxTime = 7
    MaxModels = 3
    MaxVersions = 4
    MaxCount = 2
    MaxRestarts = 1
    MaxLoads = 2
    NoRow = NoRow
SPECIFICATION Spec
INVARIANTS
    EveryUnsavedChangeIsDirty
    StubsAreReloadable
PROPERTIES
    StoreTotalsNeverDecrease
