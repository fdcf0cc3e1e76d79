\* Evicting an offloaded stub while models are hot (expected violation).
CONSTANTS
    WriteKeys = {w1}
    Kinds = {k1, k2, k3}
    Fields <- MCFields
    FieldOrder <- MCFieldOrder
    Payloads <- MCPayloads2
    NilValue = NilValue
    Absent = Absent
    SubTypeName <- MCSubTypeName
    CaptureNilAsUnknown = FALSE
    DisableInMemoryCache = FALSE
    EventModelLimit = 1
    SchemaVersionPerEventModelLimit = 1
    FlushInterval = 1
    OffloadLoopInterval = 1
    OffloadThreshold = 1
    MaxTime = 6
    MaxModels = 3
    MaxVersions = 4
    MaxCount = 2
    MaxRestarts = 0
    MaxLoads = 2
    NoRow = NoRow
SPECIFICATION Spec
INVARIANT HotModelsKeepIdentity
