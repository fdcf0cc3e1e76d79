\* Flushing a model evicted while dirty (expected violation).
CONSTANTS
    WriteKeys = {w1}
    Kinds = {k1, k2}
    Fields <- MCFields
    FieldOrder <- MCFieldOrder
    Payloads <- MCPayloads2
    NilValue = NilValue
    Absent = Absent
    SubTypeName <- MCSubTypeName
    CaptureNilAsUnknown = FALSE
    DisableInMemoryCache = FALSE
    EventModelLimit = 1
    SchemaVersionPerEventModelLimit = 1
    FlushInterval = 2
    OffloadLoopInterval = 2
    OffloadThreshold = 10
    MaxTime = 5
    MaxModels = 3
    MaxVersions = 4
    MaxCount = 2
    MaxRestarts = 0
    MaxLoads = 0
    NoRow = NoRow
SPECIFICATION Spec
INVARIANT StoreModelLimitRespected
