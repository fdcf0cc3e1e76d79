\* A well-formed message and two that are not (see MCPayload), two producer creations
\* (a restart or config change with another header), three attempts each.
\* Every behaviour ends once the attempts and producers are used up, as
\* the router stops calling Produce when no message is left.
CONSTANTS
    Messages = {"m1", "m2", "m3"}
    Payload <- MCPayload
    BadKeys <- MCBadKeys
    NotANumber = NotANumber
    Headers = {h1, h2}
    Empty = Empty
    NoMsg = NoMsg
    NoClient = NoClient
    NotSent = NotSent
    ApiErrorCode = 429
    MaxProducers = 2
    MaxAttempts = 3
SPECIFICATION Spec
CHECK_DEADLOCK FALSE
INVARIANTS
    TypeOK
    AcknowledgedRowsPersist
