SPECIFICATION Spec
CONSTANTS
    MinRetryAttempts = 1
    FailingSteps <- MCAllSteps
    MaxStageFaults = 2
    Unbounded = Unbounded
    MaxDbFaults = 1
    MaxCrashes = 1
INVARIANTS
    TypeOK
    AbortedOnlyAfterRetries
PROPERTIES
    ImplementsAbstractUpload
