SPECIFICATION Spec
CONSTANTS
    MinRetryAttempts = 1
    FailingSteps <- MCNoSteps
    MaxStageFaults = 0
    Unbounded = Unbounded
    MaxDbFaults = 1
    MaxCrashes = 0
INVARIANTS
    ReturnedSuccessIsDurable
