\* Steps that keep failing, the shadowed one and a counted one (expected violation).
SPECIFICATION Spec
CONSTANTS
    MinRetryAttempts = 1
    FailingSteps <- MCRetriedSteps
    MaxStageFaults = Unbounded
    Unbounded = Unbounded
    MaxDbFaults = 0
    MaxCrashes = 0
PROPERTIES
    EventuallyReturns
