CONSTANTS
    AttemptValues <- MCAttemptValues
SPECIFICATION Spec
INVARIANT RetryBounded
