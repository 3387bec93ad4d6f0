SPECIFICATION Spec
CONSTANTS
    Types <- AllTypes
    MaxRetries = 2
INVARIANTS
    SuccessIsTrue
    ErrorsAreTrue
\* deliver returns.
CHECK_DEADLOCK FALSE
