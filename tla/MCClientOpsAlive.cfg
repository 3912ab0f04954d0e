\* The library alone: no write fails.
SPECIFICATION Spec
CONSTANTS
    MaxOps = 3
    Prompt = TRUE
    WritesFail = FALSE
INVARIANT OperationAlive
CHECK_DEADLOCK FALSE
