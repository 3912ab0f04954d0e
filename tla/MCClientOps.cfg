\* Three operations of the application and the keep-alive operation.
SPECIFICATION Spec
CONSTANTS
    MaxOps = 3
    Prompt = TRUE
    WritesFail = TRUE
INVARIANTS
    TypeOK
    CallbackIffSent
    LockHasHolder
    TableMatchesSession
    RequestsTimed
CHECK_DEADLOCK FALSE
