\* Three filters, a storage for two, two topics, a rogue broker.
SPECIFICATION Spec
CONSTANTS
    Mixed <- MCMixed
    Dollar <- MCDollar
    Lists <- PlainLists
    PubTopics <- PlainTopics
    FiltersLimit = 2
    MaxRequests = 3
    MaxConnects = 3
    ChannelBound = 2
INVARIANTS
    SubTypeOK
    GrantedTopicsAccepted
    ReportedWasAskedFor
    DueRefusedOnlyIfUnanswered
CHECK_DEADLOCK FALSE
