SPECIFICATION FairSpec
CONSTANTS
    Event = {e1, e2, e3, e4, e5}
    EventBlockSize = 1
    StreamBuf = 2
    IntLimit = 4
    NotHandedOver = NotHandedOver
INVARIANTS TypeOK BlockHasOneOwner NothingLost HandedOverComplete
PROPERTIES ImplementsEventLog FinalizeReturnsIfSaverWaits
\* the process exits
CHECK_DEADLOCK FALSE
