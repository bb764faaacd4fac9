SPECIFICATION FairSpec
CONSTANTS
    Event = {e1, e2, e3}
    EventBlockSize = 1
    StreamBuf = 2
    IntLimit = 5
    NotHandedOver = NotHandedOver
PROPERTY FinalizeReturns
CHECK_DEADLOCK FALSE
