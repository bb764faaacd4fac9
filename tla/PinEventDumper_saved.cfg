SPECIFICATION Spec
CONSTANTS
    Event = {e1, e2, e3}
    EventBlockSize = 1
    StreamBuf = 2
    IntLimit = 5
    NotHandedOver = NotHandedOver
INVARIANT SavedEventsAreInFile
CHECK_DEADLOCK FALSE
