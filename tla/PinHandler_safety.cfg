SPECIFICATION Spec
CONSTANTS
    Thread = {t1, t2}
    MainThread = t1
    NoThread = NoThread
    Size = {0, 1, 2}
    MaxOps = 2
    EventBlockSize = 1
    StreamBuf = 2
    IntLimit = 8
    NotHandedOver = NotHandedOver
INVARIANTS TypeOK DumperCallsSerialised RecordedInTimeOrder LogIsTheRunOfMain AllocHasItsSize
\* the process exits
CHECK_DEADLOCK FALSE
