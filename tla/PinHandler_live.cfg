SPECIFICATION FairSpec
CONSTANTS
    Thread = {t1, t2}
    MainThread = t1
    NoThread = NoThread
    Size = {1}
    MaxOps = 2
    EventBlockSize = 1
    StreamBuf = 2
    IntLimit = 8
    NotHandedOver = NotHandedOver
PROPERTY HandlersReturn
\* the process exits
CHECK_DEADLOCK FALSE
