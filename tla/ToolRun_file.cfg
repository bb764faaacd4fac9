SPECIFICATION FairSpec
CONSTANTS
    Logs <- MCLogs
    MaxLen = 5
    Thread = {0, 1}
    NoFunc = NoFunc
    EVENT_CHUNK_SIZE = 2
    MaxPasses = 2
    EventBlockSize = 2
    StreamBuf = 3
    IntLimit = 8
    NotHandedOver = NotHandedOver
INVARIANTS TypeOK FileIsAnnotatedLog StacksAreOfThisPass
PROPERTIES ShortReadIsLateFlush ImplementsEventStore QueriesEnd
\* the queries end; finalize may hang (PinEventDumper, FinalizeReturns)
CHECK_DEADLOCK FALSE
