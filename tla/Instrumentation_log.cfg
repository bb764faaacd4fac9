SPECIFICATION Spec
CONSTANTS
    Thread = {0, 1}
    MainThread = 0
    Code <- MCCode
    Image <- MCImage
    Entry <- MCEntry
    binPath = "bin"
    KnownFuncs = {"main", "worker", "f", "g"}
    NoFunc = NoFunc
    Block = {b1, b2}
    NoBlock = NoBlock
INVARIANTS TypeOK AccessesRecorded StackAtAccess HeapLogMatches
PROPERTY PopFailsAtSlipped
\* the program ends
CHECK_DEADLOCK FALSE
