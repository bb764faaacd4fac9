SPECIFICATION Spec
CONSTANTS
    Thread = {0, 1}
    Func = {f, g}
    NoFunc = NoFunc
    Var = {1, 2, 3, 4}
    NoVar = NoVar
    Tag <- MCTag
    NoTag = NoTag
    MaxConfig = 2
    MaxEvents = 2
    Addr <- MCAddr
    Levels = 3
    WindowSize = 2
    StrideSize = 3
    IntLimit = 4
    MaxWords = 6
    Access <- MCAccess
    TypeSize = 1
    MIN_GROUP_SIZE = 2
    MAX_HALF_OFFSET = 2
    MaxAccesses = 7
SYMMETRY FuncSymmetry
INVARIANTS TypeOK MatrixIsExact ReuseIsStackDistance StridesAreExact FiguresAreShares
           GroupsAreChains LongRunsAreReported StatCountsShapes
\* each of the three passes ends
CHECK_DEADLOCK FALSE
