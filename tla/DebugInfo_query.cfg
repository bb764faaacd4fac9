SPECIFICATION Spec
CONSTANTS
    MaxDies = 5
    Die <- MCDie
    Root = Root
    Child <- MCChild
    TypeDie <- MCTypeDie
    NoType = NoType
    NoBound = NoBound
    NoConst = NoConst
    IntLimit = 16
    NoName = NoName
    NoLinkageName = NoLinkageName
    NoFunc = NoFunc
    Inst <- MCInst
    LineOf <- MCLineOf
INVARIANTS TypeOK ExactlyTheKnown QueryFindsTheSame AbortsOnTwins
\* the query has loaded the file, or an assertion failed
CHECK_DEADLOCK FALSE
