SPECIFICATION Spec
CONSTANTS
    Thread <- MCThread
    Thread0 = 0
    Func <- MCFunc
    Vars <- MCVars
    FrameSize <- MCFrameSize
    ArgSize <- MCArgSize
    Bases <- MCBases
    StaticVars <- MCStaticVars
    StackBound = 5
    MaxSilent = 2
INVARIANT RetMeetsItsCall
\* a failed assertion ends the tool
CHECK_DEADLOCK FALSE
