-------------------------------- MODULE Query --------------------------------
(***************************************************************************)
(* The query program (src/src/query/query.cpp): main asks the QueryManager *)
(* for the access matrix, the locality figures and the access patterns,    *)
(* and prints the three.  Each call begins with EventManager::reset and    *)
(* keeps all it computes in objects of its own, so none can see another:   *)
(* call says which of them is looked at, and its component takes steps.    *)
(*                                                                         *)
(* Locality and AccessPattern take what the filter of QueryManager let     *)
(* pass: reads and writes of variables, for AccessPattern those of one     *)
(* variable, as getAccessPatterns has an analyzer for each.                *)
(***************************************************************************)
EXTENDS Integers, Sequences

CONSTANTS Thread, Func, NoFunc, Var, NoVar, Tag, NoTag, MaxConfig, MaxEvents, \* QueryManager
          Addr, Levels, WindowSize, StrideSize, IntLimit, MaxWords,           \* Locality
          Access, TypeSize, MIN_GROUP_SIZE, MAX_HALF_OFFSET, MaxAccesses      \* AccessPattern

VARIABLES call,
          threadsEnabled, threads, funcsEnabled, funcs, entries, seen, phase, configs, events,
          stride, window, windowIndex, accessCount, caches, reuseDiff, totalAccesses, words,
          accesses, matches, matched, processed, matchesPool, reported, pushed

matrixVars == <<threadsEnabled, threads, funcsEnabled, funcs, entries, seen, phase, configs, events>>
localityVars == <<stride, window, windowIndex, accessCount, caches, reuseDiff, totalAccesses, words>>
patternVars == <<accesses, matches, matched, processed, matchesPool, reported, pushed>>
vars == <<call, matrixVars, localityVars, patternVars>>

Matrix == INSTANCE QueryManager WITH trace <- events
Localities == INSTANCE Locality WITH trace <- words, MaxAccesses <- MaxWords
Patterns == INSTANCE AccessPattern WITH trace <- pushed

ASSUME ComponentAssumptions ==
    Matrix!IdAssumption /\ Localities!SizeAssumption /\ Patterns!SizeAssumption
-----------------------------------------------------------------------------
Init == /\ call \in {"getAccessMatrix", "getLocalities", "getAccessPatterns"}
        /\ Matrix!Init /\ Localities!Init /\ Patterns!Init

GetAccessMatrix == /\ call = "getAccessMatrix" /\ Matrix!Next
                   /\ UNCHANGED <<call, localityVars, patternVars>>

GetLocalities == /\ call = "getLocalities" /\ Localities!Next
                 /\ UNCHANGED <<call, matrixVars, patternVars>>

GetAccessPatterns == /\ call = "getAccessPatterns" /\ Patterns!Next
                     /\ UNCHANGED <<call, matrixVars, localityVars>>

Next == GetAccessMatrix \/ GetLocalities \/ GetAccessPatterns

Spec == Init /\ [][Next]_vars
-----------------------------------------------------------------------------
TypeOK == Matrix!TypeOK /\ Localities!TypeOK /\ Patterns!TypeOK

\* The matrix counts just the accesses the QueryContext lets pass, and its table
\* shows them (getAccessMatrix, AccessMatrix).
MatrixIsExact == Matrix!MatrixIsExact

\* The caches of doubling sizes measure the stack distance of each access, the
\* number of other words since the last access to the same (TemporalLocality).
ReuseIsStackDistance == Localities!ReuseIsStackDistance

\* The strides are the distances to the access of a window ago (SpatialLocality).
StridesAreExact == Localities!StridesAreExact

\* The two figures printed are shares of the accesses, or no numbers without one
\* (getValue).
FiguresAreShares == Localities!FiguresAreShares

\* A reported group is a chain of matches of the trace, none too small
\* (AccessPattern::process, mergeMatches, getMatches).
GroupsAreChains == Patterns!GroupsAreChains

\* No match is lost of a trace whose runs are all long enough (mergeMatches).
LongRunsAreReported == Patterns!LongRunsAreReported

\* Stat counts each shape of three accesses under a hash code of its own
\* (StatPattern::match).
StatCountsShapes == Patterns!StatCountsShapes
=============================================================================
