--------------------------- MODULE AccessPattern ---------------------------
(***************************************************************************)
(* The pattern recognition of the query program (src/src/query/pattern):   *)
(* a PatternAnalyzer gives every access to one variable to its three       *)
(* AccessPatterns.  Each slides a window over the accesses; Consecutive    *)
(* and RW turn a match of the window into a MatchInfo and join matches     *)
(* that chain into groups; Stat counts the windows by a hash of their      *)
(* shape and reports no match.                                             *)
(*                                                                         *)
(* An access is [accessType, addr]; a MatchInfo is [beginAddr, endAddr,    *)
(* sz, index].                                                             *)
(***************************************************************************)
EXTENDS Integers, Sequences, SequencesExt, FiniteSets, Functions

CONSTANTS Access,          \* the accesses: a set of [accessType, addr]
          TypeSize,        \* the size of the variable's element type
          MIN_GROUP_SIZE,  \* smaller groups are not reported
          MAX_HALF_OFFSET, \* Stat looks this far to both sides of the first access
          MaxAccesses      \* bound: how many accesses are analysed

SizeAssumption == /\ TypeSize \in Nat /\ MIN_GROUP_SIZE \in Nat /\ MAX_HALF_OFFSET \in Nat \ {0}
                  /\ Access \subseteq [accessType : {"Read", "Write"}, addr : Nat]

VARIABLES trace,     \* history: the accesses so far
          accesses,  \* the window of each pattern
          matches,   \* the groups of each pattern
          matched, processed,
          matchesPool, \* Stat: the number of windows, and their name, by hashCode
          reported   \* getMatches has been called: matches is what it returned

vars == <<trace, accesses, matches, matched, processed, matchesPool, reported>>

Pattern == {"Consecutive", "Stat", "RW"}
WINDOW_SIZE == [p \in Pattern |-> IF p = "Stat" THEN 3 ELSE 2]

Init == /\ trace = <<>>
        /\ accesses = [p \in Pattern |-> <<>>]
        /\ matches = [p \in Pattern |-> <<>>]
        /\ matched = [p \in Pattern |-> 0] /\ processed = [p \in Pattern |-> 0]
        /\ matchesPool = <<>>
        /\ reported = FALSE
-----------------------------------------------------------------------------
(* MatchInfo and the groups *)

MatchInfo(window, index) ==
    [beginAddr |-> Head(window).addr, endAddr |-> Last(window).addr, sz |-> 1, index |-> index]

\* Variant of IsMergable: the next match has to begin behind the group.
IsMergableBehind(group, match) == match.beginAddr = group.endAddr + TypeSize

IsMergable(group, match) == match.beginAddr = group.endAddr

\* Variant of Updated: the end of the group stays.
UpdatedSize(group, match) == [group EXCEPT !.sz = @ + match.sz]

Updated(group, match) == [group EXCEPT !.endAddr = match.endAddr, !.sz = @ + match.sz]

\* The last match joins the group before it; if it cannot and that group is
\* small, it is the match that is erased, and not the small group.
MergeMatches(groups) ==
    LET prev == groups[Len(groups) - 1]
        cur == Last(groups)
    IN IF Len(groups) <= 1 THEN groups
       ELSE IF IsMergable(prev, cur) THEN Append(Front(Front(groups)), Updated(prev, cur))
       ELSE IF prev.sz < MIN_GROUP_SIZE THEN Front(groups)
       ELSE groups
-----------------------------------------------------------------------------
(* match() of each pattern *)

SameType(window) == window[1].accessType = window[2].accessType

Matches(p, window) ==
    CASE p = "Consecutive" -> SameType(window) /\ window[2].addr - window[1].addr = TypeSize
      [] p = "RW" -> SameType(window) /\ window[2].addr = window[1].addr
      [] p = "Stat" -> FALSE

\* Variant of Factor: no room for the access type.
FactorHalf == MAX_HALF_OFFSET * 2

Factor == MAX_HALF_OFFSET * 2 * 2

TypeBit(a) == IF a.accessType = "Read" THEN 0 ELSE 1

\* StatPattern::accessHashCode
AccessHashCode(a, baseAddr) == 2 * (a.addr - baseAddr) + TypeBit(a)

BaseAddr(window) == window[1].addr - MAX_HALF_OFFSET

InRange(window) ==
    \A i \in 2 .. 3 : window[i].addr - BaseAddr(window) \in 0 .. 2 * MAX_HALF_OFFSET - 1

HashCode(window) ==
    LET code(i) == AccessHashCode(window[i], BaseAddr(window))
    IN (code(1) * Factor + code(2)) * Factor + code(3)

Name(window) == [i \in DOMAIN window |-> window[i].accessType]

\* StatPattern::match: a window with a far access, or with the hash code but not
\* the name of an entry, is not counted.
PoolAfter(window) ==
    LET h == HashCode(window)
    IN IF ~InRange(window) THEN matchesPool
       ELSE IF h \notin DOMAIN matchesPool
            THEN [k \in DOMAIN matchesPool \cup {h} |->
                    IF k = h THEN [size |-> 1, name |-> Name(window)] ELSE matchesPool[k]]
       ELSE IF matchesPool[h].name # Name(window) THEN matchesPool
       ELSE [matchesPool EXCEPT ![h].size = @ + 1]
-----------------------------------------------------------------------------
IsFull(p, window) == Len(window) >= WINDOW_SIZE[p]

Slide(p, a) == Append(IF IsFull(p, accesses[p]) THEN Tail(accesses[p]) ELSE accesses[p], a)

\* pushAccess: process(a) of each pattern.
PushAccess(a) ==
    /\ ~reported
    /\ Len(trace) < MaxAccesses
    /\ trace' = Append(trace, a)
    /\ accesses' = [p \in Pattern |-> Slide(p, a)]
    /\ LET hits(p) == IsFull(p, accesses'[p]) /\ Matches(p, accesses'[p])
       IN /\ matched' = [p \in Pattern |-> matched[p] + (IF hits(p) THEN 1 ELSE 0)]
          /\ matches' = [p \in Pattern |->
                IF hits(p)
                THEN MergeMatches(Append(matches[p], MatchInfo(accesses'[p], processed[p])))
                ELSE matches[p]]
    /\ processed' = [p \in Pattern |-> processed[p] + 1]
    /\ matchesPool' = IF IsFull("Stat", accesses'["Stat"])
                      THEN PoolAfter(accesses'["Stat"]) ELSE matchesPool
    /\ UNCHANGED reported

\* Variant of Reported: the last group is returned whatever its size.
ReportedAll(groups) == groups

\* The last group goes if it is small.
Reported(groups) ==
    IF groups # <<>> /\ Last(groups).sz < MIN_GROUP_SIZE THEN Front(groups) ELSE groups

GetMatches ==
    /\ ~reported
    /\ matches' = [p \in Pattern |-> Reported(matches[p])]
    /\ reported' = TRUE
    /\ UNCHANGED <<trace, accesses, matched, processed, matchesPool>>

Next == (\E a \in Access : PushAccess(a)) \/ GetMatches

Spec == Init /\ [][Next]_vars
-----------------------------------------------------------------------------
Group == [beginAddr : Int, endAddr : Int, sz : Nat \ {0}, index : Nat]

\* Types; a window is never longer than its size (the assertion of push_back).
TypeOK == /\ \A p \in Pattern : /\ accesses[p] \in Seq(Access)
                                /\ Len(accesses[p]) <= WINDOW_SIZE[p]
                                /\ matches[p] \in Seq(Group)
          /\ matched \in [Pattern -> Nat] /\ processed \in [Pattern -> Nat]
          /\ \A h \in DOMAIN matchesPool : h \in Nat /\ matchesPool[h].size \in Nat \ {0}
          /\ reported \in BOOLEAN

Step(p) == IF p = "Consecutive" THEN TypeSize ELSE 0

\* No group below MIN_GROUP_SIZE is reported: getMatches looks at the last group
\* only (accesspattern.cpp:84), so mergeMatches must keep all others large.
NoSmallGroupReported ==
    reported =>
        \A p \in Pattern : \A g \in ToSet(matches[p]) : g.sz >= MIN_GROUP_SIZE

\* However matches were merged and erased, a group of sz matches spans exactly
\* sz elements of the variable (none for RW), and begins at the access its index
\* names; and none that is reported is too small.
GroupsAreChains ==
    /\ \A p \in Pattern : \A g \in ToSet(matches[p]) :
         /\ g.endAddr = g.beginAddr + g.sz * Step(p)
         /\ trace[g.index].addr = g.beginAddr
         /\ trace[g.index + 1].addr = g.beginAddr + Step(p)
    /\ NoSmallGroupReported

\* The places of the matching windows of p in the trace, by their last access.
MatchingAt(p) == {i \in 2 .. Len(trace) : Matches(p, SubSeq(trace, i - 1, i))}

\* i begins a maximal run of matching windows.
RunLength(p, i) ==
    CHOOSE n \in 1 .. Len(trace) : /\ i .. i + n - 1 \subseteq MatchingAt(p)
                                   /\ i + n \notin MatchingAt(p)

SumOfSizes(groups) == FoldLeft(LAMBDA sum, g : sum + g.sz, 0, groups)

\* When every maximal run of matches is long enough to be a group, every match
\* is in a reported group.  (With a shorter run in the trace it need not be: the
\* small group it leaves behind makes mergeMatches erase whole runs after it.)
LongRunsAreReported ==
    reported =>
        \A p \in {"Consecutive", "RW"} :
            (\A i \in MatchingAt(p) : i - 1 \in MatchingAt(p) \/ RunLength(p, i) >= MIN_GROUP_SIZE)
            => SumOfSizes(matches[p]) = Cardinality(MatchingAt(p))

\* The accesses a hash code stands for, as StatMatchImpl::str decodes it.
Decoded(h) ==
    LET code == <<(h \div Factor) \div Factor, (h \div Factor) % Factor, h % Factor>>
    IN [i \in 1 .. 3 |-> [accessType |-> IF code[i] % 2 = 0 THEN "Read" ELSE "Write",
                          addr |-> code[i] \div 2 - MAX_HALF_OFFSET]]

\* A window as seen from its first access.
Relative(window) == [i \in 1 .. 3 |-> [window[i] EXCEPT !.addr = @ - window[1].addr]]

\* What Stat would print is the trace's own statistics: each entry's size is the
\* number of windows of the shape its hash code decodes to, no shape within range
\* is missing, and no two shapes share an entry.
StatCountsShapes ==
    LET windows == {i \in 3 .. Len(trace) : InRange(SubSeq(trace, i - 2, i))}
        shape(i) == Relative(SubSeq(trace, i - 2, i))
    IN /\ \A h \in DOMAIN matchesPool :
            matchesPool[h].size = Cardinality({i \in windows : shape(i) = Decoded(h)})
       /\ \A i \in windows : \E h \in DOMAIN matchesPool : Decoded(h) = shape(i)
=============================================================================
