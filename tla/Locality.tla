------------------------------ MODULE Locality ------------------------------
(***************************************************************************)
(* The locality figures of the query program (src/src/query/locality):     *)
(* getLocalities gives the address of every accepted access to a variable  *)
(* to SpatialLocality, a histogram of the distances to the access of a     *)
(* window ago, and to TemporalLocality, which asks LRU caches of doubling  *)
(* sizes (LRUCache) for the word.  Both count in words of 8 bytes.  The    *)
(* figures (getValue) are fractions of the counts; the rounding of double  *)
(* is left out.                                                            *)
(***************************************************************************)
EXTENDS Integers, Sequences, SequencesExt, FiniteSets, FiniteSetsExt

CONSTANTS Addr,        \* addresses
          Levels,      \* the number of caches, log2(N) + 1
          WindowSize,  \* DEFAULT_WINDOW_SIZE
          StrideSize,  \* strides below this are counted
          IntLimit,    \* 2^31: abs takes an int
          MaxAccesses  \* bound: how many addresses are added

SizeAssumption == /\ Levels \in Nat \ {0, 1} /\ WindowSize \in Nat \ {0}
                  /\ StrideSize \in Nat /\ IntLimit \in Nat \ {0} /\ StrideSize <= IntLimit
                  /\ Addr \subseteq Nat

VARIABLES trace,                  \* history: the words of the addresses so far
          stride, window, windowIndex, accessCount,   \* SpatialLocality
          caches, reuseDiff, totalAccesses            \* TemporalLocality

spatialVars == <<stride, window, windowIndex, accessCount>>
temporalVars == <<caches, reuseDiff, totalAccesses>>
vars == <<trace, spatialVars, temporalVars>>

Level == 0 .. Levels - 1

Init == /\ trace = <<>>
        /\ stride = [d \in 0 .. StrideSize - 1 |-> 0]
        /\ window = [i \in 0 .. WindowSize - 1 |-> 0]
        /\ windowIndex = 0 /\ accessCount = 0
        /\ caches = [i \in Level |-> [keyMap |-> {}, keyList |-> <<>>]]
        /\ reuseDiff = [i \in Level |-> 0]
        /\ totalAccesses = 0
-----------------------------------------------------------------------------
(* LRUCache *)

\* The constructor of TemporalLocality doubles cacheSize from cache to cache, and
\* gives each one more.
CacheSize[i \in Nat] == IF i = 0 THEN 1 ELSE 2 * CacheSize[i - 1]

MaxSize(i) == CacheSize[i] + 1

HasKey(cache, key) == key \in cache.keyMap

\* Variant of Put: the list keeps the old place of the key too.
PutTwice(cache, key, maxSize) ==
    LET keys == cache.keyMap \cup {key}
        list == <<key>> \o cache.keyList
    IN IF Cardinality(keys) > maxSize
       THEN [keyMap |-> keys \ {Last(list)}, keyList |-> Front(list)]
       ELSE [keyMap |-> keys, keyList |-> list]

\* The list without the node that the map has for the key.
Erase(cache, key) ==
    LET node == CHOOSE n \in 1 .. Len(cache.keyList) : cache.keyList[n] = key
    IN IF HasKey(cache, key) THEN RemoveAt(cache.keyList, node) ELSE cache.keyList

Put(cache, key, maxSize) ==
    LET keys == cache.keyMap \cup {key}
        list == <<key>> \o Erase(cache, key)
    IN IF Cardinality(keys) > maxSize
       THEN [keyMap |-> keys \ {Last(list)}, keyList |-> Front(list)]
       ELSE [keyMap |-> keys, keyList |-> list]
-----------------------------------------------------------------------------
\* Whether cache i is the first one that has the word.
HitLevel(word, i) == /\ HasKey(caches[i], word)
                     /\ \A j \in 0 .. i - 1 : ~HasKey(caches[j], word)

AddTemporal(word) ==
    /\ totalAccesses' = totalAccesses + 1
    /\ reuseDiff' = [i \in Level |-> reuseDiff[i] + (IF HitLevel(word, i) THEN 1 ELSE 0)]
    /\ caches' = [i \in Level |-> Put(caches[i], word, MaxSize(i))]

\* The conversion of a difference of words to int.
ToInt(n) == ((n + IntLimit) % (2 * IntLimit)) - IntLimit

\* abs of the one int without a positive counterpart stays negative, and is then
\* converted to the largest size_t values.
Distance(diff) == LET d == ToInt(diff)
                  IN IF d = -IntLimit THEN 2 * IntLimit ELSE IF d < 0 THEN -d ELSE d

\* Variant of NextIndex: the ring has one place too few.
NextIndexShort == (windowIndex + 1) % (IF WindowSize > 1 THEN WindowSize - 1 ELSE 1)

\* Variant of NextIndex: the ring has one place too many.
NextIndexLong == (windowIndex + 1) % (WindowSize + 1)

NextIndex == (windowIndex + 1) % WindowSize

\* The loop over the window ends with its first round: only the oldest entry, at
\* windowIndex, is compared.
AddSpatial(word) ==
    /\ LET minStride == Distance(window[windowIndex] - word)
       IN stride' = IF minStride < StrideSize THEN [stride EXCEPT ![minStride] = @ + 1]
                    ELSE stride
    /\ window' = [window EXCEPT ![windowIndex] = word]
    /\ windowIndex' = NextIndex
    /\ accessCount' = accessCount + 1

Add(addr) ==
    /\ Len(trace) < MaxAccesses
    /\ LET word == addr \div 8
       IN /\ trace' = Append(trace, word)
          /\ AddSpatial(word)
          /\ AddTemporal(word)

Next == \E addr \in Addr : Add(addr)

Spec == Init /\ [][Next]_vars
-----------------------------------------------------------------------------
(* getValue: a double is a fraction [num, den]; with den = 0 it is no number *)

\* A common multiple of the divisors i + 1.
Scale == ProductSet(1 .. StrideSize)

SpatialValue ==
    [num |-> MapThenSumSet(LAMBDA i : stride[i] * (Scale \div (i + 1)), 0 .. StrideSize - 1),
     den |-> Scale * accessCount]

log2N == Levels - 1

\* Variant of TemporalValue: the loop begins with the entry counted before it.
TemporalValueTwice ==
    [num |-> reuseDiff[1] * log2N
             + MapThenSumSet(LAMBDA i : reuseDiff[i] * (log2N - i), 1 .. log2N),
     den |-> log2N * totalAccesses]

\* reuseDiff[0] has no part in it.
TemporalValue ==
    [num |-> reuseDiff[1] * log2N
             + MapThenSumSet(LAMBDA i : reuseDiff[i] * (log2N - i), 2 .. log2N),
     den |-> log2N * totalAccesses]
-----------------------------------------------------------------------------
Words == {addr \div 8 : addr \in Addr}

TypeOK == /\ window \in [0 .. WindowSize - 1 -> Words \cup {0}]
          /\ windowIndex \in 0 .. WindowSize - 1
          /\ stride \in [0 .. StrideSize - 1 -> Nat]
          /\ \A i \in Level : /\ caches[i].keyMap \subseteq Words
                              /\ caches[i].keyList \in Seq(Words)
          /\ reuseDiff \in [Level -> Nat]
          /\ accessCount = Len(trace) /\ totalAccesses = Len(trace)

\* The map and the list of an LRUCache hold the same keys, each once, and no more
\* than fit: an iterator of the map never refers to an element that was erased.
MapMatchesList ==
    \A i \in Level : LET c == caches[i]
                     IN /\ c.keyMap = ToSet(c.keyList)
                        /\ IsInjective(c.keyList)
                        /\ Len(c.keyList) <= MaxSize(i)

\* The number of distinct words since the last access to the word of access k,
\* itself included; 0 for the first access to it.
StackDistance(k) ==
    LET before == {j \in 1 .. k - 1 : trace[j] = trace[k]}
        last == CHOOSE j \in before : \A i \in before : i <= j
    IN IF before = {} THEN 0 ELSE Cardinality({trace[j] : j \in last .. k - 1})

\* The first level whose cache is large enough for the distance d.
LevelOf(d) == CHOOSE i \in Level : d <= MaxSize(i) /\ \A j \in 0 .. i - 1 : d > MaxSize(j)

Reused == {k \in 1 .. Len(trace) : StackDistance(k) \in 1 .. MaxSize(log2N)}

\* reuseDiff is the histogram of the stack distances of the whole trace: entry i
\* counts the accesses with a distance that fits cache i and none before it,
\* however many keys were put again or evicted.
ReuseIsStackDistance ==
    /\ MapMatchesList
    /\ \A i \in Level : reuseDiff[i] = Cardinality({k \in Reused : LevelOf(StackDistance(k)) = i})

\* The word that access k is compared with: WindowSize accesses ago, or 0.
Oldest(k) == IF k <= WindowSize THEN 0 ELSE trace[k - WindowSize]

Apart(k) == IF trace[k] < Oldest(k) THEN Oldest(k) - trace[k] ELSE trace[k] - Oldest(k)

\* What int makes of the distance is d: up to sign it is d words from a multiple
\* of 2^32.
TakenFor(k, d) == Apart(k) % (2 * IntLimit) \in {d, 2 * IntLimit - d}

\* Access k is counted at d, where it does not belong: there is no access of a window
\* ago, or it is at another distance.
Misplaced(k, d) == TakenFor(k, d) /\ (k <= WindowSize \/ Apart(k) # d)

\* stride counts every access that is d words from the one of WindowSize accesses
\* ago, and beside these only the first ones of the trace, which are compared with
\* the zeros the window begins with, and those 2^32 words, or nearly, too far away.
StridesAreExact ==
    \A d \in 0 .. StrideSize - 1 :
        stride[d] = Cardinality({k \in WindowSize + 1 .. Len(trace) : Apart(k) = d})
                    + Cardinality({k \in 1 .. Len(trace) : Misplaced(k, d)})

\* What an access at level i adds to the temporal figure, in parts of log2N.
Weight(i) == IF i = 0 THEN 0 ELSE IF i = 1 THEN log2N ELSE log2N - i

\* Both figures are shares of the accesses, never above 1, and are no numbers
\* just when no access was accepted; the temporal one is the mean weight of the
\* stack distances, 0 for the closest and the farthest ones.
FiguresAreShares ==
    /\ \A value \in {SpatialValue, TemporalValue} :
            /\ value.num \in 0 .. value.den
            /\ value.den = 0 <=> trace = <<>>
    /\ TemporalValue.num = MapThenSumSet(LAMBDA k : Weight(LevelOf(StackDistance(k))), Reused)
=============================================================================
