-------------------------- MODULE CallStack_proofs --------------------------
(***************************************************************************)
(* What the operations of CallStack do to a stack, for every stack: the    *)
(* lemmas that the proofs about its readers rest on.                       *)
(***************************************************************************)
EXTENDS CallStack, SequenceTheorems, WellFoundedInduction, TLAPS

\* The frame bases of a stack strictly decrease from the bottom to the top.
Decreasing(calls) ==
    \A i, j \in 1 .. Len(calls) : i < j => calls[i].frameBase > calls[j].frameBase

\* The calls of a stack are records with an integer frame base.
AreFrames(S) == \A c \in S : c.frameBase \in Int

\* Every call of one stack is on the other.
Among(calls, others) == \A i \in 1 .. Len(calls) : \E j \in 1 .. Len(others) : others[j] = calls[i]

\* Every nonempty set of natural numbers has a least element: the library's
\* well-founded order on Nat, for a set.
LEMMA LeastExists ==
    ASSUME NEW S \in SUBSET Nat, S # {}
    PROVE  \E m \in S : \A k \in S : m <= k
<1> DEFINE R == {ss \in Nat \X Nat : ss[1] < ss[2]}
<1>1. IsWellFoundedOn(R, Nat)
  BY NatLessThanWellFounded DEF OpToRel
<1>2. PICK x \in S : \A y \in S : ~(<<y, x>> \in R)
  <2> HIDE DEF R
  <2> QED BY <1>1, WFMin
<1>3. \A y \in S : <<y, x>> \in Nat \X Nat
  OBVIOUS
<1>4. \A y \in S : ~(y < x)
  BY <1>2, <1>3
<1>5. QED
  BY <1>4

\* Every nonempty set of natural numbers up to n has a greatest element.
LEMMA GreatestExists ==
    ASSUME NEW n \in Nat, NEW S \in SUBSET (0 .. n), S # {}
    PROVE  \E m \in S : \A k \in S : k <= m
<1> DEFINE T == {k \in Nat : n - k \in S}
<1>0. PICK s \in S : TRUE
  OBVIOUS
<1>1. n - s \in T
  OBVIOUS
<1>2. PICK m \in T : \A k \in T : m <= k
  <2> HIDE DEF T
  <2> QED BY <1>1, LeastExists DEF T
<1>3. \A k \in S : n - k \in T
  OBVIOUS
<1>4. \A k \in S : m <= n - k
  BY <1>2, <1>3
<1>5. QED
  BY <1>2, <1>4

\* The loop in push stops, and where it does: below the last call whose frame
\* base is above the new one.
LEMMA KeptIs ==
    ASSUME NEW S, NEW calls \in Seq(S), AreFrames(S), NEW base \in Int
    PROVE  /\ Kept(calls, base) \in 0 .. Len(calls)
           /\ Kept(calls, base) > 0 => calls[Kept(calls, base)].frameBase > base
           /\ \A i \in Kept(calls, base) + 1 .. Len(calls) : calls[i].frameBase <= base
<1> DEFINE Stops(n) == /\ n > 0 => calls[n].frameBase > base
                       /\ \A i \in n + 1 .. Len(calls) : calls[i].frameBase <= base
           Above == {n \in 1 .. Len(calls) : calls[n].frameBase > base}
<1>1. Len(calls) \in Nat /\ \A i \in 1 .. Len(calls) : calls[i].frameBase \in Int
  BY ElementOfSeq, LenProperties DEF AreFrames
<1>2. \E n \in 0 .. Len(calls) : Stops(n)
  <2>1. CASE Above = {}
    <3>1. \A i \in 1 .. Len(calls) : calls[i].frameBase <= base
      BY <1>1, <2>1
    <3>2. Stops(0)
      BY <1>1, <3>1
    <3>3. QED
      BY <1>1, <3>2
  <2>2. CASE Above # {}
    <3>1. PICK m \in Above : \A k \in Above : k <= m
      <4>1. Above \in SUBSET (0 .. Len(calls))
        BY <1>1
      <4> HIDE DEF Above
      <4> QED BY <1>1, <2>2, <4>1, GreatestExists
    <3>2. Stops(m)
      BY <1>1, <3>1
    <3>3. QED
      BY <1>1, <3>1, <3>2
  <2>3. QED
    BY <2>1, <2>2
<1>3. Kept(calls, base) = CHOOSE n \in 0 .. Len(calls) : Stops(n)
  BY DEF Kept
<1>4. Kept(calls, base) \in 0 .. Len(calls) /\ Stops(Kept(calls, base))
  <2> HIDE DEF Stops
  <2> QED BY <1>2, <1>3
<1>5. QED
  BY <1>4

\* On a stack with decreasing frame bases push keeps exactly the calls above the
\* new frame base, and leaves a stack with decreasing frame bases.
LEMMA PushIs ==
    ASSUME NEW S, NEW calls \in Seq(S), AreFrames(S), NEW call \in S, Decreasing(calls)
    PROVE  /\ Push(calls, call) \in Seq(S)
           /\ Decreasing(Push(calls, call))
           /\ Len(Push(calls, call)) \in 1 .. Len(calls) + 1
           /\ Push(calls, call)[Len(Push(calls, call))] = call
           /\ \A i \in 1 .. Len(Push(calls, call)) - 1 :
                Push(calls, call)[i] = calls[i] /\ calls[i].frameBase > call.frameBase
           /\ \A i \in Len(Push(calls, call)) .. Len(calls) : calls[i].frameBase <= call.frameBase
<1> DEFINE n == Kept(calls, call.frameBase)
           rest == SubSeq(calls, 1, n)
<1>1. Len(calls) \in Nat /\ \A i \in 1 .. Len(calls) : calls[i] \in S /\ calls[i].frameBase \in Int
  BY ElementOfSeq, LenProperties DEF AreFrames
<1>2. call.frameBase \in Int
  BY DEF AreFrames
<1>3. /\ n \in 0 .. Len(calls)
      /\ n > 0 => calls[n].frameBase > call.frameBase
      /\ \A i \in n + 1 .. Len(calls) : calls[i].frameBase <= call.frameBase
  BY <1>2, KeptIs
<1> HIDE DEF n
<1>4. \A i \in 1 .. n : calls[i].frameBase > call.frameBase
  <2> TAKE i \in 1 .. n
  <2>1. CASE i = n
    BY <1>3, <2>1
  <2>2. CASE i < n
    <3>1. calls[i].frameBase > calls[n].frameBase
      BY <1>1, <1>3, <2>2 DEF Decreasing
    <3>2. QED
      BY <1>1, <1>2, <1>3, <2>2, <3>1
  <2>3. QED
    BY <1>3, <2>1, <2>2
<1>5. rest \in Seq(S) /\ Len(rest) = n /\ \A i \in 1 .. n : rest[i] = calls[i]
  BY <1>1, <1>3, SubSeqProperties
<1>6. /\ Append(rest, call) \in Seq(S)
      /\ Len(Append(rest, call)) = n + 1
      /\ \A i \in 1 .. n : Append(rest, call)[i] = calls[i]
      /\ Append(rest, call)[n + 1] = call
  <2> HIDE DEF rest
  <2> QED BY <1>5, AppendProperties
<1>7. Push(calls, call) = Append(rest, call)
  BY DEF Push, n
<1>8. Decreasing(Push(calls, call))
  <2> SUFFICES ASSUME NEW i \in 1 .. n + 1, NEW j \in 1 .. n + 1, i < j
               PROVE  Append(rest, call)[i].frameBase > Append(rest, call)[j].frameBase
    BY <1>6, <1>7 DEF Decreasing
  <2>1. CASE j = n + 1
    BY <1>3, <1>4, <1>6, <2>1
  <2>2. CASE j < n + 1
    BY <1>1, <1>3, <1>6, <2>2 DEF Decreasing
  <2>3. QED
    BY <1>3, <2>1, <2>2
<1>9. QED
  BY <1>1, <1>3, <1>4, <1>6, <1>7, <1>8

\* Pop takes the top off and leaves the other calls as they are.
LEMMA PopIs ==
    ASSUME NEW S, NEW calls \in Seq(S), calls # <<>>
    PROVE  /\ Pop(calls) \in Seq(S)
           /\ Len(calls) \in Nat \ {0}
           /\ Len(Pop(calls)) = Len(calls) - 1
           /\ \A i \in 1 .. Len(calls) - 1 : Pop(calls)[i] = calls[i]
<1>1. Len(calls) \in Nat \ {0} /\ \A i \in 1 .. Len(calls) : calls[i] \in S
  BY ElementOfSeq, EmptySeq
<1> DEFINE n == Len(calls) - 1
<1>2. n \in 0 .. Len(calls)
  BY <1>1
<1> HIDE DEF n
<1>3. /\ SubSeq(calls, 1, n) \in Seq(S)
      /\ Len(SubSeq(calls, 1, n)) = n
      /\ \A i \in 1 .. n : SubSeq(calls, 1, n)[i] = calls[i]
  BY <1>1, <1>2, SubSeqProperties
<1>4. Pop(calls) = SubSeq(calls, 1, n)
  BY DEF Pop, n
<1>5. QED
  BY <1>1, <1>3, <1>4 DEF n

\* Two stacks with decreasing frame bases and the same calls are equal.
LEMMA SameCalls ==
    ASSUME NEW S, NEW s \in Seq(S), NEW u \in Seq(S), AreFrames(S),
           Decreasing(s), Decreasing(u),
           Among(s, u), Among(u, s)
    PROVE  s = u
<1>1. /\ Len(s) \in Nat /\ \A i \in 1 .. Len(s) : s[i].frameBase \in Int
      /\ Len(u) \in Nat /\ \A i \in 1 .. Len(u) : u[i].frameBase \in Int
  BY ElementOfSeq, LenProperties DEF AreFrames
<1>2. ASSUME NEW d \in 1 .. Len(s), d \in 1 .. Len(u), s[d] # u[d]
      PROVE  FALSE
  <2> DEFINE Differ == {i \in Nat : i \in 1 .. Len(s) /\ i \in 1 .. Len(u) /\ s[i] # u[i]}
  <2>1. d \in Differ
    BY <1>1, <1>2
  <2>2. PICK m \in Differ : \A k \in Differ : m <= k
    <3>1. Differ \in SUBSET Nat
      OBVIOUS
    <3> HIDE DEF Differ
    <3> QED BY <2>1, <3>1, LeastExists
  <2>3. m \in Nat /\ m \in 1 .. Len(s) /\ m \in 1 .. Len(u) /\ s[m] # u[m]
    BY <2>2
  <2>4. ASSUME NEW k \in 1 .. m - 1 PROVE s[k] = u[k]
    <3>1. k \in Nat /\ k \in 1 .. Len(s) /\ k \in 1 .. Len(u) /\ ~(m <= k)
      BY <1>1, <2>3
    <3>2. k \notin Differ
      <4> HIDE DEF Differ
      <4> QED BY <2>2, <3>1
    <3>3. QED
      BY <3>1, <3>2
  <2> HIDE DEF Differ
  <2>5. PICK j \in 1 .. Len(u) : u[j] = s[m]
    BY <2>3 DEF Among
  <2>6. PICK i \in 1 .. Len(s) : s[i] = u[m]
    BY <2>3 DEF Among
  <2>7. j > m
    <3>1. CASE j < m
      <4>1. s[j] = s[m]
        BY <1>1, <2>3, <2>4, <2>5, <3>1
      <4>2. s[j].frameBase > s[m].frameBase
        BY <1>1, <2>3, <3>1 DEF Decreasing
      <4>3. QED
        BY <1>1, <2>3, <4>1, <4>2
    <3>2. QED
      BY <1>1, <2>3, <2>5, <3>1
  <2>8. i > m
    <3>1. CASE i < m
      <4>1. u[i] = u[m]
        BY <1>1, <2>3, <2>4, <2>6, <3>1
      <4>2. u[i].frameBase > u[m].frameBase
        BY <1>1, <2>3, <3>1 DEF Decreasing
      <4>3. QED
        BY <1>1, <2>3, <4>1, <4>2
    <3>2. QED
      BY <1>1, <2>3, <2>6, <3>1
  <2>9. u[m].frameBase > u[j].frameBase /\ s[m].frameBase > s[i].frameBase
    BY <1>1, <2>3, <2>7, <2>8 DEF Decreasing
  <2>10. QED
    BY <1>1, <2>3, <2>5, <2>6, <2>9
<1>3. \A i \in 1 .. Len(s) : i \in 1 .. Len(u) => s[i] = u[i]
  BY <1>2
<1>4. ASSUME Len(s) > Len(u) PROVE FALSE
  <2>1. Len(u) + 1 \in 1 .. Len(s)
    BY <1>1, <1>4
  <2>2. PICK j \in 1 .. Len(u) : u[j] = s[Len(u) + 1]
    BY <2>1 DEF Among
  <2>3. j \in 1 .. Len(s) /\ j < Len(u) + 1
    BY <1>1, <1>4
  <2>4. s[j] = s[Len(u) + 1]
    BY <1>3, <2>2, <2>3
  <2>5. s[j].frameBase > s[Len(u) + 1].frameBase
    BY <2>1, <2>3 DEF Decreasing
  <2>6. QED
    BY <1>1, <2>1, <2>4, <2>5
<1>5. ASSUME Len(u) > Len(s) PROVE FALSE
  <2>1. Len(s) + 1 \in 1 .. Len(u)
    BY <1>1, <1>5
  <2>2. PICK i \in 1 .. Len(s) : s[i] = u[Len(s) + 1]
    BY <2>1 DEF Among
  <2>3. i \in 1 .. Len(u) /\ i < Len(s) + 1
    BY <1>1, <1>5
  <2>4. u[i] = u[Len(s) + 1]
    BY <1>3, <2>2, <2>3
  <2>5. u[i].frameBase > u[Len(s) + 1].frameBase
    BY <2>1, <2>3 DEF Decreasing
  <2>6. QED
    BY <1>1, <2>1, <2>4, <2>5
<1>6. Len(s) = Len(u)
  BY <1>1, <1>4, <1>5
<1>7. QED
  BY <1>3, <1>6, SeqEqual
=============================================================================
