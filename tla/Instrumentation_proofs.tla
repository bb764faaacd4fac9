----------------------- MODULE Instrumentation_proofs -----------------------
(***************************************************************************)
(* What is recorded of a program of any size, with any number of threads,  *)
(* images and blocks.                                                      *)
(***************************************************************************)
EXTENDS Instrumentation, CallStack_proofs, FiniteSetTheorems, TLAPS

-----------------------------------------------------------------------------
(* Counting the members of a sequence *)

Count(s, T) == Cardinality({i \in 1 .. Len(s) : s[i] \in T})

LEMMA CountNat ==
    ASSUME NEW S, NEW s \in Seq(S), NEW T
    PROVE  /\ IsFiniteSet({i \in 1 .. Len(s) : s[i] \in T})
           /\ Count(s, T) \in Nat
<1>1. Len(s) \in Nat
  OBVIOUS
<1>2. IsFiniteSet(1 .. Len(s))
  BY <1>1, FS_Interval
<1>3. {i \in 1 .. Len(s) : s[i] \in T} \in SUBSET (1 .. Len(s))
  OBVIOUS
<1>4. QED
  BY <1>2, <1>3, FS_Subset, FS_CardinalityType DEF Count

\* The members of both parts of a sequence are counted.
LEMMA CountConcat ==
    ASSUME NEW S, NEW s \in Seq(S), NEW t \in Seq(S), NEW T
    PROVE  Count(s \o t, T) = Count(s, T) + Count(t, T)
<1> DEFINE A == {i \in 1 .. Len(s) : s[i] \in T}
           B == {i \in 1 .. Len(t) : t[i] \in T}
           u == s \o t
           C == {i \in 1 .. Len(u) : u[i] \in T}
<1>1. PICK m \in Nat : m = Len(s)
  OBVIOUS
<1>2. PICK n \in Nat : n = Len(t)
  OBVIOUS
<1>3. /\ Len(u) = m + n
      /\ \A i \in 1 .. m : u[i] = s[i]
      /\ \A i \in 1 .. n : u[m + i] = t[i]
  <2>1. Len(u) = m + n /\ \A i \in 1 .. m + n : u[i] = IF i <= m THEN s[i] ELSE t[i - m]
    BY <1>1, <1>2, ConcatProperties
  <2>2. \A i \in 1 .. m : i \in 1 .. m + n /\ i <= m
    OBVIOUS
  <2>3. \A i \in 1 .. n : m + i \in 1 .. m + n /\ ~(m + i <= m) /\ (m + i) - m = i
    OBVIOUS
  <2> HIDE DEF u
  <2>4. QED
    BY <2>1, <2>2, <2>3
<1> HIDE DEF u
<1> DEFINE D == {m + i : i \in B}
           f == [i \in B |-> m + i]
<1>4. IsFiniteSet(A) /\ IsFiniteSet(B)
  BY CountNat
<1>5. C = A \cup D /\ A \cap D = {}
  <2>1. ASSUME NEW i \in C PROVE i \in A \/ i \in D
    <3>1. CASE i <= m
      BY <3>1, <1>1, <1>3
    <3>2. CASE i > m
      <4>1. i - m \in 1 .. n /\ m + (i - m) = i
        BY <3>2, <1>3
      <4>2. t[i - m] = u[i]
        BY <4>1, <1>3
      <4>3. QED
        BY <4>1, <4>2, <1>2
    <3>3. QED
      BY <3>1, <3>2, <1>3
  <2>2. A \subseteq C
    BY <1>1, <1>3
  <2>3. D \subseteq C
    <3>1. \A i \in 1 .. n : m + i \in 1 .. m + n
      OBVIOUS
    <3>2. QED
      BY <1>2, <1>3, <3>1
  <2>4. A \cap D = {}
    BY <1>1
  <2> HIDE DEF A, C, D
  <2>5. QED
    BY <2>1, <2>2, <2>3, <2>4
<1>6. f \in Bijection(B, D)
  <2>1. f \in [B -> D] /\ \A d \in D : \E i \in B : f[i] = d
    OBVIOUS
  <2>2. \A i, j \in B : f[i] = f[j] => i = j
    BY <1>2
  <2> HIDE DEF f, B, D
  <2>3. QED
    BY <2>1, <2>2 DEF Bijection, Injection, Surjection, IsInjective
<1>7. IsFiniteSet(D) /\ Cardinality(D) = Cardinality(B)
  <2> HIDE DEF D, B, f
  <2> QED BY <1>4, <1>6, FS_Bijection DEF ExistsBijection
<1>8. Cardinality(A \cup D) = Cardinality(A) + Cardinality(D) - 0
  <2> HIDE DEF A, D, B
  <2> QED BY <1>4, <1>5, <1>7, FS_Union, FS_EmptySet
<1>9. Cardinality(A) \in Nat /\ Cardinality(B) \in Nat
  <2> HIDE DEF A, B
  <2> QED BY <1>4, FS_CardinalityType
<1>10. Cardinality(C) = Cardinality(A) + Cardinality(B)
  <2> HIDE DEF A, B, C, D
  <2> QED BY <1>5, <1>7, <1>8, <1>9
<1>11. QED
  BY <1>10 DEF Count, u

LEMMA CountEmpty ==
    ASSUME NEW s, NEW T, Len(s) = 0
    PROVE  Count(s, T) = 0
<1>1. {i \in 1 .. Len(s) : s[i] \in T} = {}
  OBVIOUS
<1>2. QED
  BY <1>1, FS_EmptySet DEF Count

LEMMA CountOne ==
    ASSUME NEW e, NEW T
    PROVE  Count(<<e>>, T) = IF e \in T THEN 1 ELSE 0
<1>1. Len(<<e>>) = 1 /\ <<e>>[1] = e
  OBVIOUS
<1>2. {i \in 1 .. Len(<<e>>) : <<e>>[i] \in T} = IF e \in T THEN {1} ELSE {}
  BY <1>1
<1>3. QED
  BY <1>2, FS_Singleton, FS_EmptySet DEF Count

LEMMA CountAppend ==
    ASSUME NEW S, NEW s \in Seq(S), NEW e \in S, NEW T
    PROVE  Count(Append(s, e), T) = Count(s, T) + (IF e \in T THEN 1 ELSE 0)
<1> DEFINE u == <<e>>
<1>1. Append(s, e) = s \o u /\ u \in Seq(S)
  BY AppendIsConcat
<1>2. Count(u, T) = IF e \in T THEN 1 ELSE 0
  BY CountOne
<1> HIDE DEF u
<1>3. QED
  BY <1>1, <1>2, CountConcat

\* The first member is counted, or not, and then the others.
LEMMA CountTail ==
    ASSUME NEW S, NEW s \in Seq(S), s # <<>>, NEW T
    PROVE  Count(s, T) = Count(Tail(s), T) + (IF Head(s) \in T THEN 1 ELSE 0)
<1>1. s = <<Head(s)>> \o Tail(s) /\ <<Head(s)>> \in Seq(S) /\ Tail(s) \in Seq(S)
  OBVIOUS
<1>2. Count(s, T) = Count(<<Head(s)>>, T) + Count(Tail(s), T)
  <2> DEFINE h == <<Head(s)>>
             r == Tail(s)
  <2>1. h \in Seq(S) /\ r \in Seq(S) /\ s = h \o r
    BY <1>1
  <2> HIDE DEF h, r
  <2>2. Count(s, T) = Count(h, T) + Count(r, T)
    BY <2>1, CountConcat
  <2>3. QED
    BY <2>2 DEF h, r
<1>3. Count(Tail(s), T) \in Nat
  BY <1>1, CountNat
<1>4. QED
  BY <1>2, <1>3, CountOne

-----------------------------------------------------------------------------
(* The hooks that are put before an instruction *)

\* Each entry of flat is the concatenation of the sequences of ss up to there.
Flattens(flat, ss, n) ==
    \A i \in 1 .. n : flat[i] = IF i = 1 THEN ss[i] ELSE flat[i - 1] \o ss[i]

\* FlattenSeq puts the sequences after each other, so that counts add up.
LEMMA FlattenIs ==
    ASSUME NEW S, NEW m \in Nat, NEW ss \in [1 .. m -> Seq(S)]
    PROVE  \E flat \in [1 .. m -> Seq(S)] :
              Flattens(flat, ss, m) /\ (m > 0 => FlattenSeq(ss) = flat[m])
<1> DEFINE Bad == {n \in 0 .. m : ~\E g \in [1 .. n -> Seq(S)] : Flattens(g, ss, n)}
<1>1. Bad = {}
  <2> SUFFICES ASSUME Bad # {} PROVE FALSE
    OBVIOUS
  <2>1. PICK n \in Bad : \A k \in Bad : n <= k
    <3>1. Bad \in SUBSET Nat
      OBVIOUS
    <3> HIDE DEF Bad
    <3> QED BY <3>1, LeastExists
  <2>2. CASE n = 0
    <3>1. [i \in 1 .. 0 |-> <<>>] \in [1 .. 0 -> Seq(S)] /\ Flattens([i \in 1 .. 0 |-> <<>>], ss, 0)
      BY DEF Flattens
    <3>2. QED
      BY <2>1, <2>2, <3>1
  <2>3. CASE n > 0
    <3>1. PICK g \in [1 .. n - 1 -> Seq(S)] : Flattens(g, ss, n - 1)
      <4>1. n - 1 \in 0 .. m /\ ~(n <= n - 1)
        BY <2>1, <2>3
      <4>2. n - 1 \notin Bad
        <5> HIDE DEF Bad
        <5> QED BY <2>1, <4>1
      <4>3. QED
        BY <4>1, <4>2
    <3> DEFINE h == [i \in 1 .. n |-> IF i < n THEN g[i] ELSE IF n = 1 THEN ss[n] ELSE g[n - 1] \o ss[n]]
    <3>2. h \in [1 .. n -> Seq(S)]
      <4>1. n = 1 \/ n - 1 \in 1 .. n - 1
        BY <2>1, <2>3
      <4>2. ss[n] \in Seq(S) /\ (n # 1 => g[n - 1] \o ss[n] \in Seq(S))
        BY <4>1, <2>1, <2>3, ConcatProperties
      <4>3. \A i \in 1 .. n : i < n => i \in 1 .. n - 1
        BY <2>1
      <4>4. QED
        BY <4>2, <4>3
    <3>3. Flattens(h, ss, n)
      <4>1. ASSUME NEW i \in 1 .. n PROVE h[i] = IF i = 1 THEN ss[i] ELSE h[i - 1] \o ss[i]
        <5>1. CASE i = n
          BY <5>1, <2>1, <2>3
        <5>2. CASE i < n
          <6>1. i \in 1 .. n - 1 /\ (i # 1 => i - 1 \in 1 .. n /\ i - 1 < n)
            BY <5>2, <2>1
          <6>2. QED
            BY <5>2, <6>1, <3>1 DEF Flattens
        <5>3. QED
          BY <5>1, <5>2, <2>1
      <4>2. QED
        BY <4>1 DEF Flattens
    <3>4. QED
      BY <2>1, <3>2, <3>3
  <2>4. QED
    BY <2>1, <2>2, <2>3
<1>2. PICK g \in [1 .. m -> Seq(S)] : Flattens(g, ss, m)
  BY <1>1
<1>3. Len(ss) = m
  OBVIOUS
<1>4. g = [i \in 1 .. Len(ss) |-> IF i = 1 THEN ss[i] ELSE g[i - 1] \o ss[i]]
  BY <1>2, <1>3 DEF Flattens
<1> DEFINE flat == CHOOSE f : f = [i \in 1 .. Len(ss) |-> IF i = 1 THEN ss[i] ELSE f[i - 1] \o ss[i]]
<1>5. flat = [i \in 1 .. Len(ss) |-> IF i = 1 THEN ss[i] ELSE flat[i - 1] \o ss[i]]
  BY <1>4
<1>6. m > 0 => FlattenSeq(ss) = flat[m]
  BY <1>3 DEF FlattenSeq
<1> HIDE DEF flat
<1>7. ASSUME NEW j \in 1 .. m, flat[j] \notin Seq(S) PROVE FALSE
  <2> DEFINE Wrong == {i \in 1 .. m : flat[i] \notin Seq(S)}
  <2>1. PICK i \in Wrong : \A k \in Wrong : i <= k
    <3>1. Wrong \in SUBSET Nat /\ j \in Wrong
      BY <1>7
    <3> HIDE DEF Wrong
    <3> QED BY <3>1, LeastExists
  <2>2. ss[i] \in Seq(S) /\ i \in 1 .. m
    BY <2>1
  <2>3. flat[i] = IF i = 1 THEN ss[i] ELSE flat[i - 1] \o ss[i]
    BY <1>3, <1>5, <2>2
  <2>4. i # 1 /\ i - 1 \in 1 .. m /\ ~(i <= i - 1)
    BY <2>1, <2>2, <2>3
  <2>5. flat[i - 1] \in Seq(S)
    BY <2>1, <2>4
  <2>6. flat[i - 1] \o ss[i] \in Seq(S)
    BY <2>2, <2>5
  <2>7. QED
    BY <2>1, <2>3, <2>4, <2>6
<1>8. flat \in [1 .. m -> Seq(S)]
  BY <1>3, <1>5, <1>7
<1>9. Flattens(flat, ss, m)
  BY <1>3, <1>5 DEF Flattens
<1>10. QED
  BY <1>6, <1>8, <1>9

\* The hooks of the second callback, which run only if the predicate is true.
AccessHooks == {h \in Hooks : h.fn \in {"memoryRead", "memoryWrite", "callInstBefore"} /\ h.predicated}

\* The hooks that record accesses of a type, and the operands they are for.
HooksFor(type) == {h \in Hooks : h.fn = IF type = "Read" THEN "memoryRead" ELSE "memoryWrite"}
OperandsFor(type) == {o \in Operand : IF type = "Read" THEN o.read ELSE o.written}

\* A hook is put before an instruction once, if at all.
LEMMA HookIfIs ==
    ASSUME NEW S, NEW h \in S, NEW c \in BOOLEAN
    PROVE  /\ HookIf(c, h) \in Seq(S)
           /\ Len(HookIf(c, h)) = IF c THEN 1 ELSE 0
           /\ c => HookIf(c, h)[1] = h
<1>1. <<h>> \in Seq(S) /\ Len(<<h>>) = 1 /\ <<h>>[1] = h
  OBVIOUS
<1>2. <<>> \in Seq(S) /\ Len(<<>>) = 0
  OBVIOUS
<1>3. QED
  BY <1>1, <1>2 DEF HookIf

LEMMA HookIfCount ==
    ASSUME NEW h, NEW c \in BOOLEAN, NEW T
    PROVE  Count(HookIf(c, h), T) = IF c /\ h \in T THEN 1 ELSE 0
<1>1. Count(<<h>>, T) = IF h \in T THEN 1 ELSE 0
  BY CountOne
<1>2. Count(<<>>, T) = 0
  <2>1. Len(<<>>) = 0
    OBVIOUS
  <2>2. QED
    BY <2>1, CountEmpty
<1>3. QED
  BY <1>1, <1>2 DEF HookIf

\* An operand that is read and written has two hooks.
LEMMA OperandHooksAre ==
    ASSUME NEW o \in Operand, NEW type \in {"Read", "Write"}
    PROVE  /\ OperandHooks(o) \in Seq(AccessHooks)
           /\ Count(OperandHooks(o), HooksFor(type)) = IF o \in OperandsFor(type) THEN 1 ELSE 0
<1> DEFINE r == PredicatedHook("memoryRead", NoFunc)
           w == PredicatedHook("memoryWrite", NoFunc)
           R == HookIf(o.read, r)
           W == HookIf(o.written, w)
<1>1. r \in AccessHooks /\ w \in AccessHooks
  BY DEF AccessHooks, Hooks, PredicatedHook
<1>2. (r \in HooksFor(type) <=> type = "Read") /\ (w \in HooksFor(type) <=> type = "Write")
  BY DEF HooksFor, Hooks, PredicatedHook
<1>3. o.read \in BOOLEAN /\ o.written \in BOOLEAN
  BY DEF Operand
<1>4. OperandHooks(o) = R \o W
  BY DEF OperandHooks
<1> HIDE DEF r, w
<1>5. R \in Seq(AccessHooks) /\ W \in Seq(AccessHooks)
  BY <1>1, <1>3, HookIfIs
<1>6. /\ Count(R, HooksFor(type)) = IF o.read /\ r \in HooksFor(type) THEN 1 ELSE 0
      /\ Count(W, HooksFor(type)) = IF o.written /\ w \in HooksFor(type) THEN 1 ELSE 0
  BY <1>3, HookIfCount
<1> HIDE DEF R, W
<1>7. Count(R \o W, HooksFor(type)) = Count(R, HooksFor(type)) + Count(W, HooksFor(type))
  BY <1>5, CountConcat
<1>8. R \o W \in Seq(AccessHooks)
  BY <1>5
<1>9. QED
  BY <1>2, <1>3, <1>4, <1>5, <1>7, <1>8, <1>6 DEF OperandsFor

\* The hooks of an instruction are as many as its operands of the type.
LEMMA OperandsCount ==
    ASSUME NEW a \in Address, NEW type \in {"Read", "Write"}
    PROVE  /\ Code[a].operands \in Seq(Operand)
           /\ Operands(a, type) = Count(Code[a].operands, OperandsFor(type))
           /\ Operands(a, type) \in Nat
<1> DEFINE ops == Code[a].operands
<1>1. ops \in Seq(Operand)
  BY CodeAssumption DEF Instruction
<1> HIDE DEF ops
<1>2. DOMAIN ops = 1 .. Len(ops) /\ \A i \in 1 .. Len(ops) : ops[i] \in Operand
  BY <1>1
<1>3. {i \in DOMAIN ops : IF type = "Read" THEN ops[i].read ELSE ops[i].written}
        = {i \in 1 .. Len(ops) : ops[i] \in OperandsFor(type)}
  BY <1>2 DEF OperandsFor
<1>4. Count(ops, OperandsFor(type)) \in Nat
  BY <1>1, CountNat
<1>5. QED
  BY <1>1, <1>3, <1>4 DEF Operands, Count, ops

\* The hooks that either callback puts before an instruction for its operands are
\* as many as the operands.
LEMMA InstrumentInstructionIs ==
    ASSUME NEW a \in Address, NEW nextValid, NEW type \in {"Read", "Write"}
    PROVE  /\ InstrumentInstruction(a, nextValid) \in Seq(AccessHooks)
           /\ Count(InstrumentInstruction(a, nextValid), HooksFor(type)) = Operands(a, type)
<1> DEFINE ops == Code[a].operands
           H == HooksFor(type)
           O == OperandsFor(type)
           ss == [i \in DOMAIN ops |-> OperandHooks(ops[i])]
           last == CallHooks(a, nextValid)
<1>1. ops \in Seq(Operand) /\ Operands(a, type) = Count(ops, O)
  BY OperandsCount
<1>2. InstrumentInstruction(a, nextValid) = FlattenSeq(ss) \o last
  BY DEF InstrumentInstruction
<1>3. last \in Seq(AccessHooks) /\ Count(last, H) = 0
  <2> DEFINE id == GetRoutineId(Code[CHOOSE b \in Code[a].to : TRUE].rtn)
             h == PredicatedHook("callInstBefore", id)
             c == /\ Code[a].op = "call" /\ Code[a].direct /\ nextValid
                  /\ Code[CHOOSE b \in Code[a].to : TRUE].rtn # ".plt"
  <2>1. h \in AccessHooks /\ h \notin H
    <3>1. id \in KnownFuncs \cup {NoFunc}
      BY DEF GetRoutineId
    <3> HIDE DEF id
    <3>2. QED
      BY <3>1 DEF AccessHooks, HooksFor, Hooks, PredicatedHook
  <2>2. last = IF c THEN <<h>> ELSE <<>>
    BY DEF CallHooks
  <2>3. PICK d \in BOOLEAN : d = c
    OBVIOUS
  <2> HIDE DEF h, c
  <2>4. last = HookIf(d, h)
    BY <2>2, <2>3 DEF HookIf
  <2>5. QED
    BY <2>1, <2>4, HookIfIs, HookIfCount
<1> HIDE DEF ops, last
<1>4. PICK m \in Nat : m = Len(ops)
  BY <1>1
<1>5. DOMAIN ops = 1 .. m /\ \A i \in 1 .. m : ops[i] \in Operand
  BY <1>1, <1>4
<1>6. \A i \in 1 .. m : /\ OperandHooks(ops[i]) \in Seq(AccessHooks)
                        /\ Count(OperandHooks(ops[i]), H) = IF ops[i] \in O THEN 1 ELSE 0
  BY <1>5, OperandHooksAre
<1>7. /\ ss \in [1 .. m -> Seq(AccessHooks)]
      /\ \A i \in 1 .. m : Count(ss[i], H) = IF ops[i] \in O THEN 1 ELSE 0
  BY <1>5, <1>6
<1> HIDE DEF ss, H, O
<1>8. PICK flat \in [1 .. m -> Seq(AccessHooks)] :
         Flattens(flat, ss, m) /\ (m > 0 => FlattenSeq(ss) = flat[m])
  BY <1>7, FlattenIs
<1>9. ASSUME NEW j \in 1 .. m, Count(flat[j], H) # Count(SubSeq(ops, 1, j), O) PROVE FALSE
  <2> DEFINE Bad == {i \in 1 .. m : Count(flat[i], H) # Count(SubSeq(ops, 1, i), O)}
  <2>1. PICK i \in Bad : \A k \in Bad : i <= k
    <3>1. Bad \in SUBSET Nat /\ j \in Bad
      BY <1>9
    <3> HIDE DEF Bad
    <3> QED BY <3>1, LeastExists
  <2>2. i \in 1 .. m /\ ss[i] \in Seq(AccessHooks) /\ ops[i] \in Operand
    BY <1>5, <1>7, <2>1
  <2>3. flat[i] = IF i = 1 THEN ss[i] ELSE flat[i - 1] \o ss[i]
    BY <1>8, <2>2 DEF Flattens
  <2> DEFINE before == SubSeq(ops, 1, i - 1)
  <2>4. before \in Seq(Operand) /\ Len(before) = i - 1
    BY <1>1, <1>4, <2>2, SubSeqProperties
  <2>5. SubSeq(ops, 1, i) = Append(before, ops[i])
    BY <1>1, <1>4, <2>2
  <2>6. Count(SubSeq(ops, 1, i), O) = Count(before, O) + (IF ops[i] \in O THEN 1 ELSE 0)
    <3>1. PICK e \in Operand : e = ops[i]
      BY <2>2
    <3> HIDE DEF before
    <3>2. Count(Append(before, e), O) = Count(before, O) + (IF e \in O THEN 1 ELSE 0)
      BY <2>4, CountAppend
    <3>3. QED
      BY <2>5, <3>1, <3>2
  <2>7. CASE i = 1
    <3>1. Len(before) = 0
      BY <2>4, <2>7
    <3>2. Count(before, O) = 0
      BY <3>1, CountEmpty
    <3>3. Count(SubSeq(ops, 1, i), O) = IF ops[i] \in O THEN 1 ELSE 0
      BY <2>6, <3>2
    <3>4. Count(ss[i], H) = IF ops[i] \in O THEN 1 ELSE 0
      BY <1>7, <2>2
    <3>5. QED
      BY <2>1, <2>3, <2>7, <3>3, <3>4
  <2>8. CASE i # 1
    <3>1. i - 1 \in 1 .. m /\ ~(i <= i - 1)
      BY <2>2, <2>8
    <3>2. PICK u \in Seq(AccessHooks) : u = flat[i - 1]
      BY <1>8, <3>1
    <3>3. Count(u, H) = Count(before, O)
      BY <2>1, <3>1, <3>2
    <3>4. Count(u \o ss[i], H) = Count(u, H) + Count(ss[i], H)
      BY <2>2, CountConcat
    <3>5. QED
      BY <1>7, <2>1, <2>2, <2>3, <2>6, <2>8, <3>2, <3>3, <3>4
  <2>9. QED
    BY <2>7, <2>8
<1>10. PICK all \in Seq(AccessHooks) : all = FlattenSeq(ss) /\ Count(all, H) = Count(ops, O)
  <2>1. CASE m = 0
    <3>1. ss = <<>> /\ Len(ss) = 0
      BY <1>7, <2>1
    <3>2. FlattenSeq(ss) = <<>>
      BY <3>1 DEF FlattenSeq
    <3>3. <<>> \in Seq(AccessHooks) /\ Len(<<>>) = 0
      OBVIOUS
    <3>4. Count(<<>>, H) = 0
      BY <3>3, CountEmpty
    <3>5. Count(ops, O) = 0
      BY <1>4, <2>1, CountEmpty
    <3>6. QED
      BY <3>2, <3>3, <3>4, <3>5
  <2>2. CASE m > 0
    <3>1. m \in 1 .. m /\ SubSeq(ops, 1, m) = ops
      BY <1>1, <1>4, <2>2
    <3>2. QED
      BY <1>8, <1>9, <2>2, <3>1
  <2>3. QED
    BY <2>1, <2>2
<1>11. Count(all \o last, H) = Count(all, H) + Count(last, H)
  BY <1>3, CountConcat DEF H
<1>12. Count(all, H) \in Nat
  BY CountNat
<1>13. all \o last \in Seq(AccessHooks)
  BY <1>3
<1>14. QED
  BY <1>1, <1>2, <1>3, <1>10, <1>11, <1>12, <1>13 DEF H, O

\* Hook fn is among them.
Has(s, fn) == \E i \in 1 .. Len(s) : s[i].fn = fn

\* What holds of the hooks before an instruction, and still when the first of them
\* have run.
Ordered(a, s) ==
    /\ \A i \in 1 .. Len(s) :
         /\ s[i].predicated <=> s[i].fn \in {"memoryRead", "memoryWrite", "callInstBefore"}
         /\ s[i].fn = "routineEnter" =>
              i = 1 /\ a = First(Code[a].rtn) /\ s[i].id = GetRoutineId(Code[a].rtn)
         /\ s[i].fn = "routineExit" =>
              /\ Code[a].op = "ret" /\ s[i].id = GetRoutineId(Code[a].rtn)
              /\ \A j \in 1 .. i - 1 : s[j].fn = "routineEnter"
         /\ s[i].fn = "mallocAfter" =>
              /\ Code[a].op = "ret" /\ Code[a].rtn = "malloc"
              /\ \A j \in 1 .. i - 1 : s[j].fn = "mallocBefore"
         /\ s[i].fn = "freeBefore" => i = 1 /\ a = First("free") /\ Code[a].rtn = "free"
    /\ Code[a].op = "ret" /\ Has(s, "routineEnter") => Has(s, "routineExit")

\* No hook is missing of those that the invariants wait for.
Complete(a, s) ==
    LET rtn == Code[a].rtn
    IN /\ rtn \in KnownFuncs => /\ a = First(rtn) => Has(s, "routineEnter")
                                /\ Code[a].op = "ret" => Has(s, "routineExit")
       /\ rtn = "malloc" /\ Code[a].op = "ret" => Has(s, "mallocAfter")
       /\ rtn = "free" /\ a = First("free") => Has(s, "freeBefore")

OrderedHooks == {"routineEnter", "routineExit", "mallocAfter", "freeBefore"}

\* The access hooks come after all others.
LEMMA AccessHooksLast ==
    ASSUME NEW a, NEW p \in Seq(Hooks), NEW q \in Seq(AccessHooks)
    PROVE  /\ p \o q \in Seq(Hooks)
           /\ Ordered(a, p) => Ordered(a, p \o q)
           /\ \A fn \in OrderedHooks : Has(p \o q, fn) <=> Has(p, fn)
<1>1. PICK m \in Nat : m = Len(p)
  OBVIOUS
<1>2. PICK n \in Nat : n = Len(q)
  OBVIOUS
<1>3. q \in Seq(Hooks)
  BY DEF AccessHooks
<1>4. p \o q \in Seq(Hooks)
  BY <1>3
<1>5. PICK u \in Seq(Hooks) : u = p \o q
  BY <1>4
<1>6. Len(u) = m + n /\ \A i \in 1 .. m + n : u[i] = IF i <= m THEN p[i] ELSE q[i - m]
  BY <1>1, <1>2, <1>3, <1>5, ConcatProperties
<1>7. \A i \in 1 .. m : i \in 1 .. m + n /\ u[i] = p[i]
  BY <1>6
<1>8. ASSUME NEW i \in 1 .. m + n, i > m
      PROVE  u[i].fn \in {"memoryRead", "memoryWrite", "callInstBefore"} /\ u[i].predicated
  <2>1. i - m \in 1 .. n /\ u[i] = q[i - m]
    BY <1>6, <1>8
  <2>2. q[i - m] \in AccessHooks
    BY <1>2, <2>1
  <2>3. QED
    BY <2>1, <2>2 DEF AccessHooks
<1>9. ASSUME NEW fn \in OrderedHooks PROVE Has(u, fn) <=> Has(p, fn)
  <2>1. ASSUME NEW i \in 1 .. m + n, u[i].fn = fn PROVE i \in 1 .. m /\ p[i].fn = fn
    <3>1. fn \notin {"memoryRead", "memoryWrite", "callInstBefore"}
      BY DEF OrderedHooks
    <3>2. ~(i > m)
      BY <1>8, <2>1, <3>1
    <3>3. i \in 1 .. m
      BY <3>2
    <3>4. QED
      BY <1>7, <2>1, <3>3
  <2>2. QED
    BY <1>1, <1>6, <1>7, <2>1 DEF Has
<1>10. ASSUME Ordered(a, p) PROVE Ordered(a, u)
  <2>1. ASSUME NEW i \in 1 .. m + n
        PROVE  /\ u[i].predicated <=> u[i].fn \in {"memoryRead", "memoryWrite", "callInstBefore"}
               /\ u[i].fn = "routineEnter" =>
                    i = 1 /\ a = First(Code[a].rtn) /\ u[i].id = GetRoutineId(Code[a].rtn)
               /\ u[i].fn = "routineExit" =>
                    /\ Code[a].op = "ret" /\ u[i].id = GetRoutineId(Code[a].rtn)
                    /\ \A j \in 1 .. i - 1 : u[j].fn = "routineEnter"
               /\ u[i].fn = "mallocAfter" =>
                    /\ Code[a].op = "ret" /\ Code[a].rtn = "malloc"
                    /\ \A j \in 1 .. i - 1 : u[j].fn = "mallocBefore"
               /\ u[i].fn = "freeBefore" => i = 1 /\ a = First("free") /\ Code[a].rtn = "free"
    <3>1. CASE i > m
      BY <1>8, <3>1
    <3>2. CASE i \in 1 .. m
      <4>1. u[i] = p[i] /\ \A j \in 1 .. i - 1 : u[j] = p[j]
        BY <1>7, <3>2
      <4>2. QED
        BY <1>1, <1>10, <3>2, <4>1 DEF Ordered
    <3>3. QED
      BY <3>1, <3>2
  <2>2. Code[a].op = "ret" /\ Has(u, "routineEnter") => Has(u, "routineExit")
    BY <1>9, <1>10 DEF Ordered, OrderedHooks
  <2>3. QED
    BY <1>6, <2>1, <2>2 DEF Ordered
<1>11. QED
  BY <1>4, <1>5, <1>9, <1>10

\* p consists of g, if c holds, and then of h, if d does.
AtMostTwo(p, c, g, d, h) ==
    /\ \A i \in 1 .. Len(p) : \/ c /\ i = 1 /\ p[i] = g
                              \/ d /\ p[i] = h /\ \A j \in 1 .. i - 1 : c /\ p[j] = g
    /\ c => \E i \in 1 .. Len(p) : p[i] = g
    /\ d => \E i \in 1 .. Len(p) : p[i] = h

\* Two hooks in the order of the program text.
LEMMA TwoHooks ==
    ASSUME NEW c \in BOOLEAN, NEW g \in Hooks, NEW d \in BOOLEAN, NEW h \in Hooks,
           NEW p, p = HookIf(c, g) \o HookIf(d, h)
    PROVE  p \in Seq(Hooks) /\ AtMostTwo(p, c, g, d, h)
<1>1. PICK s : s = HookIf(c, g)
  OBVIOUS
<1>2. PICK t : t = HookIf(d, h)
  OBVIOUS
<1>3. /\ s \in Seq(Hooks) /\ Len(s) = (IF c THEN 1 ELSE 0) /\ (c => s[1] = g)
      /\ t \in Seq(Hooks) /\ Len(t) = (IF d THEN 1 ELSE 0) /\ (d => t[1] = h)
  BY <1>1, <1>2, HookIfIs
<1>4. s \o t \in Seq(Hooks)
  BY <1>3
<1>5. PICK m \in Nat, n \in Nat : m = (IF c THEN 1 ELSE 0) /\ n = IF d THEN 1 ELSE 0
  OBVIOUS
<1>6. /\ p \in Seq(Hooks) /\ Len(p) = m + n
      /\ \A i \in 1 .. m + n : p[i] = IF i <= m THEN s[i] ELSE t[i - m]
  <2> DEFINE u == s \o t
  <2>1. u \in Seq(Hooks) /\ Len(u) = m + n /\ \A i \in 1 .. m + n : u[i] = IF i <= m THEN s[i] ELSE t[i - m]
    BY <1>3, <1>4, <1>5, ConcatProperties
  <2>2. p = u
    BY <1>1, <1>2
  <2> HIDE DEF u
  <2>3. QED
    BY <2>1, <2>2
<1>7. CASE c
  <2>1. m = 1 /\ 1 \in 1 .. Len(p) /\ p[1] = g
    <3>1. m = 1 /\ 1 \in 1 .. m + n /\ 1 <= m
      BY <1>5, <1>7
    <3>2. QED
      BY <1>3, <1>6, <1>7, <3>1
  <2>2. Len(p) = IF d THEN 2 ELSE 1
    BY <1>5, <1>6, <2>1
  <2>3. d => p[2] = h
    <3>1. d => 2 \in 1 .. m + n /\ ~(2 <= m) /\ 2 - m = 1
      BY <1>5, <2>1
    <3>2. QED
      BY <1>3, <1>6, <3>1
  <2>4. d => 2 \in 1 .. Len(p)
    BY <2>2
  <2>5. ASSUME NEW i \in 1 .. Len(p)
        PROVE  \/ c /\ i = 1 /\ p[i] = g
               \/ d /\ p[i] = h /\ \A j \in 1 .. i - 1 : c /\ p[j] = g
    <3>1. i = 1 \/ (d /\ i = 2 /\ \A j \in 1 .. i - 1 : j = 1)
      BY <2>2
    <3>2. QED
      BY <1>7, <2>1, <2>3, <3>1
  <2>6. QED
    BY <1>6, <2>1, <2>3, <2>4, <2>5 DEF AtMostTwo
<1>8. CASE ~c
  <2>1. m = 0 /\ Len(p) = IF d THEN 1 ELSE 0
    BY <1>5, <1>6, <1>8
  <2>2. d => 1 \in 1 .. Len(p) /\ p[1] = h
    <3>1. d => 1 \in 1 .. m + n /\ ~(1 <= m) /\ 1 - m = 1
      BY <1>5, <2>1
    <3>2. QED
      BY <1>3, <1>6, <2>1, <3>1
  <2>3. \A i \in 1 .. Len(p) : d /\ i = 1
    BY <2>1
  <2>4. \A i \in 1 .. Len(p) : d /\ p[i] = h /\ \A j \in 1 .. i - 1 : FALSE
    BY <2>2, <2>3
  <2>5. QED
    BY <1>6, <1>8, <2>2, <2>4 DEF AtMostTwo
<1>9. QED
  BY <1>7, <1>8

\* What the callback of an image puts before an instruction, besides the access hooks.
RoutineHooks(a) == IF Image[Code[a].rtn] # binPath THEN InstrumentRoutineExternal(a)
                   ELSE InstrumentRoutine(a)

\* What instrumentImageLoad puts before an instruction besides the access hooks.
LEMMA RoutineHooksAre ==
    ASSUME NEW a \in Address
    PROVE  /\ RoutineHooks(a) \in Seq(Hooks)
           /\ Ordered(a, RoutineHooks(a))
           /\ Complete(a, RoutineHooks(a))
           /\ \A i \in 1 .. Len(RoutineHooks(a)) : ~RoutineHooks(a)[i].predicated
<1> DEFINE rtn == Code[a].rtn
           op == Code[a].op
<1>1. CASE Image[rtn] = binPath
  <2> DEFINE enter == RoutineHook("routineEnter", GetRoutineId(rtn))
             exit == RoutineHook("routineExit", GetRoutineId(rtn))
  <2>1. PICK c \in BOOLEAN, d \in BOOLEAN : c = (a = First(rtn)) /\ d = (op = "ret")
    OBVIOUS
  <2>2. /\ enter \in Hooks /\ enter.fn = "routineEnter" /\ ~enter.predicated
        /\ enter.id = GetRoutineId(rtn)
        /\ exit \in Hooks /\ exit.fn = "routineExit" /\ ~exit.predicated
        /\ exit.id = GetRoutineId(rtn)
    BY DEF Hooks, RoutineHook, GetRoutineId
  <2>3. RoutineHooks(a) = HookIf(c, enter) \o HookIf(d, exit)
    BY <1>1, <2>1 DEF RoutineHooks, InstrumentRoutine
  <2> HIDE DEF enter, exit
  <2>4. PICK p : p = HookIf(c, enter) \o HookIf(d, exit)
    OBVIOUS
  <2>5. p \in Seq(Hooks) /\ AtMostTwo(p, c, enter, d, exit)
    BY <2>2, <2>4, TwoHooks
  <2>6. (c => Has(p, "routineEnter")) /\ (d => Has(p, "routineExit"))
    BY <2>2, <2>5 DEF Has, AtMostTwo
  <2>7. rtn # "malloc" /\ rtn # "free"
    BY <1>1, HeapAssumption, CodeAssumption DEF Instruction
  <2>8. Complete(a, p)
    BY <2>1, <2>6, <2>7 DEF Complete
  <2>9. \A i \in 1 .. Len(p) : ~p[i].predicated
    BY <2>2, <2>5 DEF AtMostTwo
  <2>10. Ordered(a, p)
    <3>1. \A i \in 1 .. Len(p) : p[i].fn = "routineEnter" => c /\ i = 1 /\ p[i] = enter
      BY <2>2, <2>5 DEF AtMostTwo
    <3>2. \A i \in 1 .. Len(p) :
             p[i].fn = "routineExit" => d /\ p[i] = exit /\ \A j \in 1 .. i - 1 : p[j] = enter
      BY <2>2, <2>5 DEF AtMostTwo
    <3>3. \A i \in 1 .. Len(p) : p[i].fn \in {"routineEnter", "routineExit"}
      BY <2>2, <2>5 DEF AtMostTwo
    <3>4. QED
      BY <2>1, <2>2, <2>6, <2>9, <3>1, <3>2, <3>3 DEF Ordered
  <2>11. QED
    BY <2>3, <2>4, <2>5, <2>8, <2>9, <2>10
<1>2. CASE Image[rtn] # binPath
  <2> DEFINE before == Hook("mallocBefore")
             after == Hook("mallocAfter")
             free == Hook("freeBefore")
  <2>1. PICK c \in BOOLEAN, d \in BOOLEAN, e \in BOOLEAN :
           /\ c = (rtn = "malloc" /\ a = First(rtn)) /\ d = (rtn = "malloc" /\ op = "ret")
           /\ e = (rtn = "free" /\ a = First(rtn))
    OBVIOUS
  <2>2. /\ before \in Hooks /\ before.fn = "mallocBefore" /\ ~before.predicated
        /\ after \in Hooks /\ after.fn = "mallocAfter" /\ ~after.predicated
        /\ free \in Hooks /\ free.fn = "freeBefore" /\ ~free.predicated
    BY DEF Hooks, Hook
  <2>3. RoutineHooks(a) = HookIf(c, before) \o HookIf(d, after) \o HookIf(e, free)
    BY <1>2, <2>1 DEF RoutineHooks, InstrumentRoutineExternal
  <2>4. rtn \notin KnownFuncs
    BY <1>2, CodeAssumption
  <2> HIDE DEF before, after, free
  <2>5. CASE e
    <3>1. ~c /\ ~d
      BY <2>1, <2>5
    <3>2. <<>> \o <<>> \o <<free>> = <<free>> /\ <<free>> \in Seq(Hooks)
      BY <2>2
    <3>3. RoutineHooks(a) = <<free>>
      BY <2>3, <2>5, <3>1, <3>2 DEF HookIf
    <3>4. PICK p \in Seq(Hooks) : p = <<free>> /\ Len(p) = 1 /\ p[1] = free
      BY <3>2
    <3>5. \A i \in 1 .. Len(p) : i = 1 /\ p[i] = free
      BY <3>4
    <3>6. Has(p, "freeBefore") /\ ~Has(p, "routineEnter")
      BY <2>2, <3>4, <3>5 DEF Has
    <3>7. Complete(a, p)
      BY <2>1, <2>4, <2>5, <3>6 DEF Complete
    <3>8. Ordered(a, p) /\ \A i \in 1 .. Len(p) : ~p[i].predicated
      BY <2>1, <2>2, <2>5, <3>5, <3>6 DEF Ordered
    <3>9. QED
      BY <3>3, <3>4, <3>7, <3>8
  <2>6. CASE ~e
    <3>1. PICK p : p = HookIf(c, before) \o HookIf(d, after)
      OBVIOUS
    <3>2. p \in Seq(Hooks) /\ AtMostTwo(p, c, before, d, after)
      BY <2>2, <3>1, TwoHooks
    <3>3. RoutineHooks(a) = p
      <4>1. p \o <<>> = p
        OBVIOUS
      <4>2. QED
        BY <2>3, <2>6, <3>2, <3>1, <4>1 DEF HookIf
    <3>4. (d => Has(p, "mallocAfter")) /\ ~Has(p, "routineEnter")
      BY <2>2, <3>2 DEF Has, AtMostTwo
    <3>5. Complete(a, p)
      BY <2>1, <2>4, <2>6, <3>4 DEF Complete
    <3>6. \A i \in 1 .. Len(p) : ~p[i].predicated /\ p[i].fn \in {"mallocBefore", "mallocAfter"}
      BY <2>2, <3>2 DEF AtMostTwo
    <3>7. \A i \in 1 .. Len(p) :
             p[i].fn = "mallocAfter" => d /\ \A j \in 1 .. i - 1 : p[j].fn = "mallocBefore"
      BY <2>2, <3>2 DEF AtMostTwo
    <3>8. Ordered(a, p)
      BY <2>1, <3>4, <3>6, <3>7 DEF Ordered
    <3>9. QED
      BY <3>2, <3>3, <3>5, <3>6, <3>8
  <2>7. QED
    BY <2>5, <2>6
<1>3. QED
  BY <1>1, <1>2

\* All hooks before an instruction of a loaded image.
AllHooks(a, nextValid) == ImageHooks(a) \o InstrumentInstruction(a, nextValid)

\* How often an access is recorded.
Times(a) == IF Image[Code[a].rtn] = binPath THEN 2 ELSE 1

\* The hooks of both callbacks are in order and complete, and count each access.
LEMMA AllHooksAre ==
    ASSUME NEW a \in Address, NEW nextValid
    PROVE  /\ ImageHooks(a) \in Seq(Hooks)
           /\ AllHooks(a, nextValid) \in Seq(Hooks)
           /\ Ordered(a, AllHooks(a, nextValid))
           /\ Complete(a, AllHooks(a, nextValid))
           /\ \A type \in {"Read", "Write"} :
                Count(AllHooks(a, nextValid), HooksFor(type)) = Times(a) * Operands(a, type)
<1>1. PICK p \in Seq(Hooks) : p = RoutineHooks(a)
  BY RoutineHooksAre
<1>2. Ordered(a, p) /\ Complete(a, p) /\ \A i \in 1 .. Len(p) : ~p[i].predicated
  BY <1>1, RoutineHooksAre
<1>3. PICK q : q = InstrumentInstruction(a, NextInRoutine(a))
  OBVIOUS
<1>4. PICK r : r = InstrumentInstruction(a, nextValid)
  OBVIOUS
<1>5. /\ q \in Seq(AccessHooks) /\ r \in Seq(AccessHooks)
      /\ \A type \in {"Read", "Write"} : /\ Count(q, HooksFor(type)) = Operands(a, type)
                                         /\ Count(r, HooksFor(type)) = Operands(a, type)
                                         /\ Operands(a, type) \in Nat
  BY <1>3, <1>4, InstrumentInstructionIs, OperandsCount
<1>6. ASSUME NEW type \in {"Read", "Write"} PROVE Count(p, HooksFor(type)) = 0
  <2>1. \A i \in 1 .. Len(p) : p[i] \notin HooksFor(type)
    <3> TAKE i \in 1 .. Len(p)
    <3>1. ~p[i].predicated
      BY <1>2
    <3>2. p[i].fn \notin {"memoryRead", "memoryWrite"}
      BY <1>2, <3>1 DEF Ordered
    <3>3. QED
      BY <3>2 DEF HooksFor
  <2>2. {i \in 1 .. Len(p) : p[i] \in HooksFor(type)} = {}
    BY <2>1
  <2>3. QED
    BY <2>2, FS_EmptySet DEF Count
<1>7. PICK rest \in Seq(AccessHooks) :
         /\ AllHooks(a, nextValid) = p \o rest
         /\ ImageHooks(a) \in Seq(Hooks)
         /\ \A type \in {"Read", "Write"} : Count(rest, HooksFor(type)) = Times(a) * Operands(a, type)
  <2>1. CASE Image[Code[a].rtn] = binPath
    <3>1. q \o r \in Seq(AccessHooks)
      BY <1>5
    <3>2. PICK rest \in Seq(AccessHooks) : rest = q \o r
      BY <3>1
    <3>3. ImageHooks(a) = p \o q /\ Times(a) = 2
      BY <1>1, <1>3, <2>1 DEF ImageHooks, RoutineHooks, Times
    <3>4. (p \o q) \o r = p \o rest
      <4>1. p \in Seq(Hooks) /\ q \in Seq(Hooks) /\ r \in Seq(Hooks)
        BY <1>5 DEF AccessHooks
      <4>2. QED
        BY <3>2, <4>1
    <3>5. ASSUME NEW type \in {"Read", "Write"}
          PROVE  Count(rest, HooksFor(type)) = 2 * Operands(a, type)
      <4>1. Count(rest, HooksFor(type)) = Count(q, HooksFor(type)) + Count(r, HooksFor(type))
        BY <1>5, <3>2, CountConcat
      <4>2. QED
        BY <1>5, <4>1
    <3>6. p \o q \in Seq(Hooks)
      BY <1>5, AccessHooksLast
    <3>7. QED
      BY <1>4, <3>3, <3>4, <3>5, <3>6 DEF AllHooks
  <2>2. CASE Image[Code[a].rtn] # binPath
    <3>1. ImageHooks(a) = p /\ Times(a) = 1
      BY <1>1, <2>2 DEF ImageHooks, RoutineHooks, Times
    <3>2. AllHooks(a, nextValid) = p \o r
      BY <1>4, <3>1 DEF AllHooks
    <3>3. \A type \in {"Read", "Write"} : Count(r, HooksFor(type)) = Times(a) * Operands(a, type)
      BY <1>5, <3>1
    <3>4. QED
      BY <1>5, <3>1, <3>2, <3>3
  <2>3. QED
    BY <2>1, <2>2
<1>8. PICK s \in Seq(Hooks) : s = p \o rest
  BY AccessHooksLast
<1>9. Ordered(a, s) /\ \A fn \in OrderedHooks : Has(s, fn) <=> Has(p, fn)
  BY <1>2, <1>8, AccessHooksLast
<1>10. Complete(a, s)
  BY <1>2, <1>9 DEF Complete, OrderedHooks
<1>11. ASSUME NEW type \in {"Read", "Write"}
       PROVE  Count(s, HooksFor(type)) = Times(a) * Operands(a, type)
  <2>1. rest \in Seq(Hooks)
    BY DEF AccessHooks
  <2>2. Count(s, HooksFor(type)) = Count(p, HooksFor(type)) + Count(rest, HooksFor(type))
    BY <1>8, <2>1, CountConcat
  <2>3. Count(rest, HooksFor(type)) \in Nat
    BY CountNat
  <2>4. QED
    BY <1>6, <1>7, <2>2, <2>3
<1>12. QED
  BY <1>7, <1>8, <1>9, <1>10, <1>11

-----------------------------------------------------------------------------
(* The type invariant *)

HookStep(t) == \/ SkipHook(t) \/ RoutineEnter(t) \/ RoutineExit(t) \/ MemoryAccess(t)
               \/ MallocBefore(t) \/ MallocAfter(t) \/ FreeBefore(t)

ProgramStep(t) == \/ Plain(t) \/ Jump(t) \/ Call(t) \/ Ret(t) \/ End(t)
                  \/ Alloc(t) \/ Release(t) \/ Resize(t) \/ Keep(t) \/ Pick(t)

\* The kinds of steps: a thread runs a hook or its instruction, or comes to it.
LEMMA NextIs ==
    ASSUME [Next]_vars
    PROVE  \/ UNCHANGED vars
           \/ \E img : InstrumentImageLoad(img)
           \/ \E t \in Thread : Fetch(t) \/ HookStep(t) \/ ProgramStep(t)
<1>1. CASE UNCHANGED vars
  BY <1>1
<1>2. CASE Next
  BY <1>2 DEF Next, HookStep, ProgramStep
<1>3. QED
  BY <1>1, <1>2

\* What the assumptions say of one instruction.
LEMMA CodeIs ==
    ASSUME NEW a \in Address
    PROVE  /\ Code[a].rtn \in Routine /\ Code[a].to \subseteq Address
           /\ Code[a].op \notin {"jump", "ret", "end"} =>
                a + 1 \in Address /\ Code[a + 1].rtn = Code[a].rtn
  BY CodeAssumption, FlowAssumption DEF Instruction, NextInRoutine

LEMMA TypeInit == Init => TypeOK
<1> SUFFICES ASSUME Init PROVE TypeOK
  OBVIOUS
<1>1. \A t \in Thread : <<[rtn |-> Code[Entry[t]].rtn, back |-> Entry[t]]>>
                          \in Seq(Frame) \ {<<>>}
  <2> TAKE t \in Thread
  <2>1. Entry[t] \in Address /\ Code[Entry[t]].rtn \in Routine
    BY CodeAssumption, CodeIs
  <2>2. [rtn |-> Code[Entry[t]].rtn, back |-> Entry[t]] \in Frame
    BY <2>1 DEF Frame
  <2>3. QED
    BY <2>2
<1>2. frames \in [Thread -> Seq(Frame) \ {<<>>}]
  BY <1>1 DEF Init
<1>3. /\ \A S : <<>> \in Seq(S)
      /\ pc \in [Thread -> Address]
  BY CodeAssumption DEF Init
<1>4. QED
  BY <1>2, <1>3 DEF Init, TypeOK

\* The hook that is next, and what a step leaves to run.
LEMMA NextHookIs ==
    ASSUME TypeOK, NEW t \in Thread, NextHook(t)
    PROVE  /\ todo[t] \in Seq(Hooks) /\ todo[t] # <<>> /\ Head(todo[t]) \in Hooks
           /\ todo'[t] = Tail(todo[t]) /\ \A u \in Thread : u # t => todo'[u] = todo[u]
           /\ todo' \in [Thread -> Seq(Hooks)]
<1>1. todo[t] \in Seq(Hooks) /\ todo[t] # <<>> /\ todo' = [todo EXCEPT ![t] = Tail(todo[t])]
  BY DEF TypeOK, NextHook
<1>2. Head(todo[t]) \in Hooks /\ Tail(todo[t]) \in Seq(Hooks)
  BY <1>1
<1>3. QED
  BY <1>1, <1>2 DEF TypeOK

\* An event is appended once recording has started.
LEMMA EmitIs ==
    ASSUME TypeOK, NEW t \in Thread, NEW type \in EventType, Emit(t, type)
    PROVE  /\ emitted' \in [Thread -> Seq(EventType)]
           /\ emitted[t] \in Seq(EventType)
           /\ emitted'[t] = IF recording' = "off" THEN emitted[t] ELSE Append(emitted[t], type)
           /\ \A u \in Thread : u # t => emitted'[u] = emitted[u]
<1>1. emitted[t] \in Seq(EventType) /\ Append(emitted[t], type) \in Seq(EventType)
  BY DEF TypeOK
<1>2. emitted' = IF recording' = "off" THEN emitted
                 ELSE [emitted EXCEPT ![t] = Append(emitted[t], type)]
  BY DEF Emit
<1>3. QED
  BY <1>1, <1>2 DEF TypeOK

\* The replay of a Call or a Ret.
LEMMA ReplayTyped ==
    ASSUME TypeOK, NEW t \in Thread, NEW id \in KnownFuncs
    PROVE  /\ calls[t] \in Seq(KnownCall)
           /\ AreFrames(KnownCall)
           /\ FuncCall(t, id) \in KnownCall
           /\ Len(frames[t]) \in Nat
<1>1. frames[t] \in Seq(Frame)
  BY DEF TypeOK
<1>2. Len(frames[t]) \in Nat
  BY <1>1
<1>3. FuncCall(t, id) \in KnownCall
  BY <1>2 DEF FuncCall, KnownCall
<1>4. AreFrames(KnownCall)
  BY DEF AreFrames, KnownCall
<1>5. QED
  BY <1>2, <1>3, <1>4 DEF TypeOK

\* A push keeps the type of the stack.
LEMMA PushTyped ==
    ASSUME NEW S, NEW s \in Seq(S), AreFrames(S), NEW c \in S
    PROVE  Push(s, c) \in Seq(S)
<1>1. Kept(s, c.frameBase) \in 0 .. Len(s)
  BY KeptIs DEF AreFrames
<1>2. SubSeq(s, 1, Kept(s, c.frameBase)) \in Seq(S)
  BY <1>1, SubSeqProperties
<1>3. QED
  BY <1>2 DEF Push

\* The hooks keep the types.
LEMMA HookTypeStep ==
    ASSUME TypeOK, NEW t \in Thread,
           HookStep(t)
    PROVE  TypeOK'
<1>1. NextHook(t)
  BY DEF HookStep, SkipHook, RoutineEnter, RoutineExit, MemoryAccess, MallocBefore, MallocAfter,
         FreeBefore, RunHook
<1>2. /\ hooks' = hooks /\ at' = at /\ executes' = executes /\ watched' = watched
      /\ pc' = pc /\ frames' = frames /\ taken' = taken /\ owned' = owned /\ arg' = arg
  BY <1>1 DEF NextHook, programVars
<1>3. todo' \in [Thread -> Seq(Hooks)] /\ Head(todo[t]) \in Hooks
  BY <1>1, NextHookIs
<1> USE DEF EventType
<1>4. CASE SkipHook(t)
  BY <1>2, <1>3, <1>4 DEF TypeOK, SkipHook, logVars
<1>5. CASE RoutineEnter(t)
  <2> DEFINE id == Head(todo[t]).id
  <2>1. id \in KnownFuncs \cup {NoFunc}
    BY <1>3 DEF Hooks
  <2>2. /\ recording' \in {"off", "on", "over"} /\ mallocSizeRequested' = mallocSizeRequested
        /\ unfreed' = unfreed /\ lost' = lost /\ Emit(t, "Call")
    BY <1>5 DEF RoutineEnter, TypeOK
  <2>3. emitted' \in [Thread -> Seq(EventType)]
    BY <2>2, EmitIs
  <2>4. calls' \in [Thread -> Seq(KnownCall)]
    <3>1. CASE calls' = calls
      BY <3>1 DEF TypeOK
    <3>2. CASE calls' # calls
      <4>1. id # NoFunc /\ calls' = [calls EXCEPT ![t] = Push(calls[t], FuncCall(t, id))]
        BY <1>5, <3>2 DEF RoutineEnter
      <4>2. Push(calls[t], FuncCall(t, id)) \in Seq(KnownCall)
        BY <2>1, <4>1, ReplayTyped, PushTyped
      <4>3. QED
        BY <4>1, <4>2 DEF TypeOK
    <3>3. QED
      BY <3>1, <3>2
  <2>5. slipped' \in [Thread -> SUBSET KnownCall]
    <3>1. PICK base : base = FuncCall(t, id).frameBase
      OBVIOUS
    <3>2. \/ slipped' = slipped
          \/ slipped' = [slipped EXCEPT ![t] = {call \in slipped[t] : call.frameBase > base}]
      BY <1>5, <3>1 DEF RoutineEnter
    <3>3. slipped \in [Thread -> SUBSET KnownCall]
      BY DEF TypeOK
    <3>4. PICK left : left = {call \in slipped[t] : call.frameBase > base}
      OBVIOUS
    <3>5. left \in SUBSET KnownCall
      BY <3>3, <3>4
    <3>6. QED
      BY <3>2, <3>3, <3>4, <3>5
  <2>6. QED
    BY <1>2, <1>3, <2>2, <2>3, <2>4, <2>5 DEF TypeOK
<1>6. CASE RoutineExit(t)
  <2> DEFINE id == Head(todo[t]).id
             matters == recording # "off" /\ id # NoFunc
  <2>1. id \in KnownFuncs \cup {NoFunc}
    BY <1>3 DEF Hooks
  <2>2. /\ recording' \in {"off", "on", "over"} /\ mallocSizeRequested' = mallocSizeRequested
        /\ unfreed' = unfreed /\ lost' = lost /\ slipped' = slipped /\ Emit(t, "Ret")
    BY <1>6 DEF RoutineExit, TypeOK
  <2>3. emitted' \in [Thread -> Seq(EventType)]
    BY <2>2, EmitIs
  <2>4. calls' \in [Thread -> Seq(KnownCall)]
    <3>1. CASE matters /\ ~failed'
      <4>1. PopMatches(calls[t], FuncCall(t, id))
        BY <1>6, <3>1 DEF RoutineExit
      <4>2. Pop(calls[t]) \in Seq(KnownCall)
        BY <2>1, <3>1, <4>1, ReplayTyped, PopIs DEF PopMatches
      <4>3. calls' = [calls EXCEPT ![t] = Pop(calls[t])]
        BY <1>6, <3>1 DEF RoutineExit
      <4>4. QED
        BY <4>2, <4>3 DEF TypeOK
    <3>2. CASE ~(matters /\ ~failed')
      BY <1>6, <3>2 DEF RoutineExit, TypeOK
    <3>3. QED
      BY <3>1, <3>2
  <2>5. QED
    BY <1>2, <1>3, <2>2, <2>3, <2>4 DEF TypeOK
<1>7. CASE MemoryAccess(t)
  <2>1. emitted' \in [Thread -> Seq(EventType)]
    BY <1>7, EmitIs DEF MemoryAccess
  <2>2. QED
    BY <1>2, <1>3, <1>7, <2>1 DEF MemoryAccess, TypeOK
<1>8. CASE MallocBefore(t)
  BY <1>2, <1>3, <1>8 DEF MallocBefore, TypeOK
<1>9. CASE MallocAfter(t)
  <2>1. CASE arg[t] = NoBlock \/ ~mallocSizeRequested
    BY <1>2, <1>3, <1>9, <2>1 DEF MallocAfter, TypeOK
  <2>2. CASE ~(arg[t] = NoBlock \/ ~mallocSizeRequested)
    <3>1. emitted' \in [Thread -> Seq(EventType)]
      BY <1>9, <2>2, EmitIs DEF MallocAfter
    <3>2. arg[t] \in Block /\ unfreed[arg[t]] + 1 \in Nat
      BY <2>2 DEF TypeOK
    <3>3. unfreed' = unfreed \/ unfreed' = [unfreed EXCEPT ![arg[t]] = unfreed[arg[t]] + 1]
      BY <1>9, <2>2 DEF MallocAfter
    <3>4. unfreed' \in [Block -> Nat]
      BY <3>2, <3>3 DEF TypeOK
    <3>5. QED
      BY <1>2, <1>3, <1>9, <2>2, <3>1, <3>4 DEF MallocAfter, TypeOK
  <2>3. QED
    BY <2>1, <2>2
<1>10. CASE FreeBefore(t)
  <2>1. emitted' \in [Thread -> Seq(EventType)]
    BY <1>10, EmitIs DEF FreeBefore
  <2>2. /\ unfreed' = unfreed \/ unfreed' = [unfreed EXCEPT ![arg[t]] = 0]
        /\ lost' = lost \/ lost' = [lost EXCEPT ![arg[t]] = 0]
    BY <1>10 DEF FreeBefore
  <2>3. unfreed' \in [Block -> Nat] /\ lost' \in [Block -> Nat]
    <3>1. unfreed \in [Block -> Nat] /\ lost \in [Block -> Nat]
      BY DEF TypeOK
    <3>2. unfreed' \in [Block -> Nat]
      BY ONLY <2>2, <3>1
    <3>3. lost' \in [Block -> Nat]
      BY ONLY <2>2, <3>1
    <3>4. QED
      BY <3>2, <3>3
  <2>4. QED
    BY <1>2, <1>3, <1>10, <2>1, <2>3 DEF FreeBefore, TypeOK
<1>11. QED
  BY <1>4, <1>5, <1>6, <1>7, <1>8, <1>9, <1>10 DEF HookStep

\* A step of an instruction changes only what the program itself keeps.
LEMMA DoneIs ==
    ASSUME TypeOK, NEW t \in Thread, NEW op, Done(t, op)
    PROVE  /\ pc[t] \in Address /\ Code[pc[t]].op = op
           /\ at[t] = "hooks" /\ todo[t] = <<>> /\ recording # "over"
           /\ at' \in [Thread -> {"fetch", "hooks", "ended"}]
           /\ at'[t] = (IF op = "end" THEN "ended" ELSE "fetch")
           /\ \A u \in Thread : u # t => at'[u] = at[u]
           /\ hooks' = hooks /\ images' = images /\ todo' = todo
           /\ executes' = executes /\ watched' = watched
           /\ recording' = recording /\ mallocSizeRequested' = mallocSizeRequested
           /\ calls' = calls /\ failed' = failed /\ emitted' = emitted /\ unfreed' = unfreed
<1>1. at' = [at EXCEPT ![t] = IF op = "end" THEN "ended" ELSE "fetch"]
  BY DEF Done
<1>2. QED
  BY <1>1 DEF Done, TypeOK, logVars

\* A jump changes the place of its own thread.
LEMMA GotoIs ==
    ASSUME TypeOK, NEW t \in Thread, NEW a \in Address, Goto(t, a)
    PROVE  /\ pc' \in [Thread -> Address] /\ pc'[t] = a
           /\ \A u \in Thread : u # t => pc'[u] = pc[u]
  BY DEF Goto, TypeOK

\* What each instruction does to the stack of its thread.
LEMMA FramesAre ==
    ASSUME TypeOK, NEW t \in Thread
    PROVE  /\ frames[t] \in Seq(Frame)
           /\ Len(frames[t]) \in Nat \ {0}
           /\ \A i \in 1 .. Len(frames[t]) : frames[t][i].rtn \in Routine /\ frames[t][i].back \in Address
<1>1. frames[t] \in Seq(Frame) /\ frames[t] # <<>>
  BY DEF TypeOK
<1>2. \A i \in 1 .. Len(frames[t]) : frames[t][i] \in Frame
  BY <1>1, ElementOfSeq
<1>3. Len(frames[t]) \in Nat \ {0}
  BY <1>1
<1>4. QED
  BY <1>1, <1>2, <1>3 DEF Frame

\* A call puts a frame on top, which goes back behind the call.
LEMMA CallIs ==
    ASSUME TypeOK, NEW t \in Thread, Call(t)
    PROVE  \E b \in Code[pc[t]].to :
             /\ b \in Address /\ pc'[t] = b
             /\ frames' \in [Thread -> Seq(Frame) \ {<<>>}]
             /\ Len(frames'[t]) = Len(frames[t]) + 1
             /\ \A i \in 1 .. Len(frames[t]) : frames'[t][i] = frames[t][i]
             /\ frames'[t][Len(frames[t]) + 1] = [rtn |-> Code[b].rtn, back |-> pc[t] + 1]
             /\ \A u \in Thread : u # t => frames'[u] = frames[u] /\ pc'[u] = pc[u]
             /\ pc' \in [Thread -> Address]
<1>1. PICK b \in Code[pc[t]].to :
         /\ Goto(t, b)
         /\ frames' = [frames EXCEPT ![t] = Append(frames[t], [rtn |-> Code[b].rtn, back |-> pc[t] + 1])]
  BY DEF Call
<1>2. pc[t] \in Address /\ Code[pc[t]].op = "call"
  BY DoneIs DEF Call
<1>3. b \in Address /\ Code[b].rtn \in Routine /\ pc[t] + 1 \in Address
  BY <1>2, CodeIs
<1>4. [rtn |-> Code[b].rtn, back |-> pc[t] + 1] \in Frame
  BY <1>3 DEF Frame
<1>5. PICK e \in Frame : e = [rtn |-> Code[b].rtn, back |-> pc[t] + 1]
  BY <1>4
<1>6. frames[t] \in Seq(Frame)
  BY DEF TypeOK
<1>7. /\ Append(frames[t], e) \in Seq(Frame)
      /\ Len(Append(frames[t], e)) = Len(frames[t]) + 1
      /\ \A i \in 1 .. Len(frames[t]) : Append(frames[t], e)[i] = frames[t][i]
      /\ Append(frames[t], e)[Len(frames[t]) + 1] = e
  BY <1>6, AppendProperties
<1>8. frames' = [frames EXCEPT ![t] = Append(frames[t], e)]
  BY <1>1, <1>5
<1>9. Append(frames[t], e) # <<>>
  BY <1>6
<1>10. /\ frames' \in [Thread -> Seq(Frame) \ {<<>>}]
      /\ frames'[t] = Append(frames[t], e) /\ \A u \in Thread : u # t => frames'[u] = frames[u]
  BY <1>7, <1>8, <1>9 DEF TypeOK
<1>11. QED
  BY <1>1, <1>3, <1>5, <1>7, <1>10, GotoIs

\* A jump replaces the routine of the top frame, and nothing below it.
LEMMA JumpIs ==
    ASSUME TypeOK, NEW t \in Thread, Jump(t)
    PROVE  \E b \in Code[pc[t]].to :
             /\ b \in Address /\ pc'[t] = b
             /\ frames' \in [Thread -> Seq(Frame) \ {<<>>}]
             /\ Len(frames'[t]) = Len(frames[t])
             /\ \A i \in 1 .. Len(frames[t]) - 1 : frames'[t][i] = frames[t][i]
             /\ frames'[t][Len(frames[t])] = [rtn |-> Code[b].rtn, back |-> frames[t][Len(frames[t])].back]
             /\ \A u \in Thread : u # t => frames'[u] = frames[u] /\ pc'[u] = pc[u]
             /\ pc' \in [Thread -> Address]
<1>1. PICK b \in Code[pc[t]].to :
         Goto(t, b) /\ frames' = [frames EXCEPT ![t][Len(frames[t])].rtn = Code[b].rtn]
  BY DEF Jump
<1>2. pc[t] \in Address
  BY DoneIs DEF Jump
<1>3. b \in Address /\ Code[b].rtn \in Routine
  BY <1>2, CodeIs
<1>4. PICK n \in Nat \ {0} : n = Len(frames[t])
  BY FramesAre
<1>5. PICK s \in Seq(Frame) : s = frames[t]
  BY FramesAre
<1>6. s[n] \in Frame
  BY <1>4, <1>5, ElementOfSeq
<1>7. PICK r \in Routine : r = Code[b].rtn
  BY <1>3
<1>8. /\ [s EXCEPT ![n].rtn = r] \in Seq(Frame)
      /\ Len([s EXCEPT ![n].rtn = r]) = n
      /\ \A i \in 1 .. n - 1 : [s EXCEPT ![n].rtn = r][i] = s[i]
      /\ [s EXCEPT ![n].rtn = r][n] = [rtn |-> r, back |-> s[n].back]
  <2>1. PICK e \in Frame : e = [s[n] EXCEPT !.rtn = r]
    BY <1>6 DEF Frame
  <2>2. e = [rtn |-> r, back |-> s[n].back]
    BY <1>6, <2>1 DEF Frame
  <2>3. n \in 1 .. Len(s) /\ Len(s) = n
    BY <1>4, <1>5
  <2>4. [s EXCEPT ![n].rtn = r] = [s EXCEPT ![n] = e]
    BY <2>1
  <2>5. [s EXCEPT ![n] = e] \in Seq(Frame) /\ Len([s EXCEPT ![n] = e]) = Len(s)
        /\ \A i \in 1 .. Len(s) : [s EXCEPT ![n] = e][i] = IF i = n THEN e ELSE s[i]
    BY <2>3, ExceptSeq
  <2>6. QED
    BY <2>2, <2>3, <2>4, <2>5
<1>9. frames' = [frames EXCEPT ![t] = [s EXCEPT ![n].rtn = r]]
  BY <1>1, <1>4, <1>5, <1>7
<1>10. [s EXCEPT ![n].rtn = r] # <<>>
  <2>1. Len(<<>>) = 0
    OBVIOUS
  <2>2. QED
    BY <1>4, <1>8, <2>1
<1>11. /\ frames' \in [Thread -> Seq(Frame) \ {<<>>}]
       /\ frames'[t] = [s EXCEPT ![n].rtn = r] /\ \A u \in Thread : u # t => frames'[u] = frames[u]
  BY <1>8, <1>9, <1>10 DEF TypeOK
<1>12. QED
  BY <1>1, <1>3, <1>4, <1>5, <1>7, <1>8, <1>11, GotoIs

\* A return takes the top frame away and goes where it says.
LEMMA RetIs ==
    ASSUME TypeOK, NEW t \in Thread, Ret(t)
    PROVE  /\ Len(frames[t]) > 1
           /\ pc'[t] = frames[t][Len(frames[t])].back
           /\ frames' \in [Thread -> Seq(Frame) \ {<<>>}]
           /\ Len(frames'[t]) = Len(frames[t]) - 1
           /\ \A i \in 1 .. Len(frames[t]) - 1 : frames'[t][i] = frames[t][i]
           /\ \A u \in Thread : u # t => frames'[u] = frames[u] /\ pc'[u] = pc[u]
           /\ pc' \in [Thread -> Address]
<1>1. PICK s \in Seq(Frame) : s = frames[t]
  BY FramesAre
<1>2. /\ Len(s) > 1 /\ Goto(t, s[Len(s)].back)
      /\ frames' = [frames EXCEPT ![t] = SubSeq(s, 1, Len(s) - 1)]
  BY <1>1 DEF Ret, Last, Front
<1>3. PICK n \in Nat \ {0} : Len(s) = n + 1
  BY <1>2
<1>4. s[n + 1].back \in Address
  BY <1>1, <1>3, FramesAre
<1>5. 1 \in 1 .. Len(s) + 1 /\ n \in 0 .. Len(s)
  BY <1>3
<1>6. /\ SubSeq(s, 1, n) \in Seq(Frame)
      /\ Len(SubSeq(s, 1, n)) = n
      /\ \A i \in 1 .. n : SubSeq(s, 1, n)[i] = s[i]
  BY <1>3, <1>5, SubSeqProperties
<1>7. frames' = [frames EXCEPT ![t] = SubSeq(s, 1, n)]
  BY <1>2, <1>3
<1>8. SubSeq(s, 1, n) # <<>>
  <2>1. Len(<<>>) = 0
    OBVIOUS
  <2>2. QED
    BY <1>6, <2>1
<1>9. /\ frames' \in [Thread -> Seq(Frame) \ {<<>>}]
      /\ frames'[t] = SubSeq(s, 1, n) /\ \A u \in Thread : u # t => frames'[u] = frames[u]
  BY <1>6, <1>7, <1>8 DEF TypeOK
<1>10. Goto(t, s[n + 1].back)
  BY <1>2, <1>3
<1>11. /\ pc'[t] = s[n + 1].back /\ pc' \in [Thread -> Address]
      /\ \A u \in Thread : u # t => pc'[u] = pc[u]
  BY <1>4, <1>10, GotoIs
<1>12. Len(frames[t]) = n + 1 /\ Len(frames[t]) - 1 = n
  BY <1>1, <1>3
<1>13. QED
  BY <1>1, <1>2, <1>6, <1>9, <1>11, <1>12

\* A tail call of a known function leaves its call behind.
LEMMA SlippedIs ==
    ASSUME TypeOK, NEW t \in Thread, Jump(t)
    PROVE  \E b \in Code[pc[t]].to :
             LET rtn == Code[pc[t]].rtn
                 leaves == Code[b].rtn # rtn /\ rtn \in KnownFuncs /\ recording = "on" /\ ~failed
             IN /\ pc'[t] = b
                /\ slipped'[t] = slipped[t] \cup (IF leaves THEN {FuncCall(t, rtn)} ELSE {})
                /\ \A u \in Thread : u # t => slipped'[u] = slipped[u]
                /\ slipped' \in [Thread -> SUBSET KnownCall]
<1> DEFINE rtn == Code[pc[t]].rtn
           Leaves(b) == Code[b].rtn # rtn /\ rtn \in KnownFuncs /\ recording = "on" /\ ~failed
<1>1. PICK b \in Code[pc[t]].to :
         /\ Goto(t, b)
         /\ slipped' = IF Leaves(b) THEN [slipped EXCEPT ![t] = slipped[t] \cup {FuncCall(t, rtn)}]
                       ELSE slipped
  BY DEF Jump
<1>2. pc[t] \in Address
  BY DoneIs DEF Jump
<1>3. b \in Address /\ pc'[t] = b
  BY <1>1, <1>2, CodeIs, GotoIs
<1>4. PICK call : call = FuncCall(t, rtn)
  OBVIOUS
<1>5. Leaves(b) => call \in KnownCall
  BY <1>4, ReplayTyped
<1>6. slipped' = IF Leaves(b) THEN [slipped EXCEPT ![t] = slipped[t] \cup {call}] ELSE slipped
  BY <1>1, <1>4
<1> HIDE DEF Leaves
<1>7. /\ slipped'[t] = slipped[t] \cup (IF Leaves(b) THEN {call} ELSE {})
      /\ \A u \in Thread : u # t => slipped'[u] = slipped[u]
      /\ slipped' \in [Thread -> SUBSET KnownCall]
  BY <1>5, <1>6 DEF TypeOK
<1>8. QED
  BY <1>1, <1>3, <1>4, <1>7 DEF Leaves

\* The instructions keep the types.
LEMMA DoneTypeStep ==
    ASSUME TypeOK, NEW t \in Thread,
           ProgramStep(t)
    PROVE  TypeOK'
<1>1. PICK op : Done(t, op) /\ op \in Op
  BY DEF ProgramStep, Plain, Jump, Call, Ret, End, Alloc, Release, Resize, Keep, Pick, Op
<1>2. /\ hooks' \in [Address -> Seq(Hooks)]
      /\ recording' \in {"off", "on", "over"} /\ mallocSizeRequested' \in BOOLEAN
      /\ at' \in [Thread -> {"fetch", "hooks", "ended"}]
      /\ todo' \in [Thread -> Seq(Hooks)]
      /\ executes' \in [Thread -> BOOLEAN] /\ watched' \in [Thread -> BOOLEAN]
      /\ emitted' \in [Thread -> Seq(EventType)]
      /\ calls' \in [Thread -> Seq(KnownCall)]
      /\ unfreed' \in [Block -> Nat]
  BY <1>1, DoneIs DEF TypeOK
<1>3. pc[t] \in Address
  BY DEF TypeOK
<1>4. ASSUME \/ Done(t, "plain") \/ Done(t, "alloc") \/ Done(t, "release")
             \/ Done(t, "resize") \/ Done(t, "keep") \/ Done(t, "pick")
      PROVE  pc[t] + 1 \in Address
  BY <1>3, <1>4, CodeIs, DoneIs
<1>5. CASE Plain(t)
  <2>1. pc' \in [Thread -> Address]
    BY <1>4, <1>5, GotoIs DEF Plain
  <2>2. QED
    BY <1>2, <1>5, <2>1 DEF Plain, TypeOK
<1>6. CASE Jump(t)
  <2>1. pc' \in [Thread -> Address] /\ frames' \in [Thread -> Seq(Frame) \ {<<>>}]
    BY <1>6, JumpIs
  <2>2. slipped' \in [Thread -> SUBSET KnownCall]
    BY <1>6, SlippedIs DEF TypeOK
  <2>3. QED
    BY <1>2, <1>6, <2>1, <2>2 DEF Jump, TypeOK
<1>7. CASE Call(t)
  <2>1. pc' \in [Thread -> Address] /\ frames' \in [Thread -> Seq(Frame) \ {<<>>}]
    BY <1>7, CallIs
  <2>2. QED
    BY <1>2, <1>7, <2>1 DEF Call, TypeOK
<1>8. CASE Ret(t)
  <2>1. pc' \in [Thread -> Address] /\ frames' \in [Thread -> Seq(Frame) \ {<<>>}]
    BY <1>8, RetIs
  <2>2. QED
    BY <1>2, <1>8, <2>1 DEF Ret, TypeOK
<1>9. CASE End(t)
  BY <1>2, <1>9 DEF End, TypeOK, programVars
<1>10. CASE Alloc(t)
  <2>1. pc' \in [Thread -> Address]
    BY <1>4, <1>10, GotoIs DEF Alloc
  <2>2. arg' \in [Thread -> Block \cup {NoBlock}] /\ taken' \in SUBSET Block
    BY <1>10 DEF Alloc, TypeOK
  <2>3. QED
    BY <1>2, <1>10, <2>1, <2>2 DEF Alloc, TypeOK
<1>11. CASE Release(t)
  <2>1. pc' \in [Thread -> Address]
    BY <1>4, <1>11, GotoIs DEF Release
  <2>2. QED
    BY <1>2, <1>11, <2>1 DEF Release, TypeOK
<1>12. CASE Resize(t)
  <2>1. pc' \in [Thread -> Address]
    BY <1>4, <1>12, GotoIs DEF Resize
  <2>2. arg' \in [Thread -> Block \cup {NoBlock}] /\ taken' \in SUBSET Block /\ owned' \in SUBSET Block
    <3>1. arg' = arg \/ \E b \in Block \cup {NoBlock} : arg' = [arg EXCEPT ![t] = b]
      BY <1>12 DEF Resize
    <3>2. arg' \in [Thread -> Block \cup {NoBlock}]
      BY <3>1 DEF TypeOK
    <3>3. taken' = taken \/ \E b \in (Block \ taken) \cup {NoBlock} :
                              taken' = (taken \ {arg[t]}) \cup ({b} \ {NoBlock})
      BY <1>12 DEF Resize
    <3>4. taken' \in SUBSET Block
      BY <3>3 DEF TypeOK
    <3>5. owned' = owned \/ owned' = owned \cup ({arg[t]} \ {NoBlock})
      BY <1>12 DEF Resize
    <3>6. owned' \in SUBSET Block
      BY <3>5 DEF TypeOK
    <3>7. QED
      BY <3>2, <3>4, <3>6
  <2>3. lost' \in [Block -> Nat]
    <3>1. lost' = lost \/ lost' = [lost EXCEPT ![arg[t]] = lost[arg[t]] + 1]
      BY <1>12 DEF Resize
    <3>2. arg[t] \in Block => lost[arg[t]] + 1 \in Nat
      BY DEF TypeOK
    <3>3. QED
      BY <3>1, <3>2 DEF TypeOK
  <2>4. QED
    BY <1>2, <1>12, <2>1, <2>2, <2>3 DEF Resize, TypeOK
<1>13. CASE Keep(t)
  <2>1. pc' \in [Thread -> Address]
    BY <1>4, <1>13, GotoIs DEF Keep
  <2>2. owned' \in SUBSET Block
    BY <1>13 DEF Keep, TypeOK
  <2>3. QED
    BY <1>2, <1>13, <2>1, <2>2 DEF Keep, TypeOK
<1>14. CASE Pick(t)
  <2>1. pc' \in [Thread -> Address]
    BY <1>3, <1>4, <1>14, CodeIs, GotoIs DEF Pick
  <2>2. owned' \in SUBSET Block /\ arg' \in [Thread -> Block \cup {NoBlock}]
    BY <1>14 DEF Pick, TypeOK
  <2>3. QED
    BY <1>2, <1>14, <2>1, <2>2 DEF Pick, TypeOK
<1>15. QED
  BY <1>5, <1>6, <1>7, <1>8, <1>9, <1>10, <1>11, <1>12, <1>13, <1>14
  DEF ProgramStep

\* The hooks of an instruction are those of its image and of the callback.
LEMMA FetchIs ==
    ASSUME TypeOK, NEW t \in Thread, Fetch(t)
    PROVE  /\ at[t] = "fetch" /\ recording # "over" /\ (t = MainThread \/ recording = "on")
           /\ Image[Code[pc[t]].rtn] \in images
           /\ \E nextValid : todo'[t] = hooks[pc[t]] \o InstrumentInstruction(pc[t], nextValid)
           /\ todo' \in [Thread -> Seq(Hooks)] /\ at' \in [Thread -> {"fetch", "hooks", "ended"}]
           /\ at'[t] = "hooks" /\ watched'[t] = (recording # "off") /\ emitted'[t] = <<>>
           /\ \A u \in Thread : u # t => /\ todo'[u] = todo[u] /\ at'[u] = at[u]
                                         /\ executes'[u] = executes[u] /\ watched'[u] = watched[u]
                                         /\ emitted'[u] = emitted[u]
           /\ executes' \in [Thread -> BOOLEAN] /\ watched' \in [Thread -> BOOLEAN]
           /\ emitted' \in [Thread -> Seq(EventType)]
           /\ hooks' = hooks /\ images' = images /\ pc' = pc /\ frames' = frames
           /\ taken' = taken /\ owned' = owned /\ arg' = arg
           /\ recording' = recording /\ mallocSizeRequested' = mallocSizeRequested
           /\ calls' = calls /\ failed' = failed /\ slipped' = slipped
           /\ unfreed' = unfreed /\ lost' = lost
<1>1. PICK nextValid \in BOOLEAN :
         todo' = [todo EXCEPT ![t] = hooks[pc[t]] \o InstrumentInstruction(pc[t], nextValid)]
  BY DEF Fetch
<1>2. pc[t] \in Address /\ hooks[pc[t]] \in Seq(Hooks)
  BY DEF TypeOK
<1>3. hooks[pc[t]] \o InstrumentInstruction(pc[t], nextValid) \in Seq(Hooks)
  BY <1>2, InstrumentInstructionIs, AccessHooksLast
<1>4. todo' \in [Thread -> Seq(Hooks)]
  BY <1>1, <1>3 DEF TypeOK
<1>5. PICK p \in BOOLEAN : executes' = [executes EXCEPT ![t] = p]
  BY DEF Fetch
<1>6. /\ at' = [at EXCEPT ![t] = "hooks"] /\ watched' = [watched EXCEPT ![t] = (recording # "off")]
      /\ emitted' = [emitted EXCEPT ![t] = <<>>]
  BY DEF Fetch
<1>7. /\ at' \in [Thread -> {"fetch", "hooks", "ended"}] /\ executes' \in [Thread -> BOOLEAN]
      /\ watched' \in [Thread -> BOOLEAN] /\ emitted' \in [Thread -> Seq(EventType)]
      /\ at'[t] = "hooks" /\ watched'[t] = (recording # "off") /\ emitted'[t] = <<>>
  BY <1>5, <1>6 DEF TypeOK
<1>8. \A u \in Thread : u # t => /\ todo'[u] = todo[u] /\ at'[u] = at[u]
                                 /\ executes'[u] = executes[u] /\ watched'[u] = watched[u]
                                 /\ emitted'[u] = emitted[u]
  BY <1>1, <1>5, <1>6 DEF TypeOK
<1>9. todo'[t] = hooks[pc[t]] \o InstrumentInstruction(pc[t], nextValid)
  BY <1>1 DEF TypeOK
<1>10. QED
  BY <1>4, <1>7, <1>8, <1>9 DEF Fetch, programVars

\* Loading an image changes hooks only.
LEMMA LoadIs ==
    ASSUME TypeOK, NEW img, InstrumentImageLoad(img)
    PROVE  /\ hooks' \in [Address -> Seq(Hooks)]
           /\ at' = at /\ todo' = todo /\ executes' = executes /\ watched' = watched
           /\ pc' = pc /\ frames' = frames /\ taken' = taken /\ owned' = owned /\ arg' = arg
           /\ recording' = recording /\ mallocSizeRequested' = mallocSizeRequested
           /\ calls' = calls /\ failed' = failed /\ emitted' = emitted /\ unfreed' = unfreed
           /\ slipped' = slipped /\ lost' = lost
<1>1. \A a \in Address : ImageHooks(a) \in Seq(Hooks)
  BY AllHooksAre
<1>2. QED
  BY <1>1 DEF InstrumentImageLoad, TypeOK, programVars, logVars

LEMMA TypeStep == TypeOK /\ [Next]_vars => TypeOK'
<1> SUFFICES ASSUME TypeOK, [Next]_vars PROVE TypeOK'
  OBVIOUS
<1>1. ASSUME NEW img, InstrumentImageLoad(img) PROVE TypeOK'
  BY <1>1, LoadIs DEF TypeOK
<1>2. ASSUME NEW t \in Thread, Fetch(t) PROVE TypeOK'
  BY <1>2, FetchIs DEF TypeOK
<1>3. CASE UNCHANGED vars
  BY <1>3 DEF vars, programVars, logVars, TypeOK
<1>4. QED
  BY <1>1, <1>2, <1>3, NextIs, HookTypeStep, DoneTypeStep

\* The variables keep their types.
THEOREM TypeCorrect == Spec => []TypeOK
<1>1. QED
  BY TypeInit, TypeStep, PTL DEF Spec

-----------------------------------------------------------------------------
(* Every access is recorded *)

\* The hooks at an address are those of its image, when that is loaded.
HooksInv == \A a \in Address : hooks[a] = IF Image[Code[a].rtn] \in images THEN ImageHooks(a) ELSE <<>>

TodoInv == \A t \in Thread : at[t] = "hooks" => Ordered(pc[t], todo[t])

\* The accesses recorded, and those whose hooks have still to run.
CountInv ==
    \A t \in Thread :
        /\ watched[t] => recording # "off"
        /\ at[t] = "hooks" /\ watched[t] =>
             \A type \in {"Read", "Write"} :
                IF executes[t]
                THEN Count(emitted[t], {type}) + Count(todo[t], HooksFor(type)) =
                         Times(pc[t]) * Operands(pc[t], type)
                ELSE Count(emitted[t], {type}) = 0

AccessInv == TypeOK /\ HooksInv /\ TodoInv /\ CountInv

\* A hook is first or among the others.
LEMMA HasTail ==
    ASSUME NEW s \in Seq(Hooks), s # <<>>, NEW fn
    PROVE  Has(s, fn) <=> Head(s).fn = fn \/ Has(Tail(s), fn)
<1>1. /\ Len(s) \in Nat \ {0} /\ Head(s) = s[1] /\ Len(Tail(s)) = Len(s) - 1
      /\ \A i \in 1 .. Len(s) - 1 : Tail(s)[i] = s[i + 1]
  OBVIOUS
<1>2. ASSUME NEW i \in 1 .. Len(s), s[i].fn = fn PROVE Head(s).fn = fn \/ Has(Tail(s), fn)
  <2>1. CASE i = 1
    BY <1>1, <1>2, <2>1
  <2>2. CASE i # 1
    <3>1. i - 1 \in 1 .. Len(s) - 1 /\ Tail(s)[i - 1] = s[i]
      BY <1>1, <2>2
    <3>2. QED
      BY <1>1, <1>2, <3>1 DEF Has
  <2>3. QED
    BY <2>1, <2>2
<1>3. ASSUME Has(Tail(s), fn) PROVE Has(s, fn)
  <2>1. PICK i \in 1 .. Len(s) - 1 : Tail(s)[i].fn = fn
    BY <1>1, <1>3 DEF Has
  <2>2. i + 1 \in 1 .. Len(s) /\ s[i + 1].fn = fn
    BY <1>1, <2>1
  <2>3. QED
    BY <2>2 DEF Has
<1>4. ASSUME Head(s).fn = fn PROVE Has(s, fn)
  BY <1>1, <1>4 DEF Has
<1>5. QED
  BY <1>2, <1>3, <1>4 DEF Has

\* What is left when the first hook has run is in order too.
LEMMA OrderedTail ==
    ASSUME NEW s \in Seq(Hooks), s # <<>>, NEW a, Ordered(a, s)
    PROVE  Ordered(a, Tail(s)) /\ ~Has(Tail(s), "routineEnter")
<1>1. Tail(s) \in Seq(Hooks)
  OBVIOUS
<1>2. PICK u \in Seq(Hooks) : u = Tail(s)
  BY <1>1
<1>3. /\ Len(s) \in Nat \ {0} /\ Len(u) = Len(s) - 1
      /\ \A i \in 1 .. Len(u) : i + 1 \in 1 .. Len(s) /\ i + 1 # 1 /\ u[i] = s[i + 1]
  BY <1>2
<1>4. \A i \in 1 .. Len(u) : u[i].fn # "routineEnter" /\ u[i].fn # "freeBefore"
  BY <1>3 DEF Ordered
<1>5. ASSUME NEW i \in 1 .. Len(u)
      PROVE  /\ u[i].predicated <=> u[i].fn \in {"memoryRead", "memoryWrite", "callInstBefore"}
             /\ u[i].fn = "routineExit" =>
                  /\ Code[a].op = "ret" /\ u[i].id = GetRoutineId(Code[a].rtn)
                  /\ \A j \in 1 .. i - 1 : u[j].fn = "routineEnter"
             /\ u[i].fn = "mallocAfter" =>
                  /\ Code[a].op = "ret" /\ Code[a].rtn = "malloc"
                  /\ \A j \in 1 .. i - 1 : u[j].fn = "mallocBefore"
  <2>1. i + 1 \in 1 .. Len(s) /\ u[i] = s[i + 1]
    BY <1>3
  <2>2. \A j \in 1 .. i - 1 : j + 1 \in 1 .. (i + 1) - 1 /\ u[j] = s[j + 1]
    BY <1>3
  <2>3. QED
    BY <2>1, <2>2 DEF Ordered
<1>6. ~Has(u, "routineEnter")
  BY <1>4 DEF Has
<1>7. QED
  BY <1>2, <1>4, <1>5, <1>6 DEF Ordered

\* What the hook that is next records of accesses.
LEMMA AccessEvent ==
    ASSUME TypeOK, NEW t \in Thread, watched[t] => recording # "off", recording # "over",
           HookStep(t), ~SkipHook(t),
           NEW type \in {"Read", "Write"}
    PROVE  /\ Head(todo[t]).predicated => executes[t]
           /\ watched[t] => recording' # "off"
           /\ watched[t] =>
                Count(emitted'[t], {type}) =
                    Count(emitted[t], {type}) + (IF Head(todo[t]) \in HooksFor(type) THEN 1 ELSE 0)
<1>1. NextHook(t) /\ (Head(todo[t]).predicated => executes[t])
  BY DEF HookStep, RoutineEnter, RoutineExit, MemoryAccess, MallocBefore, MallocAfter, FreeBefore,
         RunHook
<1>2. PICK h \in Hooks : h = Head(todo[t])
  BY <1>1, NextHookIs
<1>3. h \in HooksFor(type) <=> h.fn = IF type = "Read" THEN "memoryRead" ELSE "memoryWrite"
  BY DEF HooksFor
<1>4. emitted[t] \in Seq(EventType)
  BY DEF TypeOK
<1>5. ASSUME watched[t], NEW e \in EventType, Emit(t, e), recording' # "off",
             e = type <=> h \in HooksFor(type)
      PROVE  Count(emitted'[t], {type}) =
                Count(emitted[t], {type}) + (IF h \in HooksFor(type) THEN 1 ELSE 0)
  <2>1. emitted'[t] = Append(emitted[t], e)
    BY <1>5, EmitIs
  <2>2. Count(Append(emitted[t], e), {type}) =
            Count(emitted[t], {type}) + (IF e \in {type} THEN 1 ELSE 0)
    BY <1>4, CountAppend
  <2>3. QED
    BY <1>5, <2>1, <2>2
<1>6. Count(emitted[t], {type}) \in Nat
  BY <1>4, CountNat
<1>7. CASE RoutineEnter(t)
  <2>1. h.fn = "routineEnter" /\ Emit(t, "Call") /\ "Call" \in EventType
    BY <1>2, <1>7 DEF RoutineEnter, RunHook, EventType
  <2>2. watched[t] => recording' # "off"
    BY <1>7 DEF RoutineEnter
  <2>3. QED
    BY <1>1, <1>2, <1>3, <1>5, <2>1, <2>2
<1>8. CASE RoutineExit(t)
  <2>1. h.fn = "routineExit" /\ Emit(t, "Ret") /\ "Ret" \in EventType
    BY <1>2, <1>8 DEF RoutineExit, RunHook, EventType
  <2>2. watched[t] => recording' # "off"
    BY <1>8 DEF RoutineExit
  <2>3. QED
    BY <1>1, <1>2, <1>3, <1>5, <2>1, <2>2
<1>9. CASE MemoryAccess(t)
  <2>1. PICK e \in EventType : /\ Emit(t, e)
                               /\ \/ h.fn = "memoryRead" /\ e = "Read"
                                  \/ h.fn = "memoryWrite" /\ e = "Write"
                                  \/ h.fn = "callInstBefore" /\ e = "CallInst"
    BY <1>2, <1>9 DEF MemoryAccess, RunHook, EventType
  <2>2. recording' = recording
    BY <1>9 DEF MemoryAccess
  <2>3. e = type <=> h \in HooksFor(type)
    BY <1>3, <2>1
  <2>4. QED
    BY <1>1, <1>2, <1>5, <2>1, <2>2, <2>3
<1>10. CASE MallocBefore(t)
  BY <1>1, <1>2, <1>3, <1>6, <1>10 DEF MallocBefore, RunHook
<1>11. CASE MallocAfter(t)
  <2>1. h.fn = "mallocAfter" /\ recording' = recording
    BY <1>2, <1>11 DEF MallocAfter, RunHook
  <2>2. emitted' = emitted \/ (Emit(t, "Alloc") /\ "Alloc" \in EventType)
    BY <1>11 DEF MallocAfter, EventType
  <2>3. watched[t] => recording' # "off"
    BY <2>1
  <2>4. h \notin HooksFor(type) /\ "Alloc" # type
    BY <1>3, <2>1
  <2>5. watched[t] => Count(emitted'[t], {type}) = Count(emitted[t], {type}) + 0
    <3>1. CASE emitted' = emitted
      BY <1>6, <3>1
    <3>2. CASE Emit(t, "Alloc")
      BY <1>5, <2>2, <2>3, <2>4, <3>1, <3>2
    <3>3. QED
      BY <2>2, <3>1, <3>2
  <2>6. QED
    BY <1>1, <1>2, <2>3, <2>4, <2>5
<1>12. CASE FreeBefore(t)
  <2>1. h.fn = "freeBefore" /\ Emit(t, "Free") /\ "Free" \in EventType /\ recording' = recording
    BY <1>2, <1>12 DEF FreeBefore, RunHook, EventType
  <2>2. QED
    BY <1>1, <1>2, <1>3, <1>5, <2>1
<1>13. QED
  BY <1>7, <1>8, <1>9, <1>10, <1>11, <1>12 DEF HookStep

\* A hook changes what is recorded of its own thread only.
LEMMA HookIs ==
    ASSUME TypeOK, NEW t \in Thread,
           HookStep(t)
    PROVE  /\ NextHook(t) /\ at[t] = "hooks" /\ recording # "over"
           /\ hooks' = hooks /\ images' = images /\ at' = at
           /\ executes' = executes /\ watched' = watched
           /\ pc' = pc /\ frames' = frames /\ taken' = taken /\ owned' = owned /\ arg' = arg
           /\ \A u \in Thread : u # t => /\ emitted'[u] = emitted[u] /\ calls'[u] = calls[u]
                                         /\ slipped'[u] = slipped[u]
           /\ recording # "off" => recording' # "off"
<1>1. NextHook(t)
  BY DEF HookStep, SkipHook, RoutineEnter, RoutineExit, MemoryAccess, MallocBefore, MallocAfter,
         FreeBefore, RunHook
<1>2. \A type \in EventType : Emit(t, type) => \A u \in Thread : u # t => emitted'[u] = emitted[u]
  BY EmitIs
<1>3. \A u \in Thread : u # t => emitted'[u] = emitted[u]
  BY <1>2 DEF HookStep, SkipHook, RoutineEnter, RoutineExit, MemoryAccess, MallocBefore,
              MallocAfter, FreeBefore,
              logVars, EventType
<1>4. \A u \in Thread : u # t => calls'[u] = calls[u] /\ slipped'[u] = slipped[u]
  <2>1. \/ calls' = calls
        \/ \E s : calls' = [calls EXCEPT ![t] = s]
    BY DEF HookStep, SkipHook, RoutineEnter, RoutineExit, MemoryAccess, MallocBefore, MallocAfter,
           FreeBefore, logVars
  <2>2. CASE RoutineEnter(t)
    <3>1. PICK S : S = {call \in slipped[t] : call.frameBase > FuncCall(t, Head(todo[t]).id).frameBase}
      OBVIOUS
    <3>2. slipped' = slipped \/ slipped' = [slipped EXCEPT ![t] = S]
      BY <2>2, <3>1 DEF RoutineEnter
    <3>3. QED
      BY <2>1, <3>2 DEF TypeOK
  <2>3. CASE ~RoutineEnter(t)
    <3>1. slipped' = slipped
      BY <2>3 DEF HookStep, SkipHook, RoutineExit, MemoryAccess, MallocBefore, MallocAfter, FreeBefore
    <3>2. QED
      BY <2>1, <3>1 DEF TypeOK
  <2>4. QED
    BY <2>2, <2>3
<1>5. recording # "off" => recording' # "off"
  BY DEF HookStep, SkipHook, RoutineEnter, RoutineExit, MemoryAccess, MallocBefore, MallocAfter,
         FreeBefore, logVars
<1>6. QED
  BY <1>1, <1>3, <1>4, <1>5 DEF NextHook, programVars

LEMMA AccessInit == Init => AccessInv
<1> SUFFICES ASSUME Init PROVE AccessInv
  OBVIOUS
<1>1. TypeOK
  BY TypeInit
<1>2. HooksInv
  BY DEF Init, HooksInv
<1>3. TodoInv /\ CountInv
  BY DEF Init, TodoInv, CountInv
<1>4. QED
  BY <1>1, <1>2, <1>3 DEF AccessInv

\* At an instruction every access of it has its hooks.
LEMMA AccessFetchStep ==
    ASSUME AccessInv, NEW t \in Thread, Fetch(t)
    PROVE  TodoInv' /\ CountInv'
<1>1. TypeOK /\ HooksInv /\ TodoInv /\ CountInv /\ pc[t] \in Address
  BY DEF AccessInv, TypeOK
<1>2. PICK nextValid : todo'[t] = AllHooks(pc[t], nextValid)
  <2>1. hooks[pc[t]] = ImageHooks(pc[t])
    BY <1>1, FetchIs DEF HooksInv
  <2>2. PICK nextValid : todo'[t] = hooks[pc[t]] \o InstrumentInstruction(pc[t], nextValid)
    BY <1>1, FetchIs
  <2>3. QED
    BY <2>1, <2>2 DEF AllHooks
<1>3. /\ Ordered(pc[t], todo'[t])
      /\ \A type \in {"Read", "Write"} :
           Count(todo'[t], HooksFor(type)) = Times(pc[t]) * Operands(pc[t], type)
  BY <1>1, <1>2, AllHooksAre
<1>4. \A type \in {"Read", "Write"} : Count(<<>>, {type}) = 0
  <2>1. Len(<<>>) = 0
    OBVIOUS
  <2>2. QED
    BY <2>1, CountEmpty
<1>5. TodoInv'
  BY <1>1, <1>3, FetchIs DEF TodoInv
<1>6. ASSUME NEW u \in Thread
      PROVE  /\ watched'[u] => recording' # "off"
             /\ at'[u] = "hooks" /\ watched'[u] =>
                  \A type \in {"Read", "Write"} :
                     IF executes'[u]
                     THEN Count(emitted'[u], {type}) + Count(todo'[u], HooksFor(type)) =
                              Times(pc'[u]) * Operands(pc'[u], type)
                     ELSE Count(emitted'[u], {type}) = 0
  <2>1. CASE u = t
    <3>1. ASSUME NEW type \in {"Read", "Write"}
          PROVE  /\ Count(emitted'[t], {type}) = 0
                 /\ Count(todo'[t], HooksFor(type)) = Times(pc[t]) * Operands(pc[t], type)
                 /\ Count(todo'[t], HooksFor(type)) \in Nat
      <4>1. emitted'[t] = <<>> /\ todo'[t] \in Seq(Hooks)
        BY <1>1, FetchIs
      <4>2. QED
        BY <1>3, <1>4, <4>1, CountNat
    <3>2. watched'[t] = (recording # "off") /\ recording' = recording /\ pc' = pc
      BY <1>1, FetchIs
    <3>3. \A type \in {"Read", "Write"} :
             /\ Count(emitted'[t], {type}) + Count(todo'[t], HooksFor(type)) =
                    Times(pc'[t]) * Operands(pc'[t], type)
             /\ Count(emitted'[t], {type}) = 0
      BY <3>1, <3>2
    <3>4. QED
      BY <2>1, <3>2, <3>3
  <2>2. CASE u # t
    <3>1. /\ todo'[u] = todo[u] /\ at'[u] = at[u] /\ executes'[u] = executes[u]
          /\ watched'[u] = watched[u] /\ emitted'[u] = emitted[u]
          /\ recording' = recording /\ pc' = pc
      BY <1>1, <2>2, FetchIs
    <3>2. QED
      BY <1>1, <3>1 DEF CountInv
  <2>3. QED
    BY <2>1, <2>2
<1>7. QED
  BY <1>5, <1>6 DEF CountInv

\* A hook that runs is an event more and a hook less.
LEMMA AccessHookStep ==
    ASSUME AccessInv, NEW t \in Thread,
           HookStep(t)
    PROVE  TodoInv' /\ CountInv'
<1>1. TypeOK /\ TodoInv /\ CountInv
  BY DEF AccessInv
<1>2. /\ NextHook(t) /\ at[t] = "hooks" /\ recording # "over" /\ at' = at /\ executes' = executes
      /\ watched' = watched /\ pc' = pc /\ \A u \in Thread : u # t => emitted'[u] = emitted[u]
      /\ recording # "off" => recording' # "off"
  BY <1>1, HookIs
<1>3. /\ todo[t] \in Seq(Hooks) /\ todo[t] # <<>> /\ Head(todo[t]) \in Hooks
      /\ todo'[t] = Tail(todo[t]) /\ \A u \in Thread : u # t => todo'[u] = todo[u]
  BY <1>1, <1>2, NextHookIs
<1>4. Ordered(pc[t], todo[t])
  BY <1>1, <1>2 DEF TodoInv
<1>5. Ordered(pc[t], todo'[t])
  BY <1>3, <1>4, OrderedTail
<1>6. TodoInv'
  BY <1>1, <1>2, <1>3, <1>5 DEF TodoInv
<1>7. ASSUME watched[t], NEW type \in {"Read", "Write"}
      PROVE  IF executes[t]
             THEN Count(emitted'[t], {type}) + Count(todo'[t], HooksFor(type)) =
                      Times(pc[t]) * Operands(pc[t], type)
             ELSE Count(emitted'[t], {type}) = 0
  <2> DEFINE e == Count(emitted[t], {type})
             n == Count(todo'[t], HooksFor(type))
             d == IF Head(todo[t]) \in HooksFor(type) THEN 1 ELSE 0
  <2>1. IF executes[t] THEN e + Count(todo[t], HooksFor(type)) = Times(pc[t]) * Operands(pc[t], type)
        ELSE e = 0
    BY <1>1, <1>2, <1>7 DEF CountInv
  <2>2. Count(todo[t], HooksFor(type)) = n + d
    BY <1>3, CountTail
  <2>3. e \in Nat /\ n \in Nat /\ d \in Nat
    <3>1. emitted[t] \in Seq(EventType) /\ todo'[t] \in Seq(Hooks)
      BY <1>1, <1>3 DEF TypeOK
    <3>2. QED
      BY <3>1, CountNat
  <2>4. Head(todo[t]) \in HooksFor(type) => Head(todo[t]).predicated
    <3>1. Len(todo[t]) \in Nat \ {0} /\ Head(todo[t]) = todo[t][1] /\ 1 \in 1 .. Len(todo[t])
      BY <1>3
    <3>2. QED
      BY <1>4, <3>1 DEF Ordered, HooksFor
  <2>5. CASE SkipHook(t)
    <3>1. emitted' = emitted /\ ~executes[t]
      BY <2>5 DEF SkipHook, logVars
    <3>2. QED
      BY <2>1, <3>1
  <2>6. CASE ~SkipHook(t)
    <3>1. watched[t] => recording # "off"
      BY <1>1 DEF CountInv
    <3>2. (Head(todo[t]).predicated => executes[t]) /\ Count(emitted'[t], {type}) = e + d
      BY <1>1, <1>2, <1>7, <2>6, <3>1, AccessEvent
    <3> HIDE DEF e, n
    <3>3. CASE executes[t]
      BY <2>1, <2>2, <2>3, <3>2, <3>3 DEF n
    <3>4. CASE ~executes[t]
      BY <2>1, <2>4, <3>2, <3>4
    <3>5. QED
      BY <3>3, <3>4
  <2>7. QED
    BY <2>5, <2>6
<1>8. CountInv'
  BY <1>1, <1>2, <1>3, <1>7 DEF CountInv
<1>9. QED
  BY <1>6, <1>8

\* The invariant is inductive.
LEMMA AccessStep == AccessInv /\ [Next]_vars => AccessInv'
<1> SUFFICES ASSUME AccessInv, [Next]_vars PROVE AccessInv'
  OBVIOUS
<1>1. TypeOK /\ HooksInv /\ TodoInv /\ CountInv /\ TypeOK'
  BY TypeStep DEF AccessInv
<1>2. ASSUME NEW img, InstrumentImageLoad(img) PROVE HooksInv' /\ TodoInv' /\ CountInv'
  <2>1. /\ images' = images \cup {img}
        /\ hooks' = [a \in Address |-> IF Image[Code[a].rtn] = img THEN ImageHooks(a) ELSE hooks[a]]
    BY <1>2 DEF InstrumentImageLoad
  <2>2. HooksInv'
    BY <1>1, <2>1 DEF HooksInv
  <2>3. QED
    BY <1>1, <1>2, <2>2, LoadIs DEF TodoInv, CountInv
<1>3. ASSUME NEW t \in Thread, Fetch(t) PROVE HooksInv' /\ TodoInv' /\ CountInv'
  <2>1. TodoInv' /\ CountInv'
    BY <1>3, AccessFetchStep
  <2>2. hooks' = hooks /\ images' = images
    BY <1>1, <1>3, FetchIs
  <2>3. QED
    BY <1>1, <2>1, <2>2 DEF HooksInv
<1>4. ASSUME NEW t \in Thread,
             HookStep(t)
      PROVE  HooksInv' /\ TodoInv' /\ CountInv'
  BY <1>1, <1>4, AccessHookStep, HookIs DEF HooksInv
<1>5. ASSUME NEW t \in Thread,
             ProgramStep(t)
      PROVE  HooksInv' /\ TodoInv' /\ CountInv'
  <2>1. \E op : Done(t, op)
    BY <1>5 DEF ProgramStep, Plain, Jump, Call, Ret, End, Alloc, Release, Resize, Keep, Pick
  <2>2. /\ hooks' = hooks /\ images' = images /\ todo' = todo /\ executes' = executes
        /\ watched' = watched /\ emitted' = emitted /\ recording' = recording
        /\ at'[t] # "hooks" /\ \A u \in Thread : u # t => at'[u] = at[u]
    BY <1>1, <2>1, DoneIs
  <2>3. \A u \in Thread : u # t => pc'[u] = pc[u]
    <3>1. \A u \in Thread, a \in Address : Goto(t, a) /\ u # t => pc'[u] = pc[u]
      BY <1>1, GotoIs
    <3>2. (\E a : Goto(t, a)) \/ pc' = pc
      BY <1>5 DEF ProgramStep, Plain, Jump, Call, Ret, End, Alloc, Release, Resize, Keep, Pick, programVars
    <3>3. QED
      BY <1>1, <3>2 DEF Goto, TypeOK
  <2>4. QED
    BY <1>1, <2>2, <2>3 DEF HooksInv, TodoInv, CountInv
<1>6. ASSUME UNCHANGED vars PROVE HooksInv' /\ TodoInv' /\ CountInv'
  <2>1. UNCHANGED <<hooks, images, at, todo, executes, watched, pc, recording, emitted>>
    BY <1>6 DEF vars, programVars, logVars
  <2>2. QED
    BY <1>1, <2>1 DEF HooksInv, TodoInv, CountInv
<1>7. HooksInv' /\ TodoInv' /\ CountInv'
  BY <1>2, <1>3, <1>4, <1>5, <1>6, NextIs
<1>8. QED
  BY <1>1, <1>7 DEF AccessInv

\* The callbacks of Pin miss no access of any program while main runs: each is
\* recorded as often as hooks are put before it, and none whose predicate is false.
THEOREM EveryAccessRecorded == Spec => []AccessesRecorded
<1>1. AccessInv => AccessesRecorded
  <2> SUFFICES ASSUME AccessInv, NEW t \in Thread, at[t] = "hooks", todo[t] = <<>>, watched[t],
                      NEW type \in {"Read", "Write"}
               PROVE  Cardinality({i \in DOMAIN emitted[t] : emitted[t][i] = type}) =
                        IF ~executes[t] THEN 0
                        ELSE (IF Image[Code[pc[t]].rtn] = binPath THEN 2 ELSE 1) * Operands(pc[t], type)
    BY DEF AccessesRecorded
  <2>1. emitted[t] \in Seq(EventType) /\ Len(todo[t]) = 0
    BY DEF AccessInv, TypeOK
  <2>2. Count(todo[t], HooksFor(type)) = 0 /\ Count(emitted[t], {type}) \in Nat
    BY <2>1, CountEmpty, CountNat
  <2>3. {i \in DOMAIN emitted[t] : emitted[t][i] = type}
          = {i \in 1 .. Len(emitted[t]) : emitted[t][i] \in {type}}
    BY <2>1
  <2>4. Cardinality({i \in DOMAIN emitted[t] : emitted[t][i] = type}) = Count(emitted[t], {type})
    BY <2>3 DEF Count
  <2>5. IF executes[t]
        THEN Count(emitted[t], {type}) + Count(todo[t], HooksFor(type)) =
                 Times(pc[t]) * Operands(pc[t], type)
        ELSE Count(emitted[t], {type}) = 0
    BY DEF AccessInv, CountInv
  <2>6. QED
    BY <2>2, <2>4, <2>5 DEF Times
<1>2. QED
  BY <1>1, AccessInit, AccessStep, PTL DEF Spec

-----------------------------------------------------------------------------
(* The stacks of the program *)

Startup == CHOOSE S \in SUBSET (Routine \ KnownFuncs) : IsStartup(S)

\* Where frame i of t goes on.
Pos(t, i) == IF i = Len(frames[t]) THEN pc[t] ELSE frames[t][i + 1].back

IsReturn(b) == b \in Address /\ b - 1 \in Address /\ Code[b - 1].op = "call"

\* A frame is of the routine in which it goes on, a call goes on behind itself with
\* what the routine called gives, and startup code is called by startup code only.
FramesOK(t) ==
    /\ \A i \in 1 .. Len(frames[t]) : frames[t][i].rtn = Code[Pos(t, i)].rtn
    /\ \A i \in 2 .. Len(frames[t]) :
         /\ IsReturn(frames[t][i].back)
         /\ Passes(Code[Pos(t, i)].gives, Code[frames[t][i].back].holds)
    /\ \A i \in 1 .. Len(frames[t]) :
         frames[t][i].rtn \in Startup \cup {"main"} => \A j \in 1 .. i - 1 : frames[t][j].rtn \in Startup

FramesInv == \A t \in Thread : FramesOK(t)

\* There is startup code, see StartAssumption.
LEMMA StartupIs == Startup \in SUBSET (Routine \ KnownFuncs) /\ IsStartup(Startup)
  BY StartAssumption DEF Startup

\* A routine has a first instruction.
LEMMA FirstIs ==
    ASSUME NEW a \in Address
    PROVE  /\ First(Code[a].rtn) \in Address /\ Code[First(Code[a].rtn)].rtn = Code[a].rtn
           /\ First(Code[a].rtn) <= a
<1> DEFINE rtn == Code[a].rtn
           S == {b \in Address : Code[b].rtn = rtn}
<1>1. PICK m \in S : \A b \in S : m <= b
  <2>1. S \in SUBSET Nat /\ a \in S
    BY CodeAssumption
  <2> HIDE DEF S
  <2>2. QED
    BY <2>1, LeastExists
<1>2. m \in Address /\ Code[m].rtn = rtn /\ \A b \in Address : Code[b].rtn = rtn => m <= b
  BY <1>1
<1>3. /\ First(rtn) \in Address /\ Code[First(rtn)].rtn = rtn
      /\ \A b \in Address : Code[b].rtn = rtn => First(rtn) <= b
  BY <1>2 DEF First
<1>4. QED
  BY <1>3

\* No call returns to the first instruction of a routine, nor to malloc or free.
LEMMA ReturnIs ==
    ASSUME NEW b, IsReturn(b)
    PROVE  /\ b \in Address /\ b # First(Code[b].rtn)
           /\ Code[b].rtn = Code[b - 1].rtn /\ Code[b].rtn \notin {"malloc", "free"}
<1>1. b - 1 \in Address /\ b - 1 \in Nat /\ b \in Nat /\ Code[b - 1].op = "call"
  BY CodeAssumption DEF IsReturn
<1>2. (b - 1) + 1 = b
  BY <1>1
<1>3. b \in Address /\ Code[b].rtn = Code[b - 1].rtn
  BY <1>1, <1>2, CodeIs
<1>4. First(Code[b].rtn) <= b - 1 /\ First(Code[b].rtn) \in Nat
  BY <1>1, <1>3, FirstIs, CodeAssumption
<1>5. Code[b - 1].rtn \notin {"malloc", "free"}
  BY <1>1, HeapAssumption
<1>6. QED
  BY <1>2, <1>3, <1>4, <1>5

\* The instructions that go on in their routine.
MoveStep(t) == Plain(t) \/ Alloc(t) \/ Release(t) \/ Resize(t) \/ Keep(t) \/ Pick(t)

\* Such an instruction leaves the frames alone and stays in its routine.
LEMMA MoveIs ==
    ASSUME TypeOK, NEW t \in Thread, MoveStep(t)
    PROVE  /\ frames' = frames /\ pc'[t] \in Address
           /\ Code[pc'[t]].rtn = Code[pc[t]].rtn /\ Code[pc'[t]].gives = Code[pc[t]].gives
           /\ \A u \in Thread : u # t => pc'[u] = pc[u]
<1>1. pc[t] \in Address /\ HeapFlow(pc[t])
  BY HeapAssumption DEF TypeOK
<1>2. PICK op \in {"plain", "alloc", "release", "resize", "keep", "pick"} : Done(t, op)
  BY DEF MoveStep, Plain, Alloc, Release, Resize, Keep, Pick
<1>3. Code[pc[t]].op = op
  BY <1>2, DoneIs
<1>4. /\ pc[t] + 1 \in Address /\ Code[pc[t] + 1].rtn = Code[pc[t]].rtn
      /\ Code[pc[t] + 1].gives = Code[pc[t]].gives
  BY <1>1, <1>3, CodeIs DEF HeapFlow
<1>5. op = "pick" => \A b \in Code[pc[t]].to : /\ b \in Address /\ Code[b].rtn = Code[pc[t]].rtn
                                               /\ Code[b].gives = Code[pc[t]].gives
  BY <1>1, <1>3, CodeIs, FlowAssumption DEF HeapFlow
<1>6. Goto(t, pc[t] + 1) \/ (op = "pick" /\ \E b \in Code[pc[t]].to : Goto(t, b))
  BY <1>3, DoneIs DEF MoveStep, Plain, Alloc, Release, Resize, Keep, Pick
<1>7. frames' = frames
  BY DEF MoveStep, Plain, Alloc, Release, Resize, Keep, Pick
<1>8. QED
  BY <1>4, <1>5, <1>6, <1>7, GotoIs

LEMMA FramesInit == Init => FramesInv
<1> SUFFICES ASSUME Init, NEW t \in Thread PROVE FramesOK(t)
  BY DEF FramesInv
<1>1. PICK e : e = [rtn |-> Code[Entry[t]].rtn, back |-> Entry[t]]
  OBVIOUS
<1>2. frames[t] = <<e>> /\ pc[t] = Entry[t]
  BY <1>1 DEF Init
<1>3. Len(frames[t]) = 1 /\ frames[t][1] = e
  BY <1>2
<1>4. QED
  BY <1>1, <1>2, <1>3 DEF FramesOK, Pos

\* The frames stay in order, for each kind of instruction.
LEMMA FramesMoveStep ==
    ASSUME TypeOK, FramesInv, NEW t \in Thread, MoveStep(t)
    PROVE  FramesOK(t)'
<1>1. PICK n \in Nat \ {0} : n = Len(frames[t])
  BY FramesAre
<1>2. /\ frames' = frames /\ Code[pc'[t]].rtn = Code[pc[t]].rtn /\ Code[pc'[t]].gives = Code[pc[t]].gives
  BY MoveIs
<1>3. ASSUME NEW i \in 1 .. n PROVE /\ Code[Pos(t, i)'].rtn = Code[Pos(t, i)].rtn
                                    /\ Code[Pos(t, i)'].gives = Code[Pos(t, i)].gives
  BY <1>1, <1>2 DEF Pos
<1>4. QED
  BY <1>1, <1>2, <1>3 DEF FramesInv, FramesOK

LEMMA FramesJumpStep ==
    ASSUME TypeOK, FramesInv, NEW t \in Thread, Jump(t)
    PROVE  FramesOK(t)'
<1>1. PICK n \in Nat \ {0} : n = Len(frames[t])
  BY FramesAre
<1>2. PICK b \in Code[pc[t]].to :
         /\ b \in Address /\ pc'[t] = b /\ Len(frames'[t]) = n
         /\ \A i \in 1 .. n - 1 : frames'[t][i] = frames[t][i]
         /\ frames'[t][n] = [rtn |-> Code[b].rtn, back |-> frames[t][n].back]
  BY <1>1, JumpIs
<1>3. /\ pc[t] \in Address /\ Code[pc[t]].op = "jump" /\ Code[b].gives = Code[pc[t]].gives
  <2>1. pc[t] \in Address /\ Code[pc[t]].op = "jump"
    BY DoneIs DEF Jump
  <2>2. HeapFlow(pc[t])
    BY <2>1, HeapAssumption
  <2>3. QED
    BY <1>2, <2>1, <2>2 DEF HeapFlow
<1>4. frames[t][n].rtn = Code[pc[t]].rtn
  BY <1>1 DEF FramesInv, FramesOK, Pos
<1>5. Code[b].rtn \in Startup \cup {"main"} => Code[pc[t]].rtn \in Startup \cup {"main"}
  <2>1. CASE Code[b].rtn = Code[pc[t]].rtn
    BY <2>1
  <2>2. CASE Code[b].rtn # Code[pc[t]].rtn
    BY <1>2, <1>3, <2>2, StartupIs DEF IsStartup, Enters
  <2>3. QED
    BY <2>1, <2>2
<1>6. \A i \in 1 .. n : frames'[t][i].back = frames[t][i].back
  BY <1>2
<1>7. /\ Pos(t, n)' = b /\ Pos(t, n) = pc[t]
      /\ \A i \in 1 .. n - 1 : Pos(t, i)' = Pos(t, i)
  BY <1>1, <1>2, <1>6 DEF Pos
<1>8. \A i \in 1 .. n : frames'[t][i].rtn = Code[Pos(t, i)'].rtn
  <2> TAKE i \in 1 .. n
  <2>1. CASE i = n
    BY <1>2, <1>7, <2>1
  <2>2. CASE i \in 1 .. n - 1
    BY <1>1, <1>2, <1>7, <2>2 DEF FramesInv, FramesOK
  <2>3. QED
    BY <2>1, <2>2
<1>9. \A i \in 2 .. n : /\ IsReturn(frames'[t][i].back)
                        /\ Passes(Code[Pos(t, i)'].gives, Code[frames'[t][i].back].holds)
  <2> TAKE i \in 2 .. n
  <2>1. Code[Pos(t, i)'].gives = Code[Pos(t, i)].gives
    BY <1>3, <1>7
  <2>2. QED
    BY <1>1, <1>6, <2>1 DEF FramesInv, FramesOK
<1>10. ASSUME NEW i \in 1 .. n, frames'[t][i].rtn \in Startup \cup {"main"}, NEW j \in 1 .. i - 1
       PROVE  frames'[t][j].rtn \in Startup
  <2>1. frames[t][i].rtn \in Startup \cup {"main"}
    <3>1. CASE i = n
      BY <1>2, <1>4, <1>5, <1>10, <3>1
    <3>2. CASE i \in 1 .. n - 1
      BY <1>2, <1>10, <3>2
    <3>3. QED
      BY <3>1, <3>2
  <2>2. j \in 1 .. n - 1
    OBVIOUS
  <2>3. QED
    BY <1>1, <1>2, <2>1, <2>2 DEF FramesInv, FramesOK
<1>11. QED
  BY <1>2, <1>8, <1>9, <1>10 DEF FramesOK

LEMMA FramesCallStep ==
    ASSUME TypeOK, FramesInv, NEW t \in Thread, Call(t)
    PROVE  FramesOK(t)'
<1>1. PICK n \in Nat \ {0} : n = Len(frames[t])
  BY FramesAre
<1>2. PICK b \in Code[pc[t]].to :
         /\ b \in Address /\ pc'[t] = b /\ Len(frames'[t]) = n + 1
         /\ \A i \in 1 .. n : frames'[t][i] = frames[t][i]
         /\ frames'[t][n + 1] = [rtn |-> Code[b].rtn, back |-> pc[t] + 1]
  BY <1>1, CallIs
<1>3. /\ pc[t] \in Address /\ Code[pc[t]].op = "call" /\ Enters(pc[t], b)
      /\ Code[pc[t] + 1].rtn = Code[pc[t]].rtn /\ Code[pc[t] + 1].gives = Code[pc[t]].gives
      /\ Passes(Code[b].gives, Code[pc[t] + 1].holds) /\ pc[t] + 1 \in Address
  <2>1. pc[t] \in Address /\ Code[pc[t]].op = "call"
    BY DoneIs DEF Call
  <2>2. HeapFlow(pc[t])
    BY <2>1, HeapAssumption
  <2>3. Code[pc[t] + 1].gives = Code[pc[t]].gives /\ Passes(Code[b].gives, Code[pc[t] + 1].holds)
    BY <2>1, <2>2 DEF HeapFlow
  <2>4. QED
    BY <2>1, <2>3, CodeIs DEF Enters
<1>4. frames[t][n].rtn = Code[pc[t]].rtn
  BY <1>1 DEF FramesInv, FramesOK, Pos
<1>5. /\ Pos(t, n + 1)' = b /\ Pos(t, n)' = pc[t] + 1 /\ Pos(t, n) = pc[t]
      /\ \A i \in 1 .. n - 1 : Pos(t, i)' = Pos(t, i)
  <2>1. n + 1 # n /\ \A i \in 1 .. n - 1 : i # n + 1 /\ i # n /\ i + 1 \in 1 .. n
    OBVIOUS
  <2>2. QED
    BY <1>1, <1>2, <2>1 DEF Pos
<1>6. \A i \in 1 .. n : /\ Code[Pos(t, i)'].rtn = Code[Pos(t, i)].rtn
                        /\ Code[Pos(t, i)'].gives = Code[Pos(t, i)].gives
  BY <1>3, <1>5
<1>7. \A i \in 1 .. n + 1 : frames'[t][i].rtn = Code[Pos(t, i)'].rtn
  <2> TAKE i \in 1 .. n + 1
  <2>1. CASE i = n + 1
    BY <1>2, <1>5, <2>1
  <2>2. CASE i \in 1 .. n
    BY <1>1, <1>2, <1>6, <2>2 DEF FramesInv, FramesOK
  <2>3. QED
    BY <2>1, <2>2
<1>8. \A i \in 2 .. n + 1 : /\ IsReturn(frames'[t][i].back)
                            /\ Passes(Code[Pos(t, i)'].gives, Code[frames'[t][i].back].holds)
  <2> TAKE i \in 2 .. n + 1
  <2>1. CASE i = n + 1
    <3>1. (pc[t] + 1) - 1 = pc[t]
      <4>1. PICK a \in Nat : a = pc[t]
        BY <1>3, CodeAssumption
      <4>2. QED
        BY <4>1
    <3>2. QED
      BY <1>2, <1>3, <1>5, <2>1, <3>1 DEF IsReturn
  <2>2. CASE i \in 1 .. n
    BY <1>1, <1>2, <1>6, <2>2 DEF FramesInv, FramesOK
  <2>3. QED
    BY <2>1, <2>2
<1>9. ASSUME NEW i \in 1 .. n + 1, frames'[t][i].rtn \in Startup \cup {"main"}, NEW j \in 1 .. i - 1
      PROVE  frames'[t][j].rtn \in Startup
  <2>1. j \in 1 .. n /\ frames'[t][j] = frames[t][j]
    BY <1>2
  <2>2. CASE i \in 1 .. n
    BY <1>1, <1>2, <1>9, <2>1, <2>2 DEF FramesInv, FramesOK
  <2>3. CASE i = n + 1
    <3>1. frames[t][n].rtn \in Startup
      BY <1>2, <1>3, <1>4, <1>9, <2>3, StartupIs DEF IsStartup
    <3>2. QED
      BY <1>1, <2>1, <3>1 DEF FramesInv, FramesOK
  <2>4. QED
    BY <2>2, <2>3
<1>10. QED
  BY <1>2, <1>7, <1>8, <1>9 DEF FramesOK

LEMMA FramesRetStep ==
    ASSUME TypeOK, FramesInv, NEW t \in Thread, Ret(t)
    PROVE  FramesOK(t)'
<1>1. PICK n \in Nat \ {0} : n + 1 = Len(frames[t])
  <2>1. PICK m \in Nat \ {0} : m = Len(frames[t])
    BY FramesAre
  <2>2. m > 1
    BY <2>1, RetIs
  <2>3. m - 1 \in Nat \ {0} /\ (m - 1) + 1 = m
    BY <2>2
  <2>4. QED
    BY <2>1, <2>3
<1>2. /\ pc'[t] = frames[t][n + 1].back /\ Len(frames'[t]) = n
      /\ \A i \in 1 .. n : frames'[t][i] = frames[t][i]
  <2>1. Len(frames[t]) - 1 = n
    BY <1>1
  <2>2. QED
    BY <1>1, <2>1, RetIs
<1>3. \A i \in 1 .. n : Pos(t, i)' = Pos(t, i)
  <2> TAKE i \in 1 .. n
  <2>1. CASE i = n
    BY <1>1, <1>2, <2>1 DEF Pos
  <2>2. CASE i \in 1 .. n - 1
    <3>1. i # n /\ i # n + 1 /\ i + 1 \in 1 .. n
      BY <2>2
    <3>2. QED
      BY <1>1, <1>2, <3>1 DEF Pos
  <2>3. QED
    BY <2>1, <2>2
<1>4. \A i \in 1 .. n : i \in 1 .. n + 1 /\ \A j \in 1 .. i - 1 : j \in 1 .. n
  OBVIOUS
<1>5. \A i \in 1 .. n : frames'[t][i].rtn = Code[Pos(t, i)'].rtn
  <2> TAKE i \in 1 .. n
  <2>1. i \in 1 .. n + 1 /\ i \in 1 .. Len(frames[t])
    BY <1>1
  <2>2. frames[t][i].rtn = Code[Pos(t, i)].rtn
    BY <2>1 DEF FramesInv, FramesOK
  <2>3. QED
    BY <1>2, <1>3, <2>2
<1>6. \A i \in 2 .. n : /\ IsReturn(frames'[t][i].back)
                        /\ Passes(Code[Pos(t, i)'].gives, Code[frames'[t][i].back].holds)
  <2> TAKE i \in 2 .. n
  <2>1. i \in 1 .. n /\ i \in 2 .. n + 1
    OBVIOUS
  <2>2. QED
    BY <1>1, <1>2, <1>3, <2>1 DEF FramesInv, FramesOK
<1>7. \A i \in 1 .. n : frames'[t][i].rtn \in Startup \cup {"main"} =>
                          \A j \in 1 .. i - 1 : frames'[t][j].rtn \in Startup
  <2> TAKE i \in 1 .. n
  <2>1. i \in 1 .. Len(frames[t])
    BY <1>1
  <2>2. frames[t][i].rtn \in Startup \cup {"main"} => \A j \in 1 .. i - 1 : frames[t][j].rtn \in Startup
    BY <2>1 DEF FramesInv, FramesOK
  <2>3. QED
    BY <1>2, <1>4, <2>2
<1>8. QED
  BY <1>2, <1>5, <1>6, <1>7 DEF FramesOK

\* The invariant is inductive, with TypeOK.
LEMMA FramesStep == TypeOK /\ FramesInv /\ [Next]_vars => FramesInv'
<1> SUFFICES ASSUME TypeOK, FramesInv, [Next]_vars PROVE FramesInv'
  OBVIOUS
<1>1. ASSUME UNCHANGED <<pc, frames>> PROVE FramesInv'
  BY <1>1 DEF FramesInv, FramesOK, Pos
<1>2. ASSUME NEW t \in Thread, FramesOK(t)', \A u \in Thread : u # t => frames'[u] = frames[u] /\ pc'[u] = pc[u]
      PROVE  FramesInv'
  <2>1. ASSUME NEW u \in Thread, u # t PROVE FramesOK(u)'
    <3>1. frames'[u] = frames[u] /\ \A i : Pos(u, i)' = Pos(u, i)
      BY <1>2, <2>1 DEF Pos
    <3>2. QED
      BY <3>1 DEF FramesInv, FramesOK
  <2>2. QED
    BY <1>2, <2>1 DEF FramesInv
<1>3. ASSUME NEW t \in Thread, ProgramStep(t) PROVE FramesInv'
  <2>1. CASE MoveStep(t)
    BY <1>2, <2>1, MoveIs, FramesMoveStep
  <2>2. CASE Jump(t)
    BY <1>2, <2>2, JumpIs, FramesJumpStep
  <2>3. CASE Call(t)
    BY <1>2, <2>3, CallIs, FramesCallStep
  <2>4. CASE Ret(t)
    BY <1>2, <2>4, RetIs, FramesRetStep
  <2>5. CASE End(t)
    BY <1>1, <2>5 DEF End, programVars
  <2>6. QED
    BY <1>3, <2>1, <2>2, <2>3, <2>4, <2>5 DEF ProgramStep, MoveStep
<1>4. ASSUME NEW img, InstrumentImageLoad(img) PROVE FramesInv'
  BY <1>1, <1>4, LoadIs
<1>5. ASSUME NEW t \in Thread, Fetch(t) \/ HookStep(t) PROVE FramesInv'
  BY <1>1, <1>5, FetchIs, HookIs
<1>6. ASSUME UNCHANGED vars PROVE FramesInv'
  BY <1>1, <1>6 DEF vars, programVars
<1>7. QED
  BY <1>3, <1>4, <1>5, <1>6, NextIs

-----------------------------------------------------------------------------
(* The stacks rebuilt from the log *)

\* Stack s has the calls of those of the lowest n of frames fs that are known, those
\* of S, which tail calls left behind, and no others.
Shows(s, fs, S, n) ==
    /\ Decreasing(s)
    /\ \A i \in 1 .. n : fs[i].rtn \in KnownFuncs =>
          /\ \E j \in 1 .. Len(s) : s[j] = [func |-> fs[i].rtn, frameBase |-> -i]
          /\ \A c \in S : c.frameBase # -i
    /\ \A c \in S : \E j \in 1 .. Len(s) : s[j] = c
    /\ \A j \in 1 .. Len(s) :
          \/ s[j] \in S
          \/ \E i \in 1 .. n : fs[i].rtn \in KnownFuncs /\ s[j] = [func |-> fs[i].rtn, frameBase |-> -i]

\* The type of the calls on a stack.
LEMMA CallsOf ==
    ASSUME NEW s \in Seq(KnownCall)
    PROVE  Len(s) \in Nat /\ \A j \in 1 .. Len(s) : s[j] \in KnownCall /\ s[j].frameBase \in Int
<1>1. Len(s) \in Nat /\ \A j \in 1 .. Len(s) : s[j] \in KnownCall
  BY ElementOfSeq
<1>2. QED
  BY <1>1 DEF KnownCall

\* Only the frames that are shown matter.
LEMMA ShowsSame ==
    ASSUME NEW s, NEW fs, NEW gs, NEW S, NEW n \in Nat,
           \A i \in 1 .. n : gs[i].rtn = fs[i].rtn, Shows(s, fs, S, n)
    PROVE  Shows(s, gs, S, n)
<1>1. \A i \in 1 .. n : gs[i].rtn \in KnownFuncs =>
        /\ \E j \in 1 .. Len(s) : s[j] = [func |-> gs[i].rtn, frameBase |-> -i]
        /\ \A c \in S : c.frameBase # -i
  BY DEF Shows
<1>2. ASSUME NEW j \in 1 .. Len(s), s[j] \notin S
      PROVE  \E i \in 1 .. n : gs[i].rtn \in KnownFuncs /\ s[j] = [func |-> gs[i].rtn, frameBase |-> -i]
  <2>1. PICK i \in 1 .. n : fs[i].rtn \in KnownFuncs /\ s[j] = [func |-> fs[i].rtn, frameBase |-> -i]
    BY <1>2 DEF Shows
  <2>2. QED
    BY <2>1
<1>3. QED
  BY <1>1, <1>2 DEF Shows

\* A frame without debug information makes no difference.
LEMMA ShowsUnknown ==
    ASSUME NEW s, NEW fs, NEW S, NEW n \in Nat, fs[n + 1].rtn \notin KnownFuncs
    PROVE  Shows(s, fs, S, n) <=> Shows(s, fs, S, n + 1)
<1>1. /\ \A i \in 1 .. n + 1 : fs[i].rtn \in KnownFuncs => i \in 1 .. n
      /\ \A i \in 1 .. n : i \in 1 .. n + 1
  OBVIOUS
<1>2. ASSUME NEW j
      PROVE  (\E i \in 1 .. n : fs[i].rtn \in KnownFuncs /\ s[j] = [func |-> fs[i].rtn, frameBase |-> -i])
        <=> (\E i \in 1 .. n + 1 : fs[i].rtn \in KnownFuncs /\ s[j] = [func |-> fs[i].rtn, frameBase |-> -i])
  BY <1>1
<1>3. ASSUME Shows(s, fs, S, n) PROVE Shows(s, fs, S, n + 1)
  BY <1>1, <1>2, <1>3 DEF Shows
<1>4. ASSUME Shows(s, fs, S, n + 1) PROVE Shows(s, fs, S, n)
  BY <1>1, <1>2, <1>4 DEF Shows
<1>5. QED
  BY <1>3, <1>4

\* The call of the top frame is left behind.
LEMMA ShowsLeft ==
    ASSUME NEW s, NEW fs, NEW S, NEW n \in Nat, Shows(s, fs, S, n + 1),
           fs[n + 1].rtn \in KnownFuncs
    PROVE  Shows(s, fs, S \cup {[func |-> fs[n + 1].rtn, frameBase |-> -(n + 1)]}, n)
<1>1. PICK d : d = [func |-> fs[n + 1].rtn, frameBase |-> -(n + 1)]
  OBVIOUS
<1>2. n + 1 \in 1 .. n + 1 /\ \A i \in 1 .. n : i \in 1 .. n + 1 /\ d.frameBase # -i
  BY <1>1
<1>3. \E j \in 1 .. Len(s) : s[j] = d
  BY <1>1, <1>2 DEF Shows
<1>4. ASSUME NEW j \in 1 .. Len(s), s[j] \notin S \cup {d}
      PROVE  \E i \in 1 .. n : fs[i].rtn \in KnownFuncs /\ s[j] = [func |-> fs[i].rtn, frameBase |-> -i]
  <2>1. PICK i \in 1 .. n + 1 : fs[i].rtn \in KnownFuncs /\ s[j] = [func |-> fs[i].rtn, frameBase |-> -i]
    BY <1>4 DEF Shows
  <2>2. i # n + 1
    BY <1>1, <1>4, <2>1
  <2>3. i \in 1 .. n
    BY <2>2
  <2>4. QED
    BY <2>1, <2>3
<1>5. \A i \in 1 .. n : fs[i].rtn \in KnownFuncs =>
        /\ \E j \in 1 .. Len(s) : s[j] = [func |-> fs[i].rtn, frameBase |-> -i]
        /\ \A c \in S \cup {d} : c.frameBase # -i
  BY <1>2 DEF Shows
<1>6. Shows(s, fs, S \cup {d}, n)
  BY <1>3, <1>4, <1>5 DEF Shows
<1>7. QED
  BY <1>1, <1>6

\* The calls that are left when one is pushed are those above it.
Above(S, base) == {c \in S : c.frameBase > base}

\* The Call of the top frame removes what was left behind at its place or deeper.
LEMMA ShowsPush ==
    ASSUME NEW s \in Seq(KnownCall), NEW fs, NEW S \in SUBSET KnownCall, NEW n \in Nat,
           Shows(s, fs, S, n) \/ Shows(s, fs, S, n + 1), fs[n + 1].rtn \in KnownFuncs,
           NEW c \in KnownCall, c = [func |-> fs[n + 1].rtn, frameBase |-> -(n + 1)]
    PROVE  Shows(Push(s, c), fs, Above(S, c.frameBase), n + 1)
<1> DEFINE p == Push(s, c)
           L == Len(p)
           T == Above(S, c.frameBase)
<1>1. AreFrames(KnownCall) /\ Decreasing(s) /\ c.frameBase = -(n + 1)
  BY DEF AreFrames, KnownCall, Shows
<1>2. /\ Decreasing(p) /\ L \in 1 .. Len(s) + 1 /\ p[L] = c
      /\ \A j \in 1 .. L - 1 : p[j] = s[j] /\ s[j].frameBase > c.frameBase
      /\ \A j \in L .. Len(s) : s[j].frameBase <= c.frameBase
  <2>1. AreFrames(KnownCall) /\ Decreasing(s) /\ c \in KnownCall
    BY <1>1
  <2> QED
    BY ONLY s \in Seq(KnownCall), <2>1, PushIs DEF p, L
<1> HIDE DEF p, L
<1>3. Len(s) \in Nat /\ \A j \in 1 .. Len(s) : s[j].frameBase \in Int
  BY CallsOf
<1>4. ASSUME NEW j \in 1 .. Len(s), s[j].frameBase > -(n + 1)
      PROVE  \E k \in 1 .. L : p[k] = s[j]
  <2>1. ~(s[j].frameBase <= c.frameBase)
    BY <1>1, <1>3, <1>4
  <2>2. j \in 1 .. L - 1
    BY <1>2, <1>3, <2>1
  <2>3. j \in 1 .. L /\ p[j] = s[j]
    BY <1>2, <2>2
  <2>4. QED
    BY <2>3
<1>5. \A d \in T : d \in S /\ d.frameBase > -(n + 1) /\ d.frameBase \in Int
  BY <1>1 DEF Above, KnownCall
<1> HIDE DEF T
<1>6. ASSUME NEW i \in 1 .. n + 1, fs[i].rtn \in KnownFuncs
      PROVE  /\ \E j \in 1 .. L : p[j] = [func |-> fs[i].rtn, frameBase |-> -i]
             /\ \A d \in T : d.frameBase # -i
  <2>1. CASE i = n + 1
    BY <1>2, <1>3, <1>5, <2>1
  <2>2. CASE i \in 1 .. n
    <3>1. i \in 1 .. n + 1
      OBVIOUS
    <3>2. /\ \E j \in 1 .. Len(s) : s[j] = [func |-> fs[i].rtn, frameBase |-> -i]
          /\ \A d \in S : d.frameBase # -i
      BY <1>6, <2>2, <3>1 DEF Shows
    <3>3. PICK j \in 1 .. Len(s) : s[j] = [func |-> fs[i].rtn, frameBase |-> -i]
      BY <3>2
    <3>4. s[j].frameBase = -i /\ s[j].frameBase > -(n + 1)
      BY <2>2, <3>3
    <3>5. QED
      BY <1>4, <1>5, <3>2, <3>3, <3>4
  <2>3. QED
    BY <2>1, <2>2
<1>7. ASSUME NEW d \in T PROVE \E j \in 1 .. L : p[j] = d
  <2>1. PICK j \in 1 .. Len(s) : s[j] = d
    BY <1>5 DEF Shows
  <2>2. QED
    BY <1>4, <1>5, <2>1
<1>8. ASSUME NEW j \in 1 .. L
      PROVE  \/ p[j] \in T
             \/ \E i \in 1 .. n + 1 : /\ fs[i].rtn \in KnownFuncs
                                      /\ p[j] = [func |-> fs[i].rtn, frameBase |-> -i]
  <2>1. CASE j = L
    BY <1>1, <1>2, <2>1
  <2>2. CASE j # L
    <3>1. j \in 1 .. L - 1 /\ j \in 1 .. Len(s)
      BY <1>2, <1>3, <2>2
    <3>2. p[j] = s[j] /\ s[j].frameBase > c.frameBase
      BY <1>2, <3>1
    <3>3. CASE s[j] \in S
      BY <3>2, <3>3 DEF T, Above
    <3>4. CASE s[j] \notin S
      <4>1. CASE Shows(s, fs, S, n + 1)
        BY <3>1, <3>2, <3>4, <4>1 DEF Shows
      <4>2. CASE Shows(s, fs, S, n)
        <5>1. PICK i \in 1 .. n : /\ fs[i].rtn \in KnownFuncs
                                  /\ s[j] = [func |-> fs[i].rtn, frameBase |-> -i]
          BY <3>1, <3>4, <4>2 DEF Shows
        <5>2. i \in 1 .. n + 1
          OBVIOUS
        <5>3. QED
          BY <3>2, <5>1, <5>2
      <4>3. QED
        BY <4>1, <4>2
    <3>5. QED
      BY <3>3, <3>4
  <2>3. QED
    BY <2>1, <2>2
<1>9. Shows(p, fs, T, n + 1)
  BY <1>2, <1>6, <1>7, <1>8 DEF Shows, L
<1>10. QED
  BY <1>9 DEF p, T

\* The Ret of the top frame finds its Call, unless one was left behind under it.
LEMMA ShowsPop ==
    ASSUME NEW s \in Seq(KnownCall), NEW fs, NEW S \in SUBSET KnownCall, NEW n \in Nat,
           Shows(s, fs, S, n + 1), fs[n + 1].rtn \in KnownFuncs,
           NEW c, c = [func |-> fs[n + 1].rtn, frameBase |-> -(n + 1)]
    PROVE  /\ PopMatches(s, c) <=> ~\E d \in S : d.frameBase < -(n + 1)
           /\ PopMatches(s, c) => Shows(Pop(s), fs, S, n)
<1>1. Len(s) \in Nat /\ \A j \in 1 .. Len(s) : s[j].frameBase \in Int
  BY CallsOf
<1>2. c.frameBase = -(n + 1) /\ n + 1 \in 1 .. n + 1
  OBVIOUS
<1>3. PICK j \in 1 .. Len(s) : s[j] = c
  BY <1>2 DEF Shows
<1>4. s # <<>> /\ Len(s) \in 1 .. Len(s)
  BY <1>1, <1>3
<1>5. PopMatches(s, c) <=> s[Len(s)] = c
  BY <1>4 DEF PopMatches
<1>6. ASSUME s[Len(s)] = c, NEW d \in S PROVE ~(d.frameBase < -(n + 1))
  <2>1. PICK k \in 1 .. Len(s) : s[k] = d
    BY DEF Shows
  <2>2. k = Len(s) \/ s[k].frameBase > s[Len(s)].frameBase
    BY <1>1, <1>4 DEF Shows, Decreasing
  <2>3. QED
    BY <1>1, <1>2, <1>6, <2>1, <2>2
<1>7. ASSUME s[Len(s)] # c PROVE \E d \in S : d.frameBase < -(n + 1)
  <2>1. j < Len(s)
    BY <1>1, <1>3, <1>7
  <2>2. s[Len(s)].frameBase < -(n + 1)
    <3>1. s[j].frameBase > s[Len(s)].frameBase
      BY <1>4, <2>1 DEF Shows, Decreasing
    <3>2. QED
      BY <1>1, <1>2, <1>3, <1>4, <3>1
  <2>3. s[Len(s)] \in S
    <3> SUFFICES ASSUME s[Len(s)] \notin S PROVE FALSE
      OBVIOUS
    <3>1. PICK i \in 1 .. n + 1 : s[Len(s)] = [func |-> fs[i].rtn, frameBase |-> -i]
      BY <1>4 DEF Shows
    <3>2. s[Len(s)].frameBase = -i
      BY <3>1
    <3>3. QED
      BY <2>2, <3>2
  <2>4. QED
    BY <2>2, <2>3
<1>8. ASSUME s[Len(s)] = c PROVE Shows(Pop(s), fs, S, n)
  <2>1. /\ Len(Pop(s)) = Len(s) - 1
        /\ \A k \in 1 .. Len(s) - 1 : Pop(s)[k] = s[k]
    BY <1>4, PopIs
  <2>2. PICK L \in Nat : L = Len(s) - 1
    <3>1. PICK m \in Nat : m = Len(s)
      BY <1>1
    <3>2. m - 1 \in Nat
      BY <1>3, <3>1
    <3>3. QED
      BY <3>1, <3>2
  <2>3. PICK p : p = Pop(s)
    OBVIOUS
  <2>4. Len(p) = L /\ \A k \in 1 .. L : k \in 1 .. Len(s) /\ k < Len(s) /\ p[k] = s[k]
    BY <1>1, <2>1, <2>2, <2>3
  <2>5. Decreasing(p)
    BY <2>4 DEF Decreasing, Shows
  <2>6. ASSUME NEW k \in 1 .. Len(s), s[k].frameBase # -(n + 1)
        PROVE  \E l \in 1 .. L : p[l] = s[k]
    <3>1. k # Len(s)
      BY <1>2, <1>8, <2>6
    <3>2. k \in 1 .. L
      BY <1>1, <2>2, <3>1
    <3>3. QED
      BY <2>4, <3>2
  <2>7. ASSUME NEW i \in 1 .. n, fs[i].rtn \in KnownFuncs
        PROVE  /\ \E l \in 1 .. L : p[l] = [func |-> fs[i].rtn, frameBase |-> -i]
               /\ \A d \in S : d.frameBase # -i
    <3>1. i \in 1 .. n + 1 /\ -i # -(n + 1)
      OBVIOUS
    <3>2. PICK k \in 1 .. Len(s) : s[k] = [func |-> fs[i].rtn, frameBase |-> -i]
      BY <2>7, <3>1 DEF Shows
    <3>3. s[k].frameBase # -(n + 1)
      BY <3>1, <3>2
    <3>4. \E l \in 1 .. L : p[l] = [func |-> fs[i].rtn, frameBase |-> -i]
      BY <2>6, <3>2, <3>3
    <3>5. \A d \in S : d.frameBase # -i
      BY <2>7, <3>1 DEF Shows
    <3>6. QED
      BY <3>4, <3>5
  <2>8. ASSUME NEW d \in S PROVE \E l \in 1 .. L : p[l] = d
    <3>1. PICK k \in 1 .. Len(s) : s[k] = d
      BY DEF Shows
    <3>2. d.frameBase # -(n + 1)
      BY <1>2 DEF Shows
    <3>3. QED
      BY <2>6, <3>1, <3>2
  <2>9. ASSUME NEW k \in 1 .. L, p[k] \notin S
        PROVE  \E i \in 1 .. n : /\ fs[i].rtn \in KnownFuncs
                                 /\ p[k] = [func |-> fs[i].rtn, frameBase |-> -i]
    <3>1. k \in 1 .. Len(s) /\ k < Len(s) /\ p[k] = s[k]
      BY <2>4
    <3>2. s[k].frameBase > -(n + 1)
      BY <1>2, <1>4, <1>8, <3>1 DEF Shows, Decreasing
    <3>3. PICK i \in 1 .. n + 1 : /\ fs[i].rtn \in KnownFuncs
                                  /\ s[k] = [func |-> fs[i].rtn, frameBase |-> -i]
      BY <2>9, <3>1 DEF Shows
    <3>4. s[k].frameBase = -i
      BY <3>3
    <3>5. i \in 1 .. n
      BY <3>2, <3>4
    <3>6. QED
      BY <3>1, <3>3, <3>5
  <2>10. Shows(p, fs, S, n)
    BY <2>4, <2>5, <2>7, <2>8, <2>9 DEF Shows
  <2>11. QED
    BY <2>3, <2>10
<1>9. QED
  BY <1>5, <1>6, <1>7, <1>8

\* Shows says all that StackAtAccess asks for.
LEMMA ShowsRebuilt ==
    ASSUME TypeOK, NEW t \in Thread, NEW n \in Nat, Shows(calls[t], frames[t], slipped[t], n)
    PROVE  Rebuilt(t, n)
<1>1. PICK s \in Seq(KnownCall) : s = calls[t]
  BY DEF TypeOK
<1>2. PICK S : S = slipped[t]
  OBVIOUS
<1>3. DOMAIN s = 1 .. Len(s)
  OBVIOUS
<1>4. ASSUME NEW c PROVE c \in {s[i] : i \in DOMAIN s} <=> c \in KnownFrames(t, n) \cup S
  <2>1. ASSUME NEW j \in 1 .. Len(s) PROVE s[j] \in KnownFrames(t, n) \cup S
    <3>1. CASE s[j] \in S
      BY <3>1
    <3>2. CASE s[j] \notin S
      <4>1. PICK i \in 1 .. n : /\ frames[t][i].rtn \in KnownFuncs
                                /\ s[j] = [func |-> frames[t][i].rtn, frameBase |-> -i]
        BY <1>1, <1>2, <3>2 DEF Shows
      <4>2. QED
        BY <4>1 DEF KnownFrames
    <3>3. QED
      BY <3>1, <3>2
  <2>2. ASSUME NEW i \in 1 .. n, frames[t][i].rtn \in KnownFuncs
        PROVE  [func |-> frames[t][i].rtn, frameBase |-> -i] \in {s[j] : j \in 1 .. Len(s)}
    BY <1>1, <2>2 DEF Shows
  <2>3. ASSUME c \in S PROVE c \in {s[j] : j \in 1 .. Len(s)}
    BY <1>1, <1>2, <2>3 DEF Shows
  <2>4. QED
    BY <1>3, <2>1, <2>2, <2>3 DEF KnownFrames
<1>5. \A i, j \in DOMAIN s : i < j => s[i].frameBase > s[j].frameBase
  BY <1>1, <1>3 DEF Shows, Decreasing
<1>6. {s[i] : i \in DOMAIN s} = KnownFrames(t, n) \cup S
  <2> DEFINE A == {s[i] : i \in DOMAIN s}
             B == KnownFrames(t, n) \cup S
  <2>1. \A c : c \in A <=> c \in B
    BY <1>4
  <2> HIDE DEF A, B
  <2>2. A = B
    BY <2>1
  <2>3. QED
    BY <2>2 DEF A, B
<1>7. QED
  BY <1>1, <1>2, <1>5, <1>6 DEF Rebuilt

\* The Call of the top frame is still to be recorded; its Ret has been.
Pending(t) == /\ Code[pc[t]].rtn \in KnownFuncs /\ pc[t] = First(Code[pc[t]].rtn)
              /\ at[t] = "fetch" \/ (at[t] = "hooks" /\ Has(todo[t], "routineEnter"))
Exited(t) == /\ Code[pc[t]].rtn \in KnownFuncs /\ Code[pc[t]].op = "ret"
             /\ at[t] = "hooks" /\ ~Has(todo[t], "routineExit")

StackOf(t, n) == Shows(calls[t], frames[t], slipped[t], n)

\* While main runs the log shows the frames of each thread, but for the top one when
\* its Call or Ret is due; and an access comes after the Call and the Ret.
StackOK(t) ==
    LET n == Len(frames[t])
    IN /\ Pending(t) => StackOf(t, n - 1) \/ StackOf(t, n)
       /\ ~Pending(t) /\ Exited(t) => StackOf(t, n - 1)
       /\ ~Pending(t) /\ ~Exited(t) => StackOf(t, n)

LastOK(t) == at[t] = "hooks" /\ emitted[t] # <<>> /\ Last(emitted[t]) \in {"Read", "Write"} =>
                ~Has(todo[t], "routineEnter") /\ ~Has(todo[t], "routineExit")

\* Before main is called nothing is recorded, and the other threads do not run.
QuietOK(t) == /\ calls[t] = <<>> /\ slipped[t] = {} /\ emitted[t] = <<>>
              /\ t # MainThread => /\ at[t] = "fetch" /\ Len(frames[t]) = 1
                                   /\ frames[t][1].rtn \notin KnownFuncs

StackInv == /\ recording = "off" => ~failed /\ \A t \in Thread : QuietOK(t)
            /\ recording = "on" => \A t \in Thread : (~failed => StackOK(t)) /\ LastOK(t)
            /\ recording = "over" => StackAtAccess

LEMMA StackInit == Init => StackInv
<1> SUFFICES ASSUME Init PROVE StackInv
  OBVIOUS
<1>1. ASSUME NEW t \in Thread PROVE QuietOK(t)
  <2>1. PICK e : e = [rtn |-> Code[Entry[t]].rtn, back |-> Entry[t]]
    OBVIOUS
  <2>2. frames[t] = <<e>> /\ e.rtn \notin KnownFuncs
    BY <2>1, StartAssumption DEF Init
  <2>3. Len(frames[t]) = 1 /\ frames[t][1] = e
    BY <2>2
  <2>4. QED
    BY <2>2, <2>3 DEF Init, QuietOK
<1>2. QED
  BY <1>1 DEF Init, StackInv

\* What the invariants say of one thread does not change with the steps of others.
LEMMA StackFrame ==
    ASSUME NEW u \in Thread, calls'[u] = calls[u], slipped'[u] = slipped[u],
           frames'[u] = frames[u], pc'[u] = pc[u], at'[u] = at[u], todo'[u] = todo[u], emitted'[u] = emitted[u]
    PROVE  /\ StackOK(u) => StackOK(u)'
           /\ LastOK(u) => LastOK(u)'
           /\ QuietOK(u) => QuietOK(u)'
<1>1. (Pending(u)' <=> Pending(u)) /\ (Exited(u)' <=> Exited(u))
  BY DEF Pending, Exited
<1>2. \A n : StackOf(u, n)' <=> StackOf(u, n)
  BY DEF StackOf
<1>3. StackOK(u) => StackOK(u)'
  BY <1>1, <1>2 DEF StackOK
<1>4. QED
  BY <1>3 DEF LastOK, QuietOK

\* While main runs, an access is recorded when the stack of its thread is shown.
LEMMA StackShown ==
    ASSUME TypeOK, NEW t \in Thread, StackOK(t), LastOK(t),
           emitted[t] # <<>>, Last(emitted[t]) \in {"Read", "Write"}, at[t] = "hooks"
    PROVE  Rebuilt(t, IF Code[pc[t]].op = "ret" /\ Code[pc[t]].rtn \in KnownFuncs
                      THEN Len(frames[t]) - 1 ELSE Len(frames[t]))
<1>1. PICK n \in Nat : n + 1 = Len(frames[t])
  <2>1. PICK m \in Nat \ {0} : m = Len(frames[t])
    BY FramesAre
  <2>2. m - 1 \in Nat /\ (m - 1) + 1 = m
    OBVIOUS
  <2>3. QED
    BY <2>1, <2>2
<1>2. ~Has(todo[t], "routineEnter") /\ ~Has(todo[t], "routineExit")
  BY DEF LastOK
<1>3. ~Pending(t) /\ (Exited(t) <=> Code[pc[t]].op = "ret" /\ Code[pc[t]].rtn \in KnownFuncs)
  BY <1>2 DEF Pending, Exited
<1>4. Len(frames[t]) - 1 = n
  BY <1>1
<1>5. CASE Exited(t)
  <2>1. Shows(calls[t], frames[t], slipped[t], n)
    BY <1>3, <1>4, <1>5 DEF StackOK, StackOf
  <2>2. QED
    BY <1>3, <1>4, <1>5, <2>1, ShowsRebuilt
<1>6. CASE ~Exited(t)
  <2>1. Shows(calls[t], frames[t], slipped[t], n + 1) /\ n + 1 \in Nat
    BY <1>1, <1>3, <1>6 DEF StackOK, StackOf
  <2>2. QED
    BY <1>1, <1>3, <1>6, <2>1, ShowsRebuilt
<1>7. QED
  BY <1>5, <1>6

\* So the stack is right at every access.
LEMMA StackSafe ==
    ASSUME TypeOK, StackInv
    PROVE  StackAtAccess
<1>1. recording \in {"off", "on", "over"}
  BY DEF TypeOK
<1>2. CASE recording = "off"
  BY <1>1, <1>2 DEF StackInv, QuietOK, StackAtAccess
<1>3. CASE recording = "on"
  BY <1>1, <1>3, StackShown DEF StackInv, StackAtAccess
<1>4. CASE recording = "over"
  BY <1>4 DEF StackInv
<1>5. QED
  BY <1>1, <1>2, <1>3, <1>4

\* At an instruction whose hooks have run.
LEMMA StackBefore ==
    ASSUME TypeOK, FramesInv, NEW t \in Thread, at[t] = "hooks", todo[t] = <<>>, StackOK(t),
           NEW n \in Nat, n + 1 = Len(frames[t])
    PROVE  /\ Code[pc[t]].op # "ret" => StackOf(t, n + 1)
           /\ Code[pc[t]].op = "ret" => StackOf(t, n)
           /\ frames[t][n + 1].rtn = Code[pc[t]].rtn
           /\ calls[t] \in Seq(KnownCall)
<1>1. Len(todo[t]) = 0
  OBVIOUS
<1>2. ~Has(todo[t], "routineEnter") /\ ~Has(todo[t], "routineExit")
  BY <1>1 DEF Has
<1>3. ~Pending(t) /\ (Exited(t) <=> Code[pc[t]].op = "ret" /\ Code[pc[t]].rtn \in KnownFuncs)
  BY <1>2 DEF Pending, Exited
<1>4. /\ Exited(t) => StackOf(t, n)
      /\ ~Exited(t) => StackOf(t, n + 1)
  <2>1. Len(frames[t]) - 1 = n
    OBVIOUS
  <2>2. QED
    BY <1>3, <2>1 DEF StackOK
<1>5. frames[t][n + 1].rtn = Code[pc[t]].rtn
  <2>1. n + 1 \in 1 .. Len(frames[t])
    OBVIOUS
  <2>2. QED
    BY <2>1 DEF FramesInv, FramesOK, Pos
<1>6. calls[t] \in Seq(KnownCall)
  BY DEF TypeOK
<1>7. Code[pc[t]].rtn \notin KnownFuncs => (StackOf(t, n) <=> StackOf(t, n + 1))
  BY <1>5, ShowsUnknown DEF StackOf
<1>8. QED
  BY <1>3, <1>4, <1>5, <1>6, <1>7

\* Behind it, when the frames below and the calls are the same.
LEMMA StackAfter ==
    ASSUME NEW t \in Thread, NEW n \in Nat, Len(frames'[t]) = n + 1, at'[t] # "hooks",
           Pending(t)' => \/ Shows(calls'[t], frames'[t], slipped'[t], n)
                          \/ Shows(calls'[t], frames'[t], slipped'[t], n + 1),
           ~Pending(t)' => Shows(calls'[t], frames'[t], slipped'[t], n + 1)
    PROVE  StackOK(t)' /\ LastOK(t)'
<1>1. (n + 1) - 1 = n
  OBVIOUS
<1>2. ~Exited(t)'
  BY DEF Exited
<1>3. QED
  BY <1>1, <1>2 DEF StackOK, StackOf, LastOK

\* An instruction of each kind, while main runs.
LEMMA StackMoveStep ==
    ASSUME TypeOK, FramesInv, NEW t \in Thread, MoveStep(t) \/ End(t), StackOK(t)
    PROVE  StackOK(t)' /\ LastOK(t)'
<1>1. PICK op \in {"plain", "alloc", "release", "resize", "keep", "pick", "end"} : Done(t, op)
  BY DEF MoveStep, Plain, Alloc, Release, Resize, Keep, Pick, End
<1>2. /\ at[t] = "hooks" /\ todo[t] = <<>> /\ Code[pc[t]].op # "ret" /\ at'[t] # "hooks"
      /\ calls' = calls
  BY <1>1, DoneIs
<1>3. frames' = frames /\ slipped' = slipped
  BY MoveIs DEF MoveStep, Plain, Alloc, Release, Resize, Keep, Pick, End, programVars
<1>4. PICK n \in Nat : n + 1 = Len(frames[t])
  <2>1. PICK m \in Nat \ {0} : m = Len(frames[t])
    BY FramesAre
  <2>2. m - 1 \in Nat /\ (m - 1) + 1 = m
    OBVIOUS
  <2>3. QED
    BY <2>1, <2>2
<1>5. Shows(calls[t], frames[t], slipped[t], n + 1)
  BY <1>2, <1>4, StackBefore DEF StackOf
<1>6. QED
  BY <1>2, <1>3, <1>4, <1>5, StackAfter

LEMMA StackJumpStep ==
    ASSUME TypeOK, FramesInv, NEW t \in Thread, Jump(t), StackOK(t), recording = "on", ~failed
    PROVE  StackOK(t)' /\ LastOK(t)'
<1>1. PICK n \in Nat : n + 1 = Len(frames[t])
  <2>1. PICK m \in Nat \ {0} : m = Len(frames[t])
    BY FramesAre
  <2>2. m - 1 \in Nat /\ (m - 1) + 1 = m
    OBVIOUS
  <2>3. QED
    BY <2>1, <2>2
<1>2. PICK b \in Code[pc[t]].to :
         /\ b \in Address /\ pc'[t] = b /\ Len(frames'[t]) = n + 1
         /\ \A i \in 1 .. (n + 1) - 1 : frames'[t][i] = frames[t][i]
         /\ frames'[t][n + 1] = [rtn |-> Code[b].rtn, back |-> frames[t][n + 1].back]
  BY <1>1, JumpIs
<1>3. /\ pc[t] \in Address /\ Code[pc[t]].op = "jump" /\ at[t] = "hooks" /\ todo[t] = <<>>
      /\ at'[t] = "fetch" /\ calls' = calls
  BY DoneIs DEF Jump
<1>4. PICK rtn : rtn = Code[pc[t]].rtn
  OBVIOUS
<1>5. Shows(calls[t], frames[t], slipped[t], n + 1) /\ frames[t][n + 1].rtn = rtn
  BY <1>1, <1>3, <1>4, StackBefore DEF StackOf
<1>6. \A i \in 1 .. n : frames'[t][i] = frames[t][i]
  BY <1>2
<1>7. slipped'[t] = slipped[t] \cup (IF Code[b].rtn # rtn /\ rtn \in KnownFuncs
                                     THEN {[func |-> rtn, frameBase |-> -(n + 1)]} ELSE {})
  <2>1. FuncCall(t, rtn) = [func |-> rtn, frameBase |-> -(n + 1)]
    BY <1>1 DEF FuncCall
  <2>2. PICK c \in Code[pc[t]].to :
           /\ pc'[t] = c
           /\ slipped'[t] = slipped[t] \cup (IF /\ Code[c].rtn # Code[pc[t]].rtn
                                               /\ Code[pc[t]].rtn \in KnownFuncs
                                               /\ recording = "on" /\ ~failed
                                            THEN {FuncCall(t, Code[pc[t]].rtn)} ELSE {})
    BY SlippedIs
  <2>3. QED
    BY <1>2, <1>4, <2>1, <2>2
<1>8. CASE Code[b].rtn = rtn
  <2>1. frames'[t][n + 1].rtn = frames[t][n + 1].rtn
    BY <1>2, <1>5, <1>8
  <2>2. \A i \in 1 .. n + 1 : i \in 1 .. n \/ i = n + 1
    OBVIOUS
  <2>3. \A i \in 1 .. n + 1 : frames'[t][i].rtn = frames[t][i].rtn
    BY <1>6, <2>1, <2>2
  <2>4. n + 1 \in Nat /\ slipped'[t] = slipped[t]
    BY <1>7, <1>8
  <2>5. Shows(calls'[t], frames'[t], slipped'[t], n + 1)
    BY <1>3, <1>5, <2>3, <2>4, ShowsSame
  <2>6. QED
    BY <1>2, <1>3, <2>5, StackAfter
<1>9. CASE Code[b].rtn # rtn
  <2>1. Shows(calls[t], frames[t], slipped'[t], n)
    <3>1. CASE rtn \in KnownFuncs
      <4>1. slipped'[t] = slipped[t] \cup {[func |-> frames[t][n + 1].rtn, frameBase |-> -(n + 1)]}
        BY <1>5, <1>7, <1>9, <3>1
      <4>2. QED
        BY <1>5, <3>1, <4>1, ShowsLeft
    <3>2. CASE rtn \notin KnownFuncs
      <4>1. slipped'[t] = slipped[t]
        BY <1>7, <3>2
      <4>2. QED
        BY <1>5, <3>2, <4>1, ShowsUnknown
    <3>3. QED
      BY <3>1, <3>2
  <2>2. Shows(calls'[t], frames'[t], slipped'[t], n)
    BY <1>3, <1>6, <2>1, ShowsSame
  <2>3. ASSUME ~Pending(t)' PROVE Shows(calls'[t], frames'[t], slipped'[t], n + 1)
    <3>1. Enters(pc[t], b)
      BY <1>3, <1>4, <1>9 DEF Enters
    <3>2. Code[b].rtn \notin KnownFuncs
      BY <1>2, <1>3, <2>3, <3>1, FlowAssumption DEF Pending
    <3>3. frames'[t][n + 1].rtn \notin KnownFuncs
      BY <1>2, <3>2
    <3>4. QED
      BY <2>2, <3>3, ShowsUnknown
  <2>4. QED
    BY <1>2, <1>3, <2>2, <2>3, StackAfter
<1>10. QED
  BY <1>8, <1>9

LEMMA StackCallStep ==
    ASSUME TypeOK, FramesInv, NEW t \in Thread, Call(t), StackOK(t)
    PROVE  StackOK(t)' /\ LastOK(t)'
<1>1. PICK n \in Nat : n + 1 = Len(frames[t])
  <2>1. PICK m \in Nat \ {0} : m = Len(frames[t])
    BY FramesAre
  <2>2. m - 1 \in Nat /\ (m - 1) + 1 = m
    OBVIOUS
  <2>3. QED
    BY <2>1, <2>2
<1>2. PICK b \in Code[pc[t]].to :
         /\ b \in Address /\ pc'[t] = b /\ Len(frames'[t]) = (n + 1) + 1
         /\ \A i \in 1 .. n + 1 : frames'[t][i] = frames[t][i]
         /\ frames'[t][(n + 1) + 1] = [rtn |-> Code[b].rtn, back |-> pc[t] + 1]
  <2>1. PICK m \in Nat : m = Len(frames[t]) /\ m = n + 1
    BY <1>1
  <2>2. \E b \in Code[pc[t]].to :
           /\ b \in Address /\ pc'[t] = b /\ Len(frames'[t]) = m + 1
           /\ \A i \in 1 .. m : frames'[t][i] = frames[t][i]
           /\ frames'[t][m + 1] = [rtn |-> Code[b].rtn, back |-> pc[t] + 1]
    <3>1. PICK b \in Code[pc[t]].to :
             /\ b \in Address /\ pc'[t] = b /\ Len(frames'[t]) = Len(frames[t]) + 1
             /\ \A i \in 1 .. Len(frames[t]) : frames'[t][i] = frames[t][i]
             /\ frames'[t][Len(frames[t]) + 1] = [rtn |-> Code[b].rtn, back |-> pc[t] + 1]
      BY CallIs
    <3>2. QED
      BY <2>1, <3>1
  <2>3. QED
    BY <2>1, <2>2
<1>3. /\ pc[t] \in Address /\ Code[pc[t]].op = "call" /\ at[t] = "hooks" /\ todo[t] = <<>>
      /\ at'[t] = "fetch" /\ calls' = calls
  BY DoneIs DEF Call
<1>4. slipped' = slipped
  BY DEF Call
<1>5. Shows(calls[t], frames[t], slipped[t], n + 1)
  BY <1>1, <1>3, StackBefore DEF StackOf
<1>6. Shows(calls'[t], frames'[t], slipped'[t], n + 1) /\ n + 1 \in Nat
  <2>1. \A i \in 1 .. n + 1 : frames'[t][i].rtn = frames[t][i].rtn
    BY <1>2
  <2>2. n + 1 \in Nat
    OBVIOUS
  <2>3. Shows(calls[t], frames'[t], slipped[t], n + 1)
    BY <1>5, <2>1, <2>2, ShowsSame
  <2>4. QED
    BY <1>3, <1>4, <2>2, <2>3
<1>7. ASSUME ~Pending(t)' PROVE Shows(calls'[t], frames'[t], slipped'[t], (n + 1) + 1)
  <2>1. Enters(pc[t], b)
    BY <1>3 DEF Enters
  <2>2. Code[b].rtn \notin KnownFuncs
    BY <1>2, <1>3, <1>7, <2>1, FlowAssumption DEF Pending
  <2>3. frames'[t][(n + 1) + 1].rtn \notin KnownFuncs
    BY <1>2, <2>2
  <2>4. QED
    BY <1>6, <2>3, ShowsUnknown
<1>8. QED
  BY <1>2, <1>3, <1>6, <1>7, StackAfter

LEMMA StackRetStep ==
    ASSUME TypeOK, FramesInv, NEW t \in Thread, Ret(t), StackOK(t)
    PROVE  StackOK(t)' /\ LastOK(t)'
<1>1. PICK n \in Nat : (n + 1) + 1 = Len(frames[t])
  <2>1. PICK m \in Nat \ {0} : m = Len(frames[t])
    BY FramesAre
  <2>2. m > 1
    BY <2>1, RetIs
  <2>3. m - 2 \in Nat /\ ((m - 2) + 1) + 1 = m
    BY <2>2
  <2>4. QED
    BY <2>1, <2>3
<1>2. /\ pc'[t] = frames[t][(n + 1) + 1].back /\ Len(frames'[t]) = n + 1
      /\ \A i \in 1 .. n + 1 : frames'[t][i] = frames[t][i]
  <2>1. Len(frames[t]) - 1 = n + 1
    BY <1>1
  <2>2. QED
    BY <1>1, <2>1, RetIs
<1>3. /\ Code[pc[t]].op = "ret" /\ at[t] = "hooks" /\ todo[t] = <<>>
      /\ at'[t] = "fetch" /\ calls' = calls /\ slipped' = slipped
  BY DoneIs DEF Ret
<1>4. Shows(calls[t], frames[t], slipped[t], n + 1)
  <2>1. PICK m \in Nat : m = n + 1 /\ m + 1 = Len(frames[t])
    BY <1>1
  <2>2. StackOf(t, m)
    BY <1>3, <2>1, StackBefore
  <2>3. QED
    BY <2>1, <2>2 DEF StackOf
<1>5. Shows(calls[t], frames'[t], slipped[t], n + 1)
  BY <1>2, <1>4, ShowsSame
<1>6. ~Pending(t)'
  <2>1. (n + 1) + 1 \in 2 .. Len(frames[t])
    BY <1>1
  <2>2. IsReturn(pc'[t])
    BY <1>2, <2>1 DEF FramesInv, FramesOK
  <2>3. QED
    BY <2>2, ReturnIs DEF Pending
<1>7. QED
  BY <1>2, <1>3, <1>5, <1>6, StackAfter

\* An instruction, whether main runs or not.
LEMMA StackProgramStep ==
    ASSUME TypeOK, FramesInv, StackInv, NEW t \in Thread, ProgramStep(t)
    PROVE  StackInv'
<1>1. PICK op : Done(t, op)
  BY DEF ProgramStep, Plain, Jump, Call, Ret, End, Alloc, Release, Resize, Keep, Pick
<1>2. /\ at[t] = "hooks" /\ recording # "over" /\ recording' = recording
      /\ calls' = calls /\ failed' = failed /\ emitted' = emitted /\ todo' = todo
      /\ at'[t] # "hooks" /\ \A u \in Thread : u # t => at'[u] = at[u]
  BY <1>1, DoneIs
<1>3. CASE End(t)
  <2>1. UNCHANGED <<pc, frames, slipped>>
    BY <1>3 DEF End, programVars
  <2>2. ASSUME NEW u \in Thread, u # t
        PROVE  (StackOK(u) => StackOK(u)') /\ (LastOK(u) => LastOK(u)') /\ (QuietOK(u) => QuietOK(u)')
    BY <1>2, <2>1, <2>2, StackFrame
  <2>3. (QuietOK(t) => QuietOK(t)') /\ LastOK(t)'
    BY <1>2, <2>1 DEF QuietOK, LastOK
  <2>4. StackOK(t) => StackOK(t)'
    BY <1>3, StackMoveStep
  <2>5. QED
    BY <1>2, <2>2, <2>3, <2>4 DEF StackInv
<1>4. CASE ~End(t)
  <2>1. MoveStep(t) \/ Jump(t) \/ Call(t) \/ Ret(t)
    BY <1>4 DEF ProgramStep, MoveStep
  <2>2. \A u \in Thread : u # t => pc'[u] = pc[u] /\ frames'[u] = frames[u] /\ slipped'[u] = slipped[u]
    <3>1. CASE MoveStep(t)
      BY <3>1, MoveIs DEF MoveStep, Plain, Alloc, Release, Resize, Keep, Pick
    <3>2. CASE Jump(t)
      <4>1. \A u \in Thread : u # t => pc'[u] = pc[u] /\ frames'[u] = frames[u]
        BY <3>2, JumpIs
      <4>2. \A u \in Thread : u # t => slipped'[u] = slipped[u]
        BY <3>2, SlippedIs
      <4>3. QED
        BY <4>1, <4>2
    <3>3. CASE Call(t)
      BY <3>3, CallIs DEF Call
    <3>4. CASE Ret(t)
      BY <3>4, RetIs DEF Ret
    <3>5. QED
      BY <2>1, <3>1, <3>2, <3>3, <3>4
  <2>3. ASSUME NEW u \in Thread, u # t
        PROVE  (StackOK(u) => StackOK(u)') /\ (LastOK(u) => LastOK(u)') /\ (QuietOK(u) => QuietOK(u)')
    BY <1>2, <2>2, <2>3, StackFrame
  <2>4. LastOK(t)' /\ (recording = "off" => slipped' = slipped)
    <3>1. recording = "off" => slipped' = slipped
      BY <2>1 DEF MoveStep, Plain, Alloc, Release, Resize, Keep, Pick, Jump, Call, Ret
    <3>2. QED
      BY <1>2, <3>1 DEF LastOK
  <2>5. recording = "off" /\ QuietOK(t) => QuietOK(t)'
    BY <1>2, <2>4 DEF QuietOK
  <2>6. recording = "on" /\ ~failed /\ StackOK(t) => StackOK(t)'
    BY <2>1, StackMoveStep, StackJumpStep, StackCallStep, StackRetStep
  <2>7. QED
    BY <1>2, <2>3, <2>4, <2>5, <2>6 DEF StackInv
<1>5. QED
  BY <1>3, <1>4

\* At an instruction the Call of its routine is due if it is the first.
LEMMA StackFetchStep ==
    ASSUME AccessInv, FramesInv, StackInv, NEW t \in Thread, Fetch(t)
    PROVE  StackInv'
<1>1. TypeOK /\ HooksInv /\ pc[t] \in Address
  BY DEF AccessInv, TypeOK
<1>2. /\ at[t] = "fetch" /\ recording # "over" /\ (t = MainThread \/ recording = "on")
      /\ at'[t] = "hooks" /\ emitted'[t] = <<>> /\ recording' = recording
      /\ pc' = pc /\ frames' = frames /\ calls' = calls /\ slipped' = slipped /\ failed' = failed
      /\ \A u \in Thread : u # t => todo'[u] = todo[u] /\ at'[u] = at[u] /\ emitted'[u] = emitted[u]
  BY <1>1, FetchIs
<1>3. Complete(pc[t], todo'[t])
  <2>1. hooks[pc[t]] = ImageHooks(pc[t])
    BY <1>1, FetchIs DEF HooksInv
  <2>2. PICK nextValid : todo'[t] = hooks[pc[t]] \o InstrumentInstruction(pc[t], nextValid)
    BY <1>1, FetchIs
  <2>3. QED
    BY <1>1, <2>1, <2>2, AllHooksAre DEF AllHooks
<1>4. (Pending(t)' <=> Pending(t)) /\ ~Exited(t)' /\ ~Exited(t)
  BY <1>2, <1>3 DEF Pending, Exited, Complete
<1>5. StackOK(t) => StackOK(t)'
  BY <1>2, <1>4 DEF StackOK, StackOf
<1>6. LastOK(t)' /\ (QuietOK(t) /\ t = MainThread => QuietOK(t)')
  BY <1>2 DEF LastOK, QuietOK
<1>7. ASSUME NEW u \in Thread, u # t
      PROVE  (StackOK(u) => StackOK(u)') /\ (LastOK(u) => LastOK(u)') /\ (QuietOK(u) => QuietOK(u)')
  BY <1>2, <1>7, StackFrame
<1>8. QED
  BY <1>2, <1>5, <1>6, <1>7 DEF StackInv

\* The enter and exit hooks come first, the enter hook before the exit hook.
LEMMA HeadIs ==
    ASSUME NEW s \in Seq(Hooks), s # <<>>, NEW a, Ordered(a, s)
    PROVE  /\ Head(s).fn = "routineEnter" =>
                /\ a = First(Code[a].rtn) /\ Head(s).id = GetRoutineId(Code[a].rtn)
                /\ Code[a].op = "ret" => Has(Tail(s), "routineExit")
           /\ Head(s).fn = "routineExit" =>
                /\ Code[a].op = "ret" /\ Head(s).id = GetRoutineId(Code[a].rtn)
                /\ ~Has(Tail(s), "routineExit")
           /\ Head(s).fn \notin {"routineEnter", "routineExit"} => ~Has(s, "routineExit")
           /\ Head(s).fn # "routineEnter" => ~Has(s, "routineEnter")
           /\ Head(s).predicated => Head(s).fn \notin {"routineEnter", "routineExit"}
           /\ ~Has(Tail(s), "routineEnter")
<1>1. Len(s) \in Nat \ {0} /\ Head(s) = s[1] /\ 1 \in 1 .. Len(s)
  OBVIOUS
<1>2. ~Has(Tail(s), "routineEnter")
  BY OrderedTail
<1>3. ASSUME NEW i \in 1 .. Len(s), s[i].fn = "routineExit", Head(s).fn # "routineEnter" PROVE i = 1
  <2>1. \A j \in 1 .. i - 1 : s[j].fn = "routineEnter"
    BY <1>3 DEF Ordered
  <2>2. QED
    BY <1>1, <1>3, <2>1
<1>4. Head(s).fn \notin {"routineEnter", "routineExit"} => ~Has(s, "routineExit")
  BY <1>1, <1>3 DEF Has
<1>5. Head(s).fn # "routineEnter" => ~Has(s, "routineEnter")
  BY <1>2, HasTail
<1>6. ASSUME Head(s).fn = "routineExit" PROVE ~Has(Tail(s), "routineExit")
  <2>1. \A i \in 1 .. Len(s) - 1 : Tail(s)[i] = s[i + 1] /\ i + 1 \in 1 .. Len(s) /\ i + 1 # 1
    BY <1>1
  <2>2. Len(Tail(s)) = Len(s) - 1
    OBVIOUS
  <2>3. QED
    BY <1>3, <1>6, <2>1, <2>2 DEF Has
<1>7. Head(s).fn = "routineEnter" =>
        /\ a = First(Code[a].rtn) /\ Head(s).id = GetRoutineId(Code[a].rtn)
        /\ Code[a].op = "ret" => Has(Tail(s), "routineExit")
  <2>1. Head(s).fn = "routineEnter" => Has(s, "routineEnter")
    BY HasTail
  <2>2. QED
    BY <1>1, <2>1, HasTail DEF Ordered
<1>8. /\ Head(s).fn = "routineExit" => Code[a].op = "ret" /\ Head(s).id = GetRoutineId(Code[a].rtn)
      /\ Head(s).predicated => Head(s).fn \notin {"routineEnter", "routineExit"}
  BY <1>1 DEF Ordered
<1>9. QED
  BY <1>2, <1>4, <1>5, <1>6, <1>7, <1>8

\* The hooks that neither enter nor leave a routine.
OtherHook(t) == SkipHook(t) \/ MemoryAccess(t) \/ MallocBefore(t) \/ MallocAfter(t) \/ FreeBefore(t)

\* They change neither the stacks nor what is due.
LEMMA StackOtherStep ==
    ASSUME TypeOK, TodoInv, StackInv, NEW t \in Thread, OtherHook(t)
    PROVE  StackInv'
<1>1. HookStep(t)
  BY DEF HookStep, OtherHook
<1>2. /\ NextHook(t) /\ at[t] = "hooks" /\ recording # "over"
      /\ at' = at /\ pc' = pc /\ frames' = frames
      /\ \A u \in Thread : u # t => /\ emitted'[u] = emitted[u] /\ calls'[u] = calls[u]
                                    /\ slipped'[u] = slipped[u]
  BY <1>1, HookIs
<1>3. /\ todo[t] \in Seq(Hooks) /\ todo[t] # <<>> /\ todo'[t] = Tail(todo[t])
      /\ \A u \in Thread : u # t => todo'[u] = todo[u]
  BY <1>2, NextHookIs
<1>4. Ordered(pc[t], todo[t])
  BY <1>2 DEF TodoInv
<1>5. Head(todo[t]).fn \notin {"routineEnter", "routineExit"}
  <2>1. CASE SkipHook(t)
    BY <1>3, <1>4, <2>1, HeadIs DEF SkipHook
  <2>2. QED
    BY <2>1 DEF OtherHook, MemoryAccess, MallocBefore, MallocAfter, FreeBefore, RunHook
<1>6. /\ ~Has(todo[t], "routineEnter") /\ ~Has(todo[t], "routineExit")
      /\ ~Has(todo'[t], "routineEnter") /\ ~Has(todo'[t], "routineExit")
  BY <1>3, <1>4, <1>5, HeadIs, HasTail
<1>7. recording' = recording /\ calls' = calls /\ slipped' = slipped /\ failed' = failed
  BY DEF OtherHook, SkipHook, MemoryAccess, MallocBefore, MallocAfter, FreeBefore, logVars
<1>8. recording = "off" => emitted' = emitted
  BY <1>7 DEF OtherHook, SkipHook, MemoryAccess, MallocBefore, MallocAfter, FreeBefore, logVars, Emit
<1>9. (Pending(t)' <=> Pending(t)) /\ (Exited(t)' <=> Exited(t))
  BY <1>2, <1>6 DEF Pending, Exited
<1>10. (StackOK(t) => StackOK(t)') /\ LastOK(t)'
  BY <1>2, <1>6, <1>7, <1>9 DEF StackOK, StackOf, LastOK
<1>11. recording = "off" /\ QuietOK(t) => QuietOK(t)'
  BY <1>2, <1>7, <1>8 DEF QuietOK
<1>12. ASSUME NEW u \in Thread, u # t
       PROVE  (StackOK(u) => StackOK(u)') /\ (LastOK(u) => LastOK(u)') /\ (QuietOK(u) => QuietOK(u)')
  BY <1>2, <1>3, <1>12, StackFrame
<1>13. QED
  BY <1>2, <1>7, <1>10, <1>11, <1>12 DEF StackInv

\* What the replay of a Call or Ret depends on.
LEMMA RoutineIdIs ==
    ASSUME NEW rtn \in Routine
    PROVE  /\ rtn \in KnownFuncs => GetRoutineId(rtn) = rtn /\ GetRoutineId(rtn) # NoFunc
           /\ rtn \notin KnownFuncs => GetRoutineId(rtn) = NoFunc /\ GetRoutineId(rtn) # "main"
  BY CodeAssumption DEF GetRoutineId

\* No access has been recorded of the instruction when its Call or Ret is.
LEMMA EventIsLast ==
    ASSUME TypeOK, NEW t \in Thread, NEW type \in {"Call", "Ret"}, Emit(t, type), recording' # "off"
    PROVE  Last(emitted'[t]) = type /\ LastOK(t)'
<1>1. emitted[t] \in Seq(EventType) /\ emitted'[t] = Append(emitted[t], type)
  BY EmitIs DEF EventType
<1>2. PICK e \in Seq(EventType) : e = emitted[t]
  BY <1>1
<1>3. Len(Append(e, type)) = Len(e) + 1 /\ Append(e, type)[Len(e) + 1] = type
  BY DEF EventType
<1>4. Last(emitted'[t]) = type
  BY <1>1, <1>2, <1>3 DEF Last
<1>5. QED
  BY <1>4 DEF LastOK

\* The Call of a function with debug information puts its frame on top.
LEMMA EnterShows ==
    ASSUME TypeOK, TodoInv, FramesInv, NEW t \in Thread, RoutineEnter(t), recording' # "off", ~failed,
           NEW n \in Nat, n + 1 = Len(frames[t]),
           Code[pc[t]].rtn \in KnownFuncs => StackOf(t, n) \/ StackOf(t, n + 1),
           Code[pc[t]].rtn \notin KnownFuncs => StackOf(t, n + 1)
    PROVE  StackOK(t)'
<1>1. HookStep(t) /\ RunHook(t, "routineEnter")
  BY DEF HookStep, RoutineEnter
<1>2. /\ NextHook(t) /\ at[t] = "hooks" /\ at' = at /\ pc' = pc /\ frames' = frames
      /\ pc[t] \in Address /\ Head(todo[t]).fn = "routineEnter"
  BY <1>1, HookIs DEF RunHook, TypeOK
<1>3. todo[t] \in Seq(Hooks) /\ todo[t] # <<>> /\ todo'[t] = Tail(todo[t])
  BY <1>2, NextHookIs
<1>4. PICK rtn \in Routine : rtn = Code[pc[t]].rtn
  BY <1>2, CodeIs
<1>5. Ordered(pc[t], todo[t])
  BY <1>2 DEF TodoInv
<1>6. /\ Head(todo[t]).id = GetRoutineId(rtn) /\ ~Has(todo'[t], "routineEnter")
      /\ Code[pc[t]].op = "ret" => Has(todo'[t], "routineExit")
  BY <1>2, <1>3, <1>4, <1>5, HeadIs
<1>7. ~Pending(t)' /\ ~Exited(t)'
  BY <1>2, <1>6 DEF Pending, Exited
<1>8. PICK call : call = FuncCall(t, Head(todo[t]).id)
  OBVIOUS
<1>9. PICK S : S = Above(slipped[t], call.frameBase)
  OBVIOUS
<1>10. IF Head(todo[t]).id = NoFunc THEN calls' = calls /\ slipped' = slipped
       ELSE /\ calls' = [calls EXCEPT ![t] = Push(calls[t], call)]
            /\ slipped' = [slipped EXCEPT ![t] = S]
  BY <1>8, <1>9 DEF RoutineEnter, Above
<1>11. Shows(calls'[t], frames[t], slipped'[t], n + 1)
  <2>1. CASE rtn \in KnownFuncs
    <3>1. calls[t] \in Seq(KnownCall) /\ call = FuncCall(t, rtn) /\ call \in KnownCall
      BY <1>6, <1>8, <2>1, ReplayTyped, RoutineIdIs
    <3>2. calls'[t] = Push(calls[t], call) /\ slipped'[t] = S
      BY <1>6, <1>10, <2>1, RoutineIdIs DEF TypeOK
    <3>3. n + 1 \in 1 .. Len(frames[t])
      OBVIOUS
    <3>4. frames[t][n + 1].rtn = rtn
      BY <1>4, <3>3 DEF FramesInv, FramesOK, Pos
    <3>5. call = [func |-> frames[t][n + 1].rtn, frameBase |-> -(n + 1)]
      BY <3>1, <3>4 DEF FuncCall
    <3>6. \/ Shows(calls[t], frames[t], slipped[t], n)
          \/ Shows(calls[t], frames[t], slipped[t], n + 1)
      BY <1>4, <2>1 DEF StackOf
    <3>7. frames[t][n + 1].rtn \in KnownFuncs /\ slipped[t] \in SUBSET KnownCall
      BY <2>1, <3>4 DEF TypeOK
    <3>8. Shows(Push(calls[t], call), frames[t], Above(slipped[t], call.frameBase), n + 1)
      BY <3>1, <3>5, <3>6, <3>7, ShowsPush
    <3>9. QED
      BY <1>9, <3>2, <3>8
  <2>2. CASE rtn \notin KnownFuncs
    <3>1. calls' = calls /\ slipped' = slipped
      BY <1>6, <1>10, <2>2, RoutineIdIs
    <3>2. QED
      BY <1>4, <2>2, <3>1 DEF StackOf
  <2>3. QED
    BY <2>1, <2>2
<1>12. StackOK(t)'
  BY <1>2, <1>7, <1>11 DEF StackOK, StackOf
<1>13. QED
  BY <1>12

\* Before main, only frames without debug information are below its frame.
LEMMA StartShows ==
    ASSUME TypeOK, FramesInv, NEW t \in Thread, QuietOK(t), "main" \in KnownFuncs,
           NEW n \in Nat, n + 1 = Len(frames[t]), Code[pc[t]].rtn = "main"
    PROVE  StackOf(t, n)
<1>1. calls[t] = <<>> /\ Len(calls[t]) = 0 /\ slipped[t] = {}
  BY DEF QuietOK
<1>2. n + 1 \in 1 .. Len(frames[t]) /\ \A i \in 1 .. n : i \in 1 .. (n + 1) - 1
  OBVIOUS
<1>3. frames[t][n + 1].rtn = "main"
  BY <1>2 DEF FramesInv, FramesOK, Pos
<1>4. \A j \in 1 .. (n + 1) - 1 : frames[t][j].rtn \in Startup
  BY <1>2, <1>3 DEF FramesInv, FramesOK
<1>5. \A i \in 1 .. n : frames[t][i].rtn \notin KnownFuncs
  BY <1>2, <1>4, StartupIs
<1>6. QED
  BY <1>1, <1>5 DEF StackOf, Shows, Decreasing

\* Then the other threads have only the frame in which they start.
LEMMA QuietShows ==
    ASSUME TypeOK, FramesInv, NEW u \in Thread, u # MainThread, QuietOK(u)
    PROVE  StackOK(u) /\ LastOK(u)
<1>1. /\ calls[u] = <<>> /\ Len(calls[u]) = 0 /\ slipped[u] = {} /\ emitted[u] = <<>> /\ at[u] = "fetch"
      /\ Len(frames[u]) = 1 /\ frames[u][1].rtn \notin KnownFuncs /\ 1 \in 1 .. Len(frames[u])
  BY DEF QuietOK
<1>2. Code[pc[u]].rtn \notin KnownFuncs
  BY <1>1 DEF FramesInv, FramesOK, Pos
<1>3. ~Pending(u) /\ ~Exited(u)
  BY <1>2 DEF Pending, Exited
<1>4. StackOf(u, 1)
  BY <1>1 DEF StackOf, Shows, Decreasing
<1>5. QED
  BY <1>1, <1>3, <1>4 DEF StackOK, LastOK

\* The Call, also that of main, with which recording starts.
LEMMA StackEnterStep ==
    ASSUME TypeOK, TodoInv, FramesInv, StackInv, NEW t \in Thread, RoutineEnter(t)
    PROVE  StackInv'
<1>1. HookStep(t) /\ RunHook(t, "routineEnter")
  BY DEF HookStep, RoutineEnter
<1>2. /\ NextHook(t) /\ at[t] = "hooks" /\ recording # "over"
      /\ at' = at /\ pc' = pc /\ frames' = frames
      /\ \A u \in Thread : u # t => /\ emitted'[u] = emitted[u] /\ calls'[u] = calls[u]
                                    /\ slipped'[u] = slipped[u]
      /\ pc[t] \in Address /\ Head(todo[t]).fn = "routineEnter" /\ failed' = failed
  BY <1>1, HookIs DEF RunHook, TypeOK, RoutineEnter
<1>3. /\ todo[t] \in Seq(Hooks) /\ todo[t] # <<>>
      /\ \A u \in Thread : u # t => todo'[u] = todo[u]
  BY <1>2, NextHookIs
<1>4. PICK rtn \in Routine : rtn = Code[pc[t]].rtn
  BY <1>2, CodeIs
<1>5. /\ Ordered(pc[t], todo[t])
      /\ Head(todo[t]).id = GetRoutineId(rtn) /\ pc[t] = First(rtn)
      /\ Code[pc[t]].op = "ret" => Has(todo[t], "routineExit")
  BY <1>2, <1>3, <1>4, HeadIs, HasTail DEF TodoInv
<1>6. Has(todo[t], "routineEnter")
  BY <1>2, <1>3, HasTail
<1>7. /\ recording' = IF GetRoutineId(rtn) = "main" THEN "on" ELSE recording
      /\ recording \in {"off", "on"}
  BY <1>2, <1>5 DEF RoutineEnter, TypeOK
<1>8. ASSUME NEW u \in Thread, u # t
      PROVE  (StackOK(u) => StackOK(u)') /\ (LastOK(u) => LastOK(u)') /\ (QuietOK(u) => QuietOK(u)')
  BY <1>2, <1>3, <1>8, StackFrame
<1>9. PICK n \in Nat : n + 1 = Len(frames[t])
  <2>1. PICK m \in Nat \ {0} : m = Len(frames[t])
    BY FramesAre
  <2>2. m - 1 \in Nat /\ (m - 1) + 1 = m
    OBVIOUS
  <2>3. QED
    BY <2>1, <2>2
<1>10. ASSUME Code[pc[t]].rtn \in KnownFuncs => StackOf(t, n) \/ StackOf(t, n + 1),
              Code[pc[t]].rtn \notin KnownFuncs => StackOf(t, n + 1),
              recording' # "off", ~failed
       PROVE  StackOK(t)'
  BY <1>9, <1>10, EnterShows
<1>15. recording' # "off" => LastOK(t)'
  BY EventIsLast DEF RoutineEnter
<1>11. CASE recording = "on"
  <2>1. /\ Pending(t) <=> Code[pc[t]].rtn \in KnownFuncs
        /\ ~Exited(t) /\ Len(frames[t]) - 1 = n
    BY <1>2, <1>4, <1>5, <1>6, <1>9 DEF Pending, Exited
  <2>2. ~failed => StackOK(t)'
    BY <1>7, <1>9, <1>10, <1>11, <2>1 DEF StackInv, StackOK
  <2>3. recording' = "on"
    BY <1>7, <1>11
  <2>4. LastOK(t)'
    BY <1>15, <2>3
  <2>5. QED
    BY <1>2, <1>8, <1>11, <2>2, <2>3, <2>4 DEF StackInv
<1>12. CASE recording = "off" /\ GetRoutineId(rtn) = "main"
  <2>1. /\ rtn = "main" /\ "main" \in KnownFuncs /\ recording' = "on" /\ t = MainThread
        /\ ~failed
    BY <1>2, <1>7, <1>12, RoutineIdIs DEF StackInv, QuietOK
  <2>2. StackOf(t, n)
    BY <1>4, <1>9, <1>12, <2>1, StartShows DEF StackInv
  <2>3. StackOK(t)' /\ LastOK(t)'
    BY <1>4, <1>10, <1>15, <2>1, <2>2
  <2>4. \A u \in Thread : u # t => StackOK(u) /\ LastOK(u)
    BY <1>12, <2>1, QuietShows DEF StackInv
  <2>5. QED
    BY <1>2, <1>8, <2>1, <2>3, <2>4 DEF StackInv
<1>13. CASE recording = "off" /\ GetRoutineId(rtn) # "main"
  <2>1. recording' = "off" /\ calls' = calls /\ slipped' = slipped /\ emitted' = emitted
    BY <1>7, <1>13 DEF RoutineEnter, Emit
  <2>2. QED
    BY <1>2, <1>13, <2>1 DEF StackInv, QuietOK
<1>14. QED
  BY <1>7, <1>11, <1>12, <1>13

\* The Ret, also that of main, with which recording ends.
LEMMA StackExitStep ==
    ASSUME TypeOK, TodoInv, FramesInv, StackInv, NEW t \in Thread, RoutineExit(t)
    PROVE  StackInv'
<1>1. HookStep(t) /\ RunHook(t, "routineExit")
  BY DEF HookStep, RoutineExit
<1>2. /\ NextHook(t) /\ at[t] = "hooks" /\ recording # "over"
      /\ at' = at /\ pc' = pc /\ frames' = frames
      /\ \A u \in Thread : u # t => emitted'[u] = emitted[u] /\ calls'[u] = calls[u]
      /\ slipped' = slipped
      /\ pc[t] \in Address /\ Head(todo[t]).fn = "routineExit"
  BY <1>1, HookIs DEF RunHook, TypeOK, RoutineExit
<1>3. /\ todo[t] \in Seq(Hooks) /\ todo[t] # <<>> /\ todo'[t] = Tail(todo[t])
      /\ \A u \in Thread : u # t => todo'[u] = todo[u]
  BY <1>2, NextHookIs
<1>4. PICK rtn \in Routine : rtn = Code[pc[t]].rtn
  BY <1>2, CodeIs
<1>5. /\ Ordered(pc[t], todo[t]) /\ Code[pc[t]].op = "ret"
      /\ Head(todo[t]).id = GetRoutineId(rtn)
      /\ ~Has(todo[t], "routineEnter")
      /\ ~Has(todo'[t], "routineEnter") /\ ~Has(todo'[t], "routineExit")
  BY <1>2, <1>3, <1>4, HeadIs DEF TodoInv
<1>6. Has(todo[t], "routineExit")
  BY <1>2, <1>3, HasTail
<1>7. /\ recording' = IF GetRoutineId(rtn) = "main" THEN "over" ELSE recording
      /\ recording \in {"off", "on"}
  BY <1>2, <1>5 DEF RoutineExit, TypeOK
<1>8. ASSUME NEW u \in Thread, u # t
      PROVE  (StackOK(u) => StackOK(u)') /\ (LastOK(u) => LastOK(u)') /\ (QuietOK(u) => QuietOK(u)')
  BY <1>2, <1>3, <1>8, StackFrame
<1>9. PICK n \in Nat : n + 1 = Len(frames[t])
  <2>1. PICK m \in Nat \ {0} : m = Len(frames[t])
    BY FramesAre
  <2>2. m - 1 \in Nat /\ (m - 1) + 1 = m
    OBVIOUS
  <2>3. QED
    BY <2>1, <2>2
<1>10. LET matters == recording # "off" /\ GetRoutineId(rtn) # NoFunc
       IN /\ failed' = (failed \/ (matters /\ ~PopMatches(calls[t], FuncCall(t, GetRoutineId(rtn)))))
          /\ calls' = IF matters /\ ~failed' THEN [calls EXCEPT ![t] = Pop(calls[t])] ELSE calls
  BY <1>5 DEF RoutineExit
<1>11. ~Pending(t) /\ ~Exited(t) /\ ~Pending(t)' /\ (Exited(t)' <=> rtn \in KnownFuncs)
  BY <1>2, <1>4, <1>5, <1>6 DEF Pending, Exited
<1>12. ASSUME recording = "on", ~failed' PROVE StackOK(t)'
  <2>1. Shows(calls[t], frames[t], slipped[t], n + 1) /\ ~failed
    BY <1>9, <1>10, <1>11, <1>12 DEF StackInv, StackOK, StackOf
  <2>2. CASE rtn \in KnownFuncs
    <3>1. calls[t] \in Seq(KnownCall) /\ slipped[t] \in SUBSET KnownCall
      BY DEF TypeOK
    <3>2. n + 1 \in 1 .. Len(frames[t]) /\ Len(frames[t]) - 1 = n
      BY <1>9
    <3>3. frames[t][n + 1].rtn = rtn
      BY <1>4, <1>9, <3>2 DEF FramesInv, FramesOK, Pos
    <3>4. FuncCall(t, rtn) = [func |-> frames[t][n + 1].rtn, frameBase |-> -(n + 1)]
      BY <1>9, <3>3 DEF FuncCall
    <3>5. frames[t][n + 1].rtn \in KnownFuncs
      BY <2>2, <3>3
    <3>6. PopMatches(calls[t], FuncCall(t, rtn)) => Shows(Pop(calls[t]), frames[t], slipped[t], n)
      BY <2>1, <3>1, <3>4, <3>5, ShowsPop
    <3>7. PopMatches(calls[t], FuncCall(t, rtn)) /\ calls'[t] = Pop(calls[t])
      BY <1>10, <1>12, <2>1, <2>2, RoutineIdIs DEF TypeOK
    <3>8. QED
      BY <1>2, <1>11, <2>2, <3>2, <3>6, <3>7 DEF StackOK, StackOf
  <2>3. CASE rtn \notin KnownFuncs
    <3>1. GetRoutineId(rtn) = NoFunc
      BY <2>3, RoutineIdIs
    <3>2. calls' = calls
      BY <1>10, <3>1
    <3>3. QED
      BY <1>2, <1>9, <1>11, <2>1, <2>3, <3>2 DEF StackOK, StackOf
  <2>4. QED
    BY <2>2, <2>3
<1>13. recording = "off" => ~failed' /\ calls' = calls
  BY <1>10 DEF StackInv
<1>14. recording' # "off" => Last(emitted'[t]) = "Ret" /\ LastOK(t)'
  BY EventIsLast DEF RoutineExit
<1>15. CASE recording' = "over"
  <2>1. StackAtAccess
    BY StackSafe
  <2>2. ASSUME NEW u \in Thread, ~failed', emitted'[u] # <<>>,
               Last(emitted'[u]) \in {"Read", "Write"}, at'[u] = "hooks"
        PROVE  Rebuilt(u, IF Code[pc[u]].op = "ret" /\ Code[pc[u]].rtn \in KnownFuncs
                          THEN Len(frames[u]) - 1 ELSE Len(frames[u]))'
    <3>1. u # t
      BY <1>14, <1>15, <2>2
    <3>2. emitted'[u] = emitted[u] /\ calls'[u] = calls[u]
      BY <1>2, <3>1
    <3>3. \A k : Rebuilt(u, k)' <=> Rebuilt(u, k)
      BY <1>2, <3>2 DEF Rebuilt, KnownFrames
    <3>4. ~failed
      BY <1>10, <2>2
    <3>5. QED
      BY <1>2, <2>1, <2>2, <3>2, <3>3, <3>4 DEF StackAtAccess
  <2>3. StackAtAccess'
    BY <2>2 DEF StackAtAccess
  <2>4. QED
    BY <1>15, <2>3 DEF StackInv
<1>16. CASE recording' = "on"
  <2>1. recording = "on"
    BY <1>7, <1>16
  <2>2. LastOK(t)'
    BY <1>14, <1>16
  <2>3. ~failed' => ~failed
    BY <1>10
  <2>4. QED
    BY <1>8, <1>12, <1>16, <2>1, <2>2, <2>3 DEF StackInv
<1>17. CASE recording' = "off"
  <2>1. recording = "off" /\ calls' = calls
    BY <1>7, <1>13, <1>17
  <2>2. emitted' = emitted
    BY <1>17 DEF RoutineExit, Emit
  <2>3. QED
    BY <1>2, <1>13, <1>17, <2>1, <2>2 DEF StackInv, QuietOK
<1>18. QED
  BY <1>7, <1>15, <1>16, <1>17

\* The invariant is inductive, with those it rests on.
LEMMA StackStep == AccessInv /\ FramesInv /\ StackInv /\ [Next]_vars => StackInv'
<1> SUFFICES ASSUME AccessInv, FramesInv, StackInv, [Next]_vars PROVE StackInv'
  OBVIOUS
<1>1. TypeOK /\ TodoInv
  BY DEF AccessInv
<1>2. ASSUME UNCHANGED <<recording, calls, slipped, frames, pc, at, todo, emitted, failed>> PROVE StackInv'
  <2>1. \A u \in Thread : /\ StackOK(u) => StackOK(u)'
                          /\ LastOK(u) => LastOK(u)'
                          /\ QuietOK(u) => QuietOK(u)'
    BY <1>2, StackFrame
  <2>2. StackAtAccess => StackAtAccess'
    BY <1>2 DEF StackAtAccess, Rebuilt, KnownFrames
  <2>3. QED
    BY <1>2, <2>1, <2>2 DEF StackInv
<1>3. ASSUME NEW img, InstrumentImageLoad(img) PROVE StackInv'
  BY <1>1, <1>2, <1>3, LoadIs
<1>4. ASSUME NEW t \in Thread, HookStep(t) PROVE StackInv'
  BY <1>1, <1>4, StackEnterStep, StackExitStep, StackOtherStep DEF HookStep, OtherHook
<1>5. ASSUME UNCHANGED vars PROVE StackInv'
  <2>1. UNCHANGED <<recording, calls, slipped, frames, pc, at, todo, emitted, failed>>
    BY <1>5 DEF vars, programVars, logVars
  <2>2. QED
    BY <1>2, <2>1
<1>6. QED
  BY <1>1, <1>3, <1>4, <1>5, NextIs, StackFetchStep, StackProgramStep

\* For every program that keeps to FlowAssumption and StartAssumption, the stack that
\* the readers of the log rebuild has, whenever an access is recorded, the frames of
\* the program and the calls that tail calls left behind, and nothing else, as long as
\* no assertion of CallStack::pop has failed.
THEOREM StackCorrect == Spec => []StackAtAccess
<1>1. Init => AccessInv /\ FramesInv /\ StackInv
  BY AccessInit, FramesInit, StackInit
<1>2. AccessInv /\ FramesInv /\ StackInv /\ [Next]_vars => (AccessInv /\ FramesInv /\ StackInv)'
  BY AccessStep, FramesStep, StackStep DEF AccessInv
<1>3. AccessInv /\ FramesInv /\ StackInv => StackAtAccess
  BY StackSafe DEF AccessInv
<1>4. QED
  BY <1>1, <1>2, <1>3, PTL DEF Spec

\* At a Ret the stack shows the top frame.
LEMMA ExitFails ==
    ASSUME AccessInv, FramesInv, StackInv, NEW t \in Thread,
           RoutineExit(t), recording = "on", ~failed, Head(todo[t]).id # NoFunc
    PROVE  failed' <=> \E call \in slipped[t] : call.frameBase < -Len(frames[t])
<1>1. TypeOK /\ TodoInv
  BY DEF AccessInv
<1>2. NextHook(t) /\ at[t] = "hooks" /\ pc[t] \in Address /\ Head(todo[t]).fn = "routineExit"
  BY <1>1 DEF RoutineExit, RunHook, NextHook, TypeOK
<1>3. todo[t] \in Seq(Hooks) /\ todo[t] # <<>>
  BY <1>1, <1>2, NextHookIs
<1>4. PICK rtn \in Routine : rtn = Code[pc[t]].rtn
  BY <1>2, CodeIs
<1>5. /\ Ordered(pc[t], todo[t]) /\ Code[pc[t]].op = "ret"
      /\ Head(todo[t]).id = GetRoutineId(rtn)
      /\ ~Has(todo[t], "routineEnter")
  BY <1>1, <1>2, <1>3, <1>4, HeadIs DEF TodoInv
<1>6. Has(todo[t], "routineExit")
  BY <1>2, <1>3, HasTail
<1>7. PICK n \in Nat : n + 1 = Len(frames[t])
  <2>1. PICK m \in Nat \ {0} : m = Len(frames[t])
    BY <1>1, FramesAre
  <2>2. m - 1 \in Nat /\ (m - 1) + 1 = m
    OBVIOUS
  <2>3. QED
    BY <2>1, <2>2
<1>8. Shows(calls[t], frames[t], slipped[t], n + 1)
  <2>1. ~Pending(t) /\ ~Exited(t)
    BY <1>2, <1>5, <1>6 DEF Pending, Exited
  <2>2. QED
    BY <1>7, <2>1 DEF StackInv, StackOK, StackOf
<1>9. rtn \in KnownFuncs /\ Head(todo[t]).id = rtn
  BY <1>5, RoutineIdIs
<1>10. frames[t][n + 1].rtn = rtn
  <2>1. n + 1 \in 1 .. Len(frames[t])
    BY <1>7
  <2>2. QED
    BY <1>4, <1>7, <2>1 DEF FramesInv, FramesOK, Pos
<1>11. FuncCall(t, rtn) = [func |-> frames[t][n + 1].rtn, frameBase |-> -(n + 1)]
  BY <1>7, <1>10 DEF FuncCall
<1>12. calls[t] \in Seq(KnownCall) /\ slipped[t] \in SUBSET KnownCall /\ frames[t][n + 1].rtn \in KnownFuncs
  BY <1>1, <1>9, <1>10 DEF TypeOK
<1>13. PopMatches(calls[t], FuncCall(t, rtn)) <=> ~\E d \in slipped[t] : d.frameBase < -(n + 1)
  BY <1>8, <1>11, <1>12, ShowsPop
<1>14. failed' <=> ~PopMatches(calls[t], FuncCall(t, rtn))
  BY <1>9 DEF RoutineExit
<1>15. QED
  BY <1>7, <1>13, <1>14

\* For the same programs the assertion of CallStack::pop fails at the Ret of a function
\* under whose frame a tail call has left a call, and at no other Ret.
THEOREM PopFails == Spec => PopFailsAtSlipped
<1>1. Init => AccessInv /\ FramesInv /\ StackInv
  BY AccessInit, FramesInit, StackInit
<1>2. AccessInv /\ FramesInv /\ StackInv /\ [Next]_vars => (AccessInv /\ FramesInv /\ StackInv)'
  BY AccessStep, FramesStep, StackStep DEF AccessInv
<1>3. AccessInv /\ FramesInv /\ StackInv /\ [Next]_vars =>
        [\A t \in Thread :
           RoutineExit(t) /\ recording = "on" /\ ~failed /\ Head(todo[t]).id # NoFunc =>
             (failed' <=> \E call \in slipped[t] : call.frameBase < -Len(frames[t]))]_vars
  BY ExitFails
<1>4. QED
  BY <1>1, <1>2, <1>3, PTL DEF Spec, PopFailsAtSlipped

-----------------------------------------------------------------------------
(* The blocks of the heap *)

\* Thread t has a block as the result of malloc or the argument of free.
Holds(t) == Code[pc[t]].holds \in {"new", "old"} /\ arg[t] # NoBlock

\* The Alloc has been recorded, if one is; the Free is still to be recorded.
Returned(t) == Code[pc[t]].op = "ret" /\ at[t] = "hooks" /\ ~Has(todo[t], "mallocAfter")
Freeing(t) == pc[t] = First("free") /\ (at[t] = "fetch" \/ Has(todo[t], "freeBefore"))

\* The log does not show the block of t: its Alloc is to come, or its Free is there.
Unlogged(t) == \/ Code[pc[t]].holds = "new" /\ Code[pc[t]].rtn = "malloc" /\ ~Returned(t)
               \/ Code[pc[t]].holds = "old" /\ Code[pc[t]].rtn = "free" /\ ~Freeing(t)

\* The log shows it only as often as realloc released it.
Settled(b) == unfreed[b] <= lost[b]

HeapOK(t) == Holds(t) => /\ arg[t] \in taken \ owned
                         /\ Unlogged(t) => Settled(arg[t])

HeapInv == /\ owned \subseteq taken
           /\ recording = "off" => \A b \in Block : unfreed[b] = 0
           /\ HeapLogMatches
           /\ \A t \in Thread : HeapOK(t)
           /\ \A t, u \in Thread : t # u /\ Holds(t) /\ Holds(u) => arg[t] # arg[u]

\* At first nothing is allocated.
LEMMA HeapInit == Init => HeapInv
  BY DEF Init, HeapInv, HeapLogMatches, HeapOK, Holds

\* HeapLogMatches, for the blocks that are allocated and for the others.
LEMMA LogIs ==
    HeapLogMatches <=> \A b \in Block : /\ b \notin taken => unfreed[b] <= lost[b] + 0
                                        /\ b \in taken => unfreed[b] <= lost[b] + 1
  BY DEF HeapLogMatches

LEMMA LogMatchesIs ==
    ASSUME unfreed \in [Block -> Nat], lost \in [Block -> Nat]
    PROVE  HeapLogMatches <=> \A b \in Block : /\ b \notin taken => Settled(b)
                                               /\ b \in taken => unfreed[b] <= lost[b] + 1
<1>1. \A b \in Block : unfreed[b] \in Nat /\ lost[b] \in Nat
  OBVIOUS
<1>2. \A b \in Block : Settled(b) <=> unfreed[b] <= lost[b] + 0
  BY <1>1 DEF Settled
<1>3. QED
  BY <1>2, LogIs

\* Another thread goes on with its block, whatever is done to the others.
LEMMA HeapFrame ==
    ASSUME NEW u \in Thread, HeapOK(u),
           pc'[u] = pc[u], at'[u] = at[u], todo'[u] = todo[u], arg'[u] = arg[u],
           Holds(u) => /\ arg[u] \in taken' \ owned'
                       /\ Settled(arg[u]) => unfreed'[arg[u]] <= lost'[arg[u]]
    PROVE  HeapOK(u)' /\ (Holds(u)' <=> Holds(u))
<1>1. Holds(u)' <=> Holds(u)
  BY DEF Holds
<1>2. Unlogged(u)' <=> Unlogged(u)
  BY DEF Unlogged, Returned, Freeing
<1>3. QED
  BY <1>1, <1>2 DEF HeapOK, Settled

\* The instructions after which a thread holds what it held, or nothing.
LEMMA HeapPassStep ==
    ASSUME HeapInv, NEW t \in Thread, at[t] = "hooks", todo[t] = <<>>, at'[t] # "hooks",
           pc[t] \in Address, pc'[t] \in Address, todo' = todo, recording' = recording,
           arg' = arg, taken' = taken, owned' = owned, unfreed' = unfreed, lost' = lost,
           \A u \in Thread : u # t => pc'[u] = pc[u] /\ at'[u] = at[u],
           Passes(Code[pc[t]].holds, Code[pc'[t]].holds),
           \/ Code[pc'[t]].rtn = Code[pc[t]].rtn /\ Code[pc[t]].op # "ret"
           \/ Code[pc'[t]].rtn \in {"malloc", "free"} =>
                pc'[t] = First(Code[pc'[t]].rtn) /\ at'[t] = "fetch"
    PROVE  HeapInv'
<1>1. Len(todo[t]) = 0
  OBVIOUS
<1>2. ~Freeing(t)
  BY <1>1 DEF Freeing, Has
<1>3. Code[pc'[t]].holds \in {"new", "old"} => Code[pc[t]].holds = Code[pc'[t]].holds
  BY DEF Passes
<1>4. Holds(t)' => Holds(t)
  BY <1>3 DEF Holds
<1>5. Holds(t)' /\ Unlogged(t)' => Unlogged(t)
  <2> SUFFICES ASSUME Holds(t)', Unlogged(t)' PROVE Unlogged(t)
    OBVIOUS
  <2>1. CASE Code[pc'[t]].rtn = Code[pc[t]].rtn /\ Code[pc[t]].op # "ret"
    BY <1>2, <1>3, <2>1 DEF Unlogged, Returned
  <2>2. CASE Code[pc'[t]].rtn \in {"malloc", "free"} =>
               pc'[t] = First(Code[pc'[t]].rtn) /\ at'[t] = "fetch"
    <3>1. pc'[t] = First(Code[pc'[t]].rtn) /\ at'[t] = "fetch"
      BY <2>2 DEF Unlogged
    <3>2. CASE Code[pc'[t]].rtn = "malloc"
      <4>1. Code[pc'[t]].holds = "nothing"
        BY <3>1, <3>2, HeapAssumption
      <4>2. QED
        BY <4>1 DEF Holds
    <3>3. CASE Code[pc'[t]].rtn = "free"
      <4>1. Freeing(t)'
        BY <3>1, <3>3 DEF Freeing
      <4>2. QED
        BY <3>3, <4>1 DEF Unlogged
    <3>4. QED
      BY <3>2, <3>3 DEF Unlogged
  <2>3. QED
    BY <2>1, <2>2
<1>6. HeapOK(t)'
  BY <1>4, <1>5 DEF HeapInv, HeapOK, Settled
<1>7. ASSUME NEW u \in Thread, u # t PROVE HeapOK(u)' /\ (Holds(u)' <=> Holds(u))
  <2>1. HeapOK(u) /\ (Holds(u) => arg[u] \in taken' \ owned')
    BY DEF HeapInv, HeapOK
  <2>2. QED
    BY <1>7, <2>1, HeapFrame DEF Settled
<1>8. HeapLogMatches'
  BY DEF HeapInv, HeapLogMatches
<1>9. QED
  BY <1>4, <1>6, <1>7, <1>8 DEF HeapInv

\* Control does not carry a block to where it would be released unlogged.
LEMMA HeapFlowStep ==
    ASSUME TypeOK, FramesInv, HeapInv, NEW t \in Thread,
           Plain(t) \/ Jump(t) \/ Call(t) \/ Ret(t) \/ End(t)
    PROVE  HeapInv'
<1>1. PICK op \in {"plain", "jump", "call", "ret", "end"} : Done(t, op)
  BY DEF Plain, Jump, Call, Ret, End
<1>2. /\ pc[t] \in Address /\ Code[pc[t]].op = op /\ at[t] = "hooks" /\ todo[t] = <<>>
      /\ at'[t] # "hooks" /\ (op # "end" => at'[t] = "fetch")
      /\ \A u \in Thread : u # t => at'[u] = at[u]
      /\ todo' = todo /\ recording' = recording /\ unfreed' = unfreed
  BY <1>1, DoneIs
<1>3. arg' = arg /\ taken' = taken /\ owned' = owned /\ lost' = lost
  BY DEF Plain, Jump, Call, Ret, End, programVars
<1>4. HeapFlow(pc[t])
  BY <1>2, HeapAssumption
<1>5. CASE Plain(t)
  <2>1. /\ pc'[t] \in Address /\ Code[pc'[t]].rtn = Code[pc[t]].rtn
        /\ \A u \in Thread : u # t => pc'[u] = pc[u]
    BY <1>5, MoveIs DEF MoveStep
  <2>2. Code[pc[t]].op = "plain" /\ pc[t] + 1 \in Address
    BY <1>5, DoneIs, CodeIs DEF Plain
  <2>3. pc'[t] = pc[t] + 1
    BY <1>5, <2>2, GotoIs DEF Plain
  <2>4. Passes(Code[pc[t]].holds, Code[pc'[t]].holds)
    BY <1>4, <2>2, <2>3 DEF HeapFlow
  <2>5. QED
    BY <1>2, <1>3, <2>1, <2>2, <2>4, HeapPassStep
<1>6. CASE Jump(t) \/ Call(t)
  <2>1. Code[pc[t]].op \in {"jump", "call"} /\ at'[t] = "fetch"
    BY <1>6, DoneIs DEF Jump, Call
  <2>2. /\ pc'[t] \in Code[pc[t]].to /\ pc'[t] \in Address
        /\ \A u \in Thread : u # t => pc'[u] = pc[u]
    BY <1>6, JumpIs, CallIs
  <2>3. Passes(Code[pc[t]].holds, Code[pc'[t]].holds)
    BY <1>4, <2>1, <2>2 DEF HeapFlow
  <2>4. \/ Code[pc'[t]].rtn = Code[pc[t]].rtn /\ Code[pc[t]].op # "ret"
        \/ Code[pc'[t]].rtn \in {"malloc", "free"} => pc'[t] = First(Code[pc'[t]].rtn)
    <3>1. Enters(pc[t], pc'[t]) \/ Code[pc'[t]].rtn = Code[pc[t]].rtn
      BY <2>1, <2>2 DEF Enters
    <3>2. QED
      BY <1>2, <2>1, <2>2, <3>1, FlowAssumption
  <2>5. QED
    BY <1>2, <1>3, <2>1, <2>2, <2>3, <2>4, HeapPassStep
<1>7. CASE Ret(t)
  <2>1. PICK n \in Nat \ {0} : n = Len(frames[t]) /\ n > 1
    BY <1>7, FramesAre, RetIs
  <2>2. n \in 2 .. Len(frames[t]) /\ Pos(t, n) = pc[t]
    BY <2>1 DEF Pos
  <2>3. pc'[t] = frames[t][n].back /\ \A u \in Thread : u # t => pc'[u] = pc[u]
    BY <1>7, <2>1, RetIs
  <2>4. IsReturn(pc'[t]) /\ Passes(Code[pc[t]].gives, Code[pc'[t]].holds)
    BY <2>2, <2>3 DEF FramesInv, FramesOK
  <2>5. pc'[t] \in Address /\ Code[pc'[t]].rtn \notin {"malloc", "free"}
    BY <2>4, ReturnIs
  <2>6. Passes(Code[pc[t]].holds, Code[pc[t]].gives)
    <3>1. Code[pc[t]].op = "ret"
      BY <1>7, DoneIs DEF Ret
    <3>2. QED
      BY <1>4, <3>1 DEF HeapFlow
  <2>7. Passes(Code[pc[t]].holds, Code[pc'[t]].holds)
    BY <2>4, <2>6 DEF Passes
  <2>8. QED
    BY <1>2, <1>3, <2>3, <2>5, <2>7, HeapPassStep
<1>8. CASE End(t)
  <2>1. pc' = pc /\ Code[pc[t]].op = "end"
    BY <1>8, DoneIs DEF End, programVars
  <2>2. Passes(Code[pc[t]].holds, Code[pc'[t]].holds)
    BY <2>1 DEF Passes
  <2>3. QED
    BY <1>2, <1>3, <2>1, <2>2, HeapPassStep
<1>9. QED
  BY <1>5, <1>6, <1>7, <1>8

\* What malloc, free and the program around them do to the blocks.
LEMMA HeapBlockStep ==
    ASSUME TypeOK, TypeOK', HeapInv, NEW t \in Thread,
           Alloc(t) \/ Release(t) \/ Resize(t) \/ Keep(t) \/ Pick(t)
    PROVE  HeapInv'
<1>1. PICK op \in {"alloc", "release", "resize", "keep", "pick"} : Done(t, op)
  BY DEF Alloc, Release, Resize, Keep, Pick
<1>2. /\ pc[t] \in Address /\ Code[pc[t]].op = op /\ at[t] = "hooks" /\ todo[t] = <<>>
      /\ at'[t] = "fetch" /\ \A u \in Thread : u # t => at'[u] = at[u]
      /\ todo' = todo /\ recording' = recording /\ unfreed' = unfreed
  BY <1>1, DoneIs
<1>3. HeapFlow(pc[t]) /\ pc[t] + 1 \in Address /\ Code[pc[t] + 1].rtn = Code[pc[t]].rtn
  BY <1>2, CodeIs, HeapAssumption
<1>4. pc'[t] \in Address /\ Code[pc'[t]].rtn = Code[pc[t]].rtn /\ \A u \in Thread : u # t => pc'[u] = pc[u]
  BY MoveIs DEF MoveStep
<1>5. Goto(t, pc[t] + 1) => pc'[t] = pc[t] + 1
  BY <1>3, GotoIs
<1>6. ~Freeing(t) /\ (op # "ret" => ~Returned(t))
  <2>1. Len(todo[t]) = 0
    BY <1>2
  <2>2. QED
    BY <1>2, <2>1 DEF Freeing, Returned, Has
<1>7. arg[t] \in Block \cup {NoBlock} /\ NoBlock \notin Block /\ owned \subseteq Block /\ taken \subseteq Block
  BY CodeAssumption DEF TypeOK
<1>14. /\ unfreed \in [Block -> Nat] /\ lost \in [Block -> Nat]
       /\ unfreed' \in [Block -> Nat] /\ lost' \in [Block -> Nat]
  BY DEF TypeOK
<1>15. \A b \in Block : /\ b \notin taken => Settled(b)
                        /\ b \in taken => unfreed[b] <= lost[b] + 1
  BY <1>14, LogMatchesIs DEF HeapInv
<1>16. ASSUME \A b \in Block : /\ b \notin taken' => Settled(b)'
                               /\ b \in taken' => unfreed'[b] <= lost'[b] + 1
       PROVE  HeapLogMatches'
  <2>1. ASSUME NEW b \in Block PROVE unfreed'[b] <= lost'[b] + (IF b \in taken' THEN 1 ELSE 0)
    <3>1. CASE b \in taken'
      BY <1>16, <3>1
    <3>2. CASE b \notin taken'
      <4>1. unfreed'[b] <= lost'[b] /\ lost'[b] \in Nat
        BY <1>14, <1>16, <3>2 DEF Settled
      <4>2. lost'[b] + 0 = lost'[b]
        BY <4>1
      <4>3. QED
        BY <3>2, <4>1, <4>2
    <3>3. QED
      BY <3>1, <3>2
  <2>2. QED
    BY <2>1 DEF HeapLogMatches
<1>17. \A b \in Block : lost'[b] = lost[b] => (Settled(b)' <=> Settled(b))
  BY <1>2 DEF Settled
<1>8. ASSUME NEW u \in Thread, u # t, arg'[u] = arg[u], Holds(u) => lost'[arg[u]] = lost[arg[u]],
             Holds(u) => arg[u] \in taken' \ owned'
      PROVE  HeapOK(u)' /\ (Holds(u)' <=> Holds(u))
  BY <1>2, <1>4, <1>8, HeapFrame DEF HeapInv, Settled
<1>18. \A u \in Thread : /\ Holds(u) => arg[u] \in taken \ owned /\ arg[u] # NoBlock
                         /\ u # t /\ Holds(t) /\ Holds(u) => arg[u] # arg[t]
  BY DEF HeapInv, HeapOK, Holds
<1>9. CASE Alloc(t)
  <2>1. PICK b \in (Block \ taken) \cup {NoBlock} :
           /\ arg' = [arg EXCEPT ![t] = b] /\ taken' = taken \cup ({b} \ {NoBlock})
           /\ owned' = owned /\ lost' = lost
    BY <1>9 DEF Alloc
  <2>2. arg'[t] = b /\ \A u \in Thread : u # t => arg'[u] = arg[u]
    BY <2>1 DEF TypeOK
  <2>3. pc'[t] = pc[t] + 1 /\ Code[pc[t]].op = "alloc"
    BY <1>5, <1>9, DoneIs DEF Alloc
  <2>4. Code[pc'[t]].holds # "old"
    BY <1>3, <2>3 DEF HeapFlow
  <2>5. b # NoBlock => b \in taken' \ owned' /\ Settled(b)'
    BY <1>15, <1>17, <2>1 DEF HeapInv
  <2>6. HeapOK(t)'
    <3>1. Holds(t)' => b # NoBlock
      BY <2>2 DEF Holds
    <3>2. Settled(arg[t])' <=> Settled(b)'
      BY <2>2 DEF Settled
    <3>3. QED
      BY <2>2, <2>5, <3>1, <3>2 DEF HeapOK
  <2>7. ASSUME NEW u \in Thread, u # t
        PROVE  HeapOK(u)' /\ (Holds(u)' <=> Holds(u)) /\ (Holds(u) => arg'[u] = arg[u] /\ arg[u] # b)
    <3>1. Holds(u) => arg[u] \in taken \ owned
      BY DEF HeapInv, HeapOK
    <3>2. QED
      BY <1>7, <1>8, <2>1, <2>2, <2>7, <3>1
  <2>8. HeapLogMatches'
    <3>1. ASSUME NEW c \in Block PROVE unfreed'[c] <= lost'[c] + 1
      <4>1. c \in taken \/ Settled(c)
        BY <1>15
      <4>2. QED
        BY <1>2, <1>14, <1>15, <2>1, <4>1 DEF Settled
    <3>2. \A c \in Block : c \notin taken' => Settled(c)'
      BY <1>15, <1>17, <2>1
    <3>3. QED
      BY <1>16, <3>1, <3>2
  <2>9. owned' \subseteq taken'
    BY <2>1 DEF HeapInv
  <2>10. QED
    BY <1>2, <2>2, <2>6, <2>7, <2>8, <2>9 DEF HeapInv
<1>10. CASE Release(t)
  <2>1. taken' = taken \ {arg[t]} /\ owned' = owned /\ arg' = arg /\ lost' = lost
    BY <1>10 DEF Release
  <2>2. pc'[t] = pc[t] + 1 /\ Code[pc[t]].op = "release"
    BY <1>5, <1>10, DoneIs DEF Release
  <2>3. Code[pc[t]].rtn = "free" /\ Code[pc[t]].holds = "old" /\ Code[pc'[t]].holds = "nothing"
    BY <1>3, <2>2 DEF HeapFlow
  <2>4. ~Holds(t)' /\ (arg[t] # NoBlock => Holds(t)) /\ Unlogged(t)
    BY <1>6, <2>3 DEF Holds, Unlogged
  <2>5. HeapOK(t)'
    BY <2>4 DEF HeapOK
  <2>6. arg[t] # NoBlock => arg[t] \notin owned /\ Settled(arg[t])
    BY <2>4 DEF HeapInv, HeapOK
  <2>7. ASSUME NEW u \in Thread, u # t PROVE HeapOK(u)' /\ (Holds(u)' <=> Holds(u))
    <3>1. Holds(u) => arg[u] \in taken \ owned /\ arg[u] # NoBlock
      BY DEF HeapInv, HeapOK, Holds
    <3>2. Holds(u) => arg[u] # arg[t]
      BY <2>4, <2>7, <3>1 DEF HeapInv
    <3>3. QED
      BY <1>8, <2>1, <2>7, <3>1, <3>2
  <2>8. HeapLogMatches'
    <3>1. \A c \in Block : c \notin taken' => Settled(c)'
      BY <1>7, <1>15, <1>17, <2>1, <2>6
    <3>2. \A c \in Block : c \in taken' => unfreed'[c] <= lost'[c] + 1
      BY <1>2, <1>15, <2>1
    <3>3. QED
      BY <1>16, <3>1, <3>2
  <2>9. owned' \subseteq taken'
    BY <1>7, <2>1, <2>6 DEF HeapInv
  <2>10. QED
    BY <1>2, <2>1, <2>4, <2>5, <2>7, <2>8, <2>9 DEF HeapInv
<1>11. CASE Keep(t)
  <2>1. owned' = owned \cup ({arg[t]} \ {NoBlock}) /\ taken' = taken /\ arg' = arg /\ lost' = lost
    BY <1>11 DEF Keep
  <2>2. pc'[t] = pc[t] + 1 /\ Code[pc[t]].op = "keep"
    BY <1>5, <1>11, DoneIs DEF Keep
  <2>3. Code[pc[t]].holds = "new" /\ Code[pc'[t]].holds = "nothing"
    BY <1>3, <2>2 DEF HeapFlow
  <2>4. ~Holds(t)' /\ (arg[t] # NoBlock => Holds(t))
    BY <2>3 DEF Holds
  <2>5. HeapOK(t)'
    BY <2>4 DEF HeapOK
  <2>6. arg[t] # NoBlock => arg[t] \in taken
    BY <2>4 DEF HeapInv, HeapOK
  <2>7. ASSUME NEW u \in Thread, u # t PROVE HeapOK(u)' /\ (Holds(u)' <=> Holds(u))
    <3>1. Holds(u) => arg[u] \in taken \ owned /\ arg[u] # NoBlock
      BY DEF HeapInv, HeapOK, Holds
    <3>2. Holds(u) => arg[u] # arg[t]
      BY <2>4, <2>7, <3>1 DEF HeapInv
    <3>3. QED
      BY <1>8, <2>1, <2>7, <3>1, <3>2
  <2>8. HeapLogMatches' /\ owned' \subseteq taken'
    <3>1. HeapLogMatches'
      BY <1>2, <1>15, <1>16, <1>17, <2>1
    <3>2. QED
      BY <2>1, <2>6, <3>1 DEF HeapInv
  <2>9. QED
    BY <1>2, <2>1, <2>4, <2>5, <2>7, <2>8 DEF HeapInv
<1>19. CASE Resize(t)
  <2>1. pc'[t] = pc[t] + 1 /\ Code[pc[t]].op = "resize"
    BY <1>5, <1>19, DoneIs DEF Resize
  <2>2. Code[pc[t]].rtn = "realloc" /\ Code[pc[t]].holds = "old" /\ Code[pc'[t]].holds # "old"
    BY <1>3, <2>1 DEF HeapFlow
  <2>3. (arg[t] # NoBlock => Holds(t)) /\ ~Unlogged(t)'
    BY <1>4, <2>2 DEF Holds, Unlogged
  <2>4. CASE UNCHANGED <<taken, owned, arg, lost>>
    <3>1. Holds(t)' => Holds(t)
      BY <2>3, <2>4 DEF Holds
    <3>2. HeapOK(t)'
      BY <1>18, <2>3, <2>4, <3>1 DEF HeapOK
    <3>3. ASSUME NEW u \in Thread, u # t PROVE HeapOK(u)' /\ (Holds(u)' <=> Holds(u))
      BY <1>8, <1>18, <2>4, <3>3
    <3>4. HeapLogMatches'
      BY <1>2, <1>15, <1>16, <1>17, <2>4
    <3>5. QED
      BY <1>2, <2>4, <3>1, <3>2, <3>3, <3>4 DEF HeapInv
  <2>5. CASE \E b \in (Block \ taken) \cup {NoBlock} :
               /\ arg' = [arg EXCEPT ![t] = b]
               /\ taken' = (taken \ {arg[t]}) \cup ({b} \ {NoBlock})
               /\ lost' = [lost EXCEPT ![arg[t]] = lost[arg[t]] + 1]
               /\ owned' = owned
    <3>1. PICK b \in (Block \ taken) \cup {NoBlock} :
               /\ arg' = [arg EXCEPT ![t] = b]
               /\ taken' = (taken \ {arg[t]}) \cup ({b} \ {NoBlock})
               /\ lost' = [lost EXCEPT ![arg[t]] = lost[arg[t]] + 1]
               /\ owned' = owned
      BY <2>5
    <3>2. arg'[t] = b /\ \A u \in Thread : u # t => arg'[u] = arg[u]
      BY <3>1 DEF TypeOK
    <3>3. PICK old : old = arg[t]
      OBVIOUS
    <3>4. /\ old \in Block => lost'[old] = lost[old] + 1
          /\ \A c \in Block : c # old => lost'[c] = lost[c]
      BY <1>14, <3>1, <3>3
    <3>5. old # NoBlock => Holds(t) /\ old \in Block /\ old \in taken \ owned
      BY <1>7, <1>18, <2>3, <3>3
    <3>6. Holds(t)' => b # NoBlock
      BY <3>2 DEF Holds
    <3>7. HeapOK(t)'
      <4>1. b # NoBlock => b \in taken' \ owned'
        BY <3>1 DEF HeapInv
      <4>2. QED
        BY <2>3, <3>2, <3>6, <4>1 DEF HeapOK
    <3>8. ASSUME NEW u \in Thread, u # t
          PROVE  HeapOK(u)' /\ (Holds(u)' <=> Holds(u)) /\ (Holds(u) => arg'[u] = arg[u] /\ arg[u] # b)
      <4>1. Holds(u) => arg[u] \in taken \ owned /\ arg[u] # NoBlock /\ arg[u] # old
        BY <1>18, <3>3, <3>5, <3>8
      <4>2. Holds(u) => arg[u] # b /\ lost'[arg[u]] = lost[arg[u]]
        BY <1>7, <3>1, <3>4, <4>1
      <4>3. Holds(u) => arg[u] \in taken' \ owned'
        BY <3>1, <3>3, <4>1
      <4>4. QED
        BY <1>8, <3>2, <3>8, <4>2, <4>3
    <3>9. HeapLogMatches'
      <4>1. ASSUME NEW c \in Block, c = old PROVE c \notin taken' /\ Settled(c)'
        <5>1. c \in taken /\ b # c
          BY <1>7, <3>1, <3>5, <4>1
        <5>2. unfreed[c] <= lost[c] + 1 /\ lost'[c] = lost[c] + 1
          BY <1>15, <3>4, <4>1, <5>1
        <5>3. QED
          BY <1>2, <3>1, <3>3, <4>1, <5>1, <5>2 DEF Settled
      <4>2. ASSUME NEW c \in Block, c # old
            PROVE  /\ c \notin taken' => Settled(c)'
                   /\ c \in taken' => unfreed'[c] <= lost'[c] + 1
        <5>1. lost'[c] = lost[c] /\ unfreed'[c] = unfreed[c] /\ unfreed[c] \in Nat /\ lost[c] \in Nat
          BY <1>2, <1>14, <3>4, <4>2
        <5>2. Settled(c) \/ c \in taken
          BY <1>15
        <5>3. unfreed[c] <= lost[c] + 1
          BY <1>15, <5>1, <5>2 DEF Settled
        <5>4. c \notin taken' => c \notin taken
          BY <3>1, <3>3, <4>2
        <5>5. QED
          BY <1>15, <1>17, <5>1, <5>3, <5>4
      <4>3. QED
        BY <1>16, <4>1, <4>2
    <3>10. owned' \subseteq taken'
      BY <3>1, <3>3, <3>5, <1>7 DEF HeapInv
    <3>11. QED
      BY <1>2, <3>2, <3>7, <3>8, <3>9, <3>10 DEF HeapInv
  <2>6. CASE /\ arg' = [arg EXCEPT ![t] = NoBlock]
             /\ owned' = owned \cup ({arg[t]} \ {NoBlock})
             /\ taken' = taken /\ lost' = lost
    <3>1. arg'[t] = NoBlock /\ \A u \in Thread : u # t => arg'[u] = arg[u]
      BY <2>6 DEF TypeOK
    <3>2. ~Holds(t)'
      BY <3>1 DEF Holds
    <3>3. HeapOK(t)'
      BY <3>2 DEF HeapOK
    <3>4. ASSUME NEW u \in Thread, u # t PROVE HeapOK(u)' /\ (Holds(u)' <=> Holds(u))
      <4>1. Holds(u) => arg[u] # arg[t]
        BY <1>18, <2>3, <3>4
      <4>2. Holds(u) => arg[u] \in taken' \ owned'
        BY <1>18, <2>6, <4>1
      <4>3. QED
        BY <1>8, <2>6, <3>1, <3>4, <4>2
    <3>5. HeapLogMatches'
      BY <1>2, <1>15, <1>16, <1>17, <2>6
    <3>6. owned' \subseteq taken'
      BY <1>18, <2>3, <2>6 DEF HeapInv
    <3>7. QED
      BY <1>2, <3>1, <3>2, <3>3, <3>4, <3>5, <3>6 DEF HeapInv
  <2>7. QED
    BY <1>19, <2>4, <2>5, <2>6 DEF Resize
<1>12. CASE Pick(t)
  <2>1. Code[pc[t]].op = "pick" /\ taken' = taken /\ lost' = lost
    BY <1>12, DoneIs DEF Pick
  <2>2. Code[pc[t] + 1].holds # "new" /\ Code[pc[t]].rtn # "free"
    BY <1>2, <1>3, <2>1, HeapAssumption DEF HeapFlow
  <2>3. CASE \E b \in owned : arg' = [arg EXCEPT ![t] = b] /\ owned' = owned \ {b} /\ Goto(t, pc[t] + 1)
    <3>1. PICK b \in owned : arg' = [arg EXCEPT ![t] = b] /\ owned' = owned \ {b} /\ Goto(t, pc[t] + 1)
      BY <2>3
    <3>2. arg'[t] = b /\ \A u \in Thread : u # t => arg'[u] = arg[u]
      BY <3>1 DEF TypeOK
    <3>3. Code[pc'[t]].holds # "new" /\ Code[pc'[t]].rtn # "free"
      BY <1>4, <1>5, <2>2, <3>1
    <3>4. HeapOK(t)'
      BY <2>1, <3>1, <3>2, <3>3 DEF HeapInv, HeapOK, Unlogged
    <3>5. ASSUME NEW u \in Thread, u # t
          PROVE  HeapOK(u)' /\ (Holds(u)' <=> Holds(u)) /\ (Holds(u) => arg'[u] = arg[u] /\ arg[u] # b)
      <4>1. Holds(u) => arg[u] \in taken \ owned
        BY DEF HeapInv, HeapOK
      <4>2. QED
        BY <1>8, <2>1, <3>1, <3>2, <3>5, <4>1
    <3>6. HeapLogMatches' /\ owned' \subseteq taken'
      <4>1. HeapLogMatches'
        BY <1>2, <1>15, <1>16, <1>17, <2>1
      <4>2. QED
        BY <2>1, <3>1, <4>1 DEF HeapInv
    <3>7. QED
      BY <1>2, <3>2, <3>4, <3>5, <3>6 DEF HeapInv
  <2>4. CASE (\E a \in Code[pc[t]].to : Goto(t, a)) /\ owned' = owned /\ arg' = arg
    <3>1. PICK a \in Code[pc[t]].to : Goto(t, a)
      BY <2>4
    <3>2. pc'[t] = a /\ Code[a].holds = "nothing"
      BY <1>2, <1>3, <2>1, <3>1, CodeIs, GotoIs DEF HeapFlow
    <3>3. Passes(Code[pc[t]].holds, Code[pc'[t]].holds)
      BY <3>2 DEF Passes
    <3>4. QED
      BY <1>2, <1>4, <2>1, <2>4, <3>3, HeapPassStep
  <2>5. QED
    BY <1>12, <2>3, <2>4 DEF Pick
<1>13. QED
  BY <1>9, <1>10, <1>11, <1>12, <1>19

\* The hook at the end of malloc is there once.
LEMMA MallocHeadIs ==
    ASSUME NEW s \in Seq(Hooks), s # <<>>, NEW a, Ordered(a, s), Head(s).fn = "mallocAfter"
    PROVE  /\ Code[a].op = "ret" /\ Code[a].rtn = "malloc"
           /\ ~Has(Tail(s), "mallocAfter")
<1>1. Len(s) \in Nat \ {0} /\ Head(s) = s[1] /\ 1 \in 1 .. Len(s)
  OBVIOUS
<1>2. ASSUME NEW i \in 1 .. Len(s), s[i].fn = "mallocAfter" PROVE i = 1
  <2>1. \A j \in 1 .. i - 1 : s[j].fn = "mallocBefore"
    BY <1>2 DEF Ordered
  <2>2. QED
    BY <1>1, <1>2, <2>1
<1>3. \A i \in 1 .. Len(s) - 1 : Tail(s)[i] = s[i + 1] /\ i + 1 \in 1 .. Len(s) /\ i + 1 # 1
  BY <1>1
<1>4. Len(Tail(s)) = Len(s) - 1
  OBVIOUS
<1>5. ~Has(Tail(s), "mallocAfter")
  BY <1>2, <1>3, <1>4 DEF Has
<1>6. QED
  BY <1>1, <1>5 DEF Ordered

\* malloc is recorded when its block is held, free before it is released.
LEMMA HeapHookStep ==
    ASSUME TypeOK, TypeOK', TodoInv, HeapInv, NEW t \in Thread, HookStep(t)
    PROVE  HeapInv'
<1>1. /\ NextHook(t) /\ at[t] = "hooks" /\ at' = at /\ pc' = pc
      /\ taken' = taken /\ owned' = owned /\ arg' = arg
      /\ recording # "off" => recording' # "off"
  BY HookIs
<1>2. /\ todo[t] \in Seq(Hooks) /\ todo[t] # <<>> /\ todo'[t] = Tail(todo[t])
      /\ \A u \in Thread : u # t => todo'[u] = todo[u]
  BY <1>1, NextHookIs
<1>3. Ordered(pc[t], todo[t])
  BY <1>1 DEF TodoInv
<1>4. \A u \in Thread : Holds(u)' <=> Holds(u)
  BY <1>1 DEF Holds
<1>5. /\ unfreed \in [Block -> Nat] /\ arg[t] \in Block \cup {NoBlock} /\ NoBlock \notin Block
      /\ taken \subseteq Block /\ lost \in [Block -> Nat]
      /\ unfreed' \in [Block -> Nat] /\ lost' \in [Block -> Nat]
  BY CodeAssumption DEF TypeOK
<1>9. \A b \in Block : /\ b \notin taken => Settled(b)
                       /\ b \in taken => unfreed[b] <= lost[b] + 1
  BY <1>5, LogMatchesIs DEF HeapInv
<1>10. ASSUME \A b \in Block : /\ b \notin taken' => Settled(b)'
                               /\ b \in taken' => unfreed'[b] <= lost'[b] + 1
       PROVE  HeapLogMatches'
  <2>1. ASSUME NEW b \in Block PROVE unfreed'[b] <= lost'[b] + (IF b \in taken' THEN 1 ELSE 0)
    <3>1. CASE b \in taken'
      BY <1>10, <3>1
    <3>2. CASE b \notin taken'
      <4>1. unfreed'[b] <= lost'[b] /\ lost'[b] \in Nat
        BY <1>5, <1>10, <3>2 DEF Settled
      <4>2. lost'[b] + 0 = lost'[b]
        BY <4>1
      <4>3. QED
        BY <3>2, <4>1, <4>2
    <3>3. QED
      BY <3>1, <3>2
  <2>2. QED
    BY <2>1 DEF HeapLogMatches
<1>6. CASE MallocAfter(t) /\ unfreed' # unfreed
  <2>1. /\ Head(todo[t]).fn = "mallocAfter" /\ arg[t] # NoBlock /\ recording' = recording
        /\ recording # "off" /\ unfreed' = [unfreed EXCEPT ![arg[t]] = unfreed[arg[t]] + 1]
        /\ lost' = lost
    BY <1>6 DEF MallocAfter, RunHook
  <2>2. /\ Code[pc[t]].op = "ret" /\ Code[pc[t]].rtn = "malloc"
        /\ Has(todo[t], "mallocAfter") /\ ~Has(todo'[t], "mallocAfter")
    BY <1>2, <1>3, <2>1, MallocHeadIs, HasTail
  <2>3. pc[t] \in Address /\ Code[pc[t]].holds = "new"
    BY <2>2, HeapAssumption DEF TypeOK
  <2>4. Holds(t) /\ Unlogged(t)
    BY <2>1, <2>2, <2>3 DEF Holds, Unlogged, Returned
  <2>5. arg[t] \in taken \ owned /\ Settled(arg[t])
    BY <2>4 DEF HeapInv, HeapOK
  <2>6. /\ unfreed'[arg[t]] = unfreed[arg[t]] + 1
        /\ \A b \in Block : b # arg[t] => unfreed'[b] = unfreed[b]
    BY <1>5, <2>1, <2>5
  <2>7. ~Unlogged(t)'
    BY <1>1, <2>2, <2>3 DEF Unlogged, Returned
  <2>8. HeapOK(t)'
    BY <1>1, <2>5, <2>7 DEF HeapOK
  <2>9. ASSUME NEW u \in Thread, u # t PROVE HeapOK(u)'
    <3>1. HeapOK(u) /\ (Holds(u) => arg[u] # arg[t])
      BY <2>4, <2>9 DEF HeapInv
    <3>2. Holds(u) => arg[u] \in taken \ owned /\ unfreed'[arg[u]] = unfreed[arg[u]]
      BY <1>5, <2>6, <3>1 DEF HeapOK
    <3>3. Holds(u) => (Settled(arg[u]) => unfreed'[arg[u]] <= lost'[arg[u]])
      BY <2>1, <3>2 DEF Settled
    <3>4. QED
      BY <1>1, <1>2, <2>9, <3>1, <3>2, <3>3, HeapFrame
  <2>10. HeapLogMatches'
    <3>1. ASSUME NEW c \in Block, c = arg[t]
          PROVE  c \in taken' /\ unfreed'[c] <= lost'[c] + 1
      <4>1. unfreed[c] \in Nat /\ lost[c] \in Nat /\ unfreed[c] <= lost[c] /\ unfreed'[c] = unfreed[c] + 1
        BY <1>5, <2>5, <2>6, <3>1 DEF Settled
      <4>2. QED
        BY <1>1, <2>1, <2>5, <3>1, <4>1
    <3>2. ASSUME NEW c \in Block, c # arg[t]
          PROVE  /\ c \notin taken' => Settled(c)'
                 /\ c \in taken' => unfreed'[c] <= lost'[c] + 1
      BY <1>1, <1>9, <2>1, <2>6, <3>2 DEF Settled
    <3>3. QED
      BY <1>10, <3>1, <3>2
  <2>11. QED
    BY <1>1, <1>4, <2>1, <2>8, <2>9, <2>10 DEF HeapInv
<1>7. CASE ~(MallocAfter(t) /\ unfreed' # unfreed)
  <2>1. \A b \in Block : \/ unfreed'[b] = 0
                         \/ unfreed'[b] = unfreed[b] /\ lost'[b] = lost[b]
    <3>1. CASE FreeBefore(t)
      <4>1. \/ unfreed' = unfreed /\ lost' = lost
            \/ /\ unfreed' = [unfreed EXCEPT ![arg[t]] = 0]
               /\ lost' = [lost EXCEPT ![arg[t]] = 0]
        BY <3>1 DEF FreeBefore
      <4>2. PICK old : old = arg[t]
        OBVIOUS
      <4>3. CASE unfreed' = [unfreed EXCEPT ![old] = 0] /\ lost' = [lost EXCEPT ![old] = 0]
        <5>1. \A b \in Block : unfreed'[b] = IF b = old THEN 0 ELSE unfreed[b]
          BY <1>5, <4>3
        <5>2. \A b \in Block : b # old => lost'[b] = lost[b]
          BY <1>5, <4>3
        <5>3. QED
          BY <5>1, <5>2
      <4>4. QED
        BY <4>1, <4>2, <4>3
    <3>2. CASE ~FreeBefore(t)
      <4>1. unfreed' = unfreed /\ lost' = lost
        BY <1>7, <3>2 DEF HookStep, SkipHook, RoutineEnter, RoutineExit, MemoryAccess,
                          MallocBefore, MallocAfter, logVars
      <4>2. QED
        BY <4>1
    <3>3. QED
      BY <3>1, <3>2
  <2>8. \A b \in Block : /\ unfreed'[b] = 0 => Settled(b)'
                         /\ Settled(b) => Settled(b)'
    <3>1. \A b \in Block : unfreed'[b] \in Nat /\ lost'[b] \in Nat
      BY <1>5
    <3>2. QED
      BY <2>1, <3>1 DEF Settled
  <2>2. ASSUME Holds(t), Unlogged(t)' PROVE unfreed'[arg[t]] <= lost'[arg[t]]
    <3>1. arg[t] \in Block
      BY <1>5, <2>2 DEF Holds
    <3>2. CASE FreeBefore(t) /\ recording # "off"
      <4>1. unfreed'[arg[t]] = 0
        BY <1>5, <3>1, <3>2 DEF FreeBefore
      <4>2. QED
        BY <2>8, <3>1, <4>1 DEF Settled
    <3>3. CASE recording = "off"
      <4>1. unfreed'[arg[t]] = 0
        BY <2>1, <3>1, <3>3 DEF HeapInv
      <4>2. QED
        BY <2>8, <3>1, <4>1 DEF Settled
    <3>4. CASE ~FreeBefore(t)
      <4>1. Head(todo[t]).fn # "freeBefore"
        <5>1. CASE SkipHook(t)
          <6>1. Len(todo[t]) \in Nat \ {0} /\ Head(todo[t]) = todo[t][1] /\ 1 \in 1 .. Len(todo[t])
            BY <1>2
          <6>2. QED
            BY <1>3, <5>1, <6>1 DEF Ordered, SkipHook
        <5>2. QED
          BY <3>4, <5>1 DEF HookStep, RoutineEnter, RoutineExit, MemoryAccess, MallocBefore,
                            MallocAfter, RunHook
      <4>2. Freeing(t)' <=> Freeing(t)
        BY <1>1, <1>2, <4>1, HasTail DEF Freeing
      <4>3. Returned(t) => Returned(t)'
        BY <1>1, <1>2, HasTail DEF Returned
      <4>4. Unlogged(t)
        BY <1>1, <2>2, <4>2, <4>3 DEF Unlogged
      <4>5. QED
        BY <2>2, <2>8, <3>1, <4>4 DEF HeapInv, HeapOK, Settled
    <3>5. QED
      BY <3>2, <3>3, <3>4
  <2>3. HeapOK(t)'
    BY <1>1, <1>4, <2>2 DEF HeapInv, HeapOK, Settled
  <2>4. ASSUME NEW u \in Thread, u # t PROVE HeapOK(u)'
    <3>1. HeapOK(u) /\ (Holds(u) => arg[u] \in taken' \ owned' /\ arg[u] \in Block)
      BY <1>1, <1>5 DEF HeapInv, HeapOK
    <3>2. Holds(u) => (Settled(arg[u]) => unfreed'[arg[u]] <= lost'[arg[u]])
      BY <2>8, <3>1 DEF Settled
    <3>3. QED
      BY <1>1, <1>2, <2>4, <3>1, <3>2, HeapFrame
  <2>5. HeapLogMatches'
    <3>1. ASSUME NEW c \in Block, unfreed'[c] = 0
          PROVE  Settled(c)' /\ unfreed'[c] <= lost'[c] + 1
      <4>1. lost'[c] \in Nat
        BY <1>5
      <4>2. QED
        BY <3>1, <4>1 DEF Settled
    <3>2. QED
      BY <1>1, <1>9, <1>10, <2>1, <2>8, <3>1
  <2>6. recording' = "off" => \A b \in Block : unfreed'[b] = 0
    BY <1>1, <2>1 DEF HeapInv
  <2>7. QED
    BY <1>1, <1>4, <2>3, <2>4, <2>5, <2>6 DEF HeapInv
<1>8. QED
  BY <1>6, <1>7

\* At the first instruction of free its hook is among those to run.
LEMMA HeapFetchStep ==
    ASSUME AccessInv, HeapInv, NEW t \in Thread, Fetch(t)
    PROVE  HeapInv'
<1>1. TypeOK /\ HooksInv /\ pc[t] \in Address
  BY DEF AccessInv, TypeOK
<1>2. /\ at[t] = "fetch" /\ at'[t] = "hooks" /\ recording' = recording /\ pc' = pc
      /\ taken' = taken /\ owned' = owned /\ arg' = arg /\ unfreed' = unfreed /\ lost' = lost
      /\ \A u \in Thread : u # t => todo'[u] = todo[u] /\ at'[u] = at[u]
  BY <1>1, FetchIs DEF Fetch
<1>3. Complete(pc[t], todo'[t])
  <2>1. hooks[pc[t]] = ImageHooks(pc[t])
    BY <1>1, FetchIs DEF HooksInv
  <2>2. PICK nextValid : todo'[t] = hooks[pc[t]] \o InstrumentInstruction(pc[t], nextValid)
    BY <1>1, FetchIs
  <2>3. QED
    BY <1>1, <2>1, <2>2, AllHooksAre DEF AllHooks
<1>4. Unlogged(t)' => Unlogged(t)
  BY <1>2, <1>3 DEF Unlogged, Returned, Freeing, Complete
<1>5. \A u \in Thread : Holds(u)' <=> Holds(u)
  BY <1>2 DEF Holds
<1>6. HeapOK(t)'
  BY <1>2, <1>4, <1>5 DEF HeapInv, HeapOK, Settled
<1>7. ASSUME NEW u \in Thread, u # t PROVE HeapOK(u)'
  <2>1. HeapOK(u) /\ (Holds(u) => arg[u] \in taken' \ owned')
    BY <1>2 DEF HeapInv, HeapOK
  <2>2. QED
    BY <1>2, <1>7, <2>1, HeapFrame DEF Settled
<1>8. HeapLogMatches'
  BY <1>2 DEF HeapInv, HeapLogMatches
<1>9. QED
  BY <1>2, <1>5, <1>6, <1>7, <1>8 DEF HeapInv

\* The invariant is inductive, with those it rests on.
LEMMA HeapStep == AccessInv /\ FramesInv /\ HeapInv /\ [Next]_vars => HeapInv'
<1> SUFFICES ASSUME AccessInv, FramesInv, HeapInv, [Next]_vars PROVE HeapInv'
  OBVIOUS
<1>1. TypeOK /\ TodoInv /\ TypeOK'
  BY TypeStep DEF AccessInv
<1>2. ASSUME UNCHANGED <<recording, pc, at, todo, arg, taken, owned, unfreed, lost>> PROVE HeapInv'
  <2>1. \A u \in Thread : (Holds(u)' <=> Holds(u)) /\ (Unlogged(u)' <=> Unlogged(u))
    BY <1>2 DEF Holds, Unlogged, Returned, Freeing
  <2>2. QED
    <3>1. HeapLogMatches'
      BY <1>2 DEF HeapInv, HeapLogMatches
    <3>2. \A u \in Thread : HeapOK(u)'
      BY <1>2, <2>1 DEF HeapInv, HeapOK, Settled
    <3>3. QED
      BY <1>2, <2>1, <3>1, <3>2 DEF HeapInv
<1>3. ASSUME NEW img, InstrumentImageLoad(img) PROVE HeapInv'
  BY <1>1, <1>2, <1>3, LoadIs
<1>4. ASSUME UNCHANGED vars PROVE HeapInv'
  <2>1. UNCHANGED <<recording, pc, at, todo, arg, taken, owned, unfreed, lost>>
    BY <1>4 DEF vars, programVars, logVars
  <2>2. QED
    BY <1>2, <2>1
<1>5. ASSUME NEW t \in Thread, ProgramStep(t) PROVE HeapInv'
  BY <1>1, <1>5, HeapFlowStep, HeapBlockStep DEF ProgramStep
<1>6. QED
  BY <1>1, <1>3, <1>4, <1>5, NextIs, HeapFetchStep, HeapHookStep

\* For every program that gives to free and realloc only what malloc and realloc
\* returned, and once, the log shows a block as allocated twice, or one that has been
\* given back as still allocated, only as often as realloc has released it, whichever
\* threads allocate and free it.
THEOREM HeapCorrect == Spec => []HeapLogMatches
<1>1. Init => AccessInv /\ FramesInv /\ HeapInv
  BY AccessInit, FramesInit, HeapInit
<1>2. AccessInv /\ FramesInv /\ HeapInv /\ [Next]_vars => (AccessInv /\ FramesInv /\ HeapInv)'
  BY AccessStep, FramesStep, HeapStep DEF AccessInv
<1>3. AccessInv /\ FramesInv /\ HeapInv => HeapLogMatches
  BY DEF HeapInv
<1>4. QED
  BY <1>1, <1>2, <1>3, PTL DEF Spec

=============================================================================
