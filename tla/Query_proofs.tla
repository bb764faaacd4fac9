----------------------------- MODULE Query_proofs -----------------------------
(***************************************************************************)
(* What the query program computes, for traces of any length: each figure, *)
(* group and count that is built access by access is what its definition   *)
(* over the whole trace says.                                              *)
(***************************************************************************)
EXTENDS Query, CallStack_proofs, FiniteSetTheorems, TLAPS

-----------------------------------------------------------------------------
(* Arithmetic *)

LEMMA ModSmall ==
    ASSUME NEW n \in Nat, NEW m \in Nat, n < m
    PROVE  n % m = n
  OBVIOUS

\* A ring of m places.
LEMMA ModNext ==
    ASSUME NEW n \in Nat, NEW m \in Nat \ {0}, n < m
    PROVE  (n + 1) % m = IF n + 1 = m THEN 0 ELSE n + 1
<1>1. CASE n + 1 < m
  BY <1>1
<1>2. CASE n + 1 = m
  BY <1>2
<1>3. QED
  BY <1>1, <1>2

\* Quotient and remainder, and that there is one of each only.
LEMMA QuotientIs ==
    ASSUME NEW n \in Int, NEW m \in Nat \ {0}
    PROVE  n \div m \in Int /\ n % m \in 0 .. m - 1 /\ n = m * (n \div m) + (n % m)
  OBVIOUS

LEMMA ModIs ==
    ASSUME NEW n \in Int, NEW m \in Nat \ {0}, NEW q \in Int, NEW r \in 0 .. m - 1,
           n = m * q + r
    PROVE  n % m = r
  OBVIOUS

-----------------------------------------------------------------------------
(* The sizes of the caches: that the function CacheSize, which is defined    *)
(* by recursion, exists, and that it ascends.                                *)

\* g has the sizes of the first n + 1 caches.
Sizes(g, n) == /\ g \in [0 .. n -> Nat \ {0}] /\ g[0] = 1
               /\ \A i \in 1 .. n : g[i] = 2 * g[i - 1]

LEMMA SizesExist == \A n \in Nat : \E g : Sizes(g, n)
<1> DEFINE Bad == {n \in Nat : ~\E g : Sizes(g, n)}
<1> SUFFICES ASSUME Bad # {} PROVE FALSE
  OBVIOUS
<1>1. PICK m \in Bad : \A k \in Bad : m <= k
  <2> HIDE DEF Bad
  <2> QED BY LeastExists DEF Bad
<1>2. CASE m = 0
  <2>1. Sizes([i \in 0 .. 0 |-> 1], 0)
    BY DEF Sizes
  <2>2. QED
    BY <1>1, <1>2, <2>1
<1>3. CASE m > 0
  <2>1. PICK g : Sizes(g, m - 1)
    BY <1>1, <1>3
  <2> DEFINE h == [i \in 0 .. m |-> IF i = m THEN 2 * g[m - 1] ELSE g[i]]
  <2>2. Sizes(h, m)
    BY <2>1, <1>3 DEF Sizes
  <2>3. QED
    BY <1>1, <2>2
<1>4. QED
  BY <1>1, <1>2, <1>3

LEMMA SizesUnique ==
    ASSUME NEW n \in Nat, NEW m \in Nat, NEW g, NEW h, Sizes(g, n), Sizes(h, m)
    PROVE  \A i \in Nat : i <= n /\ i <= m => g[i] = h[i]
<1> DEFINE Bad == {i \in Nat : i <= n /\ i <= m /\ g[i] # h[i]}
<1> SUFFICES ASSUME Bad # {} PROVE FALSE
  OBVIOUS
<1>1. PICK i \in Bad : \A k \in Bad : i <= k
  <2> HIDE DEF Bad
  <2> QED BY LeastExists DEF Bad
<1>2. i # 0
  BY <1>1 DEF Sizes
<1>3. g[i - 1] = h[i - 1]
  BY <1>1, <1>2
<1>4. QED
  BY <1>1, <1>2, <1>3 DEF Sizes

LEMMA CacheSizeIs ==
    Localities!CacheSize = [i \in Nat |-> IF i = 0 THEN 1 ELSE 2 * Localities!CacheSize[i - 1]]
<1> DEFINE part(n) == CHOOSE g : Sizes(g, n)
           whole == [n \in Nat |-> part(n)[n]]
<1>1. \A n \in Nat : Sizes(part(n), n)
  BY SizesExist
<1>2. whole = [i \in Nat |-> IF i = 0 THEN 1 ELSE 2 * whole[i - 1]]
  <2>1. ASSUME NEW i \in Nat PROVE whole[i] = IF i = 0 THEN 1 ELSE 2 * whole[i - 1]
    <3>1. CASE i = 0
      BY <1>1, <3>1 DEF Sizes
    <3>2. CASE i # 0
      <4> HIDE DEF part
      <4>1. part(i)[i] = 2 * part(i)[i - 1]
        BY <1>1, <3>2 DEF Sizes
      <4>2. part(i)[i - 1] = part(i - 1)[i - 1]
        BY <1>1, <3>2, SizesUnique
      <4>3. QED
        BY <4>1, <4>2, <3>2
    <3>3. QED
      BY <3>1, <3>2
  <2> HIDE DEF part
  <2>2. QED
    BY <2>1
<1>3. QED
  <2> HIDE DEF whole
  <2>1. \E g : g = [i \in Nat |-> IF i = 0 THEN 1 ELSE 2 * g[i - 1]]
    BY <1>2
  <2>2. QED
    BY <2>1 DEF Localities!CacheSize

LEMMA CacheSizesAscend ==
    \A i, j \in Nat : /\ Localities!CacheSize[i] \in Nat \ {0}
                      /\ i <= j => Localities!CacheSize[i] <= Localities!CacheSize[j]
<1> DEFINE size == Localities!CacheSize
           Bad == {j \in Nat : \/ size[j] \notin Nat \ {0}
                               \/ j # 0 /\ size[j - 1] > size[j]}
           Wrong(i) == {j \in Nat : i <= j /\ size[i] > size[j]}
<1>1. /\ size[0] = 1
      /\ \A i \in Nat \ {0} : size[i] = 2 * size[i - 1]
  BY CacheSizeIs
<1> HIDE DEF size
<1>2. Bad = {}
  <2> SUFFICES ASSUME Bad # {} PROVE FALSE
    OBVIOUS
  <2>1. PICK j \in Bad : \A k \in Bad : j <= k
    <3> HIDE DEF Bad
    <3> QED BY LeastExists DEF Bad
  <2>2. CASE j = 0
    BY <2>1, <2>2, <1>1
  <2>3. CASE j # 0
    <3>1. size[j - 1] \in Nat \ {0}
      BY <2>1, <2>3
    <3>2. QED
      BY <3>1, <2>1, <2>3, <1>1
  <2>4. QED
    BY <2>2, <2>3
<1>3. ASSUME NEW i \in Nat PROVE Wrong(i) = {}
  <2> SUFFICES ASSUME Wrong(i) # {} PROVE FALSE
    OBVIOUS
  <2>1. PICK j \in Wrong(i) : \A k \in Wrong(i) : j <= k
    <3> HIDE DEF Wrong
    <3> QED BY LeastExists DEF Wrong
  <2>2. j # i /\ j # 0
    BY <2>1, <1>2
  <2>3. size[i] <= size[j - 1] /\ size[j - 1] <= size[j]
    BY <2>1, <2>2, <1>2
  <2>4. QED
    BY <2>1, <2>3, <1>2
<1>4. QED
  BY <1>2, <1>3 DEF size

-----------------------------------------------------------------------------
(* Folds over finite sets and sums of numbers: the library defines them by   *)
(* recursive functions, which exist for a finite set.                        *)

\* g folds the numbers f[x] of every subset of S with o, in the order that c
\* chooses the elements.
Folds(g, o, base, f, c, S) ==
    g = [s \in SUBSET S |-> IF s = {} THEN base ELSE o[<<f[c[s]], g[s \ {c[s]}]>>]]

\* The same for the subsets of at most n elements.
FoldsUpTo(g, o, base, f, c, S, n) ==
    /\ g \in [{s \in SUBSET S : Cardinality(s) <= n} -> Nat]
    /\ \A s \in DOMAIN g : g[s] = IF s = {} THEN base ELSE o[<<f[c[s]], g[s \ {c[s]}]>>]

LEMMA WithoutOne ==
    ASSUME NEW S, IsFiniteSet(S), NEW s \in SUBSET S, NEW x \in s
    PROVE  /\ IsFiniteSet(s) /\ Cardinality(s) \in Nat \ {0} /\ s \ {x} \in SUBSET S
           /\ IsFiniteSet(s \ {x}) /\ Cardinality(s \ {x}) = Cardinality(s) - 1
<1>1. IsFiniteSet(s) /\ Cardinality(s) \in Nat
  BY FS_Subset, FS_CardinalityType
<1>2. IsFiniteSet(s \ {x}) /\ Cardinality(s \ {x}) = Cardinality(s) - 1
  BY <1>1, FS_RemoveElement
<1>3. Cardinality(s) # 0
  BY <1>1, FS_EmptySet
<1>4. QED
  BY <1>1, <1>2, <1>3

LEMMA FoldExists ==
    ASSUME NEW S, IsFiniteSet(S), NEW base \in Nat, NEW f, NEW c,
           NEW o \in [Nat \X Nat -> Nat],
           \A x \in S : f[x] \in Nat,
           \A s \in SUBSET S : s # {} => c[s] \in s
    PROVE  \E g \in [SUBSET S -> Nat] : Folds(g, o, base, f, c, S)
<1> DEFINE Size(n) == {s \in SUBSET S : Cardinality(s) <= n}
           Bad == {n \in Nat : ~\E g : FoldsUpTo(g, o, base, f, c, S, n)}
<1>0. ASSUME NEW s \in SUBSET S, s # {}
      PROVE  /\ c[s] \in S /\ f[c[s]] \in Nat /\ s \ {c[s]} \in SUBSET S
             /\ Cardinality(s) \in Nat \ {0} /\ Cardinality(s \ {c[s]}) = Cardinality(s) - 1
  <2>1. c[s] \in s /\ c[s] \in S
    BY <1>0
  <2>2. f[c[s]] \in Nat
    BY <2>1
  <2>3. /\ Cardinality(s) \in Nat \ {0} /\ s \ {c[s]} \in SUBSET S
        /\ Cardinality(s \ {c[s]}) = Cardinality(s) - 1
    <3> DEFINE x == c[s]
    <3>1. x \in s
      BY <2>1
    <3> HIDE DEF x
    <3>2. /\ Cardinality(s) \in Nat \ {0} /\ s \ {x} \in SUBSET S
          /\ Cardinality(s \ {x}) = Cardinality(s) - 1
      BY <3>1, WithoutOne
    <3>3. QED
      BY <3>2 DEF x
  <2>4. QED
    BY <2>1, <2>2, <2>3
<1>1. \A s \in SUBSET S : Cardinality(s) = 0 <=> s = {}
  BY FS_Subset, FS_EmptySet
<1>2. \A s \in SUBSET S : Cardinality(s) \in Nat
  BY FS_Subset, FS_CardinalityType
<1>3. Bad = {}
  <2> SUFFICES ASSUME Bad # {} PROVE FALSE
    OBVIOUS
  <2>1. PICK m \in Bad : \A k \in Bad : m <= k
    <3> HIDE DEF Bad
    <3> QED BY LeastExists DEF Bad
  <2>2. CASE m = 0
    <3> DEFINE g == [s \in Size(0) |-> base]
    <3>1. \A s \in Size(0) : s = {}
      BY <1>1, <1>2
    <3>2. FoldsUpTo(g, o, base, f, c, S, 0)
      BY <3>1 DEF FoldsUpTo
    <3>3. QED
      BY <3>2, <2>1, <2>2
  <2>3. CASE m > 0
    <3>1. PICK g : FoldsUpTo(g, o, base, f, c, S, m - 1)
      BY <2>1, <2>3
    <3> DEFINE value(s) == IF s = {} THEN base ELSE o[<<f[c[s]], g[s \ {c[s]}]>>]
               h == [s \in Size(m) |-> value(s)]
    <3>2. ASSUME NEW s \in Size(m), s # {} PROVE s \ {c[s]} \in DOMAIN g
      BY <1>0, <3>1, <3>2, <2>3 DEF FoldsUpTo
    <3>3. ASSUME NEW s \in Size(m) PROVE value(s) \in Nat
      <4>1. CASE s # {}
        <5>1. f[c[s]] \in Nat /\ g[s \ {c[s]}] \in Nat
          BY <4>1, <1>0, <3>1, <3>2 DEF FoldsUpTo
        <5>2. QED
          BY <4>1, <5>1
      <4>2. QED
        BY <4>1
    <3>4. ASSUME NEW s \in DOMAIN g PROVE s \in Size(m) /\ h[s] = g[s]
      <4>1. s \in Size(m)
        BY <3>1, <1>2, <2>1 DEF FoldsUpTo
      <4>2. QED
        BY <4>1, <3>1 DEF FoldsUpTo
    <3>5. \A s \in Size(m) : s # {} => h[s \ {c[s]}] = g[s \ {c[s]}]
      BY <3>2, <3>4
    <3>6. h \in [Size(m) -> Nat]
      BY <3>3
    <3>7. \A s \in Size(m) : h[s] = IF s = {} THEN base ELSE o[<<f[c[s]], h[s \ {c[s]}]>>]
      <4> SUFFICES ASSUME NEW s \in Size(m)
                   PROVE  h[s] = IF s = {} THEN base ELSE o[<<f[c[s]], h[s \ {c[s]}]>>]
        OBVIOUS
      <4>1. h[s] = value(s)
        OBVIOUS
      <4> HIDE DEF h
      <4>2. QED
        BY <4>1, <3>5
    <3> HIDE DEF h
    <3>8. FoldsUpTo(h, o, base, f, c, S, m)
      BY <3>6, <3>7 DEF FoldsUpTo
    <3>9. QED
      BY <3>8, <2>1
  <2>4. QED
    BY <2>1, <2>2, <2>3
<1>4. Cardinality(S) \in Nat /\ \A s \in SUBSET S : Cardinality(s) <= Cardinality(S)
  BY FS_CardinalityType, FS_Subset
<1>5. PICK g : FoldsUpTo(g, o, base, f, c, S, Cardinality(S))
  BY <1>3, <1>4
<1>6. Size(Cardinality(S)) = SUBSET S
  BY <1>4
<1>7. g \in [SUBSET S -> Nat]
  BY <1>5, <1>6 DEF FoldsUpTo
<1>8. Folds(g, o, base, f, c, S)
  BY <1>5, <1>7 DEF FoldsUpTo, Folds
<1>9. QED
  BY <1>7, <1>8

\* g sums the numbers F[x] of every subset of S; the sum for S (MapThenSumSet).
IsSum(g, F, S) ==
    g = [s \in SUBSET S |->
           IF s = {} THEN 0 ELSE F[CHOOSE x \in s : TRUE] + g[s \ {CHOOSE x \in s : TRUE}]]
Sum(F, S) == (CHOOSE g : IsSum(g, F, S))[S]

IsNumbers(F, S) == IsFiniteSet(S) /\ \A x \in S : F[x] \in Nat

LEMMA SumExists ==
    ASSUME NEW F, NEW S, IsNumbers(F, S)
    PROVE  \E g \in [SUBSET S -> Nat] : IsSum(g, F, S)
<1> DEFINE plus == [p \in Nat \X Nat |-> p[1] + p[2]]
           first == [s \in SUBSET S |-> CHOOSE x \in s : TRUE]
<1>1. \A s \in SUBSET S : s # {} => first[s] \in s
  OBVIOUS
<1>2. plus \in [Nat \X Nat -> Nat] /\ \A m, n \in Nat : plus[<<m, n>>] = m + n
  OBVIOUS
<1>3. \A s \in SUBSET S : first[s] = CHOOSE x \in s : TRUE
  OBVIOUS
<1> HIDE DEF plus, first
<1>4. PICK g \in [SUBSET S -> Nat] : Folds(g, plus, 0, F, first, S)
  BY <1>1, <1>2, FoldExists DEF IsNumbers
<1>5. ASSUME NEW s \in SUBSET S, s # {}
      PROVE  plus[<<F[first[s]], g[s \ {first[s]}]>>] = F[first[s]] + g[s \ {first[s]}]
  <2>1. F[first[s]] \in Nat /\ g[s \ {first[s]}] \in Nat
    BY <1>1, <1>4, <1>5 DEF IsNumbers
  <2>2. QED
    BY <2>1, <1>2
<1>6. \A s \in SUBSET S : g[s] = IF s = {} THEN 0 ELSE F[first[s]] + g[s \ {first[s]}]
  BY <1>4, <1>5 DEF Folds
<1>7. IsSum(g, F, S)
  BY <1>4, <1>6, <1>3 DEF IsSum
<1>8. QED
  BY <1>4, <1>7

\* Sums of the same numbers agree.
LEMMA SumsAgree ==
    ASSUME NEW F, NEW G, NEW S, NEW T, IsFiniteSet(T), T \subseteq S, NEW g, NEW h,
           IsSum(g, F, S), IsSum(h, G, T), \A x \in T : F[x] = G[x]
    PROVE  \A s \in SUBSET T : g[s] = h[s]
<1> DEFINE Bad == {n \in Nat : \E s \in SUBSET T : Cardinality(s) = n /\ g[s] # h[s]}
<1>1. \A s \in SUBSET T : Cardinality(s) \in Nat
  BY FS_Subset, FS_CardinalityType
<1> SUFFICES ASSUME Bad # {} PROVE FALSE
  BY <1>1
<1>2. PICK m \in Bad : \A k \in Bad : m <= k
  <2> HIDE DEF Bad
  <2> QED BY LeastExists DEF Bad
<1>3. PICK s \in SUBSET T : Cardinality(s) = m /\ g[s] # h[s]
  BY <1>2
<1>4. /\ g[s] = IF s = {} THEN 0 ELSE F[CHOOSE x \in s : TRUE] + g[s \ {CHOOSE x \in s : TRUE}]
      /\ h[s] = IF s = {} THEN 0 ELSE G[CHOOSE x \in s : TRUE] + h[s \ {CHOOSE x \in s : TRUE}]
  BY DEF IsSum
<1> DEFINE x == CHOOSE z \in s : TRUE
<1>5. x \in s /\ s # {}
  BY <1>3, <1>4
<1> HIDE DEF x
<1>6. /\ s \ {x} \in SUBSET T /\ Cardinality(s \ {x}) = m - 1 /\ m - 1 \in Nat
  BY <1>3, <1>5, WithoutOne
<1>7. g[s \ {x}] = h[s \ {x}]
  BY <1>6, <1>2
<1>8. g[s] = F[x] + g[s \ {x}] /\ h[s] = G[x] + h[s \ {x}]
  BY <1>4, <1>5 DEF x
<1>9. F[x] = G[x]
  BY <1>5
<1>10. QED
  BY <1>3, <1>7, <1>8, <1>9

\* Whatever sums the numbers of S has the sum.
LEMMA SumIs ==
    ASSUME NEW F, NEW S, IsNumbers(F, S), NEW g, IsSum(g, F, S)
    PROVE  g[S] = Sum(F, S) /\ Sum(F, S) \in Nat /\ \A s \in SUBSET S : g[s] = Sum(F, s)
<1>1. ASSUME NEW s \in SUBSET S PROVE g[s] = Sum(F, s) /\ Sum(F, s) \in Nat
  <2>1. IsNumbers(F, s)
    BY FS_Subset DEF IsNumbers
  <2>2. PICK h \in [SUBSET s -> Nat] : IsSum(h, F, s)
    BY <2>1, SumExists
  <2> DEFINE k == CHOOSE j : IsSum(j, F, s)
  <2>3. IsSum(k, F, s)
    BY <2>2
  <2> HIDE DEF k
  <2>4. g[s] = k[s] /\ h[s] = k[s]
    BY <2>1, <2>2, <2>3, SumsAgree DEF IsNumbers
  <2>5. Sum(F, s) = k[s]
    BY DEF Sum, k
  <2>6. QED
    BY <2>2, <2>4, <2>5
<1>2. QED
  BY <1>1

LEMMA SumEqual ==
    ASSUME NEW F, NEW G, NEW S, IsNumbers(F, S), \A x \in S : F[x] = G[x]
    PROVE  Sum(F, S) = Sum(G, S)
<1>1. IsNumbers(G, S)
  BY DEF IsNumbers
<1>2. PICK g : IsSum(g, F, S)
  BY SumExists
<1>3. PICK h : IsSum(h, G, S)
  BY <1>1, SumExists
<1>4. g[S] = h[S]
  <2>1. IsFiniteSet(S) /\ S \subseteq S /\ S \in SUBSET S
    BY DEF IsNumbers
  <2>2. \A s \in SUBSET S : g[s] = h[s]
    BY <2>1, <1>2, <1>3, SumsAgree
  <2>3. QED
    BY <2>1, <2>2
<1>5. QED
  BY <1>1, <1>2, <1>3, <1>4, SumIs

LEMMA SumEmpty == \A F : Sum(F, {}) = 0
<1> TAKE F
<1>1. IsNumbers(F, {})
  BY FS_EmptySet DEF IsNumbers
<1>2. PICK g : IsSum(g, F, {})
  BY <1>1, SumExists
<1>3. g[{}] = 0
  BY <1>2 DEF IsSum
<1>4. QED
  BY <1>1, <1>2, <1>3, SumIs

\* Any element may be the first one.
LEMMA SumNext ==
    ASSUME NEW F, NEW S, IsNumbers(F, S), NEW x \in S
    PROVE  /\ Sum(F, S) \in Nat /\ Sum(F, S \ {x}) \in Nat
           /\ Sum(F, S) = F[x] + Sum(F, S \ {x})
<1> DEFINE Bad == {n \in Nat : \E s \in SUBSET S : /\ Cardinality(s) = n
                                                   /\ \E z \in s : Sum(F, s) # F[z] + Sum(F, s \ {z})}
<1>1. PICK g \in [SUBSET S -> Nat] : IsSum(g, F, S)
  BY SumExists
<1>2. \A s \in SUBSET S : g[s] = Sum(F, s) /\ Sum(F, s) \in Nat
  BY <1>1, SumIs
<1>3. ASSUME NEW s \in SUBSET S, s # {}
      PROVE  LET z == CHOOSE y \in s : TRUE IN Sum(F, s) = F[z] + Sum(F, s \ {z})
  <2> DEFINE z == CHOOSE y \in s : TRUE
  <2>1. g[s] = F[z] + g[s \ {z}]
    BY <1>1, <1>3 DEF IsSum
  <2>2. s \ {z} \in SUBSET S
    OBVIOUS
  <2> HIDE DEF z
  <2>3. Sum(F, s) = F[z] + Sum(F, s \ {z})
    BY <2>1, <2>2, <1>2
  <2>4. QED
    BY <2>3 DEF z
<1>4. Bad = {}
  <2> SUFFICES ASSUME Bad # {} PROVE FALSE
    OBVIOUS
  <2>1. PICK m \in Bad : \A k \in Bad : m <= k
    <3> HIDE DEF Bad
    <3> QED BY LeastExists DEF Bad
  <2>2. PICK s \in SUBSET S : Cardinality(s) = m /\ \E z \in s : Sum(F, s) # F[z] + Sum(F, s \ {z})
    BY <2>1
  <2>3. PICK z \in s : Sum(F, s) # F[z] + Sum(F, s \ {z})
    BY <2>2
  <2> DEFINE y == CHOOSE v \in s : TRUE
  <2>4. y \in s /\ Sum(F, s) = F[y] + Sum(F, s \ {y})
    BY <1>3, <2>3
  <2> HIDE DEF y
  <2>5. CASE y = z
    BY <2>3, <2>4, <2>5
  <2>6. CASE y # z
    <3>1. /\ s \ {y} \in SUBSET S /\ Cardinality(s \ {y}) = m - 1 /\ m - 1 \in Nat
          /\ s \ {z} \in SUBSET S /\ Cardinality(s \ {z}) = m - 1
      BY <2>2, <2>4, WithoutOne DEF IsNumbers
    <3>2. m - 1 \notin Bad
      BY <3>1, <2>1
    <3>3. Sum(F, s \ {y}) = F[z] + Sum(F, (s \ {y}) \ {z})
      BY <3>1, <3>2, <2>6
    <3>4. Sum(F, s \ {z}) = F[y] + Sum(F, (s \ {z}) \ {y})
      BY <3>1, <3>2, <2>4, <2>6
    <3>5. (s \ {y}) \ {z} = (s \ {z}) \ {y} /\ (s \ {y}) \ {z} \in SUBSET S
      OBVIOUS
    <3>6. F[y] \in Nat /\ F[z] \in Nat /\ Sum(F, (s \ {y}) \ {z}) \in Nat
      BY <3>5, <1>2, <2>4 DEF IsNumbers
    <3> DEFINE n == Sum(F, (s \ {y}) \ {z})
    <3>7. F[y] + (F[z] + n) = F[z] + (F[y] + n)
      <4> HIDE DEF n
      <4> QED BY <3>6 DEF n
    <3>8. Sum(F, (s \ {z}) \ {y}) = n
      BY <3>5
    <3> HIDE DEF n
    <3>9. QED
      BY <3>3, <3>4, <3>7, <3>8, <2>3, <2>4 DEF n
  <2>7. QED
    BY <2>5, <2>6
<1>5. Cardinality(S) \in Nat /\ S \in SUBSET S
  BY FS_CardinalityType DEF IsNumbers
<1>6. Sum(F, S) = F[x] + Sum(F, S \ {x})
  BY <1>4, <1>5
<1>7. QED
  BY <1>2, <1>6

-----------------------------------------------------------------------------
(* Arithmetic of sums *)

\* A bound that holds number by number holds for the sums.
LEMMA SumScaled ==
    ASSUME NEW F, NEW G, NEW S, IsNumbers(F, S), IsNumbers(G, S), NEW m \in Nat,
           \A x \in S : F[x] <= m * G[x]
    PROVE  Sum(F, S) <= m * Sum(G, S)
<1> DEFINE Bad == {n \in Nat : \E s \in SUBSET S : /\ Cardinality(s) = n
                                                   /\ ~(Sum(F, s) <= m * Sum(G, s))}
<1>1. IsFiniteSet(S) /\ S \in SUBSET S /\ Cardinality(S) \in Nat
  BY FS_CardinalityType DEF IsNumbers
<1> SUFFICES ASSUME Bad # {} PROVE FALSE
  BY <1>1
<1>2. PICK n \in Bad : \A k \in Bad : n <= k
  <2> HIDE DEF Bad
  <2> QED BY LeastExists DEF Bad
<1>3. PICK s \in SUBSET S : Cardinality(s) = n /\ ~(Sum(F, s) <= m * Sum(G, s))
  BY <1>2
<1>4. IsNumbers(F, s) /\ IsNumbers(G, s)
  BY FS_Subset DEF IsNumbers
<1>5. s # {}
  BY <1>3, SumEmpty
<1>6. PICK x \in s : TRUE
  BY <1>5
<1>7. /\ s \ {x} \in SUBSET S /\ Cardinality(s \ {x}) = n - 1 /\ n - 1 \in Nat
  <2>1. /\ Cardinality(s) \in Nat \ {0} /\ s \ {x} \in SUBSET S
        /\ Cardinality(s \ {x}) = Cardinality(s) - 1
    BY <1>1, <1>6, WithoutOne
  <2>2. QED
    BY <2>1, <1>3
<1>8. Sum(F, s \ {x}) <= m * Sum(G, s \ {x})
  BY <1>2, <1>7
<1>9. /\ Sum(F, s) = F[x] + Sum(F, s \ {x}) /\ Sum(G, s) = G[x] + Sum(G, s \ {x})
      /\ Sum(F, s \ {x}) \in Nat /\ Sum(G, s \ {x}) \in Nat
  BY <1>4, SumNext
<1>10. F[x] \in Nat /\ G[x] \in Nat /\ F[x] <= m * G[x]
  BY <1>4 DEF IsNumbers
<1>11. \A f, g, p, q \in Nat : f <= m * g /\ p <= m * q => f + p <= m * (g + q)
  <2>1. \A g, q \in Nat : m * (g + q) = m * g + m * q /\ m * g \in Nat /\ m * q \in Nat
    OBVIOUS
  <2>2. QED
    BY <2>1
<1>12. QED
  BY <1>3, <1>8, <1>9, <1>10, <1>11

LEMMA SumAddsOne ==
    ASSUME NEW S, IsFiniteSet(S), NEW F \in [S -> Nat], NEW x \in S
    PROVE  Sum([F EXCEPT ![x] = @ + 1], S) = Sum(F, S) + 1
<1> DEFINE G == [F EXCEPT ![x] = @ + 1]
<1>1. IsNumbers(F, S) /\ IsNumbers(G, S) /\ G[x] = F[x] + 1 /\ \A y \in S \ {x} : F[y] = G[y]
  BY DEF IsNumbers
<1> HIDE DEF G
<1>2. IsNumbers(F, S \ {x})
  BY <1>1, FS_Subset DEF IsNumbers
<1>3. Sum(F, S \ {x}) = Sum(G, S \ {x})
  BY <1>1, <1>2, SumEqual
<1>4. /\ Sum(F, S) = F[x] + Sum(F, S \ {x}) /\ Sum(G, S) = G[x] + Sum(G, S \ {x})
      /\ Sum(F, S \ {x}) \in Nat /\ F[x] \in Nat
  BY <1>1, SumNext
<1>5. QED
  BY <1>1, <1>3, <1>4 DEF G

LEMMA SumOfZeros ==
    ASSUME NEW F, NEW S, IsFiniteSet(S), \A x \in S : F[x] = 0
    PROVE  Sum(F, S) = 0
<1>1. IsNumbers(F, S) /\ \A x \in S : F[x] <= 0 * F[x]
  BY DEF IsNumbers
<1>2. PICK g \in [SUBSET S -> Nat] : IsSum(g, F, S)
  BY <1>1, SumExists
<1>3. Sum(F, S) \in Nat
  BY <1>1, <1>2, SumIs
<1>4. Sum(F, S) <= 0 * Sum(F, S)
  BY <1>1, SumScaled
<1>5. QED
  BY <1>3, <1>4

\* How many of R are at level i.
AtLevel(R, L, i) == {k \in R : L[k] = i}

\* The weights of R, counted level by level.
LEMMA SumByLevel ==
    ASSUME NEW R, IsFiniteSet(R), NEW D, IsFiniteSet(D), NEW L \in [R -> D], NEW W \in [D -> Nat]
    PROVE  Sum([k \in R |-> W[L[k]]], R) = Sum([i \in D |-> Cardinality(AtLevel(R, L, i)) * W[i]], D)
<1> DEFINE F == [k \in R |-> W[L[k]]]
           H(r) == [i \in D |-> Cardinality(AtLevel(r, L, i)) * W[i]]
           Bad == {n \in Nat : \E r \in SUBSET R : Cardinality(r) = n /\ Sum(F, r) # Sum(H(r), D)}
<1>1. R \in SUBSET R /\ Cardinality(R) \in Nat
  BY FS_CardinalityType
<1> SUFFICES ASSUME Bad # {} PROVE FALSE
  BY <1>1
<1>2. PICK n \in Bad : \A k \in Bad : n <= k
  <2> HIDE DEF Bad
  <2> QED BY LeastExists DEF Bad
<1>3. PICK r \in SUBSET R : Cardinality(r) = n /\ Sum(F, r) # Sum(H(r), D)
  BY <1>2
<1>4. ASSUME NEW s \in SUBSET R, NEW i \in D
      PROVE  /\ IsFiniteSet(AtLevel(s, L, i)) /\ Cardinality(AtLevel(s, L, i)) \in Nat
             /\ H(s)[i] \in Nat /\ H(s)[i] = Cardinality(AtLevel(s, L, i)) * W[i]
  <2>1. AtLevel(s, L, i) \in SUBSET R
    BY DEF AtLevel
  <2>2. IsFiniteSet(AtLevel(s, L, i)) /\ Cardinality(AtLevel(s, L, i)) \in Nat
    BY <2>1, FS_Subset, FS_CardinalityType
  <2>3. QED
    BY <2>2
<1>5. \A s \in SUBSET R : IsNumbers(H(s), D) /\ IsNumbers(F, s)
  <2>1. ASSUME NEW s \in SUBSET R PROVE IsNumbers(H(s), D)
    <3> HIDE DEF H
    <3> QED BY <1>4 DEF IsNumbers
  <2>2. ASSUME NEW s \in SUBSET R PROVE IsNumbers(F, s)
    BY FS_Subset DEF IsNumbers
  <2>3. QED
    BY <2>1, <2>2
<1>6. CASE r = {}
  <2>1. \A i \in D : AtLevel(r, L, i) = {}
    BY <1>6 DEF AtLevel
  <2>2. ASSUME NEW i \in D PROVE H(r)[i] = 0
    <3>1. H(r)[i] = Cardinality(AtLevel(r, L, i)) * W[i] /\ W[i] \in Nat
      OBVIOUS
    <3>2. Cardinality(AtLevel(r, L, i)) = 0
      BY <2>1, FS_EmptySet
    <3>3. \A w \in Nat : 0 * w = 0
      OBVIOUS
    <3> HIDE DEF H
    <3>4. QED
      BY <3>1, <3>2, <3>3
  <2>3. Sum(H(r), D) = 0
    <3> HIDE DEF H
    <3> QED BY <2>2, SumOfZeros
  <2>4. QED
    BY <2>3, <1>3, <1>6, SumEmpty
<1>7. CASE r # {}
  <2>1. PICK x \in r : TRUE
    BY <1>7
  <2> DEFINE s == r \ {x}
             j == L[x]
  <2>2. /\ s \in SUBSET R /\ Cardinality(s) = n - 1 /\ n - 1 \in Nat /\ x \in R /\ j \in D
    <3>1. /\ Cardinality(r) \in Nat \ {0} /\ r \ {x} \in SUBSET R
          /\ Cardinality(r \ {x}) = Cardinality(r) - 1
      BY <2>1, WithoutOne
    <3>2. x \in R /\ L[x] \in D
      BY <2>1
    <3>3. QED
      BY <3>1, <3>2, <1>3
  <2>3. Sum(F, s) = Sum(H(s), D)
    <3>0. n \in Nat
      OBVIOUS
    <3>1. n - 1 \notin Bad
      <4> HIDE DEF Bad
      <4> QED BY <3>0, <1>2, <2>2
    <3> HIDE DEF s, F, H
    <3>2. QED
      BY <3>1, <2>2
  <2>4. Sum(F, r) = F[x] + Sum(F, s) /\ Sum(F, s) \in Nat /\ F[x] = W[j] /\ W[j] \in Nat
    <3>1. F[x] = W[j] /\ W[j] \in Nat
      BY <2>2
    <3>2. IsNumbers(F, r)
      BY <1>5
    <3> HIDE DEF F, H, s, j, Bad
    <3>3. Sum(F, r) = F[x] + Sum(F, r \ {x}) /\ Sum(F, r \ {x}) \in Nat
      BY <3>2, <2>1, SumNext
    <3>4. QED
      BY <3>1, <3>3 DEF s
  <2>5. \A i \in D \ {j} : AtLevel(s, L, i) = AtLevel(r, L, i)
    BY DEF AtLevel
  <2>6. AtLevel(r, L, j) = AtLevel(s, L, j) \cup {x} /\ x \notin AtLevel(s, L, j)
    BY DEF AtLevel
  <2> HIDE DEF s, j
  <2>7. Cardinality(AtLevel(r, L, j)) = Cardinality(AtLevel(s, L, j)) + 1
    BY <2>2, <2>6, <1>4, FS_AddElement
  <2>8. H(r)[j] = H(s)[j] + W[j]
    <3>1. \A c, w \in Nat : (c + 1) * w = c * w + w
      OBVIOUS
    <3>2. QED
      BY <3>1, <2>2, <2>4, <2>7, <1>4
  <2>9. \A i \in D \ {j} : H(s)[i] = H(r)[i]
    BY <2>2, <2>5, <1>4
  <2> HIDE DEF H, F
  <2>10. IsNumbers(H(s), D \ {j})
    BY <2>2, <1>5, FS_Subset DEF IsNumbers
  <2>11. Sum(H(s), D \ {j}) = Sum(H(r), D \ {j})
    BY <2>9, <2>10, SumEqual
  <2>12. /\ Sum(H(s), D) = H(s)[j] + Sum(H(s), D \ {j})
         /\ Sum(H(r), D) = H(r)[j] + Sum(H(r), D \ {j})
         /\ Sum(H(s), D \ {j}) \in Nat /\ H(s)[j] \in Nat
    BY <2>2, <1>4, <1>5, SumNext
  <2>13. QED
    BY <1>3, <2>3, <2>4, <2>8, <2>11, <2>12
<1>8. QED
  BY <1>6, <1>7

-----------------------------------------------------------------------------
(* SpatialLocality: the window is a ring of the latest words *)

Word == Localities!Words

LEMMA WordsAreNatural == \A w \in Word : w \in Nat
  BY ComponentAssumptions DEF Word, Localities!Words, Localities!SizeAssumption

LocalityTyped == words \in Seq(Word) /\ Localities!TypeOK

\* Where the window has the word of d accesses ago, up to WindowSize.
PlaceOf(d) == IF d <= windowIndex THEN windowIndex - d ELSE windowIndex + WindowSize - d

Ring == \A d \in 1 .. WindowSize :
           window[PlaceOf(d)] = IF d <= Len(words) THEN words[Len(words) + 1 - d] ELSE 0

Strides == \A d \in 0 .. StrideSize - 1 :
              stride[d] = Cardinality({k \in 1 .. Len(words) : Localities!TakenFor(k, d)})

\* What the step of getLocalities does for a word.
Adds(w) == /\ words' = Append(words, w)
           /\ Localities!AddSpatial(w) /\ Localities!AddTemporal(w)

LEMMA RingStep ==
    ASSUME LocalityTyped, Ring, NEW w \in Word, Adds(w)
    PROVE  Ring' /\ window' \in [0 .. WindowSize - 1 -> Word \cup {0}]
                 /\ windowIndex' \in 0 .. WindowSize - 1
<1>1. WindowSize \in Nat \ {0}
  BY ComponentAssumptions DEF Localities!SizeAssumption
<1>2. /\ window \in [0 .. WindowSize - 1 -> Word \cup {0}]
      /\ windowIndex \in 0 .. WindowSize - 1 /\ words \in Seq(Word)
  BY DEF LocalityTyped, Localities!TypeOK, Word
<1>3. /\ window' = [window EXCEPT ![windowIndex] = w]
      /\ windowIndex' = (windowIndex + 1) % WindowSize
      /\ words' = Append(words, w)
  BY DEF Adds, Localities!AddSpatial, Localities!NextIndex
<1>4. windowIndex' = IF windowIndex + 1 = WindowSize THEN 0 ELSE windowIndex + 1
  <2>1. windowIndex \in Nat /\ windowIndex < WindowSize
    BY <1>1, <1>2
  <2>2. (windowIndex + 1) % WindowSize = IF windowIndex + 1 = WindowSize THEN 0 ELSE windowIndex + 1
    BY <2>1, <1>1, ModNext
  <2>3. QED
    BY <2>2, <1>3
<1>5. ASSUME NEW d \in 1 .. WindowSize
      PROVE  window'[PlaceOf(d)'] = IF d <= Len(words') THEN words'[Len(words') + 1 - d] ELSE 0
  <2>1. CASE d = 1
    <3>1. PlaceOf(d)' = windowIndex
      BY <2>1, <1>1, <1>2, <1>4 DEF PlaceOf
    <3>2. QED
      BY <3>1, <2>1, <1>2, <1>3
  <2>2. CASE d # 1
    <3>1. PlaceOf(d)' = PlaceOf(d - 1) /\ PlaceOf(d - 1) # windowIndex
          /\ PlaceOf(d - 1) \in 0 .. WindowSize - 1
      BY <2>2, <1>1, <1>2, <1>4 DEF PlaceOf
    <3>2. window[PlaceOf(d - 1)] = IF d - 1 <= Len(words) THEN words[Len(words) + 1 - (d - 1)] ELSE 0
      BY <2>2, <1>1 DEF Ring
    <3>3. window'[PlaceOf(d)'] = window[PlaceOf(d - 1)]
      BY <3>1, <1>2, <1>3
    <3>4. Len(words') = Len(words) + 1 /\ \A k \in 1 .. Len(words) : words'[k] = words[k]
      BY <1>2, <1>3
    <3>5. QED
      BY <3>2, <3>3, <3>4, <2>2, <1>1, <1>2
  <2>3. QED
    BY <2>1, <2>2
<1>6. QED
  BY <1>1, <1>2, <1>3, <1>4, <1>5 DEF Ring

\* The conversion to int and abs, of a difference of words: what is left of it is the
\* distance to the nearest multiple of 2^32.
LEMMA DistanceIs ==
    ASSUME NEW diff \in Int, NEW apart, apart = IF diff < 0 THEN -diff ELSE diff
    PROVE  /\ Localities!Distance(diff) \in Nat
           /\ \A d \in 0 .. StrideSize - 1 :
                Localities!Distance(diff) = d <=> apart % (2 * IntLimit) \in {d, 2 * IntLimit - d}
<1>1. IntLimit \in Nat \ {0} /\ StrideSize \in Nat /\ StrideSize <= IntLimit
  BY ComponentAssumptions DEF Localities!SizeAssumption
<1>2. PICK m : m = 2 * IntLimit
  OBVIOUS
<1>3. m \in Nat \ {0}
  BY <1>1, <1>2
<1>4. PICK q \in Int, r \in 0 .. m - 1 : /\ r = (diff + IntLimit) % m
                                         /\ diff + IntLimit = m * q + r
  <2>1. diff + IntLimit \in Int
    BY <1>1
  <2>2. QED
    BY <2>1, <1>3, QuotientIs
<1>5. PICK t : t = r - IntLimit
  OBVIOUS
<1>6. t \in -IntLimit .. IntLimit - 1 /\ diff = m * q + t
  BY <1>1, <1>2, <1>3, <1>4, <1>5
<1>7. Localities!Distance(diff) = IF t = -IntLimit THEN m ELSE IF t < 0 THEN -t ELSE t
  BY <1>2, <1>4, <1>5 DEF Localities!Distance, Localities!ToInt
<1>8. apart % m = IF diff < 0 THEN (IF t > 0 THEN m - t ELSE -t) ELSE (IF t < 0 THEN m + t ELSE t)
  <2>1. CASE diff < 0 /\ t > 0
    <3>1. apart = m * (-q - 1) + (m - t) /\ apart \in Int
      BY <2>1, <1>3, <1>6
    <3>2. m - t \in 0 .. m - 1 /\ -q - 1 \in Int
      BY <2>1, <1>1, <1>2, <1>6
    <3>3. QED
      BY <3>1, <3>2, <2>1, <1>3, ModIs
  <2>2. CASE diff < 0 /\ ~(t > 0)
    <3>1. apart = m * (-q) + (-t) /\ apart \in Int
      BY <2>2, <1>3, <1>6
    <3>2. -t \in 0 .. m - 1 /\ -q \in Int
      BY <2>2, <1>1, <1>2, <1>6
    <3>3. QED
      BY <3>1, <3>2, <2>2, <1>3, ModIs
  <2>3. CASE ~(diff < 0) /\ t < 0
    <3>1. apart = m * (q - 1) + (m + t) /\ apart \in Int
      BY <2>3, <1>3, <1>6
    <3>2. m + t \in 0 .. m - 1 /\ q - 1 \in Int
      BY <2>3, <1>1, <1>2, <1>6
    <3>3. QED
      BY <3>1, <3>2, <2>3, <1>3, ModIs
  <2>4. CASE ~(diff < 0) /\ ~(t < 0)
    <3>1. t \in 0 .. m - 1 /\ apart = m * q + t /\ apart \in Int
      BY <2>4, <1>1, <1>2, <1>3, <1>6
    <3>2. q \in Int
      BY <1>4
    <3>3. QED
      BY <3>1, <3>2, <2>4, <1>3, ModIs
  <2>5. QED
    BY <2>1, <2>2, <2>3, <2>4
<1>9. Localities!Distance(diff) \in Nat
  BY <1>1, <1>2, <1>6, <1>7
<1>10. ASSUME NEW d \in 0 .. StrideSize - 1
       PROVE  Localities!Distance(diff) = d <=> apart % m \in {d, m - d}
  <2>1. d \in Nat /\ d < IntLimit
    BY <1>1
  <2>2. QED
    BY <2>1, <1>1, <1>2, <1>6, <1>7, <1>8
<1>11. QED
  BY <1>2, <1>9, <1>10

\* An access is as far from the oldest word of the window as its definition says.
LEMMA ApartIs ==
    ASSUME LocalityTyped, Ring, NEW w \in Word, Adds(w), NEW n, n = Len(words)
    PROVE  /\ window[windowIndex] \in Nat
           /\ Localities!Apart(n + 1)' =
                IF window[windowIndex] - w < 0 THEN w - window[windowIndex]
                ELSE window[windowIndex] - w
           /\ \A k \in 1 .. n : Localities!Apart(k)' = Localities!Apart(k)
<1>1. WindowSize \in Nat \ {0}
  BY ComponentAssumptions DEF Localities!SizeAssumption
<1>2. /\ window \in [0 .. WindowSize - 1 -> Word \cup {0}]
      /\ windowIndex \in 0 .. WindowSize - 1 /\ words \in Seq(Word)
  BY DEF LocalityTyped, Localities!TypeOK, Word
<1>3. words' = Append(words, w)
  BY DEF Adds
<1>4. /\ n \in Nat /\ Len(words') = n + 1 /\ words'[n + 1] = w
      /\ \A k \in 1 .. n : words'[k] = words[k]
  BY <1>2, <1>3
<1>5. PlaceOf(WindowSize) = windowIndex
  BY <1>1, <1>2 DEF PlaceOf
<1>6. window[windowIndex] = IF WindowSize <= n THEN words[n + 1 - WindowSize] ELSE 0
  BY <1>1, <1>5 DEF Ring
<1>7. Localities!Oldest(n + 1)' = window[windowIndex]
  <2>1. CASE WindowSize <= n
    <3>1. n + 1 - WindowSize \in 1 .. n /\ ~(n + 1 <= WindowSize)
      BY <2>1, <1>1, <1>4
    <3>2. words'[n + 1 - WindowSize] = window[windowIndex]
      BY <3>1, <2>1, <1>4, <1>6
    <3>3. QED
      BY <3>1, <3>2, <1>1, <1>4 DEF Localities!Oldest
  <2>2. CASE ~(WindowSize <= n)
    BY <2>2, <1>1, <1>2, <1>4, <1>6 DEF Localities!Oldest
  <2>3. QED
    BY <2>1, <2>2
<1>8. window[windowIndex] \in Nat /\ w \in Nat
  <2>1. window[windowIndex] \in Word \cup {0}
    BY <1>2
  <2>2. QED
    BY <2>1, WordsAreNatural
<1>9. Localities!Apart(n + 1)' =
        IF window[windowIndex] - w < 0 THEN w - window[windowIndex] ELSE window[windowIndex] - w
  BY <1>4, <1>7, <1>8 DEF Localities!Apart
<1>10. ASSUME NEW k \in 1 .. n PROVE Localities!Apart(k)' = Localities!Apart(k)
  BY <1>1, <1>2, <1>4 DEF Localities!Apart, Localities!Oldest
<1>11. QED
  BY <1>8, <1>9, <1>10

\* What counts positions of a trace, and what the next one adds.
LEMMA CountNext ==
    ASSUME NEW n \in Nat, NEW S \in SUBSET (1 .. n), NEW T,
           T = S \/ T = S \cup {n + 1}
    PROVE  /\ Cardinality(S) \in Nat
           /\ Cardinality(T) = IF n + 1 \in T THEN Cardinality(S) + 1 ELSE Cardinality(S)
<1>1. IsFiniteSet(1 .. n)
  BY FS_Interval
<1>2. IsFiniteSet(S)
  BY <1>1, FS_Subset
<1>3. n + 1 \notin S
  OBVIOUS
<1>4. QED
  BY <1>2, <1>3, FS_AddElement, FS_CardinalityType

LEMMA StridesStep ==
    ASSUME LocalityTyped, Ring, Strides, NEW w \in Word, Adds(w)
    PROVE  Strides' /\ stride' \in [0 .. StrideSize - 1 -> Nat]
<1> DEFINE diff == window[windowIndex] - w
           far == Localities!Distance(diff)
<1>0. PICK n : n = Len(words)
  OBVIOUS
<1>1. /\ words \in Seq(Word) /\ stride \in [0 .. StrideSize - 1 -> Nat] /\ StrideSize \in Nat
      /\ IntLimit \in Nat
  BY ComponentAssumptions DEF Localities!SizeAssumption, LocalityTyped, Localities!TypeOK
<1>2. diff \in Int /\ w \in Nat
  BY <1>0, ApartIs, WordsAreNatural
<1>3. PICK apart : apart = IF diff < 0 THEN -diff ELSE diff
  OBVIOUS
<1>4. /\ far \in Nat
      /\ \A d \in 0 .. StrideSize - 1 : far = d <=> apart % (2 * IntLimit) \in {d, 2 * IntLimit - d}
  BY <1>2, <1>3, DistanceIs
<1>5. stride' = IF far < StrideSize THEN [stride EXCEPT ![far] = @ + 1] ELSE stride
  BY DEF Adds, Localities!AddSpatial
<1>6. stride' \in [0 .. StrideSize - 1 -> Nat]
  <2> HIDE DEF far
  <2> QED BY <1>1, <1>4, <1>5
<1>7. n \in Nat /\ Len(words') = n + 1
  BY <1>0, <1>1 DEF Adds
<1>8. /\ Localities!Apart(n + 1)' = apart
      /\ \A k \in 1 .. n : Localities!Apart(k)' = Localities!Apart(k)
  BY ApartIs, <1>0, <1>2, <1>3
<1>9. ASSUME NEW d \in 0 .. StrideSize - 1
      PROVE  stride'[d] = Cardinality({k \in 1 .. Len(words') : Localities!TakenFor(k, d)'})
  <2> DEFINE old == {k \in 1 .. n : Localities!TakenFor(k, d)}
             new == {k \in 1 .. Len(words') : Localities!TakenFor(k, d)'}
  <2>1. stride[d] = Cardinality(old)
    BY <1>0 DEF Strides
  <2>2. /\ Localities!TakenFor(n + 1, d)' <=> far = d
        /\ \A k \in 1 .. n : Localities!TakenFor(k, d)' <=> Localities!TakenFor(k, d)
    <3> HIDE DEF far
    <3> QED BY <1>4, <1>8 DEF Localities!TakenFor
  <2>3. new = IF far = d THEN old \cup {n + 1} ELSE old
    <3>1. \A k \in 1 .. n + 1 : k \in 1 .. n \/ k = n + 1
      BY <1>7
    <3>2. \A k \in 1 .. n : k \in 1 .. n + 1 /\ k # n + 1
      BY <1>7
    <3>3. n + 1 \in 1 .. n + 1
      BY <1>7
    <3> HIDE DEF far
    <3>4. QED
      BY <3>1, <3>2, <3>3, <1>7, <2>2
  <2>4. old \in SUBSET (1 .. n) /\ n + 1 \notin old
    BY <1>7
  <2> HIDE DEF old, new, far
  <2>5. /\ Cardinality(old) \in Nat
        /\ Cardinality(new) = IF far = d THEN Cardinality(old) + 1 ELSE Cardinality(old)
    BY <2>3, <2>4, <1>7, CountNext
  <2>6. stride'[d] = Cardinality(new)
    BY <1>1, <1>4, <1>5, <2>1, <2>5
  <2>7. QED
    BY <2>6 DEF new
<1>10. QED
  <2> HIDE DEF far, diff
  <2> QED BY <1>6, <1>9 DEF Strides

-----------------------------------------------------------------------------
(* LRUCache *)

\* Module Locality brings its own instance of the operator.
LEMMA SameCardinality == \A S : Localities!Cardinality(S) = Cardinality(S)
  BY DEF Localities!Cardinality, Cardinality

\* The keys of a list.
Keys(list) == {list[q] : q \in 1 .. Len(list)}

\* The map and the list of a cache of maxSize agree.
IsCache(c, maxSize) ==
    /\ c.keyList \in Seq(Word) /\ c.keyMap = Keys(c.keyList)
    /\ \A p, q \in 1 .. Len(c.keyList) : c.keyList[p] = c.keyList[q] => p = q
    /\ Len(c.keyList) <= maxSize

LEMMA KeysCount ==
    ASSUME NEW list \in Seq(Word),
           \A p, q \in 1 .. Len(list) : list[p] = list[q] => p = q,
           NEW n \in 0 .. Len(list)
    PROVE  /\ IsFiniteSet({list[q] : q \in 1 .. n})
           /\ Cardinality({list[q] : q \in 1 .. n}) = n
<1> DEFINE S == {list[q] : q \in 1 .. n}
           f == [q \in 1 .. n |-> list[q]]
<1>1. f \in Bijection(1 .. n, S)
  <2>1. f \in [1 .. n -> S] /\ \A t \in S : \E s \in 1 .. n : f[s] = t
    OBVIOUS
  <2>2. \A a, b \in 1 .. n : f[a] = f[b] => a = b
    OBVIOUS
  <2>3. QED
    BY <2>1, <2>2 DEF Bijection, Injection, Surjection, IsInjective
<1>2. ExistsBijection(1 .. n, S)
  BY <1>1 DEF ExistsBijection
<1>3. IsFiniteSet(1 .. n)
  BY FS_Interval
<1> HIDE DEF S, f
<1>4. IsFiniteSet(S) /\ Cardinality(S) = n
  BY <1>2, <1>3, FS_Bijection, FS_CountingElements
<1>5. QED
  BY <1>4 DEF S

\* put moves the key to the front; p is the place of the node that goes, or one
\* more than the length when none does.
Moved(c, key, maxSize, new, p) ==
    LET list == c.keyList
    IN /\ new.keyList \in Seq(Word) /\ new.keyMap = Keys(new.keyList)
       /\ p \in 1 .. Len(list) + 1
       /\ Len(new.keyList) = IF p <= Len(list) THEN Len(list) ELSE Len(list) + 1
       /\ new.keyList[1] = key
       /\ \A q \in 1 .. p - 1 : new.keyList[q + 1] = list[q]
       /\ \A q \in p + 1 .. Len(list) : new.keyList[q] = list[q]
       /\ \/ p <= Len(list) /\ list[p] = key
          \/ key \notin c.keyMap /\ p = Len(list) /\ Len(list) = maxSize
          \/ key \notin c.keyMap /\ p = Len(list) + 1 /\ Len(list) < maxSize

LEMMA PutMoves ==
    ASSUME NEW c, NEW key \in Word, NEW maxSize \in Nat \ {0}, IsCache(c, maxSize)
    PROVE  \E p : Moved(c, key, maxSize, Localities!Put(c, key, maxSize), p)
<1> DEFINE list == c.keyList
           keys == c.keyMap \cup {key}
           new == Localities!Put(c, key, maxSize)
<1>1. /\ list \in Seq(Word) /\ c.keyMap = Keys(list) /\ Len(list) <= maxSize /\ Len(list) \in Nat
      /\ \A p, q \in 1 .. Len(list) : list[p] = list[q] => p = q
  BY DEF IsCache
<1>0. new = IF Cardinality(keys) > maxSize
            THEN [keyMap |-> keys \ {Localities!Last(<<key>> \o Localities!Erase(c, key))},
                  keyList |-> Localities!Front(<<key>> \o Localities!Erase(c, key))]
            ELSE [keyMap |-> keys, keyList |-> <<key>> \o Localities!Erase(c, key)]
  BY SameCardinality, Zenon DEF Localities!Put
<1>2. IsFiniteSet(c.keyMap) /\ Cardinality(c.keyMap) = Len(list)
  <2> HIDE DEF list
  <2>1. PICK n : n = Len(list) /\ n \in 0 .. Len(list)
    BY <1>1
  <2>2. IsFiniteSet({list[q] : q \in 1 .. n}) /\ Cardinality({list[q] : q \in 1 .. n}) = n
    BY <2>1, <1>1, KeysCount
  <2>3. c.keyMap = {list[q] : q \in 1 .. n}
    BY <2>1, <1>1 DEF Keys
  <2>4. QED
    BY <2>1, <2>2, <2>3
<1>3. Cardinality(keys) = IF key \in c.keyMap THEN Len(list) ELSE Len(list) + 1
  BY <1>2, FS_AddElement
<1>4. CASE key \in c.keyMap
  <2> DEFINE p == CHOOSE n \in 1 .. Len(c.keyList) : c.keyList[n] = key
  <2>1. p \in 1 .. Len(list) /\ list[p] = key
    BY <1>1, <1>4 DEF Keys
  <2> DEFINE rest == SubSeq(list, 1, p - 1) \o SubSeq(list, p + 1, Len(list))
             moved == <<key>> \o rest
  <2>2. Localities!Erase(c, key) = rest
    BY <1>4 DEF Localities!Erase, Localities!HasKey, Localities!RemoveAt
  <2>3. new = [keyMap |-> keys, keyList |-> moved]
    <3>1. ~(Cardinality(keys) > maxSize)
      BY <1>1, <1>3, <1>4
    <3> HIDE DEF rest, keys, new
    <3>2. QED
      BY <2>2, <3>1, <1>0
  <2> HIDE DEF p
  <2>4. /\ rest \in Seq(Word) /\ Len(rest) = Len(list) - 1
        /\ \A q \in 1 .. p - 1 : rest[q] = list[q]
        /\ \A q \in p .. Len(list) - 1 : rest[q] = list[q + 1]
    <3> HIDE DEF list
    <3> DEFINE s1 == SubSeq(list, 1, p - 1)
               s2 == SubSeq(list, p + 1, Len(list))
    <3>1. /\ s1 \in Seq(Word) /\ Len(s1) = p - 1 /\ \A q \in 1 .. p - 1 : s1[q] = list[q]
      BY <1>1, <2>1
    <3>2. /\ s2 \in Seq(Word) /\ Len(s2) = Len(list) - p
          /\ \A q \in 1 .. Len(list) - p : s2[q] = list[p + q]
      BY <1>1, <2>1
    <3> HIDE DEF s1, s2
    <3>3. s1 \o s2 \in Seq(Word) /\ Len(s1 \o s2) = Len(list) - 1
      <4>1. s1 \o s2 \in Seq(Word) /\ Len(s1 \o s2) = Len(s1) + Len(s2)
        BY SMTT(30), <3>1, <3>2
      <4>2. QED
        BY <4>1, <3>1, <3>2, <2>1, <1>1
    <3>4. ASSUME NEW q \in 1 .. p - 1 PROVE (s1 \o s2)[q] = list[q]
      BY <1>1, <2>1, <3>1, <3>2
    <3>5. ASSUME NEW q \in p .. Len(list) - 1 PROVE (s1 \o s2)[q] = list[q + 1]
      <4>1. q - (p - 1) \in 1 .. Len(list) - p /\ p + (q - (p - 1)) = q + 1
        BY <1>1, <2>1
      <4>2. (s1 \o s2)[q] = s2[q - (p - 1)]
        BY <1>1, <2>1, <3>1, <3>2
      <4>3. QED
        BY <4>1, <4>2, <3>2
    <3>6. QED
      BY <3>3, <3>4, <3>5 DEF s1, s2
  <2> HIDE DEF rest
  <2>5. /\ moved \in Seq(Word) /\ Len(moved) = Len(list) /\ moved[1] = key
        /\ \A q \in 2 .. Len(list) : moved[q] = rest[q - 1]
    BY <1>1, <2>1, <2>4
  <2> HIDE DEF moved
  <2>6. /\ \A q \in 1 .. p - 1 : moved[q + 1] = list[q]
        /\ \A q \in p + 1 .. Len(list) : moved[q] = list[q]
    <3>1. \A q \in 1 .. p - 1 : q + 1 \in 2 .. Len(list) /\ (q + 1) - 1 = q /\ rest[q] = list[q]
      BY <1>1, <2>1, <2>4
    <3>2. \A q \in p + 1 .. Len(list) : q \in 2 .. Len(list) /\ rest[q - 1] = list[q]
      BY <1>1, <2>1, <2>4
    <3>3. QED
      BY <2>5, <3>1, <3>2
  <2>7. keys = Keys(moved)
    <3>1. ASSUME NEW q \in 1 .. Len(list) PROVE \E r \in 1 .. Len(moved) : moved[r] = list[q]
      <4>1. CASE q < p
        BY <4>1, <1>1, <2>1, <2>5, <2>6
      <4>2. CASE q = p
        BY <4>2, <1>1, <2>1, <2>5
      <4>3. CASE q > p
        BY SMTT(30), <4>3, <1>1, <2>1, <2>5, <2>6
      <4>4. QED
        BY <4>1, <4>2, <4>3, <2>1, <1>1
    <3>2. ASSUME NEW r \in 1 .. Len(moved) PROVE \E q \in 1 .. Len(list) : moved[r] = list[q]
      <4>1. CASE r = 1
        BY <4>1, <2>1, <2>5
      <4>2. CASE r # 1 /\ r <= p
        <5>1. r - 1 \in 1 .. p - 1 /\ r - 1 \in 1 .. Len(list) /\ (r - 1) + 1 = r
          BY <4>2, <1>1, <2>1, <2>5
        <5>2. QED
          BY <5>1, <2>6
      <4>3. CASE r > p
        BY <4>3, <1>1, <2>1, <2>5, <2>6
      <4>4. QED
        BY <4>1, <4>2, <4>3, <2>1, <2>5, <1>1
    <3>3. keys = Keys(list)
      BY <1>1, <1>4
    <3> HIDE DEF list
    <3>4. QED
      BY ZenonT(30), <3>1, <3>2, <3>3 DEF Keys
  <2>8. Moved(c, key, maxSize, new, p)
    BY <1>1, <2>1, <2>3, <2>5, <2>6, <2>7 DEF Moved
  <2>9. QED
    BY <2>8
<1>5. CASE key \notin c.keyMap
  <2> DEFINE whole == <<key>> \o list
  <2>1. Localities!Erase(c, key) = list
    BY <1>5 DEF Localities!Erase, Localities!HasKey
  <2>2. new = IF Len(list) + 1 > maxSize
              THEN [keyMap |-> keys \ {whole[Len(whole)]}, keyList |-> SubSeq(whole, 1, Len(whole) - 1)]
              ELSE [keyMap |-> keys, keyList |-> whole]
    <3> HIDE DEF keys, new, list
    <3>1. QED
      BY <2>1, <1>0, <1>3, <1>5 DEF Localities!Last, Localities!Front
  <2>3. /\ whole \in Seq(Word) /\ Len(whole) = Len(list) + 1 /\ whole[1] = key
        /\ \A q \in 1 .. Len(list) : whole[q + 1] = list[q]
    BY <1>1
  <2> HIDE DEF whole
  <2>4. CASE Len(list) + 1 > maxSize
    <3> DEFINE moved == SubSeq(whole, 1, Len(whole) - 1)
    <3>1. Len(list) = maxSize /\ Len(list) >= 1
      BY <2>4, <1>1
    <3>2. /\ moved \in Seq(Word) /\ Len(moved) = Len(list) /\ moved[1] = key
          /\ \A q \in 1 .. Len(list) - 1 : moved[q + 1] = list[q]
      BY <2>3, <3>1, <1>1
    <3>3. whole[Len(whole)] = list[Len(list)]
      BY <2>3, <3>1, <1>1
    <3>4. new.keyMap = keys \ {list[Len(list)]} /\ new.keyList = moved
      BY <2>2, <2>4, <3>3
    <3> HIDE DEF moved
    <3>5. keys \ {list[Len(list)]} = Keys(moved)
      <4>1. ASSUME NEW q \in 1 .. Len(list), list[q] # list[Len(list)]
            PROVE  \E r \in 1 .. Len(moved) : moved[r] = list[q]
        <5>1. q \in 1 .. Len(list) - 1 /\ q + 1 \in 1 .. Len(moved)
          BY <4>1, <3>1, <3>2, <1>1
        <5>2. QED
          BY <5>1, <3>2
      <4>2. ASSUME NEW r \in 1 .. Len(moved), r # 1
            PROVE  \E q \in 1 .. Len(list) : moved[r] = list[q] /\ list[q] # list[Len(list)]
        <5>1. r - 1 \in 1 .. Len(list) - 1 /\ (r - 1) + 1 = r
          BY <4>2, <3>2, <1>1
        <5>2. moved[r] = list[r - 1] /\ list[r - 1] # list[Len(list)]
          BY <5>1, <3>2, <3>1, <1>1
        <5>3. QED
          BY <5>1, <5>2
      <4>3. key \notin Keys(list) /\ key \in Keys(moved) /\ list[Len(list)] \in Keys(list)
        BY <1>1, <1>5, <3>1, <3>2 DEF Keys
      <4> HIDE DEF list
      <4>4. \A k \in Keys(list) : k # list[Len(list)] => k \in Keys(moved)
        BY <4>1 DEF Keys
      <4>5. \A k \in Keys(moved) : k = key \/ (k \in Keys(list) /\ k # list[Len(list)])
        BY <4>2, <3>2 DEF Keys
      <4>6. keys = Keys(list) \cup {key}
        BY <1>1
      <4>7. QED
        BY <4>3, <4>4, <4>5, <4>6
    <3>6. Moved(c, key, maxSize, new, Len(list))
      BY <1>1, <1>5, <3>1, <3>2, <3>4, <3>5 DEF Moved
    <3>7. QED
      BY <3>6
  <2>5. CASE ~(Len(list) + 1 > maxSize)
    <3>1. new.keyMap = keys /\ new.keyList = whole
      BY <2>2, <2>5
    <3>2. keys = Keys(whole)
      <4>1. \A r \in 1 .. Len(whole) : r = 1 \/ (r - 1 \in 1 .. Len(list) /\ whole[r] = list[r - 1])
        <5>1. ASSUME NEW r \in 1 .. Len(whole), r # 1
              PROVE  r - 1 \in 1 .. Len(list) /\ whole[r] = list[r - 1]
          <6>1. r - 1 \in 1 .. Len(list) /\ (r - 1) + 1 = r
            BY <5>1, <2>3, <1>1
          <6>2. QED
            BY <6>1, <2>3
        <5>2. QED
          BY <5>1
      <4>2. \A q \in 1 .. Len(list) : q + 1 \in 1 .. Len(whole) /\ whole[q + 1] = list[q]
        BY <2>3, <1>1
      <4>3. 1 \in 1 .. Len(whole)
        BY <2>3, <1>1
      <4> HIDE DEF list
      <4>4. QED
        BY SMTT(30), <1>1, <2>3, <4>1, <4>2, <4>3 DEF Keys
    <3>3. Moved(c, key, maxSize, new, Len(list) + 1)
      BY <1>1, <1>5, <2>3, <2>5, <3>1, <3>2 DEF Moved
    <3>4. QED
      BY <3>3
  <2>6. QED
    BY <2>4, <2>5
<1>6. QED
  BY <1>4, <1>5

-----------------------------------------------------------------------------
(* What a cache holds of a trace *)

SeenIn(tr) == {tr[j] : j \in 1 .. Len(tr)}

\* The words accessed at the last access to w or later.
Since(tr, w) ==
    {v \in Word : \E j \in 1 .. Len(tr) : /\ tr[j] = v
                                          /\ \A i \in 1 .. Len(tr) : tr[i] = w => i <= j}

\* The list has the latest words, the latest first, as many as there is room for.
InOrder(tr, c, maxSize) ==
    /\ IsCache(c, maxSize) /\ c.keyMap \subseteq SeenIn(tr)
    /\ \A p \in 1 .. Len(c.keyList) : Since(tr, c.keyList[p]) = {c.keyList[q] : q \in 1 .. p}
    /\ \A w \in SeenIn(tr) : w \notin c.keyMap =>
          c.keyMap \subseteq Since(tr, w) /\ Len(c.keyList) = maxSize

LEMMA SinceNext ==
    ASSUME NEW tr \in Seq(Word), NEW x \in Word
    PROVE  /\ SeenIn(Append(tr, x)) = SeenIn(tr) \cup {x}
           /\ Since(Append(tr, x), x) = {x}
           /\ \A w \in Word \ {x} : Since(Append(tr, x), w) = Since(tr, w) \cup {x}
<1> DEFINE next == Append(tr, x)
           n == Len(tr)
<1>1. /\ n \in Nat /\ Len(next) = n + 1 /\ next[n + 1] = x
      /\ \A j \in 1 .. n : next[j] = tr[j] /\ tr[j] \in Word /\ j \in 1 .. n + 1
      /\ \A j \in 1 .. n + 1 : j \in 1 .. n \/ j = n + 1
      /\ n + 1 \in 1 .. n + 1
      /\ \A j \in 1 .. n : j <= n + 1 /\ ~(n + 1 <= j)
  OBVIOUS
<1> HIDE DEF next, n
<1>2. SeenIn(next) = SeenIn(tr) \cup {x}
  BY <1>1 DEF SeenIn, n
<1>3. Since(next, x) = {x}
  BY <1>1 DEF Since
<1>4. ASSUME NEW w \in Word, w # x PROVE Since(next, w) = Since(tr, w) \cup {x}
  <2>1. ASSUME NEW v \in Since(next, w) PROVE v \in Since(tr, w) \cup {x}
    <3>1. PICK j \in 1 .. n + 1 : next[j] = v /\ \A i \in 1 .. n + 1 : next[i] = w => i <= j
      BY <2>1, <1>1 DEF Since
    <3>2. CASE j = n + 1
      BY <3>1, <3>2, <1>1
    <3>3. CASE j \in 1 .. n
      <4>1. tr[j] = v /\ v \in Word /\ \A i \in 1 .. n : tr[i] = w => i <= j
        BY <3>1, <3>3, <1>1
      <4>2. QED
        BY <4>1, <3>3 DEF Since, n
    <3>4. QED
      BY <3>1, <3>2, <3>3, <1>1
  <2>2. x \in Since(next, w)
    BY <1>1 DEF Since
  <2>3. ASSUME NEW v \in Since(tr, w) PROVE v \in Since(next, w)
    <3>1. PICK j \in 1 .. n : tr[j] = v /\ \A i \in 1 .. n : tr[i] = w => i <= j
      BY <2>3 DEF Since, n
    <3>2. next[j] = v /\ v \in Word /\ j \in 1 .. n + 1
      BY <3>1, <1>1
    <3>3. \A i \in 1 .. n + 1 : next[i] = w => i <= j
      BY <3>1, <1>1, <1>4
    <3>4. QED
      BY <3>2, <3>3, <1>1 DEF Since
  <2>4. QED
    BY <2>1, <2>2, <2>3
<1>5. QED
  BY <1>2, <1>3, <1>4 DEF next

LEMMA InOrderStep ==
    ASSUME NEW tr \in Seq(Word), NEW x \in Word, NEW maxSize \in Nat \ {0},
           NEW c, InOrder(tr, c, maxSize)
    PROVE  InOrder(Append(tr, x), Localities!Put(c, x, maxSize), maxSize)
<1> DEFINE list == c.keyList
           new == Localities!Put(c, x, maxSize)
           moved == new.keyList
           next == Append(tr, x)
<1>1. PICK p : Moved(c, x, maxSize, new, p)
  BY PutMoves DEF InOrder
<1>2. /\ list \in Seq(Word) /\ c.keyMap = Keys(list) /\ Len(list) <= maxSize /\ Len(list) \in Nat
      /\ \A a, b \in 1 .. Len(list) : list[a] = list[b] => a = b
      /\ c.keyMap \subseteq SeenIn(tr)
      /\ \A q \in 1 .. Len(list) : list[q] \in Word
  BY DEF InOrder, IsCache
<1>3. /\ \A q \in 1 .. Len(list) : Since(tr, list[q]) = {list[r] : r \in 1 .. q}
      /\ \A w \in SeenIn(tr) : w \notin c.keyMap => c.keyMap \subseteq Since(tr, w) /\ Len(list) = maxSize
  BY DEF InOrder
<1>4. /\ moved \in Seq(Word) /\ new.keyMap = Keys(moved)
      /\ p \in 1 .. Len(list) + 1 /\ moved[1] = x
      /\ Len(moved) = IF p <= Len(list) THEN Len(list) ELSE Len(list) + 1
      /\ \A q \in 1 .. p - 1 : moved[q + 1] = list[q]
      /\ \A q \in p + 1 .. Len(list) : moved[q] = list[q]
      /\ \/ p <= Len(list) /\ list[p] = x
         \/ x \notin Keys(list) /\ p = Len(list) /\ Len(list) = maxSize
         \/ x \notin Keys(list) /\ p = Len(list) + 1 /\ Len(list) < maxSize
  BY <1>1, <1>2 DEF Moved
<1>5. /\ SeenIn(next) = SeenIn(tr) \cup {x} /\ Since(next, x) = {x}
      /\ \A w \in Word \ {x} : Since(next, w) = Since(tr, w) \cup {x}
  BY SinceNext
<1> HIDE DEF list, new, moved, next
\* Where the other words are in the new list.
<1>6. /\ Len(moved) \in Nat /\ Len(moved) <= maxSize /\ 1 \in 1 .. Len(moved)
      /\ \A q \in 1 .. Len(list) : q # p => list[q] # x
  BY <1>2, <1>4 DEF Keys
<1>7. ASSUME NEW r \in 1 .. Len(moved)
      PROVE  \/ r = 1
             \/ r # 1 /\ r <= p /\ r - 1 \in 1 .. Len(list) /\ r - 1 # p /\ moved[r] = list[r - 1]
             \/ r > p /\ r \in 1 .. Len(list) /\ moved[r] = list[r] /\ list[p] = x /\ p \in 1 .. Len(list)
  <2>1. CASE r # 1 /\ r <= p
    <3>1. r - 1 \in 1 .. p - 1 /\ (r - 1) + 1 = r
      BY <2>1, <1>4, <1>6
    <3>2. moved[(r - 1) + 1] = list[r - 1]
      BY <3>1, <1>4
    <3>3. r - 1 \in 1 .. Len(list) /\ r - 1 # p
      BY <3>1, <1>2, <1>4
    <3>4. QED
      BY <2>1, <3>1, <3>2, <3>3
  <2>2. CASE r > p
    BY <2>2, <1>2, <1>4
  <2>3. QED
    BY <2>1, <2>2, <1>4
<1>13. ASSUME NEW r \in 1 .. Len(moved), r # 1 PROVE moved[r] # x
  <2>1. CASE r <= p
    <3>1. r - 1 \in 1 .. Len(list) /\ r - 1 # p /\ moved[r] = list[r - 1]
      BY <1>13, <2>1, <1>4, <1>7
    <3>2. QED
      BY <3>1, <1>6
  <2>2. CASE r > p
    <3>1. r \in 1 .. Len(list) /\ r # p /\ moved[r] = list[r]
      BY <1>13, <2>2, <1>4, <1>7
    <3>2. QED
      BY <3>1, <1>6
  <2>3. QED
    BY <2>1, <2>2, <1>4
<1>8. IsCache(new, maxSize)
  <2>1. ASSUME NEW a \in 1 .. Len(moved), NEW b \in 1 .. Len(moved), moved[a] = moved[b]
        PROVE  a = b
    <3>1. a = 1 <=> moved[a] = x
      BY <1>4, <1>13
    <3>2. b = 1 <=> moved[b] = x
      BY <1>4, <1>13
    <3>3. CASE a # 1 /\ b # 1
      <4>1. CASE a <= p /\ b <= p
        <5>1. /\ a - 1 \in 1 .. Len(list) /\ moved[a] = list[a - 1]
              /\ b - 1 \in 1 .. Len(list) /\ moved[b] = list[b - 1]
          BY <3>3, <4>1, <1>4, <1>7
        <5>2. a - 1 = b - 1
          BY <5>1, <2>1, <1>2
        <5>3. QED
          BY <5>2
      <4>2. CASE a <= p /\ b > p
        <5>1. /\ a - 1 \in 1 .. Len(list) /\ moved[a] = list[a - 1]
              /\ b \in 1 .. Len(list) /\ moved[b] = list[b]
          BY <3>3, <4>2, <1>4, <1>7
        <5>2. a - 1 = b
          BY <5>1, <2>1, <1>2
        <5>3. QED
          BY <5>2, <4>2, <1>4
      <4>3. CASE a > p /\ b <= p
        <5>1. /\ a \in 1 .. Len(list) /\ moved[a] = list[a]
              /\ b - 1 \in 1 .. Len(list) /\ moved[b] = list[b - 1]
          BY <3>3, <4>3, <1>4, <1>7
        <5>2. a = b - 1
          BY <5>1, <2>1, <1>2
        <5>3. QED
          BY <5>2, <4>3, <1>4
      <4>4. CASE a > p /\ b > p
        <5>1. /\ a \in 1 .. Len(list) /\ moved[a] = list[a]
              /\ b \in 1 .. Len(list) /\ moved[b] = list[b]
          BY <3>3, <4>4, <1>4, <1>7
        <5>2. QED
          BY <5>1, <2>1, <1>2
      <4>5. QED
        BY <4>1, <4>2, <4>3, <4>4, <1>4
    <3>4. QED
      BY <3>1, <3>2, <3>3, <2>1
  <2>2. QED
    BY <2>1, <1>4, <1>6 DEF IsCache, moved
<1>9. new.keyMap \subseteq SeenIn(next)
  <2>1. ASSUME NEW r \in 1 .. Len(moved) PROVE moved[r] \in SeenIn(tr) \cup {x}
    <3>1. \A q \in 1 .. Len(list) : list[q] \in SeenIn(tr)
      BY <1>2 DEF Keys
    <3>2. QED
      BY <3>1, <1>4, <1>7
  <2>2. QED
    BY <2>1, <1>4, <1>5 DEF Keys
<1>10. ASSUME NEW r \in 1 .. Len(moved)
       PROVE  Since(next, moved[r]) = {moved[q] : q \in 1 .. r}
  <2>1. CASE r = 1
    <3>1. {moved[q] : q \in 1 .. 1} = {x}
      BY <1>4
    <3>2. QED
      BY <3>1, <2>1, <1>4, <1>5
  <2>2. CASE r # 1 /\ r <= p
    <3>1. r - 1 \in 1 .. Len(list) /\ r - 1 # p /\ moved[r] = list[r - 1]
      BY <2>2, <1>4, <1>7
    <3>2. Since(next, moved[r]) = {list[q] : q \in 1 .. r - 1} \cup {x}
      BY <3>1, <1>2, <1>3, <1>5, <1>6
    <3>3. \A q \in 1 .. r : q = 1 \/ (q - 1 \in 1 .. r - 1 /\ moved[q] = list[q - 1])
      <4>1. ASSUME NEW q \in 1 .. r, q # 1 PROVE q - 1 \in 1 .. r - 1 /\ moved[q] = list[q - 1]
        BY <4>1, <2>2, <1>4, <1>6, <1>7
      <4>2. QED
        BY <4>1
    <3>4. \A q \in 1 .. r - 1 : q + 1 \in 1 .. r /\ moved[q + 1] = list[q]
      BY <2>2, <1>4, <1>6
    <3>5. 1 \in 1 .. r
      BY <1>6
    <3>6. {list[q] : q \in 1 .. r - 1} \cup {x} = {moved[q] : q \in 1 .. r}
      <4>1. ASSUME NEW k \in {moved[q] : q \in 1 .. r}
            PROVE  k \in {list[q] : q \in 1 .. r - 1} \cup {x}
        <5>1. PICK q \in 1 .. r : k = moved[q]
          BY <4>1
        <5>2. CASE q = 1
          BY <5>1, <5>2, <1>4
        <5>3. CASE q # 1
          BY <5>1, <5>3, <3>3
        <5>4. QED
          BY <5>2, <5>3
      <4>2. ASSUME NEW k \in {list[q] : q \in 1 .. r - 1}
            PROVE  k \in {moved[q] : q \in 1 .. r}
        <5>1. PICK q \in 1 .. r - 1 : k = list[q]
          OBVIOUS
        <5>2. q + 1 \in 1 .. r /\ moved[q + 1] = k
          BY <5>1, <3>4
        <5>3. QED
          BY <5>2
      <4>3. x \in {moved[q] : q \in 1 .. r}
        BY <3>5, <1>4
      <4>4. QED
        BY <4>1, <4>2, <4>3
    <3>7. QED
      BY <3>2, <3>6
  <2>3. CASE r > p
    <3>1. /\ r \in 1 .. Len(list) /\ moved[r] = list[r] /\ list[p] = x /\ p \in 1 .. Len(list)
          /\ p \in 1 .. r
      BY <2>3, <1>4, <1>7
    <3>2. Since(next, moved[r]) = {list[q] : q \in 1 .. r} \cup {x}
      <4>1. list[r] \in Word \ {x}
        BY <3>1, <2>3, <1>2, <1>4, <1>6
      <4>2. Since(next, list[r]) = Since(tr, list[r]) \cup {x}
        BY <4>1, <1>5
      <4>3. QED
        BY <4>2, <3>1, <1>3
    <3>3. ASSUME NEW q \in 1 .. r PROVE moved[q] = x \/ \E s \in 1 .. r : moved[q] = list[s]
      <4>1. q \in 1 .. Len(moved)
        BY <1>6
      <4>2. CASE q = 1
        BY <4>2, <1>4
      <4>3. CASE q # 1 /\ q <= p
        <5>1. q - 1 \in 1 .. r /\ moved[q] = list[q - 1]
          BY <4>1, <4>3, <3>1, <2>3, <1>4, <1>7
        <5>2. QED
          BY <5>1
      <4>4. CASE q > p
        BY <4>1, <4>4, <1>4, <1>7
      <4>5. QED
        BY <4>2, <4>3, <4>4, <1>4
    <3>4. ASSUME NEW q \in 1 .. r PROVE \E s \in 1 .. r : moved[s] = list[q]
      <4>1. CASE q < p
        <5>1. q + 1 \in 1 .. r /\ moved[q + 1] = list[q]
          BY <4>1, <3>1, <2>3, <1>4
        <5>2. QED
          BY <5>1
      <4>2. CASE q = p
        BY <4>2, <3>1, <1>4, <1>6
      <4>3. CASE q > p
        BY <4>3, <3>1, <1>4
      <4>4. QED
        BY <4>1, <4>2, <4>3, <1>4
    <3>5. {list[q] : q \in 1 .. r} \cup {x} = {moved[q] : q \in 1 .. r}
      <4>1. ASSUME NEW k \in {moved[q] : q \in 1 .. r}
            PROVE  k \in {list[q] : q \in 1 .. r} \cup {x}
        BY <3>3
      <4>2. ASSUME NEW k \in {list[q] : q \in 1 .. r}
            PROVE  k \in {moved[q] : q \in 1 .. r}
        BY <3>4
      <4>3. x \in {moved[q] : q \in 1 .. r}
        BY <1>4, <1>6
      <4>4. QED
        BY <4>1, <4>2, <4>3
    <3>6. QED
      BY <3>2, <3>5
  <2>4. QED
    BY <2>1, <2>2, <2>3, <1>4
<1>11. ASSUME NEW w \in SeenIn(next), w \notin new.keyMap
       PROVE  new.keyMap \subseteq Since(next, w) /\ Len(moved) = maxSize
  <2>1. x \in new.keyMap
    BY <1>4, <1>6 DEF Keys
  <2>2. w # x /\ w \in SeenIn(tr) /\ w \in Word
    <3>1. w # x /\ w \in SeenIn(tr)
      BY <2>1, <1>11, <1>5
    <3>2. QED
      BY <3>1 DEF SeenIn
  <2>3. Since(next, w) = Since(tr, w) \cup {x}
    BY <2>2, <1>5
  <2>4. new.keyMap \subseteq Keys(list) \cup {x}
    <3>1. ASSUME NEW r \in 1 .. Len(moved) PROVE moved[r] \in Keys(list) \cup {x}
      BY <1>4, <1>7 DEF Keys
    <3>2. QED
      BY <3>1, <1>4 DEF Keys
  <2>5. CASE w \notin c.keyMap
    BY <2>2, <2>3, <2>4, <2>5, <1>2, <1>3, <1>4
  <2>6. CASE w \in c.keyMap
    <3>1. PICK q \in 1 .. Len(list) : list[q] = w
      BY <2>6, <1>2 DEF Keys
    <3>2. q = p
      <4>1. CASE q < p
        <5>1. q + 1 \in 1 .. Len(moved) /\ moved[q + 1] = w
          BY <4>1, <3>1, <1>2, <1>4
        <5>2. QED
          BY <5>1, <1>11, <1>4 DEF Keys
      <4>2. CASE q > p
        <5>1. q \in 1 .. Len(moved) /\ moved[q] = w
          BY SMTT(30), <4>2, <3>1, <1>2, <1>4
        <5>2. QED
          BY <5>1, <1>11, <1>4 DEF Keys
      <4>3. QED
        BY <4>1, <4>2, <1>4
    <3>3. p = Len(list) /\ Len(list) = maxSize
      BY <3>1, <3>2, <2>2, <1>2, <1>4
    <3>4. Since(tr, w) = Keys(list)
      BY <3>1, <3>2, <3>3, <1>3 DEF Keys
    <3>5. QED
      BY <3>3, <3>4, <2>3, <2>4, <1>4
  <2>7. QED
    BY <2>5, <2>6
<1>12. QED
  BY <1>8, <1>9, <1>10, <1>11 DEF InOrder, moved, next, new

\* A cache has a word just if at most maxSize words were accessed since.
LEMMA HasKeyIs ==
    ASSUME NEW tr \in Seq(Word), NEW maxSize \in Nat \ {0}, NEW c, InOrder(tr, c, maxSize),
           NEW x \in Word
    PROVE  /\ x \in c.keyMap => x \in SeenIn(tr)
           /\ x \in SeenIn(tr) => /\ Cardinality(Since(tr, x)) \in Nat \ {0}
                                  /\ x \in c.keyMap <=> Cardinality(Since(tr, x)) <= maxSize
<1> DEFINE list == c.keyList
<1>1. /\ list \in Seq(Word) /\ c.keyMap = Keys(list) /\ Len(list) <= maxSize /\ Len(list) \in Nat
      /\ \A a, b \in 1 .. Len(list) : list[a] = list[b] => a = b
      /\ c.keyMap \subseteq SeenIn(tr)
  BY DEF InOrder, IsCache
<1>6. \A q \in 1 .. Len(list) : Since(tr, list[q]) = {list[r] : r \in 1 .. q}
  BY DEF InOrder
<1>5. \A w \in SeenIn(tr) : w \notin c.keyMap => c.keyMap \subseteq Since(tr, w) /\ Len(list) = maxSize
  BY DEF InOrder
<1> HIDE DEF list
<1>2. ASSUME x \in c.keyMap
      PROVE  Cardinality(Since(tr, x)) \in Nat \ {0} /\ Cardinality(Since(tr, x)) <= maxSize
  <2>1. PICK q \in 1 .. Len(list) : list[q] = x
    BY <1>1, <1>2 DEF Keys
  <2>2. q \in 0 .. Len(list) /\ q \in Nat \ {0} /\ q <= maxSize
    BY <1>1
  <2>3. Cardinality({list[r] : r \in 1 .. q}) = q
    BY <1>1, <2>2, KeysCount
  <2>4. QED
    BY <2>1, <2>2, <2>3, <1>6
<1>3. ASSUME x \in SeenIn(tr), x \notin c.keyMap
      PROVE  Cardinality(Since(tr, x)) \in Nat \ {0} /\ ~(Cardinality(Since(tr, x)) <= maxSize)
  <2>1. IsFiniteSet(SeenIn(tr))
    <3>1. IsFiniteSet(1 .. Len(tr))
      BY FS_Interval
    <3> DEFINE f == [j \in 1 .. Len(tr) |-> tr[j]]
    <3>2. f \in Surjection(1 .. Len(tr), SeenIn(tr))
      BY DEF Surjection, SeenIn
    <3> HIDE DEF f
    <3>3. QED
      BY <3>1, <3>2, FS_Surjection
  <2>2. Since(tr, x) \in SUBSET SeenIn(tr)
    BY DEF Since, SeenIn
  <2>3. IsFiniteSet(Since(tr, x))
    BY <2>1, <2>2, FS_Subset
  <2>4. x \in Since(tr, x)
    <3> DEFINE at == {j \in 1 .. Len(tr) : tr[j] = x}
    <3>1. at # {} /\ at \in SUBSET (0 .. Len(tr)) /\ Len(tr) \in Nat
      BY <1>3 DEF SeenIn
    <3> HIDE DEF at
    <3>2. PICK m \in at : \A k \in at : k <= m
      BY <3>1, GreatestExists
    <3>3. QED
      BY <3>2 DEF Since, at
  <2>5. c.keyMap \cup {x} \in SUBSET Since(tr, x) /\ Len(list) = maxSize
    BY <2>4, <1>3, <1>5
  <2>6. IsFiniteSet(c.keyMap) /\ Cardinality(c.keyMap) = Len(list)
    <3>1. PICK n : n = Len(list) /\ n \in 0 .. Len(list)
      BY <1>1
    <3>2. IsFiniteSet({list[q] : q \in 1 .. n}) /\ Cardinality({list[q] : q \in 1 .. n}) = n
      BY <3>1, <1>1, KeysCount
    <3>3. c.keyMap = {list[q] : q \in 1 .. n}
      BY <3>1, <1>1 DEF Keys
    <3>4. QED
      BY <3>1, <3>2, <3>3
  <2>7. Cardinality(c.keyMap \cup {x}) = maxSize + 1
    BY <2>5, <2>6, <1>3, FS_AddElement
  <2>8. Cardinality(c.keyMap \cup {x}) <= Cardinality(Since(tr, x))
    BY <2>3, <2>5, FS_Subset
  <2>9. Cardinality(Since(tr, x)) \in Nat
    BY <2>3, FS_CardinalityType
  <2>10. QED
    BY <2>7, <2>8, <2>9
<1>4. QED
  BY <1>1, <1>2, <1>3

-----------------------------------------------------------------------------
(* TemporalLocality: the histogram of stack distances *)

InOrders == \A i \in Localities!Level : InOrder(words, caches[i], Localities!MaxSize(i))

Histogram ==
    \A i \in Localities!Level :
        reuseDiff[i] = Cardinality({k \in Localities!Reused :
                                      Localities!LevelOf(Localities!StackDistance(k)) = i})

LEMMA LevelsAre ==
    /\ Levels \in Nat \ {0, 1} /\ Localities!Level = 0 .. Levels - 1
    /\ Localities!log2N = Levels - 1 /\ Localities!log2N \in Localities!Level
    /\ \A i, j \in Localities!Level : /\ Localities!MaxSize(i) \in Nat \ {0}
                                      /\ i <= j => Localities!MaxSize(i) <= Localities!MaxSize(j)
<1>1. /\ Levels \in Nat \ {0, 1} /\ Localities!Level = 0 .. Levels - 1
      /\ Localities!log2N = Levels - 1 /\ Localities!log2N \in Localities!Level
  BY ComponentAssumptions DEF Localities!SizeAssumption, Localities!Level, Localities!log2N
<1>2. ASSUME NEW i \in Localities!Level, NEW j \in Localities!Level
      PROVE  /\ Localities!MaxSize(i) \in Nat \ {0}
             /\ i <= j => Localities!MaxSize(i) <= Localities!MaxSize(j)
  <2>1. i \in Nat /\ j \in Nat
    BY <1>1
  <2>2. /\ Localities!CacheSize[i] \in Nat \ {0} /\ Localities!CacheSize[j] \in Nat \ {0}
        /\ i <= j => Localities!CacheSize[i] <= Localities!CacheSize[j]
    BY <2>1, CacheSizesAscend
  <2>3. QED
    BY <2>2 DEF Localities!MaxSize
<1>3. QED
  BY <1>1, <1>2

LEMMA InOrdersStep ==
    ASSUME words \in Seq(Word), InOrders, NEW w \in Word, Adds(w)
    PROVE  InOrders'
<1>1. ASSUME NEW i \in Localities!Level
      PROVE  InOrder(Append(words, w), Localities!Put(caches[i], w, Localities!MaxSize(i)),
                     Localities!MaxSize(i))
  BY <1>1, InOrderStep, LevelsAre DEF InOrders
<1>2. /\ words' = Append(words, w)
      /\ caches' = [i \in Localities!Level |-> Localities!Put(caches[i], w, Localities!MaxSize(i))]
  BY DEF Adds, Localities!AddTemporal
<1>3. ASSUME NEW i \in Localities!Level
      PROVE  InOrder(words', caches'[i], Localities!MaxSize(i))
  BY <1>1, <1>2
<1>4. QED
  BY <1>3 DEF InOrders

\* The latest of a set of positions, and StackDistance of access k in a trace.
Latest(S) == CHOOSE j \in S : \A i \in S : i <= j

DistanceIn(tr, k) ==
    LET before == {j \in 1 .. k - 1 : tr[j] = tr[k]}
    IN IF before = {} THEN 0 ELSE Cardinality({tr[j] : j \in Latest(before) .. k - 1})

LEMMA StackDistanceIs == \A k \in Nat : Localities!StackDistance(k) = DistanceIn(words, k)
  BY SameCardinality DEF Localities!StackDistance, DistanceIn, Latest

LEMMA LatestIs ==
    ASSUME NEW n \in Nat, NEW S \in SUBSET (1 .. n), S # {}
    PROVE  Latest(S) \in S /\ \A i \in S : i <= Latest(S)
<1>1. S \in SUBSET (0 .. n)
  OBVIOUS
<1>2. \E j \in S : \A i \in S : i <= j
  BY <1>1, GreatestExists
<1>3. QED
  BY <1>2 DEF Latest

LEMMA DistanceNext ==
    ASSUME NEW tr \in Seq(Word), NEW w \in Word
    PROVE  /\ DistanceIn(Append(tr, w), Len(tr) + 1) =
                IF w \in SeenIn(tr) THEN Cardinality(Since(tr, w)) ELSE 0
           /\ \A k \in 1 .. Len(tr) : DistanceIn(Append(tr, w), k) = DistanceIn(tr, k)
<1> DEFINE n == Len(tr)
           next == Append(tr, w)
<1>1. /\ n \in Nat /\ next[n + 1] = w /\ (n + 1) - 1 = n
      /\ \A j \in 1 .. n : next[j] = tr[j] /\ tr[j] \in Word
  OBVIOUS
<1> HIDE DEF n, next
<1>2. ASSUME NEW k \in 1 .. n PROVE DistanceIn(next, k) = DistanceIn(tr, k)
  <2> DEFINE before == {j \in 1 .. k - 1 : tr[j] = tr[k]}
             beforeNow == {j \in 1 .. k - 1 : next[j] = next[k]}
  <2>0. k \in Nat /\ k - 1 \in Nat /\ \A j \in 1 .. k - 1 : j \in 1 .. n
    BY <1>1
  <2>1. before = beforeNow
    BY <1>1, <2>0
  <2>2. /\ DistanceIn(tr, k) =
             IF before = {} THEN 0 ELSE Cardinality({tr[j] : j \in Latest(before) .. k - 1})
        /\ DistanceIn(next, k) =
             IF beforeNow = {} THEN 0 ELSE Cardinality({next[j] : j \in Latest(beforeNow) .. k - 1})
    BY DEF DistanceIn
  <2>3. before \in SUBSET (1 .. k - 1)
    OBVIOUS
  <2> HIDE DEF before, beforeNow
  <2>4. ASSUME before # {}
        PROVE  {tr[j] : j \in Latest(before) .. k - 1} = {next[j] : j \in Latest(before) .. k - 1}
    <3>1. Latest(before) \in 1 .. k - 1
      BY <2>0, <2>3, <2>4, LatestIs
    <3>2. \A j \in Latest(before) .. k - 1 : tr[j] = next[j]
      BY <3>1, <1>1
    <3>3. QED
      BY <3>2
  <2>5. CASE before = {}
    BY <2>1, <2>2, <2>5
  <2>6. CASE before # {}
    <3>1. DistanceIn(next, k) = Cardinality({next[j] : j \in Latest(before) .. k - 1})
      BY <2>1, <2>2, <2>6
    <3>2. QED
      BY <3>1, <2>2, <2>4, <2>6
  <2>7. QED
    BY <2>5, <2>6
<1>3. DistanceIn(next, n + 1) = IF w \in SeenIn(tr) THEN Cardinality(Since(tr, w)) ELSE 0
  <2> DEFINE before == {j \in 1 .. n : tr[j] = w}
             beforeNow == {j \in 1 .. (n + 1) - 1 : next[j] = next[n + 1]}
  <2>1. before = beforeNow
    BY <1>1
  <2>2. DistanceIn(next, n + 1) =
          IF beforeNow = {} THEN 0
          ELSE Cardinality({next[j] : j \in Latest(beforeNow) .. (n + 1) - 1})
    BY DEF DistanceIn
  <2>3. before = {} <=> w \notin SeenIn(tr)
    BY DEF SeenIn, n
  <2>4. ASSUME before # {}
        PROVE  {next[j] : j \in Latest(before) .. n} = Since(tr, w)
    <3>1. /\ Latest(before) \in 1 .. n /\ tr[Latest(before)] = w
          /\ \A i \in 1 .. n : tr[i] = w => i <= Latest(before)
      <4>1. before \in SUBSET (1 .. n)
        OBVIOUS
      <4>2. Latest(before) \in before /\ \A i \in before : i <= Latest(before)
        <5> HIDE DEF before
        <5> QED BY <4>1, <2>4, <1>1, LatestIs
      <4>3. QED
        BY <4>2
    <3> HIDE DEF before
    <3>2. ASSUME NEW j \in Latest(before) .. n
          PROVE  next[j] \in Since(tr, w)
      <4>1. j \in 1 .. n /\ next[j] = tr[j] /\ tr[j] \in Word
        BY <3>1, <1>1
      <4>2. \A i \in 1 .. n : tr[i] = w => i <= j
        BY <3>1, <1>1
      <4>3. QED
        BY <4>1, <4>2 DEF Since, n
    <3>3. ASSUME NEW v \in Since(tr, w)
          PROVE  \E j \in Latest(before) .. n : next[j] = v
      <4>1. PICK j \in 1 .. n : tr[j] = v /\ \A i \in 1 .. n : tr[i] = w => i <= j
        BY <3>3 DEF Since, n
      <4>2. j \in Latest(before) .. n /\ next[j] = v
        BY <4>1, <3>1, <1>1
      <4>3. QED
        BY <4>2
    <3>4. QED
      BY <3>2, <3>3
  <2> HIDE DEF before, beforeNow
  <2>5. QED
    BY <2>1, <2>2, <2>3, <2>4, <1>1
<1>4. QED
  BY <1>2, <1>3 DEF n, next

LEMMA StackDistanceNext ==
    ASSUME words \in Seq(Word), NEW w \in Word, words' = Append(words, w), NEW n, n = Len(words)
    PROVE  /\ Localities!StackDistance(n + 1)' =
                IF w \in SeenIn(words) THEN Cardinality(Since(words, w)) ELSE 0
           /\ \A k \in 1 .. n : Localities!StackDistance(k)' = Localities!StackDistance(k)
<1>1. n \in Nat /\ \A k \in 1 .. n : k \in Nat
  OBVIOUS
<1>2. (\A k \in Nat : Localities!StackDistance(k) = DistanceIn(words, k))'
  BY StackDistanceIs, PTL
<1>3. \A k \in Nat : Localities!StackDistance(k)' = DistanceIn(words', k)
  BY <1>2
<1>4. QED
  BY <1>1, <1>3, StackDistanceIs, DistanceNext

\* The first cache that has a word is the smallest that its distance fits.
LEMMA HitLevelIs ==
    ASSUME words \in Seq(Word), InOrders, NEW w \in Word, NEW i \in Localities!Level,
           NEW d, d = IF w \in SeenIn(words) THEN Cardinality(Since(words, w)) ELSE 0
    PROVE  /\ d \in Nat
           /\ Localities!HitLevel(w, i) <=> /\ d \in 1 .. Localities!MaxSize(Localities!log2N)
                                            /\ Localities!LevelOf(d) = i
<1> DEFINE size(j) == Localities!MaxSize(j)
           has(j) == Localities!HasKey(caches[j], w)
<1>1. ASSUME NEW j \in Localities!Level
      PROVE  d \in Nat /\ size(j) \in Nat \ {0} /\ (has(j) <=> d \in 1 .. size(j))
  <2>1. InOrder(words, caches[j], size(j)) /\ size(j) \in Nat \ {0}
    BY LevelsAre DEF InOrders
  <2>2. /\ w \in caches[j].keyMap => w \in SeenIn(words)
        /\ w \in SeenIn(words) =>
             /\ Cardinality(Since(words, w)) \in Nat \ {0}
             /\ w \in caches[j].keyMap <=> Cardinality(Since(words, w)) <= size(j)
    BY <2>1, HasKeyIs
  <2>3. has(j) <=> w \in caches[j].keyMap
    BY DEF Localities!HasKey
  <2>4. CASE w \in SeenIn(words)
    BY <2>1, <2>2, <2>3, <2>4
  <2>5. CASE w \notin SeenIn(words)
    BY <2>1, <2>2, <2>3, <2>5
  <2>6. QED
    BY <2>4, <2>5
<1>2. i \in Nat /\ \A j \in 0 .. i - 1 : j \in Localities!Level /\ j <= i
  BY LevelsAre
<1> HIDE DEF size, has
<1>3. Localities!HitLevel(w, i) <=> has(i) /\ \A j \in 0 .. i - 1 : ~has(j)
  BY DEF Localities!HitLevel, has
<1> DEFINE fits(m) == d <= size(m) /\ \A j \in 0 .. m - 1 : d > size(j)
<1>4. Localities!LevelOf(d) = CHOOSE m \in Localities!Level : fits(m)
  BY DEF Localities!LevelOf, size
<1>5. \A l, m \in Localities!Level : fits(l) /\ fits(m) => l = m
  <2> SUFFICES ASSUME NEW l \in Localities!Level, NEW m \in Localities!Level,
                      fits(l), fits(m), l # m
               PROVE  FALSE
    OBVIOUS
  <2>0. l \in Int /\ m \in Int /\ d \in Int /\ size(l) \in Int /\ size(m) \in Int
        /\ 0 <= l /\ 0 <= m
    BY <1>1, LevelsAre
  <2>1. CASE l < m
    <3>1. l \in 0 .. m - 1
      BY <2>0, <2>1
    <3>2. d > size(l)
      BY <3>1
    <3>3. QED
      BY <3>2, <2>0
  <2>2. CASE m < l
    <3>1. m \in 0 .. l - 1
      BY <2>0, <2>2
    <3>2. d > size(m)
      BY <3>1
    <3>3. QED
      BY <3>2, <2>0
  <2>3. QED
    BY <2>0, <2>1, <2>2
<1>6. ASSUME d \in 1 .. size(Localities!log2N) PROVE \E m \in Localities!Level : fits(m)
  <2> DEFINE S == {m \in Localities!Level : d <= size(m)}
  <2>1. S # {} /\ S \in SUBSET Nat
    BY <1>6, LevelsAre
  <2> HIDE DEF S
  <2>2. PICK m \in S : \A k \in S : m <= k
    BY <2>1, LeastExists
  <2>3. m \in Localities!Level /\ d <= size(m)
    BY <2>2 DEF S
  <2>4. ASSUME NEW j \in 0 .. m - 1 PROVE d > size(j)
    <3>1. j \in Localities!Level /\ ~(m <= j)
      BY <2>3, LevelsAre
    <3>2. ~(d <= size(j))
      BY <3>1, <2>2 DEF S
    <3>3. size(j) \in Nat /\ d \in Nat
      BY <3>1, <1>1
    <3>4. QED
      BY <3>2, <3>3
  <2>5. QED
    BY <2>3, <2>4
<1>7. size(i) <= size(Localities!log2N) /\ size(Localities!log2N) \in Nat /\ d \in Nat
      /\ size(i) \in Nat
  <2>1. i <= Localities!log2N
    BY LevelsAre
  <2>2. QED
    BY <2>1, <1>1, LevelsAre DEF size
<1>8. ASSUME has(i), \A j \in 0 .. i - 1 : ~has(j)
      PROVE  d \in 1 .. size(Localities!log2N) /\ Localities!LevelOf(d) = i
  <2>1. d \in 1 .. size(i) /\ d \in 1 .. size(Localities!log2N)
    BY <1>1, <1>7, <1>8
  <2>2. \A j \in 0 .. i - 1 : d > size(j)
    <3> TAKE j \in 0 .. i - 1
    <3>1. d \notin 1 .. size(j) /\ size(j) \in Nat
      BY <1>1, <1>2, <1>8
    <3>2. QED
      BY <3>1, <2>1, <1>7
  <2>3. fits(i)
    BY <2>1, <2>2, <1>7
  <2> HIDE DEF fits
  <2>4. QED
    BY <2>1, <2>3, <1>4, <1>5
<1>9. ASSUME d \in 1 .. size(Localities!log2N), Localities!LevelOf(d) = i
      PROVE  has(i) /\ \A j \in 0 .. i - 1 : ~has(j)
  <2>1. fits(i)
    <3> HIDE DEF fits
    <3> QED BY <1>4, <1>6, <1>9
  <2>2. has(i)
    BY <2>1, <1>1, <1>7, <1>9
  <2>3. ASSUME NEW j \in 0 .. i - 1 PROVE ~has(j)
    <3>1. d > size(j) /\ size(j) \in Nat
      BY <2>1, <1>1, <1>2
    <3>2. QED
      BY <3>1, <1>1, <1>2, <1>7
  <2>4. QED
    BY <2>2, <2>3
<1>10. QED
  BY <1>3, <1>7, <1>8, <1>9 DEF size

LEMMA HistogramStep ==
    ASSUME LocalityTyped, InOrders, Histogram, NEW w \in Word, Adds(w)
    PROVE  Histogram' /\ reuseDiff' \in [Localities!Level -> Nat]
<1>1. /\ words \in Seq(Word) /\ reuseDiff \in [Localities!Level -> Nat]
      /\ words' = Append(words, w)
      /\ reuseDiff' = [i \in Localities!Level |->
                         reuseDiff[i] + (IF Localities!HitLevel(w, i) THEN 1 ELSE 0)]
  BY DEF LocalityTyped, Localities!TypeOK, Adds, Localities!AddTemporal
<1>2. PICK n : n = Len(words)
  OBVIOUS
<1>3. n \in Nat /\ Len(words') = n + 1
  BY <1>1, <1>2
<1>4. PICK d : d = IF w \in SeenIn(words) THEN Cardinality(Since(words, w)) ELSE 0
  OBVIOUS
<1>5. /\ Localities!StackDistance(n + 1)' = d
      /\ \A k \in 1 .. n : Localities!StackDistance(k)' = Localities!StackDistance(k)
  BY <1>1, <1>2, <1>4, StackDistanceNext
<1>6. ASSUME NEW i \in Localities!Level
      PROVE  reuseDiff'[i] = Cardinality({k \in Localities!Reused' :
                               Localities!LevelOf(Localities!StackDistance(k)') = i})
  <2> DEFINE largest == Localities!MaxSize(Localities!log2N)
             old == {k \in Localities!Reused : Localities!LevelOf(Localities!StackDistance(k)) = i}
             new == {k \in Localities!Reused' : Localities!LevelOf(Localities!StackDistance(k)') = i}
  <2>1. Localities!Reused = {k \in 1 .. n : Localities!StackDistance(k) \in 1 .. largest}
    BY <1>2 DEF Localities!Reused
  <2>2. Localities!Reused' = {k \in 1 .. n + 1 : Localities!StackDistance(k)' \in 1 .. largest}
    BY <1>3 DEF Localities!Reused
  <2>3. Localities!HitLevel(w, i) <=> d \in 1 .. largest /\ Localities!LevelOf(d) = i
    BY <1>1, <1>4, HitLevelIs
  <2>4. /\ \A k \in 1 .. n + 1 : k \in 1 .. n \/ k = n + 1
        /\ \A k \in 1 .. n : k \in 1 .. n + 1 /\ k # n + 1
        /\ n + 1 \in 1 .. n + 1
    BY <1>3
  <2> HIDE DEF largest
  <2>5. old \in SUBSET (1 .. n)
    BY <2>1
  <2>6. n + 1 \in new <=> Localities!HitLevel(w, i)
    BY <2>2, <2>3, <2>4, <1>5
  <2>7. \A k \in 1 .. n : k \in new <=> k \in old
    BY <2>1, <2>2, <2>4, <1>5
  <2>8. new \in SUBSET (1 .. n + 1)
    BY <2>2
  <2> HIDE DEF old, new
  <2>9. new = old \/ new = old \cup {n + 1}
    BY <2>4, <2>5, <2>7, <2>8
  <2>10. Cardinality(new) = (IF n + 1 \in new THEN Cardinality(old) + 1 ELSE Cardinality(old))
         /\ Cardinality(old) \in Nat
    BY <2>5, <2>9, <1>3, CountNext
  <2>11. reuseDiff[i] = Cardinality(old)
    BY DEF Histogram, old
  <2>12. reuseDiff'[i] = Cardinality(new)
    BY <2>6, <2>10, <2>11, <1>1
  <2>13. QED
    BY <2>12 DEF new
<1>7. QED
  BY <1>1, <1>6 DEF Histogram

-----------------------------------------------------------------------------
(* getValue: the two figures are shares of the accesses *)

LEMMA ScaleIs == Localities!Scale \in Nat \ {0}
<1> DEFINE D == 1 .. StrideSize
           times == [p \in Nat \X Nat |-> p[1] * p[2]]
           first == [s \in SUBSET D |-> CHOOSE x \in s : TRUE]
           self == [x \in D |-> x]
           IsProduct(g) == g = [s \in SUBSET D |->
                                  IF s = {} THEN 1
                                  ELSE (CHOOSE x \in s : TRUE) * g[s \ {CHOOSE x \in s : TRUE}]]
           h == CHOOSE g : IsProduct(g)
<1>1. IsFiniteSet(D)
  BY ComponentAssumptions, FS_Interval DEF Localities!SizeAssumption
<1>2. \A s \in SUBSET D : s # {} => first[s] \in s /\ first[s] = CHOOSE x \in s : TRUE
  OBVIOUS
<1>3. times \in [Nat \X Nat -> Nat] /\ \A m, n \in Nat : times[<<m, n>>] = m * n
  OBVIOUS
<1>4. \A x \in D : self[x] = x /\ self[x] \in Nat /\ x \in Nat \ {0}
  OBVIOUS
<1> HIDE DEF times, first, self
<1>5. PICK g \in [SUBSET D -> Nat] : Folds(g, times, 1, self, first, D)
  <2> HIDE DEF D
  <2> QED BY <1>1, <1>2, <1>3, <1>4, FoldExists
<1>6. IsProduct(g)
  <2>1. ASSUME NEW s \in SUBSET D, s # {}
        PROVE  times[<<self[first[s]], g[s \ {first[s]}]>>] = first[s] * g[s \ {first[s]}]
    <3>1. first[s] \in D /\ s \ {first[s]} \in SUBSET D
      BY <1>2, <2>1
    <3> HIDE DEF D
    <3>2. QED
      BY <3>1, <1>3, <1>4, <1>5
  <2>2. \A s \in SUBSET D : g[s] = IF s = {} THEN 1 ELSE first[s] * g[s \ {first[s]}]
    BY <1>5, <2>1 DEF Folds
  <2> HIDE DEF D
  <2>3. \A s \in SUBSET D :
          g[s] = IF s = {} THEN 1
                 ELSE (CHOOSE x \in s : TRUE) * g[s \ {CHOOSE x \in s : TRUE}]
    BY <2>2, <1>2
  <2>4. QED
    BY <2>3, <1>5
<1>7. IsProduct(h)
  <2> HIDE DEF IsProduct
  <2> QED BY <1>6
<1>8. Localities!Scale = h[D]
  BY DEF Localities!Scale, Localities!ProductSet, Localities!FoldSet, Localities!MapThenFoldSet
<1> HIDE DEF h, D
<1>9. \A s \in SUBSET D : h[s] \in Nat \ {0}
  <2> DEFINE Bad == {n \in Nat : \E s \in SUBSET D : Cardinality(s) = n /\ h[s] \notin Nat \ {0}}
  <2>1. \A s \in SUBSET D : Cardinality(s) \in Nat
    BY <1>1, FS_Subset, FS_CardinalityType
  <2> SUFFICES ASSUME Bad # {} PROVE FALSE
    BY <2>1
  <2>2. PICK m \in Bad : \A k \in Bad : m <= k
    <3> HIDE DEF Bad
    <3> QED BY LeastExists DEF Bad
  <2>3. PICK s \in SUBSET D : Cardinality(s) = m /\ h[s] \notin Nat \ {0}
    BY <2>2
  <2> DEFINE x == CHOOSE z \in s : TRUE
  <2>4. s # {}
    BY <2>3, <1>7
  <2>5. x \in s /\ h[s] = x * h[s \ {x}]
    BY <2>4, <1>7
  <2> HIDE DEF x
  <2>6. /\ Cardinality(s) \in Nat \ {0} /\ s \ {x} \in SUBSET D
        /\ Cardinality(s \ {x}) = Cardinality(s) - 1
    BY <2>5, <1>1, WithoutOne
  <2>7. h[s \ {x}] \in Nat \ {0}
    BY <2>2, <2>3, <2>6
  <2>8. x \in Nat \ {0}
    BY <2>5, <1>4
  <2>9. \A a, b \in Nat \ {0} : a * b \in Nat \ {0}
    OBVIOUS
  <2>10. QED
    BY <2>3, <2>5, <2>7, <2>8, <2>9
<1>10. QED
  BY <1>8, <1>9

\* The sums of the figures, of numbers F[i].
LEMMA SumChosen ==
    ASSUME NEW F, NEW S, IsNumbers(F, S), NEW h, IsSum(h, F, S)
    PROVE  h[S] = Sum(F, S)
  BY SumIs

LEMMA SpatialIs ==
    ASSUME stride \in [0 .. StrideSize - 1 -> Nat], NEW D, D = 0 .. StrideSize - 1,
           NEW F, F = [i \in D |-> stride[i] * (Localities!Scale \div (i + 1))]
    PROVE  Localities!SpatialValue.num = Sum(F, D) /\ IsNumbers(F, D)
<1> DEFINE IsFold(g) == g = [s \in SUBSET D |->
               IF s = {} THEN 0
               ELSE stride[CHOOSE x \in s : TRUE] * (Localities!Scale \div ((CHOOSE x \in s : TRUE) + 1))
                    + g[s \ {CHOOSE x \in s : TRUE}]]
           h == CHOOSE g : IsFold(g)
<1>1. IsFiniteSet(D)
  BY ComponentAssumptions, FS_Interval DEF Localities!SizeAssumption
<1>2. ASSUME NEW i \in D PROVE F[i] \in Nat
  <2>1. i \in Nat /\ stride[i] \in Nat
    OBVIOUS
  <2>2. Localities!Scale \div (i + 1) \in Nat
    BY <2>1, ScaleIs
  <2>3. QED
    BY <2>1, <2>2
<1>3. IsNumbers(F, D)
  BY <1>1, <1>2 DEF IsNumbers
<1>4. \A s \in SUBSET D : s # {} => (CHOOSE x \in s : TRUE) \in D
  OBVIOUS
<1>5. \A g : IsFold(g) <=> IsSum(g, F, D)
  <2> SUFFICES ASSUME NEW g PROVE IsFold(g) <=> IsSum(g, F, D)
    OBVIOUS
  <2> DEFINE a(s) == IF s = {} THEN 0
                     ELSE stride[CHOOSE x \in s : TRUE] * (Localities!Scale \div ((CHOOSE x \in s : TRUE) + 1))
                          + g[s \ {CHOOSE x \in s : TRUE}]
             b(s) == IF s = {} THEN 0
                     ELSE F[CHOOSE x \in s : TRUE] + g[s \ {CHOOSE x \in s : TRUE}]
  <2>1. \A s \in SUBSET D : a(s) = b(s)
    BY <1>4
  <2>2. IsFold(g) <=> g = [s \in SUBSET D |-> a(s)]
    OBVIOUS
  <2>3. IsSum(g, F, D) <=> g = [s \in SUBSET D |-> b(s)]
    BY DEF IsSum
  <2> HIDE DEF a, b, IsFold
  <2>4. QED
    BY <2>1, <2>2, <2>3
<1>6. IsFold(h)
  <2> HIDE DEF IsFold
  <2>1. \E g : IsFold(g)
    BY <1>3, <1>5, SumExists
  <2>2. QED
    BY <2>1
<1>7. Localities!SpatialValue.num = h[D]
  BY DEF Localities!SpatialValue, Localities!MapThenSumSet, Localities!MapThenFoldSet
<1> HIDE DEF h, IsFold
<1>8. QED
  BY <1>3, <1>5, <1>6, <1>7, SumChosen

LEMMA TemporalIs ==
    ASSUME reuseDiff \in [Localities!Level -> Nat], NEW D, D = 2 .. Localities!log2N,
           NEW F, F = [i \in D |-> reuseDiff[i] * (Localities!log2N - i)]
    PROVE  /\ Localities!TemporalValue.num = reuseDiff[1] * Localities!log2N + Sum(F, D)
           /\ IsNumbers(F, D)
<1> DEFINE IsFold(g) == g = [s \in SUBSET D |->
               IF s = {} THEN 0
               ELSE reuseDiff[CHOOSE x \in s : TRUE] * (Localities!log2N - (CHOOSE x \in s : TRUE))
                    + g[s \ {CHOOSE x \in s : TRUE}]]
           h == CHOOSE g : IsFold(g)
<1>0. /\ Levels \in Nat \ {0, 1} /\ Localities!Level = 0 .. Levels - 1
      /\ Localities!log2N = Levels - 1
  BY LevelsAre
<1>1. IsFiniteSet(D)
  BY <1>0, FS_Interval
<1>2. ASSUME NEW i \in D PROVE F[i] \in Nat
  <2>1. i \in Localities!Level /\ Localities!log2N - i \in Nat
    BY <1>0
  <2>2. reuseDiff[i] \in Nat
    BY <2>1
  <2>3. QED
    BY <2>1, <2>2
<1>3. IsNumbers(F, D)
  BY <1>1, <1>2 DEF IsNumbers
<1>4. \A s \in SUBSET D : s # {} => (CHOOSE x \in s : TRUE) \in D
  OBVIOUS
<1>5. \A g : IsFold(g) <=> IsSum(g, F, D)
  <2> SUFFICES ASSUME NEW g PROVE IsFold(g) <=> IsSum(g, F, D)
    OBVIOUS
  <2> DEFINE a(s) == IF s = {} THEN 0
                     ELSE reuseDiff[CHOOSE x \in s : TRUE] * (Localities!log2N - (CHOOSE x \in s : TRUE))
                          + g[s \ {CHOOSE x \in s : TRUE}]
             b(s) == IF s = {} THEN 0
                     ELSE F[CHOOSE x \in s : TRUE] + g[s \ {CHOOSE x \in s : TRUE}]
  <2>1. \A s \in SUBSET D : a(s) = b(s)
    BY <1>4
  <2>2. IsFold(g) <=> g = [s \in SUBSET D |-> a(s)]
    OBVIOUS
  <2>3. IsSum(g, F, D) <=> g = [s \in SUBSET D |-> b(s)]
    BY DEF IsSum
  <2> HIDE DEF a, b, IsFold
  <2>4. QED
    BY <2>1, <2>2, <2>3
<1>6. IsFold(h)
  <2> HIDE DEF IsFold
  <2>1. \E g : IsFold(g)
    BY <1>3, <1>5, SumExists
  <2>2. QED
    BY <2>1
<1>7. Localities!TemporalValue.num = reuseDiff[1] * Localities!log2N + h[D]
  BY DEF Localities!TemporalValue, Localities!MapThenSumSet, Localities!MapThenFoldSet
<1> HIDE DEF h, IsFold
<1>8. QED
  BY <1>3, <1>5, <1>6, <1>7, SumChosen

LEMMA WeightsAre ==
    ASSUME NEW R, R \in SUBSET (1 .. Len(words)), words \in Seq(Word), R = Localities!Reused,
           NEW F, F = [k \in R |-> Localities!Weight(Localities!LevelOf(Localities!StackDistance(k)))],
           IsNumbers(F, R)
    PROVE  Localities!MapThenSumSet(
               LAMBDA k : Localities!Weight(Localities!LevelOf(Localities!StackDistance(k))), R)
             = Sum(F, R)
<1> DEFINE weight(k) == Localities!Weight(Localities!LevelOf(Localities!StackDistance(k)))
           IsFold(g) == g = [s \in SUBSET R |->
               IF s = {} THEN 0
               ELSE weight(CHOOSE x \in s : TRUE) + g[s \ {CHOOSE x \in s : TRUE}]]
           h == CHOOSE g : IsFold(g)
<1>1. \A s \in SUBSET R : s # {} => (CHOOSE x \in s : TRUE) \in R
  OBVIOUS
<1>2. Localities!MapThenSumSet(
               LAMBDA k : Localities!Weight(Localities!LevelOf(Localities!StackDistance(k))), R) = h[R]
  BY DEF Localities!MapThenSumSet, Localities!MapThenFoldSet
<1>3. \A k \in R : F[k] = weight(k)
  OBVIOUS
<1> HIDE DEF weight
<1>4. \A g : IsFold(g) <=> IsSum(g, F, R)
  <2>1. \A s \in SUBSET R : s # {} => F[CHOOSE x \in s : TRUE] = weight(CHOOSE x \in s : TRUE)
    BY <1>1, <1>3
  <2> SUFFICES ASSUME NEW g PROVE IsFold(g) <=> IsSum(g, F, R)
    OBVIOUS
  <2> DEFINE a(s) == IF s = {} THEN 0
                     ELSE weight(CHOOSE x \in s : TRUE) + g[s \ {CHOOSE x \in s : TRUE}]
             b(s) == IF s = {} THEN 0
                     ELSE F[CHOOSE x \in s : TRUE] + g[s \ {CHOOSE x \in s : TRUE}]
  <2>2. \A s \in SUBSET R : a(s) = b(s)
    BY <2>1
  <2>3. IsFold(g) <=> g = [s \in SUBSET R |-> a(s)]
    OBVIOUS
  <2>4. IsSum(g, F, R) <=> g = [s \in SUBSET R |-> b(s)]
    BY DEF IsSum
  <2> HIDE DEF a, b, IsFold
  <2>5. QED
    BY <2>2, <2>3, <2>4
<1>5. IsFold(h)
  <2> HIDE DEF IsFold
  <2>1. \E g : IsFold(g)
    BY <1>4, SumExists
  <2>2. QED
    BY <2>1
<1> HIDE DEF h, IsFold
<1>6. h[R] = Sum(F, R)
  BY <1>4, <1>5, SumChosen
<1>7. QED
  BY <1>2, <1>6

LEMMA LevelTyped ==
    ASSUME NEW d \in 1 .. Localities!MaxSize(Localities!log2N)
    PROVE  Localities!LevelOf(d) \in Localities!Level
<1> DEFINE S == {m \in Localities!Level : d <= Localities!MaxSize(m)}
<1>0. d \in Nat /\ \A j \in Localities!Level : Localities!MaxSize(j) \in Nat
  BY LevelsAre
<1>1. S # {} /\ S \in SUBSET Nat
  BY LevelsAre
<1> HIDE DEF S
<1>2. PICK m \in S : \A k \in S : m <= k
  BY <1>1, LeastExists
<1>3. m \in Localities!Level /\ d <= Localities!MaxSize(m)
  BY <1>2 DEF S
<1>4. ASSUME NEW j \in 0 .. m - 1 PROVE d > Localities!MaxSize(j)
  <2>1. j \in Localities!Level /\ ~(m <= j)
    BY <1>3, LevelsAre
  <2>2. ~(d <= Localities!MaxSize(j))
    BY <2>1, <1>2 DEF S
  <2>3. QED
    BY <2>1, <2>2, <1>0
<1>5. QED
  BY <1>3, <1>4 DEF Localities!LevelOf

\* No access is counted at two strides.
Shares == Sum(stride, 0 .. StrideSize - 1) <= accessCount

LEMMA SharesStep ==
    ASSUME LocalityTyped, Ring, Shares, NEW w \in Word, Adds(w)
    PROVE  Shares'
<1> DEFINE D == 0 .. StrideSize - 1
           far == Localities!Distance(window[windowIndex] - w)
<1>1. IsFiniteSet(D) /\ StrideSize \in Nat
  BY ComponentAssumptions, FS_Interval DEF Localities!SizeAssumption
<1>2. stride \in [D -> Nat] /\ accessCount \in Nat
  BY DEF LocalityTyped, Localities!TypeOK
<1>3. far \in Nat
  <2>0. PICK n : n = Len(words)
    OBVIOUS
  <2>1. window[windowIndex] - w \in Int
    BY <2>0, ApartIs, WordsAreNatural
  <2>2. QED
    BY <2>1, DistanceIs
<1>4. /\ stride' = IF far < StrideSize THEN [stride EXCEPT ![far] = @ + 1] ELSE stride
      /\ accessCount' = accessCount + 1
  BY DEF Adds, Localities!AddSpatial
<1>5. Sum(stride, D) \in Nat /\ Sum(stride, D) <= accessCount
  <2>1. IsNumbers(stride, D)
    BY <1>1, <1>2 DEF IsNumbers
  <2>2. PICK g \in [SUBSET D -> Nat] : IsSum(g, stride, D)
    BY <2>1, SumExists
  <2>3. Sum(stride, D) \in Nat
    BY <2>1, <2>2, SumIs
  <2>4. QED
    BY <2>3 DEF Shares
<1>6. Sum(stride', D) \in {Sum(stride, D), Sum(stride, D) + 1}
  <2>1. CASE far < StrideSize
    <3>1. far \in D
      BY <1>1, <1>3, <2>1
    <3> HIDE DEF D, far
    <3>2. Sum([stride EXCEPT ![far] = @ + 1], D) = Sum(stride, D) + 1
      BY <3>1, <1>1, <1>2, SumAddsOne
    <3>3. QED
      BY <3>2, <2>1, <1>4
  <2>2. CASE ~(far < StrideSize)
    BY <2>2, <1>4
  <2>3. QED
    BY <2>1, <2>2
<1>7. Sum(stride', D) <= accessCount'
  <2> HIDE DEF D
  <2> QED BY <1>2, <1>4, <1>5, <1>6
<1>8. QED
  BY <1>7 DEF Shares

LEMMA SpatialShare ==
    ASSUME LocalityTyped, Shares
    PROVE  /\ Localities!SpatialValue.num \in 0 .. Localities!SpatialValue.den
           /\ Localities!SpatialValue.den = 0 <=> words = <<>>
<1> DEFINE D == 0 .. StrideSize - 1
           scale == Localities!Scale
           F == [i \in D |-> stride[i] * (Localities!Scale \div (i + 1))]
<1>1. IsFiniteSet(D) /\ StrideSize \in Nat
  BY ComponentAssumptions, FS_Interval DEF Localities!SizeAssumption
<1>2. /\ stride \in [D -> Nat] /\ words \in Seq(Word) /\ accessCount = Len(words)
      /\ accessCount \in Nat
  BY DEF LocalityTyped, Localities!TypeOK
<1>3. scale \in Nat \ {0}
  BY ScaleIs
<1>4. Localities!SpatialValue.num = Sum(F, D) /\ IsNumbers(F, D)
  BY <1>2, SpatialIs
<1>5. IsNumbers(stride, D)
  BY <1>1, <1>2 DEF IsNumbers
<1> HIDE DEF scale
<1>6. ASSUME NEW i \in D PROVE F[i] <= scale * stride[i]
  <2>1. i \in Nat /\ stride[i] \in Nat
    BY <1>2
  <2>2. scale \div (i + 1) \in Nat /\ scale \div (i + 1) <= scale
    BY <2>1, <1>3
  <2>3. \A a, b, c \in Nat : b <= c => a * b <= c * a
    <3>1. \A a, b, k \in Nat : (b + k) * a = b * a + k * a /\ k * a \in Nat /\ b * a \in Nat
      OBVIOUS
    <3> SUFFICES ASSUME NEW a \in Nat, NEW b \in Nat, NEW c \in Nat, b <= c
                 PROVE  a * b <= c * a
      OBVIOUS
    <3>2. PICK k \in Nat : c = b + k
      <4>1. c - b \in Nat /\ c = b + (c - b)
        OBVIOUS
      <4>2. QED
        BY <4>1
    <3>3. a * b = b * a
      OBVIOUS
    <3>4. c * a = b * a + k * a /\ k * a \in Nat /\ b * a \in Nat
      BY <3>1, <3>2
    <3>5. QED
      BY <3>3, <3>4
  <2>4. F[i] = stride[i] * (scale \div (i + 1))
    BY DEF scale
  <2>5. QED
    BY <2>1, <2>2, <2>3, <2>4, <1>3
<1>7. /\ Sum(F, D) \in Nat /\ Sum(stride, D) \in Nat /\ Sum(stride, D) <= accessCount
  <2> HIDE DEF D, F
  <2>1. PICK g \in [SUBSET D -> Nat] : IsSum(g, F, D)
    BY <1>4, SumExists
  <2>2. PICK h \in [SUBSET D -> Nat] : IsSum(h, stride, D)
    BY <1>5, SumExists
  <2>3. Sum(F, D) \in Nat /\ Sum(stride, D) \in Nat
    BY <2>1, <2>2, <1>4, <1>5, SumIs
  <2>4. QED
    BY <2>3 DEF Shares, D
<1>8. Sum(F, D) <= scale * Sum(stride, D)
  <2> HIDE DEF D, F
  <2> QED BY <1>3, <1>4, <1>5, <1>6, SumScaled
<1> HIDE DEF D, F
<1>9. Localities!SpatialValue.den = scale * accessCount
  BY DEF Localities!SpatialValue, scale
<1>10. scale * Sum(stride, D) <= scale * accessCount
  <2>1. PICK k \in Nat : accessCount = Sum(stride, D) + k
    <3>1. accessCount - Sum(stride, D) \in Nat
      BY <1>2, <1>7
    <3>2. accessCount = Sum(stride, D) + (accessCount - Sum(stride, D))
      BY <1>2, <1>7
    <3>3. QED
      BY <3>1, <3>2
  <2>2. \A a, b, c \in Nat : a * (b + c) = a * b + a * c /\ a * b \in Nat /\ a * c \in Nat
    OBVIOUS
  <2>3. QED
    BY <2>1, <2>2, <1>3, <1>7
<1>11. scale * accessCount \in Nat /\ scale * Sum(stride, D) \in Nat
  BY <1>2, <1>3, <1>7
<1>12. Localities!SpatialValue.num \in 0 .. Localities!SpatialValue.den
  BY <1>4, <1>7, <1>8, <1>9, <1>10, <1>11
<1>13. scale * accessCount = 0 <=> accessCount = 0
  <2>1. \A a, b \in Nat \ {0} : a * b \in Nat \ {0}
    OBVIOUS
  <2>2. scale * 0 = 0
    BY <1>3
  <2>3. QED
    BY <2>1, <2>2, <1>2, <1>3
<1>14. accessCount = 0 <=> words = <<>>
  BY <1>2
<1>15. QED
  BY <1>9, <1>12, <1>13, <1>14

LEMMA SharesInit == Localities!Init => Shares
<1> SUFFICES ASSUME Localities!Init PROVE Shares
  OBVIOUS
<1> DEFINE D == 0 .. StrideSize - 1
<1>1. stride = [d \in D |-> 0] /\ accessCount = 0
  BY DEF Localities!Init
<1>2. IsFiniteSet(D)
  BY ComponentAssumptions, FS_Interval DEF Localities!SizeAssumption
<1>3. \A d \in D : stride[d] = 0
  BY <1>1
<1>4. Sum(stride, D) = 0
  <2> HIDE DEF D
  <2> QED BY <1>2, <1>3, SumOfZeros
<1>5. QED
  BY <1>1, <1>4 DEF Shares

LEMMA SumOfOnes ==
    ASSUME NEW S, IsFiniteSet(S)
    PROVE  Sum([x \in S |-> 1], S) = Cardinality(S)
<1> DEFINE L == [x \in S |-> 0]
           W == [i \in {0} |-> 1]
           G == [i \in {0} |-> Cardinality(AtLevel(S, L, i)) * W[i]]
<1>1. L \in [S -> {0}] /\ W \in [{0} -> Nat] /\ Cardinality(S) \in Nat /\ IsFiniteSet({0})
  BY FS_CardinalityType, FS_Singleton
<1>2. AtLevel(S, L, 0) = S
  BY DEF AtLevel
<1>3. [x \in S |-> W[L[x]]] = [x \in S |-> 1]
  OBVIOUS
<1>4. G[0] = Cardinality(S) /\ IsNumbers(G, {0})
  <2>1. G[0] = Cardinality(S) * 1
    BY <1>2
  <2> HIDE DEF G
  <2>2. QED
    BY <2>1, <1>1 DEF IsNumbers
<1> HIDE DEF L, W
<1>5. Sum([x \in S |-> 1], S) = Sum(G, {0})
  BY <1>1, <1>3, SumByLevel
<1> HIDE DEF G
<1>6. Sum(G, {0}) = G[0] + Sum(G, {0} \ {0}) /\ {0} \ {0} = {}
  BY <1>4, SumNext
<1>7. QED
  BY <1>1, <1>4, <1>5, <1>6, SumEmpty

\* The loop of getValue begins with the third entry; the first has no part in it.
LEMMA WithoutFirst ==
    ASSUME NEW n \in Nat \ {0}, NEW F, IsNumbers(F, 0 .. n), F[0] = 0
    PROVE  Sum(F, 0 .. n) = F[1] + Sum(F, 2 .. n)
<1>1. (0 .. n) \ {0} = 1 .. n /\ (1 .. n) \ {1} = 2 .. n /\ 0 \in 0 .. n /\ 1 \in 1 .. n
  OBVIOUS
<1>2. IsNumbers(F, 1 .. n)
  <2>1. 1 .. n \in SUBSET (0 .. n)
    OBVIOUS
  <2>2. QED
    BY <2>1, FS_Subset DEF IsNumbers
<1>3. Sum(F, 0 .. n) = F[0] + Sum(F, 1 .. n) /\ Sum(F, 1 .. n) \in Nat
  BY <1>1, SumNext
<1>4. Sum(F, 1 .. n) = F[1] + Sum(F, 2 .. n)
  BY <1>1, <1>2, SumNext
<1>5. QED
  BY <1>3, <1>4

LEMMA TemporalShare ==
    ASSUME LocalityTyped, Histogram
    PROVE  /\ Localities!TemporalValue.num \in 0 .. Localities!TemporalValue.den
           /\ Localities!TemporalValue.den = 0 <=> words = <<>>
           /\ Localities!TemporalValue.num =
                Localities!MapThenSumSet(
                  LAMBDA k : Localities!Weight(Localities!LevelOf(Localities!StackDistance(k))),
                  Localities!Reused)
<1> DEFINE R == Localities!Reused
           D == Localities!Level
           level(k) == Localities!LevelOf(Localities!StackDistance(k))
           L == [k \in R |-> level(k)]
           W == [i \in D |-> Localities!Weight(i)]
           top == Localities!log2N
           F == [k \in R |-> W[L[k]]]
           G == [i \in D |-> Cardinality(AtLevel(R, L, i)) * W[i]]
<1>1. /\ words \in Seq(Word) /\ Len(words) \in Nat /\ reuseDiff \in [D -> Nat]
      /\ totalAccesses = Len(words)
  BY DEF LocalityTyped, Localities!TypeOK
<1>2. top \in Nat \ {0} /\ D = 0 .. top
  BY LevelsAre
<1>3. /\ R \in SUBSET (1 .. Len(words)) /\ IsFiniteSet(R) /\ Cardinality(R) \in Nat
      /\ Cardinality(R) <= Len(words)
  <2>1. R \in SUBSET (1 .. Len(words))
    BY DEF Localities!Reused
  <2>2. IsFiniteSet(1 .. Len(words)) /\ Cardinality(1 .. Len(words)) = Len(words)
    <3>1. \A n \in Nat : IsFiniteSet(1 .. n) /\ Cardinality(1 .. n) = n
      <4>1. \A n \in Nat : (IF 1 > n THEN 0 ELSE n - 1 + 1) = n
        OBVIOUS
      <4>2. QED
        BY <4>1, FS_Interval
    <3>2. QED
      BY <3>1, <1>1
  <2> HIDE DEF R
  <2>3. QED
    BY <2>1, <2>2, FS_Subset, FS_CardinalityType
<1>4. L \in [R -> D]
  <2>1. \A k \in R : Localities!StackDistance(k) \in 1 .. Localities!MaxSize(Localities!log2N)
    BY DEF Localities!Reused
  <2>2. QED
    BY <2>1, LevelTyped
<1>5. /\ W \in [D -> Nat] /\ W[0] = 0 /\ W[1] = top
      /\ \A i \in 2 .. top : W[i] = top - i
      /\ \A i \in D : W[i] <= top
  <2>1. \A i \in D : W[i] = IF i = 0 THEN 0 ELSE IF i = 1 THEN top ELSE top - i
    BY DEF Localities!Weight
  <2> HIDE DEF D, W, top
  <2>2. \A i \in 0 .. top : W[i] \in Nat /\ W[i] <= top
    BY <2>1, <1>2
  <2>3. 0 \in D /\ 1 \in D /\ \A i \in 2 .. top : i \in D /\ i # 0 /\ i # 1
    BY <1>2
  <2>4. W = [i \in D |-> W[i]]
    BY DEF W
  <2>5. QED
    BY <2>1, <2>2, <2>3, <2>4, <1>2
<1>6. IsFiniteSet(D)
  BY <1>2, FS_Interval
<1>7. \A i \in D : AtLevel(R, L, i) = {k \in R : level(k) = i}
  BY DEF AtLevel
<1>8. \A i \in D : Cardinality(AtLevel(R, L, i)) = reuseDiff[i]
  BY <1>7 DEF Histogram
<1>9. \A k \in R : F[k] = Localities!Weight(level(k)) /\ F[k] \in Nat /\ F[k] <= top
  BY <1>4, <1>5
<1>10. F = [k \in R |-> Localities!Weight(level(k))]
  BY <1>4
<1> HIDE DEF R, D, L, W, level, top
<1>11. \A i \in D : G[i] = reuseDiff[i] * W[i] /\ G[i] \in Nat
  <2>1. \A m, n \in Nat : m * n \in Nat
    OBVIOUS
  <2>2. QED
    BY <2>1, <1>1, <1>5, <1>8
<1>12. Sum(F, R) = Sum(G, D)
  BY <1>3, <1>4, <1>5, <1>6, SumByLevel
<1> HIDE DEF F, G
<1>13. IsNumbers(F, R) /\ IsNumbers(G, D)
  BY <1>3, <1>6, <1>9, <1>11 DEF IsNumbers
<1>14. Localities!TemporalValue.num = Sum(G, D)
  <2> DEFINE E == 2 .. Localities!log2N
             H == [i \in E |-> reuseDiff[i] * (Localities!log2N - i)]
  <2>1. /\ Localities!TemporalValue.num = reuseDiff[1] * Localities!log2N + Sum(H, E)
        /\ IsNumbers(H, E)
    BY <1>1, TemporalIs DEF D
  <2>2. G[0] = 0 /\ G[1] = reuseDiff[1] * top
    <3>1. 0 \in D /\ 1 \in D
      BY <1>2
    <3>2. \A m \in Nat : m * 0 = 0
      OBVIOUS
    <3>3. QED
      BY <3>1, <3>2, <1>1, <1>5, <1>11
  <2>3. \A i \in E : H[i] = G[i]
    <3>1. \A i \in E : i \in D /\ H[i] = reuseDiff[i] * (top - i)
      BY <1>2 DEF top
    <3>2. \A i \in E : W[i] = top - i
      BY <1>5 DEF top
    <3> HIDE DEF E, H
    <3>3. QED
      BY <3>1, <3>2, <1>11
  <2> HIDE DEF H
  <2>4. Sum(H, E) = Sum(G, E)
    <3> HIDE DEF E
    <3> QED BY <2>1, <2>3, SumEqual
  <2>5. Sum(G, D) = G[1] + Sum(G, E)
    BY <1>2, <1>13, <2>2, WithoutFirst DEF top
  <2>6. QED
    BY <2>1, <2>2, <2>4, <2>5 DEF top
<1>15. Localities!MapThenSumSet(
           LAMBDA k : Localities!Weight(Localities!LevelOf(Localities!StackDistance(k))),
           Localities!Reused) = Sum(F, R)
  BY <1>1, <1>3, <1>10, <1>13, WeightsAre DEF R, level
<1>16. Sum(F, R) \in Nat /\ Sum(F, R) <= top * Cardinality(R)
  <2> DEFINE ones == [k \in R |-> 1]
  <2>1. IsNumbers(ones, R)
    BY <1>3 DEF IsNumbers
  <2>2. Sum(ones, R) = Cardinality(R)
    BY <1>3, SumOfOnes
  <2>3. \A k \in R : ones[k] = 1
    OBVIOUS
  <2> HIDE DEF ones
  <2>4. \A k \in R : F[k] <= top * ones[k]
    BY <2>3, <1>2, <1>9
  <2>5. Sum(F, R) <= top * Sum(ones, R)
    BY <2>1, <2>4, <1>2, <1>13, SumScaled
  <2>6. PICK g \in [SUBSET R -> Nat] : IsSum(g, F, R)
    BY <1>13, SumExists
  <2>7. Sum(F, R) \in Nat
    BY <2>6, <1>13, SumIs
  <2>8. QED
    BY <2>2, <2>5, <2>7
<1>17. /\ top * Cardinality(R) <= top * Len(words) /\ top * Len(words) \in Nat
       /\ top * Cardinality(R) \in Nat
       /\ top * Len(words) = 0 <=> Len(words) = 0
  <2> DEFINE c == Cardinality(R)
             l == Len(words)
  <2>1. c \in Nat /\ l \in Nat /\ c <= l
    BY <1>1, <1>3
  <2> HIDE DEF c, l
  <2>2. PICK k \in Nat : l = c + k
    <3>1. l - c \in Nat /\ l = c + (l - c)
      BY <2>1
    <3>2. QED
      BY <3>1
  <2>3. \A a, b, d \in Nat : a * (b + d) = a * b + a * d /\ a * b \in Nat /\ a * d \in Nat
    OBVIOUS
  <2>4. top * c <= top * l /\ top * l \in Nat /\ top * c \in Nat
    <3>1. top * l = top * c + top * k /\ top * c \in Nat /\ top * k \in Nat
      BY <1>2, <2>1, <2>2, <2>3
    <3>2. QED
      BY <3>1
  <2>5. \A a, b \in Nat \ {0} : a * b \in Nat \ {0}
    OBVIOUS
  <2>6. top * 0 = 0
    BY <1>2
  <2>7. top * l = 0 <=> l = 0
    BY <1>2, <2>1, <2>5, <2>6
  <2>8. QED
    BY <2>4, <2>7 DEF c, l
<1>18. Localities!TemporalValue.den = top * Len(words)
  BY <1>1 DEF Localities!TemporalValue, top
<1>19. Len(words) = 0 <=> words = <<>>
  BY <1>1
<1>20. QED
  BY <1>12, <1>14, <1>15, <1>16, <1>17, <1>18, <1>19

LEMMA FiguresShow ==
    ASSUME LocalityTyped, Histogram, Shares
    PROVE  FiguresAreShares
  BY SpatialShare, TemporalShare DEF FiguresAreShares, Localities!FiguresAreShares

LEMMA SharesUnchanged == Shares /\ UNCHANGED localityVars => Shares'
<1> SUFFICES ASSUME Shares, UNCHANGED localityVars PROVE Shares'
  OBVIOUS
<1>1. UNCHANGED <<stride, accessCount>>
  BY DEF localityVars
<1>2. QED
  BY <1>1 DEF Shares

-----------------------------------------------------------------------------
(* getLocalities as a whole *)

LocalityInv == LocalityTyped /\ Ring /\ Strides /\ Shares /\ InOrders /\ Histogram

LEMMA LocalityInit == Localities!Init => LocalityInv
<1> SUFFICES ASSUME Localities!Init PROVE LocalityInv
  OBVIOUS
<1>1. /\ words = <<>> /\ stride = [d \in 0 .. StrideSize - 1 |-> 0]
      /\ window = [i \in 0 .. WindowSize - 1 |-> 0] /\ windowIndex = 0 /\ accessCount = 0
      /\ caches = [i \in Localities!Level |-> [keyMap |-> {}, keyList |-> <<>>]]
      /\ reuseDiff = [i \in Localities!Level |-> 0] /\ totalAccesses = 0
  BY DEF Localities!Init
<1>2. WindowSize \in Nat \ {0} /\ StrideSize \in Nat
  BY ComponentAssumptions DEF Localities!SizeAssumption
<1>3. /\ words \in Seq(Word) /\ Len(words) = 0
  BY <1>1
<1>4. Localities!TypeOK
  <2>1. \A i \in Localities!Level : /\ caches[i].keyMap \subseteq Localities!Words
                                    /\ caches[i].keyList \in Seq(Localities!Words)
    <3>1. ASSUME NEW i \in Localities!Level
          PROVE  caches[i].keyMap = {} /\ caches[i].keyList = <<>>
      BY <1>1
    <3>2. <<>> \in Seq(Localities!Words)
      OBVIOUS
    <3>3. QED
      BY <3>1, <3>2
  <2>2. /\ window \in [0 .. WindowSize - 1 -> Localities!Words \cup {0}]
        /\ windowIndex \in 0 .. WindowSize - 1
        /\ stride \in [0 .. StrideSize - 1 -> Nat] /\ reuseDiff \in [Localities!Level -> Nat]
    BY <1>1, <1>2
  <2>3. QED
    BY <1>1, <1>3, <2>1, <2>2 DEF Localities!TypeOK
<1>5. Ring
  BY <1>1, <1>2, <1>3 DEF Ring, PlaceOf
<1>6. Strides
  <2>1. ASSUME NEW d \in 0 .. StrideSize - 1
        PROVE  stride[d] = Cardinality({k \in 1 .. Len(words) : Localities!TakenFor(k, d)})
    <3>1. {k \in 1 .. Len(words) : Localities!TakenFor(k, d)} = {}
      BY <1>3
    <3>2. QED
      BY <3>1, <1>1, FS_EmptySet
  <2>2. QED
    BY <2>1 DEF Strides
<1>7. InOrders
  <2> DEFINE empty == [keyMap |-> {}, keyList |-> <<>>]
  <2>1. ASSUME NEW i \in Localities!Level PROVE InOrder(words, empty, Localities!MaxSize(i))
    <3>1. Localities!MaxSize(i) \in Nat \ {0}
      BY LevelsAre
    <3>2. IsCache(empty, Localities!MaxSize(i))
      BY <3>1 DEF IsCache, Keys
    <3>3. SeenIn(words) = {}
      BY <1>3 DEF SeenIn
    <3>4. QED
      BY <3>2, <3>3 DEF InOrder
  <2>2. QED
    BY <2>1, <1>1 DEF InOrders
<1>8. Histogram
  <2>1. Localities!Reused = {}
    BY <1>3 DEF Localities!Reused
  <2>2. ASSUME NEW i \in Localities!Level
        PROVE  reuseDiff[i] = Cardinality({k \in Localities!Reused :
                                Localities!LevelOf(Localities!StackDistance(k)) = i})
    <3>1. {k \in Localities!Reused : Localities!LevelOf(Localities!StackDistance(k)) = i} = {}
      BY <2>1
    <3>2. QED
      BY <3>1, <1>1, FS_EmptySet
  <2>3. QED
    BY <2>2 DEF Histogram
<1>9. QED
  BY <1>3, <1>4, <1>5, <1>6, <1>7, <1>8, SharesInit DEF LocalityInv, LocalityTyped

LEMMA LocalityStep == LocalityInv /\ Localities!Next => LocalityInv'
<1> SUFFICES ASSUME LocalityInv, NEW addr \in Addr, Localities!Add(addr) PROVE LocalityInv'
  BY DEF Localities!Next
<1>1. PICK w \in Word : Adds(w)
  BY DEF Localities!Add, Adds, Word, Localities!Words
<1>2. LocalityTyped /\ Ring /\ Strides /\ Shares /\ InOrders /\ Histogram /\ words \in Seq(Word)
  BY DEF LocalityInv, LocalityTyped
<1>3. /\ Ring' /\ window' \in [0 .. WindowSize - 1 -> Word \cup {0}]
      /\ windowIndex' \in 0 .. WindowSize - 1
  BY <1>1, <1>2, RingStep
<1>4. Strides' /\ Shares' /\ stride' \in [0 .. StrideSize - 1 -> Nat]
  BY <1>1, <1>2, StridesStep, SharesStep
<1>5. InOrders'
  BY <1>1, <1>2, InOrdersStep
<1>6. Histogram' /\ reuseDiff' \in [Localities!Level -> Nat]
  BY <1>1, <1>2, HistogramStep
<1>7. /\ words' \in Seq(Word) /\ Len(words') = Len(words) + 1
      /\ accessCount' = accessCount + 1 /\ totalAccesses' = totalAccesses + 1
  BY <1>1, <1>2 DEF Adds, Localities!AddSpatial, Localities!AddTemporal
<1>8. \A i \in Localities!Level : caches'[i].keyMap \subseteq Word /\ caches'[i].keyList \in Seq(Word)
  <2>1. ASSUME NEW i \in Localities!Level
        PROVE  caches'[i].keyMap \subseteq Word /\ caches'[i].keyList \in Seq(Word)
    <3>1. IsCache(caches'[i], Localities!MaxSize(i))
      BY <1>5 DEF InOrders, InOrder
    <3>2. QED
      BY <3>1 DEF IsCache, Keys
  <2>2. QED
    BY <2>1
<1>9. Localities!TypeOK'
  BY <1>2, <1>3, <1>4, <1>6, <1>7, <1>8 DEF LocalityTyped, Localities!TypeOK, Word
<1>10. QED
  BY <1>3, <1>4, <1>5, <1>6, <1>7, <1>9 DEF LocalityInv, LocalityTyped

\* The accesses that are taken for d are those at d and those misplaced.
LEMMA StridesShow ==
    ASSUME LocalityTyped, Strides
    PROVE  StridesAreExact
<1>1. words \in Seq(Word) /\ IntLimit \in Nat \ {0} /\ StrideSize \in Nat /\ StrideSize <= IntLimit
      /\ WindowSize \in Nat \ {0}
  BY ComponentAssumptions DEF Localities!SizeAssumption, LocalityTyped
<1>2. PICK n \in Nat : n = Len(words)
  BY <1>1
<1>3. ASSUME NEW d \in 0 .. StrideSize - 1
      PROVE  stride[d] = Cardinality({k \in WindowSize + 1 .. Len(words) : Localities!Apart(k) = d})
                         + Cardinality({k \in 1 .. Len(words) : Localities!Misplaced(k, d)})
  <2> DEFINE all == {k \in 1 .. n : Localities!TakenFor(k, d)}
             right == {k \in WindowSize + 1 .. n : Localities!Apart(k) = d}
             wrong == {k \in 1 .. n : Localities!Misplaced(k, d)}
  <2>1. d % (2 * IntLimit) = d
    <3>1. d \in Nat /\ 2 * IntLimit \in Nat /\ d < 2 * IntLimit
      BY <1>1
    <3>2. QED
      BY <3>1, ModSmall
  <2>2. \A k \in right : k \in 1 .. n /\ Localities!TakenFor(k, d) /\ ~(k <= WindowSize)
    BY <1>1, <1>2, <2>1 DEF Localities!TakenFor
  <2>3. right \in SUBSET (1 .. n) /\ right \cap wrong = {}
    BY <2>2 DEF Localities!Misplaced
  <2>4. all = right \cup wrong
    <3>1. \A k \in all : k \in right \/ k \in wrong
      BY <1>1, <1>2 DEF Localities!Misplaced
    <3>2. \A k \in wrong : k \in all
      BY DEF Localities!Misplaced
    <3>3. QED
      BY <3>1, <3>2, <2>2
  <2>5. IsFiniteSet(1 .. n)
    BY <1>2, FS_Interval
  <2> HIDE DEF all, right, wrong
  <2>6. wrong \in SUBSET (1 .. n)
    BY DEF wrong
  <2>7. IsFiniteSet(right) /\ IsFiniteSet(wrong)
    BY <2>3, <2>5, <2>6, FS_Subset
  <2>8. Cardinality(all) = Cardinality(right) + Cardinality(wrong)
    <3>1. /\ Cardinality(right) \in Nat /\ Cardinality(wrong) \in Nat
          /\ Cardinality(right \cup wrong) =
               Cardinality(right) + Cardinality(wrong) - Cardinality(right \cap wrong)
      BY <2>7, FS_Union, FS_CardinalityType
    <3>2. Cardinality(right \cap wrong) = 0
      BY <2>3, FS_EmptySet
    <3>3. QED
      BY <3>1, <3>2, <2>4
  <2>9. stride[d] = Cardinality(all)
    BY <1>2 DEF Strides, all
  <2>10. QED
    BY <2>8, <2>9, <1>2 DEF right, wrong
<1>4. QED
  BY <1>3, SameCardinality DEF StridesAreExact, Localities!StridesAreExact

LEMMA LocalityShows ==
    LocalityInv => /\ Localities!TypeOK
                   /\ StridesAreExact /\ ReuseIsStackDistance /\ FiguresAreShares
<1> SUFFICES ASSUME LocalityInv PROVE StridesAreExact /\ ReuseIsStackDistance
  BY FiguresShow DEF LocalityInv, LocalityTyped
<1>1. StridesAreExact
  BY StridesShow DEF LocalityInv
<1>2. Localities!MapMatchesList
  <2>1. ASSUME NEW i \in Localities!Level
        PROVE  /\ caches[i].keyMap = Localities!ToSet(caches[i].keyList)
               /\ Localities!IsInjective(caches[i].keyList)
               /\ Len(caches[i].keyList) <= Localities!MaxSize(i)
    <3>1. IsCache(caches[i], Localities!MaxSize(i))
      BY DEF LocalityInv, InOrders, InOrder
    <3>2. QED
      BY <3>1 DEF IsCache, Keys, Localities!ToSet, Localities!IsInjective
  <2>2. QED
    BY <2>1 DEF Localities!MapMatchesList
<1>3. QED
  BY <1>1, <1>2, SameCardinality
  DEF LocalityInv, Histogram, ReuseIsStackDistance, Localities!ReuseIsStackDistance

-----------------------------------------------------------------------------
(* AccessPattern: the windows and the groups *)

\* Module AccessPattern brings its own instance of the operator.
LEMMA SameCardinalityOfWindows == \A S : Patterns!Cardinality(S) = Cardinality(S)
  BY DEF Patterns!Cardinality, Cardinality

LEMMA PatternSizes ==
    /\ TypeSize \in Nat /\ MIN_GROUP_SIZE \in Nat /\ MAX_HALF_OFFSET \in Nat \ {0}
    /\ Access \subseteq [accessType : {"Read", "Write"}, addr : Nat]
    /\ Patterns!Pattern = {"Consecutive", "Stat", "RW"}
    /\ Patterns!WINDOW_SIZE["Consecutive"] = 2 /\ Patterns!WINDOW_SIZE["RW"] = 2
    /\ Patterns!WINDOW_SIZE["Stat"] = 3
  BY ComponentAssumptions DEF Patterns!SizeAssumption, Patterns!Pattern, Patterns!WINDOW_SIZE

\* w is the end of t, of m accesses if t has as many.
IsWindow(t, w, m) ==
    /\ w \in Seq(Access) /\ Len(w) = IF Len(t) <= m THEN Len(t) ELSE m
    /\ \A i \in 1 .. Len(w) : w[i] = t[Len(t) - Len(w) + i]

LEMMA Slides ==
    ASSUME NEW t \in Seq(Access), NEW a \in Access, NEW m \in Nat \ {0}, NEW w, IsWindow(t, w, m)
    PROVE  IsWindow(Append(t, a), Append(IF Len(w) >= m THEN Tail(w) ELSE w, a), m)
<1>1. w \in Seq(Access) /\ Len(w) \in Nat /\ Len(t) \in Nat
  BY DEF IsWindow
<1> DEFINE back == Len(t) - Len(w)
<1>0. \A i \in 1 .. Len(w) : w[i] = t[back + i]
  BY DEF IsWindow
<1>2. CASE Len(w) >= m
  <2> DEFINE s == Append(Tail(w), a)
  <2>1. Len(w) = m /\ m <= Len(t) /\ w # <<>>
    BY <1>1, <1>2 DEF IsWindow
  <2>2. /\ Tail(w) \in Seq(Access) /\ Len(Tail(w)) = m - 1
        /\ \A i \in 1 .. m - 1 : Tail(w)[i] = w[i + 1]
    BY <1>1, <2>1
  <2>3. /\ s \in Seq(Access) /\ Len(s) = m /\ s[m] = a
        /\ \A i \in 1 .. m - 1 : s[i] = w[i + 1]
    BY <2>2
  <2>4. ASSUME NEW i \in 1 .. m PROVE s[i] = Append(t, a)[Len(t) + 1 - m + i]
    <3>1. CASE i = m
      BY <3>1, <2>3, <1>1
    <3>2. CASE i # m
      <4>1. i + 1 \in 1 .. Len(w) /\ i \in 1 .. m - 1
        BY <3>2, <2>1, <1>1
      <4>2. s[i] = t[back + (i + 1)]
        <5> HIDE DEF s, back
        <5> QED BY <4>1, <2>3, <1>0
      <4>3. /\ back + (i + 1) \in 1 .. Len(t)
            /\ back + (i + 1) = Len(t) + 1 - m + i
        BY <4>1, <2>1, <1>1
      <4>4. Append(t, a)[back + (i + 1)] = t[back + (i + 1)]
        <5> HIDE DEF back
        <5> QED BY <4>3
      <4>5. QED
        BY <4>2, <4>3, <4>4
    <3>3. QED
      BY <3>1, <3>2
  <2> HIDE DEF s
  <2> DEFINE u == Append(t, a)
  <2>5. Len(u) = Len(t) + 1
    OBVIOUS
  <2>6. \A i \in 1 .. m : s[i] = u[Len(u) - m + i]
    <3>1. Len(u) - m = Len(t) + 1 - m
      BY <2>5
    <3>2. QED
      BY <3>1, <2>4
  <2> HIDE DEF s, u
  <2>7. IsWindow(u, s, m)
    BY <2>1, <2>3, <2>5, <2>6, <1>1 DEF IsWindow
  <2>8. QED
    BY <2>7, <1>2 DEF s, u
<1>3. CASE ~(Len(w) >= m)
  <2>1. Len(w) = Len(t) /\ Len(t) < m
    BY <1>1, <1>3 DEF IsWindow
  <2>2. \A i \in 1 .. Len(t) : w[i] = t[i]
    BY <2>1, <1>0, <1>1
  <2> DEFINE s == Append(w, a)
             u == Append(t, a)
  <2>3. /\ s \in Seq(Access) /\ Len(s) = Len(t) + 1 /\ Len(u) = Len(t) + 1
        /\ \A i \in 1 .. Len(t) + 1 : s[i] = u[i]
    BY <2>1, <2>2, <1>1
  <2> HIDE DEF s, u
  <2>4. IsWindow(u, s, m)
    BY <2>1, <2>3, <1>1 DEF IsWindow
  <2>5. QED
    BY <2>4, <1>3 DEF s, u
<1>4. QED
  BY <1>2, <1>3

\* g is a chain of matches of p in the trace t.
Chain(t, p, g) ==
    /\ g \in Patterns!Group /\ g.index \in 1 .. Len(t) - 1
    /\ g.endAddr = g.beginAddr + g.sz * Patterns!Step(p)
    /\ t[g.index].addr = g.beginAddr
    /\ t[g.index + 1].addr = g.beginAddr + Patterns!Step(p)

\* All groups are chains, and the last one only may be small.
Chains(t, p, groups) ==
    /\ \A j \in 1 .. Len(groups) : Chain(t, p, groups[j])
    /\ \A j \in 1 .. Len(groups) - 1 : groups[j].sz >= MIN_GROUP_SIZE

\* A group stays a chain when the trace grows.
LEMMA ChainStays ==
    ASSUME NEW t \in Seq(Access), NEW a \in Access, NEW p, NEW g, Chain(t, p, g)
    PROVE  Chain(Append(t, a), p, g)
<1>1. /\ Len(Append(t, a)) = Len(t) + 1 /\ Len(t) \in Nat
      /\ \A i \in 1 .. Len(t) : Append(t, a)[i] = t[i]
  OBVIOUS
<1>2. g.index \in 1 .. Len(t) - 1
  BY DEF Chain
<1>3. QED
  BY <1>1, <1>2 DEF Chain

\* A match that begins where a group ends makes it longer.
LEMMA UpdatedIsChain ==
    ASSUME NEW t \in Seq(Access), NEW p \in Patterns!Pattern, NEW g, NEW m,
           Chain(t, p, g), Chain(t, p, m), Patterns!IsMergable(g, m)
    PROVE  Chain(t, p, Patterns!Updated(g, m))
<1> DEFINE u == Patterns!Updated(g, m)
<1>1. /\ g.beginAddr \in Int /\ g.endAddr \in Int /\ g.sz \in Nat \ {0} /\ g.index \in Nat
      /\ m.beginAddr \in Int /\ m.endAddr \in Int /\ m.sz \in Nat \ {0}
      /\ g \in Patterns!Group
  BY DEF Chain, Patterns!Group
<1>2. Patterns!Step(p) \in Nat
  BY PatternSizes DEF Patterns!Step
<1>3. /\ u \in Patterns!Group /\ u.beginAddr = g.beginAddr /\ u.index = g.index
      /\ u.endAddr = m.endAddr /\ u.sz = g.sz + m.sz
  <2>1. u = [g EXCEPT !.endAddr = m.endAddr, !.sz = g.sz + m.sz]
    BY DEF Patterns!Updated
  <2>2. g.sz + m.sz \in Nat \ {0}
    BY <1>1
  <2> HIDE DEF u
  <2>3. QED
    BY <2>1, <2>2, <1>1 DEF Patterns!Group
<1>4. (g.sz + m.sz) * Patterns!Step(p) = g.sz * Patterns!Step(p) + m.sz * Patterns!Step(p)
  BY <1>1, <1>2
<1>5. /\ m.beginAddr = g.endAddr
      /\ g.endAddr = g.beginAddr + g.sz * Patterns!Step(p)
      /\ m.endAddr = m.beginAddr + m.sz * Patterns!Step(p)
  BY DEF Chain, Patterns!IsMergable
<1>6. g.sz * Patterns!Step(p) \in Int /\ m.sz * Patterns!Step(p) \in Int
  BY <1>1, <1>2
<1>7. u.endAddr = u.beginAddr + u.sz * Patterns!Step(p)
  BY <1>1, <1>3, <1>4, <1>5, <1>6
<1> HIDE DEF u
<1>8. QED
  BY <1>3, <1>7 DEF Chain, u

LEMMA MergeKeepsChains ==
    ASSUME NEW t \in Seq(Access), NEW p \in Patterns!Pattern,
           NEW groups \in Seq(Patterns!Group), Chains(t, p, groups), NEW m, Chain(t, p, m)
    PROVE  /\ Patterns!MergeMatches(Append(groups, m)) \in Seq(Patterns!Group)
           /\ Chains(t, p, Patterns!MergeMatches(Append(groups, m)))
<1> DEFINE gs == Append(groups, m)
           n == Len(groups)
           r == Patterns!MergeMatches(gs)
<1>1. n \in Nat /\ m \in Patterns!Group
  BY DEF Chain
<1>2. /\ gs \in Seq(Patterns!Group) /\ Len(gs) = n + 1 /\ gs[n + 1] = m
      /\ \A j \in 1 .. n : gs[j] = groups[j]
  BY <1>1
<1>3. Patterns!Last(gs) = m /\ Patterns!Front(gs) = groups
  <2>1. Patterns!Last(gs) = m
    BY <1>1, <1>2 DEF Patterns!Last
  <2>2. SubSeq(gs, 1, n) = groups
    BY <1>1, <1>2
  <2>3. QED
    BY <2>1, <2>2, <1>1, <1>2 DEF Patterns!Front
<1>4. /\ \A j \in 1 .. n : Chain(t, p, groups[j])
      /\ \A j \in 1 .. n - 1 : groups[j].sz >= MIN_GROUP_SIZE
  BY DEF Chains
<1>5. CASE n = 0
  <2>1. r = gs
    BY <1>2, <1>5 DEF Patterns!MergeMatches
  <2> HIDE DEF gs, r
  <2>2. QED
    BY <2>1, <1>2, <1>5 DEF Chains, gs, r
<1>6. CASE n # 0
  <2> DEFINE prev == groups[n]
  <2>1. /\ gs[Len(gs) - 1] = prev /\ prev \in Patterns!Group /\ Chain(t, p, prev)
        /\ ~(Len(gs) <= 1)
    BY <1>1, <1>2, <1>4, <1>6
  <2>2. r = IF Patterns!IsMergable(prev, m)
            THEN Append(Patterns!Front(groups), Patterns!Updated(prev, m))
            ELSE IF prev.sz < MIN_GROUP_SIZE THEN groups ELSE gs
    <3> HIDE DEF gs, n
    <3> QED BY <2>1, <1>3 DEF Patterns!MergeMatches
  <2>3. CASE Patterns!IsMergable(prev, m)
    <3> DEFINE u == Patterns!Updated(prev, m)
               f == Patterns!Front(groups)
    <3>1. Chain(t, p, u) /\ u \in Patterns!Group
      <4>1. Chain(t, p, u)
        BY <2>1, <2>3, UpdatedIsChain
      <4>2. QED
        BY <4>1 DEF Chain
    <3>2. /\ f \in Seq(Patterns!Group) /\ Len(f) = n - 1
          /\ \A j \in 1 .. n - 1 : f[j] = groups[j]
      <4>1. f = SubSeq(groups, 1, n - 1)
        BY DEF Patterns!Front
      <4>2. n - 1 \in Nat /\ \A j \in 1 .. n - 1 : groups[j] \in Patterns!Group
        BY <1>1, <1>6
      <4> HIDE DEF f, n
      <4>3. QED
        BY <4>1, <4>2, SubSeqProperties
    <3> HIDE DEF u, f
    <3>3. /\ Append(f, u) \in Seq(Patterns!Group) /\ Len(Append(f, u)) = n
          /\ Append(f, u)[n] = u
          /\ \A j \in 1 .. n - 1 : Append(f, u)[j] = groups[j]
      BY <3>1, <3>2, <1>1, <1>6
    <3>4. Chains(t, p, Append(f, u))
      <4> DEFINE s == Append(f, u)
      <4>1. /\ \A j \in 1 .. n : Chain(t, p, s[j])
            /\ \A j \in 1 .. n - 1 : s[j].sz >= MIN_GROUP_SIZE /\ Len(s) = n
        <5> HIDE DEF s
        <5> QED BY SMTT(30), <3>1, <3>3, <1>1, <1>4, <1>6 DEF s
      <4>2. Len(s) = n
        BY <3>3
      <4> HIDE DEF s, n
      <4>3. QED
        BY <4>1, <4>2 DEF Chains, s
    <3>5. r = Append(f, u)
      BY <2>2, <2>3 DEF f, u
    <3>6. QED
      BY <3>3, <3>4, <3>5
  <2>4. CASE ~Patterns!IsMergable(prev, m) /\ prev.sz < MIN_GROUP_SIZE
    BY <2>2, <2>4
  <2>5. CASE ~Patterns!IsMergable(prev, m) /\ ~(prev.sz < MIN_GROUP_SIZE)
    <3>1. prev.sz \in Nat /\ MIN_GROUP_SIZE \in Nat
      BY <2>1, PatternSizes DEF Patterns!Group
    <3>2. \A j \in 1 .. n : groups[j].sz >= MIN_GROUP_SIZE
      BY <3>1, <2>5, <1>1, <1>4
    <3>3. r = gs
      BY <2>2, <2>5
    <3>4. Chains(t, p, gs)
      <4> HIDE DEF gs
      <4> QED BY SMTT(30), <3>2, <1>1, <1>2, <1>4 DEF Chains
    <3>5. QED
      BY <3>3, <3>4, <1>2
  <2>6. QED
    BY <2>3, <2>4, <2>5
<1>7. QED
  BY <1>5, <1>6

Windows ==
    \A p \in Patterns!Pattern : /\ processed[p] = Len(pushed)
                                /\ IsWindow(pushed, accesses[p], Patterns!WINDOW_SIZE[p])

Groups ==
    \A p \in Patterns!Pattern :
        /\ matches[p] \in Seq(Patterns!Group) /\ Chains(pushed, p, matches[p])
        /\ reported => \A j \in 1 .. Len(matches[p]) : matches[p][j].sz >= MIN_GROUP_SIZE

LEMMA WindowsStep ==
    ASSUME pushed \in Seq(Access), Windows, NEW a \in Access, Patterns!PushAccess(a)
    PROVE  Windows'
<1> SUFFICES ASSUME NEW p \in Patterns!Pattern
             PROVE  /\ processed'[p] = Len(pushed')
                    /\ IsWindow(pushed', accesses'[p], Patterns!WINDOW_SIZE[p])
  BY DEF Windows
<1>1. /\ pushed' = Append(pushed, a) /\ processed'[p] = processed[p] + 1
      /\ accesses'[p] = Patterns!Slide(p, a)
  BY DEF Patterns!PushAccess
<1>2. processed[p] = Len(pushed) /\ IsWindow(pushed, accesses[p], Patterns!WINDOW_SIZE[p])
  BY DEF Windows
<1>3. Patterns!WINDOW_SIZE[p] \in Nat \ {0}
  BY PatternSizes
<1>4. IsWindow(Append(pushed, a), Patterns!Slide(p, a), Patterns!WINDOW_SIZE[p])
  BY <1>2, <1>3, Slides DEF Patterns!Slide, Patterns!IsFull
<1>5. QED
  BY <1>1, <1>2, <1>4

\* A window that matches is a chain of one match.
LEMMA MatchIsChain ==
    ASSUME NEW t \in Seq(Access), NEW p \in Patterns!Pattern, NEW w,
           IsWindow(t, w, Patterns!WINDOW_SIZE[p]),
           Patterns!IsFull(p, w), Patterns!Matches(p, w)
    PROVE  Chain(t, p, Patterns!MatchInfo(w, Len(t) - 1))
<1> DEFINE m == Patterns!MatchInfo(w, Len(t) - 1)
<1>1. /\ p # "Stat" /\ Patterns!WINDOW_SIZE[p] = 2
      /\ w[2].addr - w[1].addr = Patterns!Step(p)
  <2>1. CASE p = "Consecutive"
    BY <2>1, PatternSizes DEF Patterns!Matches, Patterns!Step
  <2>2. CASE p = "RW"
    <3>1. w[2].addr = w[1].addr /\ Patterns!WINDOW_SIZE[p] = 2 /\ Patterns!Step(p) = 0
      BY <2>2, PatternSizes DEF Patterns!Matches, Patterns!Step
    <3>2. Len(w) >= 2
      BY <3>1 DEF Patterns!IsFull
    <3>3. w[1].addr \in Nat
      BY <3>2, PatternSizes DEF IsWindow
    <3>4. QED
      BY <2>2, <3>1, <3>3
  <2>3. CASE p = "Stat"
    BY <2>3 DEF Patterns!Matches
  <2>4. QED
    BY <2>1, <2>2, <2>3, PatternSizes
<1>2. Len(w) >= 2
  BY <1>1 DEF Patterns!IsFull
<1>3. /\ w \in Seq(Access) /\ Len(w) = 2 /\ Len(t) >= 2 /\ Len(t) \in Nat
      /\ w[1] = t[Len(t) - 1] /\ w[2] = t[Len(t)]
  <2>1. /\ w \in Seq(Access) /\ Len(w) = IF Len(t) <= 2 THEN Len(t) ELSE 2
        /\ \A i \in 1 .. Len(w) : w[i] = t[Len(t) - Len(w) + i]
    BY <1>1 DEF IsWindow
  <2>2. Len(w) \in Nat /\ Len(t) \in Nat
    BY <2>1
  <2>3. Len(w) = 2 /\ Len(t) >= 2
    <3>1. CASE Len(t) <= 2
      <4>1. Len(w) = Len(t)
        BY <2>1, <3>1
      <4>2. QED
        BY <4>1, <2>2, <3>1, <1>2
    <3>2. CASE ~(Len(t) <= 2)
      BY <2>1, <2>2, <3>2
    <3>3. QED
      BY <3>1, <3>2
  <2>4. 1 \in 1 .. Len(w) /\ 2 \in 1 .. Len(w)
    BY <2>3
  <2>5. w[1] = t[Len(t) - Len(w) + 1] /\ w[2] = t[Len(t) - Len(w) + 2]
    BY <2>1, <2>4
  <2>6. QED
    BY <2>1, <2>2, <2>3, <2>5
<1>4. w[1].addr \in Nat /\ w[2].addr \in Nat /\ Patterns!Step(p) \in Nat
  <2>1. w[1] \in Access /\ w[2] \in Access
    BY <1>3
  <2>2. QED
    BY <2>1, PatternSizes DEF Patterns!Step
<1>5. /\ m.beginAddr = w[1].addr /\ m.endAddr = w[2].addr /\ m.sz = 1 /\ m.index = Len(t) - 1
      /\ m \in Patterns!Group
  BY <1>3, <1>4 DEF Patterns!MatchInfo, Patterns!Last, Patterns!Group
<1> HIDE DEF m
<1>6. m.endAddr = m.beginAddr + m.sz * Patterns!Step(p)
  BY <1>1, <1>4, <1>5
<1>7. /\ m.index \in 1 .. Len(t) - 1 /\ t[m.index].addr = m.beginAddr
      /\ t[m.index + 1].addr = m.beginAddr + Patterns!Step(p)
  BY <1>1, <1>3, <1>4, <1>5
<1>8. QED
  BY <1>5, <1>6, <1>7 DEF Chain, m

LEMMA GroupsStep ==
    ASSUME pushed \in Seq(Access), Windows, Groups, NEW a \in Access, Patterns!PushAccess(a)
    PROVE  Groups'
<1> SUFFICES ASSUME NEW p \in Patterns!Pattern
             PROVE  /\ matches'[p] \in Seq(Patterns!Group) /\ Chains(pushed', p, matches'[p])
                    /\ reported' = FALSE
  BY DEF Groups
<1> DEFINE w == accesses'[p]
           hit == Patterns!IsFull(p, w) /\ Patterns!Matches(p, w)
           m == Patterns!MatchInfo(w, processed[p])
<1>1. /\ pushed' = Append(pushed, a) /\ reported' = FALSE
      /\ matches'[p] = IF hit THEN Patterns!MergeMatches(Append(matches[p], m)) ELSE matches[p]
  BY DEF Patterns!PushAccess
<1>2. matches[p] \in Seq(Patterns!Group) /\ Chains(pushed, p, matches[p])
  BY DEF Groups
<1>3. pushed' \in Seq(Access) /\ Len(pushed') = Len(pushed) + 1 /\ Len(pushed) \in Nat
  BY <1>1
<1>4. Chains(pushed', p, matches[p])
  BY <1>1, <1>2, ChainStays DEF Chains
<1>5. CASE hit
  <2>1. processed[p] = Len(pushed') - 1 /\ IsWindow(pushed', w, Patterns!WINDOW_SIZE[p])
    BY <1>3, WindowsStep DEF Windows
  <2> HIDE DEF w
  <2>2. Chain(pushed', p, m)
    BY <2>1, <1>3, <1>5, MatchIsChain
  <2> HIDE DEF m
  <2>3. QED
    BY <2>2, <1>1, <1>2, <1>3, <1>4, <1>5, MergeKeepsChains
<1>6. CASE ~hit
  BY <1>1, <1>2, <1>4, <1>6
<1>7. QED
  BY <1>5, <1>6

LEMMA GroupsReported ==
    ASSUME Groups, Patterns!GetMatches
    PROVE  Groups'
<1> SUFFICES ASSUME NEW p \in Patterns!Pattern
             PROVE  /\ matches'[p] \in Seq(Patterns!Group) /\ Chains(pushed', p, matches'[p])
                    /\ \A j \in 1 .. Len(matches'[p]) : matches'[p][j].sz >= MIN_GROUP_SIZE
  BY DEF Groups
<1> DEFINE groups == matches[p]
           n == Len(groups)
           front == SubSeq(groups, 1, n - 1)
<1>1. /\ groups \in Seq(Patterns!Group) /\ n \in Nat
      /\ \A j \in 1 .. n : Chain(pushed, p, groups[j])
      /\ \A j \in 1 .. n - 1 : groups[j].sz >= MIN_GROUP_SIZE
  BY DEF Groups, Chains
<1>2. /\ pushed' = pushed
      /\ matches'[p] = IF groups # <<>> /\ groups[n].sz < MIN_GROUP_SIZE THEN front ELSE groups
  BY DEF Patterns!GetMatches, Patterns!Reported, Patterns!Last, Patterns!Front
<1>3. \A j \in 1 .. n : groups[j] \in Patterns!Group /\ groups[j].sz \in Nat
  <2>1. ASSUME NEW j \in 1 .. n PROVE groups[j] \in Patterns!Group
    BY <1>1
  <2>2. \A g \in Patterns!Group : g.sz \in Nat
    BY DEF Patterns!Group
  <2>3. QED
    BY <2>1, <2>2
<1>4. CASE groups # <<>> /\ groups[n].sz < MIN_GROUP_SIZE
  <2>1. n - 1 \in Nat /\ \A j \in 1 .. n - 1 : groups[j] \in Patterns!Group
    BY <1>1, <1>3, <1>4
  <2>2. /\ front \in Seq(Patterns!Group) /\ Len(front) = n - 1
        /\ \A j \in 1 .. n - 1 : front[j] = groups[j]
    <3> HIDE DEF n
    <3> QED BY <2>1, SubSeqProperties
  <2> HIDE DEF front, n
  <2>3. /\ \A j \in 1 .. Len(front) : Chain(pushed, p, front[j])
        /\ \A j \in 1 .. Len(front) : front[j].sz >= MIN_GROUP_SIZE
    BY <2>1, <2>2, <1>1
  <2>4. Chains(pushed, p, front)
    BY <2>1, <2>2, <2>3 DEF Chains
  <2>5. QED
    BY <2>2, <2>3, <2>4, <1>2, <1>4
<1>5. CASE ~(groups # <<>> /\ groups[n].sz < MIN_GROUP_SIZE)
  <2>1. \A j \in 1 .. n : groups[j].sz >= MIN_GROUP_SIZE
    <3>1. ASSUME n > 0 PROVE groups[n].sz >= MIN_GROUP_SIZE
      BY <3>1, <1>1, <1>3, <1>5, PatternSizes
    <3> HIDE DEF groups
    <3>2. QED
      BY <3>1, <1>1
  <2>2. matches'[p] = groups
    BY <1>2, <1>5
  <2>3. QED
    BY <2>1, <2>2, <1>2 DEF Groups
<1>6. QED
  BY <1>4, <1>5

-----------------------------------------------------------------------------
(* StatPattern: a hash code stands for one shape of a window *)

LEMMA QuotientUnique ==
    ASSUME NEW a \in Nat, NEW q \in Int, NEW m \in Nat \ {0},
           NEW c \in 0 .. m - 1, NEW r \in 0 .. m - 1, a * m + c = q * m + r
    PROVE  a = q /\ c = r
<1>1. CASE a = q
  BY <1>1
<1>2. CASE a < q
  <2>1. (q - a) * m = c - r
    OBVIOUS
  <2>2. PICK k \in Nat : k = q - a - 1
    BY <1>2
  <2>3. k * m + m = c - r /\ k * m \in Nat
    BY <2>1, <2>2
  <2>4. QED
    BY <2>3
<1>3. CASE a > q
  <2>1. (a - q) * m = r - c
    OBVIOUS
  <2>2. PICK k \in Nat : k = a - q - 1
    BY <1>3
  <2>3. k * m + m = r - c /\ k * m \in Nat
    BY <2>1, <2>2
  <2>4. QED
    BY <2>3
<1>4. QED
  BY <1>1, <1>2, <1>3

LEMMA DivMod ==
    ASSUME NEW a \in Nat, NEW m \in Nat \ {0}, NEW c \in 0 .. m - 1
    PROVE  (a * m + c) \div m = a /\ (a * m + c) % m = c
<1>1. PICK x \in Nat : x = a * m + c
  OBVIOUS
<1>2. x \div m \in Int
  OBVIOUS
<1>3. x % m \in 0 .. m - 1
  OBVIOUS
<1>4. x = m * (x \div m) + (x % m)
  OBVIOUS
<1>5. QED
  BY <1>1, <1>2, <1>3, <1>4, QuotientUnique

Window == {w \in [1 .. 3 -> Access] : Patterns!InRange(w)}

\* How far access i is from the base, and its code.
Offset(w, i) == w[i].addr - w[1].addr + MAX_HALF_OFFSET
Code(w, i) == Offset(w, i) * 2 + Patterns!TypeBit(w[i])

LEMMA CodeIs ==
    ASSUME NEW w \in Window, NEW i \in 1 .. 3
    PROVE  /\ Offset(w, i) \in 0 .. 2 * MAX_HALF_OFFSET - 1
           /\ Code(w, i) \in 0 .. Patterns!Factor - 1 /\ Patterns!Factor \in Nat \ {0}
           /\ Code(w, i) \div 2 = Offset(w, i)
           /\ Code(w, i) % 2 = Patterns!TypeBit(w[i])
           /\ w[i] \in [accessType : {"Read", "Write"}, addr : Nat]
<1>1. /\ MAX_HALF_OFFSET \in Nat \ {0}
      /\ \A k \in 1 .. 3 : w[k] \in [accessType : {"Read", "Write"}, addr : Nat]
  BY PatternSizes DEF Window
<1>2. Offset(w, i) \in 0 .. 2 * MAX_HALF_OFFSET - 1
  <2>1. CASE i = 1
    BY <2>1, <1>1 DEF Offset
  <2>2. CASE i # 1
    <3>1. w[i].addr - (w[1].addr - MAX_HALF_OFFSET) \in 0 .. 2 * MAX_HALF_OFFSET - 1
      BY <2>2 DEF Window, Patterns!InRange, Patterns!BaseAddr
    <3>2. w[i].addr - (w[1].addr - MAX_HALF_OFFSET) = Offset(w, i)
      BY <1>1 DEF Offset
    <3>3. QED
      BY <3>1, <3>2
  <2>3. QED
    BY <2>1, <2>2
<1>3. Patterns!TypeBit(w[i]) \in 0 .. 1
  BY DEF Patterns!TypeBit
<1> DEFINE d == Offset(w, i)
           b == Patterns!TypeBit(w[i])
<1>4. Patterns!Factor = 4 * MAX_HALF_OFFSET
  BY <1>1 DEF Patterns!Factor
<1>5. d \in Nat /\ b \in 0 .. 2 - 1
  BY <1>1, <1>2, <1>3
<1> HIDE DEF d, b
<1>6. (d * 2 + b) \div 2 = d /\ (d * 2 + b) % 2 = b
  BY <1>5, DivMod
<1>7. d * 2 + b \in 0 .. Patterns!Factor - 1 /\ Patterns!Factor \in Nat \ {0}
  BY <1>1, <1>2, <1>4, <1>5 DEF d
<1>8. QED
  BY <1>1, <1>2, <1>6, <1>7 DEF Code, d, b

LEMMA HashCodeIs ==
    ASSUME NEW w \in Window
    PROVE  /\ Patterns!HashCode(w) \in Nat
           /\ (Patterns!HashCode(w) \div Patterns!Factor) \div Patterns!Factor = Code(w, 1)
           /\ (Patterns!HashCode(w) \div Patterns!Factor) % Patterns!Factor = Code(w, 2)
           /\ Patterns!HashCode(w) % Patterns!Factor = Code(w, 3)
<1> DEFINE F == Patterns!Factor
           a == Code(w, 1)
           b == Code(w, 2)
           c == Code(w, 3)
<1>1. \A i \in 1 .. 3 : Code(w, i) = Patterns!AccessHashCode(w[i], Patterns!BaseAddr(w))
  <2>1. ASSUME NEW i \in 1 .. 3
        PROVE  Code(w, i) = Patterns!AccessHashCode(w[i], Patterns!BaseAddr(w))
    <3>1. w[i].addr \in Nat /\ w[1].addr \in Nat /\ MAX_HALF_OFFSET \in Nat
      BY CodeIs, PatternSizes
    <3>2. Patterns!TypeBit(w[i]) \in Nat
      BY DEF Patterns!TypeBit
    <3>3. QED
      BY <3>1, <3>2 DEF Code, Offset, Patterns!AccessHashCode, Patterns!BaseAddr
  <2>2. QED
    BY <2>1
<1>2. a \in 0 .. F - 1 /\ b \in 0 .. F - 1 /\ c \in 0 .. F - 1 /\ F \in Nat \ {0}
  BY CodeIs
<1>3. Patterns!HashCode(w) = (a * F + b) * F + c
  BY <1>1 DEF Patterns!HashCode
<1> HIDE DEF a, b, c, F
<1>4. PICK k \in Nat : k = a * F + b
  BY <1>2
<1>5. k \div F = a /\ k % F = b /\ (k * F + c) \div F = k /\ (k * F + c) % F = c
  <2>1. a \in Nat
    BY <1>2
  <2>2. QED
    BY <2>1, <1>2, <1>4, DivMod
<1>6. k * F + c \in Nat
  BY <1>2
<1>7. QED
  BY <1>3, <1>4, <1>5, <1>6 DEF a, b, c, F

LEMMA RelativeIs ==
    ASSUME NEW w \in Window
    PROVE  Patterns!Relative(w) =
             [i \in 1 .. 3 |-> [accessType |-> w[i].accessType, addr |-> w[i].addr - w[1].addr]]
<1>1. ASSUME NEW i \in 1 .. 3
      PROVE  [w[i] EXCEPT !.addr = @ - w[1].addr]
               = [accessType |-> w[i].accessType, addr |-> w[i].addr - w[1].addr]
  <2>1. w[i] \in [accessType : {"Read", "Write"}, addr : Nat]
    BY CodeIs
  <2>2. QED
    BY <2>1
<1>2. QED
  BY <1>1 DEF Patterns!Relative

\* The code is decoded to the shape it was made from.
LEMMA DecodedIs ==
    ASSUME NEW w \in Window
    PROVE  Patterns!Decoded(Patterns!HashCode(w)) = Patterns!Relative(w)
<1> DEFINE h == Patterns!HashCode(w)
           code == <<(h \div Patterns!Factor) \div Patterns!Factor,
                     (h \div Patterns!Factor) % Patterns!Factor, h % Patterns!Factor>>
<1>1. code = <<Code(w, 1), Code(w, 2), Code(w, 3)>>
  BY HashCodeIs
<1>2. Patterns!Decoded(h) =
        [i \in 1 .. 3 |-> [accessType |-> IF code[i] % 2 = 0 THEN "Read" ELSE "Write",
                           addr |-> code[i] \div 2 - MAX_HALF_OFFSET]]
  BY DEF Patterns!Decoded
<1> HIDE DEF code, h
<1>3. ASSUME NEW i \in 1 .. 3
      PROVE  /\ (IF code[i] % 2 = 0 THEN "Read" ELSE "Write") = w[i].accessType
             /\ code[i] \div 2 - MAX_HALF_OFFSET = w[i].addr - w[1].addr
  <2>1. code[i] = Code(w, i)
    BY <1>1
  <2>2. /\ code[i] \div 2 = Offset(w, i) /\ code[i] % 2 = Patterns!TypeBit(w[i])
        /\ w[i].accessType \in {"Read", "Write"} /\ w[i].addr \in Nat
    BY <2>1, CodeIs
  <2>3. w[1].addr \in Nat /\ MAX_HALF_OFFSET \in Nat
    BY CodeIs, PatternSizes
  <2>4. code[i] \div 2 - MAX_HALF_OFFSET = w[i].addr - w[1].addr
    BY <2>2, <2>3 DEF Offset
  <2>5. QED
    BY <2>2, <2>4 DEF Patterns!TypeBit
<1>4. QED
  BY <1>2, <1>3, RelativeIs DEF h

\* Two windows have the same code if and only if they have the same shape.
LEMMA SameCode ==
    ASSUME NEW v \in Window, NEW w \in Window
    PROVE  /\ Patterns!HashCode(v) = Patterns!HashCode(w)
                <=> Patterns!Relative(v) = Patterns!Relative(w)
           /\ Patterns!HashCode(v) = Patterns!HashCode(w) => Patterns!Name(v) = Patterns!Name(w)
<1>1. Patterns!HashCode(v) = Patterns!HashCode(w) => Patterns!Relative(v) = Patterns!Relative(w)
  BY DecodedIs
<1>2. ASSUME Patterns!Relative(v) = Patterns!Relative(w), NEW i \in 1 .. 3
      PROVE  /\ v[i].accessType = w[i].accessType
             /\ v[i].addr - v[1].addr = w[i].addr - w[1].addr
  <2>1. Patterns!Relative(v)[i] = Patterns!Relative(w)[i]
    BY <1>2
  <2>2. [accessType |-> v[i].accessType, addr |-> v[i].addr - v[1].addr]
          = [accessType |-> w[i].accessType, addr |-> w[i].addr - w[1].addr]
    BY <2>1, RelativeIs
  <2>3. QED
    BY <2>2
<1>3. ASSUME Patterns!Relative(v) = Patterns!Relative(w)
      PROVE  Patterns!HashCode(v) = Patterns!HashCode(w) /\ Patterns!Name(v) = Patterns!Name(w)
  <2>1. \A i \in 1 .. 3 : Patterns!AccessHashCode(v[i], Patterns!BaseAddr(v))
                           = Patterns!AccessHashCode(w[i], Patterns!BaseAddr(w))
    <3>1. ASSUME NEW i \in 1 .. 3
          PROVE  Patterns!AccessHashCode(v[i], Patterns!BaseAddr(v))
                   = Patterns!AccessHashCode(w[i], Patterns!BaseAddr(w))
      <4>1. /\ v[i].addr \in Nat /\ v[1].addr \in Nat /\ w[i].addr \in Nat /\ w[1].addr \in Nat
            /\ MAX_HALF_OFFSET \in Nat
        BY CodeIs, PatternSizes
      <4>2. v[i].addr - (v[1].addr - MAX_HALF_OFFSET) = w[i].addr - (w[1].addr - MAX_HALF_OFFSET)
        BY <4>1, <1>2, <1>3
      <4>3. Patterns!TypeBit(v[i]) = Patterns!TypeBit(w[i])
        BY <1>2, <1>3 DEF Patterns!TypeBit
      <4>4. QED
        BY <4>2, <4>3 DEF Patterns!AccessHashCode, Patterns!BaseAddr
    <3>2. QED
      BY <3>1
  <2>2. DOMAIN v = 1 .. 3 /\ DOMAIN w = 1 .. 3
    BY DEF Window
  <2>3. Patterns!Name(v) = Patterns!Name(w)
    BY <2>2, <1>2, <1>3 DEF Patterns!Name
  <2>4. QED
    BY <2>1, <2>3 DEF Patterns!HashCode
<1>4. QED
  BY <1>1, <1>3

\* The window of three that ends with access i of the trace t; the ends of those
\* in range.
WindowAt(t, i) == SubSeq(t, i - 2, i)
Ends(t) == {i \in 3 .. Len(t) : Patterns!InRange(WindowAt(t, i))}
CodeAt(t, i) == Patterns!HashCode(WindowAt(t, i))

PoolEntry == [size : Nat \ {0}, name : [1 .. 3 -> {"Read", "Write"}]]

\* The pool has an entry for each code of a window, which counts its windows.
Pool ==
    /\ DOMAIN matchesPool = {CodeAt(pushed, i) : i \in Ends(pushed)}
    /\ \A h \in DOMAIN matchesPool :
         /\ matchesPool[h] \in PoolEntry
         /\ matchesPool[h].size = Cardinality({i \in Ends(pushed) : CodeAt(pushed, i) = h})
    /\ \A i \in Ends(pushed) :
         matchesPool[CodeAt(pushed, i)].name = Patterns!Name(WindowAt(pushed, i))

LEMMA WindowAtIs ==
    ASSUME NEW t \in Seq(Access), NEW i \in 3 .. Len(t)
    PROVE  /\ WindowAt(t, i) \in [1 .. 3 -> Access]
           /\ \A k \in 1 .. 3 : WindowAt(t, i)[k] = t[i - 3 + k]
<1>1. i \in Int /\ Len(t) \in Nat /\ i - 2 \in Int /\ \A k \in i - 2 .. i : t[k] \in Access
  OBVIOUS
<1>2. /\ WindowAt(t, i) \in Seq(Access)
      /\ Len(WindowAt(t, i)) = IF i - 2 <= i THEN i - (i - 2) + 1 ELSE 0
      /\ \A k \in 1 .. i - (i - 2) + 1 : WindowAt(t, i)[k] = t[(i - 2) + k - 1]
  BY <1>1, SubSeqProperties DEF WindowAt
<1>3. Len(WindowAt(t, i)) = 3 /\ i - (i - 2) + 1 = 3
  BY <1>1, <1>2
<1>4. \A k \in 1 .. 3 : WindowAt(t, i)[k] = t[i - 3 + k]
  <2>1. ASSUME NEW k \in 1 .. 3 PROVE WindowAt(t, i)[k] = t[i - 3 + k]
    <3>1. (i - 2) + k - 1 = i - 3 + k
      BY <1>1
    <3>2. QED
      BY <3>1, <1>2, <1>3
  <2>2. QED
    BY <2>1
<1>5. QED
  BY <1>2, <1>3, <1>4

\* Two functions on one domain that agree everywhere are equal.
LEMMA EqualOnDomain ==
    ASSUME NEW D, NEW S, NEW f \in [D -> S], NEW g \in [D -> S],
           \A k \in D : f[k] = g[k]
    PROVE  f = g
  OBVIOUS

\* Traces that agree on three accesses have the same window there.
LEMMA SameWindow ==
    ASSUME NEW s \in Seq(Access), NEW t \in Seq(Access),
           NEW i \in 3 .. Len(t), i \in 3 .. Len(s),
           \A k \in 1 .. 3 : s[i - 3 + k] = t[i - 3 + k]
    PROVE  WindowAt(s, i) = WindowAt(t, i)
<1>1. WindowAt(s, i) \in [1 .. 3 -> Access] /\ WindowAt(t, i) \in [1 .. 3 -> Access]
  BY WindowAtIs
<1>2. \A k \in 1 .. 3 : WindowAt(s, i)[k] = s[i - 3 + k] /\ WindowAt(t, i)[k] = t[i - 3 + k]
  BY WindowAtIs
<1>3. \A k \in 1 .. 3 : WindowAt(s, i)[k] = WindowAt(t, i)[k]
  BY <1>2
<1>4. \A f \in [1 .. 3 -> Access], g \in [1 .. 3 -> Access] :
        (\A k \in 1 .. 3 : f[k] = g[k]) => f = g
  BY EqualOnDomain
<1>5. QED
  BY <1>1, <1>3, <1>4, Zenon

\* The windows of a longer trace are the old ones and the last one.
LEMMA WindowsOfLonger ==
    ASSUME NEW t \in Seq(Access), NEW a \in Access, NEW u, u = Append(t, a)
    PROVE  /\ \A i \in 3 .. Len(t) : WindowAt(u, i) = WindowAt(t, i)
           /\ Ends(t) \in SUBSET (1 .. Len(t))
           /\ Ends(u) = IF Len(u) >= 3 /\ Patterns!InRange(WindowAt(u, Len(u)))
                        THEN Ends(t) \cup {Len(u)} ELSE Ends(t)
<1>1. /\ u \in Seq(Access) /\ Len(u) = Len(t) + 1 /\ Len(t) \in Nat
      /\ \A k \in 1 .. Len(t) : u[k] = t[k]
  OBVIOUS
<1>2. ASSUME NEW i \in 3 .. Len(t) PROVE WindowAt(u, i) = WindowAt(t, i)
  <2>1. i \in 3 .. Len(u)
    BY <1>1
  <2>2. \A k \in 1 .. 3 : i - 3 + k \in 1 .. Len(t)
    BY <1>1
  <2>3. \A k \in 1 .. 3 : u[i - 3 + k] = t[i - 3 + k]
    BY <1>1, <2>2
  <2>4. QED
    BY <1>1, <2>1, <2>3, SameWindow
<1>3. Ends(t) \in SUBSET (1 .. Len(t))
  BY <1>1 DEF Ends
<1>4. \A i \in 3 .. Len(u) : i \in 3 .. Len(t) \/ i = Len(u)
  BY <1>1
<1>5. \A i \in 3 .. Len(t) : i \in 3 .. Len(u)
  BY <1>1
<1>6. Len(u) >= 3 <=> Len(u) \in 3 .. Len(u)
  BY <1>1
<1>7. QED
  BY <1>2, <1>3, <1>4, <1>5, <1>6 DEF Ends

\* The window that Stat counts is the last one of the trace.
LEMMA StatWindow ==
    ASSUME NEW t \in Seq(Access), NEW w, IsWindow(t, w, 3)
    PROVE  /\ Len(w) >= 3 <=> Len(t) >= 3
           /\ Len(t) >= 3 => w = WindowAt(t, Len(t))
<1>1. /\ w \in Seq(Access)
      /\ Len(w) = IF Len(t) <= 3 THEN Len(t) ELSE 3
      /\ \A i \in 1 .. Len(w) : w[i] = t[Len(t) - Len(w) + i]
  BY DEF IsWindow
<1>2. Len(w) \in Nat /\ Len(t) \in Nat
  BY <1>1
<1>3. (Len(w) >= 3 <=> Len(t) >= 3) /\ (Len(t) >= 3 => Len(w) = 3)
  <2>1. \A k, n \in Nat : k = (IF n <= 3 THEN n ELSE 3)
                           => (k >= 3 <=> n >= 3) /\ (n >= 3 => k = 3)
    OBVIOUS
  <2>2. QED
    BY <2>1, <1>1, <1>2
<1>4. CASE Len(t) >= 3
  <2>1. Len(w) = 3
    BY <1>4, <1>3
  <2>2. Len(t) \in 3 .. Len(t)
    BY <1>2, <1>4
  <2>3. /\ WindowAt(t, Len(t)) \in [1 .. 3 -> Access]
        /\ \A k \in 1 .. 3 : WindowAt(t, Len(t))[k] = t[Len(t) - 3 + k]
    BY <2>2, WindowAtIs
  <2>4. w \in [1 .. 3 -> Access]
    BY <2>1, <1>1
  <2>5. \A k \in 1 .. 3 : w[k] = t[Len(t) - 3 + k]
    BY <2>1, <1>1
  <2>6. w = WindowAt(t, Len(t))
    BY <2>3, <2>4, <2>5
  <2>7. QED
    BY <2>1, <2>6, <1>4
<1>5. QED
  BY <1>4, <1>3

LEMMA PoolStep ==
    ASSUME pushed \in Seq(Access), Windows, Pool, NEW a \in Access, Patterns!PushAccess(a)
    PROVE  Pool'
<1> DEFINE w == accesses'["Stat"]
           h == Patterns!HashCode(w)
<1>0. PICK t : t = pushed
  OBVIOUS
<1>1. PICK u : u = pushed'
  OBVIOUS
<1>2. PICK n : n = Len(t)
  OBVIOUS
<1>3. /\ t \in Seq(Access) /\ u = Append(t, a) /\ u \in Seq(Access)
      /\ n \in Nat /\ Len(u) = n + 1
  BY <1>0, <1>1, <1>2 DEF Patterns!PushAccess
<1>4. matchesPool' = IF Patterns!IsFull("Stat", w) THEN Patterns!PoolAfter(w) ELSE matchesPool
  BY DEF Patterns!PushAccess
<1>5. /\ Patterns!IsFull("Stat", w) <=> n + 1 >= 3
      /\ n + 1 >= 3 => w = WindowAt(u, n + 1)
  <2>1. IsWindow(u, w, 3)
    BY <1>1, WindowsStep, PatternSizes DEF Windows
  <2> HIDE DEF w
  <2>2. Patterns!IsFull("Stat", w) <=> Len(w) >= 3
    BY PatternSizes DEF Patterns!IsFull
  <2>3. QED
    BY <2>1, <2>2, <1>3, StatWindow
<1>6. /\ \A i \in 3 .. n : WindowAt(u, i) = WindowAt(t, i)
      /\ Ends(t) \in SUBSET (1 .. n)
      /\ Ends(u) = IF n + 1 >= 3 /\ Patterns!InRange(WindowAt(u, n + 1))
                   THEN Ends(t) \cup {n + 1} ELSE Ends(t)
  <2>1. t \in Seq(Access) /\ u = Append(t, a) /\ Len(u) = n + 1
    BY <1>3
  <2>2. /\ \A i \in 3 .. Len(t) : WindowAt(u, i) = WindowAt(t, i)
        /\ Ends(t) \in SUBSET (1 .. Len(t))
        /\ Ends(u) = IF Len(u) >= 3 /\ Patterns!InRange(WindowAt(u, Len(u)))
                     THEN Ends(t) \cup {Len(u)} ELSE Ends(t)
    BY <2>1, WindowsOfLonger
  <2>3. QED
    BY <2>1, <2>2, <1>2
<1>7. /\ DOMAIN matchesPool = {CodeAt(t, i) : i \in Ends(t)}
      /\ \A k \in DOMAIN matchesPool :
           /\ matchesPool[k] \in PoolEntry
           /\ matchesPool[k].size = Cardinality({i \in Ends(t) : CodeAt(t, i) = k})
      /\ \A i \in Ends(t) : matchesPool[CodeAt(t, i)].name = Patterns!Name(WindowAt(t, i))
  BY <1>0 DEF Pool
<1>8. SUFFICES
        /\ DOMAIN matchesPool' = {CodeAt(u, i) : i \in Ends(u)}
        /\ \A k \in DOMAIN matchesPool' :
             /\ matchesPool'[k] \in PoolEntry
             /\ matchesPool'[k].size = Cardinality({i \in Ends(u) : CodeAt(u, i) = k})
        /\ \A i \in Ends(u) : matchesPool'[CodeAt(u, i)].name = Patterns!Name(WindowAt(u, i))
  BY <1>1 DEF Pool
<1>9. \A i \in Ends(t) : /\ i \in 3 .. n /\ WindowAt(u, i) = WindowAt(t, i)
                         /\ CodeAt(u, i) = CodeAt(t, i)
  BY <1>2, <1>6 DEF Ends, CodeAt
<1>10. CASE ~(n + 1 >= 3 /\ Patterns!InRange(w))
  <2>1. matchesPool' = matchesPool /\ Ends(u) = Ends(t)
    BY <1>4, <1>5, <1>6, <1>10 DEF Patterns!PoolAfter
  <2>2. /\ {CodeAt(u, i) : i \in Ends(u)} = {CodeAt(t, i) : i \in Ends(t)}
        /\ \A k : {i \in Ends(u) : CodeAt(u, i) = k} = {i \in Ends(t) : CodeAt(t, i) = k}
    BY <2>1, <1>9
  <2>3. QED
    BY <2>1, <2>2, <1>7, <1>9
<1>11. CASE n + 1 >= 3 /\ Patterns!InRange(w)
  <2>1. /\ matchesPool' = Patterns!PoolAfter(w) /\ w = WindowAt(u, n + 1)
        /\ Ends(u) = Ends(t) \cup {n + 1} /\ n + 1 \notin Ends(t) /\ CodeAt(u, n + 1) = h
    <3>1. n + 1 \notin Ends(t)
      BY <1>3, <1>6
    <3>2. QED
      BY <3>1, <1>4, <1>5, <1>6, <1>11 DEF CodeAt
  <2>2. \A i \in Ends(u) : WindowAt(u, i) \in Window
    BY <1>3, WindowAtIs DEF Window, Ends
  <2>3. w \in Window /\ Patterns!Name(w) \in [1 .. 3 -> {"Read", "Write"}]
    <3>1. w \in Window
      BY <2>1, <2>2
    <3> HIDE DEF w
    <3>2. DOMAIN w = 1 .. 3 /\ \A i \in 1 .. 3 : w[i].accessType \in {"Read", "Write"}
      <4>1. ASSUME NEW i \in 1 .. 3 PROVE w[i].accessType \in {"Read", "Write"}
        <5>1. w[i] \in [accessType : {"Read", "Write"}, addr : Nat]
          BY <3>1, CodeIs
        <5>2. QED
          BY <5>1
      <4>2. QED
        BY <4>1, <3>1 DEF Window
    <3>3. QED
      BY <3>1, <3>2 DEF Patterns!Name
  <2> HIDE DEF w, h
  <2>4. \A i \in Ends(t) : CodeAt(t, i) = h => Patterns!Name(WindowAt(t, i)) = Patterns!Name(w)
    BY <2>1, <2>2, <2>3, <1>9, SameCode DEF CodeAt, h
  <2>5. matchesPool' =
          IF h \notin DOMAIN matchesPool
          THEN [k \in DOMAIN matchesPool \cup {h} |->
                  IF k = h THEN [size |-> 1, name |-> Patterns!Name(w)] ELSE matchesPool[k]]
          ELSE [matchesPool EXCEPT ![h].size = @ + 1]
    <3>1. ASSUME h \in DOMAIN matchesPool PROVE matchesPool[h].name = Patterns!Name(w)
      BY <3>1, <2>4, <1>7
    <3>2. QED
      BY <3>1, <2>1, <1>11 DEF Patterns!PoolAfter, h
  <2>6. /\ DOMAIN matchesPool' = DOMAIN matchesPool \cup {h}
        /\ \A k \in DOMAIN matchesPool : k # h => matchesPool'[k] = matchesPool[k]
        /\ matchesPool'[h] \in PoolEntry /\ matchesPool'[h].name = Patterns!Name(w)
        /\ matchesPool'[h].size = IF h \in DOMAIN matchesPool THEN matchesPool[h].size + 1 ELSE 1
    <3>1. CASE h \notin DOMAIN matchesPool
      BY <3>1, <2>3, <2>5 DEF PoolEntry
    <3>2. CASE h \in DOMAIN matchesPool
      <4>1. matchesPool[h] \in PoolEntry /\ matchesPool[h].name = Patterns!Name(w)
        BY <3>2, <2>4, <1>7
      <4>2. matchesPool' = [matchesPool EXCEPT ![h] = [matchesPool[h] EXCEPT !.size = @ + 1]]
        BY <3>2, <2>5
      <4>3. matchesPool'[h] = [matchesPool[h] EXCEPT !.size = matchesPool[h].size + 1]
        BY <4>2, <3>2
      <4>4. \A k \in DOMAIN matchesPool : k # h => matchesPool'[k] = matchesPool[k]
        BY <4>2
      <4>5. matchesPool[h].size + 1 \in Nat \ {0}
        BY <4>1 DEF PoolEntry
      <4>6. /\ matchesPool'[h] \in PoolEntry /\ matchesPool'[h].name = Patterns!Name(w)
            /\ matchesPool'[h].size = matchesPool[h].size + 1
        BY <4>1, <4>3, <4>5 DEF PoolEntry
      <4>7. DOMAIN matchesPool' = DOMAIN matchesPool \cup {h}
        BY <4>2, <3>2
      <4>8. QED
        BY <4>4, <4>6, <4>7, <3>2
    <3>3. QED
      BY <3>1, <3>2
  <2>7. DOMAIN matchesPool' = {CodeAt(u, i) : i \in Ends(u)}
    BY <2>1, <2>6, <1>7, <1>9
  <2>8. ASSUME NEW k \in DOMAIN matchesPool'
        PROVE  /\ matchesPool'[k] \in PoolEntry
               /\ matchesPool'[k].size = Cardinality({i \in Ends(u) : CodeAt(u, i) = k})
    <3> DEFINE old == {i \in Ends(t) : CodeAt(t, i) = k}
               new == {i \in Ends(u) : CodeAt(u, i) = k}
    <3>1. new = IF k = h THEN old \cup {n + 1} ELSE old
      BY <2>1, <1>9
    <3>2. old \in SUBSET (1 .. n) /\ n + 1 \notin old
      BY <2>1, <1>6
    <3> HIDE DEF old, new
    <3>3. /\ Cardinality(old) \in Nat
          /\ Cardinality(new) = IF k = h THEN Cardinality(old) + 1 ELSE Cardinality(old)
      BY <3>1, <3>2, <1>3, CountNext
    <3>4. CASE k = h
      <4>1. CASE h \in DOMAIN matchesPool
        BY <3>3, <3>4, <4>1, <2>6, <1>7 DEF old, new
      <4>2. CASE h \notin DOMAIN matchesPool
        <5>1. old = {}
          BY <3>4, <4>2, <1>7 DEF old
        <5>2. Cardinality(new) = 1
          BY <5>1, <3>3, <3>4, FS_EmptySet
        <5>3. QED
          BY <5>2, <3>4, <4>2, <2>6 DEF new
      <4>3. QED
        BY <4>1, <4>2
    <3>5. CASE k # h
      BY <3>3, <3>5, <2>6, <1>7 DEF old, new
    <3>6. QED
      BY <3>4, <3>5
  <2>9. ASSUME NEW i \in Ends(u)
        PROVE  matchesPool'[CodeAt(u, i)].name = Patterns!Name(WindowAt(u, i))
    <3>1. CASE i = n + 1
      BY <3>1, <2>1, <2>6
    <3>2. CASE i # n + 1
      <4>1. i \in Ends(t) /\ CodeAt(u, i) = CodeAt(t, i) /\ WindowAt(u, i) = WindowAt(t, i)
        BY <3>2, <2>1, <1>9
      <4>2. CodeAt(t, i) \in DOMAIN matchesPool
        BY <4>1, <1>7
      <4>3. CASE CodeAt(t, i) = h
        BY <4>1, <4>3, <2>4, <2>6
      <4>4. CASE CodeAt(t, i) # h
        BY <4>1, <4>2, <4>4, <2>6, <1>7
      <4>5. QED
        BY <4>3, <4>4
    <3>3. QED
      BY <3>1, <3>2
  <2>10. QED
    BY <2>7, <2>8, <2>9
<1>12. QED
  BY <1>10, <1>11

-----------------------------------------------------------------------------
(* Long runs of matches: no match of them is lost *)

\* g folds the sizes of the groups, the last one first.
SizesFold(g, groups) ==
    g = [s \in SUBSET DOMAIN groups |->
           IF s = {} THEN 0 ELSE g[s \ {Patterns!Max(s)}] + groups[Patterns!Max(s)].sz]

LEMMA LargestIs ==
    ASSUME NEW S \in SUBSET Int, NEW m \in S, \A y \in S : y <= m
    PROVE  Patterns!Max(S) = m
<1>1. \A y \in S : m >= y
  OBVIOUS
<1>2. \A x \in S : (\A y \in S : x >= y) => x = m
  OBVIOUS
<1>3. QED
  BY <1>1, <1>2 DEF Patterns!Max

LEMMA SizesFoldExists ==
    ASSUME NEW groups \in Seq(Patterns!Group)
    PROVE  \E g \in [SUBSET DOMAIN groups -> Nat] :
              SizesFold(g, groups) /\ Patterns!SumOfSizes(groups) = g[DOMAIN groups]
<1> DEFINE D == DOMAIN groups
           plus == [p \in Nat \X Nat |-> p[2] + p[1]]
           sizes == [i \in D |-> groups[i].sz]
           last == [s \in SUBSET D |-> Patterns!Max(s)]
<1>1. IsFiniteSet(D) /\ D = 1 .. Len(groups) /\ Len(groups) \in Nat
  BY FS_Interval
<1>2. \A x \in D : sizes[x] \in Nat /\ sizes[x] = groups[x].sz
  <2>1. \A x \in D : groups[x] \in Patterns!Group
    BY <1>1
  <2>2. \A m \in Patterns!Group : m.sz \in Nat
    BY DEF Patterns!Group
  <2>3. QED
    BY <2>1, <2>2
<1>3. ASSUME NEW s \in SUBSET D, s # {} PROVE last[s] \in s /\ last[s] = Patterns!Max(s)
  <2>1. IsFiniteSet(s) /\ s \in SUBSET Int
    BY <1>1, FS_Subset
  <2>2. \E x \in s : \A y \in s : x >= y
    <3>1. s \in SUBSET (0 .. Len(groups))
      BY <1>1
    <3>2. PICK x \in s : \A y \in s : y <= x
      BY <3>1, <1>1, <1>3, GreatestExists
    <3>3. QED
      BY <3>2, <2>1
  <2>3. Patterns!Max(s) \in s
    BY <2>2 DEF Patterns!Max
  <2>4. QED
    BY <2>3
<1>4. plus \in [Nat \X Nat -> Nat] /\ \A m, n \in Nat : plus[<<m, n>>] = n + m
  OBVIOUS
<1> HIDE DEF plus, sizes, last
<1>5. PICK g \in [SUBSET D -> Nat] : Folds(g, plus, 0, sizes, last, D)
  BY <1>1, <1>2, <1>3, <1>4, FoldExists
<1>6. ASSUME NEW s \in SUBSET D, s # {}
      PROVE  g[s] = g[s \ {Patterns!Max(s)}] + groups[Patterns!Max(s)].sz
  <2>1. g[s] = plus[<<sizes[last[s]], g[s \ {last[s]}]>>]
    BY <1>5, <1>6 DEF Folds
  <2>2. last[s] \in D /\ s \ {last[s]} \in SUBSET D
    BY <1>3, <1>6
  <2>3. sizes[last[s]] \in Nat /\ g[s \ {last[s]}] \in Nat
    BY <2>2, <1>2, <1>5
  <2>4. last[s] = Patterns!Max(s) /\ sizes[last[s]] = groups[last[s]].sz
    BY <2>2, <1>2, <1>3, <1>6
  <2>5. g[s] = g[s \ {last[s]}] + sizes[last[s]]
    BY <2>1, <2>3, <1>4
  <2>6. QED
    BY <2>4, <2>5
<1>7. g[{}] = 0
  BY <1>5 DEF Folds
<1>8. SizesFold(g, groups)
  <2>1. \A s \in SUBSET D :
          g[s] = IF s = {} THEN 0 ELSE g[s \ {Patterns!Max(s)}] + groups[Patterns!Max(s)].sz
    BY <1>6, <1>7
  <2>2. QED
    BY <2>1, <1>5 DEF SizesFold
<1> DEFINE h == CHOOSE k : SizesFold(k, groups)
<1>9. SizesFold(h, groups)
  BY <1>8
<1>10. Patterns!SumOfSizes(groups) = h[D]
  BY DEF Patterns!SumOfSizes, Patterns!FoldLeft, Patterns!MapThenFoldSet, SizesFold
<1> HIDE DEF h
<1>11. \A s \in SUBSET D : h[s] = g[s]
  <2> DEFINE Bad == {n \in Nat : \E s \in SUBSET D : Cardinality(s) = n /\ g[s] # h[s]}
  <2>1. \A s \in SUBSET D : Cardinality(s) \in Nat
    BY <1>1, FS_Subset, FS_CardinalityType
  <2> SUFFICES ASSUME Bad # {} PROVE FALSE
    BY <2>1
  <2>2. PICK m \in Bad : \A k \in Bad : m <= k
    <3> HIDE DEF Bad
    <3> QED BY LeastExists DEF Bad
  <2>3. PICK s \in SUBSET D : Cardinality(s) = m /\ g[s] # h[s]
    BY <2>2
  <2>4. s # {}
    BY <2>3, <1>8, <1>9 DEF SizesFold
  <2> DEFINE x == Patterns!Max(s)
  <2>5. x \in s
    BY <2>4, <1>3
  <2>6. g[s] = g[s \ {x}] + groups[x].sz /\ h[s] = h[s \ {x}] + groups[x].sz
    BY <2>4, <1>8, <1>9 DEF SizesFold
  <2> HIDE DEF x
  <2>7. s \ {x} \in SUBSET D /\ Cardinality(s \ {x}) = m - 1 /\ m - 1 \in Nat
    <3>1. /\ Cardinality(s) \in Nat \ {0} /\ s \ {x} \in SUBSET D
          /\ Cardinality(s \ {x}) = Cardinality(s) - 1
      <4> HIDE DEF D
      <4> QED BY <2>3, <2>5, <1>1, WithoutOne
    <3>2. QED
      BY <3>1, <2>3
  <2>8. g[s \ {x}] = h[s \ {x}]
    BY <2>2, <2>7
  <2>9. QED
    BY <2>3, <2>6, <2>8
<1>12. QED
  BY <1>5, <1>8, <1>10, <1>11

LEMMA SizesOfNone == Patterns!SumOfSizes(<<>>) = 0
<1>1. <<>> \in Seq(Patterns!Group) /\ DOMAIN <<>> = {}
  OBVIOUS
<1>2. PICK g : SizesFold(g, <<>>) /\ Patterns!SumOfSizes(<<>>) = g[{}]
  BY <1>1, SizesFoldExists
<1>3. g[{}] = 0
  BY <1>1, <1>2 DEF SizesFold
<1>4. QED
  BY <1>2, <1>3

LEMMA SizesOfLonger ==
    ASSUME NEW groups \in Seq(Patterns!Group), NEW m \in Patterns!Group
    PROVE  /\ Patterns!SumOfSizes(groups) \in Nat
           /\ Patterns!SumOfSizes(Append(groups, m)) = Patterns!SumOfSizes(groups) + m.sz
<1> DEFINE longer == Append(groups, m)
           n == Len(groups)
<1>1. /\ longer \in Seq(Patterns!Group) /\ n \in Nat /\ DOMAIN groups = 1 .. n
      /\ DOMAIN longer = 1 .. n + 1 /\ longer[n + 1] = m
      /\ \A i \in 1 .. n : longer[i] = groups[i]
  OBVIOUS
<1> HIDE DEF longer, n
<1>2. PICK g \in [SUBSET (1 .. n) -> Nat] :
        SizesFold(g, groups) /\ Patterns!SumOfSizes(groups) = g[1 .. n]
  BY <1>1, SizesFoldExists
<1>3. PICK h \in [SUBSET (1 .. n + 1) -> Nat] :
        SizesFold(h, longer) /\ Patterns!SumOfSizes(longer) = h[1 .. n + 1]
  BY <1>1, SizesFoldExists
<1>4. ASSUME NEW k \in 1 .. n + 1
      PROVE  /\ Patterns!Max(1 .. k) = k /\ (1 .. k) \ {k} = 1 .. k - 1
             /\ 1 .. k # {} /\ 1 .. k \in SUBSET (1 .. n + 1)
  <2>1. k \in Int /\ k >= 1 /\ k <= n + 1
    BY <1>1
  <2>2. k \in 1 .. k /\ 1 .. k \in SUBSET Int /\ \A y \in 1 .. k : y <= k
    BY <2>1
  <2>3. Patterns!Max(1 .. k) = k
    BY <2>2, LargestIs
  <2>4. (1 .. k) \ {k} = 1 .. k - 1
    BY <2>1
  <2>5. 1 .. k # {} /\ 1 .. k \subseteq 1 .. n + 1
    <3>1. \A i \in 1 .. k : i \in 1 .. n + 1
      BY <1>1, <2>1
    <3>2. QED
      BY <2>2, <3>1
  <2>6. QED
    BY <2>3, <2>4, <2>5
<1>5. ASSUME NEW k \in 1 .. n + 1 PROVE h[1 .. k] = h[1 .. k - 1] + longer[k].sz
  <2>1. h[1 .. k] = h[(1 .. k) \ {Patterns!Max(1 .. k)}] + longer[Patterns!Max(1 .. k)].sz
    BY <1>1, <1>3, <1>4 DEF SizesFold
  <2>2. QED
    BY <2>1, <1>4
<1>6. ASSUME NEW k \in 1 .. n PROVE g[1 .. k] = g[1 .. k - 1] + groups[k].sz
  <2>1. 1 .. k \in SUBSET (1 .. n) /\ k \in 1 .. n + 1
    BY <1>1
  <2>2. g[1 .. k] = g[(1 .. k) \ {Patterns!Max(1 .. k)}] + groups[Patterns!Max(1 .. k)].sz
    BY <2>1, <1>1, <1>2, <1>4 DEF SizesFold
  <2>3. QED
    BY <2>1, <2>2, <1>4
<1>7. g[1 .. 0] = 0 /\ h[1 .. 0] = 0
  BY <1>1, <1>2, <1>3 DEF SizesFold
<1>8. \A k \in 0 .. n : g[1 .. k] = h[1 .. k]
  <2> DEFINE Bad == {k \in 0 .. n : g[1 .. k] # h[1 .. k]}
  <2> SUFFICES ASSUME Bad # {} PROVE FALSE
    OBVIOUS
  <2>1. PICK k \in Bad : \A j \in Bad : k <= j
    <3>1. Bad \in SUBSET Nat /\ Bad # {}
      BY <1>1
    <3> HIDE DEF Bad
    <3>2. QED
      BY <3>1, LeastExists
  <2>2. k # 0 /\ k \in 1 .. n /\ k \in 1 .. n + 1 /\ k - 1 \in 0 .. n
    BY <2>1, <1>1, <1>7
  <2>3. g[1 .. k - 1] = h[1 .. k - 1]
    BY <2>1, <2>2
  <2>4. QED
    BY <2>1, <2>2, <2>3, <1>1, <1>5, <1>6
<1>9. g[1 .. n] = h[1 .. n] /\ n + 1 \in 1 .. n + 1 /\ (n + 1) - 1 = n
  BY <1>1, <1>8
<1>10. h[1 .. n + 1] = h[1 .. n] + m.sz
  BY <1>1, <1>5, <1>9
<1>11. QED
  BY <1>1, <1>2, <1>3, <1>9, <1>10 DEF longer

\* Two accesses that Consecutive, or RW, matches; where it does in a trace.
IsMatch(p, a, b) ==
    /\ a.accessType = b.accessType
    /\ IF p = "Consecutive" THEN b.addr - a.addr = TypeSize ELSE b.addr = a.addr
Hits(p, t) == {i \in 2 .. Len(t) : IsMatch(p, t[i - 1], t[i])}

\* Each run of matches that has ended, or just each run, is long enough.
EndedRunsAreLong(p, t) ==
    \A e \in Hits(p, t) : e < Len(t) /\ e + 1 \notin Hits(p, t)
                          => e - MIN_GROUP_SIZE + 1 .. e \subseteq Hits(p, t)
RunsAreLong(p, t) ==
    \A e \in Hits(p, t) : e + 1 \notin Hits(p, t)
                          => e - MIN_GROUP_SIZE + 1 .. e \subseteq Hits(p, t)

\* e is the last match of the trace.
IsLastHit(p, t, e) == e \in Hits(p, t) /\ \A i \in Hits(p, t) : i <= e

\* The groups have all matches, and the last group has the run of the last match.
KeptAll(p, t, groups) ==
    /\ Patterns!SumOfSizes(groups) = Cardinality(Hits(p, t))
    /\ groups = <<>> <=> Hits(p, t) = {}
    /\ \A e \in Hits(p, t) :
         IsLastHit(p, t, e) =>
             /\ groups[Len(groups)].endAddr = t[e].addr
             /\ \A n \in Nat : e - n + 1 .. e \subseteq Hits(p, t) => n <= groups[Len(groups)].sz

LEMMA HitsAre ==
    ASSUME NEW t \in Seq(Access), NEW p
    PROVE  /\ Hits(p, t) \in SUBSET (2 .. Len(t)) /\ IsFiniteSet(Hits(p, t))
           /\ Cardinality(Hits(p, t)) \in Nat
           /\ Hits(p, t) # {} => \E e \in Hits(p, t) : IsLastHit(p, t, e)
<1>1. Len(t) \in Nat /\ Hits(p, t) \in SUBSET (2 .. Len(t))
  BY DEF Hits
<1>2. IsFiniteSet(Hits(p, t)) /\ Cardinality(Hits(p, t)) \in Nat
  <2>1. IsFiniteSet(2 .. Len(t))
    BY <1>1, FS_Interval
  <2>2. QED
    BY <2>1, <1>1, FS_Subset, FS_CardinalityType
<1>3. ASSUME Hits(p, t) # {} PROVE \E e \in Hits(p, t) : IsLastHit(p, t, e)
  <2>1. Hits(p, t) \in SUBSET (0 .. Len(t))
    BY <1>1
  <2>2. PICK e \in Hits(p, t) : \A i \in Hits(p, t) : i <= e
    BY <2>1, <1>1, <1>3, GreatestExists
  <2>3. QED
    BY <2>2 DEF IsLastHit
<1>4. QED
  BY <1>1, <1>2, <1>3

\* u is t and the access a.
IsLonger(p, t, a, u) ==
    /\ Len(u) = Len(t) + 1 /\ Len(t) \in Nat /\ u \in Seq(Access)
    /\ Len(u) \notin Hits(p, t)
    /\ Hits(p, u) = Hits(p, t) \cup (IF Len(u) \in Hits(p, u) THEN {Len(u)} ELSE {})
    /\ \A i \in 1 .. Len(t) : u[i] = t[i]
    /\ u[Len(u)] = a

LEMMA HitsOfLonger ==
    ASSUME NEW t \in Seq(Access), NEW a \in Access, NEW p, NEW u, u = Append(t, a)
    PROVE  IsLonger(p, t, a, u)
<1>1. /\ u \in Seq(Access) /\ Len(u) = Len(t) + 1 /\ Len(t) \in Nat /\ u[Len(t) + 1] = a
      /\ \A i \in 1 .. Len(t) : u[i] = t[i]
  OBVIOUS
<1>2. ASSUME NEW i \in 2 .. Len(t) PROVE i \in Hits(p, t) <=> i \in Hits(p, u)
  <2>1. i - 1 \in 1 .. Len(t) /\ i \in 1 .. Len(t) /\ i \in 2 .. Len(u)
    BY <1>1
  <2>2. u[i] = t[i] /\ u[i - 1] = t[i - 1]
    BY <1>1, <2>1
  <2>3. QED
    BY <2>1, <2>2 DEF Hits
<1>3. Hits(p, t) \in SUBSET (2 .. Len(t)) /\ Hits(p, u) \in SUBSET (2 .. Len(t) + 1)
  BY <1>1 DEF Hits
<1>4. Len(u) \notin Hits(p, t)
  BY <1>1, <1>3
<1>5. Hits(p, u) = Hits(p, t) \cup (IF Len(u) \in Hits(p, u) THEN {Len(u)} ELSE {})
  BY <1>1, <1>2, <1>3
<1>6. QED
  BY <1>1, <1>4, <1>5 DEF IsLonger

\* What mergeMatches makes of the groups and one match more.
LEMMA MergeIs ==
    ASSUME NEW groups \in Seq(Patterns!Group), NEW m \in Patterns!Group
    PROVE  LET last == groups[Len(groups)]
               front == SubSeq(groups, 1, Len(groups) - 1)
           IN Patterns!MergeMatches(Append(groups, m)) =
                IF groups = <<>> THEN Append(groups, m)
                ELSE IF Patterns!IsMergable(last, m) THEN Append(front, Patterns!Updated(last, m))
                ELSE IF last.sz < MIN_GROUP_SIZE THEN groups ELSE Append(groups, m)
<1> DEFINE gs == Append(groups, m)
           n == Len(groups)
<1>1. /\ gs \in Seq(Patterns!Group) /\ Len(gs) = n + 1 /\ gs[n + 1] = m /\ n \in Nat
      /\ \A j \in 1 .. n : gs[j] = groups[j]
  OBVIOUS
<1>2. Patterns!Last(gs) = m /\ Patterns!Front(gs) = groups
  <2>1. Patterns!Last(gs) = m
    BY <1>1 DEF Patterns!Last
  <2>2. SubSeq(gs, 1, n) = groups
    OBVIOUS
  <2>3. QED
    BY <2>1, <2>2, <1>1 DEF Patterns!Front
<1>3. CASE groups = <<>>
  <2>1. Len(gs) <= 1
    BY <1>1, <1>3
  <2> HIDE DEF gs
  <2>2. Patterns!MergeMatches(gs) = gs
    BY <2>1 DEF Patterns!MergeMatches
  <2>3. QED
    BY <2>2, <1>3 DEF gs
<1>4. CASE groups # <<>>
  <2>1. n >= 1 /\ gs[Len(gs) - 1] = groups[n] /\ ~(Len(gs) <= 1)
    BY <1>1, <1>4
  <2>2. Patterns!Front(groups) = SubSeq(groups, 1, n - 1)
    BY DEF Patterns!Front
  <2> HIDE DEF gs, n
  <2>3. Patterns!MergeMatches(gs) =
           IF Patterns!IsMergable(groups[n], m)
           THEN Append(Patterns!Front(groups), Patterns!Updated(groups[n], m))
           ELSE IF groups[n].sz < MIN_GROUP_SIZE THEN groups ELSE gs
    BY <2>1, <1>2 DEF Patterns!MergeMatches
  <2>4. QED
    BY <2>2, <2>3, <1>4 DEF gs, n
<1>5. QED
  BY <1>3, <1>4

LEMMA LastOf ==
    ASSUME NEW groups \in Seq(Patterns!Group), groups # <<>>
    PROVE  LET last == groups[Len(groups)]
               front == SubSeq(groups, 1, Len(groups) - 1)
           IN /\ front \in Seq(Patterns!Group) /\ last \in Patterns!Group
              /\ groups = Append(front, last) /\ Len(front) = Len(groups) - 1
              /\ Patterns!SumOfSizes(groups) = Patterns!SumOfSizes(front) + last.sz
              /\ Patterns!SumOfSizes(front) \in Nat
<1> DEFINE n == Len(groups)
           front == SubSeq(groups, 1, n - 1)
<1>1. n \in Nat /\ n >= 1 /\ groups[n] \in Patterns!Group
  OBVIOUS
<1>2. /\ front \in Seq(Patterns!Group) /\ Len(front) = n - 1
      /\ \A j \in 1 .. n - 1 : front[j] = groups[j]
  <2>1. n - 1 \in Nat /\ \A j \in 1 .. n - 1 : groups[j] \in Patterns!Group
    BY <1>1
  <2> HIDE DEF n
  <2>2. QED
    BY <2>1, SubSeqProperties
<1>3. groups = Append(front, groups[n])
  <2> DEFINE g == Append(front, groups[n])
  <2> HIDE DEF front
  <2>1. g \in Seq(Patterns!Group) /\ Len(g) = n /\ \A j \in 1 .. n : g[j] = groups[j]
    BY <1>1, <1>2
  <2>2. QED
    BY <2>1
<1> HIDE DEF front, n
<1>4. /\ Patterns!SumOfSizes(front) \in Nat
      /\ Patterns!SumOfSizes(Append(front, groups[n])) = Patterns!SumOfSizes(front) + groups[n].sz
  BY <1>1, <1>2, SizesOfLonger
<1>5. QED
  BY <1>1, <1>2, <1>3, <1>4 DEF front, n

\* One more match is in the groups too: the small group that mergeMatches would
\* keep instead of it is not there.
LEMMA KeepsAll ==
    ASSUME NEW p, NEW t \in Seq(Access), NEW a \in Access, NEW u, u = Append(t, a),
           NEW groups \in Seq(Patterns!Group), KeptAll(p, t, groups), EndedRunsAreLong(p, t),
           Len(u) \in Hits(p, u),
           NEW m \in Patterns!Group,
           m.beginAddr = t[Len(t)].addr, m.endAddr = a.addr, m.sz = 1
    PROVE  KeptAll(p, u, Patterns!MergeMatches(Append(groups, m)))
<1> DEFINE last == groups[Len(groups)]
           front == SubSeq(groups, 1, Len(groups) - 1)
           r == Patterns!MergeMatches(Append(groups, m))
           N == Len(u)
           sum == Patterns!SumOfSizes(groups)
           HasRun(g) == \A n \in Nat : N - n + 1 .. N \subseteq Hits(p, u) => n <= g.sz
<1>1. /\ N = Len(t) + 1 /\ Len(t) \in Nat /\ N \notin Hits(p, t) /\ Hits(p, u) = Hits(p, t) \cup {N}
      /\ u[N] = a /\ u \in Seq(Access)
  <2>1. IsLonger(p, t, a, u)
    BY HitsOfLonger, Zenon
  <2>2. QED
    BY <2>1 DEF IsLonger
<1>2. /\ Hits(p, t) \in SUBSET (2 .. Len(t)) /\ IsFiniteSet(Hits(p, t))
      /\ Cardinality(Hits(p, t)) \in Nat
  BY HitsAre
<1>3. Cardinality(Hits(p, u)) = Cardinality(Hits(p, t)) + 1
  <2> DEFINE S == Hits(p, t)
  <2>1. IsFiniteSet(S) /\ N \notin S
    BY <1>1, <1>2
  <2> HIDE DEF S, N
  <2>2. Cardinality(S \cup {N}) = Cardinality(S) + 1
    BY <2>1, FS_AddElement
  <2>3. Hits(p, u) = S \cup {N}
    BY <1>1 DEF S
  <2>4. QED
    BY <2>2, <2>3 DEF S
<1>4. sum = Cardinality(Hits(p, t)) /\ (groups = <<>> <=> Hits(p, t) = {})
  BY DEF KeptAll
<1>5. \A e \in Hits(p, u) : IsLastHit(p, u, e) => e = N
  <2>1. \A i \in Hits(p, t) : i < N
    BY <1>1, <1>2
  <2>2. ASSUME NEW e \in Hits(p, u), \A i \in Hits(p, u) : i <= e PROVE e = N
    <3>1. N \in Hits(p, u) /\ N <= e
      BY <2>2, <1>1
    <3>2. QED
      BY <3>1, <2>1, <2>2, <1>1, <1>2
  <2>3. QED
    BY <2>2 DEF IsLastHit
\* It is enough that the group which the match is in has the run that it ends.
<1>6. ASSUME r # <<>>, Patterns!SumOfSizes(r) = sum + 1, r[Len(r)].endAddr = a.addr,
             HasRun(r[Len(r)])
      PROVE  KeptAll(p, u, r)
  <2> HIDE DEF r, N
  <2>1. Hits(p, u) # {} /\ Patterns!SumOfSizes(r) = Cardinality(Hits(p, u))
    BY <1>1, <1>3, <1>4, <1>6
  <2>2. ASSUME NEW e \in Hits(p, u), IsLastHit(p, u, e)
        PROVE  /\ r[Len(r)].endAddr = u[e].addr
               /\ \A n \in Nat : e - n + 1 .. e \subseteq Hits(p, u) => n <= r[Len(r)].sz
    <3>1. e = N
      BY <2>2, <1>5
    <3>2. QED
      BY <3>1, <1>1, <1>6
  <2>3. QED
    BY <2>1, <2>2, <1>6 DEF KeptAll
<1>7. ASSUME N - 1 \notin Hits(p, t), NEW n \in Nat, N - n + 1 .. N \subseteq Hits(p, u)
      PROVE  n <= 1
  <2> SUFFICES ASSUME n >= 2 PROVE FALSE
    BY <1>7
  <2>1. N - 1 \in N - n + 1 .. N
    BY <1>1
  <2>2. N - 1 \in Hits(p, u) /\ N - 1 # N
    BY <2>1, <1>1, <1>7
  <2>3. QED
    BY <2>2, <1>1, <1>7
<1>8. sum \in Nat /\ Patterns!SumOfSizes(Append(groups, m)) = sum + 1
  BY SizesOfLonger
<1>9. /\ Append(groups, m) # <<>> /\ Append(groups, m)[Len(Append(groups, m))] = m
  OBVIOUS
<1>10. CASE groups = <<>>
  <2>1. r = Append(groups, m)
    BY <1>10, MergeIs
  <2>2. N - 1 \notin Hits(p, t)
    BY <1>4, <1>10
  <2>3. HasRun(m)
    BY <2>2, <1>7
  <2>4. /\ r # <<>> /\ Patterns!SumOfSizes(r) = sum + 1 /\ r[Len(r)] = m
        /\ r[Len(r)].endAddr = a.addr
    <3> HIDE DEF r, N, sum
    <3> QED BY <2>1, <1>8, <1>9
  <2>5. HasRun(r[Len(r)])
    <3> HIDE DEF r, N, sum
    <3> QED BY <2>3, <2>4
  <2> HIDE DEF r, N, sum, HasRun
  <2>6. KeptAll(p, u, r)
    BY <2>4, <2>5, <1>6
  <2>7. QED
    BY <2>6 DEF r
<1>11. CASE groups # <<>>
  <2>1. PICK e \in Hits(p, t) : IsLastHit(p, t, e)
    BY <1>4, <1>11, HitsAre
  <2>2. /\ last.endAddr = t[e].addr
        /\ \A n \in Nat : e - n + 1 .. e \subseteq Hits(p, t) => n <= last.sz
    BY <2>1 DEF KeptAll
  <2>3. /\ front \in Seq(Patterns!Group) /\ last \in Patterns!Group
        /\ sum = Patterns!SumOfSizes(front) + last.sz /\ Patterns!SumOfSizes(front) \in Nat
    BY <1>11, LastOf
  <2>4. last.sz \in Nat \ {0} /\ MIN_GROUP_SIZE \in Nat
    BY <2>3, PatternSizes DEF Patterns!Group
  <2>5. r = IF Patterns!IsMergable(last, m) THEN Append(front, Patterns!Updated(last, m))
            ELSE IF last.sz < MIN_GROUP_SIZE THEN groups ELSE Append(groups, m)
    BY <1>11, MergeIs
  <2>6. e \in 2 .. Len(t)
    BY <1>2
  <2>7. ASSUME N - 1 \in Hits(p, t) PROVE e = N - 1 /\ Patterns!IsMergable(last, m)
    <3>1. e = N - 1
      BY <2>7, <2>1, <2>6, <1>1 DEF IsLastHit
    <3>2. QED
      BY <3>1, <2>2, <1>1 DEF Patterns!IsMergable
  <2>8. CASE Patterns!IsMergable(last, m)
    <3> DEFINE v == Patterns!Updated(last, m)
    <3>1. v \in Patterns!Group /\ v.endAddr = a.addr /\ v.sz = last.sz + 1
      <4>1. v = [last EXCEPT !.endAddr = m.endAddr, !.sz = last.sz + m.sz]
        BY DEF Patterns!Updated
      <4>2. last.sz + 1 \in Nat \ {0}
        <5> HIDE DEF last
        <5> QED BY <2>4
      <4>3. m.endAddr \in Int
        BY DEF Patterns!Group
      <4> HIDE DEF v, last
      <4>4. QED
        BY <4>1, <4>2, <4>3, <2>3 DEF Patterns!Group
    <3>2. r = Append(front, v)
      BY <2>5, <2>8
    <3> HIDE DEF v, front, last, r, N, sum
    <3>3. Patterns!SumOfSizes(r) = sum + 1
      <4>1. Patterns!SumOfSizes(Append(front, v)) = Patterns!SumOfSizes(front) + v.sz
        BY <2>3, <3>1, SizesOfLonger
      <4>2. QED
        BY <4>1, <3>1, <3>2, <2>3, <2>4
    <3>4. r # <<>> /\ r[Len(r)] = v
      BY <3>1, <3>2, <2>3
    <3>5. ASSUME NEW n \in Nat, N - n + 1 .. N \subseteq Hits(p, u) PROVE n <= v.sz
      <4>1. CASE N - 1 \notin Hits(p, t)
        BY <4>1, <3>1, <3>5, <2>4, <1>7
      <4>2. CASE N - 1 \in Hits(p, t) /\ n >= 1
        <5>1. n - 1 \in Nat /\ e - (n - 1) + 1 = N - n + 1 /\ e = N - 1
          BY <4>2, <2>7, <1>1
        <5>2. e - (n - 1) + 1 .. e \subseteq Hits(p, t)
          <6>1. \A i \in N - n + 1 .. N - 1 : i \in N - n + 1 .. N /\ i # N
            BY <1>1
          <6>2. N - n + 1 .. N - 1 \subseteq Hits(p, t)
            BY <6>1, <3>5, <1>1
          <6>3. QED
            BY <6>2, <5>1
        <5>3. n - 1 <= last.sz
          BY <5>1, <5>2, <2>2
        <5>4. QED
          BY <5>3, <3>1, <2>4
      <4>3. QED
        BY <4>1, <4>2, <3>1, <2>4
    <3>6. HasRun(r[Len(r)])
      BY <3>4, <3>5
    <3> HIDE DEF HasRun
    <3>7. KeptAll(p, u, r)
      BY <3>1, <3>3, <3>4, <3>6, <1>6
    <3>8. QED
      BY <3>7 DEF r
  <2>9. CASE ~Patterns!IsMergable(last, m)
    <3>1. N - 1 \notin Hits(p, t)
      BY <2>7, <2>9
    <3>2. e < Len(t) /\ e + 1 \notin Hits(p, t)
      BY <3>1, <2>1, <2>6, <1>1 DEF IsLastHit
    <3>3. e - MIN_GROUP_SIZE + 1 .. e \subseteq Hits(p, t)
      BY <3>2 DEF EndedRunsAreLong
    <3>4. MIN_GROUP_SIZE <= last.sz
      BY <3>3, <2>2, <2>4
    <3>5. r = Append(groups, m)
      BY <3>4, <2>4, <2>5, <2>9
    <3>6. HasRun(m)
      BY <3>1, <1>7
    <3> HIDE DEF r, N, sum
    <3>7. /\ r # <<>> /\ Patterns!SumOfSizes(r) = sum + 1 /\ r[Len(r)] = m
          /\ r[Len(r)].endAddr = a.addr
      BY <3>5, <1>8, <1>9
    <3>8. HasRun(r[Len(r)])
      BY <3>6, <3>7
    <3> HIDE DEF HasRun
    <3>9. KeptAll(p, u, r)
      BY <3>7, <3>8, <1>6
    <3>10. QED
      BY <3>9 DEF r
  <2>10. QED
    BY <2>8, <2>9
<1>12. QED
  BY <1>10, <1>11

\* Nothing changes with an access that ends no match.
LEMMA KeepsWithout ==
    ASSUME NEW p, NEW t \in Seq(Access), NEW a \in Access, NEW u, u = Append(t, a),
           NEW groups, KeptAll(p, t, groups), Len(u) \notin Hits(p, u)
    PROVE  KeptAll(p, u, groups)
<1>1. Hits(p, u) = Hits(p, t) /\ \A i \in 1 .. Len(t) : u[i] = t[i]
  <2>1. IsLonger(p, t, a, u)
    BY HitsOfLonger, Zenon
  <2>2. QED
    BY <2>1 DEF IsLonger
<1>2. ASSUME NEW e \in Hits(p, t) PROVE u[e] = t[e] /\ (IsLastHit(p, u, e) => IsLastHit(p, t, e))
  <2>1. e \in 1 .. Len(t)
    BY HitsAre
  <2>2. QED
    BY <2>1, <1>1 DEF IsLastHit
<1>3. QED
  BY <1>1, <1>2 DEF KeptAll

\* The runs that have ended stay as they are.
LEMMA EndedBefore ==
    ASSUME NEW p, NEW t \in Seq(Access), NEW a \in Access, NEW u, u = Append(t, a),
           EndedRunsAreLong(p, u)
    PROVE  EndedRunsAreLong(p, t)
<1>1. /\ Len(u) = Len(t) + 1 /\ Len(t) \in Nat
      /\ Hits(p, u) = Hits(p, t) \cup (IF Len(u) \in Hits(p, u) THEN {Len(u)} ELSE {})
      /\ Hits(p, t) \in SUBSET (2 .. Len(t))
  <2>1. IsLonger(p, t, a, u)
    BY HitsOfLonger, Zenon
  <2>2. Hits(p, t) \in SUBSET (2 .. Len(t))
    BY HitsAre
  <2>3. QED
    BY <2>1, <2>2 DEF IsLonger
<1>2. ASSUME NEW e \in Hits(p, t), e < Len(t), e + 1 \notin Hits(p, t)
      PROVE  e - MIN_GROUP_SIZE + 1 .. e \subseteq Hits(p, t)
  <2>1. e \in Int /\ e \in Hits(p, u) /\ e < Len(u) /\ e + 1 \notin Hits(p, u)
    BY <1>1, <1>2
  <2>2. e - MIN_GROUP_SIZE + 1 .. e \subseteq Hits(p, u)
    BY <2>1 DEF EndedRunsAreLong
  <2>3. Len(u) \notin e - MIN_GROUP_SIZE + 1 .. e
    BY <2>1, <1>1
  <2>4. QED
    BY <2>2, <2>3, <1>1
<1>3. QED
  BY <1>2 DEF EndedRunsAreLong

\* The last group is not too small to be reported.
LEMMA ReportsAll ==
    ASSUME NEW p, NEW t \in Seq(Access), NEW groups \in Seq(Patterns!Group),
           KeptAll(p, t, groups), RunsAreLong(p, t)
    PROVE  Patterns!SumOfSizes(Patterns!Reported(groups)) = Cardinality(Hits(p, t))
<1>1. CASE groups = <<>>
  BY <1>1 DEF Patterns!Reported, KeptAll
<1>2. CASE groups # <<>>
  <2>1. PICK e \in Hits(p, t) : IsLastHit(p, t, e)
    BY <1>2, HitsAre DEF KeptAll
  <2>2. e \in Int /\ MIN_GROUP_SIZE \in Nat
    BY HitsAre, PatternSizes
  <2>3. e + 1 \notin Hits(p, t)
    BY <2>1, <2>2 DEF IsLastHit
  <2>4. e - MIN_GROUP_SIZE + 1 .. e \subseteq Hits(p, t)
    BY <2>3 DEF RunsAreLong
  <2>5. MIN_GROUP_SIZE <= groups[Len(groups)].sz
    BY <2>1, <2>2, <2>4 DEF KeptAll
  <2>6. groups[Len(groups)].sz \in Nat
    BY <1>2, LastOf DEF Patterns!Group
  <2>7. Patterns!Reported(groups) = groups
    BY <2>2, <2>5, <2>6 DEF Patterns!Reported, Patterns!Last
  <2>8. QED
    BY <2>7 DEF KeptAll
<1>3. QED
  BY <1>1, <1>2

\* Until the groups are reported they have all matches, if all runs that ended
\* were long.
LongRuns ==
    \A p \in {"Consecutive", "RW"} :
        IF reported
        THEN RunsAreLong(p, pushed)
             => Patterns!SumOfSizes(matches[p]) = Cardinality(Hits(p, pushed))
        ELSE EndedRunsAreLong(p, pushed) => KeptAll(p, pushed, matches[p])

LEMMA LongRunsInit == Patterns!Init => LongRuns
<1> SUFFICES ASSUME Patterns!Init, NEW p \in {"Consecutive", "RW"}
             PROVE  reported = FALSE /\ KeptAll(p, pushed, matches[p])
  BY DEF LongRuns
<1>1. reported = FALSE /\ pushed = <<>> /\ matches[p] = <<>>
  BY DEF Patterns!Init, Patterns!Pattern
<1>2. Hits(p, <<>>) = {}
  BY DEF Hits
<1>3. KeptAll(p, <<>>, <<>>)
  BY <1>2, SizesOfNone, FS_EmptySet DEF KeptAll
<1>4. QED
  BY <1>1, <1>3

\* The window of two matches just where the trace has a match.
LEMMA WindowMatches ==
    ASSUME NEW p \in {"Consecutive", "RW"}, NEW u \in Seq(Access), NEW w, IsWindow(u, w, 2)
    PROVE  /\ Patterns!IsFull(p, w) /\ Patterns!Matches(p, w) <=> Len(u) \in Hits(p, u)
           /\ Patterns!IsFull(p, w) =>
                LET m == Patterns!MatchInfo(w, Len(u) - 1)
                IN /\ m \in Patterns!Group /\ m.sz = 1
                   /\ m.beginAddr = u[Len(u) - 1].addr /\ m.endAddr = u[Len(u)].addr
<1>1. /\ w \in Seq(Access) /\ Len(w) = IF Len(u) <= 2 THEN Len(u) ELSE 2
      /\ \A i \in 1 .. Len(w) : w[i] = u[Len(u) - Len(w) + i]
  BY DEF IsWindow
<1>2. Len(u) \in Nat /\ Len(w) \in Nat /\ Patterns!WINDOW_SIZE[p] = 2
  BY <1>1, PatternSizes
<1>3. Patterns!IsFull(p, w) <=> Len(w) >= 2
  BY <1>2 DEF Patterns!IsFull
<1>4. CASE Len(u) < 2
  <2>1. Len(w) = Len(u)
    BY <1>1, <1>2, <1>4
  <2>2. ~Patterns!IsFull(p, w)
    BY <2>1, <1>2, <1>3, <1>4
  <2>3. Len(u) \notin Hits(p, u)
    BY <1>2, <1>4 DEF Hits
  <2>4. QED
    BY <2>2, <2>3
<1>5. CASE Len(u) >= 2
  <2>1. Len(w) = 2
    <3>1. \A k, n \in Nat : k = (IF n <= 2 THEN n ELSE 2) /\ n >= 2 => k = 2
      OBVIOUS
    <3>2. QED
      BY <3>1, <1>1, <1>2, <1>5
  <2>2. 1 \in 1 .. Len(w) /\ 2 \in 1 .. Len(w)
    BY <2>1
  <2>3. w[1] = u[Len(u) - 1] /\ w[2] = u[Len(u)]
    <3>1. w[1] = u[Len(u) - Len(w) + 1] /\ w[2] = u[Len(u) - Len(w) + 2]
      BY <1>1, <2>2
    <3>2. QED
      BY <3>1, <2>1, <1>2
  <2>4. Patterns!IsFull(p, w)
    BY <2>1, <1>3
  <2>5. Patterns!Matches(p, w) <=> IsMatch(p, w[1], w[2])
    <3>1. CASE p = "Consecutive"
      BY <3>1 DEF Patterns!Matches, Patterns!SameType, IsMatch
    <3>2. CASE p = "RW"
      BY <3>2 DEF Patterns!Matches, Patterns!SameType, IsMatch
    <3>3. QED
      BY <3>1, <3>2
  <2>6. Len(u) \in Hits(p, u) <=> IsMatch(p, w[1], w[2])
    BY <2>3, <1>2, <1>5 DEF Hits
  <2> DEFINE m == Patterns!MatchInfo(w, Len(u) - 1)
  <2>7. w[1].addr \in Nat /\ w[2].addr \in Nat
    <3>1. w[1] \in Access /\ w[2] \in Access
      BY <1>1, <2>2
    <3>2. QED
      BY <3>1, PatternSizes
  <2>8. /\ m \in Patterns!Group /\ m.sz = 1 /\ m.beginAddr = w[1].addr /\ m.endAddr = w[2].addr
    BY <1>1, <1>2, <1>5, <2>1, <2>7 DEF Patterns!MatchInfo, Patterns!Last, Patterns!Group
  <2> HIDE DEF m
  <2>9. /\ m \in Patterns!Group /\ m.sz = 1
        /\ m.beginAddr = u[Len(u) - 1].addr /\ m.endAddr = u[Len(u)].addr
    BY <2>3, <2>8
  <2>10. QED
    BY <2>4, <2>5, <2>6, <2>9 DEF m
<1>6. QED
  BY <1>2, <1>4, <1>5

LEMMA LongRunsStep ==
    ASSUME pushed \in Seq(Access), Windows, Groups, LongRuns,
           NEW a \in Access, Patterns!PushAccess(a)
    PROVE  LongRuns'
<1> SUFFICES ASSUME NEW p \in {"Consecutive", "RW"}, EndedRunsAreLong(p, pushed')
             PROVE  reported' = FALSE /\ KeptAll(p, pushed', matches'[p])
  <2>1. reported' = FALSE
    BY DEF Patterns!PushAccess
  <2>2. (\A p \in {"Consecutive", "RW"} :
            EndedRunsAreLong(p, pushed') => KeptAll(p, pushed', matches'[p])) => LongRuns'
    BY <2>1 DEF LongRuns
  <2>3. QED
    BY <2>2
<1> DEFINE w == accesses'[p]
           m == Patterns!MatchInfo(w, processed[p])
           hit == Patterns!IsFull(p, w) /\ Patterns!Matches(p, w)
           u == pushed'
           groups == matches[p]
<1>1. p \in Patterns!Pattern /\ Patterns!WINDOW_SIZE[p] = 2
  BY PatternSizes
<1>2. /\ u = Append(pushed, a) /\ reported' = FALSE /\ reported = FALSE
      /\ matches'[p] = IF hit THEN Patterns!MergeMatches(Append(groups, m)) ELSE groups
  <2>1. reported = FALSE
    BY DEF Patterns!PushAccess
  <2>2. QED
    BY <1>1, <2>1 DEF Patterns!PushAccess
<1>3. IsLonger(p, pushed, a, u)
  BY <1>2, HitsOfLonger, Zenon
<1>4. IsWindow(u, w, 2) /\ processed[p] = Len(u) - 1 /\ u \in Seq(Access)
  <2>1. processed'[p] = Len(u) /\ IsWindow(u, w, 2)
    BY <1>1, WindowsStep DEF Windows
  <2>2. processed[p] = Len(pushed)
    BY <1>1 DEF Windows
  <2>3. QED
    BY <2>1, <2>2, <1>3 DEF IsLonger
<1>5. EndedRunsAreLong(p, pushed)
  BY <1>2, EndedBefore
<1>6. KeptAll(p, pushed, groups) /\ groups \in Seq(Patterns!Group)
  BY <1>1, <1>2, <1>5 DEF LongRuns, Groups
<1> HIDE DEF w, u, groups
<1>7. hit <=> Len(u) \in Hits(p, u)
  BY <1>4, WindowMatches
<1>8. CASE hit
  <2>1. /\ m \in Patterns!Group /\ m.sz = 1
        /\ m.beginAddr = u[Len(u) - 1].addr /\ m.endAddr = u[Len(u)].addr
    BY <1>4, <1>8, WindowMatches
  <2>2. Len(u) \in Hits(p, u) /\ Len(u) >= 2
    BY <1>7, <1>8, <1>4, HitsAre
  <2>3. u[Len(u) - 1] = pushed[Len(pushed)] /\ u[Len(u)] = a
    BY <2>2, <1>3 DEF IsLonger
  <2> HIDE DEF m
  <2>4. KeptAll(p, u, Patterns!MergeMatches(Append(groups, m)))
    BY <2>1, <2>2, <2>3, <1>2, <1>5, <1>6, KeepsAll
  <2>5. QED
    BY <2>4, <1>2, <1>8 DEF u
<1>9. CASE ~hit
  <2>1. KeptAll(p, u, groups)
    BY <1>2, <1>6, <1>7, <1>9, KeepsWithout
  <2>2. QED
    BY <2>1, <1>2, <1>9 DEF u
<1>10. QED
  BY <1>8, <1>9

LEMMA LongRunsReported ==
    ASSUME pushed \in Seq(Access), Groups, LongRuns, Patterns!GetMatches
    PROVE  LongRuns'
<1>1. /\ reported = FALSE /\ reported' = TRUE /\ pushed' = pushed
      /\ \A p \in Patterns!Pattern : matches'[p] = Patterns!Reported(matches[p])
  BY DEF Patterns!GetMatches
<1>2. ASSUME NEW p \in {"Consecutive", "RW"}, RunsAreLong(p, pushed)
      PROVE  Patterns!SumOfSizes(matches'[p]) = Cardinality(Hits(p, pushed))
  <2>1. p \in Patterns!Pattern /\ matches[p] \in Seq(Patterns!Group)
    BY PatternSizes DEF Groups
  <2>2. EndedRunsAreLong(p, pushed)
    BY <1>2 DEF RunsAreLong, EndedRunsAreLong
  <2>3. KeptAll(p, pushed, matches[p])
    BY <2>2, <1>1 DEF LongRuns
  <2>4. QED
    BY <2>1, <2>3, <1>1, <1>2, ReportsAll
<1>3. QED
  BY <1>1, <1>2 DEF LongRuns

\* The run of a first match, as the property has it, ends where the matches do.
LEMMA RunsShow ==
    ASSUME pushed \in Seq(Access), NEW p \in {"Consecutive", "RW"},
           NEW S, S = Hits(p, pushed), S = Patterns!MatchingAt(p),
           \A i \in S : i - 1 \in S \/ Patterns!RunLength(p, i) >= MIN_GROUP_SIZE
    PROVE  RunsAreLong(p, pushed)
<1> SUFFICES ASSUME NEW e \in S, e + 1 \notin S
             PROVE  e - MIN_GROUP_SIZE + 1 .. e \subseteq S
  BY DEF RunsAreLong
<1>1. S \in SUBSET (2 .. Len(pushed)) /\ Len(pushed) \in Nat /\ MIN_GROUP_SIZE \in Nat
  <2>1. Hits(p, pushed) \in SUBSET (2 .. Len(pushed)) /\ Len(pushed) \in Nat
    BY DEF Hits
  <2>2. QED
    BY <2>1, PatternSizes
<1> DEFINE Starts == {i \in S : i <= e /\ i .. e \subseteq S}
<1>2. PICK i \in Starts : \A k \in Starts : i <= k
  <2>1. e \in Starts /\ Starts \in SUBSET Nat
    BY <1>1
  <2> HIDE DEF Starts
  <2>2. QED
    BY <2>1, LeastExists
<1>3. i \in S /\ i <= e /\ i .. e \subseteq S /\ i \in Nat /\ e \in Nat
  BY <1>1, <1>2
<1>4. i - 1 \notin S
  <2> SUFFICES ASSUME i - 1 \in S PROVE FALSE
    OBVIOUS
  <2>1. i - 1 .. e \subseteq S
    BY <1>3
  <2>2. i - 1 \in Starts
    BY <2>1, <1>3
  <2>3. QED
    BY <2>2, <1>2, <1>3
<1> DEFINE n == e - i + 1
           IsRun(k) == k \in 1 .. Len(pushed) /\ i .. i + k - 1 \subseteq S /\ i + k \notin S
<1>5. IsRun(n)
  BY <1>1, <1>3
<1>6. ASSUME NEW k, IsRun(k) PROVE k = n
  <2>1. k \in Nat /\ k >= 1
    BY <1>6, <1>1
  <2>2. CASE k < n
    <3>1. i + k \in i .. e
      BY <2>1, <2>2, <1>3
    <3>2. QED
      BY <3>1, <1>3, <1>6
  <2>3. CASE k > n
    <3>1. e + 1 \in i .. i + k - 1
      BY <2>1, <2>3, <1>3
    <3>2. QED
      BY <3>1, <1>6
  <2>4. QED
    BY <2>1, <2>2, <2>3, <1>3
<1>7. Patterns!RunLength(p, i) = CHOOSE k \in 1 .. Len(pushed) : /\ i .. i + k - 1 \subseteq S
                                                                 /\ i + k \notin S
  BY DEF Patterns!RunLength
<1>8. Patterns!RunLength(p, i) = n
  <2> HIDE DEF n
  <2>1. QED
    BY <1>5, <1>6, <1>7
<1>9. n >= MIN_GROUP_SIZE
  BY <1>3, <1>4, <1>8
<1>10. QED
  BY <1>1, <1>3, <1>9

LEMMA MatchingIs ==
    ASSUME pushed \in Seq(Access), NEW p \in {"Consecutive", "RW"}
    PROVE  Patterns!MatchingAt(p) = Hits(p, pushed)
<1>1. ASSUME NEW i \in 2 .. Len(pushed)
      PROVE  Patterns!Matches(p, SubSeq(pushed, i - 1, i)) <=> IsMatch(p, pushed[i - 1], pushed[i])
  <2> DEFINE w == SubSeq(pushed, i - 1, i)
  <2>1. i - 1 \in Int /\ i \in Int /\ \A k \in i - 1 .. i : pushed[k] \in Access
    OBVIOUS
  <2>2. \A k \in 1 .. i - (i - 1) + 1 : w[k] = pushed[(i - 1) + k - 1]
    BY <2>1, SubSeqProperties
  <2>3. w[1] = pushed[i - 1] /\ w[2] = pushed[i]
    BY <2>1, <2>2
  <2> HIDE DEF w
  <2>4. CASE p = "Consecutive"
    BY <2>3, <2>4 DEF Patterns!Matches, Patterns!SameType, IsMatch
  <2>5. CASE p = "RW"
    BY <2>3, <2>5 DEF Patterns!Matches, Patterns!SameType, IsMatch
  <2>6. QED
    BY <2>4, <2>5 DEF w
<1>2. QED
  BY <1>1 DEF Hits, Patterns!MatchingAt

LEMMA LongRunsShow ==
    ASSUME pushed \in Seq(Access), LongRuns
    PROVE  LongRunsAreReported
<1>1. ASSUME reported, NEW p \in {"Consecutive", "RW"},
             \A i \in Patterns!MatchingAt(p) :
                i - 1 \in Patterns!MatchingAt(p) \/ Patterns!RunLength(p, i) >= MIN_GROUP_SIZE
      PROVE  Patterns!SumOfSizes(matches[p]) = Patterns!Cardinality(Patterns!MatchingAt(p))
  <2>1. Patterns!MatchingAt(p) = Hits(p, pushed)
    BY MatchingIs
  <2>2. RunsAreLong(p, pushed)
    BY <2>1, <1>1, RunsShow
  <2>3. Patterns!SumOfSizes(matches[p]) = Cardinality(Hits(p, pushed))
    BY <2>2, <1>1 DEF LongRuns
  <2>4. QED
    BY <2>1, <2>3, SameCardinalityOfWindows
<1>2. QED
  BY <1>1 DEF LongRunsAreReported, Patterns!LongRunsAreReported

LEMMA LongRunsUnchanged == LongRuns /\ UNCHANGED patternVars => LongRuns'
<1> SUFFICES ASSUME LongRuns, UNCHANGED patternVars PROVE LongRuns'
  OBVIOUS
<1>1. UNCHANGED <<matches, reported, pushed>>
  BY DEF patternVars
<1>2. QED
  BY <1>1 DEF LongRuns

-----------------------------------------------------------------------------
(* getAccessPatterns as a whole *)

PatternTyped == /\ pushed \in Seq(Access) /\ reported \in BOOLEAN
                /\ matched \in [Patterns!Pattern -> Nat]
                /\ processed \in [Patterns!Pattern -> Nat]

PatternInv == PatternTyped /\ Windows /\ Groups /\ LongRuns /\ Pool

LEMMA PatternInit == Patterns!Init => PatternInv
<1> SUFFICES ASSUME Patterns!Init PROVE PatternInv
  OBVIOUS
<1>1. /\ pushed = <<>> /\ matchesPool = <<>> /\ reported = FALSE
      /\ accesses = [p \in Patterns!Pattern |-> <<>>]
      /\ matches = [p \in Patterns!Pattern |-> <<>>]
      /\ matched = [p \in Patterns!Pattern |-> 0] /\ processed = [p \in Patterns!Pattern |-> 0]
  BY DEF Patterns!Init
<1>2. pushed \in Seq(Access) /\ Len(pushed) = 0
  BY <1>1
<1>3. PatternTyped
  BY <1>1, <1>2 DEF PatternTyped
<1>4. Windows
  <2>1. ASSUME NEW p \in Patterns!Pattern
        PROVE  /\ processed[p] = Len(pushed)
               /\ IsWindow(pushed, accesses[p], Patterns!WINDOW_SIZE[p])
    <3>1. Patterns!WINDOW_SIZE[p] \in Nat \ {0}
      BY PatternSizes
    <3>2. accesses[p] = <<>> /\ processed[p] = 0
      BY <1>1
    <3>3. QED
      BY <3>1, <3>2, <1>1, <1>2 DEF IsWindow
  <2>2. QED
    BY <2>1 DEF Windows
<1>5. Groups
  <2>1. \A p \in Patterns!Pattern : matches[p] = <<>>
    BY <1>1
  <2>2. QED
    BY <2>1, <1>1 DEF Groups, Chains
<1>6. Pool
  <2>1. Ends(pushed) = {}
    BY <1>2 DEF Ends
  <2>2. DOMAIN matchesPool = {}
    BY <1>1
  <2>3. QED
    BY <2>1, <2>2 DEF Pool
<1>7. QED
  BY <1>3, <1>4, <1>5, <1>6, LongRunsInit DEF PatternInv

LEMMA PatternStep == PatternInv /\ Patterns!Next => PatternInv'
<1> SUFFICES ASSUME PatternInv, Patterns!Next PROVE PatternInv'
  OBVIOUS
<1>1. PatternTyped /\ Windows /\ Groups /\ LongRuns /\ Pool
  BY DEF PatternInv
<1>2. ASSUME NEW a \in Access, Patterns!PushAccess(a) PROVE PatternInv'
  <2>1. pushed' = Append(pushed, a) /\ reported' = reported
    BY <1>2 DEF Patterns!PushAccess
  <2>2. matched' \in [Patterns!Pattern -> Nat] /\ processed' \in [Patterns!Pattern -> Nat]
    BY <1>1, <1>2 DEF PatternTyped, Patterns!PushAccess
  <2>3. PatternTyped'
    BY <2>1, <2>2, <1>1 DEF PatternTyped
  <2>4. Windows' /\ Groups' /\ LongRuns' /\ Pool'
    BY <1>1, <1>2, WindowsStep, GroupsStep, LongRunsStep, PoolStep DEF PatternTyped
  <2>5. QED
    BY <2>3, <2>4 DEF PatternInv
<1>3. ASSUME Patterns!GetMatches PROVE PatternInv'
  <2>1. UNCHANGED <<pushed, accesses, matched, processed, matchesPool>> /\ reported' = TRUE
    BY <1>3 DEF Patterns!GetMatches
  <2>2. PatternTyped' /\ Windows' /\ Pool'
    BY <2>1, <1>1 DEF PatternTyped, Windows, Pool
  <2>3. Groups' /\ LongRuns'
    BY <1>1, <1>3, GroupsReported, LongRunsReported DEF PatternTyped
  <2>4. QED
    BY <2>2, <2>3 DEF PatternInv
<1>4. QED
  BY <1>2, <1>3 DEF Patterns!Next

LEMMA PatternUnchanged == PatternInv /\ UNCHANGED patternVars => PatternInv'
<1> SUFFICES ASSUME PatternInv, UNCHANGED patternVars PROVE PatternInv'
  OBVIOUS
<1>1. UNCHANGED <<accesses, matches, matched, processed, matchesPool, reported, pushed>>
  BY DEF patternVars
<1>2. QED
  BY <1>1, LongRunsUnchanged DEF PatternInv, PatternTyped, Windows, Groups, Pool

LEMMA PatternShows ==
    PatternInv => /\ Patterns!TypeOK
                  /\ GroupsAreChains /\ LongRunsAreReported /\ StatCountsShapes
<1> SUFFICES ASSUME PatternInv PROVE Patterns!TypeOK /\ GroupsAreChains /\ StatCountsShapes
  BY LongRunsShow DEF PatternInv, PatternTyped
<1>1. PatternTyped /\ Windows /\ Groups /\ Pool /\ pushed \in Seq(Access)
  BY DEF PatternInv, PatternTyped
<1>2. \A i \in Ends(pushed) : WindowAt(pushed, i) \in Window
  BY <1>1, WindowAtIs DEF Window, Ends
<1>3. Patterns!TypeOK
  <2>1. ASSUME NEW p \in Patterns!Pattern
        PROVE  /\ accesses[p] \in Seq(Access) /\ Len(accesses[p]) <= Patterns!WINDOW_SIZE[p]
               /\ matches[p] \in Seq(Patterns!Group)
    <3>1. IsWindow(pushed, accesses[p], Patterns!WINDOW_SIZE[p])
      BY <1>1 DEF Windows
    <3>2. \A n, m, k \in Nat : k = (IF n <= m THEN n ELSE m) => k <= m
      OBVIOUS
    <3>3. accesses[p] \in Seq(Access) /\ Patterns!WINDOW_SIZE[p] \in Nat
      BY <3>1, PatternSizes DEF IsWindow
    <3>4. Len(accesses[p]) \in Nat /\ Len(pushed) \in Nat
      BY <3>3, <1>1
    <3>5. Len(accesses[p]) = IF Len(pushed) <= Patterns!WINDOW_SIZE[p] THEN Len(pushed)
                             ELSE Patterns!WINDOW_SIZE[p]
      BY <3>1 DEF IsWindow
    <3>6. QED
      BY <3>2, <3>3, <3>4, <3>5, <1>1 DEF Groups
  <2>2. ASSUME NEW h \in DOMAIN matchesPool
        PROVE  h \in Nat /\ matchesPool[h].size \in Nat \ {0}
    <3>1. PICK i \in Ends(pushed) : h = CodeAt(pushed, i)
      BY <1>1 DEF Pool
    <3>2. h \in Nat
      BY <3>1, <1>2, HashCodeIs DEF CodeAt
    <3>3. QED
      BY <3>2, <1>1 DEF Pool, PoolEntry
  <2>3. QED
    BY <2>1, <2>2, <1>1 DEF Patterns!TypeOK, PatternTyped
<1>4. GroupsAreChains
  <2>1. ASSUME NEW p \in Patterns!Pattern, NEW g \in Patterns!ToSet(matches[p])
        PROVE  /\ g.endAddr = g.beginAddr + g.sz * Patterns!Step(p)
               /\ pushed[g.index].addr = g.beginAddr
               /\ pushed[g.index + 1].addr = g.beginAddr + Patterns!Step(p)
               /\ reported => g.sz >= MIN_GROUP_SIZE
    <3>1. matches[p] \in Seq(Patterns!Group)
      BY <1>1 DEF Groups
    <3>2. PICK j \in 1 .. Len(matches[p]) : g = matches[p][j]
      BY <3>1 DEF Patterns!ToSet
    <3>3. Chain(pushed, p, g) /\ (reported => g.sz >= MIN_GROUP_SIZE)
      BY <3>2, <1>1 DEF Groups, Chains
    <3>4. QED
      BY <3>3 DEF Chain
  <2>2. QED
    BY <2>1 DEF GroupsAreChains, Patterns!GroupsAreChains, Patterns!NoSmallGroupReported
<1>5. StatCountsShapes
  <2> DEFINE shape(i) == Patterns!Relative(WindowAt(pushed, i))
  <2>1. ASSUME NEW h \in DOMAIN matchesPool
        PROVE  matchesPool[h].size =
                 Cardinality({i \in Ends(pushed) : shape(i) = Patterns!Decoded(h)})
    <3>1. PICK k \in Ends(pushed) : h = CodeAt(pushed, k)
      BY <1>1 DEF Pool
    <3>2. Patterns!Decoded(h) = shape(k)
      BY <3>1, <1>2, DecodedIs DEF CodeAt
    <3>3. ASSUME NEW i \in Ends(pushed)
          PROVE  CodeAt(pushed, i) = h <=> shape(i) = Patterns!Decoded(h)
      BY <3>1, <3>2, <1>2, SameCode DEF CodeAt
    <3>4. {i \in Ends(pushed) : shape(i) = Patterns!Decoded(h)}
            = {i \in Ends(pushed) : CodeAt(pushed, i) = h}
      BY <3>3
    <3>5. QED
      BY <3>4, <1>1 DEF Pool
  <2>2. ASSUME NEW i \in Ends(pushed)
        PROVE  \E h \in DOMAIN matchesPool : Patterns!Decoded(h) = shape(i)
    <3>1. CodeAt(pushed, i) \in DOMAIN matchesPool
      BY <1>1 DEF Pool
    <3>2. Patterns!Decoded(CodeAt(pushed, i)) = shape(i)
      BY <1>2, DecodedIs DEF CodeAt
    <3>3. QED
      BY <3>1, <3>2
  <2> HIDE DEF shape
  <2>3. /\ \A h \in DOMAIN matchesPool :
             matchesPool[h].size =
               Patterns!Cardinality({i \in Ends(pushed) : shape(i) = Patterns!Decoded(h)})
        /\ \A i \in Ends(pushed) : \E h \in DOMAIN matchesPool : Patterns!Decoded(h) = shape(i)
    BY <2>1, <2>2, SameCardinalityOfWindows
  <2>4. QED
    BY <2>3 DEF StatCountsShapes, Patterns!StatCountsShapes, Ends, WindowAt, shape
<1>6. QED
  BY <1>3, <1>4, <1>5

-----------------------------------------------------------------------------
(* The matrix *)

\* Module QueryManager brings its own instance of the operators.
LEMMA SameCardinalityOfMatrix == \A S : Matrix!Cardinality(S) = Cardinality(S)
  BY DEF Matrix!Cardinality, Cardinality

\* How many of S are less than t, the place of t in the order of S.
Rank(S, t) == Cardinality({u \in S : u < t})

\* A finite set of numbers has just one member of each rank.
LEMMA RankIs ==
    ASSUME NEW S \in SUBSET Int, IsFiniteSet(S)
    PROVE  /\ \A i \in 1 .. Cardinality(S) : \E t \in S : Rank(S, t) = i - 1
           /\ \A t \in S : Rank(S, t) \in 0 .. Cardinality(S) - 1
           /\ \A t, u \in S : Rank(S, t) = Rank(S, u) => t = u
<1> DEFINE Below(t) == {u \in S : u < t}
           n == Cardinality(S)
           rank == [t \in S |-> Rank(S, t)]
<1>1. n \in Nat
  BY FS_CardinalityType
<1>2. ASSUME NEW t \in S
      PROVE  IsFiniteSet(Below(t)) /\ Rank(S, t) \in 0 .. n - 1
  <2>1. Below(t) \in SUBSET S /\ t \notin Below(t)
    OBVIOUS
  <2> HIDE DEF Below
  <2>2. IsFiniteSet(Below(t)) /\ Cardinality(Below(t)) <= n /\ Cardinality(Below(t)) # n
    BY <2>1, FS_Subset
  <2>3. Cardinality(Below(t)) \in Nat
    BY <2>2, FS_CardinalityType
  <2>4. Cardinality(Below(t)) \in 0 .. n - 1
    BY <1>1, <2>2, <2>3
  <2>5. QED
    BY <2>2, <2>4 DEF Rank, Below
<1>3. ASSUME NEW t \in S, NEW u \in S, t < u
      PROVE  Rank(S, t) < Rank(S, u)
  <2>1. Below(t) \in SUBSET Below(u) /\ t \in Below(u) /\ t \notin Below(t)
    <3>1. \A w \in S : w < t => w < u
      BY <1>3
    <3>2. ~(t < t) /\ t \in S
      OBVIOUS
    <3>3. QED
      BY <1>3, <3>1, <3>2
  <2> HIDE DEF Below, n
  <2>2. IsFiniteSet(Below(u)) /\ Rank(S, u) \in Nat /\ Rank(S, t) \in Nat
    BY <1>2, <1>1
  <2>3. Cardinality(Below(t)) <= Cardinality(Below(u)) /\ Cardinality(Below(t)) # Cardinality(Below(u))
    BY <2>1, <2>2, FS_Subset
  <2>4. Rank(S, t) = Cardinality(Below(t)) /\ Rank(S, u) = Cardinality(Below(u))
    BY DEF Rank, Below
  <2>5. QED
    BY <2>2, <2>3, <2>4
<1>4. ASSUME NEW t \in S, NEW u \in S, Rank(S, t) = Rank(S, u) PROVE t = u
  <2>1. t \in Int /\ u \in Int
    OBVIOUS
  <2> HIDE DEF n
  <2>4. \A m \in 0 .. n - 1 : ~(m < m)
    BY <1>1
  <2>5. ~(Rank(S, t) < Rank(S, u)) /\ ~(Rank(S, u) < Rank(S, t))
    BY <2>4, <1>2, <1>4
  <2>2. CASE t < u
    BY <2>2, <1>3, <2>5
  <2>3. CASE u < t
    BY <2>3, <1>3, <2>5
  <2>6. QED
    BY <2>1, <2>2, <2>3
<1>5. rank \in Injection(S, 0 .. n - 1)
  BY <1>2, <1>4 DEF Injection, IsInjective
<1>6. IsFiniteSet(0 .. n - 1) /\ Cardinality(0 .. n - 1) = n
  <2> HIDE DEF n
  <2>1. 0 \in Int /\ n - 1 \in Int /\ (n - 1) - 0 + 1 = n /\ (0 > n - 1 => n = 0)
    BY <1>1
  <2>2. QED
    BY <2>1, FS_Interval
<1>7. rank \in Surjection(S, 0 .. n - 1)
  <2> HIDE DEF n, rank
  <2> QED BY <1>5, <1>6, FS_Injection DEF n
<1>8. ASSUME NEW i \in 1 .. n PROVE \E t \in S : Rank(S, t) = i - 1
  <2>1. i - 1 \in 0 .. n - 1
    BY <1>1
  <2>2. \E t \in S : rank[t] = i - 1
    <3> HIDE DEF rank, n
    <3> QED BY <1>7, <2>1 DEF Surjection
  <2>3. QED
    BY <2>2
<1>9. QED
  BY <1>2, <1>4, <1>8

\* SeenInOrder has just the threads of the matrix.
LEMMA SeenInOrderIs ==
    ASSUME seen \subseteq Thread, IsFiniteSet(seen)
    PROVE  /\ DOMAIN Matrix!SeenInOrder = 1 .. Cardinality(seen)
           /\ {Matrix!SeenInOrder[i] : i \in DOMAIN Matrix!SeenInOrder} = seen

<1> DEFINE n == Cardinality(seen)
           order == Matrix!SeenInOrder
           place(t) == Rank(seen, t)
<1>1. seen \in SUBSET Int
  BY ComponentAssumptions DEF Matrix!IdAssumption
<1>2. /\ \A i \in 1 .. n : \E t \in seen : place(t) = i - 1
      /\ \A t \in seen : place(t) \in 0 .. n - 1
      /\ \A t, u \in seen : place(t) = place(u) => t = u
  BY <1>1, RankIs
<1>3. n \in Nat
  BY FS_CardinalityType
<1>4. order = [i \in 1 .. n |-> CHOOSE t \in seen : place(t) = i - 1]
  BY DEF Matrix!SeenInOrder, Matrix!Cardinality, Rank, Cardinality
<1> HIDE DEF n, place, order
<1>5. DOMAIN order = 1 .. n
  BY <1>4
<1>6. ASSUME NEW i \in 1 .. n PROVE order[i] \in seen /\ place(order[i]) = i - 1
  <2>1. order[i] = CHOOSE t \in seen : place(t) = i - 1
    BY <1>4
  <2>2. QED
    BY <2>1, <1>2
<1>7. ASSUME NEW t \in seen PROVE \E i \in 1 .. n : order[i] = t
  <2>1. place(t) + 1 \in 1 .. n /\ (place(t) + 1) - 1 = place(t)
    BY <1>2, <1>3
  <2>2. place(order[place(t) + 1]) = place(t) /\ order[place(t) + 1] \in seen
    BY <2>1, <1>6
  <2>3. QED
    BY <2>1, <2>2, <1>2
<1>8. QED
  BY <1>5, <1>6, <1>7 DEF n, order

-----------------------------------------------------------------------------
\* The last call on the QueryContext about arg accepts it.
Accepted(accept, reject, arg) ==
    \E i \in 1 .. Len(configs) :
        /\ configs[i].op = accept /\ configs[i].arg = arg
        /\ \A j \in i + 1 .. Len(configs) : ~(configs[j].op = reject /\ configs[j].arg = arg)

Filters(enabled, accepted, accept, reject) ==
    /\ enabled <=> \E i \in 1 .. Len(configs) : configs[i].op \in {accept, reject}
    /\ \A arg : arg \in accepted <=> Accepted(accept, reject, arg)

\* The wanted accesses to v.
AccessesTo(v) == {i \in Matrix!Wanted : events[i].varId = v}

ConfigCall == [op : {"acceptThread", "rejectThread", "acceptFunc", "rejectFunc"},
               arg : Thread \cup Func]

MatrixInv ==
    /\ Matrix!TypeOK /\ configs \in Seq(ConfigCall) /\ events \in Seq(Matrix!Event)
    /\ Filters(threadsEnabled, threads, "acceptThread", "rejectThread")
    /\ Filters(funcsEnabled, funcs, "acceptFunc", "rejectFunc")
    /\ \A v \in DOMAIN entries :
         /\ entries[v].accessed = Cardinality(AccessesTo(v))
         /\ entries[v].types = {<<events[i].threadId, events[i].type>> : i \in AccessesTo(v)}
    /\ seen = {events[i].threadId : i \in Matrix!Wanted}
    /\ phase # "merged" => DOMAIN entries = {events[i].varId : i \in Matrix!Wanted}
    /\ phase = "config" => events = <<>>
    /\ Matrix!MergedByTag

\* The calls that QueryManager's LetsPass looks at are the last ones.
LEMMA LetsPassIs ==
    ASSUME configs \in Seq(ConfigCall), NEW accept, NEW reject, accept # reject, NEW arg
    PROVE  Matrix!LetsPass(accept, reject, arg)
             <=> \/ ~\E i \in 1 .. Len(configs) : configs[i].op \in {accept, reject}
                 \/ Accepted(accept, reject, arg)
<1> DEFINE about == {i \in 1 .. Len(configs) : configs[i].op \in {accept, reject}}
           named == {i \in about : configs[i].arg = arg}
<1>1. Len(configs) \in Nat
  BY LenProperties
<1>2. Matrix!LetsPass(accept, reject, arg)
        <=> about = {} \/ (named # {} /\ configs[Matrix!Max(named)].op = accept)
  BY DEF Matrix!LetsPass
<1>3. named # {} => Matrix!Max(named) \in named /\ \A i \in named : i <= Matrix!Max(named)
  <2>1. named \in SUBSET (0 .. Len(configs))
    BY <1>1
  <2>2. ASSUME named # {} PROVE \E m \in named : \A i \in named : i <= m
    <3> HIDE DEF named
    <3> QED BY <1>1, <2>1, <2>2, GreatestExists
  <2>3. \A m, i \in named : m >= i <=> i <= m
    BY <1>1
  <2> HIDE DEF named
  <2>4. QED
    BY <2>2, <2>3 DEF Matrix!Max
<1>4. ASSUME named # {}, configs[Matrix!Max(named)].op = accept
      PROVE  Accepted(accept, reject, arg)
  <2>1. PICK m : m = Matrix!Max(named)
    OBVIOUS
  <2>2. m \in named /\ configs[m].op = accept /\ \A i \in named : i <= m
    BY <1>3, <1>4, <2>1
  <2>3. ASSUME NEW j \in m + 1 .. Len(configs), configs[j].op = reject, configs[j].arg = arg
        PROVE  FALSE
    <3>1. m \in 1 .. Len(configs)
      BY <2>2
    <3>2. j \in named
      BY <2>3, <3>1, <1>1
    <3>3. QED
      BY <3>1, <3>2, <2>2, <1>1
  <2>4. QED
    BY <2>2, <2>3 DEF Accepted
<1>5. ASSUME Accepted(accept, reject, arg)
      PROVE  named # {} /\ configs[Matrix!Max(named)].op = accept
  <2>1. PICK i \in 1 .. Len(configs) :
          /\ configs[i].op = accept /\ configs[i].arg = arg
          /\ \A j \in i + 1 .. Len(configs) : ~(configs[j].op = reject /\ configs[j].arg = arg)
    BY <1>5 DEF Accepted
  <2>2. i \in named
    BY <2>1
  <2>3. PICK m : m = Matrix!Max(named)
    OBVIOUS
  <2>4. m \in named /\ i <= m
    BY <1>3, <2>2, <2>3
  <2>5. m \in 1 .. Len(configs) /\ configs[m].arg = arg /\ configs[m].op \in {accept, reject}
    BY <2>4
  <2>6. m = i \/ m \in i + 1 .. Len(configs)
    BY <2>4, <2>5, <1>1
  <2>7. configs[m].op = accept
    BY <2>1, <2>5, <2>6
  <2>8. QED
    BY <2>2, <2>3, <2>7
<1>6. Accepted(accept, reject, arg) => about # {}
  BY DEF Accepted
<1>7. about = {} <=> ~\E i \in 1 .. Len(configs) : configs[i].op \in {accept, reject}
  OBVIOUS
<1> HIDE DEF about, named
<1>8. QED
  BY <1>2, <1>4, <1>5, <1>6, <1>7

\* The filter lets pass just what the calls on the QueryContext let pass.
LEMMA AcceptIs ==
    ASSUME MatrixInv, NEW e
    PROVE  Matrix!Accept(e) <=> /\ Matrix!LetsPass("acceptThread", "rejectThread", e.threadId)
                                /\ Matrix!LetsPass("acceptFunc", "rejectFunc", e.top)
<1>1. configs \in Seq(ConfigCall)
  BY DEF MatrixInv
<1>2. Matrix!LetsPass("acceptThread", "rejectThread", e.threadId)
        <=> ~threadsEnabled \/ e.threadId \in threads
  BY <1>1, LetsPassIs, "acceptThread" # "rejectThread" DEF MatrixInv, Filters
<1>3. Matrix!LetsPass("acceptFunc", "rejectFunc", e.top) <=> ~funcsEnabled \/ e.top \in funcs
  BY <1>1, LetsPassIs, "acceptFunc" # "rejectFunc" DEF MatrixInv, Filters
<1>4. QED
  BY <1>2, <1>3 DEF Matrix!Accept

\* One more call on the QueryContext.
LEMMA FiltersStep ==
    ASSUME configs \in Seq(ConfigCall), NEW given \in ConfigCall, configs' = Append(configs, given),
           NEW accept, NEW reject, accept # reject, NEW enabled, NEW accepted,
           Filters(enabled, accepted, accept, reject)
    PROVE  /\ (\E i \in 1 .. Len(configs') : configs'[i].op \in {accept, reject})
                <=> enabled \/ given.op \in {accept, reject}
           /\ \A arg : Accepted(accept, reject, arg)'
                         <=> \/ given.op = accept /\ given.arg = arg
                             \/ arg \in accepted /\ ~(given.op = reject /\ given.arg = arg)
<1>1. /\ Len(configs) \in Nat /\ Len(configs') = Len(configs) + 1
      /\ \A i \in 1 .. Len(configs) : configs'[i] = configs[i]
      /\ configs'[Len(configs) + 1] = given
  BY LenProperties, AppendProperties
<1>2. PICK n \in Nat : n = Len(configs) /\ Len(configs') = n + 1
  BY <1>1
<1>3. /\ \A i \in 1 .. n : configs'[i] = configs[i]
      /\ configs'[n + 1] = given
      /\ \A i : i \in 1 .. n + 1 <=> i \in 1 .. n \/ i = n + 1
  BY <1>1, <1>2
<1>4. (\E i \in 1 .. n + 1 : configs'[i].op \in {accept, reject})
        <=> (\E i \in 1 .. n : configs[i].op \in {accept, reject}) \/ given.op \in {accept, reject}
  BY <1>3
<1>5. ASSUME NEW arg
      PROVE  Accepted(accept, reject, arg)'
               <=> \/ given.op = accept /\ given.arg = arg
                   \/ Accepted(accept, reject, arg) /\ ~(given.op = reject /\ given.arg = arg)
  <2> DEFINE last(c, i, m) == /\ c[i].op = accept /\ c[i].arg = arg
                              /\ \A j \in i + 1 .. m : ~(c[j].op = reject /\ c[j].arg = arg)
  <2>1. Accepted(accept, reject, arg)' <=> \E i \in 1 .. n + 1 : last(configs', i, n + 1)
    BY <1>2 DEF Accepted
  <2>2. Accepted(accept, reject, arg) <=> \E i \in 1 .. n : last(configs, i, n)
    BY <1>2 DEF Accepted
  <2>3. last(configs', n + 1, n + 1) <=> given.op = accept /\ given.arg = arg
    <3>1. (n + 1) + 1 .. n + 1 = {}
      OBVIOUS
    <3>2. QED
      BY <1>3, <3>1
  <2>4. ASSUME NEW i \in 1 .. n
        PROVE  last(configs', i, n + 1) <=> last(configs, i, n) /\ ~(given.op = reject /\ given.arg = arg)
    <3>1. \A j : j \in i + 1 .. n + 1 <=> j \in i + 1 .. n \/ j = n + 1
      OBVIOUS
    <3>2. \A j \in i + 1 .. n : j \in 1 .. n
      OBVIOUS
    <3>3. QED
      BY <1>3, <3>1, <3>2
  <2>5. QED
    <3> HIDE DEF last
    <3> QED BY <1>3, <2>1, <2>2, <2>3, <2>4
<1>6. QED
  BY <1>2, <1>4, <1>5 DEF Filters

LEMMA WantedUnchanged ==
    ASSUME UNCHANGED <<configs, events>>
    PROVE  /\ Matrix!Wanted' = Matrix!Wanted
           /\ \A v : AccessesTo(v)' = AccessesTo(v)
<1>1. \A accept, reject, arg :
        Matrix!LetsPass(accept, reject, arg)' <=> Matrix!LetsPass(accept, reject, arg)
  BY DEF Matrix!LetsPass
<1>2. Matrix!Wanted' = Matrix!Wanted
  BY <1>1 DEF Matrix!Wanted
<1>3. QED
  BY <1>2 DEF AccessesTo

LEMMA ConfigureStep ==
    ASSUME MatrixInv, Matrix!TypeOK', NEW given \in ConfigCall, Matrix!Configure(given),
           Filters(threadsEnabled, threads, "acceptThread", "rejectThread")',
           Filters(funcsEnabled, funcs, "acceptFunc", "rejectFunc")'
    PROVE  MatrixInv'
<1>1. /\ events = <<>> /\ phase = "config" /\ configs' = Append(configs, given)
      /\ UNCHANGED <<entries, seen, phase, events>>
  BY DEF Matrix!Configure, MatrixInv
<1>2. Matrix!Wanted = {} /\ Matrix!Wanted' = {}
  BY <1>1 DEF Matrix!Wanted
<1>3. DOMAIN entries = {} /\ seen = {}
  BY <1>1, <1>2 DEF MatrixInv
<1>4. configs' \in Seq(ConfigCall)
  BY <1>1, AppendProperties DEF MatrixInv
<1>5. Matrix!MergedByTag'
  BY <1>1 DEF Matrix!MergedByTag
<1>6. QED
  BY <1>1, <1>2, <1>3, <1>4, <1>5 DEF MatrixInv

LEMMA SameSettings ==
    ASSUME MatrixInv, Matrix!TypeOK',
           UNCHANGED <<threadsEnabled, threads, funcsEnabled, funcs, configs>>
    PROVE  /\ Filters(threadsEnabled, threads, "acceptThread", "rejectThread")'
           /\ Filters(funcsEnabled, funcs, "acceptFunc", "rejectFunc")'
           /\ configs' \in Seq(ConfigCall)
  BY DEF MatrixInv, Filters, Accepted

\* A call on the QueryContext keeps the filter what the calls say.
LEMMA ConfigSteps ==
    ASSUME MatrixInv, Matrix!TypeOK',
           \/ \E t \in Thread : Matrix!AcceptThread(t) \/ Matrix!RejectThread(t)
           \/ \E f \in Func : Matrix!AcceptFunc(f) \/ Matrix!RejectFunc(f)
    PROVE  MatrixInv'
<1> DEFINE T(enabled, accepted) == Filters(enabled, accepted, "acceptThread", "rejectThread")
           F(enabled, accepted) == Filters(enabled, accepted, "acceptFunc", "rejectFunc")
<1>1. configs \in Seq(ConfigCall) /\ T(threadsEnabled, threads) /\ F(funcsEnabled, funcs)
  BY DEF MatrixInv
<1>2. ASSUME NEW given \in ConfigCall, Matrix!Configure(given),
             threadsEnabled' <=> threadsEnabled \/ given.op \in {"acceptThread", "rejectThread"},
             funcsEnabled' <=> funcsEnabled \/ given.op \in {"acceptFunc", "rejectFunc"},
             \A t : t \in threads'
                      <=> \/ given.op = "acceptThread" /\ given.arg = t
                          \/ t \in threads /\ ~(given.op = "rejectThread" /\ given.arg = t),
             \A f : f \in funcs'
                      <=> \/ given.op = "acceptFunc" /\ given.arg = f
                          \/ f \in funcs /\ ~(given.op = "rejectFunc" /\ given.arg = f)
      PROVE  MatrixInv'
  <2>1. configs' = Append(configs, given)
    BY <1>2 DEF Matrix!Configure
  <2>2. T(threadsEnabled, threads)'
    BY <1>1, <1>2, <2>1, FiltersStep, "acceptThread" # "rejectThread" DEF Filters
  <2>3. F(funcsEnabled, funcs)'
    BY <1>1, <1>2, <2>1, FiltersStep, "acceptFunc" # "rejectFunc" DEF Filters
  <2>4. QED
    BY <1>2, <2>2, <2>3, ConfigureStep
<1>3. ASSUME NEW t \in Thread, Matrix!AcceptThread(t) PROVE MatrixInv'
  <2>1. [op |-> "acceptThread", arg |-> t] \in ConfigCall
    BY DEF ConfigCall
  <2>2. QED
    BY <1>2, <1>3, <2>1 DEF Matrix!AcceptThread
<1>4. ASSUME NEW t \in Thread, Matrix!RejectThread(t) PROVE MatrixInv'
  <2>1. [op |-> "rejectThread", arg |-> t] \in ConfigCall
    BY DEF ConfigCall
  <2>2. QED
    BY <1>2, <1>4, <2>1 DEF Matrix!RejectThread
<1>5. ASSUME NEW f \in Func, Matrix!AcceptFunc(f) PROVE MatrixInv'
  <2>1. [op |-> "acceptFunc", arg |-> f] \in ConfigCall
    BY DEF ConfigCall
  <2>2. QED
    BY <1>2, <1>5, <2>1 DEF Matrix!AcceptFunc
<1>6. ASSUME NEW f \in Func, Matrix!RejectFunc(f) PROVE MatrixInv'
  <2>1. [op |-> "rejectFunc", arg |-> f] \in ConfigCall
    BY DEF ConfigCall
  <2>2. QED
    BY <1>2, <1>6, <2>1 DEF Matrix!RejectFunc
<1>7. QED
  BY <1>3, <1>4, <1>5, <1>6

\* One more event is wanted or is not.
LEMMA WantedNext ==
    ASSUME MatrixInv, NEW e \in Matrix!Event, events' = Append(events, e), UNCHANGED configs
    PROVE  /\ Len(events) \in Nat
           /\ IF /\ Matrix!Accept(e) /\ e.type \in {"Read", "Write"} /\ e.varId # NoVar
              THEN Matrix!Wanted' = Matrix!Wanted \cup {Len(events) + 1}
              ELSE Matrix!Wanted' = Matrix!Wanted
           /\ events'[Len(events) + 1] = e
           /\ \A i \in Matrix!Wanted : i \in 1 .. Len(events) /\ events'[i] = events[i]
<1>1. /\ Len(events) \in Nat /\ Len(events') = Len(events) + 1
      /\ \A i \in 1 .. Len(events) : events'[i] = events[i]
      /\ events'[Len(events) + 1] = e
  BY LenProperties, AppendProperties DEF MatrixInv
<1>2. PICK n \in Nat : n = Len(events) /\ Len(events') = n + 1
  BY <1>1
<1> DEFINE Passes(x) == /\ x.type \in {"Read", "Write"} /\ x.varId # NoVar
                        /\ Matrix!LetsPass("acceptThread", "rejectThread", x.threadId)
                        /\ Matrix!LetsPass("acceptFunc", "rejectFunc", x.top)
<1>3. \A accept, reject, arg :
        Matrix!LetsPass(accept, reject, arg)' <=> Matrix!LetsPass(accept, reject, arg)
  BY DEF Matrix!LetsPass
<1>4. Matrix!Wanted = {i \in 1 .. n : Passes(events[i])}
  BY <1>2 DEF Matrix!Wanted
<1>5. Matrix!Wanted' = {i \in 1 .. n + 1 : Passes(events'[i])}
  BY <1>2, <1>3 DEF Matrix!Wanted
<1>6. Passes(e) <=> Matrix!Accept(e) /\ e.type \in {"Read", "Write"} /\ e.varId # NoVar
  BY AcceptIs
<1> HIDE DEF Passes
<1>7. \A i : i \in Matrix!Wanted' <=> i \in Matrix!Wanted \/ (i = n + 1 /\ Passes(e))
  <2>1. \A i : i \in 1 .. n + 1 <=> i \in 1 .. n \/ i = n + 1
    OBVIOUS
  <2>2. QED
    BY <2>1, <1>1, <1>2, <1>4, <1>5
<1>8. QED
  BY <1>1, <1>2, <1>4, <1>6, <1>7

\* The accesses are counted one by one.
LEMMA AccessesNext ==
    ASSUME MatrixInv, NEW e \in Matrix!Event, events' = Append(events, e), UNCHANGED configs,
           Matrix!Wanted' = Matrix!Wanted \cup {Len(events) + 1}, NEW v
    PROVE  /\ v # e.varId => AccessesTo(v)' = AccessesTo(v)
           /\ v = e.varId => /\ AccessesTo(v)' = AccessesTo(v) \cup {Len(events) + 1}
                             /\ Cardinality(AccessesTo(v)') = Cardinality(AccessesTo(v)) + 1
           /\ IsFiniteSet(AccessesTo(v))
<1>1. /\ Len(events) \in Nat /\ events'[Len(events) + 1] = e
      /\ \A i \in Matrix!Wanted : i \in 1 .. Len(events) /\ events'[i] = events[i]
  BY WantedNext
<1>2. PICK n \in Nat : n = Len(events)
  BY <1>1
<1>3. \A i : i \in AccessesTo(v)' <=> i \in AccessesTo(v) \/ (i = n + 1 /\ v = e.varId)
  BY <1>1, <1>2 DEF AccessesTo
<1>4. AccessesTo(v) \in SUBSET (1 .. n) /\ n + 1 \notin AccessesTo(v)
  <2>1. AccessesTo(v) \in SUBSET (1 .. n)
    BY <1>1, <1>2 DEF AccessesTo
  <2>2. n + 1 \notin 1 .. n
    OBVIOUS
  <2>3. QED
    BY <2>1, <2>2
<1>5. IsFiniteSet(AccessesTo(v))
  BY <1>4, FS_Interval, FS_Subset
<1>6. Cardinality(AccessesTo(v) \cup {n + 1}) = Cardinality(AccessesTo(v)) + 1
  BY <1>4, <1>5, FS_AddElement
<1>7. v = e.varId => AccessesTo(v)' = AccessesTo(v) \cup {n + 1}
  BY <1>3
<1>8. QED
  BY <1>2, <1>3, <1>5, <1>6, <1>7

LEMMA VisitStep ==
    ASSUME MatrixInv, Matrix!TypeOK', NEW e \in Matrix!Event, Matrix!Visit(e)
    PROVE  MatrixInv'
<1> DEFINE Wanted == Matrix!Wanted
           pairs(t, S) == {<<t[i].threadId, t[i].type>> : i \in S}
<1>1. /\ phase = "pass" /\ events' = Append(events, e)
      /\ UNCHANGED <<threadsEnabled, threads, funcsEnabled, funcs, phase, configs>>
  BY DEF Matrix!Visit, Matrix!ctxVars
<1>2. /\ Filters(threadsEnabled, threads, "acceptThread", "rejectThread")'
      /\ Filters(funcsEnabled, funcs, "acceptFunc", "rejectFunc")'
      /\ configs' \in Seq(ConfigCall)
  BY <1>1, SameSettings
<1>3. events' \in Seq(Matrix!Event)
  BY <1>1, AppendProperties DEF MatrixInv
<1>4. Matrix!MergedByTag'
  BY <1>1 DEF Matrix!MergedByTag
<1>5. /\ Len(events) \in Nat /\ events'[Len(events) + 1] = e
      /\ \A i \in Wanted : i \in 1 .. Len(events) /\ events'[i] = events[i]
  BY <1>1, WantedNext
<1>6. PICK n \in Nat : n = Len(events)
  BY <1>5
<1>7. CASE ~(Matrix!Accept(e) /\ e.type \in {"Read", "Write"} /\ e.varId # NoVar)
  <2>1. Wanted' = Wanted
    BY <1>7, <1>1, WantedNext
  <2>2. UNCHANGED <<entries, seen>>
    BY <1>7 DEF Matrix!Visit, Matrix!AddMemoryEvent
  <2>3. \A v : AccessesTo(v)' = AccessesTo(v)
    BY <2>1, <1>5 DEF AccessesTo
  <2>4. \A v : \A i \in AccessesTo(v) : events'[i] = events[i]
    BY <1>5 DEF AccessesTo
  <2>5. ASSUME NEW v \in DOMAIN entries'
        PROVE  /\ entries'[v].accessed = Cardinality(AccessesTo(v)')
               /\ entries'[v].types = pairs(events', AccessesTo(v)')
    <3>1. /\ entries[v].accessed = Cardinality(AccessesTo(v))
          /\ entries[v].types = pairs(events, AccessesTo(v))
      BY <2>2 DEF MatrixInv
    <3>2. pairs(events', AccessesTo(v)) = pairs(events, AccessesTo(v))
      BY <2>4
    <3>3. QED
      BY <2>2, <2>3, <3>1, <3>2
  <2>6. seen' = {events'[i].threadId : i \in Wanted'} /\ DOMAIN entries' = {events'[i].varId : i \in Wanted'}
    BY <2>1, <2>2, <1>1, <1>5 DEF MatrixInv
  <2>7. QED
    BY <1>1, <1>2, <1>3, <1>4, <2>5, <2>6 DEF MatrixInv
<1>8. CASE Matrix!Accept(e) /\ e.type \in {"Read", "Write"} /\ e.varId # NoVar
  <2>1. Wanted' = Wanted \cup {n + 1}
    BY <1>8, <1>1, <1>6, WantedNext
  <2> DEFINE old == IF e.varId \in DOMAIN entries THEN entries[e.varId] ELSE Matrix!NewEntry
  <2>2. /\ entries' = [v \in DOMAIN entries \cup {e.varId} |->
                         IF v = e.varId THEN Matrix!Entry(old, e) ELSE entries[v]]
        /\ seen' = seen \cup {e.threadId}
    BY <1>8 DEF Matrix!Visit, Matrix!AddMemoryEvent
  <2>3. /\ \A v : v # e.varId => AccessesTo(v)' = AccessesTo(v)
        /\ AccessesTo(e.varId)' = AccessesTo(e.varId) \cup {n + 1}
        /\ Cardinality(AccessesTo(e.varId)') = Cardinality(AccessesTo(e.varId)) + 1
    BY <2>1, <1>1, <1>6, AccessesNext
  <2>4. \A v : \A i \in AccessesTo(v) : events'[i] = events[i]
    BY <1>5 DEF AccessesTo
  <2>5. ASSUME e.varId \notin DOMAIN entries PROVE AccessesTo(e.varId) = {}
    <3>1. DOMAIN entries = {events[i].varId : i \in Wanted}
      BY <1>1 DEF MatrixInv
    <3>2. QED
      BY <3>1, <2>5 DEF AccessesTo
  <2>6. /\ old.accessed = Cardinality(AccessesTo(e.varId))
        /\ old.types = pairs(events, AccessesTo(e.varId))
    <3>1. CASE e.varId \in DOMAIN entries
      BY <3>1 DEF MatrixInv
    <3>2. CASE e.varId \notin DOMAIN entries
      <4>1. old.accessed = 0 /\ old.types = {}
        BY <3>2 DEF Matrix!NewEntry
      <4>2. QED
        BY <4>1, <3>2, <2>5, FS_EmptySet
    <3>3. QED
      BY <3>1, <3>2
  <2>7. pairs(events', AccessesTo(e.varId)') = pairs(events, AccessesTo(e.varId)) \cup {<<e.threadId, e.type>>}
    <3>1. \A i : i \in AccessesTo(e.varId)' <=> i \in AccessesTo(e.varId) \/ i = n + 1
      BY <2>3
    <3>2. \A i \in AccessesTo(e.varId) : events'[i] = events[i]
      BY <2>4
    <3>3. QED
      BY <3>1, <3>2, <1>5, <1>6
  <2>8. ASSUME NEW v \in DOMAIN entries'
        PROVE  /\ entries'[v].accessed = Cardinality(AccessesTo(v)')
               /\ entries'[v].types = pairs(events', AccessesTo(v)')
    <3>1. CASE v = e.varId
      <4>1. entries'[v] = Matrix!Entry(old, e)
        BY <3>1, <2>2
      <4> HIDE DEF old, pairs
      <4>2. /\ entries'[v].accessed = old.accessed + 1
            /\ entries'[v].types = old.types \cup {<<e.threadId, e.type>>}
        BY <4>1 DEF Matrix!Entry
      <4>3. QED
        BY <4>2, <3>1, <2>3, <2>6, <2>7
    <3>2. CASE v # e.varId
      <4>1. v \in DOMAIN entries /\ entries'[v] = entries[v] /\ AccessesTo(v)' = AccessesTo(v)
        BY <3>2, <2>2, <2>3
      <4>2. /\ entries[v].accessed = Cardinality(AccessesTo(v))
            /\ entries[v].types = pairs(events, AccessesTo(v))
        BY <4>1 DEF MatrixInv
      <4>3. pairs(events', AccessesTo(v)) = pairs(events, AccessesTo(v))
        BY <2>4
      <4>4. QED
        BY <4>1, <4>2, <4>3
    <3>3. QED
      BY <3>1, <3>2
  <2>9. seen' = {events'[i].threadId : i \in Wanted'} /\ DOMAIN entries' = {events'[i].varId : i \in Wanted'}
    <3>1. seen = {events[i].threadId : i \in Wanted} /\ DOMAIN entries = {events[i].varId : i \in Wanted}
      BY <1>1 DEF MatrixInv
    <3>2. DOMAIN entries' = DOMAIN entries \cup {e.varId}
      BY <2>2
    <3>3. \A i : i \in Wanted' <=> i \in Wanted \/ i = n + 1
      BY <2>1
    <3> HIDE DEF Wanted
    <3>4. QED
      BY <3>1, <3>2, <3>3, <2>2, <1>5, <1>6
  <2>10. QED
    BY <1>1, <1>2, <1>3, <1>4, <2>8, <2>9 DEF MatrixInv
<1>9. QED
  BY <1>7, <1>8

LEMMA MergeStep ==
    ASSUME MatrixInv, Matrix!TypeOK', Matrix!Merge
    PROVE  MatrixInv'
<1> DEFINE D == DOMAIN entries
           first(v) == Matrix!Min(Matrix!Repeating(v))
           accessed == {events[i].varId : i \in Matrix!Wanted}
<1>1. /\ phase = "pass" /\ phase' = "merged"
      /\ entries' = [v \in {u \in D : Matrix!Survives(u)} |-> entries[v]]
      /\ UNCHANGED <<threadsEnabled, threads, funcsEnabled, funcs, seen, configs, events>>
  BY DEF Matrix!Merge, Matrix!ctxVars
<1>2. D \in SUBSET Nat /\ D = accessed
  BY <1>1, ComponentAssumptions DEF MatrixInv, Matrix!TypeOK, Matrix!IdAssumption
<1>3. Matrix!Wanted' = Matrix!Wanted /\ \A v : AccessesTo(v)' = AccessesTo(v)
  BY <1>1, WantedUnchanged
<1>4. ASSUME NEW v \in D
      PROVE  /\ first(v) \in D /\ Tag[first(v)] = Tag[v]
             /\ \A u \in D : Tag[u] = Tag[v] => first(u) = first(v)
  <2> DEFINE S == Matrix!Repeating(v)
  <2>1. S \in SUBSET Nat /\ S # {} /\ \A x, y \in S : (x =< y) <=> (x <= y)
    BY <1>2 DEF Matrix!Repeating
  <2>2. \E m \in S : \A k \in S : m <= k
    <3> HIDE DEF S
    <3> QED BY <2>1, LeastExists
  <2>3. Matrix!Min(S) \in S
    <3> HIDE DEF S
    <3> QED BY <2>2 DEF Matrix!Min
  <2>4. \A u \in D : Tag[u] = Tag[v] => Matrix!Repeating(u) = S
    BY DEF Matrix!Repeating
  <2>5. QED
    BY <2>3, <2>4 DEF Matrix!Repeating
<1>5. \A v \in D : v \in DOMAIN entries' <=> Tag[v] = NoTag \/ v = first(v)
  BY <1>1 DEF Matrix!Survives
<1>6. DOMAIN entries' \subseteq D /\ \A v \in DOMAIN entries' : entries'[v] = entries[v]
  BY <1>1
<1>7. Matrix!MergedByTag'
  <2>1. {events[i].varId : i \in Matrix!Wanted}' = D
    BY <1>1, <1>2, <1>3
  <2> HIDE DEF D, first
  <2>2. \A v \in D : IF Tag[v] = NoTag THEN v \in DOMAIN entries'
                     ELSE \E u \in DOMAIN entries' : Tag[u] = Tag[v]
    BY <1>4, <1>5
  <2>3. \A u, v \in DOMAIN entries' : u # v /\ Tag[u] = Tag[v] => Tag[u] = NoTag
    BY <1>4, <1>5, <1>6
  <2>4. QED
    BY <2>1, <2>2, <2>3 DEF Matrix!MergedByTag
<1>8. /\ Filters(threadsEnabled, threads, "acceptThread", "rejectThread")'
      /\ Filters(funcsEnabled, funcs, "acceptFunc", "rejectFunc")'
      /\ configs' \in Seq(ConfigCall)
  BY <1>1, SameSettings
<1>9. QED
  BY <1>1, <1>3, <1>6, <1>7, <1>8 DEF MatrixInv

\* A line of the table: four cells and one for each thread.
LEMMA LineIs ==
    ASSUME NEW a, NEW b, NEW c, NEW d, NEW n \in Nat, NEW f, f = [i \in 1 .. n |-> f[i]]
    PROVE  /\ Len(<<a, b, c, d>> \o f) = n + 4
           /\ \A i \in 5 .. n + 4 : (<<a, b, c, d>> \o f)[i] = f[i - 4]
<1> DEFINE S == {a, b, c, d} \cup {f[i] : i \in 1 .. n}
<1>1. PICK s \in Seq(S) : s = <<a, b, c, d>> /\ Len(s) = 4
  <2>1. a \in S /\ b \in S /\ c \in S /\ d \in S
    OBVIOUS
  <2> HIDE DEF S
  <2>2. <<a, b, c, d>> \in Seq(S) /\ Len(<<a, b, c, d>>) = 4
    BY <2>1
  <2>3. QED
    BY <2>2
<1>2. f \in Seq(S) /\ Len(f) = n
  <2>1. f \in [1 .. n -> S]
    OBVIOUS
  <2> HIDE DEF S
  <2>2. QED
    BY <2>1
<1> HIDE DEF S
<1>3. Len(s \o f) = n + 4 /\ \A i \in 5 .. n + 4 : (s \o f)[i] = f[i - 4]
  BY <1>1, <1>2, ConcatProperties
<1>4. QED
  BY <1>1, <1>3

\* What the table shows.
LEMMA MatrixShows ==
    ASSUME MatrixInv
    PROVE  MatrixIsExact
<1> DEFINE n == Cardinality(seen)
           order == Matrix!SeenInOrder
<1>1. Len(events) \in Nat /\ seen \subseteq Thread
  BY LenProperties DEF MatrixInv, Matrix!TypeOK
<1>2. Matrix!Wanted \in SUBSET (1 .. Len(events)) /\ IsFiniteSet(Matrix!Wanted)
  <2>1. Matrix!Wanted \in SUBSET (1 .. Len(events))
    BY DEF Matrix!Wanted
  <2>2. IsFiniteSet(1 .. Len(events))
    BY <1>1, FS_Interval
  <2>3. QED
    BY <2>1, <2>2, FS_Subset
<1>3. IsFiniteSet(seen)
  <2> DEFINE f == [i \in Matrix!Wanted |-> events[i].threadId]
  <2>1. seen = {events[i].threadId : i \in Matrix!Wanted}
    BY DEF MatrixInv
  <2>2. f \in Surjection(Matrix!Wanted, seen)
    BY <2>1 DEF Surjection
  <2> HIDE DEF f
  <2>3. QED
    BY <1>2, <2>2, FS_Surjection
<1>4. n \in Nat /\ DOMAIN order = 1 .. n /\ {order[i] : i \in 1 .. n} = seen
  BY <1>1, <1>3, SeenInOrderIs, FS_CardinalityType
<1> HIDE DEF n, order
<1>5. /\ Len(Matrix!Columns) = n + 4
      /\ \A i \in 5 .. n + 4 : Matrix!Columns[i][2] = order[i - 4]
  <2> DEFINE titles == [i \in 1 .. n |-> <<"thread #", order[i]>>]
  <2>1. Matrix!Columns = <<"File", "Variable name", "Size", "Accessed">> \o titles
    BY <1>4 DEF Matrix!Columns, order
  <2>2. titles = [i \in 1 .. n |-> titles[i]] /\ \A i \in 1 .. n : titles[i][2] = order[i]
    OBVIOUS
  <2> HIDE DEF titles
  <2>3. Len(Matrix!Columns) = n + 4 /\ \A i \in 5 .. n + 4 : Matrix!Columns[i] = titles[i - 4]
    <3>1. PICK a, b, c, d : <<a, b, c, d>> = <<"File", "Variable name", "Size", "Accessed">>
      OBVIOUS
    <3>2. Matrix!Columns = <<a, b, c, d>> \o titles
      BY <2>1, <3>1
    <3>3. QED
      BY <2>2, <3>2, <1>4, LineIs
  <2>4. \A i \in 5 .. n + 4 : i - 4 \in 1 .. n
    BY <1>4
  <2>5. QED
    BY <2>2, <2>3, <2>4
<1>6. ASSUME NEW v \in DOMAIN entries
      PROVE  /\ Len(Matrix!Row(v)) = n + 4
             /\ \A i \in 5 .. n + 4 : Matrix!Row(v)[i] = Matrix!AccessTypeStr(entries[v], order[i - 4])
  <2> DEFINE cells == [i \in 1 .. n |-> Matrix!AccessTypeStr(entries[v], order[i])]
  <2>1. Matrix!Row(v) = <<Tag[v], Tag[v], "size", entries[v].accessed>> \o cells
    BY <1>4 DEF Matrix!Row, order
  <2>2. /\ cells = [i \in 1 .. n |-> cells[i]]
        /\ \A i \in 1 .. n : cells[i] = Matrix!AccessTypeStr(entries[v], order[i])
    OBVIOUS
  <2> HIDE DEF cells
  <2>3. Len(Matrix!Row(v)) = n + 4 /\ \A i \in 5 .. n + 4 : Matrix!Row(v)[i] = cells[i - 4]
    BY <2>1, <2>2, <1>4, LineIs
  <2>4. \A i \in 5 .. n + 4 : i - 4 \in 1 .. n
    BY <1>4
  <2>5. QED
    BY <2>2, <2>3, <2>4
<1>7. ASSUME NEW v \in DOMAIN entries, NEW i \in 5 .. n + 4 PROVE Matrix!ShownOf(v, i)
  <2> DEFINE isType(type) == \E j \in Matrix!Wanted : /\ events[j].varId = v /\ events[j].type = type
                                                      /\ events[j].threadId = order[i - 4]
  <2>1. \A type : <<order[i - 4], type>> \in entries[v].types <=> isType(type)
    <3>1. entries[v].types = {<<events[j].threadId, events[j].type>> : j \in AccessesTo(v)}
      BY DEF MatrixInv
    <3>2. QED
      BY <3>1 DEF AccessesTo
  <2> HIDE DEF isType
  <2>2. Matrix!Row(v)[i] = IF isType("Read") THEN IF isType("Write") THEN "R/W" ELSE "R"
                           ELSE IF isType("Write") THEN "W" ELSE "-"
    BY <1>6, <2>1 DEF Matrix!AccessTypeStr
  <2>3. QED
    BY <2>2, <1>5 DEF Matrix!ShownOf, isType
<1>8. {Matrix!Columns[i][2] : i \in 5 .. n + 4} = {events[i].threadId : i \in Matrix!Wanted}
  <2>1. seen = {events[i].threadId : i \in Matrix!Wanted}
    BY DEF MatrixInv
  <2>2. \A i \in 5 .. n + 4 : i - 4 \in 1 .. n
    BY <1>4
  <2>3. \A j \in 1 .. n : j + 4 \in 5 .. n + 4 /\ (j + 4) - 4 = j
    BY <1>4
  <2>4. {Matrix!Columns[i][2] : i \in 5 .. n + 4} = {order[j] : j \in 1 .. n}
    <3>1. \A j \in 1 .. n : Matrix!Columns[j + 4][2] = order[j]
      BY <1>5, <2>3
    <3>2. QED
      BY <1>5, <2>2, <2>3, <3>1
  <2>5. QED
    BY <2>1, <2>4, <1>4
<1>9. \A v \in DOMAIN entries : entries[v].accessed = Matrix!Cardinality(AccessesTo(v))
  BY SameCardinalityOfMatrix DEF MatrixInv
<1>10. /\ phase = "pass" => DOMAIN entries = {events[i].varId : i \in Matrix!Wanted}
       /\ Matrix!MergedByTag
  BY DEF MatrixInv
<1>11. QED
  BY <1>5, <1>6, <1>7, <1>8, <1>9, <1>10 DEF MatrixIsExact, Matrix!MatrixIsExact, AccessesTo

LEMMA MatrixTyped == Matrix!TypeOK /\ (Matrix!Next \/ UNCHANGED matrixVars) => Matrix!TypeOK'
<1> SUFFICES ASSUME Matrix!TypeOK, Matrix!Next \/ UNCHANGED matrixVars PROVE Matrix!TypeOK'
  OBVIOUS
<1> DEFINE EntryType == [accessed : Nat \ {0}, types : SUBSET (Thread \X {"Read", "Write"})]
<1> USE DEF Matrix!TypeOK
<1>1. ASSUME NEW t \in Thread, Matrix!AcceptThread(t) \/ Matrix!RejectThread(t)
      PROVE  Matrix!TypeOK'
  BY <1>1 DEF Matrix!AcceptThread, Matrix!RejectThread, Matrix!Configure
<1>2. ASSUME NEW f \in Func, Matrix!AcceptFunc(f) \/ Matrix!RejectFunc(f)
      PROVE  Matrix!TypeOK'
  BY <1>2 DEF Matrix!AcceptFunc, Matrix!RejectFunc, Matrix!Configure
<1>3. CASE Matrix!BeginPass
  BY <1>3 DEF Matrix!BeginPass, Matrix!ctxVars
<1>4. ASSUME NEW e \in Matrix!Event, Matrix!Visit(e) PROVE Matrix!TypeOK'
  <2>1. UNCHANGED <<threadsEnabled, threads, funcsEnabled, funcs, phase>>
    BY <1>4 DEF Matrix!Visit, Matrix!ctxVars
  <2>2. CASE UNCHANGED <<entries, seen>>
    BY <2>1, <2>2
  <2>3. CASE Matrix!AddMemoryEvent(e) /\ e.type \in {"Read", "Write"} /\ e.varId # NoVar
    <3> DEFINE old == IF e.varId \in DOMAIN entries THEN entries[e.varId] ELSE Matrix!NewEntry
    <3>1. e.threadId \in Thread /\ e.varId \in Var
      BY <2>3 DEF Matrix!Event
    <3>2. /\ entries' = [v \in DOMAIN entries \cup {e.varId} |->
                           IF v = e.varId THEN Matrix!Entry(old, e) ELSE entries[v]]
          /\ seen' = seen \cup {e.threadId}
      BY <2>3 DEF Matrix!AddMemoryEvent
    <3>3. old.accessed \in Nat /\ old.types \in SUBSET (Thread \X {"Read", "Write"})
      <4>1. CASE e.varId \in DOMAIN entries
        <5>1. old \in EntryType
          BY <4>1
        <5> HIDE DEF old
        <5>2. QED
          BY <5>1
      <4>2. CASE e.varId \notin DOMAIN entries
        BY <4>2 DEF Matrix!NewEntry
      <4>3. QED
        BY <4>1, <4>2
    <3> HIDE DEF old
    <3>4. Matrix!Entry(old, e) \in EntryType
      <4>1. old.types \cup {<<e.threadId, e.type>>} \in SUBSET (Thread \X {"Read", "Write"})
        BY <3>1, <3>3, <2>3
      <4>2. old.accessed + 1 \in Nat \ {0}
        BY <3>3
      <4>3. QED
        BY <4>1, <4>2 DEF Matrix!Entry
    <3>5. DOMAIN entries' \subseteq Var /\ \A v \in DOMAIN entries' : entries'[v] \in EntryType
      <4> HIDE DEF EntryType
      <4>1. \A v \in DOMAIN entries : entries[v] \in EntryType
        BY DEF EntryType
      <4>2. QED
        BY <4>1, <3>1, <3>2, <3>4
    <3>6. QED
      BY <3>1, <3>2, <3>5, <2>1
  <2>4. QED
    BY <2>2, <2>3, <1>4 DEF Matrix!Visit, Matrix!AddMemoryEvent
<1>5. CASE Matrix!Merge
  <2>1. /\ DOMAIN entries' \subseteq DOMAIN entries
        /\ \A v \in DOMAIN entries' : entries'[v] = entries[v]
        /\ phase' = "merged" /\ UNCHANGED <<threadsEnabled, threads, funcsEnabled, funcs, seen>>
    BY <1>5 DEF Matrix!Merge, Matrix!ctxVars
  <2>2. QED
    BY <2>1
<1>6. CASE UNCHANGED matrixVars
  BY <1>6 DEF matrixVars
<1>7. QED
  BY <1>1, <1>2, <1>3, <1>4, <1>5, <1>6 DEF Matrix!Next

LEMMA MatrixInit == Matrix!Init => MatrixInv
<1> SUFFICES ASSUME Matrix!Init PROVE MatrixInv
  OBVIOUS
<1>1. /\ configs = <<>> /\ events = <<>> /\ threadsEnabled = FALSE /\ funcsEnabled = FALSE
      /\ threads = {} /\ funcs = {} /\ DOMAIN entries = {} /\ seen = {} /\ phase = "config"
  BY DEF Matrix!Init
<1>2. Matrix!TypeOK
  BY <1>1 DEF Matrix!TypeOK
<1>3. <<>> \in Seq(ConfigCall) /\ <<>> \in Seq(Matrix!Event) /\ Len(<<>>) = 0
  OBVIOUS
<1>4. Matrix!Wanted = {}
  BY <1>1, <1>3 DEF Matrix!Wanted
<1>5. \A accept, reject : Filters(FALSE, {}, accept, reject)
  BY <1>1, <1>3 DEF Filters, Accepted
<1>6. Matrix!MergedByTag
  BY <1>1 DEF Matrix!MergedByTag
<1>7. QED
  BY <1>1, <1>2, <1>3, <1>4, <1>5, <1>6 DEF MatrixInv

LEMMA MatrixStep == MatrixInv /\ (Matrix!Next \/ UNCHANGED matrixVars) => MatrixInv'
<1> SUFFICES ASSUME MatrixInv, Matrix!Next \/ UNCHANGED matrixVars PROVE MatrixInv'
  OBVIOUS
<1>1. Matrix!TypeOK'
  BY MatrixTyped DEF MatrixInv
<1>2. CASE \/ \E t \in Thread : Matrix!AcceptThread(t) \/ Matrix!RejectThread(t)
           \/ \E f \in Func : Matrix!AcceptFunc(f) \/ Matrix!RejectFunc(f)
  BY <1>1, <1>2, ConfigSteps
<1>3. CASE Matrix!BeginPass \/ UNCHANGED matrixVars
  <2>1. /\ UNCHANGED <<threadsEnabled, threads, funcsEnabled, funcs, entries, seen, configs, events>>
        /\ phase' = phase \/ (phase = "config" /\ phase' = "pass")
    BY <1>3 DEF Matrix!BeginPass, Matrix!ctxVars, matrixVars
  <2>2. /\ Filters(threadsEnabled, threads, "acceptThread", "rejectThread")'
        /\ Filters(funcsEnabled, funcs, "acceptFunc", "rejectFunc")'
        /\ configs' \in Seq(ConfigCall)
    BY <1>1, <2>1, SameSettings
  <2>3. Matrix!Wanted' = Matrix!Wanted /\ \A v : AccessesTo(v)' = AccessesTo(v)
    BY <2>1, WantedUnchanged
  <2>4. Matrix!MergedByTag'
    <3>1. CASE phase' = phase
      BY <3>1, <2>1, <2>3 DEF MatrixInv, Matrix!MergedByTag
    <3>2. CASE phase' = "pass"
      BY <3>2 DEF Matrix!MergedByTag
    <3>3. QED
      BY <2>1, <3>1, <3>2
  <2>5. QED
    BY <1>1, <2>1, <2>2, <2>3, <2>4 DEF MatrixInv
<1>4. CASE \E e \in Matrix!Event : Matrix!Visit(e)
  BY <1>1, <1>4, VisitStep
<1>5. CASE Matrix!Merge
  BY <1>1, <1>5, MergeStep
<1>6. QED
  BY <1>2, <1>3, <1>4, <1>5 DEF Matrix!Next

-----------------------------------------------------------------------------
(* The program: one of the three takes the steps *)

LEMMA LocalityUnchanged == LocalityInv /\ UNCHANGED localityVars => LocalityInv'
<1> SUFFICES ASSUME LocalityInv, UNCHANGED localityVars PROVE LocalityInv'
  OBVIOUS
<1>1. UNCHANGED <<stride, window, windowIndex, accessCount, caches, reuseDiff, totalAccesses, words>>
  BY DEF localityVars
<1>2. LocalityTyped'
  BY <1>1 DEF LocalityInv, LocalityTyped, Localities!TypeOK
<1>3. Ring'
  BY <1>1 DEF LocalityInv, Ring, PlaceOf
<1>4. \A k, d : Localities!TakenFor(k, d)' <=> Localities!TakenFor(k, d)
  BY <1>1 DEF Localities!TakenFor, Localities!Apart, Localities!Oldest
<1>5. Strides'
  BY <1>1, <1>4 DEF LocalityInv, Strides
<1>6. InOrders'
  BY <1>1 DEF LocalityInv, InOrders
<1>7. Histogram'
  <2>1. \A k \in Nat : Localities!StackDistance(k)' = Localities!StackDistance(k)
    <3>1. (\A k \in Nat : Localities!StackDistance(k) = DistanceIn(words, k))'
      BY StackDistanceIs, PTL
    <3>2. QED
      BY <3>1, <1>1, StackDistanceIs
  <2>2. Localities!Reused' = Localities!Reused
    BY <2>1, <1>1 DEF Localities!Reused
  <2>3. \A k \in Localities!Reused : Localities!StackDistance(k)' = Localities!StackDistance(k)
    BY <2>1 DEF Localities!Reused
  <2>4. QED
    BY <2>2, <2>3, <1>1 DEF LocalityInv, Histogram
<1>8. QED
  BY <1>2, <1>3, <1>5, <1>6, <1>7, SharesUnchanged DEF LocalityInv

IInv == MatrixInv /\ LocalityInv /\ PatternInv

LEMMA InitIInv == Init => IInv
  BY MatrixInit, LocalityInit, PatternInit DEF Init, IInv

LEMMA NextIInv == IInv /\ [Next]_vars => IInv'
<1> SUFFICES ASSUME IInv, [Next]_vars PROVE IInv'
  OBVIOUS
<1>1. MatrixInv /\ LocalityInv /\ PatternInv
  BY DEF IInv
<1>2. CASE GetAccessMatrix
  <2>1. Matrix!Next /\ UNCHANGED localityVars /\ UNCHANGED patternVars
    BY <1>2 DEF GetAccessMatrix
  <2>2. QED
    BY <1>1, <2>1, MatrixStep, LocalityUnchanged, PatternUnchanged DEF IInv
<1>3. CASE GetLocalities
  <2>1. Localities!Next /\ UNCHANGED matrixVars /\ UNCHANGED patternVars
    BY <1>3 DEF GetLocalities
  <2>2. QED
    BY <1>1, <2>1, MatrixStep, LocalityStep, PatternUnchanged DEF IInv
<1>4. CASE GetAccessPatterns
  <2>1. Patterns!Next /\ UNCHANGED matrixVars /\ UNCHANGED localityVars
    BY <1>4 DEF GetAccessPatterns
  <2>2. QED
    BY <1>1, <2>1, MatrixStep, LocalityUnchanged, PatternStep DEF IInv
<1>5. CASE UNCHANGED vars
  <2>1. UNCHANGED matrixVars /\ UNCHANGED localityVars /\ UNCHANGED patternVars
    BY <1>5 DEF vars
  <2>2. QED
    BY <1>1, <2>1, MatrixStep, LocalityUnchanged, PatternUnchanged DEF IInv
<1>6. QED
  BY <1>2, <1>3, <1>4, <1>5 DEF Next

LEMMA Invariant == Spec => []IInv
  BY InitIInv, NextIInv, PTL DEF Spec
-----------------------------------------------------------------------------
\* The types of all three components; a window of access patterns is never longer
\* than its size, the assertion of AccessPattern::push_back.
THEOREM TypeCorrect == Spec => []TypeOK
<1>1. IInv => TypeOK
  BY LocalityShows, PatternShows DEF IInv, TypeOK, MatrixInv
<1>2. QED
  BY <1>1, Invariant, PTL

\* After any calls on the QueryContext and any events the matrix counts just the
\* accesses they let pass, its table has one column for each thread seen and shows
\* under it what the thread did, and the merge leaves one entry for each name and
\* line (QueryContext, AccessMatrix).
THEOREM MatrixCorrect == Spec => []MatrixIsExact
<1>1. IInv => MatrixIsExact
  BY MatrixShows DEF IInv
<1>2. QED
  BY <1>1, Invariant, PTL

\* Entry d of SpatialLocality's histogram is the number of accesses that are d
\* words from the one a window before, in a log of any length (SpatialLocality).
THEOREM StridesExact == Spec => []StridesAreExact
<1>1. IInv => StridesAreExact
  BY LocalityShows DEF IInv
<1>2. QED
  BY <1>1, Invariant, PTL

\* The list and the map of an LRUCache agree after any number of puts and
\* evictions, and the levels of the caches that are hit are the histogram of the
\* trace's stack distances (LRUCache::put, TemporalLocality::addAddress).
THEOREM ReuseCorrect == Spec => []ReuseIsStackDistance
<1>1. IInv => ReuseIsStackDistance
  BY LocalityShows DEF IInv
<1>2. QED
  BY <1>1, Invariant, PTL

\* The two figures of getValue are shares of the accesses, never above 1, and are no
\* numbers just when there was no access; the temporal one is the mean weight of
\* the stack distances (SpatialLocality, TemporalLocality).
THEOREM FiguresCorrect == Spec => []FiguresAreShares
<1>1. IInv => FiguresAreShares
  BY LocalityShows DEF IInv
<1>2. QED
  BY <1>1, Invariant, PTL

\* Each group is a chain of matches of the trace that begins at the access its
\* index names, and none that is reported is too small (AccessPattern::process,
\* mergeMatches, getMatches).
THEOREM GroupsCorrect == Spec => []GroupsAreChains
<1>1. IInv => GroupsAreChains
  BY PatternShows DEF IInv
<1>2. QED
  BY <1>1, Invariant, PTL

\* When no run of matches is too short, the groups that are reported count every
\* match of the trace once: neither the merge with the newest group nor the one
\* that makes room for the next drops or doubles one (mergeMatches, getMatches).
THEOREM LongRunsCorrect == Spec => []LongRunsAreReported
<1>1. IInv => LongRunsAreReported
  BY PatternShows DEF IInv
<1>2. QED
  BY <1>1, Invariant, PTL

\* No two shapes of three accesses share a hash code, and each code counts the
\* windows of the shape it decodes to (StatPattern::match, StatMatchImpl::str).
THEOREM StatCorrect == Spec => []StatCountsShapes
<1>1. IInv => StatCountsShapes
  BY PatternShows DEF IInv
<1>2. QED
  BY <1>1, Invariant, PTL
=============================================================================
