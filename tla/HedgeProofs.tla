---------------------------- MODULE HedgeProofs ----------------------------
(***************************************************************************)
(* Proofs about Hedge, for every set of options, every delta, tolerance    *)
(* and channel size, and every bound.                                      *)
(***************************************************************************)
EXTENDS Hedge, TLAPS, FiniteSetTheorems, SequenceTheorems, WellFoundedInduction

-----------------------------------------------------------------------------
(* Sums.  SumFunction takes the elements of a finite set one by one; which *)
(* one it takes first makes no difference.                                 *)

Some(s) == CHOOSE x \in s : TRUE

\* g gives the sum of f over each subset of S.
Sums(f, S, g) ==
    g = [s \in SUBSET S |-> IF s = {} THEN 0 ELSE f[Some(s)] + g[s \ {Some(s)}]]

LEMMA SumIs ==
    ASSUME NEW f, NEW S
    PROVE  SumFunctionOnSet(f, S) = (CHOOSE g : Sums(f, S, g))[S]
BY DEF SumFunctionOnSet, FoldFunctionOnSet, MapThenFoldSet, Sums, Some

LEMMA LeastNatural ==
    ASSUME NEW T, T \subseteq Nat, T # {}
    PROVE  \E x \in T : \A y \in T : x <= y
<1> DEFINE R == {p \in Nat \X Nat : p[1] < p[2]}
<1>1. IsWellFoundedOn(R, Nat)
  BY NatLessThanWellFounded DEF OpToRel
<1> HIDE DEF R
<1>2. PICK x \in T : \A y \in T : ~(<<y, x>> \in R)
  BY <1>1, WFMin
<1>3. ASSUME NEW y \in T PROVE x <= y
  <2>1. x \in Nat /\ y \in Nat /\ ~(<<y, x>> \in R)
    BY <1>2
  <2>2. y < x => <<y, x>> \in R
    BY <2>1 DEF R
  <2> QED
    BY <2>1, <2>2
<1> QED
  BY <1>2, <1>3

\* Up to n elements.
SumsUpTo(f, S, n, g) ==
    \A s \in SUBSET S : Cardinality(s) <= n =>
        g[s] = IF s = {} THEN 0 ELSE f[Some(s)] + g[s \ {Some(s)}]

LEMMA Smaller ==
    ASSUME NEW s, IsFiniteSet(s), s # {}, NEW x \in s
    PROVE  /\ IsFiniteSet(s \ {x}) /\ Cardinality(s \ {x}) = Cardinality(s) - 1
           /\ Cardinality(s) \in Nat
BY FS_RemoveElement, FS_CardinalityType

LEMMA SumsUpToExist ==
    ASSUME NEW f, NEW S, IsFiniteSet(S)
    PROVE  \A n \in Nat : \E g : SumsUpTo(f, S, n, g)
<1> DEFINE Bad == {n \in Nat : \A g : ~SumsUpTo(f, S, n, g)}
<1> SUFFICES ASSUME Bad # {} PROVE FALSE
  OBVIOUS
<1>1. PICK n \in Bad : \A y \in Bad : n <= y
  <2>1. Bad \subseteq Nat
    OBVIOUS
  <2> HIDE DEF Bad
  <2> QED
    BY <2>1, LeastNatural
<1>2. ASSUME NEW s \in SUBSET S PROVE IsFiniteSet(s) /\ Cardinality(s) \in Nat
                                      /\ (Cardinality(s) = 0 <=> s = {})
  BY FS_Subset, FS_CardinalityType, FS_EmptySet
<1>3. CASE n = 0
  <2> DEFINE g == [s \in SUBSET S |-> 0]
  <2>1. SumsUpTo(f, S, 0, g)
    BY <1>2 DEF SumsUpTo
  <2> HIDE DEF g
  <2> QED
    BY <1>1, <1>3, <2>1
<1>4. CASE n # 0
  <2>1. n - 1 \in Nat /\ n - 1 \notin Bad
    BY <1>1, <1>4
  <2>2. PICK g : SumsUpTo(f, S, n - 1, g)
    BY <2>1
  <2> DEFINE h == [s \in SUBSET S |-> IF s = {} THEN 0 ELSE f[Some(s)] + g[s \ {Some(s)}]]
  <2>3. ASSUME NEW s \in SUBSET S, Cardinality(s) <= n
        PROVE  h[s] = IF s = {} THEN 0 ELSE f[Some(s)] + h[s \ {Some(s)}]
    <3>1. CASE s = {}
      BY <3>1
    <3>2. CASE s # {}
      <4> DEFINE x == Some(s)
                 u == s \ {x}
      <4>1. x \in s
        BY <3>2 DEF Some
      <4> HIDE DEF x
      <4>2. Cardinality(u) <= n - 1 /\ u \in SUBSET S
        BY <1>1, <1>2, <2>3, <3>2, <4>1, Smaller
      <4>3. g[u] = IF u = {} THEN 0 ELSE f[Some(u)] + g[u \ {Some(u)}]
        BY <2>2, <4>2 DEF SumsUpTo
      <4> HIDE DEF u
      <4>4. h[u] = g[u]
        BY <4>2, <4>3
      <4>5. h[s] = f[x] + g[u]
        BY <3>2 DEF x, u
      <4> HIDE DEF h
      <4> QED
        BY <3>2, <4>4, <4>5 DEF x, u
    <3> QED
      BY <3>1, <3>2
  <2> HIDE DEF h
  <2>4. SumsUpTo(f, S, n, h)
    BY <2>3 DEF SumsUpTo
  <2> QED
    BY <1>1, <2>4
<1> QED
  BY <1>3, <1>4

LEMMA SumsExist ==
    ASSUME NEW f, NEW S, IsFiniteSet(S)
    PROVE  \E g : Sums(f, S, g)
<1>1. PICK g : SumsUpTo(f, S, Cardinality(S), g)
  BY SumsUpToExist, FS_CardinalityType
<1> DEFINE h == [s \in SUBSET S |-> g[s]]
<1>2. ASSUME NEW s \in SUBSET S
      PROVE  h[s] = IF s = {} THEN 0 ELSE f[Some(s)] + h[s \ {Some(s)}]
  <2>1. Cardinality(s) <= Cardinality(S)
    BY FS_Subset
  <2>2. g[s] = IF s = {} THEN 0 ELSE f[Some(s)] + g[s \ {Some(s)}]
    BY <1>1, <2>1 DEF SumsUpTo
  <2>3. s \ {Some(s)} \in SUBSET S
    OBVIOUS
  <2> QED
    BY <2>2, <2>3
<1>3. Sums(f, S, h)
  <2>1. h = [s \in SUBSET S |-> h[s]]
    OBVIOUS
  <2> HIDE DEF h
  <2> QED
    BY <1>2, <2>1 DEF Sums
<1> QED
  BY <1>3

\* A sum of integers is one, and any element may be taken out first.
TakesOut(f, g, T) == g[T] \in Int /\ \A x \in T : g[T] = f[x] + g[T \ {x}]

LEMMA SumsTakeOut ==
    ASSUME NEW f, NEW S, IsFiniteSet(S), \A x \in S : f[x] \in Int, NEW g, Sums(f, S, g)
    PROVE  \A T \in SUBSET S : TakesOut(f, g, T)
<1> DEFINE Bad == {n \in Nat : \E T \in SUBSET S : Cardinality(T) = n /\ ~TakesOut(f, g, T)}
<1>1. ASSUME NEW s \in SUBSET S
      PROVE  /\ IsFiniteSet(s) /\ Cardinality(s) \in Nat
             /\ g[s] = IF s = {} THEN 0 ELSE f[Some(s)] + g[s \ {Some(s)}]
  <2>1. IsFiniteSet(s) /\ Cardinality(s) \in Nat
    BY FS_Subset, FS_CardinalityType
  <2> DEFINE G(t) == IF t = {} THEN 0 ELSE f[Some(t)] + g[t \ {Some(t)}]
  <2>2. g = [t \in SUBSET S |-> G(t)]
    BY DEF Sums
  <2> HIDE DEF G
  <2>3. g[s] = G(s)
    BY <2>2
  <2> QED
    BY <2>1, <2>3 DEF G
<1> SUFFICES ASSUME Bad # {} PROVE FALSE
  BY <1>1
<1>2. PICK n \in Bad : \A y \in Bad : n <= y
  <2>1. Bad \subseteq Nat
    OBVIOUS
  <2> HIDE DEF Bad
  <2> QED
    BY <2>1, LeastNatural
<1>3. PICK T \in SUBSET S : Cardinality(T) = n /\ ~TakesOut(f, g, T)
  BY <1>2
<1>4. ASSUME NEW x \in T PROVE TakesOut(f, g, T \ {x})
  <2>1. Cardinality(T \ {x}) = n - 1 /\ n - 1 \in Nat /\ T \ {x} \in SUBSET S
    <3>1. IsFiniteSet(T) /\ T # {} /\ n \in Nat
      BY <1>1, <1>3
    <3>2. Cardinality(T \ {x}) = n - 1
      BY <1>3, <3>1, Smaller
    <3>3. Cardinality(T \ {x}) \in Nat
      BY <1>1
    <3> QED
      BY <3>2, <3>3
  <2>2. n - 1 \notin Bad
    BY <1>2, <2>1
  <2> QED
    BY <2>1, <2>2
<1>5. T # {}
  <2> SUFFICES ASSUME T = {} PROVE FALSE
    OBVIOUS
  <2>1. g[T] = 0
    BY <1>1
  <2>2. TakesOut(f, g, T)
    BY <2>1 DEF TakesOut
  <2> QED
    BY <1>3, <2>2
<1> DEFINE c == Some(T)
<1>6. c \in T
  BY <1>5 DEF Some
<1>7. g[T] = f[c] + g[T \ {c}]
  BY <1>1, <1>5
<1> HIDE DEF c
<1>8. g[T \ {c}] \in Int /\ f[c] \in Int /\ g[T] \in Int
  <2>1. f[c] \in Int
    BY <1>6
  <2>2. g[T \ {c}] \in Int
    BY <1>4, <1>6 DEF TakesOut
  <2> QED
    BY <1>7, <2>1, <2>2
<1>9. ASSUME NEW x \in T PROVE g[T] = f[x] + g[T \ {x}]
  <2>1. CASE x = c
    BY <1>7, <2>1
  <2>2. CASE x # c
    <3> DEFINE u == (T \ {c}) \ {x}
    <3>1. u = (T \ {x}) \ {c}
      OBVIOUS
    <3>2. g[T \ {c}] = f[x] + g[u]
      BY <1>4, <1>6, <2>2 DEF TakesOut
    <3>3. g[T \ {x}] = f[c] + g[u]
      BY <1>4, <1>6, <2>2, <3>1 DEF TakesOut
    <3>4. u \in SUBSET S /\ f[x] \in Int
      OBVIOUS
    <3>5. g[u] \in Int
      <4>1. TakesOut(f, g, T \ {c}) /\ x \in T \ {c}
        BY <1>4, <1>6, <2>2
      <4>2. IsFiniteSet(u) /\ Cardinality(u) \in Nat
        BY <1>1, <3>4
      <4>3. Cardinality(u) = n - 2
        <5>1. Cardinality(T \ {c}) = n - 1 /\ IsFiniteSet(T \ {c}) /\ n \in Nat
          BY <1>1, <1>3, <1>5, <1>6, Smaller
        <5>2. Cardinality(u) = Cardinality(T \ {c}) - 1
          BY <4>1, <5>1, Smaller
        <5> QED
          BY <5>1, <5>2
      <4>4. Cardinality(u) \notin Bad
        BY <1>2, <4>2, <4>3
      <4> HIDE DEF u
      <4> QED
        BY <3>4, <4>2, <4>4 DEF TakesOut
    <3> HIDE DEF u
    <3> QED
      BY <1>7, <1>8, <3>2, <3>3, <3>4, <3>5
  <2> QED
    BY <2>1, <2>2
<1> QED
  BY <1>3, <1>8, <1>9 DEF TakesOut

\* Two sums over the same elements agree.
LEMMA SumsAgree ==
    ASSUME NEW f, NEW S, NEW g, Sums(f, S, g), NEW h, NEW U, NEW k, Sums(h, U, k),
           IsFiniteSet(S), \A x \in S \cap U : f[x] = h[x]
    PROVE  \A T \in SUBSET (S \cap U) : g[T] = k[T]
<1> DEFINE Bad == {n \in Nat : \E T \in SUBSET (S \cap U) : Cardinality(T) = n /\ g[T] # k[T]}
<1>1. ASSUME NEW s \in SUBSET (S \cap U)
      PROVE  /\ IsFiniteSet(s) /\ Cardinality(s) \in Nat
             /\ g[s] = IF s = {} THEN 0 ELSE f[Some(s)] + g[s \ {Some(s)}]
             /\ k[s] = IF s = {} THEN 0 ELSE h[Some(s)] + k[s \ {Some(s)}]
  <2>1. IsFiniteSet(s) /\ Cardinality(s) \in Nat
    BY FS_Subset, FS_CardinalityType
  <2> DEFINE G(t) == IF t = {} THEN 0 ELSE f[Some(t)] + g[t \ {Some(t)}]
             K(t) == IF t = {} THEN 0 ELSE h[Some(t)] + k[t \ {Some(t)}]
  <2>2. g = [t \in SUBSET S |-> G(t)] /\ k = [t \in SUBSET U |-> K(t)]
    BY DEF Sums
  <2> HIDE DEF G, K
  <2>3. s \in SUBSET S /\ s \in SUBSET U
    OBVIOUS
  <2>4. g[s] = G(s) /\ k[s] = K(s)
    BY <2>2, <2>3
  <2> QED
    BY <2>1, <2>4 DEF G, K
<1> SUFFICES ASSUME Bad # {} PROVE FALSE
  BY <1>1
<1>2. PICK n \in Bad : \A y \in Bad : n <= y
  <2>1. Bad \subseteq Nat
    OBVIOUS
  <2> HIDE DEF Bad
  <2> QED
    BY <2>1, LeastNatural
<1>3. PICK T \in SUBSET (S \cap U) : Cardinality(T) = n /\ g[T] # k[T]
  BY <1>2
<1>4. T # {}
  BY <1>1, <1>3
<1> DEFINE c == Some(T)
<1>5. c \in T
  BY <1>4 DEF Some
<1>6. g[T] = f[c] + g[T \ {c}] /\ k[T] = h[c] + k[T \ {c}]
  BY <1>1, <1>4
<1> HIDE DEF c
<1>7. g[T \ {c}] = k[T \ {c}]
  <2>1. T \ {c} \in SUBSET (S \cap U) /\ IsFiniteSet(T) /\ n \in Nat
    BY <1>1, <1>3
  <2>2. Cardinality(T \ {c}) = n - 1 /\ Cardinality(T \ {c}) \in Nat
    BY <1>1, <1>3, <1>4, <1>5, <2>1, Smaller
  <2>3. n - 1 \notin Bad
    BY <1>2, <2>1, <2>2
  <2> QED
    BY <2>1, <2>2, <2>3
<1>8. f[c] = h[c]
  BY <1>5
<1> QED
  BY <1>3, <1>6, <1>7, <1>8

LEMMA SumChosen ==
    ASSUME NEW S, IsFiniteSet(S), NEW f \in [S -> Int]
    PROVE  \E g : Sums(f, S, g) /\ SumFunction(f) = g[S]
<1> DEFINE g == CHOOSE k : Sums(f, S, k)
<1>1. Sums(f, S, g)
  <2>1. \E k : Sums(f, S, k)
    BY SumsExist
  <2> QED
    BY <2>1
<1>2. SumFunction(f) = g[S]
  <2>1. DOMAIN f = S
    OBVIOUS
  <2>2. SumFunction(f) = SumFunctionOnSet(f, S)
    BY <2>1 DEF SumFunction
  <2> QED
    BY <2>2, SumIs
<1> QED
  BY <1>1, <1>2

LEMMA SumType ==
    ASSUME NEW S, IsFiniteSet(S), NEW f \in [S -> Int]
    PROVE  SumFunction(f) \in Int /\ (S = {} => SumFunction(f) = 0)
<1>1. PICK g : Sums(f, S, g) /\ SumFunction(f) = g[S]
  BY SumChosen
<1>2. \A x \in S : f[x] \in Int
  OBVIOUS
<1>3. TakesOut(f, g, S)
  BY <1>1, <1>2, SumsTakeOut
<1>4. S = {} => g[S] = 0
  BY <1>1 DEF Sums
<1> QED
  BY <1>1, <1>3, <1>4 DEF TakesOut

\* One more element.
LEMMA SumAdd ==
    ASSUME NEW S, IsFiniteSet(S), NEW x, x \notin S,
           NEW f \in [S -> Int], NEW h \in [S \cup {x} -> Int], \A y \in S : h[y] = f[y]
    PROVE  SumFunction(h) = SumFunction(f) + h[x]
<1> DEFINE U == S \cup {x}
<1>1. IsFiniteSet(U)
  BY FS_AddElement
<1>2. PICK g : Sums(f, S, g) /\ SumFunction(f) = g[S]
  BY SumChosen
<1>3. PICK k : Sums(h, U, k) /\ SumFunction(h) = k[U]
  BY <1>1, SumChosen
<1>4. TakesOut(h, k, U)
  <2>1. \A y \in U : h[y] \in Int
    OBVIOUS
  <2> HIDE DEF U
  <2> QED
    BY <1>1, <1>3, <2>1, SumsTakeOut
<1>5. k[U] = h[x] + k[S]
  <2>1. U \ {x} = S /\ x \in U
    OBVIOUS
  <2> QED
    BY <1>4, <2>1 DEF TakesOut
<1>6. g[S] = k[S]
  <2>1. S \cap U = S /\ \A y \in S \cap U : f[y] = h[y]
    OBVIOUS
  <2> HIDE DEF U
  <2> QED
    BY <1>2, <1>3, <2>1, SumsAgree
<1>7. SumFunction(f) \in Int /\ h[x] \in Int
  BY SumType
<1> QED
  BY <1>2, <1>3, <1>5, <1>6, <1>7

-----------------------------------------------------------------------------
(* Exec ids.                                                               *)

LEMMA RangeIsFinite ==
    ASSUME NEW X, NEW s \in Seq(X), NEW f, DOMAIN f = 1 .. Len(s)
    PROVE  /\ IsFiniteSet({f[i] : i \in 1 .. Len(s)})
           /\ Cardinality({f[i] : i \in 1 .. Len(s)}) <= Len(s)
           /\ Cardinality({f[i] : i \in 1 .. Len(s)}) \in Nat
<1> DEFINE D == 1 .. Len(s)
           T == {f[i] : i \in D}
           g == [i \in D |-> f[i]]
<1>1. Len(s) \in Nat
  OBVIOUS
<1>2. IsFiniteSet(D) /\ Cardinality(D) = Len(s)
  <2>1. /\ IsFiniteSet(1 .. Len(s))
        /\ Cardinality(1 .. Len(s)) = IF 1 > Len(s) THEN 0 ELSE Len(s) - 1 + 1
    BY <1>1, FS_Interval
  <2> QED
    BY <1>1, <2>1
<1>3. g \in Surjection(D, T)
  BY DEF Surjection
<1> HIDE DEF D, T, g
<1>4. IsFiniteSet(T) /\ Cardinality(T) <= Cardinality(D)
  BY <1>2, <1>3, FS_Surjection
<1>5. Cardinality(T) \in Nat
  BY <1>4, FS_CardinalityType
<1> QED
  BY <1>2, <1>4, <1>5 DEF T, D

\* There are always more exec ids than anything mentions.
LEMMA FreshIdIs ==
    ASSUME TypeOK
    PROVE  /\ FreshId \in ExecIds /\ FreshId \notin RangeOf(processed)
           /\ \A i \in 1 .. Len(fills) : fills[i].id # FreshId
<1> DEFINE f == [i \in 1 .. Len(fills) |-> fills[i].id]
           A == {f[i] : i \in 1 .. Len(fills)}
           B == RangeOf(processed)
           U == A \cup B
<1>1. /\ fills \in Seq(Execs) /\ Len(fills) <= FillCap /\ Len(fills) \in Nat
      /\ processed \in Seq(ExecIds) /\ Len(processed) <= ExecIdsMax /\ Len(processed) \in Nat
      /\ FillCap \in Nat /\ ExecIdsMax \in Nat
  BY HedgeAssumption DEF TypeOK
<1>2. IsFiniteSet(A) /\ Cardinality(A) <= FillCap /\ Cardinality(A) \in Nat
  <2>1. DOMAIN f = 1 .. Len(fills)
    OBVIOUS
  <2> HIDE DEF f
  <2>2. IsFiniteSet(A) /\ Cardinality(A) <= Len(fills) /\ Cardinality(A) \in Nat
    BY <1>1, <2>1, RangeIsFinite
  <2> HIDE DEF A
  <2> QED
    BY <1>1, <2>2
<1>3. IsFiniteSet(B) /\ Cardinality(B) <= ExecIdsMax /\ Cardinality(B) \in Nat
  <2>1. DOMAIN processed = 1 .. Len(processed)
    BY <1>1
  <2>2. IsFiniteSet(B) /\ Cardinality(B) <= Len(processed) /\ Cardinality(B) \in Nat
    BY <1>1, <2>1, RangeIsFinite DEF RangeOf
  <2> HIDE DEF B
  <2> QED
    BY <1>1, <2>2
<1> HIDE DEF A, B
<1>4. /\ IsFiniteSet(U)
      /\ Cardinality(U) = Cardinality(A) + Cardinality(B) - Cardinality(A \cap B)
  BY <1>2, <1>3, FS_Union
<1>5. Cardinality(A \cap B) \in Nat
  BY <1>2, FS_Subset, FS_CardinalityType
<1>6. Cardinality(U) \in Nat /\ Cardinality(U) <= FillCap + ExecIdsMax
  BY <1>1, <1>2, <1>3, <1>4, <1>5, FS_CardinalityType
<1>7. IsFiniteSet(ExecIds) /\ Cardinality(ExecIds) = FillCap + ExecIdsMax + 2
  BY <1>1, FS_Interval DEF ExecIds
<1>8. ~(ExecIds \subseteq U)
  <2>1. ExecIds \subseteq U => Cardinality(ExecIds) <= Cardinality(U)
    BY <1>4, FS_Subset
  <2> QED
    BY <1>1, <1>6, <1>7, <2>1
<1>9. PICK x \in ExecIds : x \notin A /\ x \notin B
  BY <1>8
<1>10. \A e \in RangeOf(fills) : e.id # x
  BY <1>9 DEF A, RangeOf
<1> DEFINE P(y) == y \notin RangeOf(processed) /\ \A e \in RangeOf(fills) : e.id # y
<1>11. P(x)
  BY <1>9, <1>10 DEF B
<1>12. FreshId = CHOOSE y \in ExecIds : P(y)
  BY DEF FreshId
<1> HIDE DEF P
<1>13. FreshId \in ExecIds /\ P(FreshId)
  BY <1>11, <1>12
<1> QED
  BY <1>13 DEF P, RangeOf

LEMMA TailIs ==
    ASSUME NEW X, NEW s \in Seq(X), s # << >>
    PROVE  /\ Tail(s) \in Seq(X) /\ Len(Tail(s)) = Len(s) - 1 /\ Head(s) \in X
           /\ Head(s) = s[1] /\ Len(s) \in Nat /\ Len(s) >= 1
           /\ \A i \in 1 .. Len(s) - 1 : Tail(s)[i] = s[i + 1]
OBVIOUS

LEMMA AppendIs ==
    ASSUME NEW X, NEW s \in Seq(X), NEW e \in X
    PROVE  /\ Append(s, e) \in Seq(X) /\ Len(Append(s, e)) = Len(s) + 1 /\ Len(s) \in Nat
           /\ \A i \in 1 .. Len(s) : Append(s, e)[i] = s[i]
           /\ Append(s, e)[Len(s) + 1] = e
OBVIOUS

\* The channel after a send: what it held, but for the oldest if it was full,
\* then e.
LEMMA SendFillIs ==
    ASSUME TypeOK, NEW e \in Execs, SendFill(e)
    PROVE  \E s \in Seq(Execs) :
               /\ fills' = Append(s, e) /\ Len(s) < FillCap
               /\ IF Len(fills) = FillCap THEN fills # << >> /\ s = Tail(fills) ELSE s = fills
<1>1. fills \in Seq(Execs) /\ Len(fills) \in Nat /\ Len(fills) <= FillCap
      /\ FillCap \in Nat /\ FillCap # 0
  BY HedgeAssumption DEF TypeOK
<1>2. CASE Len(fills) = FillCap
  <2>1. fills # << >>
    BY <1>1, <1>2
  <2>2. Tail(fills) \in Seq(Execs) /\ Len(Tail(fills)) = Len(fills) - 1
    <3> HIDE DEF Execs
    <3> QED
      BY <1>1, <2>1, TailIs
  <2>3. fills' = Append(Tail(fills), e)
    BY <1>2 DEF SendFill
  <2>4. PICK s \in Seq(Execs) : s = Tail(fills)
    BY <2>2
  <2>5. fills' = Append(s, e) /\ Len(s) < FillCap /\ fills # << >> /\ s = Tail(fills)
    BY <1>1, <1>2, <2>1, <2>2, <2>3, <2>4
  <2> QED
    BY <1>2, <2>5
<1>3. CASE Len(fills) # FillCap
  <2>1. fills' = Append(fills, e)
    BY <1>3 DEF SendFill
  <2> QED
    BY <1>1, <1>3, <2>1
<1> QED
  BY <1>2, <1>3

LEMMA SendFillTypes ==
    ASSUME TypeOK, NEW e \in Execs, SendFill(e)
    PROVE  /\ fills' \in Seq(Execs) /\ Len(fills') <= FillCap
           /\ lagged' \in BOOLEAN /\ exact' \in BOOLEAN
<1>1. PICK s \in Seq(Execs) : fills' = Append(s, e) /\ Len(s) < FillCap
  BY SendFillIs
<1>2. fills' \in Seq(Execs) /\ Len(fills') = Len(s) + 1 /\ Len(s) \in Nat
  <2> HIDE DEF Execs
  <2> QED
    BY <1>1, AppendIs
<1>3. FillCap \in Nat
  BY HedgeAssumption
<1>4. lagged' \in BOOLEAN /\ exact' \in BOOLEAN
  BY DEF SendFill, TypeOK
<1> QED
  BY <1>1, <1>2, <1>3, <1>4

-----------------------------------------------------------------------------
(* Types.                                                                  *)

LEMMA DeltaType ==
    ASSUME NEW i \in Instruments
    PROVE  Delta(i) \in Int
BY HedgeAssumption DEF Delta, Instruments

LEMMA RebalanceType ==
    ASSUME TypeOK
    PROVE  Rebalance \in Int
<1>1. DeltaForProduct \in Int
  <2> DEFINE f == [o \in greeks |-> DeltaOf[o] * book[o]]
  <2>1. IsFiniteSet(greeks)
    BY HedgeAssumption, FS_Subset DEF TypeOK
  <2>2. f \in [greeks -> Int]
    <3>1. ASSUME NEW o \in greeks PROVE DeltaOf[o] * book[o] \in Int
      <4>1. DeltaOf[o] \in Int /\ book[o] \in Int
        BY HedgeAssumption DEF TypeOK
      <4> QED
        BY <4>1
    <3> QED
      BY <3>1
  <2> HIDE DEF f
  <2>3. SumFunction(f) \in Int
    BY <2>1, <2>2, SumType
  <2> QED
    BY <2>3 DEF DeltaForProduct, f
<1>2. PICK d \in Int : d = DeltaForProduct
  BY <1>1
<1>3. Unit \in Nat /\ Unit # 0 /\ hedge_qty \in Int
  BY HedgeAssumption DEF TypeOK
<1>4. RoundToContracts(d) \in Int
  <2> DEFINE a == 2 * d + Unit
             b == 2 * (-d) + Unit
             u == 2 * Unit
  <2>1. a \in Int /\ b \in Int /\ u \in Nat /\ u # 0
    BY <1>3
  <2> HIDE DEF a, b, u
  <2>2. a \div u \in Int /\ b \div u \in Int
    BY <2>1
  <2> QED
    BY <2>2 DEF RoundToContracts, a, b, u
<1> HIDE DEF RoundToContracts
<1>5. -RoundToContracts(d) - hedge_qty \in Int
  BY <1>3, <1>4
<1> QED
  BY <1>2, <1>5 DEF Rebalance

LEMMA ReportTypes ==
    ASSUME TypeOK, NEW i \in Instruments, NEW qty \in Int, Report(i, qty)
    PROVE  /\ ibkr' \in [Instruments -> Int] /\ exposure' \in Int
           /\ fills' \in Seq(Execs) /\ Len(fills') <= FillCap
           /\ lagged' \in BOOLEAN /\ exact' \in BOOLEAN
<1>1. [id |-> FreshId, on |-> i, qty |-> qty] \in Execs
  BY FreshIdIs DEF Execs
<1>2. PICK e \in Execs : e = [id |-> FreshId, on |-> i, qty |-> qty]
  BY <1>1
<1>3. SendFill(e)
  BY <1>2 DEF Report
<1>4. ibkr' = [ibkr EXCEPT ![i] = @ + qty] /\ exposure' = exposure + qty * Delta(i)
  BY DEF Report
<1>5. ibkr' \in [Instruments -> Int]
  BY <1>4 DEF TypeOK
<1>6. exposure' \in Int
  <2>1. PICK d \in Int : d = Delta(i)
    BY DeltaType
  <2>2. qty * d \in Int /\ exposure \in Int
    BY DEF TypeOK
  <2> QED
    BY <1>4, <2>1, <2>2
<1> QED
  BY <1>3, <1>5, <1>6, SendFillTypes

LEMMA UsedTypes ==
    ASSUME TypeOK
    PROVE  /\ used \in [trades : 0 .. MaxTrades, faults : 0 .. MaxFaults]
           /\ used.faults < MaxFaults => [used EXCEPT !.faults = @ + 1] \in
                                            [trades : 0 .. MaxTrades, faults : 0 .. MaxFaults]
           /\ used.trades < MaxTrades => [used EXCEPT !.trades = @ + 1] \in
                                            [trades : 0 .. MaxTrades, faults : 0 .. MaxFaults]
<1> DEFINE T == 0 .. MaxTrades
           F == 0 .. MaxFaults
<1>1. used \in [trades : T, faults : F]
  BY DEF TypeOK
<1>2. used.faults \in F /\ used.trades \in T
  BY <1>1
<1>3. used.faults < MaxFaults => used.faults + 1 \in F
  BY <1>2, HedgeAssumption
<1>4. used.trades < MaxTrades => used.trades + 1 \in T
  BY <1>2, HedgeAssumption
<1> HIDE DEF T, F
<1>5. used.faults < MaxFaults => [used EXCEPT !.faults = @ + 1] \in [trades : T, faults : F]
  BY <1>1, <1>3
<1>6. used.trades < MaxTrades => [used EXCEPT !.trades = @ + 1] \in [trades : T, faults : F]
  BY <1>1, <1>4
<1> QED
  BY <1>1, <1>5, <1>6 DEF T, F

LEMMA FillOrderIs ==
    ASSUME TypeOK, FillOldestOrder
    PROVE  \E qty \in Int : /\ Report(HedgeLeg, qty)
                            /\ orders' \in Seq(Int)
                            /\ used' \in [trades : 0 .. MaxTrades, faults : 0 .. MaxFaults]
                            /\ UNCHANGED << cache, book, greeks, hedgeVars, contract, marks, pump, per >>
<1>1. orders # << >> /\ orders \in Seq(Int)
  BY DEF FillOldestOrder, TypeOK
<1>2. PICK n \in 1 .. Abs(Head(orders)) : FillOrder(n)
  BY DEF FillOldestOrder
<1>3. n \in Int
  BY <1>2
<1> DEFINE qty == IF Head(orders) > 0 THEN n ELSE -n
           rest == Head(orders) - qty
<1>4. /\ \/ rest = 0 /\ orders' = Tail(orders) /\ UNCHANGED used
         \/ /\ rest # 0 /\ used.faults < MaxFaults
            /\ orders' = << rest >> \o Tail(orders)
            /\ used' = [used EXCEPT !.faults = @ + 1]
      /\ Report(HedgeLeg, qty)
      /\ UNCHANGED << cache, book, greeks, hedgeVars, contract, marks, pump, per >>
  BY <1>2 DEF FillOrder
<1>5. qty \in Int
  BY <1>3
<1>6. Head(orders) \in Int /\ Tail(orders) \in Seq(Int)
  BY <1>1
<1>7. rest \in Int
  BY <1>5, <1>6
<1> HIDE DEF qty, rest
<1>8. orders' \in Seq(Int)
  <2>1. << rest >> \in Seq(Int)
    BY <1>7
  <2>2. << rest >> \o Tail(orders) \in Seq(Int)
    BY <1>6, <2>1, ConcatProperties
  <2> QED
    BY <1>4, <1>6, <2>2
<1>9. used' \in [trades : 0 .. MaxTrades, faults : 0 .. MaxFaults]
  BY <1>4, UsedTypes
<1> QED
  BY <1>4, <1>5, <1>8, <1>9

LEMMA ReconcileTypes ==
    ASSUME TypeOK, NEW snap \in [Instruments -> Int], ReconcileOptions(snap)
    PROVE  book' \in [Options -> Int] /\ greeks' \subseteq Options
<1>1. Options \subseteq Instruments
  BY DEF Instruments
<1>2. book' = [o \in Options |-> snap[o]] /\ (greeks' = greeks \/ greeks' = {})
  BY DEF ReconcileOptions
<1> QED
  BY <1>1, <1>2 DEF TypeOK

LEMMA PlaceTypes ==
    ASSUME TypeOK, NEW order \in Int, place_hedge_order(order)
    PROVE  /\ orders' \in Seq(Int)
           /\ used' \in [trades : 0 .. MaxTrades, faults : 0 .. MaxFaults]
<1>1. orders \in Seq(Int)
  BY DEF TypeOK
<1>2. Append(orders, order) \in Seq(Int)
  BY <1>1
<1>3. orders' \in {orders, Append(orders, order)}
  BY DEF place_hedge_order
<1>4. used' = used \/ (used.faults < MaxFaults /\ used' = [used EXCEPT !.faults = @ + 1])
  BY DEF place_hedge_order
<1> QED
  BY <1>1, <1>2, <1>3, <1>4, UsedTypes

PumpStates == [pc : {"recv", "resync", "rebalance", "place"}, order : Int,
               snap : [Instruments -> Int]]
PerStates == [pc : {"tick", "options", "hedge", "rebalance", "place"},
              order : Int, tick_count : 0 .. ReconcileEvery - 1,
              snap : [Instruments -> Int], due : BOOLEAN]
Budget == [trades : 0 .. MaxTrades, faults : 0 .. MaxFaults]

LEMMA TypeInit ==
    ASSUME Init
    PROVE  TypeOK
<1>1. PICK seed \in SeedBooks, h \in SeedHedges :
          ibkr = [i \in Instruments |-> IF i = HedgeLeg THEN h ELSE seed[i]]
  BY DEF Init
<1>2. ibkr \in [Instruments -> Int] /\ Options \subseteq Instruments /\ HedgeLeg \in Instruments
  BY <1>1, HedgeAssumption DEF Instruments
<1>3. exposure \in Int
  <2> DEFINE f == [i \in Instruments |-> Delta(i) * ibkr[i]]
  <2>1. IsFiniteSet(Instruments)
    BY HedgeAssumption, FS_AddElement DEF Instruments
  <2>2. f \in [Instruments -> Int]
    <3>1. ASSUME NEW i \in Instruments PROVE Delta(i) * ibkr[i] \in Int
      <4>1. PICK d \in Int : d = Delta(i)
        BY DeltaType
      <4>2. d * ibkr[i] \in Int
        BY <1>2
      <4> QED
        BY <4>1, <4>2
    <3> QED
      BY <3>1
  <2> HIDE DEF f
  <2>3. SumFunction(f) \in Int
    BY <2>1, <2>2, SumType
  <2> QED
    BY <2>3 DEF Init, f
<1>4. /\ cache = ibkr /\ orders = << >> /\ fills = << >> /\ lagged = FALSE
      /\ book = [o \in Options |-> ibkr[o]] /\ greeks = {}
      /\ hedge_qty = ibkr[HedgeLeg] /\ processed = << >>
      /\ contract \in BOOLEAN /\ marks = {} /\ exact = TRUE
  BY DEF Init
<1>5. NoSnap \in [Instruments -> Int]
  BY DEF NoSnap
<1>6. pump \in PumpStates
  BY <1>5 DEF Init, PumpStates
<1>7. per \in PerStates
  BY <1>5, HedgeAssumption DEF Init, PerStates
<1>8. used \in Budget
  BY HedgeAssumption DEF Init, Budget
<1>9. /\ orders \in Seq(Int) /\ fills \in Seq(Execs) /\ Len(fills) <= FillCap
      /\ processed \in Seq(ExecIds) /\ Len(processed) <= ExecIdsMax
  BY <1>4, HedgeAssumption
<1>10. /\ cache \in [Instruments -> Int] /\ book \in [Options -> Int] /\ greeks \subseteq Options
       /\ hedge_qty \in Int
  BY <1>2, <1>4
<1> QED
  BY <1>2, <1>3, <1>4, <1>6, <1>7, <1>8, <1>9, <1>10 DEF TypeOK, PumpStates, PerStates, Budget

\* The gateway and the market.
LEMMA GatewayTypes ==
    ASSUME TypeOK, Gateway
    PROVE  TypeOK'
<1>1. ASSUME NEW o \in Options, NEW qty \in TradeQtys, OptionTrade(o, qty) PROVE TypeOK'
  <2>1. o \in Instruments /\ qty \in Int /\ Report(o, qty)
    BY <1>1, HedgeAssumption DEF OptionTrade, Instruments
  <2>2. used' \in Budget
    BY <1>1, UsedTypes DEF OptionTrade, Budget
  <2>3. UNCHANGED << cache, orders, book, greeks, hedge_qty, processed, contract, marks, pump, per >>
    BY <1>1 DEF OptionTrade, hedgeVars
  <2> QED
    BY <2>1, <2>2, <2>3, ReportTypes DEF TypeOK, Budget
<1>2. CASE FillOldestOrder
  <2>1. PICK qty \in Int : /\ Report(HedgeLeg, qty) /\ orders' \in Seq(Int)
                           /\ used' \in Budget
                           /\ UNCHANGED << cache, book, greeks, hedgeVars, contract, marks, pump, per >>
    BY <1>2, FillOrderIs DEF Budget
  <2>2. HedgeLeg \in Instruments
    BY DEF Instruments
  <2>3. UNCHANGED << cache, book, greeks, hedge_qty, processed, contract, marks, pump, per >>
    BY <2>1 DEF hedgeVars
  <2> QED
    BY <2>1, <2>2, <2>3, ReportTypes DEF TypeOK, Budget
<1>3. CASE MissOrder
  <2>1. orders' \in Seq(Int)
    BY <1>3 DEF MissOrder, TypeOK
  <2>2. used' \in Budget
    BY <1>3, UsedTypes DEF MissOrder, Budget
  <2>3. UNCHANGED << ibkr, exposure, cache, fills, lagged, book, greeks, hedge_qty, processed,
                     exact, contract, marks, pump, per >>
    BY <1>3 DEF MissOrder, channelVars, stateVars, hedgeVars
  <2> QED
    BY <2>1, <2>2, <2>3 DEF TypeOK, Budget
<1>4. CASE RepeatFill
  <2>1. fills \in Seq(Execs) /\ fills # << >> /\ SendFill(fills[Len(fills)])
    BY <1>4 DEF RepeatFill, TypeOK
  <2>2. fills[Len(fills)] \in Execs
    <3> HIDE DEF Execs
    <3> QED
      BY <2>1
  <2>3. used' \in Budget
    BY <1>4, UsedTypes DEF RepeatFill, Budget
  <2>4. UNCHANGED << ibkr, exposure, cache, orders, book, greeks, hedge_qty, processed,
                     contract, marks, pump, per >>
    BY <1>4 DEF RepeatFill, gatewayVars, hedgeVars
  <2>5. /\ fills' \in Seq(Execs) /\ Len(fills') <= FillCap
        /\ lagged' \in BOOLEAN /\ exact' \in BOOLEAN
    BY <2>1, <2>2, SendFillTypes
  <2> QED
    BY <2>3, <2>4, <2>5 DEF TypeOK, Budget
<1>5. ASSUME NEW i \in Instruments, PositionMsg(i) PROVE TypeOK'
  <2>1. cache' \in [Instruments -> Int]
    BY <1>5 DEF PositionMsg, TypeOK
  <2>2. UNCHANGED << ibkr, exposure, orders, fills, lagged, book, greeks, hedge_qty, processed,
                     exact, contract, marks, used, pump, per >>
    BY <1>5 DEF PositionMsg, channelVars, stateVars, hedgeVars, envVars
  <2> QED
    BY <2>1, <2>2 DEF TypeOK
<1>6. ASSUME NEW m \in {"hedge", "underlying"}, MarkArrives(m) PROVE TypeOK'
  <2>1. marks' \subseteq {"hedge", "underlying"}
    BY <1>6 DEF MarkArrives, TypeOK
  <2>2. UNCHANGED << ibkr, exposure, cache, orders, fills, lagged, book, greeks, hedge_qty,
                     processed, exact, contract, used, pump, per >>
    BY <1>6 DEF MarkArrives, gatewayVars, channelVars, stateVars, hedgeVars
  <2> QED
    BY <2>1, <2>2 DEF TypeOK
<1> QED
  BY <1>1, <1>2, <1>3, <1>4, <1>5, <1>6 DEF Gateway

\* An applied fill's id is remembered; at the limit the oldest one goes.
LEMMA AppliedIs ==
    ASSUME TypeOK, NEW e \in Execs, apply_broker_fill(e)
    PROVE  /\ hedge_qty' \in Int
           /\ processed' \in Seq(ExecIds) /\ Len(processed') <= ExecIdsMax
           /\ \/ UNCHANGED << hedge_qty, processed >> /\ (~contract \/ e.id \in RangeOf(processed))
              \/ /\ hedge_qty' = hedge_qty + e.qty /\ e.id \notin RangeOf(processed)
                 /\ e.id \in RangeOf(processed')
                 /\ RangeOf(processed') \subseteq RangeOf(processed) \cup {e.id}
<1>1. /\ processed \in Seq(ExecIds) /\ Len(processed) \in Nat /\ Len(processed) <= ExecIdsMax
      /\ ExecIdsMax \in Nat /\ ExecIdsMax # 0 /\ hedge_qty \in Int
      /\ e.id \in ExecIds /\ e.qty \in Int
  BY HedgeAssumption DEF TypeOK, Execs
<1>2. CASE ~(contract /\ e.id \notin RangeOf(processed))
  <2>1. UNCHANGED << hedge_qty, processed >>
    BY <1>2 DEF apply_broker_fill, hedgeVars
  <2> QED
    BY <1>1, <1>2, <2>1
<1>3. CASE contract /\ e.id \notin RangeOf(processed)
  <2> DEFINE s == IF Len(processed) >= ExecIdsMax THEN Tail(processed) ELSE processed
  <2>1. hedge_qty' = hedge_qty + e.qty /\ processed' = Append(s, e.id)
    BY <1>3 DEF apply_broker_fill, apply_fill
  <2>2. /\ s \in Seq(ExecIds) /\ Len(s) < ExecIdsMax /\ Len(s) \in Nat
        /\ RangeOf(s) \subseteq RangeOf(processed)
    <3>1. CASE Len(processed) >= ExecIdsMax
      <4>1. processed # << >>
        BY <1>1, <3>1
      <4> HIDE DEF ExecIds
      <4>2. /\ Tail(processed) \in Seq(ExecIds) /\ Len(Tail(processed)) = Len(processed) - 1
            /\ \A i \in 1 .. Len(processed) - 1 : Tail(processed)[i] = processed[i + 1]
        BY <1>1, <4>1, TailIs
      <4>3. RangeOf(Tail(processed)) \subseteq RangeOf(processed)
        BY <1>1, <4>2 DEF RangeOf
      <4> QED
        BY <1>1, <3>1, <4>1, <4>2, <4>3
    <3>2. CASE ~(Len(processed) >= ExecIdsMax)
      BY <1>1, <3>2
    <3> QED
      BY <3>1, <3>2
  <2> HIDE DEF s
  <2>3. /\ Append(s, e.id) \in Seq(ExecIds) /\ Len(Append(s, e.id)) = Len(s) + 1
        /\ \A i \in 1 .. Len(s) : Append(s, e.id)[i] = s[i]
        /\ Append(s, e.id)[Len(s) + 1] = e.id
    <3> HIDE DEF ExecIds
    <3> QED
      BY <1>1, <2>2, AppendIs
  <2>4. e.id \in RangeOf(processed') /\ RangeOf(processed') \subseteq RangeOf(s) \cup {e.id}
    <3> DEFINE p == Append(s, e.id)
    <3>1. Len(p) = Len(s) + 1 /\ \A i \in 1 .. Len(s) : p[i] = s[i]
      BY <2>3
    <3>2. p[Len(p)] = e.id /\ Len(p) \in 1 .. Len(p)
      BY <2>2, <2>3
    <3> HIDE DEF p
    <3>3. e.id \in RangeOf(p)
      BY <3>2 DEF RangeOf
    <3>4. \A i \in 1 .. Len(p) : p[i] \in RangeOf(s) \cup {e.id}
      BY <2>2, <3>1, <3>2 DEF RangeOf
    <3>5. RangeOf(p) \subseteq RangeOf(s) \cup {e.id}
      BY <3>4 DEF RangeOf
    <3> QED
      BY <2>1, <3>3, <3>5 DEF p
  <2> QED
    BY <1>1, <1>3, <2>1, <2>2, <2>3, <2>4
<1> QED
  BY <1>2, <1>3

LEMMA PumpUpdates ==
    ASSUME NEW p \in PumpStates, NEW c \in {"recv", "resync", "rebalance", "place"}
    PROVE  /\ [p EXCEPT !.pc = c] \in PumpStates
           /\ \A s \in [Instruments -> Int] : [p EXCEPT !.pc = c, !.snap = s] \in PumpStates
           /\ \A x \in Int : [p EXCEPT !.pc = c, !.order = x] \in PumpStates
<1> DEFINE C == {"recv", "resync", "rebalance", "place"}
           N == Int
           S == [Instruments -> Int]
           R == [pc : C, order : N, snap : S]
<1>1. p \in R /\ c \in C
  BY DEF PumpStates
<1> HIDE DEF C, N, S
<1>2. /\ [p EXCEPT !.pc = c] \in R
      /\ \A s \in S : [p EXCEPT !.pc = c, !.snap = s] \in R
      /\ \A x \in N : [p EXCEPT !.pc = c, !.order = x] \in R
  BY <1>1
<1> QED
  BY <1>2 DEF PumpStates, C, N, S

LEMMA PerUpdates ==
    ASSUME NEW p \in PerStates, NEW c \in {"tick", "options", "hedge", "rebalance", "place"}
    PROVE  /\ [p EXCEPT !.pc = c] \in PerStates
           /\ \A s \in [Instruments -> Int] : [p EXCEPT !.pc = c, !.snap = s] \in PerStates
           /\ \A x \in Int : [p EXCEPT !.pc = c, !.order = x] \in PerStates
           /\ \A b \in BOOLEAN : [p EXCEPT !.pc = c, !.due = b] \in PerStates
           /\ \A x \in Int, b \in BOOLEAN :
                  [p EXCEPT !.pc = c, !.order = x, !.due = b] \in PerStates
           /\ \A n \in 0 .. ReconcileEvery - 1, s \in [Instruments -> Int] :
                  [p EXCEPT !.pc = c, !.tick_count = n, !.snap = s] \in PerStates
<1> DEFINE C == {"tick", "options", "hedge", "rebalance", "place"}
           N == Int
           S == [Instruments -> Int]
           T == 0 .. ReconcileEvery - 1
           B == BOOLEAN
           R == [pc : C, order : N, tick_count : T, snap : S, due : B]
<1>1. p \in R /\ c \in C
  BY DEF PerStates
<1> HIDE DEF C, N, S, T, B
<1>2. /\ [p EXCEPT !.pc = c] \in R
      /\ \A s \in S : [p EXCEPT !.pc = c, !.snap = s] \in R
      /\ \A x \in N : [p EXCEPT !.pc = c, !.order = x] \in R
      /\ \A b \in B : [p EXCEPT !.pc = c, !.due = b] \in R
  BY <1>1
<1>3. \A x \in N, b \in B : [p EXCEPT !.pc = c, !.order = x, !.due = b] \in R
  BY <1>1
<1>4. \A n \in T, s \in S : [p EXCEPT !.pc = c, !.tick_count = n, !.snap = s] \in R
  BY <1>1
<1> QED
  BY <1>2, <1>3, <1>4 DEF PerStates, C, N, S, T, B

LEMMA PumpTypes ==
    ASSUME TypeOK, Pump
    PROVE  TypeOK'
<1>0. pump \in PumpStates /\ fills \in Seq(Execs)
  BY DEF TypeOK, PumpStates
<1>7. fills # << >> => Head(fills) \in Execs /\ Tail(fills) \in Seq(Execs)
                       /\ Len(Tail(fills)) <= FillCap
  <2> SUFFICES ASSUME fills # << >>
               PROVE  Head(fills) \in Execs /\ Tail(fills) \in Seq(Execs)
                      /\ Len(Tail(fills)) <= FillCap
    OBVIOUS
  <2>1. Len(fills) \in Nat /\ Len(fills) <= FillCap /\ FillCap \in Nat
    BY <1>0, HedgeAssumption DEF TypeOK
  <2> HIDE DEF Execs
  <2>2. Head(fills) \in Execs /\ Tail(fills) \in Seq(Execs) /\ Len(Tail(fills)) = Len(fills) - 1
    BY <1>0, TailIs
  <2> QED
    BY <2>1, <2>2
<1>1. CASE PumpLagged
  <2>1. pump' \in PumpStates /\ lagged' \in BOOLEAN
    BY <1>0, <1>1 DEF PumpLagged, PumpStates, TypeOK
  <2>2. UNCHANGED << ibkr, exposure, cache, orders, fills, book, greeks, hedge_qty, processed,
                     exact, contract, marks, used, per >>
    BY <1>1 DEF PumpLagged, gatewayVars, stateVars, hedgeVars, envVars
  <2> QED
    BY <2>1, <2>2 DEF TypeOK, PumpStates
<1>2. CASE PumpResync
  <2>1. pump' \in PumpStates
    <3>1. NoSnap \in [Instruments -> Int] /\ 0 \in Int
      BY DEF NoSnap
    <3>2. pump' = [pump EXCEPT !.pc = "recv", !.snap = NoSnap]
      BY <1>2 DEF PumpResync
    <3> HIDE DEF NoSnap
    <3> QED
      BY <1>0, <3>1, <3>2, PumpUpdates
  <2>2. book' \in [Options -> Int] /\ greeks' \subseteq Options
    <3>1. pump.snap \in [Instruments -> Int] /\ ReconcileOptions(pump.snap)
      BY <1>0, <1>2 DEF PumpResync, PumpStates
    <3> QED
      BY <3>1, ReconcileTypes
  <2>3. UNCHANGED << ibkr, exposure, cache, orders, fills, lagged, hedge_qty, processed,
                     exact, contract, marks, used, per >>
    BY <1>2 DEF PumpResync, gatewayVars, channelVars, hedgeVars, envVars
  <2> QED
    BY <2>1, <2>2, <2>3 DEF TypeOK, PumpStates
<1>3. CASE PumpHedgeFill
  <2>1. /\ fills # << >> /\ fills' = Tail(fills) /\ apply_broker_fill(Head(fills))
        /\ UNCHANGED << ibkr, exposure, cache, orders, lagged, book, greeks, exact,
                        contract, marks, used, pump, per >>
    BY <1>3 DEF PumpHedgeFill, gatewayVars, envVars
  <2>2. PICK e \in Execs : e = Head(fills)
    BY <1>7, <2>1
  <2>3. hedge_qty' \in Int /\ processed' \in Seq(ExecIds) /\ Len(processed') <= ExecIdsMax
    BY <2>1, <2>2, AppliedIs
  <2> QED
    BY <1>7, <2>1, <2>3 DEF TypeOK
<1>4. CASE PumpOptionFill
  <2>1. /\ fills # << >> /\ fills' = Tail(fills) /\ Head(fills).on \in Options
        /\ UNCHANGED << ibkr, exposure, cache, orders, lagged, hedge_qty, processed, exact,
                        contract, marks, used, per >>
    BY <1>4 DEF PumpOptionFill, gatewayVars, hedgeVars, envVars
  <2>2. PICK e \in Execs : e = Head(fills)
    BY <1>7, <2>1
  <2>3. e.qty \in Int /\ e.on \in Options
    BY <2>1, <2>2 DEF Execs
  <2>4. book' \in [Options -> Int] /\ greeks' \subseteq Options
    <3>1. \/ UNCHANGED << book, greeks >>
          \/ add_fill(e.on, e.qty)
      BY <1>4, <2>2 DEF PumpOptionFill
    <3> QED
      BY <2>3, <3>1 DEF add_fill, TypeOK
  <2>5. pump' \in PumpStates
    BY <1>0, <1>4 DEF PumpOptionFill, PumpStates
  <2> QED
    BY <1>7, <2>1, <2>4, <2>5 DEF TypeOK, PumpStates
<1>5. CASE PumpRebalance
  <2>1. PICK x \in Int : x = Rebalance
    BY RebalanceType
  <2>2. pump' = [pump EXCEPT !.pc = IF x = 0 THEN "recv" ELSE "place", !.order = x]
    BY <1>5, <2>1 DEF PumpRebalance
  <2>3. pump' \in PumpStates
    BY <1>0, <2>2 DEF PumpStates
  <2>4. UNCHANGED << ibkr, exposure, cache, orders, fills, lagged, book, greeks, hedge_qty,
                     processed, exact, contract, marks, used, per >>
    BY <1>5 DEF PumpRebalance, gatewayVars, channelVars, stateVars, hedgeVars, envVars
  <2> QED
    BY <2>3, <2>4 DEF TypeOK, PumpStates
<1>6. CASE PumpPlace
  <2>1. pump.order \in Int /\ place_hedge_order(pump.order)
    BY <1>0, <1>6 DEF PumpPlace, PumpStates
  <2>2. orders' \in Seq(Int) /\ used' \in Budget
    BY <2>1, PlaceTypes DEF Budget
  <2>3. pump' \in PumpStates
    <3>1. pump' = [pump EXCEPT !.pc = "recv", !.order = 0]
      BY <1>6 DEF PumpPlace
    <3>2. \A x \in Int : [pump EXCEPT !.pc = "recv", !.order = x] \in PumpStates
      BY <1>0, PumpUpdates
    <3>3. 0 \in Int
      OBVIOUS
    <3> QED
      BY <3>1, <3>2, <3>3, Zenon
  <2>4. UNCHANGED << ibkr, exposure, cache, fills, lagged, book, greeks, hedge_qty,
                     processed, exact, contract, marks, per >>
    BY <1>6 DEF PumpPlace, channelVars, stateVars, hedgeVars
  <2> QED
    BY <2>2, <2>3, <2>4 DEF TypeOK, PumpStates, Budget
<1> QED
  BY <1>1, <1>2, <1>3, <1>4, <1>5, <1>6 DEF Pump

LEMMA PeriodicTypes ==
    ASSUME TypeOK, Periodic
    PROVE  TypeOK'
<1>0. /\ per \in PerStates /\ per.snap \in [Instruments -> Int] /\ per.order \in Int
      /\ per.tick_count \in 0 .. ReconcileEvery - 1 /\ cache \in [Instruments -> Int]
      /\ per.due \in BOOLEAN /\ NoSnap \in [Instruments -> Int] /\ HedgeLeg \in Instruments
  BY DEF TypeOK, PerStates, NoSnap, Instruments
<1> HIDE DEF NoSnap
<1>1. CASE Tick
  <2> DEFINE n == (per.tick_count + 1) % ReconcileEvery
             c == IF n = 0 THEN "options" ELSE "rebalance"
             s == IF n = 0 THEN cache ELSE per.snap
  <2>1. n \in 0 .. ReconcileEvery - 1
    BY <1>0, HedgeAssumption
  <2>2. per' = [per EXCEPT !.pc = c, !.tick_count = n, !.snap = s]
    BY <1>1 DEF Tick
  <2> HIDE DEF n
  <2>3. s \in [Instruments -> Int] /\ c \in {"tick", "options", "hedge", "rebalance", "place"}
    BY <1>0
  <2> HIDE DEF s, c
  <2>4. per' \in PerStates
    BY <1>0, <2>1, <2>2, <2>3, PerUpdates
  <2>5. UNCHANGED << ibkr, exposure, cache, orders, fills, lagged, book, greeks, hedge_qty,
                     processed, exact, contract, marks, used, pump >>
    BY <1>1 DEF Tick, gatewayVars, channelVars, stateVars, hedgeVars, envVars
  <2> QED
    BY <2>4, <2>5 DEF TypeOK, PerStates
<1>2. CASE PeriodicReconcileOptions
  <2>1. per' = [per EXCEPT !.pc = "hedge"] /\ ReconcileOptions(per.snap)
    BY <1>2 DEF PeriodicReconcileOptions
  <2>2. per' \in PerStates
    BY <1>0, <2>1, PerUpdates
  <2>3. book' \in [Options -> Int] /\ greeks' \subseteq Options
    BY <1>0, <2>1, ReconcileTypes
  <2>4. UNCHANGED << ibkr, exposure, cache, orders, fills, lagged, hedge_qty, processed,
                     exact, contract, marks, used, pump >>
    BY <1>2 DEF PeriodicReconcileOptions, gatewayVars, channelVars, hedgeVars, envVars
  <2> QED
    BY <2>2, <2>3, <2>4 DEF TypeOK, PerStates
<1>3. CASE PeriodicReconcileHedge
  <2>1. /\ per' = [per EXCEPT !.pc = "rebalance", !.snap = NoSnap]
        /\ hedge_qty' \in {hedge_qty, per.snap[HedgeLeg]}
        /\ exact' = (exact /\ hedge_qty' = hedge_qty)
    BY <1>3 DEF PeriodicReconcileHedge, reconcile_with_position
  <2>2. per' \in PerStates
    BY <1>0, <2>1, PerUpdates
  <2>3. hedge_qty' \in Int /\ exact' \in BOOLEAN
    BY <1>0, <2>1 DEF TypeOK
  <2>4. UNCHANGED << ibkr, exposure, cache, orders, fills, lagged, book, greeks, processed,
                     contract, marks, used, pump >>
    BY <1>3 DEF PeriodicReconcileHedge, gatewayVars, channelVars, envVars
  <2> QED
    BY <2>2, <2>3, <2>4 DEF TypeOK, PerStates
<1>4. CASE PeriodicRebalance
  <2>1. PICK x \in Int : x = Rebalance
    BY RebalanceType
  <2>2. PICK c \in {"tick", "place"} : c = IF x = 0 THEN "tick" ELSE "place"
    OBVIOUS
  <2>3. \/ per' = [per EXCEPT !.pc = c, !.order = x, !.due = FALSE]
        \/ per' = [per EXCEPT !.pc = "tick", !.due = TRUE]
    BY <1>4, <2>1, <2>2 DEF PeriodicRebalance
  <2>4. per' \in PerStates
    <3>1. \A y \in Int, b \in BOOLEAN : [per EXCEPT !.pc = c, !.order = y, !.due = b] \in PerStates
      BY <1>0, <2>2, PerUpdates
    <3>2. \A b \in BOOLEAN : [per EXCEPT !.pc = "tick", !.due = b] \in PerStates
      BY <1>0, PerUpdates
    <3> QED
      BY <2>3, <3>1, <3>2, Zenon
  <2>5. UNCHANGED << ibkr, exposure, cache, orders, fills, lagged, book, greeks, hedge_qty,
                     processed, exact, contract, marks, used, pump >>
    BY <1>4 DEF PeriodicRebalance, gatewayVars, channelVars, stateVars, hedgeVars, envVars
  <2> QED
    BY <2>4, <2>5 DEF TypeOK, PerStates
<1>5. CASE PeriodicPlace
  <2>1. place_hedge_order(per.order) /\ per' = [per EXCEPT !.pc = "tick", !.order = 0]
    BY <1>5 DEF PeriodicPlace
  <2>2. orders' \in Seq(Int) /\ used' \in Budget
    BY <1>0, <2>1, PlaceTypes DEF Budget
  <2>3. per' \in PerStates
    <3>1. \A x \in Int : [per EXCEPT !.pc = "tick", !.order = x] \in PerStates
      BY <1>0, PerUpdates
    <3>2. 0 \in Int
      OBVIOUS
    <3> QED
      BY <2>1, <3>1, <3>2, Zenon
  <2>4. UNCHANGED << ibkr, exposure, cache, fills, lagged, book, greeks, hedge_qty,
                     processed, exact, contract, marks, pump >>
    BY <1>5 DEF PeriodicPlace, channelVars, stateVars, hedgeVars
  <2> QED
    BY <2>2, <2>3, <2>4 DEF TypeOK, PerStates, Budget
<1> QED
  BY <1>1, <1>2, <1>3, <1>4, <1>5 DEF Periodic

LEMMA TypeStep ==
    ASSUME TypeOK, [Next]_vars
    PROVE  TypeOK'
<1>1. CASE RefreshGreeks
  <2>1. greeks' \subseteq Options
    BY <1>1 DEF RefreshGreeks
  <2>2. UNCHANGED << ibkr, exposure, cache, orders, fills, lagged, book, hedge_qty, processed,
                     exact, contract, marks, used, pump, per >>
    BY <1>1 DEF RefreshGreeks, gatewayVars, channelVars, hedgeVars, envVars
  <2> QED
    BY <2>1, <2>2 DEF TypeOK
<1>2. CASE UNCHANGED vars
  BY <1>2 DEF vars, gatewayVars, channelVars, stateVars, hedgeVars, envVars, TypeOK
<1> QED
  BY <1>1, <1>2, GatewayTypes, PumpTypes, PeriodicTypes DEF Next

\* Types; the channel and processed_exec_ids keep within their capacities,
\* and the periodic task's counter within its period.
THEOREM TypeOKAlways == Spec => []TypeOK
<1>1. Init => TypeOK
  BY TypeInit
<1>2. TypeOK /\ [Next]_vars => TypeOK'
  BY TypeStep
<1> QED
  BY <1>1, <1>2, PTL DEF Spec

-----------------------------------------------------------------------------
(* The hedge leg's executions.                                             *)

\* Entries of one exec id are the same report and lie side by side in the
\* channel: the gateway repeats only its last one.
Runs(s) ==
    \A i, j \in 1 .. Len(s) : s[i].id = s[j].id =>
        s[i] = s[j] /\ \A k \in i .. j : s[k].id = s[i].id

\* An id that was applied is, if at all, in front.
AppliedFirst(s, p) ==
    \A i \in 1 .. Len(s) : s[i].id \in RangeOf(p) => \A j \in 1 .. i : s[j].id = s[i].id

IdsOK(s, p) == Runs(s) /\ AppliedFirst(s, p)

\* What may be sent: the last entry again, or a new id.
MaySend(s, p, e) ==
    \/ Len(s) = 0
    \/ Len(s) # 0 /\ e = s[Len(s)]
    \/ e.id \notin RangeOf(p) /\ \A i \in 1 .. Len(s) : s[i].id # e.id

LEMMA TailKeepsIds ==
    ASSUME NEW X, NEW s \in Seq(X), s # << >>, NEW p, IdsOK(s, p)
    PROVE  IdsOK(Tail(s), p)
<1> DEFINE t == Tail(s)
<1>1. /\ Len(t) = Len(s) - 1 /\ Len(s) \in Nat /\ Len(s) >= 1
      /\ \A i \in 1 .. Len(s) - 1 : t[i] = s[i + 1]
  BY TailIs
<1> HIDE DEF t
<1>2. \A i \in 1 .. Len(t) : t[i] = s[i + 1] /\ i + 1 \in 1 .. Len(s)
  BY <1>1
<1>3. ASSUME NEW i \in 1 .. Len(t), NEW j \in 1 .. Len(t), t[i].id = t[j].id
      PROVE  t[i] = t[j] /\ \A k \in i .. j : t[k].id = t[i].id
  <2>1. s[i + 1].id = s[j + 1].id /\ i + 1 \in 1 .. Len(s) /\ j + 1 \in 1 .. Len(s)
    BY <1>2, <1>3
  <2>2. s[i + 1] = s[j + 1] /\ \A k \in i + 1 .. j + 1 : s[k].id = s[i + 1].id
    BY <2>1 DEF IdsOK, Runs
  <2>3. ASSUME NEW k \in i .. j PROVE t[k].id = t[i].id
    <3>1. k \in 1 .. Len(t) /\ k + 1 \in i + 1 .. j + 1
      BY <1>1
    <3> QED
      BY <1>2, <2>2, <3>1
  <2> QED
    BY <1>2, <2>2, <2>3
<1>4. ASSUME NEW i \in 1 .. Len(t), t[i].id \in RangeOf(p), NEW j \in 1 .. i
      PROVE  t[j].id = t[i].id
  <2>1. i + 1 \in 1 .. Len(s) /\ s[i + 1].id \in RangeOf(p) /\ j + 1 \in 1 .. i + 1
        /\ j \in 1 .. Len(t)
    BY <1>1, <1>2, <1>4
  <2>2. s[j + 1].id = s[i + 1].id
    BY <2>1 DEF IdsOK, AppliedFirst
  <2> QED
    BY <1>2, <2>1, <2>2
<1> QED
  BY <1>3, <1>4 DEF IdsOK, Runs, AppliedFirst, t

LEMMA SendKeepsIds ==
    ASSUME NEW X, NEW s \in Seq(X), NEW e \in X, NEW p, IdsOK(s, p), MaySend(s, p, e)
    PROVE  IdsOK(Append(s, e), p)
<1> DEFINE t == Append(s, e)
           n == Len(s)
<1>1. /\ Len(t) = n + 1 /\ n \in Nat
      /\ \A i \in 1 .. n : t[i] = s[i]
      /\ t[n + 1] = e
  BY AppendIs
<1> HIDE DEF t, n
<1>2. \A i \in 1 .. n + 1 : (i \in 1 .. n /\ t[i] = s[i]) \/ (i = n + 1 /\ t[i] = e)
  BY <1>1
<1>3. /\ \A i, j \in 1 .. n : s[i].id = s[j].id =>
             s[i] = s[j] /\ \A k \in i .. j : s[k].id = s[i].id
      /\ \A i \in 1 .. n : s[i].id \in RangeOf(p) => \A j \in 1 .. i : s[j].id = s[i].id
  BY DEF IdsOK, Runs, AppliedFirst, n
<1>4. \/ n # 0 /\ e = s[n]
      \/ e.id \notin RangeOf(p) /\ \A i \in 1 .. n : s[i].id # e.id
      \/ n = 0
  BY DEF MaySend, n
<1>5. ASSUME NEW i \in 1 .. n, s[i].id = e.id
      PROVE  s[i] = e /\ \A k \in i .. n : s[k].id = e.id
  <2>1. n # 0 /\ e = s[n] /\ n \in 1 .. n
    BY <1>1, <1>4, <1>5
  <2> QED
    BY <1>3, <1>5, <2>1
<1>6. ASSUME NEW i \in 1 .. n + 1, NEW j \in 1 .. n + 1, t[i].id = t[j].id
      PROVE  t[i] = t[j] /\ \A k \in i .. j : t[k].id = t[i].id
  <2>1. CASE i \in 1 .. n /\ j \in 1 .. n
    <3>1. \A k \in i .. j : k \in 1 .. n
      BY <1>1, <2>1
    <3> QED
      BY <1>1, <1>3, <1>6, <2>1, <3>1
  <2>2. CASE i \in 1 .. n /\ j = n + 1
    <3>1. s[i].id = e.id /\ t[j] = e /\ t[i] = s[i]
      BY <1>1, <1>6, <2>2
    <3>2. s[i] = e /\ \A k \in i .. n : s[k].id = e.id
      BY <1>5, <2>2, <3>1
    <3>3. \A k \in i .. j : k = n + 1 \/ (k \in i .. n /\ k \in 1 .. n)
      BY <1>1, <2>2
    <3> QED
      BY <1>1, <3>1, <3>2, <3>3
  <2>3. CASE i = n + 1 /\ j \in 1 .. n
    <3>1. s[j] = e /\ t[i] = e /\ t[j] = s[j]
      BY <1>1, <1>5, <1>6, <2>3
    <3>2. \A k \in i .. j : FALSE
      BY <1>1, <2>3
    <3> QED
      BY <3>1, <3>2
  <2>4. CASE i = n + 1 /\ j = n + 1
    <3>1. \A k \in i .. j : k = i
      BY <1>1, <2>4
    <3> QED
      BY <2>4, <3>1
  <2> QED
    BY <1>2, <2>1, <2>2, <2>3, <2>4
<1>7. ASSUME NEW i \in 1 .. n + 1, t[i].id \in RangeOf(p), NEW j \in 1 .. i
      PROVE  t[j].id = t[i].id
  <2>1. CASE i \in 1 .. n
    <3>1. j \in 1 .. n
      BY <1>1, <2>1
    <3> QED
      BY <1>1, <1>3, <1>7, <2>1, <3>1
  <2>2. CASE i = n + 1
    <3>1. CASE j = n + 1
      BY <2>2, <3>1
    <3>2. CASE j # n + 1
      <4>1. j \in 1 .. n /\ n # 0 /\ n \in 1 .. n /\ t[i] = e /\ t[j] = s[j]
        BY <1>1, <2>2, <3>2
      <4>2. e = s[n]
        BY <1>4, <1>7, <4>1
      <4> QED
        BY <1>3, <1>7, <4>1, <4>2
    <3> QED
      BY <3>1, <3>2
  <2> QED
    BY <1>2, <2>1, <2>2
<1> QED
  BY <1>1, <1>6, <1>7 DEF IdsOK, Runs, AppliedFirst, t

\* The executions of the hedge leg that are still to be applied.
NewOf(s, p) == {e \in RangeOf(s) : e.on = HedgeLeg /\ e.id \notin RangeOf(p)}
Qty(N) == SumFunction([e \in N |-> e.qty])

LEMMA NewIs ==
    ASSUME NEW s \in Seq(Execs), NEW p
    PROVE  NewOf(s, p) \subseteq Execs /\ IsFiniteSet(NewOf(s, p))
<1>1. DOMAIN s = 1 .. Len(s) /\ \A i \in 1 .. Len(s) : s[i] \in Execs
  <2> HIDE DEF Execs
  <2> QED
    OBVIOUS
<1>2. IsFiniteSet(RangeOf(s))
  <2> HIDE DEF Execs
  <2> QED
    BY <1>1, RangeIsFinite DEF RangeOf
<1>3. NewOf(s, p) \subseteq RangeOf(s) /\ RangeOf(s) \subseteq Execs
  BY <1>1 DEF NewOf, RangeOf
<1> QED
  BY <1>2, <1>3, FS_Subset

LEMMA QtyAdd ==
    ASSUME NEW N, N \subseteq Execs, IsFiniteSet(N)
    PROVE  /\ Qty(N) \in Int /\ (N = {} => Qty(N) = 0)
           /\ \A e \in Execs : e \notin N => Qty(N \cup {e}) = Qty(N) + e.qty
<1> DEFINE f == [x \in N |-> x.qty]
<1>0. \A x \in Execs : x.qty \in Int
  BY DEF Execs
<1>1. f \in [N -> Int]
  BY <1>0
<1>2. SumFunction(f) \in Int /\ (N = {} => SumFunction(f) = 0)
  <2> HIDE DEF f
  <2> QED
    BY <1>1, SumType
<1>3. ASSUME NEW e \in Execs, e \notin N PROVE Qty(N \cup {e}) = Qty(N) + e.qty
  <2> DEFINE h == [x \in N \cup {e} |-> x.qty]
  <2>1. h \in [N \cup {e} -> Int] /\ h[e] = e.qty /\ \A x \in N : h[x] = f[x]
    BY <1>0
  <2> HIDE DEF h, f
  <2>2. SumFunction(h) = SumFunction(f) + h[e]
    BY <1>1, <1>3, <2>1, SumAdd
  <2> QED
    BY <2>1, <2>2 DEF Qty, f, h
<1> QED
  BY <1>2, <1>3 DEF Qty

\* A send of a report the gateway may make.
LEMMA SentIds ==
    ASSUME TypeOK, IdsOK(fills, processed), NEW e \in Execs, SendFill(e),
           MaySend(fills, processed, e)
    PROVE  /\ IdsOK(fills', processed)
           /\ exact' => exact /\ RangeOf(fills') = RangeOf(fills) \cup {e}
<1>1. PICK s \in Seq(Execs) :
          /\ fills' = Append(s, e) /\ Len(s) < FillCap
          /\ IF Len(fills) = FillCap THEN fills # << >> /\ s = Tail(fills) ELSE s = fills
  BY SendFillIs
<1>2. fills \in Seq(Execs)
  BY DEF TypeOK
<1> HIDE DEF Execs
<1>3. IdsOK(s, processed) /\ MaySend(s, processed, e)
  <2>1. CASE Len(fills) = FillCap
    <3>1. fills # << >> /\ s = Tail(fills)
      BY <1>1, <2>1
    <3>2. /\ Len(s) = Len(fills) - 1 /\ Len(fills) \in Nat /\ Len(fills) >= 1
          /\ \A i \in 1 .. Len(fills) - 1 : s[i] = fills[i + 1]
      BY <1>2, <3>1, TailIs
    <3>3. IdsOK(s, processed)
      BY <1>2, <3>1, TailKeepsIds
    <3>4. CASE e = fills[Len(fills)]
      <4>1. Len(s) = 0 \/ (Len(s) \in 1 .. Len(fills) - 1 /\ Len(s) + 1 = Len(fills))
        BY <3>2
      <4> QED
        BY <3>2, <3>3, <3>4, <4>1 DEF MaySend
    <3>5. CASE e.id \notin RangeOf(processed) /\ \A i \in 1 .. Len(fills) : fills[i].id # e.id
      <4>1. ASSUME NEW i \in 1 .. Len(s) PROVE s[i].id # e.id
        <5>1. i \in 1 .. Len(fills) - 1 /\ i + 1 \in 1 .. Len(fills)
          BY <3>2
        <5> QED
          BY <3>2, <3>5, <5>1
      <4> QED
        BY <3>3, <3>5, <4>1 DEF MaySend
    <3>6. Len(fills) # 0
      BY <3>2
    <3> QED
      BY <3>4, <3>5, <3>6 DEF MaySend
  <2>2. CASE Len(fills) # FillCap
    BY <1>1, <2>2
  <2> QED
    BY <2>1, <2>2
<1>4. IdsOK(fills', processed)
  BY <1>1, <1>3, SendKeepsIds
<1>5. ASSUME exact' PROVE exact /\ RangeOf(fills') = RangeOf(fills) \cup {e}
  <2>1. exact /\ Len(fills) < FillCap
    BY <1>5 DEF SendFill
  <2>2. Len(fills) \in Nat /\ FillCap \in Nat
    BY <1>2, HedgeAssumption
  <2>3. s = fills /\ fills' = Append(fills, e)
    BY <1>1, <2>1, <2>2
  <2> DEFINE t == Append(fills, e)
  <2>4. /\ Len(t) = Len(fills) + 1 /\ t[Len(t)] = e /\ Len(t) \in 1 .. Len(t)
        /\ \A i \in 1 .. Len(fills) : t[i] = fills[i]
    BY <1>2, <2>2, AppendIs
  <2> HIDE DEF t
  <2>5. \A i \in 1 .. Len(t) : (i \in 1 .. Len(fills) /\ t[i] = fills[i]) \/ t[i] = e
    BY <2>2, <2>4
  <2>6. \A i \in 1 .. Len(fills) : i \in 1 .. Len(t)
    BY <2>2, <2>4
  <2>7. RangeOf(t) = RangeOf(fills) \cup {e}
    <3>1. RangeOf(t) \subseteq RangeOf(fills) \cup {e}
      BY <2>5 DEF RangeOf
    <3>2. e \in RangeOf(t)
      BY <2>4 DEF RangeOf
    <3>3. RangeOf(fills) \subseteq RangeOf(t)
      BY <2>4, <2>6 DEF RangeOf
    <3> QED
      BY <3>1, <3>2, <3>3
  <2> QED
    BY <2>1, <2>3, <2>7 DEF t
<1> QED
  BY <1>4, <1>5

LEMMA InFlightIs == HedgeInFlight = Qty(NewOf(fills, processed))
BY DEF HedgeInFlight, Qty, NewOf

HedgeInv == IdsOK(fills, processed) /\ HedgeConserved

\* A new execution.
LEMMA ReportKeepsHedge ==
    ASSUME TypeOK, HedgeInv, NEW i \in Instruments, NEW qty \in Int, Report(i, qty),
           UNCHANGED << hedge_qty, processed, contract >>
    PROVE  HedgeInv'
<1>1. [id |-> FreshId, on |-> i, qty |-> qty] \in Execs
  BY FreshIdIs DEF Execs
<1>2. PICK e \in Execs : e = [id |-> FreshId, on |-> i, qty |-> qty]
  BY <1>1
<1>3. SendFill(e) /\ ibkr' = [ibkr EXCEPT ![i] = @ + qty]
  BY <1>2 DEF Report
<1>4. e.id = FreshId /\ e.on = i /\ e.qty = qty
  BY <1>2
<1>5. e.id \notin RangeOf(processed) /\ \A j \in 1 .. Len(fills) : fills[j].id # e.id
  BY <1>4, FreshIdIs
<1>6. /\ IdsOK(fills', processed)
      /\ exact' => exact /\ RangeOf(fills') = RangeOf(fills) \cup {e}
  BY <1>3, <1>5, SentIds DEF MaySend, HedgeInv
<1>7. ASSUME contract', exact' PROVE hedge_qty' + HedgeInFlight' = ibkr'[HedgeLeg]
  <2> DEFINE N == NewOf(fills, processed)
  <2>1. fills \in Seq(Execs) /\ ibkr \in [Instruments -> Int] /\ hedge_qty \in Int
    BY DEF TypeOK
  <2>2. N \subseteq Execs /\ IsFiniteSet(N)
    BY <2>1, NewIs
  <2>3. Qty(N) \in Int /\ (e \notin N => Qty(N \cup {e}) = Qty(N) + e.qty)
    BY <2>2, QtyAdd
  <2>4. e \notin RangeOf(fills)
    BY <1>5 DEF RangeOf
  <2>5. NewOf(fills', processed') = IF i = HedgeLeg THEN N \cup {e} ELSE N
    BY <1>4, <1>5, <1>6, <1>7, <2>4 DEF NewOf
  <2>6. e \notin N
    BY <2>4 DEF NewOf
  <2>7. hedge_qty + Qty(N) = ibkr[HedgeLeg]
    BY <1>6, <1>7, InFlightIs DEF HedgeInv, HedgeConserved
  <2>8. HedgeInFlight' = Qty(NewOf(fills', processed'))
    BY DEF HedgeInFlight, Qty, NewOf
  <2> HIDE DEF N
  <2>9. CASE i = HedgeLeg
    <3>1. ibkr'[HedgeLeg] = ibkr[HedgeLeg] + qty
      BY <1>3, <2>1, <2>9
    <3>2. HedgeInFlight' = Qty(N) + qty
      BY <1>4, <2>3, <2>5, <2>6, <2>8, <2>9
    <3> QED
      BY <2>1, <2>3, <2>7, <3>1, <3>2
  <2>10. CASE i # HedgeLeg
    <3>1. ibkr'[HedgeLeg] = ibkr[HedgeLeg]
      BY <1>3, <2>1, <2>10 DEF Instruments
    <3>2. HedgeInFlight' = Qty(N)
      BY <2>5, <2>8, <2>10
    <3> QED
      BY <2>7, <3>1, <3>2
  <2> QED
    BY <2>9, <2>10
<1> QED
  BY <1>6, <1>7 DEF HedgeInv, HedgeConserved

\* What is to be applied stays the same.
LEMMA SameNewKeepsHedge ==
    ASSUME HedgeInv, IdsOK(fills', processed'), exact' => exact, contract' = contract,
           ibkr'[HedgeLeg] = ibkr[HedgeLeg], (contract /\ exact') => hedge_qty' = hedge_qty,
           (contract /\ exact') => NewOf(fills', processed') = NewOf(fills, processed)
    PROVE  HedgeInv'
<1>1. HedgeInFlight' = Qty(NewOf(fills', processed'))
  BY DEF HedgeInFlight, Qty, NewOf
<1>2. (contract /\ exact') => HedgeInFlight' = HedgeInFlight
  BY <1>1, InFlightIs
<1> HIDE DEF HedgeInFlight
<1>3. HedgeConserved'
  BY <1>2 DEF HedgeInv, HedgeConserved
<1> QED
  BY <1>3 DEF HedgeInv

\* The last execution again.
LEMMA RepeatKeepsHedge ==
    ASSUME TypeOK, HedgeInv, RepeatFill
    PROVE  HedgeInv'
<1>1. /\ fills # << >> /\ fills \in Seq(Execs) /\ SendFill(fills[Len(fills)])
      /\ UNCHANGED << ibkr, hedge_qty, processed, contract >>
  BY DEF RepeatFill, TypeOK, gatewayVars, hedgeVars
<1>2. Len(fills) \in 1 .. Len(fills) /\ fills[Len(fills)] \in Execs /\ Len(fills) # 0
  <2> HIDE DEF Execs
  <2> QED
    BY <1>1
<1>3. PICK e \in Execs : e = fills[Len(fills)]
  BY <1>2
<1>4. /\ IdsOK(fills', processed)
      /\ exact' => exact /\ RangeOf(fills') = RangeOf(fills) \cup {e}
  BY <1>1, <1>2, <1>3, SentIds DEF MaySend, HedgeInv
<1>5. e \in RangeOf(fills)
  BY <1>2, <1>3 DEF RangeOf
<1>6. exact' => NewOf(fills', processed') = NewOf(fills, processed)
  BY <1>1, <1>4, <1>5 DEF NewOf
<1> QED
  BY <1>1, <1>4, <1>6, SameNewKeepsHedge

\* pump_fills takes the head: what is left, and that the rest is in it.
LEMMA HeadGone ==
    ASSUME TypeOK, HedgeInv, fills # << >>, fills' = Tail(fills)
    PROVE  /\ Head(fills) \in Execs /\ IdsOK(fills', processed)
           /\ RangeOf(fills) = RangeOf(fills') \cup {Head(fills)}
           /\ \A x \in RangeOf(fills) : x.id = Head(fills).id => x = Head(fills)
           /\ \A x \in RangeOf(fills) : x.id \in RangeOf(processed) =>
                  Head(fills).id \in RangeOf(processed)
<1>1. fills \in Seq(Execs)
  BY DEF TypeOK
<1> HIDE DEF Execs
<1>2. /\ Len(fills') = Len(fills) - 1 /\ Head(fills) \in Execs
      /\ Head(fills) = fills[1] /\ Len(fills) \in Nat /\ Len(fills) >= 1
      /\ \A i \in 1 .. Len(fills) - 1 : fills'[i] = fills[i + 1]
  BY <1>1, TailIs
<1>3. IdsOK(fills', processed)
  BY <1>1, TailKeepsIds DEF HedgeInv
<1>4. RangeOf(fills) = RangeOf(fills') \cup {Head(fills)}
  <2>1. \A i \in 1 .. Len(fills) : i = 1 \/ (i - 1 \in 1 .. Len(fills') /\ fills'[i - 1] = fills[i])
    BY <1>2
  <2>2. \A i \in 1 .. Len(fills') : i + 1 \in 1 .. Len(fills) /\ fills'[i] = fills[i + 1]
    BY <1>2
  <2>3. 1 \in 1 .. Len(fills)
    BY <1>2
  <2>4. RangeOf(fills) \subseteq RangeOf(fills') \cup {Head(fills)}
    BY <1>2, <2>1 DEF RangeOf
  <2>5. RangeOf(fills') \subseteq RangeOf(fills)
    BY <2>2 DEF RangeOf
  <2>6. Head(fills) \in RangeOf(fills)
    BY <1>2, <2>3 DEF RangeOf
  <2> QED
    BY <2>4, <2>5, <2>6
<1>5. ASSUME NEW x \in RangeOf(fills)
      PROVE  /\ x.id = Head(fills).id => x = Head(fills)
             /\ x.id \in RangeOf(processed) => Head(fills).id \in RangeOf(processed)
  <2>1. PICK i \in 1 .. Len(fills) : fills[i] = x
    BY DEF RangeOf
  <2>2. 1 \in 1 .. Len(fills) /\ 1 \in 1 .. i
    BY <1>2, <2>1
  <2>3. fills[1].id = fills[i].id => fills[1] = fills[i]
    BY <2>1, <2>2 DEF HedgeInv, IdsOK, Runs
  <2>4. fills[i].id \in RangeOf(processed) => fills[1].id = fills[i].id
    BY <2>1, <2>2 DEF HedgeInv, IdsOK, AppliedFirst
  <2> QED
    BY <1>2, <2>1, <2>3, <2>4
<1> QED
  BY <1>2, <1>3, <1>4, <1>5

LEMMA HedgeFillKeepsHedge ==
    ASSUME TypeOK, HedgeInv, PumpHedgeFill
    PROVE  HedgeInv'
<1>1. /\ fills # << >> /\ fills' = Tail(fills) /\ Head(fills).on = HedgeLeg
      /\ apply_broker_fill(Head(fills))
      /\ UNCHANGED << ibkr, exact, contract >>
  BY DEF PumpHedgeFill, gatewayVars, envVars
<1>2. PICK e \in Execs : e = Head(fills)
  BY <1>1, HeadGone
<1>3. /\ IdsOK(fills', processed) /\ RangeOf(fills) = RangeOf(fills') \cup {e}
      /\ \A x \in RangeOf(fills) : x.id = e.id => x = e
      /\ \A x \in RangeOf(fills) : x.id \in RangeOf(processed) => e.id \in RangeOf(processed)
  BY <1>1, <1>2, HeadGone
<1>4. \/ UNCHANGED << hedge_qty, processed >> /\ (~contract \/ e.id \in RangeOf(processed))
      \/ /\ hedge_qty' = hedge_qty + e.qty /\ e.id \notin RangeOf(processed)
         /\ e.id \in RangeOf(processed')
         /\ RangeOf(processed') \subseteq RangeOf(processed) \cup {e.id}
  BY <1>1, <1>2, AppliedIs
<1>5. e.on = HedgeLeg
  BY <1>1, <1>2
<1>6. CASE UNCHANGED << hedge_qty, processed >> /\ (~contract \/ e.id \in RangeOf(processed))
  <2>1. contract => NewOf(fills', processed') = NewOf(fills, processed)
    BY <1>3, <1>6 DEF NewOf
  <2> QED
    BY <1>1, <1>3, <1>6, <2>1, SameNewKeepsHedge
<1>7. CASE /\ hedge_qty' = hedge_qty + e.qty /\ e.id \notin RangeOf(processed)
           /\ e.id \in RangeOf(processed')
           /\ RangeOf(processed') \subseteq RangeOf(processed) \cup {e.id}
  <2> DEFINE M == NewOf(fills', processed')
             N == NewOf(fills, processed)
  <2>1. N = M \cup {e} /\ e \notin M
    BY <1>3, <1>5, <1>7 DEF NewOf
  <2>2. M \subseteq Execs /\ IsFiniteSet(M)
    <3>1. fills' \in Seq(Execs)
      BY TypeStep DEF TypeOK, Next, Pump
    <3> QED
      BY <3>1, NewIs
  <2>3. Qty(M) \in Int /\ Qty(M \cup {e}) = Qty(M) + e.qty
    BY <2>1, <2>2, QtyAdd
  <2>4. HedgeInFlight = Qty(N) /\ HedgeInFlight' = Qty(M)
    BY DEF HedgeInFlight, Qty, NewOf
  <2> HIDE DEF M, N, HedgeInFlight
  <2>5. hedge_qty \in Int /\ e.qty \in Int
    BY DEF TypeOK, Execs
  <2>6. HedgeConserved'
    BY <1>1, <1>7, <2>1, <2>3, <2>4, <2>5 DEF HedgeInv, HedgeConserved
  <2>7. IdsOK(fills', processed')
    <3>1. Runs(fills')
      BY <1>3 DEF IdsOK
    <3>2. ASSUME NEW i \in 1 .. Len(fills'), fills'[i].id \in RangeOf(processed'),
                 NEW j \in 1 .. i
          PROVE  fills'[j].id = fills'[i].id
      <4>1. fills'[i] \in RangeOf(fills')
        BY DEF RangeOf
      <4>2. fills'[i] \in RangeOf(fills) /\ fills'[i].id = e.id
        BY <1>3, <1>7, <3>2, <4>1
      <4> DEFINE n == Len(fills)
      <4>3. /\ fills \in Seq(Execs) /\ Len(fills') = n - 1 /\ n \in Nat
            /\ e = fills[1] /\ \A k \in 1 .. n - 1 : fills'[k] = fills[k + 1]
        <5>1. fills \in Seq(Execs)
          BY DEF TypeOK
        <5> HIDE DEF Execs
        <5> QED
          BY <1>1, <1>2, <5>1, TailIs
      <4> HIDE DEF n
      <4>4. /\ i \in 1 .. n - 1 /\ j \in 1 .. n - 1
            /\ 1 \in 1 .. n /\ i + 1 \in 1 .. n /\ j + 1 \in 1 .. i + 1
        BY <4>3
      <4>5. \A k \in 1 .. i + 1 : fills[k].id = fills[1].id
        <5>1. fills[1].id = fills[i + 1].id
          BY <4>2, <4>3, <4>4
        <5> QED
          BY <4>4, <5>1 DEF HedgeInv, IdsOK, Runs, n
      <4> QED
        BY <4>2, <4>3, <4>4, <4>5
    <3>3. AppliedFirst(fills', processed')
      BY <3>2 DEF AppliedFirst
    <3> QED
      BY <3>1, <3>3 DEF IdsOK
  <2> QED
    BY <2>6, <2>7 DEF HedgeInv
<1> QED
  BY <1>4, <1>6, <1>7

LEMMA OptionFillKeepsHedge ==
    ASSUME TypeOK, HedgeInv, PumpOptionFill
    PROVE  HedgeInv'
<1>1. /\ fills # << >> /\ fills' = Tail(fills) /\ Head(fills).on \in Options
      /\ UNCHANGED << ibkr, hedge_qty, processed, exact, contract >>
  BY DEF PumpOptionFill, gatewayVars, hedgeVars, envVars
<1>2. IdsOK(fills', processed) /\ RangeOf(fills) = RangeOf(fills') \cup {Head(fills)}
  BY <1>1, HeadGone
<1>3. Head(fills).on # HedgeLeg
  BY <1>1, HedgeAssumption
<1>4. NewOf(fills', processed') = NewOf(fills, processed)
  BY <1>1, <1>2, <1>3 DEF NewOf
<1> QED
  BY <1>1, <1>2, <1>4, SameNewKeepsHedge

LEMMA HedgeInvStep ==
    ASSUME TypeOK, HedgeInv, [Next]_vars
    PROVE  HedgeInv'
<1>0. HedgeLeg \in Instruments /\ Options \subseteq Instruments
  BY DEF Instruments
<1>1. ASSUME NEW o \in Options, NEW qty \in TradeQtys, OptionTrade(o, qty) PROVE HedgeInv'
  <2>1. qty \in Int /\ Report(o, qty) /\ UNCHANGED << hedge_qty, processed, contract >>
    BY <1>1, HedgeAssumption DEF OptionTrade, hedgeVars
  <2> QED
    BY <1>0, <2>1, ReportKeepsHedge
<1>2. CASE FillOldestOrder
  <2>1. PICK qty \in Int : /\ Report(HedgeLeg, qty)
                           /\ UNCHANGED << cache, book, greeks, hedgeVars, contract, marks, pump, per >>
    BY <1>2, FillOrderIs
  <2>2. UNCHANGED << hedge_qty, processed, contract >>
    BY <2>1 DEF hedgeVars
  <2> QED
    BY <1>0, <2>1, <2>2, ReportKeepsHedge
<1>3. CASE RepeatFill
  BY <1>3, RepeatKeepsHedge
<1>4. CASE PumpHedgeFill
  BY <1>4, HedgeFillKeepsHedge
<1>5. CASE PumpOptionFill
  BY <1>5, OptionFillKeepsHedge
<1>6. CASE PeriodicReconcileHedge
  <2>1. /\ exact' = (exact /\ hedge_qty' = hedge_qty)
        /\ UNCHANGED << ibkr, fills, processed, contract >>
    BY <1>6 DEF PeriodicReconcileHedge, gatewayVars, channelVars, envVars
  <2> QED
    BY <2>1, SameNewKeepsHedge DEF HedgeInv
<1>7. CASE UNCHANGED << ibkr, fills, processed, hedge_qty, exact, contract >>
  BY <1>7, SameNewKeepsHedge DEF HedgeInv
<1>8. CASE \/ MissOrder \/ (\E i \in Instruments : PositionMsg(i))
           \/ (\E m \in {"hedge", "underlying"} : MarkArrives(m)) \/ RefreshGreeks
  BY <1>7, <1>8 DEF MissOrder, PositionMsg, MarkArrives, RefreshGreeks, gatewayVars, channelVars,
                    stateVars, hedgeVars, envVars
<1>9. CASE PumpLagged \/ PumpResync \/ PumpRebalance \/ PumpPlace
  BY <1>7, <1>9 DEF PumpLagged, PumpResync, PumpRebalance, PumpPlace, gatewayVars, channelVars,
                    stateVars, hedgeVars, envVars
<1>10. CASE Tick \/ PeriodicReconcileOptions \/ PeriodicRebalance \/ PeriodicPlace
  BY <1>7, <1>10 DEF Tick, PeriodicReconcileOptions, PeriodicRebalance, PeriodicPlace,
                     gatewayVars, channelVars, stateVars, hedgeVars, envVars
<1>11. CASE UNCHANGED vars
  BY <1>7, <1>11 DEF vars, gatewayVars, channelVars, stateVars, hedgeVars, envVars
<1> QED
  BY <1>1, <1>2, <1>3, <1>4, <1>5, <1>6, <1>8, <1>9, <1>10, <1>11
     DEF Next, Gateway, Pump, Periodic

LEMMA HedgeInvInit ==
    ASSUME Init
    PROVE  HedgeInv
<1>1. /\ fills = << >> /\ hedge_qty = ibkr[HedgeLeg]
  BY DEF Init
<1>2. hedge_qty \in Int
  BY TypeInit DEF TypeOK
<1>3. IdsOK(fills, processed)
  BY <1>1 DEF IdsOK, Runs, AppliedFirst
<1>4. NewOf(fills, processed) = {}
  BY <1>1 DEF NewOf, RangeOf
<1>5. HedgeInFlight = 0
  <2>1. {} \subseteq Execs /\ IsFiniteSet({})
    BY FS_EmptySet
  <2>2. Qty({}) = 0
    BY <2>1, QtyAdd
  <2> QED
    BY <1>4, <2>2, InFlightIs
<1> HIDE DEF HedgeInFlight
<1> QED
  BY <1>1, <1>2, <1>3, <1>5 DEF HedgeInv, HedgeConserved

\* apply_broker_fill loses and doubles no execution of the hedge leg, for every
\* capacity of the channel and of processed_exec_ids, however fills, repeats,
\* reconciles and rebalances interleave: the quantity and what is on its way
\* make up the gateway's position until a fill is missed or a reconcile
\* replaces it.
THEOREM HedgeConservedAlways == Spec => []HedgeConserved
<1>1. Init => TypeOK /\ HedgeInv
  BY TypeInit, HedgeInvInit
<1>2. TypeOK /\ HedgeInv /\ [Next]_vars => (TypeOK /\ HedgeInv)'
  BY TypeStep, HedgeInvStep
<1>3. HedgeInv => HedgeConserved
  BY DEF HedgeInv
<1> QED
  BY <1>1, <1>2, <1>3, PTL DEF Spec
=============================================================================
