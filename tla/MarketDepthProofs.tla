------------------------- MODULE MarketDepthProofs -------------------------
(***************************************************************************)
(* Proofs about MarketDepth, for every set of legs, every number of rows   *)
(* and of depth lines, and every bound.                                    *)
(***************************************************************************)
EXTENDS MarketDepth, TLAPS, FiniteSetTheorems, SequenceTheorems, WellFoundedInduction

Update == [op : 0 .. 2, pos : 0 .. Rows - 1, price : Prices]

DepthTypeOK ==
    /\ und \in Spots /\ quoted \subseteq Legs /\ iter \in Orders
    /\ cursor \in Nat
    /\ todo \in [cancel : Seq(Legs), add : Seq(Legs)]
    /\ active \in [Legs -> Req \union {NoReq}]
    /\ routes \in [Req -> Legs \union {0}]
    /\ wire \in Seq([req : Req, u : Update]) /\ Len(wire) <= MaxWire
    /\ chan \in Seq([leg : Legs, u : Update])
    /\ ibkr \in [Req -> Seq(Prices) \union {NotStreamed}]
    /\ link \in BOOLEAN /\ synced \in [Legs -> BOOLEAN]

\* The legs the rotator holds a handle of.
Held == {l \in Legs : active[l] # NoReq}

\* Cancels are of held legs, each once, that are not wanted; the next leg to
\* add has no handle.
WorkOK ==
    /\ \A i \in DOMAIN todo.cancel : active[todo.cancel[i]] # NoReq
    /\ \A i, j \in DOMAIN todo.cancel : todo.cancel[i] = todo.cancel[j] => i = j
    /\ \A i \in DOMAIN todo.cancel, j \in DOMAIN todo.add :
           todo.cancel[i] # todo.add[j]
    /\ todo.add # <<>> => active[Head(todo.add)] = NoReq

\* What is held at any time, and what will be once the cancels are done and the
\* adds succeeded, fits into MAX_ACTIVE.
LimitOK ==
    /\ Cardinality(Held) <= MaxActive
    /\ Cardinality((Held \ Range(todo.cancel)) \union Range(todo.add)) <= MaxActive

\* A handle's request is its own and is routed to its leg; nothing else is
\* routed, and nothing is streamed that is not routed.
RequestsOK ==
    /\ \A l \in Legs : active[l] # NoReq => routes[active[l]] = l
    /\ RoutesOwned
    /\ \A r \in Req : ibkr[r] # NotStreamed => routes[r] # 0

DepthInv == DepthTypeOK /\ WorkOK /\ LimitOK /\ RequestsOK

-----------------------------------------------------------------------------
(* The order of the candidates.                                            *)

\* Each leg has a place of its own in the map's iteration order.
LEMMA PlaceOf ==
    ASSUME iter \in Orders, NEW l \in Legs
    PROVE  Place(l) \in Nat /\ iter[Place(l)] = l
<1> DEFINE D == 1 .. Cardinality(Legs)
<1>1. /\ iter \in [D -> Legs]
      /\ \A i, j \in D : i # j => iter[i] # iter[j]
  BY DepthAssumption DEF SetToSeqs
<1>2. Cardinality(Legs) \in Nat
  BY DepthAssumption, FS_CardinalityType
<1>3. IsFiniteSet(D) /\ Cardinality(D) = Cardinality(Legs)
  BY <1>2, FS_Interval
<1> HIDE DEF D
<1>4. iter \in Injection(D, Legs)
  BY <1>1 DEF Injection, IsInjective
<1>5. iter \in Surjection(D, Legs)
  BY <1>3, <1>4, DepthAssumption, FS_Injection
<1>6. \E i \in D : iter[i] = l
  BY <1>5 DEF Surjection
<1>7. DOMAIN iter = D
  BY <1>1
<1>8. Place(l) \in D /\ iter[Place(l)] = l
  BY <1>6, <1>7 DEF Place
<1> QED
  BY <1>2, <1>8 DEF D

LEMMA DistType ==
    ASSUME DepthTypeOK, NEW l \in Legs
    PROVE  Dist(l) \in Int
BY DepthAssumption DEF Dist, DepthTypeOK

\* NoFurther is a total order of the legs.
LEMMA NoFurtherOrder ==
    ASSUME DepthTypeOK, NEW j \in Legs, NEW k \in Legs, NEW l \in Legs
    PROVE  /\ NoFurther(j, j)
           /\ NoFurther(j, k) \/ NoFurther(k, j)
           /\ NoFurther(j, k) /\ NoFurther(k, j) => j = k
           /\ NoFurther(j, k) /\ NoFurther(k, l) => NoFurther(j, l)
<1>1. /\ Dist(j) \in Int /\ Dist(k) \in Int /\ Dist(l) \in Int
      /\ Place(j) \in Nat /\ Place(k) \in Nat /\ Place(l) \in Nat
  BY DistType, PlaceOf DEF DepthTypeOK
<1>2. Place(j) = Place(k) => j = k
  BY PlaceOf DEF DepthTypeOK
<1> QED
  BY <1>1, <1>2 DEF NoFurther

\* A leg further away has more legs before it.
LEMMA RankGrows ==
    ASSUME DepthTypeOK, NEW k \in quoted, NEW l \in quoted, NoFurther(k, l), k # l
    PROVE  Rank(k) < Rank(l)
<1> DEFINE K == {x \in quoted : NoFurther(x, k)}
           L == {x \in quoted : NoFurther(x, l)}
<1>1. quoted \subseteq Legs /\ IsFiniteSet(quoted)
  BY DepthAssumption, FS_Subset DEF DepthTypeOK
<1>2. K \subseteq L
  BY <1>1, NoFurtherOrder
<1>3. l \in L /\ l \notin K
  BY <1>1, NoFurtherOrder
<1>4. IsFiniteSet(L) /\ L \subseteq quoted
  BY <1>1, FS_Subset
<1> HIDE DEF K, L
<1>5. /\ IsFiniteSet(K)
      /\ Cardinality(K) <= Cardinality(L) /\ Cardinality(K) # Cardinality(L)
  BY <1>2, <1>3, <1>4, FS_Subset
<1>6. Cardinality(K) \in Nat /\ Cardinality(L) \in Nat
  BY <1>4, <1>5, FS_CardinalityType
<1>7. Cardinality(K) < Cardinality(L)
  BY <1>5, <1>6
<1> QED
  BY <1>7 DEF Rank, K, L

\* The candidates are the legs with a market, each at its rank.
LEMMA CandidatesAre ==
    ASSUME DepthTypeOK
    PROVE  /\ Candidates \in Seq(Legs)
           /\ Len(Candidates) = Cardinality(quoted)
           /\ \A n \in DOMAIN Candidates :
                  Candidates[n] \in quoted /\ Rank(Candidates[n]) = n
           /\ \A l \in quoted : Rank(l) \in DOMAIN Candidates
                                /\ Candidates[Rank(l)] = l
<1> DEFINE D == 1 .. Cardinality(quoted)
           f == [l \in quoted |-> Rank(l)]
<1>1. quoted \subseteq Legs /\ IsFiniteSet(quoted)
  BY DepthAssumption, FS_Subset DEF DepthTypeOK
<1>2. Cardinality(quoted) \in Nat
  BY <1>1, FS_CardinalityType
<1>3. ASSUME NEW l \in quoted PROVE Rank(l) \in D
  <2> DEFINE L == {x \in quoted : NoFurther(x, l)}
  <2>1. L \subseteq quoted /\ l \in L
    BY <1>1, NoFurtherOrder
  <2> HIDE DEF L
  <2>2. IsFiniteSet(L) /\ Cardinality(L) <= Cardinality(quoted) /\ Cardinality(L) # 0
    BY <1>1, <2>1, FS_Subset, FS_EmptySet
  <2>3. Cardinality(L) \in Nat
    BY <2>2, FS_CardinalityType
  <2>4. Cardinality(L) \in D
    BY <1>2, <2>2, <2>3
  <2> QED
    BY <2>4 DEF Rank, L
<1>4. ASSUME NEW k \in quoted, NEW l \in quoted, Rank(k) = Rank(l) PROVE k = l
  <2>1. Rank(k) \in Nat
    BY <1>2, <1>3
  <2>2. NoFurther(k, l) \/ NoFurther(l, k)
    BY <1>1, NoFurtherOrder
  <2> QED
    BY <1>4, <2>1, <2>2, RankGrows
<1>5. IsFiniteSet(D) /\ Cardinality(D) = Cardinality(quoted)
  BY <1>2, FS_Interval
<1> HIDE DEF D
<1>6. f \in Injection(quoted, D)
  BY <1>3, <1>4 DEF Injection, IsInjective
<1>7. f \in Surjection(quoted, D)
  BY <1>5, <1>6, FS_Injection
<1>8. \A n \in D : \E l \in quoted : Rank(l) = n
  BY <1>7 DEF Surjection
<1>9. \A n \in D : Candidates[n] \in quoted /\ Rank(Candidates[n]) = n
  BY <1>8 DEF Candidates, D
<1>10. Candidates \in [D -> Legs]
  BY <1>1, <1>8 DEF Candidates, D
<1>11. Candidates \in Seq(Legs) /\ Len(Candidates) = Cardinality(quoted) /\ DOMAIN Candidates = D
  BY <1>2, <1>10 DEF D
<1> QED
  BY <1>3, <1>4, <1>9, <1>11

-----------------------------------------------------------------------------
(* The work of a cycle.                                                    *)

\* The cursor stays in the pool, the legs chosen are at most MAX_ACTIVE.
LEMMA ChosenAre ==
    ASSUME DepthTypeOK
    PROVE  /\ NextCursor(Candidates) \in Nat
           /\ Chosen(Candidates) \in Seq(Legs)
           /\ Len(Chosen(Candidates)) <= MaxActive
<1> DEFINE c == Candidates
           n == Len(Pool(c))
           f == Len(Fixed(c))
           t == Take(RotateSlots, n)
           rot == [i \in 1 .. t |-> Pool(c)[(((cursor % n) + (i - 1)) % n) + 1]]
<1>1. c \in Seq(Legs)
  BY CandidatesAre
<1>2. /\ FixedNearest \in Nat /\ MaxActive \in Nat /\ RotateSlots \in Nat
      /\ FixedNearest + RotateSlots = MaxActive /\ cursor \in Nat
  BY DepthAssumption DEF RotateSlots, DepthTypeOK
<1> HIDE DEF c
<1>3. Fixed(c) \in Seq(Legs) /\ f \in Nat /\ f <= FixedNearest
  BY <1>1, <1>2 DEF Fixed, Take
<1>4. Pool(c) \in Seq(Legs) /\ n \in Nat
  BY <1>1, <1>2 DEF Pool
<1>5. t \in 0 .. RotateSlots /\ t <= n
  BY <1>2, <1>4 DEF Take
<1> HIDE DEF n
<1>6. ASSUME NEW i \in 1 .. t
      PROVE  Pool(c)[(((cursor % n) + (i - 1)) % n) + 1] \in Legs
  <2>1. n > 0
    BY <1>4, <1>5
  <2>2. cursor % n \in 0 .. n - 1
    BY <1>2, <1>4, <2>1
  <2>3. (cursor % n) + (i - 1) \in Nat
    BY <1>4, <1>5, <2>2
  <2>4. ((cursor % n) + (i - 1)) % n \in 0 .. n - 1
    BY <1>4, <2>1, <2>3
  <2> QED
    BY <1>4, <2>4 DEF n
<1>7. rot \in Seq(Legs) /\ Len(rot) = t
  <2>1. rot \in [1 .. t -> Legs] /\ t \in Nat
    BY <1>5, <1>6
  <2> HIDE DEF rot, t
  <2> QED
    BY <2>1
<1>8. Chosen(c) = Fixed(c) \o rot
  BY DEF Chosen, n
<1> HIDE DEF rot, t, f
<1>9. Chosen(c) \in Seq(Legs) /\ Len(Chosen(c)) = f + t
  BY <1>3, <1>7, <1>8 DEF f
<1>10. Len(Chosen(c)) <= MaxActive
  BY <1>2, <1>3, <1>5, <1>9
<1>11. NextCursor(c) \in Nat
  <2>1. CASE n = 0
    BY <1>2, <2>1 DEF NextCursor, n
  <2>2. CASE n # 0
    <3>1. NextCursor(c) = (cursor + t) % n
      BY <2>2 DEF NextCursor, n, t
    <3> QED
      BY <1>2, <1>4, <1>5, <2>2, <3>1
  <2> QED
    BY <2>1, <2>2
<1> QED
  BY <1>9, <1>10, <1>11 DEF c

\* As many legs as entries, at most.
LEMMA RangeBound ==
    ASSUME NEW s \in Seq(Legs)
    PROVE  Range(s) \subseteq Legs /\ Cardinality(Range(s)) <= Len(s)
<1>1. s \in [1 .. Len(s) -> Range(s)] /\ Range(s) \subseteq Legs /\ Len(s) \in Nat
  BY DEF Range
<1>2. s \in Surjection(1 .. Len(s), Range(s))
  BY <1>1 DEF Surjection, Range
<1>3. ExistsSurjection(1 .. Len(s), Range(s))
  BY <1>2 DEF ExistsSurjection
<1> QED
  BY <1>1, <1>3, FS_SurjCardinalityBound

LEMMA LeastNatural ==
    ASSUME NEW T, T \subseteq Nat, T # {}
    PROVE  \E x \in T : \A y \in T : x <= y
<1> DEFINE R == {p \in Nat \X Nat : p[1] < p[2]}
<1>1. IsWellFoundedOn(R, Nat)
  BY NatLessThanWellFounded DEF OpToRel
<1> HIDE DEF R
<1>2. PICK x \in T : \A y \in T : ~(<<y, x>> \in R)
  BY <1>1, WFMin
<1>3. ASSUME NEW y \in T PROVE x <= y
  <2>1. x \in Nat /\ y \in Nat /\ ~(<<y, x>> \in R)
    BY <1>2
  <2>2. y < x => <<y, x>> \in R
    BY <2>1 DEF R
  <2> QED
    BY <2>1, <2>2
<1> QED
  BY <1>2, <1>3

\* NotYet leaves out only legs at the front that have a handle.
LEMMA NotYetIs ==
    ASSUME NEW s \in Seq(Legs), NEW held \in [Legs -> Req \union {NoReq}]
    PROVE  /\ NotYet(s, held) \in Seq(Legs)
           /\ Range(NotYet(s, held)) \subseteq Range(s)
           /\ NotYet(s, held) # <<>> => held[Head(NotYet(s, held))] = NoReq
           /\ \A i \in DOMAIN s : held[s[i]] = NoReq => s[i] \in Range(NotYet(s, held))
<1> DEFINE P(i) == /\ i <= Len(s) => held[s[i]] = NoReq
                   /\ \A j \in 1 .. i - 1 : held[s[j]] # NoReq
           T == {i \in 1 .. Len(s) + 1 : i <= Len(s) => held[s[i]] = NoReq}
           first == CHOOSE i \in 1 .. Len(s) + 1 : P(i)
<1>0. Len(s) \in Nat
  OBVIOUS
<1>1. T \subseteq Nat /\ Len(s) + 1 \in T
  BY <1>0
<1>2. PICK x \in T : \A y \in T : x <= y
  <2> HIDE DEF T
  <2> QED
    BY <1>1, LeastNatural
<1>3. x \in 1 .. Len(s) + 1 /\ P(x)
  <2>1. ASSUME NEW j \in 1 .. x - 1 PROVE held[s[j]] # NoReq
    <3>1. j \in 1 .. Len(s) + 1 /\ ~(x <= j) /\ j <= Len(s)
      BY <1>0, <1>2
    <3>2. j \notin T
      <4> HIDE DEF T
      <4> QED
        BY <1>2, <3>1
    <3> QED
      BY <3>1, <3>2
  <2> QED
    BY <1>2, <2>1
<1> HIDE DEF P
<1>4. first \in 1 .. Len(s) + 1 /\ P(first)
  BY <1>3
<1>5. NotYet(s, held) = SubSeq(s, first, Len(s))
  BY DEF NotYet, P
<1> HIDE DEF first
<1>6. /\ NotYet(s, held) \in Seq(Legs)
      /\ Len(NotYet(s, held)) = Len(s) + 1 - first
      /\ \A i \in 1 .. Len(s) + 1 - first : NotYet(s, held)[i] = s[first + i - 1]
  BY <1>0, <1>4, <1>5
<1>7. Range(NotYet(s, held)) \subseteq Range(s)
  BY <1>0, <1>4, <1>6 DEF Range
<1>8. ASSUME NotYet(s, held) # <<>> PROVE held[Head(NotYet(s, held))] = NoReq
  <2>1. first <= Len(s) /\ NotYet(s, held)[1] = s[first]
    BY <1>0, <1>4, <1>6, <1>8
  <2>2. Head(NotYet(s, held)) = s[first]
    BY <1>6, <1>8, <2>1
  <2> QED
    BY <1>4, <2>1, <2>2 DEF P
<1>9. ASSUME NEW i \in DOMAIN s, held[s[i]] = NoReq
      PROVE  s[i] \in Range(NotYet(s, held))
  <2>1. i \in 1 .. Len(s) /\ ~(i \in 1 .. first - 1)
    BY <1>4, <1>9 DEF P
  <2>2. i - first + 1 \in 1 .. Len(s) + 1 - first /\ first + (i - first + 1) - 1 = i
    BY <1>0, <1>4, <2>1
  <2>3. i - first + 1 \in DOMAIN NotYet(s, held) /\ NotYet(s, held)[i - first + 1] = s[i]
    BY <1>6, <2>2
  <2> QED
    BY <2>3 DEF Range
<1> QED
  BY <1>6, <1>7, <1>8, <1>9

\* Each element of a finite set once.
LEMMA SetToSeqIs ==
    ASSUME NEW S, IsFiniteSet(S)
    PROVE  /\ SetToSeq(S) \in Seq(S)
           /\ Range(SetToSeq(S)) = S
           /\ \A i, j \in DOMAIN SetToSeq(S) : SetToSeq(S)[i] = SetToSeq(S)[j] => i = j
<1> DEFINE D == 1 .. Cardinality(S)
           g == SetToSeq(S)
<1>1. Cardinality(S) \in Nat /\ ExistsBijection(D, S)
  BY FS_CardinalityType
<1>2. IsFiniteSet(D) /\ Cardinality(D) = Cardinality(S)
  BY <1>1, FS_Interval
<1> HIDE DEF D
<1>3. \E f \in [D -> S] : IsInjective(f)
  BY <1>1 DEF ExistsBijection, Bijection, Injection, IsInjective
<1>4. g \in [D -> S] /\ IsInjective(g)
  BY <1>3 DEF SetToSeq, D
<1> HIDE DEF g
<1>5. g \in Surjection(D, S)
  BY <1>2, <1>4, FS_Injection DEF Injection, IsInjective
<1>6. Range(g) = S
  BY <1>4, <1>5 DEF Surjection, Range
<1>7. g \in Seq(S)
  BY <1>1, <1>4 DEF D
<1> QED
  BY <1>4, <1>6, <1>7 DEF IsInjective, g

-----------------------------------------------------------------------------
(* Request ids.                                                            *)

LEMMA ImageBound ==
    ASSUME NEW S, IsFiniteSet(S), NEW f, DOMAIN f = S
    PROVE  /\ IsFiniteSet({f[x] : x \in S})
           /\ Cardinality({f[x] : x \in S}) <= Cardinality(S)
<1> DEFINE T == {f[x] : x \in S}
           g == [x \in S |-> f[x]]
<1>1. g \in Surjection(S, T)
  BY DEF Surjection
<1> HIDE DEF T, g
<1> QED
  BY <1>1, FS_Surjection DEF T

\* There are always more request ids than requests that anything mentions.
LEMMA FreshReqIs ==
    ASSUME DepthInv
    PROVE  /\ FreshReq \in Req /\ routes[FreshReq] = 0 /\ ibkr[FreshReq] = NotStreamed
           /\ \A l \in Legs : active[l] # FreshReq
           /\ \A i \in DOMAIN wire : wire[i].req # FreshReq
<1> DEFINE OfLegs == {active[l] : l \in Held}
           reqs == [i \in DOMAIN wire |-> wire[i].req]
           OnWire == {reqs[i] : i \in DOMAIN wire}
           Free(r) == /\ routes[r] = 0 /\ ibkr[r] = NotStreamed
                      /\ \A l \in Legs : active[l] # r
                      /\ \A i \in DOMAIN wire : wire[i].req # r
<1>1. DepthTypeOK /\ LimitOK /\ RequestsOK
  BY DEF DepthInv
<1>2. MaxActive \in Nat /\ MaxWire \in Nat /\ IsFiniteSet(Legs)
  BY DepthAssumption
<1>3. IsFiniteSet(OfLegs) /\ Cardinality(OfLegs) <= MaxActive /\ Cardinality(OfLegs) \in Nat
  <2> DEFINE f == [l \in Held |-> active[l]]
             T == {f[l] : l \in Held}
  <2>1. IsFiniteSet(Held)
    BY <1>2, FS_Subset DEF Held
  <2>2. DOMAIN f = Held
    OBVIOUS
  <2>3. IsFiniteSet(T) /\ Cardinality(T) <= Cardinality(Held)
    <3> HIDE DEF f
    <3> QED
      BY <2>1, <2>2, ImageBound
  <2>4. T = OfLegs
    OBVIOUS
  <2>5. Cardinality(Held) \in Nat /\ Cardinality(OfLegs) \in Nat
    BY <2>1, <2>3, <2>4, FS_CardinalityType
  <2> QED
    BY <1>1, <1>2, <2>3, <2>4, <2>5 DEF LimitOK
<1>4. IsFiniteSet(OnWire) /\ Cardinality(OnWire) <= MaxWire /\ Cardinality(OnWire) \in Nat
  <2>1. DOMAIN wire = 1 .. Len(wire) /\ Len(wire) \in Nat /\ Len(wire) <= MaxWire
    BY <1>1 DEF DepthTypeOK
  <2>2. IsFiniteSet(DOMAIN wire) /\ Cardinality(DOMAIN wire) = Len(wire)
    <3>1. /\ IsFiniteSet(1 .. Len(wire))
          /\ Cardinality(1 .. Len(wire)) = IF 1 > Len(wire) THEN 0 ELSE Len(wire) - 1 + 1
      BY <2>1, FS_Interval
    <3> QED
      BY <2>1, <3>1
  <2>3. DOMAIN reqs = DOMAIN wire
    OBVIOUS
  <2>4. IsFiniteSet(OnWire) /\ Cardinality(OnWire) <= Len(wire)
    <3> HIDE DEF reqs
    <3> QED
      BY <2>2, <2>3, ImageBound
  <2>5. Cardinality(OnWire) \in Nat
    BY <2>4, FS_CardinalityType
  <2> HIDE DEF OnWire
  <2> QED
    BY <1>2, <2>1, <2>4, <2>5
<1>5. \E r \in Req : r \notin OfLegs \union OnWire
  <2> DEFINE U == OfLegs \union OnWire
  <2> HIDE DEF OfLegs, OnWire
  <2>1. /\ IsFiniteSet(U)
        /\ Cardinality(U) = Cardinality(OfLegs) + Cardinality(OnWire)
                            - Cardinality(OfLegs \intersect OnWire)
    BY <1>3, <1>4, FS_Union
  <2>2. IsFiniteSet(OfLegs \intersect OnWire)
    BY <1>3, FS_Subset
  <2>3. Cardinality(OfLegs \intersect OnWire) \in Nat
    BY <2>2, FS_CardinalityType
  <2>4. Cardinality(U) <= MaxActive + MaxWire /\ Cardinality(U) \in Nat
    BY <1>2, <1>3, <1>4, <2>1, <2>3, FS_CardinalityType
  <2>5. IsFiniteSet(Req) /\ Cardinality(Req) = MaxActive + MaxWire + 2
    BY <1>2, FS_Interval DEF Req
  <2>6. ~(Req \subseteq U)
    <3>1. Req \subseteq U => Cardinality(Req) <= Cardinality(U)
      BY <2>1, FS_Subset
    <3> QED
      BY <1>2, <2>4, <2>5, <3>1
  <2> QED
    BY <2>6
<1>6. PICK r \in Req : r \notin OfLegs /\ r \notin OnWire
  BY <1>5
<1>7. r # NoReq
  BY <1>2, <1>6 DEF Req, NoReq
<1>8. \A l \in Legs : active[l] # r
  BY <1>6, <1>7 DEF Held
<1>9. routes[r] = 0
  BY <1>1, <1>8 DEF RequestsOK, RoutesOwned, DepthTypeOK
<1>10. Free(r)
  BY <1>1, <1>6, <1>8, <1>9 DEF RequestsOK
<1> HIDE DEF Free
<1>11. FreshReq = CHOOSE q \in Req : Free(q)
  BY DEF FreshReq, Free
<1>12. FreshReq \in Req /\ Free(FreshReq)
  BY <1>10, <1>11
<1> QED
  BY <1>12 DEF Free

\* Requests of different handles differ.
LEMMA HandlesDiffer ==
    ASSUME DepthInv, NEW k \in Legs, NEW l \in Legs, active[k] = active[l], active[k] # NoReq
    PROVE  k = l
BY DEF DepthInv, RequestsOK

-----------------------------------------------------------------------------
(* Every step keeps DepthInv.                                              *)

LEMMA CycleKeeps ==
    ASSUME DepthInv, Cycle
    PROVE  DepthInv'
<1> DEFINE s == Chosen(Candidates)
           Gone == {l \in Legs : active[l] # NoReq /\ l \notin Range(s)}
           c == SetToSeq(Gone)
           a == NotYet(s, active)
<1>1. DepthTypeOK /\ WorkOK /\ LimitOK /\ RequestsOK
  BY DEF DepthInv
<1>2. /\ todo' = [cancel |-> c, add |-> a] /\ cursor' = NextCursor(Candidates)
      /\ UNCHANGED <<market, active, routes, wire, chan, books, ibkr, link, rejects, synced>>
  BY DEF Cycle, Plan
<1>3. s \in Seq(Legs) /\ Len(s) <= MaxActive /\ cursor' \in Nat
  BY <1>1, <1>2, ChosenAre
<1> HIDE DEF s
<1>4. IsFiniteSet(Gone) /\ Gone \subseteq Legs
  BY DepthAssumption, FS_Subset
<1> HIDE DEF Gone
<1>5. /\ c \in Seq(Gone) /\ Range(c) = Gone
      /\ \A i, j \in DOMAIN c : c[i] = c[j] => i = j
  BY <1>4, SetToSeqIs
<1> HIDE DEF c
<1>6. /\ a \in Seq(Legs) /\ Range(a) \subseteq Range(s)
      /\ a # <<>> => active[Head(a)] = NoReq
  BY <1>1, <1>3, NotYetIs DEF DepthTypeOK
<1> HIDE DEF a
<1>7. c \in Seq(Legs)
  BY <1>4, <1>5
<1>8. todo'.cancel = c /\ todo'.add = a
  BY <1>2
<1>9. DepthTypeOK'
  BY <1>1, <1>2, <1>3, <1>6, <1>7 DEF DepthTypeOK, market
<1>10. WorkOK'
  <2>1. \A i \in DOMAIN c : c[i] \in Gone
    BY <1>5
  <2>2. \A j \in DOMAIN a : a[j] \in Range(s)
    BY <1>6 DEF Range
  <2>3. active' = active
    BY <1>2
  <2> QED
    BY <1>5, <1>6, <1>8, <2>1, <2>2, <2>3 DEF WorkOK, Gone
<1>11. LimitOK'
  <2>1. active' = active /\ Held' = Held
    BY <1>2 DEF Held
  <2>2. (Held \ Range(c)) \union Range(a) \subseteq Range(s)
    BY <1>5, <1>6 DEF Held, Gone
  <2>3. Range(s) \subseteq Legs /\ Cardinality(Range(s)) <= MaxActive /\ IsFiniteSet(Range(s))
    <3>1. Range(s) \subseteq Legs /\ Cardinality(Range(s)) <= Len(s)
      BY <1>3, RangeBound
    <3>2. IsFiniteSet(Range(s))
      BY <3>1, DepthAssumption, FS_Subset
    <3>3. Cardinality(Range(s)) \in Nat
      BY <3>2, FS_CardinalityType
    <3> QED
      BY <1>3, <3>1, <3>2, <3>3, DepthAssumption
  <2>4. Cardinality((Held \ Range(c)) \union Range(a)) <= MaxActive
    <3> DEFINE H == (Held \ Range(c)) \union Range(a)
    <3> HIDE DEF H
    <3>1. H \subseteq Range(s)
      BY <2>2 DEF H
    <3>2. IsFiniteSet(H) /\ Cardinality(H) <= Cardinality(Range(s))
      BY <2>3, <3>1, FS_Subset
    <3>3. Cardinality(H) \in Nat /\ Cardinality(Range(s)) \in Nat
      BY <2>3, <3>2, FS_CardinalityType
    <3>4. Cardinality(H) <= MaxActive
      BY <2>3, <3>2, <3>3, DepthAssumption
    <3> QED
      BY <3>4 DEF H
  <2> QED
    BY <1>1, <1>8, <2>1, <2>4 DEF LimitOK
<1>12. RequestsOK'
  BY <1>1, <1>2 DEF RequestsOK, RoutesOwned
<1> QED
  BY <1>9, <1>10, <1>11, <1>12 DEF DepthInv

LEMMA UnsubscribeKeeps ==
    ASSUME DepthInv, unsubscribe_market_depth
    PROVE  DepthInv'
<1> DEFINE c == todo.cancel
           l == Head(c)
           r == active[l]
<1>1. DepthTypeOK /\ WorkOK /\ LimitOK /\ RequestsOK
  BY DEF DepthInv
<1>2. /\ c # <<>>
      /\ active' = [active EXCEPT ![l] = NoReq]
      /\ routes' = [routes EXCEPT ![r] = 0]
      /\ ibkr' = [ibkr EXCEPT ![r] = NotStreamed]
      /\ todo' = [todo EXCEPT !.cancel = Tail(c)]
      /\ UNCHANGED <<market, cursor, wire, chan, books, link, rejects, history>>
  BY DEF unsubscribe_market_depth
<1>3. c \in Seq(Legs) /\ todo.add \in Seq(Legs) /\ c[1] = l /\ 1 \in DOMAIN c
  BY <1>1, <1>2 DEF DepthTypeOK
<1>4. /\ Tail(c) \in Seq(Legs) /\ DOMAIN Tail(c) = 1 .. Len(c) - 1 /\ Len(c) \in Nat
      /\ \A i \in 1 .. Len(c) - 1 : Tail(c)[i] = c[i + 1] /\ i + 1 \in DOMAIN c /\ i + 1 # 1
  BY <1>2, <1>3
<1>5. todo'.cancel = Tail(c) /\ todo'.add = todo.add
  BY <1>1, <1>2 DEF DepthTypeOK
<1> DEFINE t == Tail(c)
<1> HIDE DEF c, t
<1>6. l \in Legs /\ r \in Req /\ r # NoReq
  BY <1>1, <1>3 DEF WorkOK, DepthTypeOK, c
<1>7. /\ \A k \in Legs : active'[k] = IF k = l THEN NoReq ELSE active[k]
      /\ \A q \in Req : routes'[q] = IF q = r THEN 0 ELSE routes[q]
      /\ \A q \in Req : ibkr'[q] = IF q = r THEN NotStreamed ELSE ibkr[q]
  BY <1>1, <1>2, <1>6 DEF DepthTypeOK
<1>8. \A i \in DOMAIN t : t[i] # l
  BY <1>1, <1>3, <1>4 DEF WorkOK, c, t
<1>9. DepthTypeOK'
  <2>1. active' \in [Legs -> Req \union {NoReq}] /\ routes' \in [Req -> Legs \union {0}]
    BY <1>1, <1>2 DEF DepthTypeOK
  <2>2. ibkr' \in [Req -> Seq(Prices) \union {NotStreamed}]
    BY <1>1, <1>2 DEF DepthTypeOK
  <2>3. todo' \in [cancel : Seq(Legs), add : Seq(Legs)]
    BY <1>1, <1>2, <1>4 DEF DepthTypeOK
  <2> QED
    BY <1>1, <1>2, <2>1, <2>2, <2>3 DEF DepthTypeOK, market, history
<1>10. WorkOK'
  <2>1. \A i \in DOMAIN t : active'[t[i]] # NoReq
    BY <1>1, <1>4, <1>7, <1>8 DEF WorkOK, c, t
  <2>2. \A i, j \in DOMAIN t : t[i] = t[j] => i = j
    <3> TAKE i, j \in DOMAIN t
    <3> HAVE t[i] = t[j]
    <3>1. i \in 1 .. Len(c) - 1 /\ j \in 1 .. Len(c) - 1
      BY <1>4 DEF t
    <3>2. i + 1 = j + 1
      BY <1>1, <1>4, <3>1 DEF WorkOK, c, t
    <3> QED
      BY <1>4, <3>1, <3>2
  <2>3. \A i \in DOMAIN t, j \in DOMAIN todo.add : t[i] # todo.add[j]
    BY <1>1, <1>4 DEF WorkOK, c, t
  <2>4. todo.add # <<>> => active'[Head(todo.add)] = NoReq
    <3> HAVE todo.add # <<>>
    <3>1. Head(todo.add) \in Legs
      BY <1>3
    <3> QED
      BY <1>1, <1>7, <3>1 DEF WorkOK
  <2> QED
    BY <1>5, <2>1, <2>2, <2>3, <2>4 DEF WorkOK, t
<1>11. LimitOK'
  <2>1. Held' = Held \ {l}
    BY <1>7 DEF Held
  <2>2. Range(c) = {l} \union Range(t)
    <3>1. ASSUME NEW k \in Range(c) PROVE k \in {l} \union Range(t)
      <4>1. PICK i \in DOMAIN c : c[i] = k
        BY DEF Range
      <4>2. CASE i = 1
        BY <1>3, <4>1, <4>2
      <4>3. CASE i # 1
        <5>1. i \in 1 .. Len(c)
          BY <1>3 DEF c
        <5>2. i - 1 \in 1 .. Len(c) - 1 /\ (i - 1) + 1 = i
          BY <1>4, <4>3, <5>1
        <5>3. i - 1 \in DOMAIN t /\ t[i - 1] = k
          BY <1>4, <4>1, <5>2 DEF t
        <5> QED
          BY <5>3 DEF Range
      <4> QED
        BY <4>2, <4>3
    <3>2. l \in Range(c)
      BY <1>3 DEF Range
    <3>3. Range(t) \subseteq Range(c)
      BY <1>4 DEF Range, t
    <3> QED
      BY <3>1, <3>2, <3>3
  <2>3. Held' \ Range(t) = Held \ Range(c)
    BY <2>1, <2>2
  <2>4. IsFiniteSet(Held) /\ Held' \subseteq Held
    BY <2>1, DepthAssumption, FS_Subset DEF Held
  <2>5. IsFiniteSet(Held') /\ Cardinality(Held') <= Cardinality(Held)
    BY <2>4, FS_Subset
  <2>6. Cardinality(Held) \in Nat /\ Cardinality(Held') \in Nat
    BY <2>4, <2>5, FS_CardinalityType
  <2>7. Cardinality(Held') <= MaxActive
    BY <1>1, <2>5, <2>6, DepthAssumption DEF LimitOK
  <2> QED
    BY <1>1, <1>5, <2>3, <2>7 DEF LimitOK, c, t
<1>12. RequestsOK'
  <2>1. \A k \in Legs : active[k] = r => k = l
    BY <1>6, HandlesDiffer
  <2>2. ASSUME NEW k \in Legs, active'[k] # NoReq PROVE routes'[active'[k]] = k
    <3>1. k # l /\ active'[k] = active[k] /\ active[k] # r /\ active[k] \in Req
      BY <1>1, <1>7, <2>1, <2>2 DEF DepthTypeOK
    <3> QED
      BY <1>1, <1>7, <2>2, <3>1 DEF RequestsOK
  <2>3. ASSUME NEW q \in Req, routes'[q] # 0 PROVE active'[routes'[q]] = q
    <3>1. q # r /\ routes'[q] = routes[q] /\ routes[q] \in Legs
      BY <1>1, <1>7, <2>3 DEF DepthTypeOK
    <3>2. active[routes[q]] = q
      BY <1>1, <2>3, <3>1 DEF RequestsOK, RoutesOwned
    <3> QED
      BY <1>7, <3>1, <3>2
  <2>4. ASSUME NEW q \in Req, ibkr'[q] # NotStreamed PROVE routes'[q] # 0
    BY <1>1, <1>7, <2>4 DEF RequestsOK
  <2> QED
    BY <2>2, <2>3, <2>4 DEF RequestsOK, RoutesOwned
<1> QED
  BY <1>9, <1>10, <1>11, <1>12 DEF DepthInv

\* A set between empty and a set within the limit is within the limit.
LEMMA LimitShrinks ==
    ASSUME NEW S, NEW T, T \subseteq Legs, S \subseteq T, Cardinality(T) <= MaxActive
    PROVE  Cardinality(S) <= MaxActive
<1>1. IsFiniteSet(T)
  BY DepthAssumption, FS_Subset
<1>2. IsFiniteSet(S) /\ Cardinality(S) <= Cardinality(T)
  BY <1>1, FS_Subset
<1>3. Cardinality(S) \in Nat /\ Cardinality(T) \in Nat
  BY <1>1, <1>2, FS_CardinalityType
<1> QED
  BY <1>2, <1>3, DepthAssumption

\* What a subscription, granted or not, does to the rotator and the requests.
Subscribed(l, r) ==
    \/ /\ link
       /\ routes' = [routes EXCEPT ![r] = l]
       /\ active' = [active EXCEPT ![l] = r]
       /\ synced' = [synced EXCEPT ![l] = TRUE]
       /\ ibkr' = [ibkr EXCEPT ![r] = <<>>] \/ ibkr' = ibkr
    \/ ~link /\ UNCHANGED <<routes, active, synced, ibkr>>

LEMMA SubscribeIs ==
    ASSUME DepthInv, subscribe_market_depth
    PROVE  /\ todo.cancel = <<>> /\ todo.add # <<>> /\ todo.add \in Seq(Legs)
           /\ Head(todo.add) \in Legs /\ active[Head(todo.add)] = NoReq
           /\ Subscribed(Head(todo.add), FreshReq)
           /\ todo' = [todo EXCEPT !.add = NotYet(Tail(@), active')]
           /\ UNCHANGED <<market, cursor, wire, chan, books, link, missed>>
BY DEF subscribe_market_depth, Subscribed, DepthInv, DepthTypeOK, WorkOK

LEMMA SubscribeKeeps ==
    ASSUME DepthInv, subscribe_market_depth
    PROVE  DepthInv'
<1> DEFINE a == todo.add
           l == Head(a)
           r == FreshReq
<1>1. DepthTypeOK /\ WorkOK /\ LimitOK /\ RequestsOK
  BY DEF DepthInv
<1>2. /\ todo.cancel = <<>> /\ a # <<>> /\ a \in Seq(Legs)
      /\ l \in Legs /\ active[l] = NoReq /\ Subscribed(l, r)
      /\ todo' = [todo EXCEPT !.add = NotYet(Tail(a), active')]
      /\ UNCHANGED <<market, cursor, wire, chan, books, link, missed>>
  BY SubscribeIs
<1>3. /\ r \in Req /\ routes[r] = 0 /\ ibkr[r] = NotStreamed
      /\ \A k \in Legs : active[k] # r
  BY FreshReqIs
<1> HIDE DEF l, r
<1>4. /\ active' \in [Legs -> Req \union {NoReq}] /\ routes' \in [Req -> Legs \union {0}]
      /\ ibkr' \in [Req -> Seq(Prices) \union {NotStreamed}] /\ synced' \in [Legs -> BOOLEAN]
  <2>1. <<>> \in Seq(Prices)
    OBVIOUS
  <2>2. active' \in [Legs -> Req \union {NoReq}] /\ routes' \in [Req -> Legs \union {0}]
    <3>1. active \in [Legs -> Req \union {NoReq}] /\ routes \in [Req -> Legs \union {0}]
      BY <1>1 DEF DepthTypeOK
    <3>2. \/ active' = active /\ routes' = routes
          \/ active' = [active EXCEPT ![l] = r] /\ routes' = [routes EXCEPT ![r] = l]
      BY <1>2 DEF Subscribed
    <3> QED
      BY <1>2, <1>3, <3>1, <3>2
  <2>3. ibkr' \in [Req -> Seq(Prices) \union {NotStreamed}]
    BY <1>1, <1>2, <2>1 DEF Subscribed, DepthTypeOK
  <2>4. synced' \in [Legs -> BOOLEAN]
    BY <1>1, <1>2, Zenon DEF Subscribed, DepthTypeOK
  <2> QED
    BY <2>2, <2>3, <2>4
<1> DEFINE n == NotYet(Tail(a), active')
<1>5. Tail(a) \in Seq(Legs) /\ Range(Tail(a)) \subseteq Range(a) /\ l \in Range(a)
  BY <1>2 DEF Range, l
<1>6. /\ n \in Seq(Legs) /\ Range(n) \subseteq Range(a)
      /\ n # <<>> => active'[Head(n)] = NoReq
  <2> DEFINE ta == Tail(a)
  <2>1. ta \in Seq(Legs) /\ Range(ta) \subseteq Range(a)
    BY <1>5
  <2> HIDE DEF ta
  <2>2. PICK h : h = active'
    OBVIOUS
  <2>3. /\ NotYet(ta, h) \in Seq(Legs) /\ Range(NotYet(ta, h)) \subseteq Range(ta)
        /\ NotYet(ta, h) # <<>> => h[Head(NotYet(ta, h))] = NoReq
    BY <1>4, <2>1, <2>2, NotYetIs
  <2> QED
    BY <2>1, <2>2, <2>3 DEF ta
<1> HIDE DEF n
<1>7. todo'.cancel = <<>> /\ todo'.add = n
  BY <1>1, <1>2 DEF DepthTypeOK, n
<1>8. DepthTypeOK'
  <2>1. todo' \in [cancel : Seq(Legs), add : Seq(Legs)]
    BY <1>1, <1>2, <1>6 DEF DepthTypeOK, n
  <2> QED
    BY <1>1, <1>2, <1>4, <2>1 DEF DepthTypeOK, market
<1>9. WorkOK'
  BY <1>6, <1>7 DEF WorkOK
<1>10. LimitOK'
  <2> DEFINE W == (Held \ Range(todo.cancel)) \union Range(a)
  <2>1. Range(<<>>) = {}
    BY DEF Range
  <2>2. W = Held \union Range(a) /\ W \subseteq Legs /\ Cardinality(W) <= MaxActive
    BY <1>1, <1>2, <2>1, RangeBound DEF LimitOK, Held
  <2>3. Held' \subseteq Held \union {l}
    BY <1>1, <1>2, <1>3 DEF Subscribed, Held, DepthTypeOK
  <2> HIDE DEF W
  <2>4. Held' \subseteq W /\ (Held' \ Range(<<>>)) \union Range(n) \subseteq W
    BY <1>5, <1>6, <2>1, <2>2, <2>3
  <2>5. Cardinality(Held') <= MaxActive
    BY <2>2, <2>4, LimitShrinks
  <2>6. Cardinality((Held' \ Range(<<>>)) \union Range(n)) <= MaxActive
    <3> DEFINE H == (Held' \ Range(<<>>)) \union Range(n)
    <3> HIDE DEF H
    <3>1. H \subseteq W
      BY <2>4 DEF H
    <3>2. Cardinality(H) <= MaxActive
      BY <2>2, <3>1, LimitShrinks
    <3> QED
      BY <3>2 DEF H
  <2> QED
    BY <1>7, <2>5, <2>6 DEF LimitOK
<1>11. RequestsOK'
  <2>1. CASE ~link
    BY <1>1, <1>2, <2>1 DEF Subscribed, RequestsOK, RoutesOwned
  <2>2. CASE link
    <3>1. /\ \A k \in Legs : active'[k] = IF k = l THEN r ELSE active[k]
          /\ \A q \in Req : routes'[q] = IF q = r THEN l ELSE routes[q]
          /\ \A q \in Req : q # r => ibkr'[q] = ibkr[q]
      BY <1>1, <1>2, <1>3, <2>2 DEF Subscribed, DepthTypeOK
    <3>2. r # 0 /\ l # 0
      BY <1>2, <1>3, DepthAssumption DEF Req
    <3>3. ASSUME NEW k \in Legs, active'[k] # NoReq PROVE routes'[active'[k]] = k
      <4>1. CASE k = l
        BY <1>3, <3>1, <4>1
      <4>2. CASE k # l
        <5>1. active'[k] = active[k] /\ active[k] \in Req /\ active[k] # r
          BY <1>1, <1>3, <3>1, <3>3, <4>2 DEF DepthTypeOK
        <5> QED
          BY <1>1, <3>1, <3>3, <5>1 DEF RequestsOK
      <4> QED
        BY <4>1, <4>2
    <3>4. ASSUME NEW q \in Req, routes'[q] # 0 PROVE active'[routes'[q]] = q
      <4>1. CASE q = r
        BY <1>2, <3>1, <4>1
      <4>2. CASE q # r
        <5>1. routes'[q] = routes[q] /\ routes[q] \in Legs /\ active[routes[q]] = q /\ q # NoReq
          BY <1>1, <3>1, <3>4, <4>2, DepthAssumption
             DEF RequestsOK, RoutesOwned, DepthTypeOK, Req, NoReq
        <5>2. routes[q] # l
          BY <1>2, <5>1
        <5> QED
          BY <3>1, <5>1, <5>2
      <4> QED
        BY <4>1, <4>2
    <3>5. ASSUME NEW q \in Req, ibkr'[q] # NotStreamed PROVE routes'[q] # 0
      BY <1>1, <3>1, <3>2, <3>5 DEF RequestsOK
    <3> QED
      BY <3>3, <3>4, <3>5 DEF RequestsOK, RoutesOwned
  <2> QED
    BY <2>1, <2>2
<1> QED
  BY <1>8, <1>9, <1>10, <1>11 DEF DepthInv

-----------------------------------------------------------------------------
(* Sequences of levels.                                                    *)

LEMMA InsertIs ==
    ASSUME NEW S, NEW s \in Seq(S), NEW i \in 1 .. Len(s) + 1, NEW e \in S
    PROVE  /\ InsertAt(s, i, e) \in Seq(S) /\ Len(InsertAt(s, i, e)) = Len(s) + 1
           /\ \A j \in 1 .. Len(s) + 1 :
                  InsertAt(s, i, e)[j] = IF j < i THEN s[j] ELSE IF j = i THEN e ELSE s[j - 1]
<1> DEFINE a == SubSeq(s, 1, i - 1)
           b == SubSeq(s, i, Len(s))
           ae == a \o <<e>>
<1>0. Len(s) \in Nat /\ <<e>> \in Seq(S) /\ Len(<<e>>) = 1 /\ <<e>>[1] = e
  OBVIOUS
<1>1. a \in Seq(S) /\ Len(a) = i - 1 /\ \A j \in 1 .. i - 1 : a[j] = s[j]
  BY <1>0
<1>2. b \in Seq(S) /\ Len(b) = Len(s) + 1 - i /\ \A j \in 1 .. Len(s) + 1 - i : b[j] = s[i + j - 1]
  BY <1>0
<1> HIDE DEF a, b
<1>3. /\ ae \in Seq(S) /\ Len(ae) = i
      /\ \A j \in 1 .. i : ae[j] = IF j < i THEN s[j] ELSE e
  BY <1>0, <1>1
<1> HIDE DEF ae
<1>4. ae \o b \in Seq(S) /\ Len(ae \o b) = Len(s) + 1
  <2>1. i + (Len(s) + 1 - i) = Len(s) + 1
    BY <1>0
  <2> QED
    <3>1. ae \o b \in Seq(S) /\ Len(ae \o b) = Len(ae) + Len(b)
      BY <1>2, <1>3, ConcatProperties
    <3> QED
      BY <1>2, <1>3, <2>1, <3>1
<1>5. ASSUME NEW j \in 1 .. Len(s) + 1
      PROVE  (ae \o b)[j] = IF j < i THEN s[j] ELSE IF j = i THEN e ELSE s[j - 1]
  <2>1. CASE j <= i
    <3>1. (ae \o b)[j] = ae[j]
      BY <1>0, <1>2, <1>3, <2>1
    <3> QED
      BY <1>0, <1>3, <2>1, <3>1
  <2>2. CASE j > i
    <3>1. (ae \o b)[j] = b[j - i]
      BY <1>0, <1>2, <1>3, <2>2
    <3>2. j - i \in 1 .. Len(s) + 1 - i /\ i + (j - i) - 1 = j - 1
      BY <1>0, <2>2
    <3> QED
      BY <1>2, <2>2, <3>1, <3>2
  <2>3. j <= i \/ j > i
    OBVIOUS
  <2> QED
    BY ONLY <2>1, <2>2, <2>3
<1>6. InsertAt(s, i, e) = ae \o b
  BY DEF InsertAt, ae, a, b
<1> QED
  BY <1>4, <1>5, <1>6

LEMMA RemoveIs ==
    ASSUME NEW S, NEW s \in Seq(S), NEW i \in 1 .. Len(s)
    PROVE  /\ RemoveAt(s, i) \in Seq(S) /\ Len(RemoveAt(s, i)) = Len(s) - 1
           /\ \A j \in 1 .. Len(s) - 1 :
                  RemoveAt(s, i)[j] = IF j < i THEN s[j] ELSE s[j + 1]
<1> DEFINE a == SubSeq(s, 1, i - 1)
           b == SubSeq(s, i + 1, Len(s))
<1>0. Len(s) \in Nat
  OBVIOUS
<1>1. a \in Seq(S) /\ Len(a) = i - 1 /\ \A j \in 1 .. i - 1 : a[j] = s[j]
  BY <1>0
<1>2. b \in Seq(S) /\ Len(b) = Len(s) - i /\ \A j \in 1 .. Len(s) - i : b[j] = s[i + j]
  BY <1>0
<1> HIDE DEF a, b
<1>3. a \o b \in Seq(S) /\ Len(a \o b) = Len(s) - 1
  <2>1. (i - 1) + (Len(s) - i) = Len(s) - 1
    BY <1>0
  <2> QED
    <3>1. a \o b \in Seq(S) /\ Len(a \o b) = Len(a) + Len(b)
      BY <1>1, <1>2, ConcatProperties
    <3> QED
      BY <1>1, <1>2, <2>1, <3>1
<1>4. ASSUME NEW j \in 1 .. Len(s) - 1
      PROVE  (a \o b)[j] = IF j < i THEN s[j] ELSE s[j + 1]
  <2>1. CASE j < i
    <3>1. (a \o b)[j] = a[j]
      BY <1>0, <1>1, <1>2, <2>1
    <3> QED
      BY <1>0, <1>1, <2>1, <3>1
  <2>2. CASE j >= i
    <3>1. (a \o b)[j] = b[j - (i - 1)]
      BY <1>0, <1>1, <1>2, <2>2
    <3>2. j - (i - 1) \in 1 .. Len(s) - i /\ i + (j - (i - 1)) = j + 1
      BY <1>0, <2>2
    <3> QED
      BY <1>2, <2>2, <3>1, <3>2
  <2>3. j < i \/ j >= i
    OBVIOUS
  <2> QED
    BY ONLY <2>1, <2>2, <2>3
<1>5. RemoveAt(s, i) = a \o b
  BY DEF RemoveAt, a, b
<1> QED
  BY <1>3, <1>4, <1>5

LEMMA PrefixIs ==
    ASSUME NEW S, NEW s \in Seq(S), NEW t \in Seq(S)
    PROVE  IsPrefix(s, t) <=> /\ Len(s) <= Len(t)
                              /\ \A i \in 1 .. Len(s) : s[i] = t[i]
<1>0. Len(s) \in Nat /\ Len(t) \in Nat
  OBVIOUS
<1>1. ASSUME Len(s) <= Len(t)
      PROVE  SubSeq(s, 1, Len(s)) = SubSeq(t, 1, Len(s)) <=> \A i \in 1 .. Len(s) : s[i] = t[i]
  <2> DEFINE u == SubSeq(s, 1, Len(s))
             v == SubSeq(t, 1, Len(s))
  <2>1. u \in Seq(S) /\ Len(u) = Len(s) /\ \A i \in 1 .. Len(s) : u[i] = s[i]
    BY <1>0
  <2>2. v \in Seq(S) /\ Len(v) = Len(s) /\ \A i \in 1 .. Len(s) : v[i] = t[i]
    BY <1>0, <1>1
  <2> HIDE DEF u, v
  <2>3. u = v <=> \A i \in 1 .. Len(s) : u[i] = v[i]
    BY <2>1, <2>2, SeqEqual
  <2>4. u = v <=> \A i \in 1 .. Len(s) : s[i] = t[i]
    BY <2>1, <2>2, <2>3
  <2> QED
    BY <2>4 DEF u, v
<1> QED
  BY <1>1 DEF IsPrefix

LEMMA EmptyPrefix ==
    ASSUME NEW b \in Seq(Prices)
    PROVE  IsPrefix(<<>>, b)
<1>1. <<>> \in Seq(Prices)
  OBVIOUS
<1>2. PICK e \in Seq(Prices) : e = <<>>
  BY <1>1, Zenon
<1>3. Len(e) = 0 /\ 0 <= Len(b)
  BY <1>2
<1>4. \A i \in 1 .. Len(e) : e[i] = b[i]
  BY <1>3
<1>5. Len(e) <= Len(b)
  BY <1>3
<1>6. IsPrefix(e, b)
  BY <1>4, <1>5, PrefixIs
<1> QED
  BY <1>2, <1>6

\* Level j of a book after an update that fits it.
Level(b, u, j) ==
    CASE u.op = 0 -> IF j < u.pos + 1 THEN b[j]
                     ELSE IF j = u.pos + 1 THEN u.price ELSE b[j - 1]
      [] u.op = 1 -> IF j = u.pos + 1 THEN u.price ELSE b[j]
      [] u.op = 2 -> IF j < u.pos + 1 THEN b[j] ELSE b[j + 1]

\* The number of its levels.
Depth(b, u) ==
    CASE u.op = 0 -> Take(Len(b) + 1, Rows)
      [] u.op = 1 -> Len(b)
      [] u.op = 2 -> Len(b) - 1

LEMMA RevisedIs ==
    ASSUME NEW b \in Seq(Prices), NEW u \in Update, Fits(b, u)
    PROVE  /\ Revised(b, u) \in Seq(Prices)
           /\ Len(Revised(b, u)) = Depth(b, u)
           /\ \A j \in 1 .. Depth(b, u) : Revised(b, u)[j] = Level(b, u, j)
<1> DEFINE i == u.pos + 1
<1>0. /\ Len(b) \in Nat /\ Rows \in Nat /\ Rows # 0
      /\ u.pos \in 0 .. Rows - 1 /\ u.price \in Prices /\ u.op \in 0 .. 2
  BY DepthAssumption DEF Update
<1>1. CASE u.op = 0
  <2> DEFINE c == InsertAt(b, i, u.price)
             n == Take(Len(b) + 1, Rows)
  <2>1. i \in 1 .. Len(b) + 1
    BY <1>0, <1>1 DEF Fits
  <2>2. /\ c \in Seq(Prices) /\ Len(c) = Len(b) + 1
        /\ \A j \in 1 .. Len(b) + 1 :
               c[j] = IF j < i THEN b[j] ELSE IF j = i THEN u.price ELSE b[j - 1]
    <3> HIDE DEF i
    <3>1. PICK e \in Prices : e = u.price
      BY <1>0
    <3>2. /\ InsertAt(b, i, e) \in Seq(Prices) /\ Len(InsertAt(b, i, e)) = Len(b) + 1
          /\ \A j \in 1 .. Len(b) + 1 :
                 InsertAt(b, i, e)[j] = IF j < i THEN b[j] ELSE IF j = i THEN e ELSE b[j - 1]
      BY <2>1, InsertIs
    <3> QED
      BY <3>1, <3>2, Zenon
  <2>3. u.op # 1 /\ u.op # 2
    BY <1>1
  <2>4. Revised(b, u) = SubSeq(c, 1, Take(Len(c), Rows))
    BY <1>1, <2>3, Zenon DEF Revised
  <2>5. Depth(b, u) = n
    BY <1>1, <2>3, Zenon DEF Depth
  <2>6. \A j : Level(b, u, j) = IF j < i THEN b[j] ELSE IF j = i THEN u.price ELSE b[j - 1]
    BY <1>1, <2>3, Zenon DEF Level
  <2> HIDE DEF c, i
  <2>7. n \in 0 .. Len(b) + 1
    BY <1>0 DEF Take
  <2>8. /\ SubSeq(c, 1, n) \in Seq(Prices) /\ Len(SubSeq(c, 1, n)) = n
        /\ \A j \in 1 .. n : SubSeq(c, 1, n)[j] = c[j] /\ j \in 1 .. Len(b) + 1
    <3>1. \A j \in 1 .. n : c[j] \in Prices /\ j \in 1 .. Len(b) + 1
      BY <1>0, <2>2, <2>7
    <3> HIDE DEF n
    <3>2. n \in Nat
      BY <1>0, <2>7
    <3>3. /\ SubSeq(c, 1, n) \in Seq(Prices)
          /\ Len(SubSeq(c, 1, n)) = IF 1 <= n THEN n - 1 + 1 ELSE 0
          /\ \A j \in 1 .. n - 1 + 1 : SubSeq(c, 1, n)[j] = c[1 + j - 1]
      BY <3>1, <3>2, SubSeqProperties
    <3> QED
      BY <3>1, <3>2, <3>3
  <2> HIDE DEF n
  <2> QED
    BY <2>2, <2>4, <2>5, <2>6, <2>8 DEF n
<1>2. CASE u.op = 1
  <2>1. u.op # 0 /\ u.op # 2
    BY <1>2
  <2>2. Revised(b, u) = [b EXCEPT ![i] = u.price]
    BY <1>2, <2>1, Zenon DEF Revised, ReplaceAt
  <2>3. Depth(b, u) = Len(b)
    BY <1>2, <2>1, Zenon DEF Depth
  <2>4. \A j : Level(b, u, j) = IF j = i THEN u.price ELSE b[j]
    BY <1>2, <2>1, Zenon DEF Level
  <2>5. i \in 1 .. Len(b)
    BY <1>0, <1>2 DEF Fits
  <2> HIDE DEF i
  <2> QED
    BY <1>0, <2>2, <2>3, <2>4, <2>5
<1>3. CASE u.op = 2
  <2>1. u.op # 0 /\ u.op # 1
    BY <1>3
  <2>2. Revised(b, u) = RemoveAt(b, i)
    BY <1>3, <2>1, Zenon DEF Revised
  <2>3. Depth(b, u) = Len(b) - 1
    BY <1>3, <2>1, Zenon DEF Depth
  <2>4. \A j : Level(b, u, j) = IF j < i THEN b[j] ELSE b[j + 1]
    BY <1>3, <2>1, Zenon DEF Level
  <2>5. i \in 1 .. Len(b)
    BY <1>0, <1>3 DEF Fits
  <2> HIDE DEF i
  <2>6. /\ RemoveAt(b, i) \in Seq(Prices) /\ Len(RemoveAt(b, i)) = Len(b) - 1
        /\ \A j \in 1 .. Len(b) - 1 : RemoveAt(b, i)[j] = IF j < i THEN b[j] ELSE b[j + 1]
    BY <2>5, RemoveIs
  <2> QED
    BY <2>2, <2>3, <2>4, <2>6
<1> QED
  BY <1>0, <1>1, <1>2, <1>3

\* DepthBook::apply keeps at most Rows levels, whatever the update.
LEMMA ApplyKeeps ==
    ASSUME NEW b \in Seq(Prices), Len(b) <= Rows, NEW u \in Update
    PROVE  apply(b, u) \in Seq(Prices) /\ Len(apply(b, u)) <= Rows
<1>0. /\ Len(b) \in Nat /\ Rows \in Nat /\ Rows # 0
      /\ u.pos \in 0 .. Rows - 1 /\ u.price \in Prices /\ u.op \in 0 .. 2
  BY DepthAssumption DEF Update
<1>1. CASE u.op = 0
  <2> DEFINE f == IF Len(b) = Rows THEN Front(b) ELSE b
             i == 1 + (IF u.pos < Len(f) THEN u.pos ELSE Len(f))
  <2>1. u.op # 1 /\ u.op # 2 /\ ~(u.pos > Rows)
    BY <1>0, <1>1
  <2>2. apply(b, u) = InsertAt(f, i, u.price)
    BY <1>1, <2>1, Zenon DEF apply
  <2>3. f \in Seq(Prices) /\ Len(f) <= Rows - 1 /\ Len(f) \in Nat
    BY <1>0 DEF Front
  <2> HIDE DEF f
  <2>4. i \in 1 .. Len(f) + 1
    BY <1>0, <2>3
  <2> HIDE DEF i
  <2>5. InsertAt(f, i, u.price) \in Seq(Prices) /\ Len(InsertAt(f, i, u.price)) = Len(f) + 1
    BY <1>0, <2>3, <2>4, InsertIs
  <2> QED
    BY <1>0, <2>2, <2>3, <2>5
<1>2. CASE u.op = 1
  <2>1. u.op # 0 /\ u.op # 2
    BY <1>2
  <2>2. apply(b, u) = IF u.pos < Len(b) THEN [b EXCEPT ![u.pos + 1] = u.price]
                      ELSE IF u.pos = Len(b) /\ Len(b) < Rows THEN Append(b, u.price)
                      ELSE b
    BY <1>2, <2>1, Zenon DEF apply
  <2> QED
    BY <1>0, <2>2
<1>3. CASE u.op = 2
  <2>1. u.op # 0 /\ u.op # 1
    BY <1>3
  <2>2. apply(b, u) = IF u.pos < Len(b) THEN RemoveAt(b, u.pos + 1) ELSE b
    BY <1>3, <2>1, Zenon DEF apply
  <2>3. u.pos < Len(b) => /\ RemoveAt(b, u.pos + 1) \in Seq(Prices)
                          /\ Len(RemoveAt(b, u.pos + 1)) = Len(b) - 1
    <3> HAVE u.pos < Len(b)
    <3>1. u.pos + 1 \in 1 .. Len(b)
      BY <1>0
    <3> QED
      BY <3>1, RemoveIs
  <2> QED
    BY <1>0, <2>2, <2>3
<1> QED
  BY <1>0, <1>1, <1>2, <1>3

\* On an update that fits the book, it does what IBKR did: dropping the
\* deepest level before the insert is the same as cutting the book after it.
LEMMA ApplyRevises ==
    ASSUME NEW b \in Seq(Prices), Len(b) <= Rows, NEW u \in Update, Fits(b, u)
    PROVE  apply(b, u) = Revised(b, u)
<1>0. /\ Len(b) \in Nat /\ Rows \in Nat /\ Rows # 0
      /\ u.pos \in 0 .. Rows - 1 /\ u.price \in Prices /\ u.op \in 0 .. 2
  BY DepthAssumption DEF Update
<1>1. CASE u.op = 0
  <2> DEFINE f == IF Len(b) = Rows THEN Front(b) ELSE b
             i == 1 + (IF u.pos < Len(f) THEN u.pos ELSE Len(f))
             g == InsertAt(f, i, u.price)
             h == Revised(b, u)
  <2>1. u.op # 1 /\ u.op # 2 /\ ~(u.pos > Rows)
    BY <1>0, <1>1
  <2>2. apply(b, u) = g
    BY <1>1, <2>1, Zenon DEF apply
  <2>3. /\ f \in Seq(Prices) /\ Len(f) = IF Len(b) = Rows THEN Rows - 1 ELSE Len(b)
        /\ \A j \in 1 .. Len(f) : f[j] = b[j]
    BY <1>0 DEF Front
  <2>4. u.pos <= Len(b) /\ u.pos < Rows
    BY <1>1 DEF Fits
  <2> HIDE DEF f
  <2>5. i = u.pos + 1 /\ i \in 1 .. Len(f) + 1
    BY <1>0, <2>3, <2>4
  <2> HIDE DEF i
  <2>6. /\ g \in Seq(Prices) /\ Len(g) = Len(f) + 1
        /\ \A j \in 1 .. Len(f) + 1 :
               g[j] = IF j < i THEN f[j] ELSE IF j = i THEN u.price ELSE f[j - 1]
    <3>1. PICK e \in Prices : e = u.price
      BY <1>0
    <3>2. /\ InsertAt(f, i, e) \in Seq(Prices) /\ Len(InsertAt(f, i, e)) = Len(f) + 1
          /\ \A j \in 1 .. Len(f) + 1 :
                 InsertAt(f, i, e)[j] = IF j < i THEN f[j] ELSE IF j = i THEN e ELSE f[j - 1]
      <4>1. f \in Seq(Prices) /\ i \in 1 .. Len(f) + 1
        BY <2>3, <2>5
      <4> QED
        BY <4>1, InsertIs
    <3> QED
      BY <3>1, <3>2, Zenon
  <2> HIDE DEF g
  <2>7. Depth(b, u) = Take(Len(b) + 1, Rows)
    BY <1>1, <2>1, Zenon DEF Depth
  <2>8. \A j : Level(b, u, j) = IF j < u.pos + 1 THEN b[j]
                                ELSE IF j = u.pos + 1 THEN u.price ELSE b[j - 1]
    BY <1>1, <2>1, Zenon DEF Level
  <2>9. Depth(b, u) = Len(f) + 1
    BY <1>0, <2>3, <2>7 DEF Take
  <2>10. /\ h \in Seq(Prices) /\ Len(h) = Len(f) + 1
         /\ \A j \in 1 .. Len(f) + 1 : h[j] = Level(b, u, j)
    BY <2>9, RevisedIs
  <2> HIDE DEF h
  <2>11. ASSUME NEW j \in 1 .. Len(f) + 1 PROVE g[j] = h[j]
    <3>0. Len(f) \in Nat
      BY <2>3
    <3>1. CASE j < i
      <4>1. j \in 1 .. Len(f)
        BY <2>5, <3>0, <3>1
      <4> QED
        BY <2>3, <2>5, <2>6, <2>8, <2>10, <3>1, <4>1
    <3>2. CASE j = i
      BY <2>5, <2>6, <2>8, <2>10, <3>2
    <3>3. CASE j > i
      <4>1. j - 1 \in 1 .. Len(f) /\ ~(j < i) /\ j # i
        BY <2>5, <3>0, <3>3
      <4>2. g[j] = f[j - 1] /\ h[j] = b[j - 1]
        BY <2>5, <2>6, <2>8, <2>10, <4>1
      <4> QED
        BY <2>3, <4>1, <4>2
    <3>4. j < i \/ j = i \/ j > i
      BY <2>5, <3>0
    <3> QED
      BY ONLY <3>1, <3>2, <3>3, <3>4
  <2>12. g = h
    BY <2>6, <2>10, <2>11, SeqEqual
  <2> QED
    BY <2>2, <2>12 DEF h
<1>2. CASE u.op = 1
  <2>1. u.op # 0 /\ u.op # 2 /\ u.pos < Len(b)
    BY <1>2 DEF Fits
  <2> QED
    BY <1>2, <2>1, Zenon DEF apply, Revised, ReplaceAt
<1>3. CASE u.op = 2
  <2>1. u.op # 0 /\ u.op # 1 /\ u.pos < Len(b)
    BY <1>3 DEF Fits
  <2> QED
    BY <1>3, <2>1, Zenon DEF apply, Revised
<1> QED
  BY <1>0, <1>1, <1>2, <1>3

\* An update keeps one book the top of another.
LEMMA PrefixKept ==
    ASSUME NEW a \in Seq(Prices), NEW b \in Seq(Prices), Len(b) <= Rows,
           NEW u \in Update, IsPrefix(a, b), Fits(a, u)
    PROVE  IsPrefix(Revised(a, u), apply(b, u))
<1>0. /\ Len(a) \in Nat /\ Len(b) \in Nat /\ Rows \in Nat /\ Rows # 0
      /\ u.pos \in 0 .. Rows - 1 /\ u.op \in 0 .. 2
  BY DepthAssumption DEF Update
<1>1. Len(a) <= Len(b) /\ \A i \in 1 .. Len(a) : a[i] = b[i]
  BY PrefixIs
<1>2. Fits(b, u)
  BY <1>0, <1>1 DEF Fits
<1> DEFINE ra == Revised(a, u)
           rb == Revised(b, u)
<1>3. apply(b, u) = rb
  BY <1>2, ApplyRevises
<1>4. /\ ra \in Seq(Prices) /\ Len(ra) = Depth(a, u)
      /\ \A j \in 1 .. Depth(a, u) : ra[j] = Level(a, u, j)
  BY RevisedIs
<1>5. /\ rb \in Seq(Prices) /\ Len(rb) = Depth(b, u)
      /\ \A j \in 1 .. Depth(b, u) : rb[j] = Level(b, u, j)
  BY <1>2, RevisedIs
<1> HIDE DEF ra, rb
<1>6. /\ Depth(a, u) \in Nat /\ Depth(a, u) <= Depth(b, u) /\ Depth(b, u) \in Nat
      /\ \A j \in 1 .. Depth(a, u) : Level(a, u, j) = Level(b, u, j)
  <2>1. CASE u.op = 0
    <3>1. u.op # 1 /\ u.op # 2 /\ u.pos <= Len(a)
      BY <2>1 DEF Fits
    <3>2. Depth(a, u) = Take(Len(a) + 1, Rows) /\ Depth(b, u) = Take(Len(b) + 1, Rows)
      BY <2>1, <3>1, Zenon DEF Depth
    <3>3. \A j : /\ Level(a, u, j) = IF j < u.pos + 1 THEN a[j]
                                     ELSE IF j = u.pos + 1 THEN u.price ELSE a[j - 1]
                 /\ Level(b, u, j) = IF j < u.pos + 1 THEN b[j]
                                     ELSE IF j = u.pos + 1 THEN u.price ELSE b[j - 1]
      BY <2>1, <3>1, Zenon DEF Level
    <3>4. Depth(a, u) \in 0 .. Len(a) + 1 /\ Depth(a, u) <= Depth(b, u) /\ Depth(b, u) \in Nat
      BY <1>0, <1>1, <3>2 DEF Take
    <3>5. ASSUME NEW j \in 1 .. Depth(a, u) PROVE Level(a, u, j) = Level(b, u, j)
      <4>1. /\ j < u.pos + 1 => j \in 1 .. Len(a)
            /\ j > u.pos + 1 => j - 1 \in 1 .. Len(a)
            /\ j < u.pos + 1 \/ j = u.pos + 1 \/ j > u.pos + 1
        BY <1>0, <3>1, <3>4
      <4>2. /\ j < u.pos + 1 => a[j] = b[j]
            /\ j > u.pos + 1 => a[j - 1] = b[j - 1]
        BY <1>1, <4>1
      <4> QED
        BY <3>3, <4>1, <4>2
    <3> QED
      BY <1>0, <3>4, <3>5
  <2>2. CASE u.op = 1
    <3>1. u.op # 0 /\ u.op # 2
      BY <2>2
    <3>2. Depth(a, u) = Len(a) /\ Depth(b, u) = Len(b)
      BY <2>2, <3>1, Zenon DEF Depth
    <3>3. \A j : /\ Level(a, u, j) = IF j = u.pos + 1 THEN u.price ELSE a[j]
                 /\ Level(b, u, j) = IF j = u.pos + 1 THEN u.price ELSE b[j]
      BY <2>2, <3>1, Zenon DEF Level
    <3> QED
      BY <1>0, <1>1, <3>2, <3>3
  <2>3. CASE u.op = 2
    <3>1. u.op # 0 /\ u.op # 1 /\ u.pos < Len(a)
      BY <2>3 DEF Fits
    <3>2. Depth(a, u) = Len(a) - 1 /\ Depth(b, u) = Len(b) - 1
      BY <2>3, <3>1, Zenon DEF Depth
    <3>3. \A j : /\ Level(a, u, j) = IF j < u.pos + 1 THEN a[j] ELSE a[j + 1]
                 /\ Level(b, u, j) = IF j < u.pos + 1 THEN b[j] ELSE b[j + 1]
      BY <2>3, <3>1, Zenon DEF Level
    <3>4. ASSUME NEW j \in 1 .. Len(a) - 1 PROVE Level(a, u, j) = Level(b, u, j)
      <4>1. j \in 1 .. Len(a) /\ j + 1 \in 1 .. Len(a)
        BY <1>0
      <4> QED
        BY <1>1, <3>3, <4>1
    <3> QED
      BY <1>0, <1>1, <3>1, <3>2, <3>4
  <2> QED
    BY <1>0, <2>1, <2>2, <2>3
<1>7. ASSUME NEW j \in 1 .. Len(ra) PROVE ra[j] = rb[j]
  <2>1. j \in 1 .. Depth(a, u) /\ j \in 1 .. Depth(b, u)
    BY <1>4, <1>6
  <2> QED
    BY <1>4, <1>5, <1>6, <2>1
<1>8. IsPrefix(ra, rb)
  BY <1>4, <1>5, <1>6, <1>7, PrefixIs
<1> QED
  BY <1>3, <1>8 DEF ra

-----------------------------------------------------------------------------
(* The books.  IBKR's book of a subscribed leg goes through one stage per  *)
(* update that is in flight, the broadcast before the wire: the leg's own  *)
(* book agrees with the first stage, IBKR's is the last one.  At an update *)
(* that an earlier subscription left in the channel it starts anew.        *)

\* Is update i of the channel c and the wire w one of leg l, whose request is
\* q?  And which one is it?
Concerns(l, q, c, w, i) ==
    IF i <= Len(c) THEN c[i].leg = l ELSE w[i - Len(c)].req = q
InFlight(c, w, i) == IF i <= Len(c) THEN c[i].u ELSE w[i - Len(c)].u

\* From stage x to stage y with update i.
Turn(l, q, c, w, i, x, y) ==
    IF Concerns(l, q, c, w, i)
    THEN \/ Fits(x, InFlight(c, w, i)) /\ y = Revised(x, InFlight(c, w, i))
         \/ i <= Len(c) /\ y = <<>>
    ELSE y = x

\* The stages g lead from the top of the leg's book b to IBKR's book top.
Trail(g, l, q, c, w, b, top) ==
    /\ g \in [0 .. Len(c) + Len(w) -> Seq(Prices)]
    /\ g[Len(c) + Len(w)] = top
    /\ \A i \in 1 .. Len(c) + Len(w) : Turn(l, q, c, w, i, g[i - 1], g[i])
    /\ IsPrefix(g[0], b)

BooksTypeOK == books \in [Legs -> Seq(Prices)] /\ \A l \in Legs : Len(books[l]) <= Rows

\* The leg's book is expected to follow IBKR's.
Following(l) ==
    active[l] # NoReq /\ synced[l] /\ link /\ ibkr[active[l]] # NotStreamed

BookInv ==
    /\ BooksTypeOK
    /\ \A l \in Legs : Following(l) =>
           \E g : Trail(g, l, active[l], chan, wire, books[l], ibkr[active[l]])

Wires == Seq([req : Req, u : Update])
Chans == Seq([leg : Legs, u : Update])

\* IBKR streams an update: one more stage.
LEMMA TrailStream ==
    ASSUME NEW c \in Chans, NEW w \in Wires, NEW l, NEW q, NEW b, NEW top, NEW g,
           Trail(g, l, q, c, w, b, top), NEW r \in Req, NEW u \in Update, NEW new \in Seq(Prices),
           IF r = q THEN Fits(top, u) /\ new = Revised(top, u) ELSE new = top
    PROVE  \E h : Trail(h, l, q, c, Append(w, [req |-> r, u |-> u]), b, new)
<1> DEFINE m == [req |-> r, u |-> u]
           x == Append(w, m)
           n == Len(c) + Len(w)
           h == [i \in 0 .. n + 1 |-> IF i = n + 1 THEN new ELSE g[i]]
<1>1. /\ Len(c) \in Nat /\ Len(w) \in Nat /\ x \in Wires /\ Len(x) = Len(w) + 1
      /\ x[Len(w) + 1] = m
      /\ \A i \in 1 .. Len(w) : x[i] = w[i]
  BY DEF Chans, Wires
<1>2. /\ g \in [0 .. n -> Seq(Prices)] /\ g[n] = top /\ IsPrefix(g[0], b)
      /\ \A i \in 1 .. n : Turn(l, q, c, w, i, g[i - 1], g[i])
  BY DEF Trail
<1> HIDE DEF x
<1>3. n \in Nat /\ Len(c) + Len(x) = n + 1
  BY <1>1
<1>4. h \in [0 .. n + 1 -> Seq(Prices)]
  BY <1>2, <1>3
<1>5. h[n + 1] = new /\ h[0] = g[0] /\ \A i \in 0 .. n : h[i] = g[i]
  BY <1>3
<1>6. ASSUME NEW i \in 1 .. n + 1 PROVE Turn(l, q, c, x, i, h[i - 1], h[i])
  <2>1. CASE i \in 1 .. n
    <3>1. h[i] = g[i] /\ h[i - 1] = g[i - 1]
      BY <1>3, <1>5, <2>1
    <3>2. i > Len(c) => i - Len(c) \in 1 .. Len(w)
      BY <1>1, <2>1
    <3>3. /\ Concerns(l, q, c, x, i) <=> Concerns(l, q, c, w, i)
          /\ InFlight(c, x, i) = InFlight(c, w, i)
      BY <1>1, <2>1, <3>2 DEF Concerns, InFlight
    <3> QED
      BY <1>2, <2>1, <3>1, <3>3 DEF Turn
  <2>2. CASE i = n + 1
    <3>1. h[i] = new /\ h[i - 1] = top
      BY <1>2, <1>3, <1>5, <2>2
    <3>2. ~(i <= Len(c)) /\ i - Len(c) = Len(w) + 1
      BY <1>1, <2>2
    <3>3. (Concerns(l, q, c, x, i) <=> r = q) /\ InFlight(c, x, i) = u
      BY <1>1, <3>2 DEF Concerns, InFlight
    <3> QED
      BY <3>1, <3>3 DEF Turn
  <2> QED
    BY <1>3, <2>1, <2>2
<1> HIDE DEF h
<1>7. Trail(h, l, q, c, x, b, new)
  BY <1>2, <1>3, <1>4, <1>5, <1>6 DEF Trail
<1> QED
  BY <1>7 DEF x

\* The dispatcher broadcasts the head of the wire: the stages stay.
LEMMA TrailRoute ==
    ASSUME NEW c \in Chans, NEW w \in Wires, NEW l, NEW q, NEW b, NEW top, NEW g,
           Trail(g, l, q, c, w, b, top), w # <<>>, NEW k \in Legs,
           k = l <=> Head(w).req = q
    PROVE  Trail(g, l, q, Append(c, [leg |-> k, u |-> Head(w).u]), Tail(w), b, top)
<1> DEFINE m == [leg |-> k, u |-> Head(w).u]
           d == Append(c, m)
           x == Tail(w)
           n == Len(c) + Len(w)
<1>1. /\ Len(c) \in Nat /\ Len(w) \in Nat /\ Len(w) # 0 /\ Head(w) = w[1]
      /\ Len(x) = Len(w) - 1 /\ \A i \in 1 .. Len(w) - 1 : x[i] = w[i + 1]
  BY DEF Chans, Wires
<1>2. Len(d) = Len(c) + 1 /\ d[Len(c) + 1] = m /\ \A i \in 1 .. Len(c) : d[i] = c[i]
  BY DEF Chans
<1>3. /\ g \in [0 .. n -> Seq(Prices)] /\ g[n] = top /\ IsPrefix(g[0], b)
      /\ \A i \in 1 .. n : Turn(l, q, c, w, i, g[i - 1], g[i])
  BY DEF Trail
<1> HIDE DEF d, x
<1>4. Len(d) + Len(x) = n
  BY <1>1, <1>2
<1>5. ASSUME NEW i \in 1 .. n PROVE Turn(l, q, d, x, i, g[i - 1], g[i])
  <2>1. CASE i <= Len(c)
    <3>1. i <= Len(d) /\ i \in 1 .. Len(c)
      BY <1>1, <1>2, <2>1
    <3>2. /\ Concerns(l, q, d, x, i) <=> Concerns(l, q, c, w, i)
          /\ InFlight(d, x, i) = InFlight(c, w, i)
      BY <1>2, <2>1, <3>1 DEF Concerns, InFlight
    <3> QED
      BY <1>3, <2>1, <3>1, <3>2 DEF Turn
  <2>2. CASE i = Len(c) + 1
    <3>1. i <= Len(d) /\ ~(i <= Len(c)) /\ i - Len(c) = 1
      BY <1>1, <1>2, <2>2
    <3>2. /\ Concerns(l, q, d, x, i) <=> Concerns(l, q, c, w, i)
          /\ InFlight(d, x, i) = InFlight(c, w, i)
      BY <1>1, <1>2, <2>2, <3>1 DEF Concerns, InFlight
    <3> QED
      BY <1>3, <3>1, <3>2 DEF Turn
  <2>3. CASE i > Len(c) + 1
    <3>1. /\ ~(i <= Len(d)) /\ ~(i <= Len(c)) /\ i - Len(d) \in 1 .. Len(w) - 1
          /\ (i - Len(d)) + 1 = i - Len(c)
      BY <1>1, <1>2, <2>3
    <3>2. x[i - Len(d)] = w[i - Len(c)]
      BY <1>1, <3>1
    <3>3. /\ Concerns(l, q, d, x, i) <=> Concerns(l, q, c, w, i)
          /\ InFlight(d, x, i) = InFlight(c, w, i)
      BY <3>1, <3>2 DEF Concerns, InFlight
    <3> QED
      BY <1>3, <3>1, <3>3 DEF Turn
  <2>4. i <= Len(c) \/ i = Len(c) + 1 \/ i > Len(c) + 1
    BY <1>1
  <2> QED
    BY ONLY <2>1, <2>2, <2>3, <2>4
<1>6. Trail(g, l, q, d, x, b, top)
  BY <1>3, <1>4, <1>5 DEF Trail
<1> QED
  BY <1>6 DEF d, x

\* The dispatcher drops the head of the wire, which is not of the leg's
\* request: its stage goes.
LEMMA TrailDrop ==
    ASSUME NEW c \in Chans, NEW w \in Wires, NEW l, NEW q, NEW b, NEW top, NEW g,
           Trail(g, l, q, c, w, b, top), w # <<>>, Head(w).req # q
    PROVE  \E h : Trail(h, l, q, c, Tail(w), b, top)
<1> DEFINE x == Tail(w)
           n == Len(c) + Len(w)
           h == [i \in 0 .. n - 1 |-> IF i <= Len(c) THEN g[i] ELSE g[i + 1]]
<1>1. /\ Len(c) \in Nat /\ Len(w) \in Nat /\ Len(w) # 0 /\ Head(w) = w[1]
      /\ Len(x) = Len(w) - 1 /\ \A i \in 1 .. Len(w) - 1 : x[i] = w[i + 1]
  BY DEF Chans, Wires
<1>2. /\ g \in [0 .. n -> Seq(Prices)] /\ g[n] = top /\ IsPrefix(g[0], b)
      /\ \A i \in 1 .. n : Turn(l, q, c, w, i, g[i - 1], g[i])
  BY DEF Trail
<1> HIDE DEF x
<1>3. n \in Nat /\ n # 0 /\ Len(c) + Len(x) = n - 1 /\ Len(c) <= n - 1
  BY <1>1
<1>4. g[Len(c) + 1] = g[Len(c)]
  <2>1. Len(c) + 1 \in 1 .. n /\ ~(Len(c) + 1 <= Len(c)) /\ (Len(c) + 1) - Len(c) = 1
        /\ (Len(c) + 1) - 1 = Len(c)
    BY <1>1
  <2>2. ~Concerns(l, q, c, w, Len(c) + 1)
    BY <1>1, <2>1 DEF Concerns
  <2>3. Turn(l, q, c, w, Len(c) + 1, g[Len(c)], g[Len(c) + 1])
    BY <1>2, <2>1
  <2> QED
    BY <2>2, <2>3 DEF Turn
<1>5. h \in [0 .. n - 1 -> Seq(Prices)]
  <2>1. \A i \in 0 .. n - 1 : i \in 0 .. n /\ i + 1 \in 0 .. n
    BY <1>3
  <2> QED
    BY <1>2, <2>1
<1>6. /\ \A i \in 0 .. n - 1 : i <= Len(c) => h[i] = g[i]
      /\ \A i \in 0 .. n - 1 : i >= Len(c) => h[i] = g[i + 1]
  BY <1>1, <1>4
<1> HIDE DEF h
<1>7. h[0] = g[0] /\ h[n - 1] = top
  <2>1. 0 \in 0 .. n - 1 /\ 0 <= Len(c) /\ n - 1 \in 0 .. n - 1 /\ n - 1 >= Len(c) /\ (n - 1) + 1 = n
    BY <1>1, <1>3
  <2> QED
    BY <1>2, <1>6, <2>1
<1>8. ASSUME NEW i \in 1 .. n - 1 PROVE Turn(l, q, c, x, i, h[i - 1], h[i])
  <2>1. CASE i <= Len(c)
    <3>1. i \in 1 .. n /\ i \in 0 .. n - 1 /\ i - 1 \in 0 .. n - 1 /\ i - 1 <= Len(c)
      BY <1>1, <1>3, <2>1
    <3>2. h[i] = g[i] /\ h[i - 1] = g[i - 1]
      BY <1>6, <2>1, <3>1
    <3>3. /\ Concerns(l, q, c, x, i) <=> Concerns(l, q, c, w, i)
          /\ InFlight(c, x, i) = InFlight(c, w, i)
      BY <2>1 DEF Concerns, InFlight
    <3> QED
      BY <1>2, <3>1, <3>2, <3>3 DEF Turn
  <2>2. CASE i > Len(c)
    <3>1. /\ i + 1 \in 1 .. n /\ i \in 0 .. n - 1 /\ i - 1 \in 0 .. n - 1 /\ i - 1 >= Len(c)
          /\ i >= Len(c) /\ (i - 1) + 1 = i /\ (i + 1) - 1 = i
      BY <1>1, <1>3, <2>2
    <3>2. h[i] = g[i + 1] /\ h[i - 1] = g[i]
      BY <1>6, <3>1
    <3>3. /\ ~(i <= Len(c)) /\ ~(i + 1 <= Len(c)) /\ i - Len(c) \in 1 .. Len(w) - 1
          /\ (i - Len(c)) + 1 = (i + 1) - Len(c)
      BY <1>1, <2>2
    <3>4. x[i - Len(c)] = w[(i + 1) - Len(c)]
      BY <1>1, <3>3
    <3>5. /\ Concerns(l, q, c, x, i) <=> Concerns(l, q, c, w, i + 1)
          /\ InFlight(c, x, i) = InFlight(c, w, i + 1)
      BY <3>3, <3>4 DEF Concerns, InFlight
    <3>6. Turn(l, q, c, w, i + 1, g[i], g[i + 1])
      BY <1>2, <3>1
    <3> QED
      BY <3>2, <3>3, <3>5, <3>6 DEF Turn
  <2>3. i <= Len(c) \/ i > Len(c)
    BY <1>1
  <2> QED
    BY ONLY <2>1, <2>2, <2>3
<1>9. Trail(h, l, q, c, x, b, top)
  BY <1>2, <1>3, <1>5, <1>7, <1>8 DEF Trail
<1> QED
  BY <1>9 DEF x

\* The head of the broadcast is applied to its leg's book, or is lost to
\* another one: the first stage goes.
LEMMA TrailPump ==
    ASSUME NEW c \in Chans, NEW w \in Wires, NEW l, NEW q, NEW b \in Seq(Prices), Len(b) <= Rows,
           NEW top, NEW g, Trail(g, l, q, c, w, b, top), c # <<>>,
           NEW new \in Seq(Prices),
           IF Head(c).leg = l THEN new = apply(b, Head(c).u) ELSE new = b
    PROVE  \E h : Trail(h, l, q, Tail(c), w, new, top)
<1> DEFINE d == Tail(c)
           n == Len(c) + Len(w)
           h == [i \in 0 .. n - 1 |-> g[i + 1]]
<1>1. /\ Len(c) \in Nat /\ Len(w) \in Nat /\ Len(c) # 0 /\ Head(c) = c[1]
      /\ Len(d) = Len(c) - 1 /\ \A i \in 1 .. Len(c) - 1 : d[i] = c[i + 1]
      /\ Head(c).u \in Update
  <2>1. Head(c) \in [leg : Legs, u : Update]
    <3> DEFINE M == [leg : Legs, u : Update]
    <3>1. c \in Seq(M)
      BY DEF Chans
    <3> HIDE DEF M
    <3>2. Head(c) \in M
      BY <3>1, HeadTailProperties
    <3> QED
      BY <3>2 DEF M
  <2>2. Head(c).u \in Update
    BY <2>1
  <2>3. /\ Len(c) \in Nat /\ Len(w) \in Nat /\ Len(c) # 0 /\ Head(c) = c[1]
        /\ Len(d) = Len(c) - 1 /\ \A i \in 1 .. Len(c) - 1 : d[i] = c[i + 1]
    BY DEF Chans, Wires
  <2> QED
    BY <2>2, <2>3
<1>2. /\ g \in [0 .. n -> Seq(Prices)] /\ g[n] = top /\ IsPrefix(g[0], b)
      /\ \A i \in 1 .. n : Turn(l, q, c, w, i, g[i - 1], g[i])
  BY DEF Trail
<1> HIDE DEF d
<1>3. n \in Nat /\ n # 0 /\ Len(d) + Len(w) = n - 1
  BY <1>1
<1>4. h \in [0 .. n - 1 -> Seq(Prices)]
  <2>1. \A i \in 0 .. n - 1 : i + 1 \in 0 .. n
    BY <1>3
  <2> QED
    BY <1>2, <2>1
<1>5. \A i \in 0 .. n - 1 : h[i] = g[i + 1]
  OBVIOUS
<1> HIDE DEF h
<1>6. h[0] = g[1] /\ h[n - 1] = top
  <2>1. 0 \in 0 .. n - 1 /\ n - 1 \in 0 .. n - 1 /\ (n - 1) + 1 = n /\ 0 + 1 = 1
    BY <1>3
  <2> QED
    BY <1>2, <1>5, <2>1
<1>7. IsPrefix(h[0], new)
  <2>1. 1 \in 1 .. n /\ 0 \in 0 .. n /\ 1 - 1 = 0 /\ 1 <= Len(c)
    BY <1>1, <1>3
  <2>2. Turn(l, q, c, w, 1, g[0], g[1]) /\ g[0] \in Seq(Prices)
    BY <1>2, <2>1
  <2>3. (Concerns(l, q, c, w, 1) <=> Head(c).leg = l) /\ InFlight(c, w, 1) = Head(c).u
    BY <1>1, <2>1 DEF Concerns, InFlight
  <2>4. CASE Head(c).leg # l
    BY <1>2, <1>6, <2>2, <2>3, <2>4 DEF Turn
  <2>5. CASE Head(c).leg = l /\ g[1] = <<>>
    BY <1>6, <2>5, EmptyPrefix
  <2>6. CASE Head(c).leg = l /\ g[1] # <<>>
    <3>1. Fits(g[0], Head(c).u) /\ g[1] = Revised(g[0], Head(c).u)
      BY <2>2, <2>3, <2>6 DEF Turn
    <3>2. PICK u \in Update : u = Head(c).u
      BY <1>1
    <3>3. PICK a \in Seq(Prices) : a = g[0]
      BY <2>2
    <3>4. IsPrefix(Revised(a, u), apply(b, u))
      BY <1>2, <3>1, <3>2, <3>3, PrefixKept
    <3> QED
      BY <1>6, <2>6, <3>1, <3>2, <3>3, <3>4
  <2> QED
    BY <2>4, <2>5, <2>6
<1>8. ASSUME NEW i \in 1 .. n - 1 PROVE Turn(l, q, d, w, i, h[i - 1], h[i])
  <2>1. i + 1 \in 1 .. n /\ i \in 0 .. n - 1 /\ i - 1 \in 0 .. n - 1 /\ (i - 1) + 1 = i /\ (i + 1) - 1 = i
    BY <1>3
  <2>2. h[i] = g[i + 1] /\ h[i - 1] = g[i]
    BY <1>5, <2>1
  <2>3. i <= Len(d) <=> i + 1 <= Len(c)
    BY <1>1
  <2>4. i <= Len(d) => d[i] = c[i + 1]
    BY <1>1
  <2>5. i - Len(d) = (i + 1) - Len(c)
    BY <1>1
  <2>6. /\ Concerns(l, q, d, w, i) <=> Concerns(l, q, c, w, i + 1)
        /\ InFlight(d, w, i) = InFlight(c, w, i + 1)
    BY <2>3, <2>4, <2>5 DEF Concerns, InFlight
  <2>7. Turn(l, q, c, w, i + 1, g[i], g[i + 1])
    BY <1>2, <2>1
  <2> QED
    BY <2>2, <2>3, <2>6, <2>7 DEF Turn
<1>9. Trail(h, l, q, d, w, new, top)
  BY <1>3, <1>4, <1>6, <1>7, <1>8 DEF Trail
<1> QED
  BY <1>9 DEF d

\* A subscription begins with an empty book, whatever is in the channel.
LEMMA TrailStart ==
    ASSUME NEW c \in Chans, NEW w \in Wires, NEW l, NEW q, NEW b \in Seq(Prices),
           \A i \in DOMAIN w : w[i].req # q
    PROVE  \E h : Trail(h, l, q, c, w, b, <<>>)
<1> DEFINE n == Len(c) + Len(w)
           h == [i \in 0 .. n |-> <<>>]
<1>1. Len(c) \in Nat /\ Len(w) \in Nat /\ DOMAIN w = 1 .. Len(w) /\ n \in Nat
  BY DEF Chans, Wires
<1>2. <<>> \in Seq(Prices)
  OBVIOUS
<1>3. IsPrefix(<<>>, b)
  BY EmptyPrefix
<1>4. h \in [0 .. n -> Seq(Prices)] /\ \A i \in 0 .. n : h[i] = <<>>
  BY <1>2
<1> HIDE DEF h
<1>5. ASSUME NEW i \in 1 .. n PROVE Turn(l, q, c, w, i, h[i - 1], h[i])
  <2>1. h[i] = <<>> /\ h[i - 1] = <<>>
    <3>1. i \in 0 .. n /\ i - 1 \in 0 .. n
      BY <1>1
    <3> QED
      BY <1>4, <3>1
  <2>2. CASE i <= Len(c)
    BY <2>1, <2>2 DEF Turn
  <2>3. CASE ~(i <= Len(c))
    <3>1. i - Len(c) \in DOMAIN w
      BY <1>1, <2>3
    <3>2. ~Concerns(l, q, c, w, i)
      BY <2>3, <3>1 DEF Concerns
    <3> QED
      BY <2>1, <3>2 DEF Turn
  <2> QED
    BY <2>2, <2>3
<1>6. h[n] = <<>> /\ h[0] = <<>>
  <2>1. n \in 0 .. n /\ 0 \in 0 .. n
    BY <1>1
  <2> QED
    BY <1>4, <2>1
<1> QED
  BY <1>3, <1>4, <1>5, <1>6 DEF Trail

\* With nothing in flight all stages are one.
LEMMA TrailSettled ==
    ASSUME NEW c \in Chans, NEW w \in Wires, NEW l, NEW q, NEW b, NEW top, NEW g,
           Trail(g, l, q, c, w, b, top),
           \A i \in DOMAIN c : c[i].leg # l, \A i \in DOMAIN w : w[i].req # q
    PROVE  IsPrefix(top, b)
<1> DEFINE n == Len(c) + Len(w)
           T == {i \in 0 .. n : g[i] = top}
<1>1. /\ Len(c) \in Nat /\ Len(w) \in Nat /\ n \in Nat
      /\ DOMAIN c = 1 .. Len(c) /\ DOMAIN w = 1 .. Len(w)
  BY DEF Chans, Wires
<1>2. /\ g[n] = top /\ IsPrefix(g[0], b)
      /\ \A i \in 1 .. n : Turn(l, q, c, w, i, g[i - 1], g[i])
  BY DEF Trail
<1>3. ASSUME NEW i \in 1 .. n PROVE g[i - 1] = g[i]
  <2>1. ~(i <= Len(c)) => i - Len(c) \in 1 .. Len(w)
    BY <1>1
  <2>2. i <= Len(c) => i \in DOMAIN c
    BY <1>1
  <2>3. ~Concerns(l, q, c, w, i)
    BY <1>1, <2>1, <2>2 DEF Concerns
  <2> QED
    BY <1>2, <2>3 DEF Turn
<1>4. T \subseteq Nat /\ T # {}
  <2>1. n \in T
    BY <1>1, <1>2
  <2> QED
    BY <2>1
<1>5. PICK x \in T : \A y \in T : x <= y
  <2> HIDE DEF T
  <2> QED
    BY <1>4, LeastNatural
<1>6. x \in 0 .. n /\ g[x] = top
  OBVIOUS
<1>7. x = 0
  <2> SUFFICES ASSUME x # 0 PROVE FALSE
    OBVIOUS
  <2>1. x \in 1 .. n /\ x - 1 \in 0 .. n /\ ~(x <= x - 1)
    BY <1>1, <1>6
  <2>2. x - 1 \in T
    BY <1>3, <1>6, <2>1
  <2> HIDE DEF T
  <2> QED
    BY <1>5, <2>1, <2>2
<1> QED
  BY <1>2, <1>6, <1>7

-----------------------------------------------------------------------------
(* The other steps keep DepthInv: they leave the rotator and the routes.   *)

LEMMA OthersKeepWork ==
    ASSUME DepthInv, DepthTypeOK', UNCHANGED <<rotator, routes>>,
           \A r \in Req : ibkr'[r] # NotStreamed => ibkr[r] # NotStreamed
    PROVE  DepthInv'
<1>1. UNCHANGED <<cursor, todo, active, routes>>
  BY DEF rotator
<1>2. WorkOK'
  BY <1>1 DEF WorkOK, DepthInv
<1>3. LimitOK'
  BY <1>1 DEF LimitOK, Held, DepthInv
<1>4. RequestsOK'
  BY <1>1 DEF RequestsOK, RoutesOwned, DepthInv
<1> QED
  BY <1>2, <1>3, <1>4 DEF DepthInv

LEMMA StreamIs ==
    ASSUME DepthInv, NEW r \in Req, NEW u \in Updates, Stream(r, u)
    PROVE  /\ u \in Update /\ ibkr[r] \in Seq(Prices) /\ Fits(ibkr[r], u)
           /\ Revised(ibkr[r], u) \in Seq(Prices) /\ Revised(ibkr[r], u) # NotStreamed
           /\ ibkr' = [ibkr EXCEPT ![r] = Revised(ibkr[r], u)]
           /\ wire' = Append(wire, [req |-> r, u |-> u]) /\ Len(wire) < MaxWire
           /\ UNCHANGED <<market, rotator, routes, chan, books, link, rejects, history>>
<1>1. u \in Update
  BY DEF Updates, Update
<1>2. ibkr[r] \in Seq(Prices) /\ Fits(ibkr[r], u)
  BY DEF Stream, DepthInv, DepthTypeOK
<1>3. PICK b \in Seq(Prices) : b = ibkr[r]
  BY <1>2
<1>4. Revised(b, u) \in Seq(Prices)
  BY <1>1, <1>2, <1>3, RevisedIs
<1>5. NotStreamed \notin Seq(Prices)
  <2> SUFFICES ASSUME NotStreamed \in Seq(Prices) PROVE FALSE
    OBVIOUS
  <2>1. NotStreamed[1] = -1 /\ 1 \in 1 .. Len(NotStreamed)
    BY DEF NotStreamed
  <2>2. -1 \in Prices
    BY <2>1
  <2> QED
    BY <2>2, DepthAssumption
<1>6. /\ ibkr' = [ibkr EXCEPT ![r] = Revised(ibkr[r], u)]
      /\ wire' = Append(wire, [req |-> r, u |-> u]) /\ Len(wire) < MaxWire
      /\ UNCHANGED <<market, rotator, routes, chan, books, link, rejects, history>>
  BY DEF Stream
<1> QED
  BY <1>1, <1>2, <1>3, <1>4, <1>5, <1>6

LEMMA StreamKeeps ==
    ASSUME DepthInv, NEW r \in Req, NEW u \in Updates, Stream(r, u)
    PROVE  DepthInv'
<1> DEFINE W == [req : Req, u : Update]
           new == Revised(ibkr[r], u)
<1>1. /\ u \in Update /\ new \in Seq(Prices) /\ new # NotStreamed
      /\ ibkr' = [ibkr EXCEPT ![r] = new]
      /\ wire' = Append(wire, [req |-> r, u |-> u]) /\ Len(wire) < MaxWire
      /\ UNCHANGED <<market, rotator, routes, chan, books, link, rejects, history>>
  BY StreamIs
<1> HIDE DEF new
<1>2. wire \in Seq(W) /\ ibkr \in [Req -> Seq(Prices) \union {NotStreamed}] /\ MaxWire \in Nat
  BY DepthAssumption DEF DepthInv, DepthTypeOK
<1>3. wire' \in Seq(W) /\ Len(wire') <= MaxWire
  <2>1. [req |-> r, u |-> u] \in W
    BY <1>1
  <2> HIDE DEF W
  <2>2. wire' \in Seq(W) /\ Len(wire') = Len(wire) + 1 /\ Len(wire) \in Nat
    BY <1>1, <1>2, <2>1, AppendProperties
  <2> QED
    BY <1>1, <1>2, <2>2
<1>4. ibkr' \in [Req -> Seq(Prices) \union {NotStreamed}]
  BY <1>1, <1>2
<1>5. DepthTypeOK'
  BY <1>1, <1>3, <1>4 DEF DepthInv, DepthTypeOK, market, rotator, history
<1>6. \A q \in Req : ibkr'[q] # NotStreamed => ibkr[q] # NotStreamed
  BY <1>1, <1>2 DEF Stream
<1> QED
  BY <1>1, <1>5, <1>6, OthersKeepWork

\* What the dispatcher does with the head of the wire.
LEMMA RouteIs ==
    ASSUME DepthInv, Route
    PROVE  /\ wire # <<>> /\ wire' = Tail(wire)
           /\ Head(wire) \in [req : Req, u : Update]
           /\ \/ /\ routes[Head(wire).req] \in Legs
                 /\ chan' = Append(chan, [leg |-> routes[Head(wire).req], u |-> Head(wire).u])
              \/ routes[Head(wire).req] = 0 /\ chan' = chan
           /\ UNCHANGED <<market, rotator, routes, books, ibkr, link, rejects, history>>
<1> DEFINE W == [req : Req, u : Update]
<1>1. /\ wire # <<>> /\ wire' = Tail(wire)
      /\ IF routes[Head(wire).req] # 0
         THEN chan' = Append(chan, [leg |-> routes[Head(wire).req], u |-> Head(wire).u])
         ELSE chan' = chan
      /\ UNCHANGED <<market, rotator, routes, books, ibkr, link, rejects, history>>
  BY DEF Route
<1>2. Head(wire) \in W
  <2>1. wire \in Seq(W)
    BY DEF DepthInv, DepthTypeOK
  <2> HIDE DEF W
  <2> QED
    BY <1>1, <2>1, HeadTailProperties
<1>3. Head(wire).req \in Req
  BY <1>2
<1>4. routes[Head(wire).req] \in Legs \union {0}
  BY <1>3 DEF DepthInv, DepthTypeOK
<1> QED
  BY <1>1, <1>2, <1>4

LEMMA RouteKeeps ==
    ASSUME DepthInv, Route
    PROVE  DepthInv'
<1> DEFINE W == [req : Req, u : Update]
           C == [leg : Legs, u : Update]
           m == Head(wire)
<1>1. /\ wire # <<>> /\ wire' = Tail(wire) /\ m \in W
      /\ \/ routes[m.req] \in Legs /\ chan' = Append(chan, [leg |-> routes[m.req], u |-> m.u])
         \/ routes[m.req] = 0 /\ chan' = chan
      /\ UNCHANGED <<market, rotator, routes, books, ibkr, link, rejects, history>>
  BY RouteIs
<1>2. wire \in Seq(W) /\ Len(wire) <= MaxWire /\ chan \in Seq(C) /\ MaxWire \in Nat
  BY DepthAssumption DEF DepthInv, DepthTypeOK
<1> HIDE DEF m
<1>3. wire' \in Seq(W) /\ Len(wire') <= MaxWire
  <2> HIDE DEF W
  <2>1. wire' \in Seq(W) /\ Len(wire') = Len(wire) - 1 /\ Len(wire) \in Nat
    BY <1>1, <1>2, HeadTailProperties
  <2> QED
    BY <1>2, <2>1
<1>4. chan' \in Seq(C)
  <2>1. CASE chan' = chan
    BY <1>2, <2>1
  <2>2. CASE routes[m.req] \in Legs /\ chan' = Append(chan, [leg |-> routes[m.req], u |-> m.u])
    <3>1. [leg |-> routes[m.req], u |-> m.u] \in C
      BY <1>1, <2>2
    <3> HIDE DEF C
    <3> QED
      BY <1>2, <2>2, <3>1, AppendProperties
  <2> QED
    BY <1>1, <2>1, <2>2
<1>5. DepthTypeOK'
  BY <1>1, <1>3, <1>4 DEF DepthInv, DepthTypeOK, market, rotator, history
<1> QED
  BY <1>1, <1>5, OthersKeepWork

\* pump_depth takes the head of the broadcast, or has lost it.
LEMMA HeadTaken ==
    ASSUME DepthInv, chan # <<>>
    PROVE  /\ Head(chan) \in [leg : Legs, u : Update]
           /\ Tail(chan) \in Seq([leg : Legs, u : Update])
<1> DEFINE C == [leg : Legs, u : Update]
<1>1. chan \in Seq(C)
  BY DEF DepthInv, DepthTypeOK
<1> HIDE DEF C
<1>2. Head(chan) \in C /\ Tail(chan) \in Seq(C)
  BY <1>1, HeadTailProperties
<1> QED
  BY <1>2 DEF C

LEMMA ReadKeeps ==
    ASSUME DepthInv, pump_depth \/ Lagged
    PROVE  DepthInv'
<1>1. chan # <<>> /\ chan' = Tail(chan)
      /\ UNCHANGED <<market, rotator, routes, wire, ibkr, link, rejects>>
  BY DEF pump_depth, Lagged
<1>2. synced' \in [Legs -> BOOLEAN]
  <2>1. CASE pump_depth
    BY <2>1 DEF pump_depth, history, DepthInv, DepthTypeOK
  <2>2. CASE Lagged
    <3>1. synced' = [synced EXCEPT ![Head(chan).leg] = FALSE] /\ synced \in [Legs -> BOOLEAN]
      BY <2>2 DEF Lagged, DepthInv, DepthTypeOK
    <3> QED
      BY <3>1, Zenon
  <2> QED
    BY <2>1, <2>2
<1>3. DepthTypeOK'
  BY <1>1, <1>2, HeadTaken DEF DepthInv, DepthTypeOK, market, rotator
<1> QED
  BY <1>1, <1>3, OthersKeepWork

LEMMA MarketKeeps ==
    ASSUME DepthInv,
           \/ \E p \in Spots : Move(p)
           \/ \E l \in Legs, order \in Orders : Register(l, order)
    PROVE  DepthInv'
<1>1. UNCHANGED <<rotator, routes, wire, chan, books, ibkr, link, rejects, synced>>
  BY DEF Move, Register
<1>2. und' \in Spots /\ quoted' \subseteq Legs /\ iter' \in Orders
  BY DEF Move, Register, DepthInv, DepthTypeOK
<1>3. DepthTypeOK'
  BY <1>1, <1>2 DEF DepthInv, DepthTypeOK, rotator
<1> QED
  BY <1>1, <1>3, OthersKeepWork

LEMMA BreakKeeps ==
    ASSUME DepthInv, Break
    PROVE  DepthInv'
<1>1. /\ link' = FALSE /\ ibkr' = [r \in Req |-> NotStreamed] /\ wire' = <<>>
      /\ UNCHANGED <<market, rotator, routes, chan, books, rejects, history>>
  BY DEF Break
<1>2. wire' \in Seq([req : Req, u : Update]) /\ Len(wire') <= MaxWire
  <2>1. Len(<<>>) = 0 /\ <<>> \in Seq([req : Req, u : Update])
    OBVIOUS
  <2> QED
    BY <1>1, <2>1, DepthAssumption
<1>3. ibkr' \in [Req -> Seq(Prices) \union {NotStreamed}]
  BY <1>1
<1>4. DepthTypeOK'
  BY <1>1, <1>2, <1>3 DEF DepthInv, DepthTypeOK, market, rotator, history
<1>5. \A q \in Req : ibkr'[q] # NotStreamed => ibkr[q] # NotStreamed
  BY <1>1
<1> QED
  BY <1>1, <1>4, <1>5, OthersKeepWork

LEMMA DepthInvInit ==
    ASSUME Init
    PROVE  DepthInv
<1>1. /\ todo = [cancel |-> <<>>, add |-> <<>>] /\ active = [l \in Legs |-> NoReq]
      /\ routes = [r \in Req |-> 0] /\ ibkr = [r \in Req |-> NotStreamed]
      /\ wire = <<>> /\ chan = <<>> /\ link = TRUE /\ synced = [l \in Legs |-> TRUE]
      /\ und \in Spots /\ quoted = Watched /\ iter \in Orders /\ cursor = 0
  BY DEF Init, Idle
<1>2. /\ <<>> \in Seq(Legs) /\ Len(<<>>) = 0
      /\ <<>> \in Seq([req : Req, u : Update]) /\ <<>> \in Seq([leg : Legs, u : Update])
  OBVIOUS
<1>3. DepthTypeOK
  BY <1>1, <1>2, DepthAssumption DEF DepthTypeOK
<1>4. todo.cancel = <<>> /\ todo.add = <<>>
  BY <1>1
<1>5. WorkOK
  BY <1>4 DEF WorkOK
<1>6. LimitOK
  <2>1. Held = {}
    BY <1>1 DEF Held
  <2>2. Range(<<>>) = {}
    BY DEF Range
  <2>3. (Held \ Range(todo.cancel)) \union Range(todo.add) = {}
    BY <1>4, <2>1, <2>2
  <2>4. Cardinality({}) = 0 /\ MaxActive \in Nat
    BY FS_EmptySet, DepthAssumption
  <2>5. Cardinality({}) <= MaxActive
    BY <2>4
  <2> QED
    BY <2>1, <2>3, <2>5 DEF LimitOK
<1>7. RequestsOK
  BY <1>1 DEF RequestsOK, RoutesOwned
<1> QED
  BY <1>3, <1>5, <1>6, <1>7 DEF DepthInv

LEMMA DepthInvStep ==
    ASSUME DepthInv, [Next]_vars
    PROVE  DepthInv'
<1>1. CASE Cycle
  BY <1>1, CycleKeeps
<1>2. CASE unsubscribe_market_depth
  BY <1>2, UnsubscribeKeeps
<1>3. CASE subscribe_market_depth
  BY <1>3, SubscribeKeeps
<1>4. CASE \E r \in Req, u \in Updates : Stream(r, u)
  BY <1>4, StreamKeeps
<1>5. CASE Route
  BY <1>5, RouteKeeps
<1>6. CASE pump_depth \/ Lagged
  BY <1>6, ReadKeeps
<1>7. CASE \/ \E p \in Spots : Move(p)
           \/ \E l \in Legs, order \in Orders : Register(l, order)
  BY <1>7, MarketKeeps
<1>8. CASE Break
  BY <1>8, BreakKeeps
<1>9. CASE UNCHANGED vars
  <2>1. UNCHANGED <<und, quoted, iter, cursor, todo, active, routes, wire, chan, ibkr, link, synced>>
    BY <1>9 DEF vars
  <2>2. DepthTypeOK'
    BY <2>1 DEF DepthInv, DepthTypeOK
  <2> QED
    BY <2>1, <2>2, OthersKeepWork DEF rotator
<1> QED
  BY <1>1, <1>2, <1>3, <1>4, <1>5, <1>6, <1>7, <1>8, <1>9 DEF Next

\* What the rotator holds, wants and is streamed always fits together.
THEOREM DepthInvariant == Spec => []DepthInv
BY DepthInvInit, DepthInvStep, PTL DEF Spec

\* The depth routes of NativeBroker are always those of the handles that
\* run_depth_rotator holds, for every number of legs and lines.
THEOREM RoutesOwnedAlways == Spec => []RoutesOwned
<1>1. DepthInv => RoutesOwned
  BY DEF DepthInv, RequestsOK
<1> QED
  BY <1>1, DepthInvariant, PTL

\* run_depth_rotator never has more than MAX_ACTIVE depth requests open at
\* IBKR, in the middle of a cycle included.
THEOREM DepthWithinLimitAlways == Spec => []DepthWithinLimit
<1>1. ASSUME DepthInv PROVE DepthWithinLimit
  <2> DEFINE f == [l \in Held |-> active[l]]
             T == {f[l] : l \in Held}
  <2>1. DepthTypeOK /\ LimitOK /\ RequestsOK
    BY <1>1 DEF DepthInv
  <2>2. IsFiniteSet(Held)
    BY DepthAssumption, FS_Subset DEF Held
  <2>3. DOMAIN f = Held
    OBVIOUS
  <2>4. Streamed \subseteq T
    <3> SUFFICES ASSUME NEW r \in Streamed PROVE r \in T
      OBVIOUS
    <3>1. r \in Req /\ r # NoReq /\ routes[r] # 0
      BY <2>1, DepthAssumption DEF Streamed, RequestsOK, Req, NoReq
    <3>2. routes[r] \in Legs /\ active[routes[r]] = r
      BY <2>1, <3>1 DEF RequestsOK, RoutesOwned, DepthTypeOK
    <3>3. routes[r] \in Held /\ f[routes[r]] = r
      BY <3>1, <3>2 DEF Held
    <3> QED
      BY <3>3
  <2> HIDE DEF f
  <2>5. IsFiniteSet(T) /\ Cardinality(T) <= Cardinality(Held)
    BY <2>2, <2>3, ImageBound
  <2> HIDE DEF T
  <2>6. IsFiniteSet(Streamed) /\ Cardinality(Streamed) <= Cardinality(T)
    BY <2>4, <2>5, FS_Subset
  <2>7. Cardinality(Held) \in Nat /\ Cardinality(T) \in Nat /\ Cardinality(Streamed) \in Nat
    BY <2>2, <2>5, <2>6, FS_CardinalityType
  <2> QED
    BY <2>1, <2>5, <2>6, <2>7, DepthAssumption DEF DepthWithinLimit, LimitOK
<1> QED
  BY <1>1, DepthInvariant, PTL

-----------------------------------------------------------------------------
(* Every step keeps BookInv.                                               *)

LEMMA FlowTypes ==
    ASSUME DepthInv
    PROVE  chan \in Chans /\ wire \in Wires
BY DEF DepthInv, DepthTypeOK, Chans, Wires

LEMMA StillKeepsBooks ==
    ASSUME BookInv, UNCHANGED <<active, synced, link, ibkr, chan, wire, books>>
    PROVE  BookInv'
<1>1. BooksTypeOK'
  BY DEF BookInv, BooksTypeOK
<1>2. ASSUME NEW l \in Legs, Following(l)'
      PROVE  \E g : Trail(g, l, active'[l], chan', wire', books'[l], ibkr'[active'[l]])
  <2>1. Following(l)
    BY <1>2 DEF Following
  <2> QED
    BY <2>1 DEF BookInv
<1> QED
  BY <1>1, <1>2 DEF BookInv

LEMMA UnsubscribeKeepsBooks ==
    ASSUME DepthInv, BookInv, unsubscribe_market_depth
    PROVE  BookInv'
<1> DEFINE k == Head(todo.cancel)
           r == active[k]
<1>1. /\ todo.cancel # <<>> /\ todo.cancel \in Seq(Legs)
      /\ active \in [Legs -> Req \union {NoReq}]
      /\ ibkr \in [Req -> Seq(Prices) \union {NotStreamed}]
  BY DEF unsubscribe_market_depth, DepthInv, DepthTypeOK
<1>2. k \in Legs /\ r # NoReq
  <2>1. k = todo.cancel[1] /\ 1 \in DOMAIN todo.cancel /\ k \in Legs
    BY <1>1
  <2> QED
    BY <2>1 DEF DepthInv, WorkOK
<1>3. /\ active' = [active EXCEPT ![k] = NoReq] /\ ibkr' = [ibkr EXCEPT ![r] = NotStreamed]
      /\ UNCHANGED <<chan, wire, books, link, synced>>
  BY DEF unsubscribe_market_depth, history
<1> HIDE DEF k, r
<1>4. BooksTypeOK'
  BY <1>3 DEF BookInv, BooksTypeOK
<1>5. ASSUME NEW l \in Legs, Following(l)'
      PROVE  \E g : Trail(g, l, active'[l], chan', wire', books'[l], ibkr'[active'[l]])
  <2>1. l # k
    BY <1>1, <1>2, <1>3, <1>5 DEF Following
  <2>2. active'[l] = active[l] /\ active[l] # NoReq /\ active[l] \in Req
    BY <1>1, <1>3, <1>5, <2>1 DEF Following
  <2>3. active[l] # r
    BY <1>2, <2>1, <2>2, HandlesDiffer DEF r
  <2>4. ibkr'[active[l]] = ibkr[active[l]]
    BY <1>1, <1>3, <2>2, <2>3
  <2>5. Following(l)
    BY <1>3, <1>5, <2>2, <2>4 DEF Following
  <2> QED
    BY <1>3, <2>2, <2>4, <2>5 DEF BookInv
<1> QED
  BY <1>4, <1>5 DEF BookInv

LEMMA SubscribeKeepsBooks ==
    ASSUME DepthInv, BookInv, subscribe_market_depth
    PROVE  BookInv'
<1> DEFINE k == Head(todo.add)
           r == FreshReq
<1>1. /\ k \in Legs /\ active[k] = NoReq /\ Subscribed(k, r)
      /\ UNCHANGED <<wire, chan, books, link>>
  BY SubscribeIs
<1>2. /\ r \in Req /\ ibkr[r] = NotStreamed
      /\ \A l \in Legs : active[l] # r
      /\ \A i \in DOMAIN wire : wire[i].req # r
  BY FreshReqIs
<1> HIDE DEF k, r
<1>3. /\ active \in [Legs -> Req \union {NoReq}] /\ synced \in [Legs -> BOOLEAN]
      /\ ibkr \in [Req -> Seq(Prices) \union {NotStreamed}]
  BY DEF DepthInv, DepthTypeOK
<1>4. BooksTypeOK'
  BY <1>1 DEF BookInv, BooksTypeOK
<1>5. CASE ~link
  BY <1>1, <1>5, StillKeepsBooks DEF Subscribed
<1>6. CASE link
  <2>1. /\ active' = [active EXCEPT ![k] = r] /\ synced' = [synced EXCEPT ![k] = TRUE]
        /\ ibkr' = [ibkr EXCEPT ![r] = <<>>] \/ ibkr' = ibkr
    BY <1>1, <1>6 DEF Subscribed
  <2>2. ASSUME NEW l \in Legs, Following(l)'
        PROVE  \E g : Trail(g, l, active'[l], chan', wire', books'[l], ibkr'[active'[l]])
    <3>1. CASE l = k
      <4>1. active'[l] = r
        BY <1>3, <2>1, <3>1
      <4>2. ibkr'[r] = <<>>
        BY <1>2, <1>3, <2>1, <2>2, <4>1 DEF Following
      <4>3. chan' \in Chans /\ wire' \in Wires /\ books'[l] \in Seq(Prices)
        BY <1>1, FlowTypes DEF BookInv, BooksTypeOK
      <4>4. \A i \in DOMAIN wire' : wire'[i].req # r
        BY <1>1, <1>2
      <4>5. PICK c \in Chans, w \in Wires, b \in Seq(Prices) :
                c = chan' /\ w = wire' /\ b = books'[l]
        BY <4>3
      <4>6. \E g : Trail(g, l, r, c, w, b, <<>>)
        BY <4>4, <4>5, TrailStart
      <4> QED
        BY <4>1, <4>2, <4>5, <4>6
    <3>2. CASE l # k
      <4>1. active'[l] = active[l] /\ synced'[l] = synced[l]
        BY <1>3, <2>1, <3>2
      <4>2. active[l] # r /\ active[l] \in Req
        BY <1>2, <1>3, <2>2, <4>1 DEF Following
      <4>3. ibkr'[active[l]] = ibkr[active[l]]
        BY <1>3, <2>1, <4>2
      <4>4. Following(l)
        BY <1>1, <2>2, <4>1, <4>3 DEF Following
      <4> QED
        BY <1>1, <4>1, <4>3, <4>4 DEF BookInv
    <3> QED
      BY <3>1, <3>2
  <2> QED
    BY <1>4, <2>2 DEF BookInv
<1> QED
  BY <1>5, <1>6

LEMMA StreamKeepsBooks ==
    ASSUME DepthInv, BookInv, NEW r \in Req, NEW u \in Updates, Stream(r, u)
    PROVE  BookInv'
<1> DEFINE rev == Revised(ibkr[r], u)
<1>1. /\ u \in Update /\ ibkr[r] \in Seq(Prices) /\ Fits(ibkr[r], u)
      /\ rev \in Seq(Prices) /\ ibkr' = [ibkr EXCEPT ![r] = rev]
      /\ wire' = Append(wire, [req |-> r, u |-> u])
      /\ UNCHANGED <<market, rotator, routes, chan, books, link, rejects, history>>
  BY StreamIs
<1>2. /\ active \in [Legs -> Req \union {NoReq}] /\ ibkr[r] # NotStreamed
      /\ ibkr \in [Req -> Seq(Prices) \union {NotStreamed}]
  BY DEF Stream, DepthInv, DepthTypeOK
<1>3. UNCHANGED <<active, synced, link, chan, books>>
  BY <1>1 DEF rotator, history
<1>4. BooksTypeOK'
  BY <1>3 DEF BookInv, BooksTypeOK
<1>5. ASSUME NEW l \in Legs, Following(l)'
      PROVE  \E g : Trail(g, l, active'[l], chan', wire', books'[l], ibkr'[active'[l]])
  <2> DEFINE q == active[l]
             top == ibkr[q]
             new == ibkr'[q]
  <2>1. q \in Req /\ active'[l] = q
    BY <1>2, <1>3, <1>5 DEF Following
  <2>2. new = IF q = r THEN rev ELSE top
    BY <1>1, <1>2, <2>1
  <2>3. Following(l)
    BY <1>2, <1>3, <1>5, <2>1, <2>2 DEF Following
  <2>4. PICK g : Trail(g, l, q, chan, wire, books[l], top)
    BY <2>3 DEF BookInv
  <2>5. new \in Seq(Prices)
    BY <1>1, <1>2, <2>1, <2>2, <2>3 DEF Following
  <2>6. IF r = q THEN Fits(top, u) /\ new = Revised(top, u) ELSE new = top
    BY <1>1, <2>2
  <2>7. chan \in Chans /\ wire \in Wires
    BY FlowTypes
  <2> HIDE DEF q, top, new, rev
  <2>8. \E h : Trail(h, l, q, chan, Append(wire, [req |-> r, u |-> u]), books[l], new)
    BY <1>1, <2>4, <2>5, <2>6, <2>7, TrailStream
  <2> QED
    BY <1>1, <1>3, <2>1, <2>8 DEF new
<1> QED
  BY <1>4, <1>5 DEF BookInv

LEMMA RouteKeepsBooks ==
    ASSUME DepthInv, BookInv, Route
    PROVE  BookInv'
<1> DEFINE m == Head(wire)
           k == routes[m.req]
<1>1. /\ wire # <<>> /\ wire' = Tail(wire) /\ m \in [req : Req, u : Update]
      /\ \/ k \in Legs /\ chan' = Append(chan, [leg |-> k, u |-> m.u])
         \/ k = 0 /\ chan' = chan
      /\ UNCHANGED <<market, rotator, routes, books, ibkr, link, rejects, history>>
  BY RouteIs
<1>2. UNCHANGED <<active, synced, link, ibkr, books>>
  BY <1>1 DEF rotator, history
<1>3. BooksTypeOK'
  BY <1>2 DEF BookInv, BooksTypeOK
<1>4. chan \in Chans /\ wire \in Wires
  BY FlowTypes
<1>5. ASSUME NEW l \in Legs, Following(l)'
      PROVE  \E g : Trail(g, l, active'[l], chan', wire', books'[l], ibkr'[active'[l]])
  <2> DEFINE q == active[l]
  <2>1. Following(l) /\ q # NoReq
    BY <1>2, <1>5 DEF Following
  <2>2. PICK g : Trail(g, l, q, chan, wire, books[l], ibkr[q])
    BY <2>1 DEF BookInv
  <2>3. routes[q] = l
    BY <2>1 DEF DepthInv, RequestsOK
  <2>4. CASE k \in Legs /\ chan' = Append(chan, [leg |-> k, u |-> m.u])
    <3>1. k # 0 /\ m.req \in Req
      BY <1>1, <2>4, DepthAssumption
    <3>2. active[k] = m.req
      BY <3>1 DEF DepthInv, RequestsOK, RoutesOwned
    <3>3. k = l <=> m.req = q
      BY <2>3, <3>2
    <3> HIDE DEF k
    <3>4. Trail(g, l, q, Append(chan, [leg |-> k, u |-> m.u]), Tail(wire), books[l], ibkr[q])
      <4> HIDE DEF q
      <4> QED
        BY <1>1, <1>4, <2>2, <2>4, <3>3, TrailRoute
    <3> QED
      BY <1>1, <1>2, <2>4, <3>4
  <2>5. CASE k = 0 /\ chan' = chan
    <3>1. m.req # q
      BY <2>3, <2>5, DepthAssumption
    <3>2. \E h : Trail(h, l, q, chan, Tail(wire), books[l], ibkr[q])
      <4> HIDE DEF q
      <4> QED
        BY <1>1, <1>4, <2>2, <3>1, TrailDrop
    <3> QED
      BY <1>1, <1>2, <2>5, <3>2
  <2> QED
    BY <1>1, <2>4, <2>5
<1> QED
  BY <1>3, <1>5 DEF BookInv

LEMMA ReadKeepsBooks ==
    ASSUME DepthInv, BookInv, pump_depth \/ Lagged
    PROVE  BookInv'
<1> DEFINE k == Head(chan).leg
           u == Head(chan).u
<1>1. /\ chan # <<>> /\ chan' = Tail(chan)
      /\ UNCHANGED <<active, wire, ibkr, link>>
  BY DEF pump_depth, Lagged, rotator
<1>2. k \in Legs /\ u \in Update
  <2>1. Head(chan) \in [leg : Legs, u : Update]
    BY <1>1, HeadTaken
  <2> QED
    BY <2>1
<1>3. /\ books \in [Legs -> Seq(Prices)] /\ synced \in [Legs -> BOOLEAN]
      /\ \A l \in Legs : Len(books[l]) <= Rows
  BY DEF BookInv, BooksTypeOK, DepthInv, DepthTypeOK
<1>4. \/ books' = [books EXCEPT ![k] = apply(books[k], u)] /\ synced' = synced
      \/ books' = books /\ synced' = [synced EXCEPT ![k] = FALSE]
  BY DEF pump_depth, Lagged, history
<1> HIDE DEF k, u
<1>5. apply(books[k], u) \in Seq(Prices) /\ Len(apply(books[k], u)) <= Rows
  <2>1. PICK b \in Seq(Prices) : b = books[k] /\ Len(b) <= Rows
    BY <1>2, <1>3
  <2> QED
    BY <1>2, <2>1, ApplyKeeps
<1>6. BooksTypeOK'
  BY <1>2, <1>3, <1>4, <1>5 DEF BooksTypeOK
<1>7. chan \in Chans /\ wire \in Wires
  BY FlowTypes
<1>8. ASSUME NEW l \in Legs, Following(l)'
      PROVE  \E g : Trail(g, l, active'[l], chan', wire', books'[l], ibkr'[active'[l]])
  <2> DEFINE q == active[l]
             b == books[l]
             new == books'[l]
  <2>1. Following(l) /\ (l = k => synced' = synced)
    BY <1>1, <1>2, <1>3, <1>4, <1>8 DEF Following
  <2>2. PICK g : Trail(g, l, q, chan, wire, b, ibkr[q])
    BY <2>1 DEF BookInv
  <2>3. b \in Seq(Prices) /\ Len(b) <= Rows /\ new \in Seq(Prices)
    BY <1>3, <1>6 DEF BooksTypeOK
  <2>4. synced' = synced \/ books' = books
    BY <1>4
  <2>5. CASE l # k
    <3>1. new = b
      BY <1>2, <1>3, <1>4, <2>5
    <3> HIDE DEF q, b, new
    <3>2. \E h : Trail(h, l, q, Tail(chan), wire, new, ibkr[q])
      BY <1>1, <1>7, <2>2, <2>3, <2>5, <3>1, TrailPump DEF k
    <3> QED
      BY <1>1, <3>2 DEF q, new
  <2>6. CASE l = k
    <3>1. new = apply(b, u)
      <4>1. synced'[k] # FALSE
        BY <1>8, <2>6 DEF Following
      <4>2. books' = [books EXCEPT ![k] = apply(books[k], u)]
        BY <1>2, <1>3, <1>4, <4>1
      <4> QED
        BY <1>2, <1>3, <2>6, <4>2
    <3> HIDE DEF q, b, new
    <3>2. \E h : Trail(h, l, q, Tail(chan), wire, new, ibkr[q])
      BY <1>1, <1>7, <2>2, <2>3, <2>6, <3>1, TrailPump DEF k, u
    <3> QED
      BY <1>1, <3>2 DEF q, new
  <2> QED
    BY <2>5, <2>6
<1> QED
  BY <1>6, <1>8 DEF BookInv

LEMMA BookInvInit ==
    ASSUME Init
    PROVE  BookInv
<1>1. books = [l \in Legs |-> <<>>] /\ active = [l \in Legs |-> NoReq]
  BY DEF Init
<1>2. <<>> \in Seq(Prices) /\ Len(<<>>) = 0
  OBVIOUS
<1>3. BooksTypeOK
  BY <1>1, <1>2, DepthAssumption DEF BooksTypeOK
<1>4. \A l \in Legs : ~Following(l)
  BY <1>1 DEF Following
<1> QED
  BY <1>3, <1>4 DEF BookInv

LEMMA BookInvStep ==
    ASSUME DepthInv, BookInv, [Next]_vars
    PROVE  BookInv'
<1>1. CASE Cycle
  BY <1>1, StillKeepsBooks DEF Cycle
<1>2. CASE unsubscribe_market_depth
  BY <1>2, UnsubscribeKeepsBooks
<1>3. CASE subscribe_market_depth
  BY <1>3, SubscribeKeepsBooks
<1>4. CASE \E r \in Req, u \in Updates : Stream(r, u)
  BY <1>4, StreamKeepsBooks
<1>5. CASE Route
  BY <1>5, RouteKeepsBooks
<1>6. CASE pump_depth \/ Lagged
  BY <1>6, ReadKeepsBooks
<1>7. CASE \/ \E p \in Spots : Move(p)
           \/ \E l \in Legs, order \in Orders : Register(l, order)
  <2>1. UNCHANGED <<active, synced, link, ibkr, chan, wire, books>>
    BY <1>7 DEF Move, Register, rotator
  <2> QED
    BY <2>1, StillKeepsBooks
<1>8. CASE Break
  <2>1. link' = FALSE /\ books' = books
    BY <1>8 DEF Break
  <2>2. BooksTypeOK'
    BY <2>1 DEF BookInv, BooksTypeOK
  <2>3. \A l \in Legs : ~Following(l)'
    BY <2>1 DEF Following
  <2> QED
    BY <2>2, <2>3 DEF BookInv
<1>9. CASE UNCHANGED vars
  BY <1>9, StillKeepsBooks DEF vars
<1> QED
  BY <1>1, <1>2, <1>3, <1>4, <1>5, <1>6, <1>7, <1>8, <1>9 DEF Next

\* The book that pump_depth keeps of a subscribed leg is IBKR's whenever no
\* update is in flight and none was lost, for every number of rows and
\* whatever earlier subscriptions of the leg left in the channel and the book.
THEOREM BookFollowsAlways == Spec => []BookFollows
<1>1. Init => DepthInv /\ BookInv
  BY DepthInvInit, BookInvInit
<1>2. DepthInv /\ BookInv /\ [Next]_vars => (DepthInv /\ BookInv)'
  BY DepthInvStep, BookInvStep
<1>3. ASSUME DepthInv, BookInv PROVE BookFollows
  <2> SUFFICES ASSUME NEW l \in Legs, active[l] # NoReq, synced[l], link,
                      active[l] \in Streamed, Settled(l)
               PROVE  IsPrefix(ibkr[active[l]], books[l])
    BY DEF BookFollows
  <2> DEFINE q == active[l]
  <2>1. Following(l)
    BY DEF Following, Streamed
  <2>2. PICK g : Trail(g, l, q, chan, wire, books[l], ibkr[q])
    BY <1>3, <2>1 DEF BookInv
  <2>3. chan \in Chans /\ wire \in Wires
    BY <1>3, FlowTypes
  <2>4. /\ \A i \in DOMAIN chan : chan[i].leg # l
        /\ \A i \in DOMAIN wire : wire[i].req # q
    BY DEF Settled
  <2> HIDE DEF q
  <2>5. IsPrefix(ibkr[q], books[l])
    BY <2>2, <2>3, <2>4, TrailSettled
  <2> QED
    BY <2>5 DEF q
<1> QED
  BY <1>1, <1>2, <1>3, PTL DEF Spec

-----------------------------------------------------------------------------
(* The wings get their turn.                                               *)

PoolLen == Len(Pool(Candidates))
Slots == Take(RotateSlots, PoolLen)

\* How far the cursor is from a leg of the pool.
Ahead(l) ==
    LET x == Rank(l) - FixedNearest - 1
        a == cursor % PoolLen
    IN  IF a <= x THEN x - a ELSE x - a + PoolLen

\* A leg that waits has waited for no more cycles than the cursor needed to
\* come as close to it as it is.
Waits(l) ==
    /\ Rank(l) > FixedNearest
    /\ missed[l] * Slots + Ahead(l) < PoolLen

\* A leg that has gone without depth has a market and is not about to be
\* cancelled; it is subscribed, about to be, or waits.
LegCovered(l) ==
    /\ missed[l] \in 0 .. Patience
    /\ missed[l] > 0 => l \in quoted /\ l \notin Range(todo.cancel)
    /\ (missed[l] > 0 /\ active[l] = NoReq /\ l \notin Range(todo.add)) => Waits(l)

CoverInv == missed \in [Legs -> Nat] /\ (link => \A l \in Legs : LegCovered(l))

\* The remainder is unique.
LEMMA RemainderIs ==
    ASSUME NEW n \in Nat, n # 0, NEW p \in Int, NEW r \in 0 .. n - 1, NEW x \in Nat, x = n * p + r
    PROVE  x % n = r
<1> DEFINE q == x \div n
           s == x % n
<1>1. q \in Int /\ s \in 0 .. n - 1 /\ x = n * q + s
  OBVIOUS
<1> HIDE DEF q, s
<1>2. n * (p - q) = s - r
  BY <1>1
<1>3. p - q <= 0
  <2> SUFFICES ASSUME p - q >= 1 PROVE FALSE
    BY <1>1
  <2>1. n * (p - q) >= n
    BY <1>1
  <2> QED
    BY <1>1, <1>2, <2>1
<1>4. p - q >= 0
  <2> SUFFICES ASSUME q - p >= 1 PROVE FALSE
    BY <1>1
  <2>1. n * (q - p) >= n
    BY <1>1
  <2>2. n * (q - p) = r - s
    BY <1>1
  <2> QED
    BY <1>1, <2>1, <2>2
<1>5. p = q
  BY <1>1, <1>3, <1>4
<1>6. s = r
  BY <1>1, <1>5
<1> QED
  BY <1>6 DEF s

\* Going on by t in a ring of n.
LEMMA WrapAdd ==
    ASSUME NEW k \in Nat, NEW n \in Nat, n # 0, NEW t \in 0 .. n
    PROVE  /\ k % n \in 0 .. n - 1
           /\ (k + t) % n = IF (k % n) + t < n THEN (k % n) + t ELSE (k % n) + t - n
<1> DEFINE q == k \div n
           a == k % n
<1>1. q \in Int /\ a \in 0 .. n - 1 /\ k = n * q + a
  OBVIOUS
<1> HIDE DEF q, a
<1>2. CASE a + t < n
  <2>1. k + t = n * q + (a + t) /\ a + t \in 0 .. n - 1 /\ k + t \in Nat
    BY <1>1, <1>2
  <2>2. (k + t) % n = a + t
    BY <1>1, <2>1, RemainderIs
  <2> QED
    BY <1>1, <1>2, <2>2 DEF a
<1>3. CASE ~(a + t < n)
  <2>1. k + t = n * (q + 1) + (a + t - n) /\ a + t - n \in 0 .. n - 1 /\ k + t \in Nat /\ q + 1 \in Int
    BY <1>1, <1>3
  <2>2. (k + t) % n = a + t - n
    <3>1. PICK r \in 0 .. n - 1, p \in Int, x \in Nat : r = a + t - n /\ p = q + 1 /\ x = k + t
      BY <2>1
    <3>2. x = n * p + r
      BY <2>1, <3>1
    <3>3. x % n = r
      BY <3>2, RemainderIs
    <3> QED
      BY <3>1, <3>3
  <2> QED
    BY <1>1, <1>3, <2>2 DEF a
<1> QED
  BY <1>2, <1>3

\* The pool is what is left of the candidates after the always-on legs.
LEMMA PoolIs ==
    ASSUME DepthTypeOK
    PROVE  /\ Cardinality(quoted) \in Nat /\ Cardinality(quoted) <= Cardinality(Legs)
           /\ PoolLen \in Nat /\ FixedNearest \in Nat /\ RotateSlots \in Nat /\ RotateSlots # 0
           /\ Cardinality(Legs) \in Nat
           /\ PoolLen = IF FixedNearest < Cardinality(quoted)
                        THEN Cardinality(quoted) - FixedNearest ELSE 0
           /\ \A i \in 1 .. PoolLen : Pool(Candidates)[i] = Candidates[FixedNearest + i]
           /\ Slots = IF RotateSlots < PoolLen THEN RotateSlots ELSE PoolLen
<1> DEFINE c == Candidates
<1>1. c \in Seq(Legs) /\ Len(c) = Cardinality(quoted)
  BY CandidatesAre
<1>2. FixedNearest \in Nat /\ RotateSlots \in Nat /\ RotateSlots # 0
  BY DepthAssumption DEF RotateSlots
<1>3. IsFiniteSet(quoted) /\ Cardinality(quoted) <= Cardinality(Legs)
  BY DepthAssumption, FS_Subset DEF DepthTypeOK
<1>4. Cardinality(quoted) \in Nat /\ Cardinality(Legs) \in Nat
  BY <1>3, DepthAssumption, FS_CardinalityType
<1> HIDE DEF c
<1>5. /\ Len(SubSeq(c, FixedNearest + 1, Len(c))) =
            IF FixedNearest + 1 <= Len(c) THEN Len(c) - (FixedNearest + 1) + 1 ELSE 0
      /\ \A i \in 1 .. Len(c) - (FixedNearest + 1) + 1 :
             SubSeq(c, FixedNearest + 1, Len(c))[i] = c[(FixedNearest + 1) + i - 1]
  <2>1. FixedNearest + 1 \in Int /\ Len(c) \in Int
    BY <1>1, <1>2
  <2>2. \A i \in FixedNearest + 1 .. Len(c) : c[i] \in Legs
    BY <1>1, <1>2
  <2> QED
    BY <2>1, <2>2, SubSeqProperties
<1>6. PoolLen = Len(SubSeq(c, FixedNearest + 1, Len(c)))
  BY DEF PoolLen, Pool, c
<1>7. PoolLen = IF FixedNearest < Cardinality(quoted) THEN Cardinality(quoted) - FixedNearest ELSE 0
  BY <1>1, <1>2, <1>4, <1>5, <1>6
<1>8. PoolLen \in Nat
  BY <1>2, <1>4, <1>7
<1>9. ASSUME NEW i \in 1 .. PoolLen PROVE Pool(c)[i] = c[FixedNearest + i]
  <2>1. i \in 1 .. Len(c) - (FixedNearest + 1) + 1 /\ (FixedNearest + 1) + i - 1 = FixedNearest + i
    BY <1>1, <1>2, <1>4, <1>7
  <2> QED
    BY <1>5, <2>1 DEF Pool
<1>10. Slots = IF RotateSlots < PoolLen THEN RotateSlots ELSE PoolLen
  BY DEF Slots, Take
<1> QED
  BY <1>2, <1>3, <1>4, <1>7, <1>8, <1>9, <1>10 DEF c

\* Where a leg of the pool stands.
LEMMA AheadIs ==
    ASSUME DepthTypeOK, NEW l \in quoted, Rank(l) > FixedNearest
    PROVE  /\ PoolLen # 0 /\ Rank(l) - FixedNearest - 1 \in 0 .. PoolLen - 1
           /\ cursor % PoolLen \in 0 .. PoolLen - 1
           /\ Ahead(l) \in 0 .. PoolLen - 1
           /\ Pool(Candidates)[Rank(l) - FixedNearest] = l
<1>1. Rank(l) \in 1 .. Cardinality(quoted) /\ Candidates[Rank(l)] = l
  <2>1. Candidates \in Seq(Legs) /\ Len(Candidates) = Cardinality(quoted)
        /\ Rank(l) \in DOMAIN Candidates /\ Candidates[Rank(l)] = l
    BY CandidatesAre
  <2>2. DOMAIN Candidates = 1 .. Len(Candidates)
    BY <2>1, LenProperties
  <2> QED
    BY <2>1, <2>2
<1>2. /\ Cardinality(quoted) \in Nat /\ PoolLen \in Nat /\ FixedNearest \in Nat
      /\ PoolLen = IF FixedNearest < Cardinality(quoted)
                   THEN Cardinality(quoted) - FixedNearest ELSE 0
      /\ \A i \in 1 .. PoolLen : Pool(Candidates)[i] = Candidates[FixedNearest + i]
  BY PoolIs
<1>3. cursor \in Nat
  BY DEF DepthTypeOK
<1> DEFINE n == PoolLen
           k == Rank(l)
           a == cursor % n
<1>4. n # 0 /\ n \in Nat /\ k - FixedNearest - 1 \in 0 .. n - 1
  BY <1>1, <1>2
<1>5. Pool(Candidates)[k - FixedNearest] = l
  <2>1. k - FixedNearest \in 1 .. n /\ FixedNearest + (k - FixedNearest) = k
    BY <1>1, <1>2
  <2> QED
    BY <1>1, <1>2, <2>1
<1>6. a \in 0 .. n - 1
  <2> HIDE DEF n
  <2> QED
    BY <1>3, <1>4
<1>7. Ahead(l) = IF a <= k - FixedNearest - 1 THEN k - FixedNearest - 1 - a
                 ELSE k - FixedNearest - 1 - a + n
  BY DEF Ahead
<1> HIDE DEF n, k, a
<1>8. Ahead(l) \in 0 .. n - 1
  BY <1>4, <1>6, <1>7
<1> QED
  BY <1>4, <1>5, <1>6, <1>8 DEF n, k, a

\* The always-on legs are chosen, and those of the pool that the cursor is
\* about to reach.
LEMMA ChosenCovers ==
    ASSUME DepthTypeOK, NEW l \in quoted, Rank(l) <= FixedNearest \/ Ahead(l) < Slots
    PROVE  l \in Range(Chosen(Candidates))
<1> DEFINE c == Candidates
           n == PoolLen
           rot == [i \in 1 .. Slots |-> Pool(c)[(((cursor % n) + (i - 1)) % n) + 1]]
<1>1. /\ c \in Seq(Legs) /\ Len(c) = Cardinality(quoted)
      /\ Rank(l) \in DOMAIN c /\ c[Rank(l)] = l
  BY CandidatesAre
<1>2. Rank(l) \in 1 .. Len(c) /\ Len(c) \in Nat
  BY <1>1, LenProperties
<1>3. /\ n \in Nat /\ FixedNearest \in Nat /\ RotateSlots \in Nat
      /\ Slots = IF RotateSlots < n THEN RotateSlots ELSE n
  BY PoolIs
<1>4. Slots \in 0 .. n
  BY <1>3
<1>5. Chosen(c) = Fixed(c) \o rot
  BY DEF Chosen, Slots, PoolLen
<1> HIDE DEF c, n
<1>6. /\ Fixed(c) \in Seq(Legs) /\ Len(Fixed(c)) = Take(FixedNearest, Len(c))
      /\ \A i \in 1 .. Take(FixedNearest, Len(c)) : Fixed(c)[i] = c[i]
  BY <1>1, <1>2, <1>3 DEF Fixed, Take
<1>7. rot \in Seq({rot[i] : i \in 1 .. Slots}) /\ Len(rot) = Slots
      /\ DOMAIN rot = 1 .. Slots
  <2> DEFINE S == {rot[i] : i \in 1 .. Slots}
  <2>1. rot \in [1 .. Slots -> S]
    OBVIOUS
  <2>2. Slots \in Nat
    BY <1>3, <1>4
  <2> HIDE DEF S, rot
  <2>3. rot \in Seq(S) /\ Len(rot) = Slots /\ DOMAIN rot = 1 .. Slots
    BY <2>1, <2>2
  <2> QED
    BY <2>3 DEF S
<1>8. /\ Len(Fixed(c) \o rot) = Len(Fixed(c)) + Slots
      /\ \A i \in 1 .. Len(Fixed(c)) : (Fixed(c) \o rot)[i] = Fixed(c)[i]
      /\ \A i \in 1 .. Slots : (Fixed(c) \o rot)[Len(Fixed(c)) + i] = rot[i]
      /\ DOMAIN (Fixed(c) \o rot) = 1 .. Len(Fixed(c)) + Slots
      /\ Len(Fixed(c)) \in Nat
  <2> DEFINE U == Legs \union {rot[i] : i \in 1 .. Slots}
  <2>1. Fixed(c) \in Seq(U) /\ rot \in Seq(U)
    BY <1>6, <1>7
  <2> HIDE DEF U, rot
  <2>2. Fixed(c) \o rot \in Seq(U) /\ Len(Fixed(c)) \in Nat /\ Len(rot) \in Nat
    BY <2>1, ConcatProperties, LenProperties
  <2>3. /\ Len(Fixed(c) \o rot) = Len(Fixed(c)) + Len(rot)
        /\ \A i \in 1 .. Len(Fixed(c)) + Len(rot) :
               (Fixed(c) \o rot)[i] = IF i <= Len(Fixed(c)) THEN Fixed(c)[i]
                                      ELSE rot[i - Len(Fixed(c))]
    BY <2>1, ConcatProperties
  <2>4. DOMAIN (Fixed(c) \o rot) = 1 .. Len(Fixed(c) \o rot)
    BY <2>2, LenProperties
  <2>5. ASSUME NEW i \in 1 .. Slots PROVE (Fixed(c) \o rot)[Len(Fixed(c)) + i] = rot[i]
    <3>1. /\ Len(Fixed(c)) + i \in 1 .. Len(Fixed(c)) + Len(rot)
          /\ ~(Len(Fixed(c)) + i <= Len(Fixed(c))) /\ (Len(Fixed(c)) + i) - Len(Fixed(c)) = i
      BY <1>4, <1>7, <2>2
    <3> QED
      BY <2>3, <3>1
  <2>6. \A i \in 1 .. Len(Fixed(c)) : (Fixed(c) \o rot)[i] = Fixed(c)[i]
    BY <2>2, <2>3
  <2> QED
    BY <1>7, <2>2, <2>3, <2>4, <2>5, <2>6
<1>9. CASE Rank(l) <= FixedNearest
  <2>1. Rank(l) \in 1 .. Len(Fixed(c))
    BY <1>2, <1>3, <1>6, <1>9 DEF Take
  <2>2. (Fixed(c) \o rot)[Rank(l)] = l /\ Rank(l) \in DOMAIN (Fixed(c) \o rot)
    BY <1>1, <1>3, <1>4, <1>6, <1>8, <2>1
  <2> HIDE DEF rot
  <2> QED
    BY <1>5, <2>2 DEF Range, c
<1>10. CASE Rank(l) > FixedNearest /\ Ahead(l) < Slots
  <2> DEFINE x == Rank(l) - FixedNearest - 1
             a == cursor % n
             d == Ahead(l)
  <2>1. /\ n # 0 /\ x \in 0 .. n - 1 /\ a \in 0 .. n - 1 /\ d \in 0 .. n - 1
        /\ Pool(c)[Rank(l) - FixedNearest] = l
    BY <1>10, AheadIs DEF c, n
  <2>2. d = IF a <= x THEN x - a ELSE x - a + n
    BY DEF Ahead, n
  <2>3. (a + d) % n = x
    <3> HIDE DEF x, a, d
    <3>1. a \in Nat /\ d \in 0 .. n /\ n \in Nat
      BY <1>3, <2>1
    <3>2. a % n = a
      BY <1>3, <2>1
    <3>3. (a + d) % n = IF (a % n) + d < n THEN (a % n) + d ELSE (a % n) + d - n
      BY <2>1, <3>1, WrapAdd
    <3> QED
      BY <1>3, <2>1, <2>2, <3>2, <3>3
  <2>4. d + 1 \in 1 .. Slots /\ (d + 1) - 1 = d
    BY <1>3, <1>4, <1>10, <2>1
  <2>5. x + 1 = Rank(l) - FixedNearest
    BY <1>2, <1>3
  <2>6. rot[d + 1] = Pool(c)[((a + ((d + 1) - 1)) % n) + 1]
    BY <2>4
  <2>7. rot[d + 1] = l
    BY <2>1, <2>3, <2>4, <2>5, <2>6
  <2>8. /\ Len(Fixed(c)) + (d + 1) \in DOMAIN (Fixed(c) \o rot)
        /\ (Fixed(c) \o rot)[Len(Fixed(c)) + (d + 1)] = l
    <3> HIDE DEF rot, d
    <3>1. Len(Fixed(c)) + (d + 1) \in 1 .. Len(Fixed(c)) + Slots
      BY <1>3, <1>4, <1>8, <2>4
    <3> QED
      BY <1>8, <2>4, <2>7, <3>1
  <2> HIDE DEF rot
  <2> QED
    BY <1>5, <2>8 DEF Range, c
<1> QED
  BY <1>2, <1>3, <1>9, <1>10

\* A leg the cursor has not reached is waited for no longer than Patience.
LEMMA PatienceEnough ==
    ASSUME NEW m \in Nat, NEW n \in Nat, NEW K \in Nat, NEW R \in Nat, NEW t \in Nat,
           n # 0, R # 0, n <= K, t = IF R < n THEN R ELSE n, m * t < n
    PROVE  m + 1 <= (K + R - 1) \div R
<1> DEFINE x == K + R - 1
           q == x \div R
           s == x % R
<1>1. x \in Nat /\ q \in Int /\ s \in 0 .. R - 1 /\ x = R * q + s
  OBVIOUS
<1>2. (m + 1) * R <= x
  <2>1. CASE R < n
    <3>1. m * R < n
      BY <2>1
    <3>2. (m + 1) * R = m * R + R
      OBVIOUS
    <3>3. m * R \in Nat
      OBVIOUS
    <3> QED
      BY <3>1, <3>2, <3>3 DEF x
  <2>2. CASE ~(R < n)
    <3>1. m * n < n
      BY <2>2
    <3>2. m = 0
      <4> SUFFICES ASSUME m >= 1 PROVE FALSE
        OBVIOUS
      <4>1. m * n >= n
        OBVIOUS
      <4>2. m * n \in Nat
        OBVIOUS
      <4> QED
        BY <3>1, <4>1, <4>2
    <3> QED
      BY <3>2 DEF x
  <2> QED
    BY <2>1, <2>2
<1> HIDE DEF x, q, s
<1>3. (m + 1) - q <= 0
  <2> SUFFICES ASSUME (m + 1) - q >= 1 PROVE FALSE
    BY <1>1
  <2>1. R * ((m + 1) - q) >= R
    BY <1>1
  <2>2. R * ((m + 1) - q) = (m + 1) * R - R * q
    BY <1>1
  <2>3. (m + 1) * R \in Nat /\ R * q \in Int
    BY <1>1
  <2> QED
    BY <1>1, <1>2, <2>1, <2>2, <2>3
<1> QED
  BY <1>1, <1>3 DEF q, x

\* The cursor comes closer by the slots of a cycle, or the leg is chosen.
LEMMA CursorNears ==
    ASSUME DepthTypeOK, NEW l \in quoted, Rank(l) > FixedNearest, Ahead(l) >= Slots,
           NEW k, k = NextCursor(Candidates)
    PROVE  LET x == Rank(l) - FixedNearest - 1
               a == k % PoolLen
           IN  (IF a <= x THEN x - a ELSE x - a + PoolLen) = Ahead(l) - Slots
<1> DEFINE n == PoolLen
           x == Rank(l) - FixedNearest - 1
           b == cursor % n
           t == Slots
           a == k % n
<1>1. /\ n \in Nat /\ n # 0 /\ x \in 0 .. n - 1 /\ b \in 0 .. n - 1
      /\ Ahead(l) \in 0 .. n - 1
  BY AheadIs, PoolIs
<1>2. t = (IF RotateSlots < n THEN RotateSlots ELSE n) /\ RotateSlots \in Nat
  BY PoolIs
<1>3. Ahead(l) = IF b <= x THEN x - b ELSE x - b + n
  BY DEF Ahead
<1>4. k = (cursor + t) % n
  BY <1>1 DEF NextCursor, Slots, PoolLen
<1>5. cursor \in Nat
  BY DEF DepthTypeOK
<1> HIDE DEF n, x, t
<1>6. t \in 0 .. n
  BY <1>1, <1>2
<1>7. k = IF b + t < n THEN b + t ELSE b + t - n
  BY <1>1, <1>4, <1>5, <1>6, WrapAdd
<1>8. k \in 0 .. n - 1
  <2> HIDE DEF b
  <2> QED
    BY <1>1, <1>6, <1>7
<1>9. a = k
  BY <1>1, <1>8
<1>10. t <= Ahead(l)
  BY <1>1, <1>6 DEF t
<1> HIDE DEF a, b
<1>11. (IF a <= x THEN x - a ELSE x - a + n) = Ahead(l) - t
  BY <1>1, <1>3, <1>6, <1>7, <1>9, <1>10
<1> QED
  BY <1>11 DEF a, n, x, t

\* Only the market decides the order of the candidates.
LEMMA MarketStands ==
    ASSUME UNCHANGED <<und, quoted, iter>>
    PROVE  /\ \A l \in Legs : Rank(l)' = Rank(l)
           /\ Candidates' = Candidates /\ PoolLen' = PoolLen /\ Slots' = Slots
<1>1. \A l : Dist(l)' = Dist(l)
  BY DEF Dist
<1>2. \A l : Place(l)' = Place(l)
  BY DEF Place
<1>3. \A k, l : NoFurther(k, l)' <=> NoFurther(k, l)
  BY <1>1, <1>2 DEF NoFurther
<1>4. \A l : Rank(l)' = Rank(l)
  <2> SUFFICES ASSUME NEW l PROVE Rank(l)' = Rank(l)
    OBVIOUS
  <2>1. {k \in quoted : NoFurther(k, l)}' = {k \in quoted : NoFurther(k, l)}
    BY <1>3
  <2> QED
    BY <2>1 DEF Rank
<1>5. Candidates' = Candidates
  BY <1>4 DEF Candidates
<1>6. PoolLen' = PoolLen
  BY <1>5 DEF PoolLen, Pool
<1>7. Slots' = Slots
  BY <1>6 DEF Slots
<1> QED
  BY <1>4, <1>5, <1>6, <1>7

\* Nobody waits for longer because of a step that leaves the market, the cursor
\* and the count alone.
LEMMA WaitsKept ==
    ASSUME UNCHANGED <<und, quoted, iter, cursor, missed>>, NEW l \in Legs, Waits(l)
    PROVE  Waits(l)'
<1>1. Rank(l)' = Rank(l) /\ PoolLen' = PoolLen /\ Slots' = Slots
  BY MarketStands
<1>2. Ahead(l)' = Ahead(l)
  BY <1>1 DEF Ahead
<1> QED
  BY <1>1, <1>2 DEF Waits

LEMMA StillKeepsCover ==
    ASSUME CoverInv, UNCHANGED <<market, cursor, todo, active, link, missed>>
    PROVE  CoverInv'
<1>1. missed' = missed /\ link' = link /\ active' = active /\ todo' = todo /\ quoted' = quoted
  BY DEF market
<1>2. ASSUME NEW l \in Legs, LegCovered(l) PROVE LegCovered(l)'
  <2>1. Waits(l) => Waits(l)'
    BY WaitsKept DEF market
  <2> QED
    BY <1>1, <1>2, <2>1 DEF LegCovered, Patience, RotateSlots
<1> QED
  BY <1>1, <1>2 DEF CoverInv

LEMMA PatienceIsNat == Patience \in Nat
<1>1. IsFiniteSet(Legs) /\ FixedNearest \in Nat /\ RotateSlots \in Nat /\ RotateSlots # 0
  BY DepthAssumption DEF RotateSlots
<1>2. Cardinality(Legs) \in Nat
  BY <1>1, FS_CardinalityType
<1>3. CASE ~(Cardinality(Legs) <= FixedNearest)
  <2> DEFINE x == Cardinality(Legs) - FixedNearest + RotateSlots - 1
  <2>1. x \in Nat
    BY <1>1, <1>2, <1>3
  <2>2. Patience = x \div RotateSlots
    BY <1>3 DEF Patience
  <2> HIDE DEF x
  <2>3. x \div RotateSlots \in Nat
    BY <1>1, <2>1
  <2> QED
    BY <2>2, <2>3
<1> QED
  BY <1>3 DEF Patience

\* The market changed: the count starts again.
LEMMA MarketKeepsCover ==
    ASSUME missed' = [k \in Legs |-> 0]
    PROVE  CoverInv'
<1>1. Patience \in Nat
  BY PatienceIsNat
<1>2. ASSUME NEW l \in Legs PROVE LegCovered(l)'
  BY <1>1 DEF LegCovered, Patience, RotateSlots
<1> QED
  BY <1>2 DEF CoverInv

LEMMA UnsubscribeKeepsCover ==
    ASSUME DepthInv, CoverInv, unsubscribe_market_depth
    PROVE  CoverInv'
<1> DEFINE c == todo.cancel
           h == Head(c)
<1>1. /\ c # <<>> /\ active' = [active EXCEPT ![h] = NoReq]
      /\ todo'.cancel = Tail(c) /\ todo'.add = todo.add
      /\ UNCHANGED <<und, quoted, iter, cursor, link, missed>>
  BY DEF unsubscribe_market_depth, market, history, DepthInv, DepthTypeOK
<1>2. c \in Seq(Legs) /\ active \in [Legs -> Req \union {NoReq}]
  BY DEF DepthInv, DepthTypeOK
<1>3. h \in Range(c) /\ Range(Tail(c)) \subseteq Range(c) /\ h \in Legs
  <2> HIDE DEF c
  <2>1. Len(c) \in Nat /\ Len(c) # 0 /\ DOMAIN c = 1 .. Len(c)
    BY <1>1, <1>2
  <2>2. h = c[1] /\ h \in Legs
    BY <1>1, <1>2, HeadTailProperties
  <2>3. /\ DOMAIN Tail(c) = 1 .. Len(c) - 1
        /\ \A i \in 1 .. Len(c) - 1 : Tail(c)[i] = c[i + 1]
    BY <1>1, <1>2, <2>1
  <2> QED
    BY <2>1, <2>2, <2>3 DEF Range
<1> HIDE DEF h, c
<1>4. ASSUME NEW l \in Legs, LegCovered(l) PROVE LegCovered(l)'
  <2>1. Waits(l) => Waits(l)'
    BY <1>1, WaitsKept
  <2>2. missed'[l] \in 0 .. Patience'
    BY <1>1, <1>4 DEF LegCovered, Patience, RotateSlots
  <2>3. missed[l] > 0 => l # h /\ l \notin Range(Tail(c)) /\ l \in quoted
    BY <1>3, <1>4 DEF LegCovered, c
  <2>4. missed[l] > 0 => active'[l] = active[l]
    BY <1>1, <1>2, <2>3
  <2> QED
    BY <1>1, <1>4, <2>1, <2>2, <2>3, <2>4 DEF LegCovered
<1> QED
  BY <1>1, <1>4 DEF CoverInv

\* Without a connection nothing is claimed; with one, the leg gets its handle
\* and the legs passed over have one.
LEMMA SubscribeKeepsCover ==
    ASSUME DepthInv, CoverInv, subscribe_market_depth
    PROVE  CoverInv'
<1> DEFINE a == todo.add
           h == Head(a)
           t == Tail(a)
           b == NotYet(t, active')
<1>1. /\ a # <<>> /\ h \in Legs /\ a \in Seq(Legs) /\ Subscribed(h, FreshReq)
      /\ todo' = [todo EXCEPT !.add = b]
      /\ UNCHANGED <<und, quoted, iter, cursor, link, missed>>
  BY SubscribeIs DEF market
<1>2. todo \in [cancel : Seq(Legs), add : Seq(Legs)] /\ active \in [Legs -> Req \union {NoReq}]
      /\ link \in BOOLEAN
  BY DEF DepthInv, DepthTypeOK
<1>3. todo'.add = b /\ todo'.cancel = todo.cancel
  BY <1>1, <1>2
<1>4. DepthInv'
  BY SubscribeKeeps
<1>5. active' \in [Legs -> Req \union {NoReq}]
  BY <1>4 DEF DepthInv, DepthTypeOK
<1>6. t \in Seq(Legs)
  BY <1>1, HeadTailProperties
<1>7. link => active' = [active EXCEPT ![h] = FreshReq] /\ FreshReq # NoReq
  <2>1. FreshReq \in Req
    BY FreshReqIs
  <2>2. FreshReq # NoReq
    BY <2>1, DepthAssumption DEF Req, NoReq
  <2> QED
    BY <1>1, <2>2 DEF Subscribed
<1>8. PICK g \in [Legs -> Req \union {NoReq}] : g = active'
  BY <1>5
<1>9. /\ DOMAIN t = 1 .. Len(a) - 1 /\ Len(a) \in Nat
      /\ \A i \in 1 .. Len(a) - 1 : t[i] = a[i + 1]
      /\ DOMAIN a = 1 .. Len(a) /\ a[1] = h
  <2> HIDE DEF a
  <2> QED
    BY <1>1
<1> HIDE DEF t
<1>10. \A i \in DOMAIN t : g[t[i]] = NoReq => t[i] \in Range(NotYet(t, g))
  BY <1>6, NotYetIs
<1> HIDE DEF h, a
<1>11. ASSUME NEW l \in Legs, link, LegCovered(l) PROVE LegCovered(l)'
  <2>1. Waits(l) => Waits(l)'
    BY <1>1, WaitsKept
  <2>2. missed'[l] \in 0 .. Patience'
    BY <1>1, <1>11 DEF LegCovered, Patience, RotateSlots
  <2>3. active'[l] = NoReq => l # h /\ active[l] = NoReq
    BY <1>1, <1>2, <1>7, <1>11
  <2>4. ASSUME active'[l] = NoReq, l \notin Range(b) PROVE l \notin Range(a)
    <3> SUFFICES ASSUME NEW i \in DOMAIN a, a[i] = l PROVE FALSE
      BY DEF Range
    <3>1. i # 1
      BY <1>9, <2>3, <2>4
    <3>2. i - 1 \in DOMAIN t /\ t[i - 1] = l
      BY <1>9, <3>1
    <3>3. l \in Range(NotYet(t, g))
      BY <1>8, <1>10, <2>4, <3>2
    <3> QED
      BY <1>8, <2>4, <3>3
  <2> HIDE DEF b
  <2> QED
    BY <1>1, <1>3, <1>11, <2>1, <2>2, <2>3, <2>4 DEF LegCovered, a
<1> QED
  BY <1>1, <1>11 DEF CoverInv

\* A leg without a handle that is chosen in a cycle is about to be subscribed; one
\* that is not has the cursor come nearer.
LEMMA CycleKeepsCover ==
    ASSUME DepthInv, CoverInv, Cycle
    PROVE  CoverInv'
<1> DEFINE s == Chosen(Candidates)
           Gone == {l \in Legs : active[l] # NoReq /\ l \notin Range(s)}
           c == SetToSeq(Gone)
           a == NotYet(s, active)
           n == PoolLen
           t == Slots
<1>1. DepthTypeOK /\ active \in [Legs -> Req \union {NoReq}]
  BY DEF DepthInv, DepthTypeOK
<1>2. /\ todo' = [cancel |-> c, add |-> a] /\ cursor' = NextCursor(Candidates)
      /\ todo = Idle
      /\ UNCHANGED <<und, quoted, iter, active, link>>
  BY DEF Cycle, Plan, market
<1>3. missed' = [l \in Legs |-> IF active[l] # NoReq \/ l \notin quoted THEN 0
                                ELSE Take(missed[l] + 1, Patience + 1)]
  BY DEF Cycle
<1>4. s \in Seq(Legs)
  BY <1>1, ChosenAre
<1>5. \A i \in DOMAIN s : active[s[i]] = NoReq => s[i] \in Range(a)
  <2> HIDE DEF s
  <2> QED
    BY <1>1, <1>4, NotYetIs
<1>6. Range(c) = Gone
  <2>1. IsFiniteSet(Gone)
    <3>1. Gone \subseteq Legs
      OBVIOUS
    <3> HIDE DEF Gone
    <3> QED
      BY <3>1, DepthAssumption, FS_Subset
  <2> HIDE DEF Gone
  <2> QED
    BY <2>1, SetToSeqIs
<1>7. /\ n \in Nat /\ RotateSlots \in Nat /\ RotateSlots # 0 /\ FixedNearest \in Nat
      /\ t = (IF RotateSlots < n THEN RotateSlots ELSE n)
      /\ Cardinality(quoted) \in Nat /\ Cardinality(quoted) <= Cardinality(Legs)
      /\ Cardinality(Legs) \in Nat
      /\ n = IF FixedNearest < Cardinality(quoted) THEN Cardinality(quoted) - FixedNearest ELSE 0
  BY <1>1, PoolIs
<1>8. /\ \A l \in Legs : Rank(l)' = Rank(l)
      /\ PoolLen' = n /\ Slots' = t
  BY <1>2, MarketStands
<1>9. todo'.cancel = c /\ todo'.add = a
  BY <1>2
<1>10. t \in Nat
  BY <1>7
<1> HIDE DEF n, t, a, c, s
<1>11. Patience \in Nat /\ Patience >= 1
  <2>1. CASE ~(Cardinality(Legs) <= FixedNearest)
    <3> DEFINE K == Cardinality(Legs) - FixedNearest
    <3>1. K \in Nat /\ K # 0
      BY <1>7, <2>1
    <3>2. Patience = (K + RotateSlots - 1) \div RotateSlots
      BY <2>1 DEF Patience
    <3> HIDE DEF K
    <3>3. 1 = (IF RotateSlots < 1 THEN RotateSlots ELSE 1) /\ 0 * 1 < 1 /\ 1 <= K
      BY <1>7, <3>1
    <3>4. 0 + 1 <= (K + RotateSlots - 1) \div RotateSlots
      BY <1>7, <3>1, <3>3, PatienceEnough
    <3>5. (K + RotateSlots - 1) \div RotateSlots \in Int
      BY <1>7, <3>1
    <3> QED
      BY <3>2, <3>4, <3>5
  <2> QED
    BY <2>1 DEF Patience
<1>12. ASSUME NEW l \in Legs, link, LegCovered(l) PROVE LegCovered(l)'
  <2>1. CASE active[l] # NoReq \/ l \notin quoted
    <3>1. missed'[l] = 0
      BY <1>3, <2>1
    <3>2. Patience' = Patience
      BY DEF Patience, RotateSlots
    <3> QED
      BY <1>11, <3>1, <3>2 DEF LegCovered
  <2>2. CASE active[l] = NoReq /\ l \in quoted
    <3> DEFINE m == missed[l]
    <3>1. m \in Nat /\ m <= Patience
      BY <1>11, <1>12 DEF LegCovered
    <3>2. missed'[l] = m + 1
      <4>1. missed'[l] = Take(m + 1, Patience + 1)
        BY <1>3, <2>2
      <4> QED
        BY <1>11, <3>1, <4>1 DEF Take
    <3>3. m > 0 => Waits(l)
      BY <1>2, <1>12, <2>2 DEF LegCovered, Idle, Range
    <3> HIDE DEF m
    <3>4. l \notin Range(todo'.cancel) /\ active'[l] = NoReq /\ l \in quoted'
      BY <1>2, <1>6, <1>9, <2>2
    <3>5. Rank(l) \in Int
      <4>1. Rank(l) \in DOMAIN Candidates /\ Candidates \in Seq(Legs)
        BY <1>1, <2>2, CandidatesAre
      <4>2. DOMAIN Candidates = 1 .. Len(Candidates)
        BY <4>1, LenProperties
      <4> QED
        BY <4>1, <4>2
    <3>6. Rank(l) > FixedNearest => /\ n # 0 /\ Ahead(l) \in 0 .. n - 1
                                    /\ m * t + Ahead(l) < n
      <4> SUFFICES ASSUME Rank(l) > FixedNearest
                   PROVE  n # 0 /\ Ahead(l) \in 0 .. n - 1 /\ m * t + Ahead(l) < n
        OBVIOUS
      <4>1. n # 0 /\ Ahead(l) \in 0 .. n - 1
        BY <1>1, <2>2, AheadIs DEF n
      <4>2. CASE m > 0
        BY <3>3, <4>1, <4>2 DEF Waits, m, n, t
      <4>3. CASE m = 0
        <5>1. m * t = 0
          BY <1>10, <4>3
        <5> QED
          BY <1>7, <4>1, <5>1
      <4> QED
        BY <3>1, <4>1, <4>2, <4>3
    <3>7. m + 1 <= Patience
      <4>1. CASE m = 0
        BY <1>11, <4>1
      <4>2. CASE m > 0
        <5> DEFINE K == Cardinality(Legs) - FixedNearest
        <5>1. Rank(l) > FixedNearest
          BY <3>3, <4>2 DEF Waits
        <5>2. n # 0 /\ m * t < n
          <6>1. m * t \in Nat
            BY <1>10, <3>1
          <6> QED
            BY <1>7, <3>6, <5>1, <6>1
        <5>3. K \in Nat /\ n <= K /\ ~(Cardinality(Legs) <= FixedNearest)
          BY <1>7, <5>2
        <5>4. Patience = (K + RotateSlots - 1) \div RotateSlots
          BY <5>3 DEF Patience
        <5> HIDE DEF K
        <5>5. m + 1 <= (K + RotateSlots - 1) \div RotateSlots
          BY <1>7, <1>10, <3>1, <5>2, <5>3, PatienceEnough
        <5> QED
          BY <5>4, <5>5
      <4> QED
        BY <3>1, <4>1, <4>2
    <3>8. missed'[l] \in 0 .. Patience'
      <4>1. Patience' = Patience
        BY DEF Patience, RotateSlots
      <4> QED
        BY <1>11, <3>1, <3>2, <3>7, <4>1
    <3>9. CASE Rank(l) <= FixedNearest \/ Ahead(l) < t
      <4>1. l \in Range(s)
        BY <1>1, <2>2, <3>9, ChosenCovers DEF s, t
      <4>2. l \in Range(a)
        BY <1>5, <2>2, <4>1 DEF Range
      <4> QED
        BY <1>9, <3>4, <3>8, <4>2 DEF LegCovered
    <3>10. CASE Rank(l) > FixedNearest /\ Ahead(l) >= t
      <4>1. Ahead(l)' = Ahead(l) - t
        <5>1. PICK k : k = cursor'
          OBVIOUS
        <5>2. k = NextCursor(Candidates)
          BY <1>2, <5>1
        <5>3. LET x == Rank(l) - FixedNearest - 1
                  b == k % PoolLen
              IN  (IF b <= x THEN x - b ELSE x - b + PoolLen) = Ahead(l) - Slots
          BY <1>1, <2>2, <3>10, <5>2, CursorNears DEF t
        <5> QED
          BY <1>8, <5>1, <5>3 DEF Ahead, n, t
      <4>2. (m + 1) * t + (Ahead(l) - t) < n
        <5>1. (m + 1) * t = m * t + t
          BY <1>10, <3>1
        <5>2. m * t \in Nat
          BY <1>10, <3>1
        <5> QED
          BY <1>7, <1>10, <3>6, <3>10, <5>1, <5>2
      <4>3. Waits(l)'
        BY <1>8, <3>2, <3>10, <4>1, <4>2 DEF Waits
      <4> QED
        BY <3>4, <3>8, <4>3 DEF LegCovered
    <3> QED
      BY <1>7, <1>10, <3>5, <3>6, <3>9, <3>10
  <2> QED
    BY <2>1, <2>2
<1>13. missed' \in [Legs -> Nat]
  <2>1. \A l \in Legs : missed[l] \in Nat
    BY DEF CoverInv
  <2>2. \A l \in Legs : Take(missed[l] + 1, Patience + 1) \in Nat
    BY <1>11, <2>1 DEF Take
  <2> QED
    BY <1>3, <2>2
<1> QED
  BY <1>2, <1>12, <1>13 DEF CoverInv

LEMMA CoverInvInit ==
    ASSUME Init
    PROVE  CoverInv
<1>1. missed = [l \in Legs |-> 0]
  BY DEF Init
<1>2. Patience \in Nat
  BY PatienceIsNat
<1>3. ASSUME NEW l \in Legs PROVE LegCovered(l)
  BY <1>1, <1>2 DEF LegCovered
<1> QED
  BY <1>1, <1>3 DEF CoverInv

LEMMA CoverInvStep ==
    ASSUME DepthInv, CoverInv, [Next]_vars
    PROVE  CoverInv'
<1>1. CASE Cycle
  BY <1>1, CycleKeepsCover
<1>2. CASE unsubscribe_market_depth
  BY <1>2, UnsubscribeKeepsCover
<1>3. CASE subscribe_market_depth
  BY <1>3, SubscribeKeepsCover
<1>4. CASE \E r \in Req, u \in Updates : Stream(r, u)
  BY <1>4, StillKeepsCover DEF Stream, rotator, history
<1>5. CASE Route
  BY <1>5, StillKeepsCover DEF Route, rotator, history
<1>6. CASE pump_depth \/ Lagged
  BY <1>6, StillKeepsCover DEF pump_depth, Lagged, rotator, history
<1>7. CASE \/ \E p \in Spots : Move(p)
           \/ \E l \in Legs, order \in Orders : Register(l, order)
  BY <1>7, MarketKeepsCover DEF Move, Register
<1>8. CASE Break
  BY <1>8 DEF Break, CoverInv, history
<1>9. CASE UNCHANGED vars
  BY <1>9, StillKeepsCover DEF vars, market
<1> QED
  BY <1>1, <1>2, <1>3, <1>4, <1>5, <1>6, <1>7, <1>8, <1>9 DEF Next

\* While the market and the connection stand, no leg with a market goes without
\* a depth subscription for more cycles than a round of the rotation takes, for
\* every number of legs, of lines and of always-on legs: the cursor that
\* run_depth_rotator keeps over the cycles skips no leg of the wings.
THEOREM EveryLegCoveredAlways == Spec => []EveryLegCovered
<1>1. Init => DepthInv /\ CoverInv
  BY DepthInvInit, CoverInvInit
<1>2. DepthInv /\ CoverInv /\ [Next]_vars => (DepthInv /\ CoverInv)'
  BY DepthInvStep, CoverInvStep
<1>3. CoverInv => EveryLegCovered
  <2>1. Patience \in Nat
    BY PatienceIsNat
  <2> QED
    BY <2>1 DEF CoverInv, LegCovered, EveryLegCovered
<1> QED
  BY <1>1, <1>2, <1>3, PTL DEF Spec
=============================================================================
