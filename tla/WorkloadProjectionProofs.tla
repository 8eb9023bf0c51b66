---------------------- MODULE WorkloadProjectionProofs ----------------------
(***************************************************************************)
(* Theorems about WorkloadProjection, for any projections, secrets and     *)
(* containers and any workload whose lists, when Do sorts them, are not    *)
(* longer than the blocks of the sort: beyond, elements are merged in an   *)
(* order that is none, and TLC shows with LongEnv.cfg what comes of it.    *)
(* The first part is about lists: what Without and InsertionSort keep, and *)
(* where they put it.                                                      *)
(***************************************************************************)
EXTENDS WorkloadProjection, FiniteSetTheorems, FunctionTheorems,
        SequenceTheorems, TLAPS

-----------------------------------------------------------------------------
(* Places *)

\* before is a strict total order of at.
Orders(at, before) ==
  /\ \A i \in at : <<i, i>> \notin before
  /\ \A i, j \in at : i = j \/ <<i, j>> \in before \/ <<j, i>> \in before
  /\ \A i, j, h \in at :
       <<i, j>> \in before /\ <<j, h>> \in before => <<i, h>> \in before

\* Where Arranged puts the element that was at i.
PlaceOf(at, before, i) == 1 + Cardinality({j \in at : <<j, i>> \in before})

\* The elements of a finite set have the places from 1 on, one each, and what
\* is before another in the order has the smaller place.
LEMMA Places ==
  ASSUME NEW at, IsFiniteSet(at), NEW before, Orders(at, before)
  PROVE  /\ Cardinality(at) \in Nat
         /\ \A i \in at : PlaceOf(at, before, i) \in 1..Cardinality(at)
         /\ \A i, j \in at :
              <<i, j>> \in before <=>
                PlaceOf(at, before, i) < PlaceOf(at, before, j)
         /\ \A i, j \in at :
              PlaceOf(at, before, i) = PlaceOf(at, before, j) => i = j
         /\ \A p \in 1..Cardinality(at) :
              \E i \in at : PlaceOf(at, before, i) = p
<1>. DEFINE Ahead(i) == {j \in at : <<j, i>> \in before}
            n == Cardinality(at)
            place == [i \in at |-> PlaceOf(at, before, i)]
<1>1. n \in Nat
  BY FS_CardinalityType
<1>2. ASSUME NEW i \in at
      PROVE  /\ IsFiniteSet(Ahead(i))
             /\ Cardinality(Ahead(i)) \in Nat
             /\ Cardinality(Ahead(i)) < n
  <2>1. Ahead(i) \in SUBSET at
    OBVIOUS
  <2>2. Ahead(i) # at
    BY DEF Orders
  <2>. HIDE DEF Ahead
  <2>3. /\ IsFiniteSet(Ahead(i))
        /\ Cardinality(Ahead(i)) <= n
        /\ n = Cardinality(Ahead(i)) => at = Ahead(i)
    BY <2>1, FS_Subset
  <2>4. Cardinality(Ahead(i)) \in Nat
    BY <2>3, FS_CardinalityType
  <2>. QED
    BY <1>1, <2>2, <2>3, <2>4
<1>3. ASSUME NEW i \in at
      PROVE  PlaceOf(at, before, i) = 1 + Cardinality(Ahead(i))
  BY DEF PlaceOf
<1>4. ASSUME NEW i \in at, NEW j \in at, <<i, j>> \in before
      PROVE  PlaceOf(at, before, i) < PlaceOf(at, before, j)
  <2>1. Ahead(i) \in SUBSET Ahead(j) /\ Ahead(i) # Ahead(j)
    BY <1>4 DEF Orders
  <2>2. IsFiniteSet(Ahead(j)) /\ Cardinality(Ahead(j)) \in Nat
        /\ Cardinality(Ahead(i)) \in Nat
    BY <1>2
  <2>. HIDE DEF Ahead
  <2>3. Cardinality(Ahead(i)) <= Cardinality(Ahead(j))
        /\ Cardinality(Ahead(i)) # Cardinality(Ahead(j))
    BY <2>1, <2>2, FS_Subset
  <2>. QED
    BY <1>3, <2>2, <2>3
<1>5. \A i \in at : PlaceOf(at, before, i) \in 1..n
  <2>. HIDE DEF Ahead, n
  <2>. QED
    BY <1>1, <1>2, <1>3
<1>6. \A i, j \in at :
        /\ <<i, j>> \in before <=>
             PlaceOf(at, before, i) < PlaceOf(at, before, j)
        /\ PlaceOf(at, before, i) = PlaceOf(at, before, j) => i = j
  <2>1. \A i \in at : PlaceOf(at, before, i) \in Int
    BY <1>1, <1>5
  <2>2. \A i, j \in at : i = j \/ <<i, j>> \in before \/ <<j, i>> \in before
    BY DEF Orders
  <2>. SUFFICES ASSUME NEW i \in at, NEW j \in at
                PROVE  /\ <<i, j>> \in before <=>
                            PlaceOf(at, before, i) < PlaceOf(at, before, j)
                       /\ PlaceOf(at, before, i) = PlaceOf(at, before, j) =>
                            i = j
    OBVIOUS
  <2>3. <<i, i>> \notin before
    BY DEF Orders
  <2>4. /\ <<i, j>> \in before =>
             PlaceOf(at, before, i) < PlaceOf(at, before, j)
        /\ <<j, i>> \in before =>
             PlaceOf(at, before, j) < PlaceOf(at, before, i)
    BY <1>4
  <2>. QED
    BY <2>1, <2>2, <2>3, <2>4
<1>7. \A p \in 1..n : \E i \in at : PlaceOf(at, before, i) = p
  <2>. HIDE DEF n
  <2>1. place \in [at -> 1..n]
    BY <1>5
  <2>2. place \in Injection(at, 1..n)
    <3>1. \A i, j \in at : place[i] = place[j] => i = j
      BY <1>6
    <3>. HIDE DEF place
    <3>. QED
      BY <2>1, <3>1, Fun_IsInj
  <2>3. IsFiniteSet(1..n) /\ Cardinality(1..n) = n
    BY <1>1, FS_Interval
  <2>. HIDE DEF place
  <2>4. place \in Surjection(at, 1..n)
    BY <2>2, <2>3, FS_Injection DEF n
  <2>5. \A p \in 1..n : \E i \in at : place[i] = p
    BY <2>4, Fun_SurjectionProperties
  <2>. QED
    BY <2>5 DEF place
<1>. QED
  BY <1>1, <1>5, <1>6, <1>7

\* Arranged puts the element that was at i in i's place.
LEMMA ArrangedElements ==
  ASSUME NEW s, NEW at, IsFiniteSet(at), NEW before, Orders(at, before)
  PROVE  /\ Arranged(s, at, before)
              \in [1..Cardinality(at) -> {s[i] : i \in at}]
         /\ \A i \in at :
              Arranged(s, at, before)[PlaceOf(at, before, i)] = s[i]
<1>. DEFINE From(p) == CHOOSE i \in at : PlaceOf(at, before, i) = p
            t == [p \in 1..Cardinality(at) |-> s[From(p)]]
<1>1. Arranged(s, at, before) = t
  BY DEF Arranged, PlaceOf
<1>2. ASSUME NEW p \in 1..Cardinality(at)
      PROVE  From(p) \in at /\ PlaceOf(at, before, From(p)) = p
  BY Places
<1>3. ASSUME NEW i \in at
      PROVE  /\ PlaceOf(at, before, i) \in 1..Cardinality(at)
             /\ From(PlaceOf(at, before, i)) = i
  <2>1. PlaceOf(at, before, i) \in 1..Cardinality(at)
    BY Places
  <2>2. /\ From(PlaceOf(at, before, i)) \in at
        /\ PlaceOf(at, before, From(PlaceOf(at, before, i)))
             = PlaceOf(at, before, i)
    BY <1>2, <2>1
  <2>. HIDE DEF From
  <2>. QED
    BY <2>1, <2>2, Places
<1>. HIDE DEF From
<1>. QED
  BY <1>1, <1>2, <1>3

\* Only the elements at these places matter.
LEMMA ArrangedAgree ==
  ASSUME NEW s, NEW t, NEW at, IsFiniteSet(at), NEW before,
         Orders(at, before), \A i \in at : s[i] = t[i]
  PROVE  Arranged(s, at, before) = Arranged(t, at, before)
<1>. DEFINE n == Cardinality(at)
            a == Arranged(s, at, before)
            b == Arranged(t, at, before)
<1>1. a \in [1..n -> {s[i] : i \in at}] /\ b \in [1..n -> {t[i] : i \in at}]
      /\ \A i \in at : /\ a[PlaceOf(at, before, i)] = s[i]
                       /\ b[PlaceOf(at, before, i)] = t[i]
  BY ArrangedElements
<1>2. \A p \in 1..n : \E i \in at : PlaceOf(at, before, i) = p
  BY Places
<1>. HIDE DEF a, b, n
<1>3. \A p \in 1..n : a[p] = b[p]
  BY <1>1, <1>2
<1>4. a = b
  <2>1. a = [p \in 1..n |-> a[p]] /\ b = [p \in 1..n |-> b[p]]
    BY <1>1, Zenon
  <2>. QED
    BY <1>3, <2>1, Zenon
<1>. QED
  BY <1>4 DEF a, b

\* f numbers at from 1 to n in the order before.
Numbers(f, at, before, n) ==
  /\ n \in Nat
  /\ f \in [at -> 1..n]
  /\ \A p \in 1..n : \E i \in at : f[i] = p
  /\ \A i, j \in at : <<i, j>> \in before => f[i] < f[j]

\* t is a list of n elements, and the one that was at i in s is at f[i].
Moves(f, at, n, s, t) ==
  /\ t = [p \in 1..n |-> t[p]]
  /\ \A i \in at : t[f[i]] = s[i]

\* Arranged is what puts every element in the place that an order-preserving
\* numbering gives it.
LEMMA ArrangedIs ==
  ASSUME NEW at, IsFiniteSet(at), NEW before, Orders(at, before),
         NEW n, NEW f, Numbers(f, at, before, n),
         NEW s, NEW t, Moves(f, at, n, s, t)
  PROVE  /\ Arranged(s, at, before) = t
         /\ Cardinality(at) = n
         /\ \A i \in at : PlaceOf(at, before, i) = f[i]
<1>. DEFINE a == Arranged(s, at, before)
<1>0. /\ n \in Nat
      /\ f \in [at -> 1..n]
      /\ \A p \in 1..n : \E i \in at : f[i] = p
      /\ \A i, j \in at : <<i, j>> \in before => f[i] < f[j]
  BY DEF Numbers
<1>. USE <1>0
<1>1. \A i, j \in at : /\ <<i, j>> \in before <=> f[i] < f[j]
                       /\ f[i] = f[j] => i = j
  <2>. SUFFICES ASSUME NEW i \in at, NEW j \in at
                PROVE  /\ <<i, j>> \in before <=> f[i] < f[j]
                       /\ f[i] = f[j] => i = j
    OBVIOUS
  <2>1. /\ i = j \/ <<i, j>> \in before \/ <<j, i>> \in before
        /\ <<i, i>> \notin before
    BY DEF Orders
  <2>2. f[i] \in Int /\ f[j] \in Int
    OBVIOUS
  <2>3. /\ <<i, j>> \in before => f[i] < f[j]
        /\ <<j, i>> \in before => f[j] < f[i]
    OBVIOUS
  <2>. QED
    BY <2>1, <2>2, <2>3
<1>2. Cardinality(at) = n
  <2>1. f \in Bijection(at, 1..n)
    BY <1>1, Fun_IsBij
  <2>2. ExistsBijection(at, 1..n)
    BY <2>1, Fun_ExistsBij, Zenon
  <2>3. ExistsBijection(1..n, at)
    BY <2>2, Fun_ExistsBijSymmetric
  <2>. QED
    BY <2>3, FS_CountingElements
<1>3. ASSUME NEW i \in at
      PROVE  PlaceOf(at, before, i) = f[i]
  <2>. DEFINE A == {j \in at : <<j, i>> \in before}
              m == f[i] - 1
              g == [j \in A |-> f[j]]
  <2>1. m \in Nat
    OBVIOUS
  <2>2. \A j \in A : j \in at /\ f[j] \in 1..m
    BY <1>1
  <2>3. \A p \in 1..m : \E j \in A : f[j] = p
    <3>. SUFFICES ASSUME NEW p \in 1..m
                  PROVE  \E j \in A : f[j] = p
      OBVIOUS
    <3>1. p \in 1..n /\ p < f[i]
      OBVIOUS
    <3>2. PICK j \in at : f[j] = p
      BY <3>1
    <3>. QED
      BY <1>1, <3>1, <3>2
  <2>. HIDE DEF A, m
  <2>4. g \in [A -> 1..m] /\ \A j \in A : g[j] = f[j]
    BY <2>2
  <2>5. /\ \A j, h \in A : g[j] = g[h] => j = h
        /\ \A p \in 1..m : \E j \in A : g[j] = p
    BY <1>1, <2>2, <2>3, <2>4
  <2>. HIDE DEF g
  <2>6. g \in Bijection(A, 1..m)
    BY <2>4, <2>5, Fun_IsBij
  <2>7. ExistsBijection(A, 1..m)
    BY <2>6, Fun_ExistsBij, Zenon
  <2>8. ExistsBijection(1..m, A)
    BY <2>7, Fun_ExistsBijSymmetric
  <2>9. Cardinality(A) = m
    BY <2>1, <2>8, FS_CountingElements
  <2>10. PlaceOf(at, before, i) = 1 + m
    BY <2>9 DEF PlaceOf, A
  <2>. QED
    BY <2>1, <2>10 DEF m
<1>4. /\ a \in [1..n -> {s[i] : i \in at}]
      /\ \A i \in at : a[f[i]] = s[i]
  <2>1. /\ a \in [1..Cardinality(at) -> {s[i] : i \in at}]
        /\ \A i \in at : a[PlaceOf(at, before, i)] = s[i]
    BY ArrangedElements
  <2>. HIDE DEF a
  <2>. QED
    BY <1>2, <1>3, <2>1
<1>. HIDE DEF a
<1>5. \A p \in 1..n : a[p] = t[p]
  <2>1. \A i \in at : t[f[i]] = s[i]
    BY DEF Moves
  <2>. QED
    BY <1>4, <2>1
<1>6. a = t
  <2>1. a = [p \in 1..n |-> a[p]] /\ t = [p \in 1..n |-> t[p]]
    BY <1>4, Zenon DEF Moves
  <2>. QED
    BY <1>5, <2>1, Zenon
<1>. QED
  BY <1>2, <1>3, <1>6 DEF a

-----------------------------------------------------------------------------
(* Without *)

\* The places of s that Without keeps, in their order.
KeptAt(s, gone) == {i \in DOMAIN s : s[i] \notin gone}
Ascending(at) == {ji \in at \X at : ji[1] < ji[2]}

\* Without arranges what it keeps as it was.
LEMMA WithoutIsArranged ==
  ASSUME NEW s, NEW gone
  PROVE  Without(s, gone)
           = Arranged(s, KeptAt(s, gone), Ascending(KeptAt(s, gone)))
BY DEF Without, KeptAt, Ascending

\* Pairs of the ascending order.
LEMMA AscendingPairs ==
  ASSUME NEW at, NEW i \in at, NEW j \in at
  PROVE  <<i, j>> \in Ascending(at) <=> i < j
BY DEF Ascending

\* Numbers are ordered.
LEMMA AscendingOrders ==
  ASSUME NEW at \in SUBSET Nat
  PROVE  Orders(at, Ascending(at))
<1>. USE AscendingPairs
<1>1. \A i \in at : <<i, i>> \notin Ascending(at)
  OBVIOUS
<1>2. ASSUME NEW i \in at, NEW j \in at
      PROVE  i = j \/ <<i, j>> \in Ascending(at) \/ <<j, i>> \in Ascending(at)
  <2>1. i = j \/ i < j \/ j < i
    OBVIOUS
  <2>. QED
    BY <2>1
<1>3. \A i, j, h \in at :
        <<i, j>> \in Ascending(at) /\ <<j, h>> \in Ascending(at)
          => <<i, h>> \in Ascending(at)
  OBVIOUS
<1>. QED
  BY <1>1, <1>2, <1>3 DEF Orders

\* The places of a list are finitely many numbers.
LEMMA KeptPlaces ==
  ASSUME NEW S, NEW s \in Seq(S), NEW gone
  PROVE  /\ KeptAt(s, gone) \in SUBSET (1..Len(s))
         /\ KeptAt(s, gone) \in SUBSET Nat
         /\ IsFiniteSet(KeptAt(s, gone))
         /\ Cardinality(KeptAt(s, gone)) \in Nat
         /\ Orders(KeptAt(s, gone), Ascending(KeptAt(s, gone)))
<1>1. Len(s) \in Nat /\ DOMAIN s = 1..Len(s)
  BY LenProperties
<1>2. KeptAt(s, gone) \in SUBSET (1..Len(s))
  BY <1>1 DEF KeptAt
<1>3. IsFiniteSet(1..Len(s))
  BY <1>1, FS_Interval
<1>4. IsFiniteSet(KeptAt(s, gone))
  BY <1>2, <1>3, FS_Subset
<1>5. KeptAt(s, gone) \in SUBSET Nat
  BY <1>1, <1>2
<1>. QED
  BY <1>2, <1>4, <1>5, FS_CardinalityType, AscendingOrders

\* A list without some elements is a list of the others.
LEMMA WithoutType ==
  ASSUME NEW S, NEW s \in Seq(S), NEW gone
  PROVE  /\ Without(s, gone) \in Seq(S)
         /\ Len(Without(s, gone)) = Cardinality(KeptAt(s, gone))
         /\ DOMAIN Without(s, gone) = 1..Cardinality(KeptAt(s, gone))
         /\ Range(Without(s, gone)) = Range(s) \ gone
<1>. DEFINE at == KeptAt(s, gone)
            n == Cardinality(at)
            t == Without(s, gone)
            Put(i) == PlaceOf(at, Ascending(at), i)
<1>1. n \in Nat /\ IsFiniteSet(at) /\ Orders(at, Ascending(at))
  BY KeptPlaces
<1>2. DOMAIN s = 1..Len(s) /\ \A i \in DOMAIN s : s[i] \in S
  BY LenProperties, ElementOfSeq
<1>3. t \in [1..n -> {s[i] : i \in at}] /\ \A i \in at : t[Put(i)] = s[i]
  BY <1>1, ArrangedElements, WithoutIsArranged
<1>4. \A i \in at : Put(i) \in 1..n
  BY <1>1, Places
<1>5. {s[i] : i \in at} = Range(s) \ gone
  BY DEF Range, KeptAt
<1>6. {s[i] : i \in at} \subseteq S
  BY <1>2 DEF KeptAt
<1>. HIDE DEF at, n, t, Put
<1>7. t \in [1..n -> S]
  BY <1>3, <1>6
<1>8. t \in Seq(S) /\ Len(t) = n /\ DOMAIN t = 1..n
  BY <1>1, <1>7
<1>9. Range(t) = {s[i] : i \in at}
  <2>1. Range(t) = {t[p] : p \in 1..n}
    BY <1>8 DEF Range
  <2>. QED
    BY <1>3, <1>4, <2>1
<1>. QED
  BY <1>5, <1>8, <1>9 DEF at, n, t

\* Only what is kept matters.
LEMMA WithoutSame ==
  ASSUME NEW S, NEW s \in Seq(S), NEW t, NEW A, NEW B,
         KeptAt(s, A) = KeptAt(t, B),
         \A i \in KeptAt(s, A) : s[i] = t[i]
  PROVE  Without(s, A) = Without(t, B)
BY WithoutIsArranged, KeptPlaces, ArrangedAgree

\* Sets with the same elements of the list take away the same.
LEMMA WithoutRange ==
  ASSUME NEW S, NEW s \in Seq(S), NEW A, NEW B,
         \A x \in Range(s) : x \in A <=> x \in B
  PROVE  Without(s, A) = Without(s, B)
<1>1. KeptAt(s, A) = KeptAt(s, B)
  BY DEF KeptAt, Range
<1>. QED
  BY <1>1, WithoutSame

\* Without takes nothing away if there is nothing to take away.
LEMMA WithoutNothing ==
  ASSUME NEW S, NEW s \in Seq(S), NEW gone, \A x \in Range(s) : x \notin gone
  PROVE  Without(s, gone) = s
<1>. DEFINE at == KeptAt(s, gone)
            n == Len(s)
            f == [i \in at |-> i]
<1>1. n \in Nat /\ s \in [1..n -> S] /\ at = 1..n
  BY LenProperties DEF KeptAt, Range
<1>2. IsFiniteSet(at) /\ Orders(at, Ascending(at))
  BY KeptPlaces
<1>. HIDE DEF at, n
<1>3. f \in [at -> 1..n] /\ \A p \in 1..n : \E i \in at : f[i] = p
  BY <1>1
<1>4. \A i, j \in at : <<i, j>> \in Ascending(at) => f[i] < f[j]
  BY AscendingPairs
<1>5. \A i \in at : s[f[i]] = s[i]
  OBVIOUS
<1>. HIDE DEF f
<1>6. Numbers(f, at, Ascending(at), n) /\ Moves(f, at, n, s, s)
  BY <1>1, <1>3, <1>4, <1>5 DEF Numbers, Moves
<1>7. Arranged(s, at, Ascending(at)) = s
  BY <1>2, <1>6, ArrangedIs
<1>. QED
  BY <1>7, WithoutIsArranged DEF at

\* Taking away one after the other is taking away both.
LEMMA WithoutTwice ==
  ASSUME NEW S, NEW s \in Seq(S), NEW A, NEW B
  PROVE  Without(Without(s, A), B) = Without(s, A \cup B)
<1>. DEFINE r == Without(s, A)
            t == Without(r, B)
            atA == KeptAt(s, A)
            atB == KeptAt(r, B)
            at == KeptAt(s, A \cup B)
            n == Cardinality(atB)
            PutA(i) == PlaceOf(atA, Ascending(atA), i)
            PutB(i) == PlaceOf(atB, Ascending(atB), i)
            f == [i \in at |-> PutB(PutA(i))]
<1>1. r \in Seq(S) /\ DOMAIN r = 1..Cardinality(atA)
  BY WithoutType
<1>2. /\ IsFiniteSet(atA) /\ Orders(atA, Ascending(atA))
      /\ IsFiniteSet(at) /\ Orders(at, Ascending(at))
  BY KeptPlaces
<1>3. /\ IsFiniteSet(atB) /\ Orders(atB, Ascending(atB)) /\ n \in Nat
      /\ atB \in SUBSET Nat
  BY <1>1, KeptPlaces
<1>4. /\ \A i \in atA : PutA(i) \in 1..Cardinality(atA) /\ r[PutA(i)] = s[i]
      /\ \A i, j \in atA : <<i, j>> \in Ascending(atA) <=> PutA(i) < PutA(j)
      /\ \A p \in 1..Cardinality(atA) : \E i \in atA : PutA(i) = p
  <2>1. /\ \A i \in atA : PutA(i) \in 1..Cardinality(atA)
        /\ \A i, j \in atA : <<i, j>> \in Ascending(atA) <=> PutA(i) < PutA(j)
        /\ \A p \in 1..Cardinality(atA) : \E i \in atA : PutA(i) = p
    BY <1>2, Places
  <2>2. \A i \in atA : Arranged(s, atA, Ascending(atA))[PutA(i)] = s[i]
    BY <1>2, ArrangedElements
  <2>3. r = Arranged(s, atA, Ascending(atA))
    BY WithoutIsArranged
  <2>. QED
    BY <2>1, <2>2, <2>3
<1>5. /\ t \in [1..n -> {r[i] : i \in atB}]
      /\ \A i \in atB : PutB(i) \in 1..n /\ t[PutB(i)] = r[i]
      /\ \A i, j \in atB : <<i, j>> \in Ascending(atB) <=> PutB(i) < PutB(j)
      /\ \A p \in 1..n : \E i \in atB : PutB(i) = p
  <2>1. /\ \A i \in atB : PutB(i) \in 1..n
        /\ \A i, j \in atB : <<i, j>> \in Ascending(atB) <=> PutB(i) < PutB(j)
        /\ \A p \in 1..n : \E i \in atB : PutB(i) = p
    BY <1>3, Places
  <2>2. /\ Arranged(r, atB, Ascending(atB)) \in [1..n -> {r[i] : i \in atB}]
        /\ \A i \in atB : Arranged(r, atB, Ascending(atB))[PutB(i)] = r[i]
    BY <1>3, ArrangedElements
  <2>3. t = Arranged(r, atB, Ascending(atB))
    BY WithoutIsArranged
  <2>. QED
    BY <2>1, <2>2, <2>3
<1>6. at = {i \in atA : s[i] \notin B}
  BY DEF KeptAt
<1>7. atB = {i \in 1..Cardinality(atA) : r[i] \notin B}
  BY <1>1 DEF KeptAt
<1>. HIDE DEF r, t, atA, atB, at, n, PutA, PutB
<1>8. \A i \in at : i \in atA /\ PutA(i) \in atB /\ r[PutA(i)] = s[i]
  BY <1>4, <1>6, <1>7
<1>9. f \in [at -> 1..n]
  BY <1>5, <1>8
<1>10. \A p \in 1..n : \E i \in at : f[i] = p
  <2>. SUFFICES ASSUME NEW p \in 1..n
                PROVE  \E i \in at : f[i] = p
    OBVIOUS
  <2>1. PICK q \in atB : PutB(q) = p
    BY <1>5
  <2>2. PICK i \in atA : PutA(i) = q
    BY <1>4, <1>7
  <2>3. i \in at
    BY <1>4, <1>6, <1>7, <2>1, <2>2
  <2>. QED
    BY <2>1, <2>2, <2>3
<1>11. \A i, j \in at : <<i, j>> \in Ascending(at) => f[i] < f[j]
  <2>. SUFFICES ASSUME NEW i \in at, NEW j \in at, <<i, j>> \in Ascending(at)
                PROVE  f[i] < f[j]
    OBVIOUS
  <2>1. <<i, j>> \in Ascending(atA)
    BY <1>8, AscendingPairs
  <2>2. PutA(i) < PutA(j)
    BY <1>4, <1>8, <2>1
  <2>3. <<PutA(i), PutA(j)>> \in Ascending(atB)
    BY <1>8, <2>2, AscendingPairs
  <2>4. PutB(PutA(i)) < PutB(PutA(j))
    BY <1>5, <1>8, <2>3
  <2>. QED
    BY <2>4
<1>12. \A i \in at : t[f[i]] = s[i]
  BY <1>5, <1>8
<1>. HIDE DEF f
<1>13. Numbers(f, at, Ascending(at), n)
  BY <1>3, <1>9, <1>10, <1>11 DEF Numbers
<1>14. Moves(f, at, n, s, t)
  BY <1>5, <1>12 DEF Moves
<1>15. Arranged(s, at, Ascending(at)) = t
  BY <1>2, <1>13, <1>14, ArrangedIs
<1>. QED
  BY <1>15, WithoutIsArranged DEF at, t, r

\* Taking away what was appended.
LEMMA WithoutAppended ==
  ASSUME NEW S, NEW s \in Seq(S), NEW t \in Seq(S), NEW gone,
         Range(t) \subseteq gone
  PROVE  Without(s \o t, gone) = Without(s, gone)
<1>1. /\ DOMAIN s = 1..Len(s) /\ Len(s) \in Nat
      /\ DOMAIN t = 1..Len(t) /\ Len(t) \in Nat
      /\ DOMAIN (s \o t) = 1..(Len(s) + Len(t))
      /\ \A i \in 1..Len(s) : (s \o t)[i] = s[i]
      /\ \A i \in (Len(s) + 1)..(Len(s) + Len(t)) : (s \o t)[i] = t[i - Len(s)]
  BY LenProperties, ConcatProperties
<1>. DEFINE st == s \o t
<1>. HIDE DEF st
<1>2. \A i \in (Len(s) + 1)..(Len(s) + Len(t)) : st[i] \in gone
  <2>. SUFFICES ASSUME NEW i \in (Len(s) + 1)..(Len(s) + Len(t))
                PROVE  st[i] \in gone
    OBVIOUS
  <2>1. i - Len(s) \in DOMAIN t
    BY <1>1
  <2>2. t[i - Len(s)] \in Range(t)
    BY <2>1 DEF Range
  <2>. QED
    BY <1>1, <2>2 DEF st
<1>3. \A i \in DOMAIN st :
        \/ i \in 1..Len(s)
        \/ i \in (Len(s) + 1)..(Len(s) + Len(t))
  BY <1>1 DEF st
<1>4. /\ \A i \in DOMAIN s : i \in DOMAIN st /\ st[i] = s[i]
      /\ \A i \in DOMAIN st : i \notin DOMAIN s => st[i] \in gone
  BY <1>1, <1>2, <1>3 DEF st
<1>5. KeptAt(s, gone) = KeptAt(st, gone)
      /\ \A i \in KeptAt(s, gone) : s[i] = st[i]
  BY <1>4 DEF KeptAt
<1>6. Without(s, gone) = Without(st, gone)
  BY <1>5, WithoutSame
<1>. QED
  BY <1>6 DEF st

\* What is appended and kept is the last element.
LEMMA WithoutAppend ==
  ASSUME NEW S, NEW s \in Seq(S), NEW x \in S, NEW gone, x \notin gone
  PROVE  Without(Append(s, x), gone) = Append(Without(s, gone), x)
<1>. DEFINE l == Len(s) + 1
            u == Append(s, x)
            r == Without(s, gone)
            t == Append(r, x)
            atS == KeptAt(s, gone)
            at == KeptAt(u, gone)
            m == Cardinality(atS)
            n == m + 1
            Put(i) == PlaceOf(atS, Ascending(atS), i)
            f == [i \in at |-> IF i = l THEN n ELSE Put(i)]
<1>1. /\ DOMAIN s = 1..Len(s) /\ Len(s) \in Nat
      /\ u \in Seq(S) /\ DOMAIN u = 1..l
      /\ \A i \in 1..Len(s) : u[i] = s[i]
      /\ u[l] = x
  BY LenProperties, AppendProperties
<1>2. /\ IsFiniteSet(atS) /\ Orders(atS, Ascending(atS)) /\ m \in Nat
      /\ atS \in SUBSET (1..Len(s))
  BY KeptPlaces
<1>3. IsFiniteSet(at) /\ Orders(at, Ascending(at))
  BY <1>1, KeptPlaces
<1>4. at = atS \cup {l}
  BY <1>1 DEF KeptAt
<1>5. r \in Seq(S) /\ Len(r) = m
  BY WithoutType
<1>6. /\ \A i \in atS : Put(i) \in 1..m
      /\ \A i, j \in atS : <<i, j>> \in Ascending(atS) <=> Put(i) < Put(j)
      /\ \A p \in 1..m : \E i \in atS : Put(i) = p
  BY <1>2, Places
<1>7. \A i \in atS : r[Put(i)] = s[i]
  <2>1. \A i \in atS : Arranged(s, atS, Ascending(atS))[Put(i)] = s[i]
    BY <1>2, ArrangedElements
  <2>. QED
    BY <2>1, WithoutIsArranged
<1>8. /\ t \in [1..n -> S]
      /\ \A p \in 1..m : t[p] = r[p]
      /\ t[n] = x
  <2>1. t \in Seq(S) /\ Len(t) = n
    BY <1>5, AppendProperties
  <2>2. t \in [1..n -> S]
    BY <2>1, LenProperties
  <2>3. (\A p \in 1..m : t[p] = r[p]) /\ t[n] = x
    BY <1>5, AppendProperties
  <2>. QED
    BY <2>2, <2>3
<1>. HIDE DEF u, r, t, atS, at, m, Put
<1>9. l \notin atS /\ l \in Nat
  BY <1>1, <1>2
<1>10. (\A i \in atS : f[i] = Put(i) /\ i \in at) /\ f[l] = n /\ l \in at
  BY <1>4, <1>9
<1>11. f \in [at -> 1..n]
  <2>1. 1..m \subseteq 1..n /\ n \in 1..n
    BY <1>2
  <2>2. \A i \in at : (IF i = l THEN n ELSE Put(i)) \in 1..n
    BY <1>4, <1>6, <2>1
  <2>. QED
    BY <2>2
<1>12. \A p \in 1..n : \E i \in at : f[i] = p
  <2>. SUFFICES ASSUME NEW p \in 1..n
                PROVE  \E i \in at : f[i] = p
    OBVIOUS
  <2>1. p = n \/ p \in 1..m
    BY <1>2
  <2>. HIDE DEF f
  <2>. QED
    BY <1>6, <1>10, <2>1
<1>. HIDE DEF f
<1>13. \A i, j \in at : <<i, j>> \in Ascending(at) => f[i] < f[j]
  <2>. SUFFICES ASSUME NEW i \in at, NEW j \in at, <<i, j>> \in Ascending(at)
                PROVE  f[i] < f[j]
    OBVIOUS
  <2>1. i < j
    BY AscendingPairs
  <2>2. i \in atS
    BY <1>1, <1>2, <1>4, <2>1
  <2>3. CASE j = l
    BY <1>2, <1>6, <1>10, <2>2, <2>3
  <2>4. CASE j \in atS
    <3>1. Put(i) < Put(j)
      BY <1>6, <2>1, <2>2, <2>4, AscendingPairs
    <3>. QED
      BY <1>10, <2>2, <2>4, <3>1
  <2>. QED
    BY <1>4, <2>3, <2>4
<1>14. \A i \in at : t[f[i]] = u[i]
  <2>1. ASSUME NEW i \in atS
        PROVE  t[f[i]] = u[i]
    <3>1. f[i] = Put(i) /\ Put(i) \in 1..m
      BY <1>6, <1>10
    <3>2. t[Put(i)] = r[Put(i)] /\ r[Put(i)] = s[i]
      BY <1>7, <1>8, <3>1
    <3>3. u[i] = s[i]
      BY <1>1, <1>2
    <3>. QED
      BY <3>1, <3>2, <3>3
  <2>2. t[f[l]] = u[l]
    BY <1>1, <1>8, <1>10
  <2>. QED
    BY <1>4, <2>1, <2>2
<1>15. Numbers(f, at, Ascending(at), n)
  BY <1>2, <1>11, <1>12, <1>13 DEF Numbers
<1>16. Moves(f, at, n, u, t)
  BY <1>8, <1>14 DEF Moves
<1>17. Arranged(u, at, Ascending(at)) = t
  BY <1>3, <1>15, <1>16, ArrangedIs
<1>. QED
  BY <1>17, WithoutIsArranged DEF at, t, u, r

\* The elements at two places of t are from two places of s.
Picks(t, s) ==
  \A p, q \in DOMAIN t : p # q =>
    \E i, j \in DOMAIN s : i # j /\ t[p] = s[i] /\ t[q] = s[j]

\* No element is taken twice.
LEMMA WithoutPicks ==
  ASSUME NEW S, NEW s \in Seq(S), NEW gone
  PROVE  Picks(Without(s, gone), s)
<1>. DEFINE at == KeptAt(s, gone)
            n == Cardinality(at)
            t == Without(s, gone)
            Put(i) == PlaceOf(at, Ascending(at), i)
<1>1. IsFiniteSet(at) /\ Orders(at, Ascending(at)) /\ DOMAIN t = 1..n
  BY KeptPlaces, WithoutType
<1>2. \A i \in at : i \in DOMAIN s
  BY DEF KeptAt
<1>3. \A p \in 1..n : \E i \in at : Put(i) = p
  BY <1>1, Places
<1>4. \A i \in at : t[Put(i)] = s[i]
  <2>1. \A i \in at : Arranged(s, at, Ascending(at))[Put(i)] = s[i]
    BY <1>1, ArrangedElements
  <2>. QED
    BY <2>1, WithoutIsArranged
<1>. HIDE DEF at, n, t, Put
<1>5. ASSUME NEW p \in 1..n, NEW q \in 1..n, p # q
      PROVE  \E i, j \in DOMAIN s : i # j /\ t[p] = s[i] /\ t[q] = s[j]
  <2>1. PICK i \in at : Put(i) = p
    BY <1>3
  <2>2. PICK j \in at : Put(j) = q
    BY <1>3
  <2>. QED
    BY <1>2, <1>4, <1>5, <2>1, <2>2
<1>6. Picks(t, s)
  BY <1>1, <1>5 DEF Picks
<1>. QED
  BY <1>6 DEF t

-----------------------------------------------------------------------------
(* InsertionSort *)

\* The order that InsertionSort puts the places of s in.
Sooner(s, injected, j, i) ==
  IF SameRun(s, injected, i, j) /\ s[j].name # s[i].name
  THEN s[j].name < s[i].name
  ELSE j < i
SortOrder(s, injected) ==
  {ji \in (DOMAIN s) \X (DOMAIN s) : Sooner(s, injected, ji[1], ji[2])}

\* Where InsertionSort puts the element at i.
SortPlace(s, injected, i) == PlaceOf(DOMAIN s, SortOrder(s, injected), i)

\* What is sorted has a name.
Named(S) == \A x \in S : x.name \in Nat

\* Sorting arranges all elements.
LEMMA SortIsArranged ==
  ASSUME NEW s, NEW injected
  PROVE  InsertionSort(s, injected)
           = Arranged(s, DOMAIN s, SortOrder(s, injected))
BY DEF InsertionSort, SortOrder, Sooner

\* Pairs of the order.
LEMMA SortOrderPairs ==
  ASSUME NEW s, NEW injected, NEW i \in DOMAIN s, NEW j \in DOMAIN s
  PROVE  <<i, j>> \in SortOrder(s, injected) <=> Sooner(s, injected, i, j)
BY DEF SortOrder

\* A run reaches as far in one direction as in the other, two runs that meet
\* are one, and what is between two places of a run is of it.
LEMMA Runs ==
  ASSUME NEW s, NEW injected, NEW i \in Nat, NEW j \in Nat, NEW h \in Nat
  PROVE  /\ SameRun(s, injected, i, j) <=> SameRun(s, injected, j, i)
         /\ SameRun(s, injected, i, j) /\ SameRun(s, injected, j, h)
              => SameRun(s, injected, i, h)
         /\ SameRun(s, injected, i, j) /\ i <= h /\ h <= j
              => /\ SameRun(s, injected, i, h)
                 /\ SameRun(s, injected, h, j)
                 /\ s[h] \in injected
<1>1. ASSUME NEW a \in Nat, NEW b \in Nat
      PROVE  SameRun(s, injected, a, b) <=>
               \A p \in Nat : (a <= p /\ p <= b) \/ (b <= p /\ p <= a)
                                => s[p] \in injected
  BY DEF SameRun
<1>. QED
  BY <1>1

\* Places are in the order of their names in a run, and in their own order
\* where the names are the same or something of the user's is between them.
LEMMA SortOrders ==
  ASSUME NEW S, Named(S), NEW s \in Seq(S), NEW injected
  PROVE  Orders(DOMAIN s, SortOrder(s, injected))
<1>. DEFINE D == DOMAIN s
            Run(i, j) == SameRun(s, injected, i, j)
            name == [i \in D |-> s[i].name]
<1>1. D = 1..Len(s) /\ Len(s) \in Nat
  BY LenProperties
<1>2. \A i \in D : i \in Nat /\ name[i] \in Nat
  BY <1>1, ElementOfSeq DEF Named
<1>3. \A i, j \in D : <<i, j>> \in SortOrder(s, injected) <=>
        IF Run(i, j) /\ name[i] # name[j] THEN name[i] < name[j] ELSE i < j
  <2>. SUFFICES ASSUME NEW i \in D, NEW j \in D
                PROVE  <<i, j>> \in SortOrder(s, injected) <=>
                         IF Run(i, j) /\ name[i] # name[j]
                         THEN name[i] < name[j] ELSE i < j
    OBVIOUS
  <2>1. Run(i, j) <=> Run(j, i)
    BY <1>2, Runs
  <2>2. name[i] = s[i].name /\ name[j] = s[j].name
    OBVIOUS
  <2>. HIDE DEF name, Run
  <2>3. <<i, j>> \in SortOrder(s, injected) <=>
          IF Run(j, i) /\ s[i].name # s[j].name
          THEN s[i].name < s[j].name ELSE i < j
    BY SortOrderPairs DEF Sooner, Run
  <2>. QED
    BY <2>1, <2>2, <2>3
<1>4. \A i, j, h \in D :
        /\ Run(i, j) <=> Run(j, i)
        /\ Run(i, j) /\ Run(j, h) => Run(i, h)
        /\ Run(i, j) /\ i <= h /\ h <= j => Run(i, h) /\ Run(h, j)
  BY <1>2, Runs
<1>. HIDE DEF Run, name, D
<1>5. ASSUME NEW i \in D
      PROVE  <<i, i>> \notin SortOrder(s, injected)
  BY <1>2, <1>3
<1>6. ASSUME NEW i \in D, NEW j \in D
      PROVE  \/ i = j
             \/ <<i, j>> \in SortOrder(s, injected)
             \/ <<j, i>> \in SortOrder(s, injected)
  BY <1>2, <1>3, <1>4
<1>7. ASSUME NEW i \in D, NEW j \in D, NEW h \in D,
             <<i, j>> \in SortOrder(s, injected),
             <<j, h>> \in SortOrder(s, injected)
      PROVE  <<i, h>> \in SortOrder(s, injected)
  <2>1. IF Run(i, j) /\ name[i] # name[j] THEN name[i] < name[j] ELSE i < j
    BY <1>3, <1>7
  <2>2. IF Run(j, h) /\ name[j] # name[h] THEN name[j] < name[h] ELSE j < h
    BY <1>3, <1>7
  <2>3. IF Run(i, h) /\ name[i] # name[h] THEN name[i] < name[h] ELSE i < h
    <3>1. i \in Nat /\ j \in Nat /\ h \in Nat /\ name[i] \in Nat
          /\ name[j] \in Nat /\ name[h] \in Nat
      BY <1>2
    <3>2. CASE Run(i, j) /\ Run(j, h)
      <4>1. Run(i, h)
        BY <1>4, <3>2
      <4>. QED
        BY <2>1, <2>2, <3>1, <3>2, <4>1
    <3>3. CASE Run(i, j) /\ ~Run(j, h)
      <4>1. ~Run(i, h)
        BY <1>4, <3>3
      <4>2. j < h
        BY <2>2, <3>3
      <4>3. ~(h <= i)
        BY <1>4, <3>1, <3>3, <4>2
      <4>. QED
        BY <3>1, <4>1, <4>3
    <3>4. CASE ~Run(i, j) /\ Run(j, h)
      <4>1. ~Run(i, h)
        BY <1>4, <3>4
      <4>2. i < j
        BY <2>1, <3>4
      <4>3. ~(h <= i)
        BY <1>4, <3>1, <3>4, <4>2
      <4>. QED
        BY <3>1, <4>1, <4>3
    <3>5. CASE ~Run(i, j) /\ ~Run(j, h)
      <4>1. i < j /\ j < h
        BY <2>1, <2>2, <3>5
      <4>2. ~Run(i, h)
        BY <1>4, <3>1, <3>5, <4>1
      <4>. QED
        BY <3>1, <4>1, <4>2
    <3>. QED
      BY <3>2, <3>3, <3>4, <3>5
  <2>. QED
    BY <1>3, <2>3
<1>. QED
  BY <1>5, <1>6, <1>7 DEF Orders, D

\* Sorting puts every element in one place, and what is not injected stays
\* where it is.
LEMMA SortPlaces ==
  ASSUME NEW S, Named(S), NEW s \in Seq(S), NEW injected
  PROVE  /\ \A i \in DOMAIN s :
              /\ SortPlace(s, injected, i) \in DOMAIN s
              /\ InsertionSort(s, injected)[SortPlace(s, injected, i)] = s[i]
              /\ s[i] \notin injected => SortPlace(s, injected, i) = i
         /\ \A i, j \in DOMAIN s :
              /\ Sooner(s, injected, i, j) <=>
                   SortPlace(s, injected, i) < SortPlace(s, injected, j)
              /\ SortPlace(s, injected, i) = SortPlace(s, injected, j)
                   => i = j
         /\ InsertionSort(s, injected) \in [DOMAIN s -> Range(s)]
<1>. DEFINE D == DOMAIN s
            n == Len(s)
            order == SortOrder(s, injected)
            Put(i) == PlaceOf(D, order, i)
            t == InsertionSort(s, injected)
<1>1. D = 1..n /\ n \in Nat
  BY LenProperties
<1>2. Orders(D, order)
  BY SortOrders
<1>3. IsFiniteSet(D) /\ Cardinality(D) = n
  BY <1>1, FS_Interval
<1>4. \A i, j \in D : <<i, j>> \in order <=> Sooner(s, injected, i, j)
  BY SortOrderPairs
<1>5. t = Arranged(s, D, order)
  BY SortIsArranged
<1>6. {s[i] : i \in D} = Range(s)
  BY DEF Range
<1>. HIDE DEF D, n, order, Put, t
<1>7. /\ \A i \in D : Put(i) \in 1..n
      /\ \A i, j \in D : <<i, j>> \in order <=> Put(i) < Put(j)
      /\ \A i, j \in D : Put(i) = Put(j) => i = j
      /\ \A p \in 1..n : \E i \in D : Put(i) = p
  BY <1>2, <1>3, Places DEF Put
<1>8. /\ t \in [1..n -> Range(s)]
      /\ \A i \in D : t[Put(i)] = s[i]
  <2>1. /\ Arranged(s, D, order) \in [1..Cardinality(D) -> {s[i] : i \in D}]
        /\ \A i \in D : Arranged(s, D, order)[PlaceOf(D, order, i)] = s[i]
    BY <1>2, <1>3, ArrangedElements
  <2>. QED
    BY <1>3, <1>5, <1>6, <2>1 DEF Put
<1>9. ASSUME NEW i \in D, s[i] \notin injected
      PROVE  Put(i) = i
  <2>1. i \in 1..n /\ i \in Nat /\ i - 1 \in Nat
    BY <1>1
  <2>2. \A j \in D : <<j, i>> \in order <=> j < i
    <3>. SUFFICES ASSUME NEW j \in D
                  PROVE  <<j, i>> \in order <=> j < i
      OBVIOUS
    <3>1. j \in Nat
      BY <1>1
    <3>2. ~SameRun(s, injected, i, j)
      BY <1>9, <2>1, <3>1 DEF SameRun
    <3>. QED
      BY <1>4, <3>2 DEF Sooner
  <2>3. {j \in D : <<j, i>> \in order} = 1..(i - 1)
    BY <1>1, <2>1, <2>2
  <2>4. Cardinality(1..(i - 1)) = i - 1
    BY <2>1, FS_Interval
  <2>5. Put(i) = 1 + Cardinality({j \in D : <<j, i>> \in order})
    BY DEF Put, PlaceOf
  <2>6. Put(i) = 1 + (i - 1)
    BY <2>3, <2>4, <2>5
  <2>. QED
    BY <2>1, <2>6
<1>10. \A i \in D : Put(i) = SortPlace(s, injected, i)
  BY DEF Put, SortPlace, order, D
<1>11. \A i \in D :
         /\ SortPlace(s, injected, i) \in D
         /\ t[SortPlace(s, injected, i)] = s[i]
         /\ s[i] \notin injected => SortPlace(s, injected, i) = i
  BY <1>1, <1>7, <1>8, <1>9, <1>10
<1>12. \A i, j \in D :
         /\ Sooner(s, injected, i, j) <=>
              SortPlace(s, injected, i) < SortPlace(s, injected, j)
         /\ SortPlace(s, injected, i) = SortPlace(s, injected, j) => i = j
  <2>. SUFFICES ASSUME NEW i \in D, NEW j \in D
                PROVE  /\ Sooner(s, injected, i, j) <=> Put(i) < Put(j)
                       /\ Put(i) = Put(j) => i = j
    BY <1>10
  <2>1. Sooner(s, injected, i, j) <=> Put(i) < Put(j)
    BY <1>4, <1>7
  <2>2. Put(i) = Put(j) => i = j
    BY <1>7
  <2>. QED
    BY <2>1, <2>2
<1>13. t \in [D -> Range(s)]
  BY <1>1, <1>8
<1>. QED
  BY <1>11, <1>12, <1>13 DEF t, D

\* The order of two elements is that of their places.
LEMMA SortBefore ==
  ASSUME NEW S, Named(S), NEW s \in Seq(S), NEW injected,
         NEW i \in DOMAIN s, NEW j \in DOMAIN s
  PROVE  /\ Sooner(s, injected, i, j) =>
              SortPlace(s, injected, i) < SortPlace(s, injected, j)
         /\ SortPlace(s, injected, i) = SortPlace(s, injected, j) => i = j
BY SortPlaces

\* There is an element for every place.
LEMMA SortOnto ==
  ASSUME NEW S, Named(S), NEW s \in Seq(S), NEW injected, NEW p \in DOMAIN s
  PROVE  \E i \in DOMAIN s : SortPlace(s, injected, i) = p
<1>. DEFINE D == DOMAIN s
            order == SortOrder(s, injected)
<1>1. D = 1..Len(s) /\ Len(s) \in Nat
  BY LenProperties
<1>2. IsFiniteSet(D) /\ Cardinality(D) = Len(s)
  <2>. DEFINE n == Len(s)
  <2>1. D = 1..n /\ n \in Nat
    BY <1>1
  <2>. HIDE DEF D, n
  <2>2. IsFiniteSet(D) /\ Cardinality(D) = n
    BY <2>1, FS_Interval
  <2>. QED
    BY <2>2 DEF n
<1>3. Orders(D, order)
  BY SortOrders
<1>. HIDE DEF D, order
<1>4. \A q \in 1..Cardinality(D) : \E i \in D : PlaceOf(D, order, i) = q
  BY <1>2, <1>3, Places
<1>5. \E i \in D : PlaceOf(D, order, i) = p
  BY <1>1, <1>2, <1>4 DEF D
<1>. QED
  BY <1>5 DEF SortPlace, D, order

\* A sorted list has the elements that it had, injected ones where injected
\* ones were, and the others where they were.
LEMMA SortType ==
  ASSUME NEW S, Named(S), NEW s \in Seq(S), NEW injected
  PROVE  /\ InsertionSort(s, injected) \in Seq(S)
         /\ Len(InsertionSort(s, injected)) = Len(s)
         /\ DOMAIN InsertionSort(s, injected) = DOMAIN s
         /\ Range(InsertionSort(s, injected)) = Range(s)
         /\ \A p \in DOMAIN s :
              /\ InsertionSort(s, injected)[p] \in injected <=> s[p] \in injected
              /\ s[p] \notin injected => InsertionSort(s, injected)[p] = s[p]
<1>. DEFINE D == DOMAIN s
            Put(i) == SortPlace(s, injected, i)
            t == InsertionSort(s, injected)
<1>1. D = 1..Len(s) /\ Len(s) \in Nat
  BY LenProperties
<1>2. \A x \in Range(s) : x \in S
  BY ElementOfSeq DEF Range
<1>3. /\ \A i \in D : /\ Put(i) \in D
                      /\ t[Put(i)] = s[i]
                      /\ s[i] \notin injected => Put(i) = i
      /\ t \in [D -> Range(s)]
  BY SortPlaces
<1>4. \A p \in D : \E i \in D : Put(i) = p
  BY SortOnto
<1>. HIDE DEF D, Put, t
<1>5. t \in [1..Len(s) -> S]
  BY <1>1, <1>2, <1>3
<1>6. t \in Seq(S) /\ Len(t) = Len(s) /\ DOMAIN t = D
  BY <1>1, <1>5
<1>7. Range(t) = Range(s)
  <2>1. Range(t) = {t[p] : p \in D} /\ Range(s) = {s[p] : p \in D}
    BY <1>6 DEF Range, D
  <2>. QED
    BY <1>3, <1>4, <2>1
<1>8. \A p \in D : s[p] \notin injected => t[p] = s[p]
  BY <1>3
<1>9. ASSUME NEW p \in D, s[p] \in injected
      PROVE  t[p] \in injected
  <2>1. PICK i \in D : Put(i) = p
    BY <1>4
  <2>. QED
    BY <1>3, <1>9, <2>1
<1>. QED
  BY <1>6, <1>7, <1>8, <1>9 DEF t, D

\* Sorting does not show in what is left without the injected elements.
LEMMA SortWithout ==
  ASSUME NEW S, Named(S), NEW s \in Seq(S), NEW injected, NEW gone,
         injected \subseteq gone
  PROVE  Without(InsertionSort(s, injected), gone) = Without(s, gone)
<1>. DEFINE t == InsertionSort(s, injected)
<1>1. /\ DOMAIN t = DOMAIN s
      /\ \A p \in DOMAIN s : /\ t[p] \in injected <=> s[p] \in injected
                             /\ s[p] \notin injected => t[p] = s[p]
  BY SortType
<1>. HIDE DEF t
<1>2. KeptAt(s, gone) = KeptAt(t, gone)
      /\ \A i \in KeptAt(s, gone) : s[i] = t[i]
  BY <1>1 DEF KeptAt
<1>3. Without(s, gone) = Without(t, gone)
  BY <1>2, WithoutSame
<1>. QED
  BY <1>3 DEF t

\* No element is taken twice.
LEMMA SortPicks ==
  ASSUME NEW S, Named(S), NEW s \in Seq(S), NEW injected
  PROVE  Picks(InsertionSort(s, injected), s)
<1>. DEFINE D == DOMAIN s
            Put(i) == SortPlace(s, injected, i)
            t == InsertionSort(s, injected)
<1>1. DOMAIN t = D
  BY SortType
<1>2. \A i \in D : t[Put(i)] = s[i]
  BY SortPlaces
<1>3. \A p \in D : \E i \in D : Put(i) = p
  BY SortOnto
<1>. HIDE DEF D, Put, t
<1>4. ASSUME NEW p \in D, NEW q \in D, p # q
      PROVE  \E i, j \in D : i # j /\ t[p] = s[i] /\ t[q] = s[j]
  <2>1. PICK i \in D : Put(i) = p
    BY <1>3
  <2>2. PICK j \in D : Put(j) = q
    BY <1>3
  <2>. QED
    BY <1>2, <1>4, <2>1, <2>2
<1>5. Picks(t, s)
  BY <1>1, <1>4 DEF Picks, D
<1>. QED
  BY <1>5 DEF t

-----------------------------------------------------------------------------
(* How often an element is in a list *)

Count(s, x) == Cardinality({i \in DOMAIN s : s[i] = x})

\* Lists with places in correspondence have an element equally often.
LEMMA CountMoved ==
  ASSUME NEW A, IsFiniteSet(A), NEW B, NEW f \in [A -> B],
         \A i, j \in A : f[i] = f[j] => i = j,
         \A p \in B : \E i \in A : f[i] = p
  PROVE  Cardinality(A) = Cardinality(B)
<1>1. f \in Bijection(A, B)
  BY Fun_IsBij
<1>2. ExistsBijection(A, B)
  BY <1>1, Fun_ExistsBij, Zenon
<1>. QED
  BY <1>2, FS_Bijection

\* The places of an element are finitely many.
LEMMA CountFinite ==
  ASSUME NEW S, NEW s \in Seq(S), NEW x
  PROVE  IsFiniteSet({i \in DOMAIN s : s[i] = x})
<1>1. DOMAIN s = 1..Len(s) /\ Len(s) \in Nat
  BY LenProperties
<1>2. IsFiniteSet(DOMAIN s)
  BY <1>1, FS_Interval
<1>3. {i \in DOMAIN s : s[i] = x} \in SUBSET (DOMAIN s)
  OBVIOUS
<1>. QED
  BY <1>2, <1>3, FS_Subset

\* Without keeps all that it keeps.
LEMMA CountWithout ==
  ASSUME NEW S, NEW s \in Seq(S), NEW gone, NEW x, x \notin gone
  PROVE  Count(Without(s, gone), x) = Count(s, x)
<1>. DEFINE at == KeptAt(s, gone)
            n == Cardinality(at)
            t == Without(s, gone)
            Put(i) == PlaceOf(at, Ascending(at), i)
            A == {i \in DOMAIN s : s[i] = x}
            B == {p \in DOMAIN t : t[p] = x}
            f == [i \in A |-> Put(i)]
<1>1. IsFiniteSet(at) /\ Orders(at, Ascending(at)) /\ DOMAIN t = 1..n
  BY KeptPlaces, WithoutType
<1>2. /\ \A i \in at : Put(i) \in 1..n
      /\ \A i, j \in at : Put(i) = Put(j) => i = j
      /\ \A p \in 1..n : \E i \in at : Put(i) = p
  BY <1>1, Places
<1>3. \A i \in at : t[Put(i)] = s[i]
  <2>1. \A i \in at : Arranged(s, at, Ascending(at))[Put(i)] = s[i]
    BY <1>1, ArrangedElements
  <2>. QED
    BY <2>1, WithoutIsArranged
<1>4. A = {i \in at : s[i] = x}
  BY DEF KeptAt
<1>5. IsFiniteSet(A)
  BY CountFinite
<1>. HIDE DEF at, n, t, Put
<1>6. /\ f \in [A -> B]
      /\ \A i, j \in A : f[i] = f[j] => i = j
      /\ \A p \in B : \E i \in A : f[i] = p
  <2>1. \A i \in A : Put(i) \in B
    BY <1>1, <1>2, <1>3, <1>4
  <2>2. \A i, j \in A : Put(i) = Put(j) => i = j
    BY <1>2, <1>4
  <2>3. ASSUME NEW p \in B
        PROVE  \E i \in A : Put(i) = p
    <3>1. PICK i \in at : Put(i) = p
      BY <1>1, <1>2
    <3>. QED
      BY <1>3, <1>4, <3>1
  <2>. HIDE DEF A, B
  <2>. QED
    BY <2>1, <2>2, <2>3
<1>. HIDE DEF A, B, f
<1>7. Cardinality(A) = Cardinality(B)
  BY <1>5, <1>6, CountMoved
<1>. QED
  BY <1>7 DEF A, B, t, Count

\* Sorting keeps all.
LEMMA CountSort ==
  ASSUME NEW S, Named(S), NEW s \in Seq(S), NEW injected, NEW x
  PROVE  Count(InsertionSort(s, injected), x) = Count(s, x)
<1>. DEFINE D == DOMAIN s
            t == InsertionSort(s, injected)
            Put(i) == SortPlace(s, injected, i)
            A == {i \in D : s[i] = x}
            B == {p \in D : t[p] = x}
            f == [i \in A |-> Put(i)]
<1>1. DOMAIN t = D
  BY SortType
<1>2. /\ \A i \in D : Put(i) \in D /\ t[Put(i)] = s[i]
      /\ \A i, j \in D : Put(i) = Put(j) => i = j
      /\ \A p \in D : \E i \in D : Put(i) = p
  <2>1. \A i \in D : Put(i) \in D /\ t[Put(i)] = s[i]
    BY SortPlaces
  <2>2. ASSUME NEW i \in D, NEW j \in D
        PROVE  Put(i) = Put(j) => i = j
    BY SortBefore
  <2>3. ASSUME NEW p \in D
        PROVE  \E i \in D : Put(i) = p
    BY SortOnto
  <2>. HIDE DEF D, t, Put
  <2>. QED
    BY <2>1, <2>2, <2>3
<1>3. IsFiniteSet(A)
  BY CountFinite
<1>. HIDE DEF D, t, Put
<1>4. /\ f \in [A -> B]
      /\ \A i, j \in A : f[i] = f[j] => i = j
      /\ \A p \in B : \E i \in A : f[i] = p
  <2>1. \A i \in A : Put(i) \in B
    BY <1>2
  <2>2. \A i, j \in A : Put(i) = Put(j) => i = j
    BY <1>2
  <2>3. ASSUME NEW p \in B
        PROVE  \E i \in A : Put(i) = p
    <3>1. PICK i \in D : Put(i) = p
      BY <1>2
    <3>. QED
      BY <1>2, <3>1
  <2>. HIDE DEF A, B
  <2>. QED
    BY <2>1, <2>2, <2>3
<1>. HIDE DEF A, B, f
<1>5. Cardinality(A) = Cardinality(B)
  BY <1>3, <1>4, CountMoved
<1>6. A = {i \in DOMAIN s : s[i] = x} /\ B = {p \in DOMAIN t : t[p] = x}
  BY <1>1 DEF A, B, D
<1>. QED
  BY <1>5, <1>6 DEF t, Count

\* Appending others changes nothing.
LEMMA CountAppended ==
  ASSUME NEW S, NEW s \in Seq(S), NEW t \in Seq(S), NEW x, x \notin Range(t)
  PROVE  Count(s \o t, x) = Count(s, x)
<1>1. /\ DOMAIN s = 1..Len(s) /\ Len(s) \in Nat
      /\ DOMAIN t = 1..Len(t) /\ Len(t) \in Nat
      /\ DOMAIN (s \o t) = 1..(Len(s) + Len(t))
      /\ \A i \in 1..Len(s) : (s \o t)[i] = s[i]
      /\ \A i \in (Len(s) + 1)..(Len(s) + Len(t)) : (s \o t)[i] = t[i - Len(s)]
  BY LenProperties, ConcatProperties
<1>. DEFINE st == s \o t
<1>. HIDE DEF st
<1>2. \A i \in (Len(s) + 1)..(Len(s) + Len(t)) : st[i] # x
  <2>. SUFFICES ASSUME NEW i \in (Len(s) + 1)..(Len(s) + Len(t))
                PROVE  st[i] # x
    OBVIOUS
  <2>1. i - Len(s) \in DOMAIN t
    BY <1>1
  <2>2. t[i - Len(s)] \in Range(t)
    BY <2>1 DEF Range
  <2>. QED
    BY <1>1, <2>2 DEF st
<1>3. \A i \in DOMAIN st :
        \/ i \in 1..Len(s)
        \/ i \in (Len(s) + 1)..(Len(s) + Len(t))
  BY <1>1 DEF st
<1>4. /\ \A i \in DOMAIN s : i \in DOMAIN st /\ st[i] = s[i]
      /\ \A i \in DOMAIN st : i \notin DOMAIN s => st[i] # x
  BY <1>1, <1>2, <1>3 DEF st
<1>5. {i \in DOMAIN st : st[i] = x} = {i \in DOMAIN s : s[i] = x}
  BY <1>4
<1>. QED
  BY <1>5 DEF st, Count

-----------------------------------------------------------------------------
(* Sorting again *)

\* Only which elements of the list are injected matters.
LEMMA SortRange ==
  ASSUME NEW S, NEW s \in Seq(S), NEW A, NEW B,
         \A x \in Range(s) : x \in A <=> x \in B
  PROVE  InsertionSort(s, A) = InsertionSort(s, B)
<1>1. DOMAIN s = 1..Len(s) /\ Len(s) \in Nat
  BY LenProperties
<1>2. \A i, j \in DOMAIN s : \A h \in (i..j) \cup (j..i) : h \in DOMAIN s
  BY <1>1
<1>3. \A h \in DOMAIN s : s[h] \in A <=> s[h] \in B
  BY DEF Range
<1>4. \A i, j \in DOMAIN s : SameRun(s, A, i, j) <=> SameRun(s, B, i, j)
  BY <1>2, <1>3 DEF SameRun
<1>5. \A i, j \in DOMAIN s : Sooner(s, A, i, j) <=> Sooner(s, B, i, j)
  BY <1>4 DEF Sooner
<1>6. SortOrder(s, A) = SortOrder(s, B)
  BY <1>5 DEF SortOrder
<1>. QED
  BY <1>6, SortIsArranged

\* Nothing moves past what is not injected.
LEMMA SortBeyond ==
  ASSUME NEW S, Named(S), NEW s \in Seq(S), NEW injected,
         NEW h \in DOMAIN s, s[h] \notin injected, NEW i \in DOMAIN s
  PROVE  /\ i < h => SortPlace(s, injected, i) < h
         /\ h < i => h < SortPlace(s, injected, i)
<1>1. DOMAIN s = 1..Len(s) /\ Len(s) \in Nat
  BY LenProperties
<1>2. h \in Nat /\ i \in Nat
  BY <1>1
<1>3. ~SameRun(s, injected, i, h) /\ ~SameRun(s, injected, h, i)
  BY <1>2 DEF SameRun
<1>4. /\ i < h => Sooner(s, injected, i, h)
      /\ h < i => Sooner(s, injected, h, i)
  BY <1>3 DEF Sooner
<1>5. /\ SortPlace(s, injected, h) = h
      /\ Sooner(s, injected, i, h) =>
           SortPlace(s, injected, i) < SortPlace(s, injected, h)
      /\ Sooner(s, injected, h, i) =>
           SortPlace(s, injected, h) < SortPlace(s, injected, i)
  BY SortPlaces
<1>. QED
  BY <1>4, <1>5

\* Removing what was appended and sorted in, appending it and sorting it in
\* again changes nothing.
LEMMA SortAgain ==
  ASSUME NEW S, Named(S), NEW s \in Seq(S), NEW xs \in Seq(S),
         NEW injected, NEW gone,
         \A x \in Range(s) : x \notin gone,
         \A x \in Range(xs) : x \in gone /\ x \in injected
  PROVE  InsertionSort(Without(InsertionSort(s \o xs, injected), gone) \o xs,
                      injected)
           = InsertionSort(s \o xs, injected)
<1>. DEFINE n == Len(s)
            N == n + Len(xs)
            u == s \o xs
            t == InsertionSort(u, injected)
            Put(i) == SortPlace(u, injected, i)
            at == KeptAt(t, gone)
            w == Without(t, gone)
            Back(p) == PlaceOf(at, Ascending(at), p)
            v == w \o xs
            From(p) == CHOOSE q \in at : Back(q) = p
            f == [p \in 1..N |-> IF p <= n THEN From(p) ELSE Put(p)]
<1>1. /\ n \in Nat /\ N \in Nat /\ n <= N
      /\ u \in Seq(S) /\ DOMAIN u = 1..N /\ Len(u) = N
      /\ \A i \in 1..n : u[i] = s[i] /\ i \in DOMAIN s
      /\ \A i \in (n + 1)..N : u[i] = xs[i - n] /\ i - n \in DOMAIN xs
  BY LenProperties, ConcatProperties
<1>2. /\ \A i \in 1..n : u[i] \notin gone
      /\ \A i \in (n + 1)..N : u[i] \in gone /\ u[i] \in injected
  <2>1. (\A i \in DOMAIN s : s[i] \in Range(s))
        /\ (\A i \in DOMAIN xs : xs[i] \in Range(xs))
    BY DEF Range
  <2>. HIDE DEF u, n, N
  <2>. QED
    BY <1>1, <2>1
<1>3. \A i \in 1..N : i \in 1..n \/ i \in (n + 1)..N
  BY <1>1
<1>4. /\ \A i \in 1..N : Put(i) \in 1..N /\ t[Put(i)] = u[i]
      /\ \A i, j \in 1..N :
           /\ Sooner(u, injected, i, j) => Put(i) < Put(j)
           /\ Put(i) = Put(j) => i = j
  <2>. HIDE DEF u
  <2>1. \A i \in DOMAIN u : Put(i) \in DOMAIN u /\ t[Put(i)] = u[i]
    BY <1>1, SortPlaces
  <2>2. ASSUME NEW i \in DOMAIN u, NEW j \in DOMAIN u
        PROVE  /\ Sooner(u, injected, i, j) => Put(i) < Put(j)
               /\ Put(i) = Put(j) => i = j
    BY <1>1, SortBefore
  <2>. HIDE DEF t, Put, N
  <2>. QED
    BY <1>1, <2>1, <2>2
<1>5. \A p \in 1..N : \E i \in 1..N : Put(i) = p
  <2>. HIDE DEF u
  <2>1. ASSUME NEW p \in DOMAIN u
        PROVE  \E i \in DOMAIN u : Put(i) = p
    BY <1>1, SortOnto
  <2>. HIDE DEF Put, N
  <2>. QED
    BY <1>1, <2>1
<1>6. \A h, i \in 1..N : u[h] \notin injected =>
        /\ Put(h) = h
        /\ i < h => Put(i) < h
        /\ h < i => h < Put(i)
  BY <1>1, SortBeyond, SortPlaces
<1>7. /\ t \in Seq(S) /\ DOMAIN t = 1..N
      /\ \A p \in 1..N : t[p] \in injected <=> u[p] \in injected
  BY <1>1, SortType
<1>8. at = {p \in 1..N : t[p] \notin gone}
  BY <1>7 DEF KeptAt
<1>9. IsFiniteSet(at) /\ Orders(at, Ascending(at)) /\ at \in SUBSET Nat
  BY <1>7, KeptPlaces
<1>10. w \in Seq(S) /\ Len(w) = Cardinality(at)
  BY <1>7, WithoutType
<1>11. /\ \A p \in at : Back(p) \in 1..Cardinality(at)
       /\ \A p, q \in at : <<p, q>> \in Ascending(at) <=> Back(p) < Back(q)
       /\ \A p, q \in at : Back(p) = Back(q) => p = q
       /\ \A p \in 1..Cardinality(at) : \E q \in at : Back(q) = p
  BY <1>9, Places
<1>12. \A p \in at : w[Back(p)] = t[p]
  <2>1. \A p \in at : Arranged(t, at, Ascending(at))[Back(p)] = t[p]
    BY <1>9, ArrangedElements
  <2>. QED
    BY <2>1, WithoutIsArranged
<1>. HIDE DEF u, t, Put, at, w, Back, n, N
<1>13. (\A i \in 1..n : Put(i) \in at)
       /\ (\A p \in at : \E i \in 1..n : Put(i) = p)
  <2>1. \A i \in 1..n : i \in 1..N
    BY <1>1
  <2>2. ASSUME NEW p \in at
        PROVE  \E i \in 1..n : Put(i) = p
    <3>1. PICK i \in 1..N : Put(i) = p
      BY <1>5, <1>8
    <3>. QED
      BY <1>2, <1>3, <1>4, <1>8, <3>1
  <2>. QED
    BY <1>2, <1>4, <1>8, <2>1, <2>2
<1>14. Cardinality(at) = n
  <2>. DEFINE g == [i \in 1..n |-> Put(i)]
  <2>1. g \in [1..n -> at] /\ \A p \in at : \E i \in 1..n : g[i] = p
    BY <1>13
  <2>2. \A i, j \in 1..n : g[i] = g[j] => i = j
    <3>1. \A i \in 1..n : i \in 1..N
      BY <1>1
    <3>. QED
      BY <1>4, <3>1
  <2>3. IsFiniteSet(1..n) /\ Cardinality(1..n) = n
    BY <1>1, FS_Interval
  <2>. HIDE DEF g
  <2>4. Cardinality(1..n) = Cardinality(at)
    <3>. DEFINE A == 1..n
    <3>1. /\ IsFiniteSet(A) /\ g \in [A -> at]
          /\ \A i, j \in A : g[i] = g[j] => i = j
          /\ \A p \in at : \E i \in A : g[i] = p
      BY <2>1, <2>2, <2>3
    <3>. HIDE DEF A
    <3>2. Cardinality(A) = Cardinality(at)
      BY <3>1, CountMoved
    <3>. QED
      BY <3>2 DEF A
  <2>. QED
    BY <2>3, <2>4
<1>15. /\ v \in Seq(S) /\ DOMAIN v = 1..N
       /\ \A p \in 1..n : v[p] = w[p]
       /\ \A p \in (n + 1)..N : v[p] = u[p]
  <2>1. /\ v \in Seq(S) /\ Len(v) = Len(w) + Len(xs)
        /\ \A p \in 1..(Len(w) + Len(xs)) :
             v[p] = IF p <= Len(w) THEN w[p] ELSE xs[p - Len(w)]
    BY <1>10, ConcatProperties
  <2>2. Len(w) = n /\ Len(w) + Len(xs) = N
    BY <1>10, <1>14 DEF N
  <2>3. DOMAIN v = 1..N
    BY <2>1, <2>2, LenProperties
  <2>. HIDE DEF v
  <2>. QED
    BY <1>1, <2>1, <2>2, <2>3
<1>. HIDE DEF v
<1>16. \A p \in 1..n : From(p) \in at /\ Back(From(p)) = p
  BY <1>11, <1>14
<1>. HIDE DEF From
<1>17. /\ \A p \in 1..n : /\ f[p] \in at /\ f[p] \in 1..N
                          /\ Back(f[p]) = p /\ v[p] = t[f[p]]
       /\ \A p \in (n + 1)..N : /\ f[p] = Put(p) /\ f[p] \in 1..N
                                /\ v[p] = t[f[p]] /\ v[p] \in injected
  <2>1. ASSUME NEW p \in 1..n
        PROVE  /\ f[p] \in at /\ f[p] \in 1..N
               /\ Back(f[p]) = p /\ v[p] = t[f[p]]
    <3>1. p \in 1..N /\ p <= n
      BY <1>1
    <3>2. f[p] = From(p)
      BY <3>1
    <3>. QED
      BY <1>8, <1>12, <1>15, <1>16, <3>2
  <2>2. ASSUME NEW p \in (n + 1)..N
        PROVE  /\ f[p] = Put(p) /\ f[p] \in 1..N
               /\ v[p] = t[f[p]] /\ v[p] \in injected
    <3>1. p \in 1..N /\ ~(p <= n)
      BY <1>1
    <3>2. f[p] = Put(p)
      BY <3>1
    <3>. QED
      BY <1>2, <1>4, <1>15, <3>1, <3>2
  <2>. QED
    BY <2>1, <2>2
<1>18. f \in [1..N -> 1..N]
  <2>1. f = [p \in 1..N |-> f[p]]
    OBVIOUS
  <2>. HIDE DEF f
  <2>2. \A p \in 1..N : f[p] \in 1..N
    BY <1>3, <1>17
  <2>. QED
    BY <2>1, <2>2
<1>. HIDE DEF f
<1>19. \A p, q \in 1..n : p < q <=> f[p] < f[q]
  <2>. SUFFICES ASSUME NEW p \in 1..n, NEW q \in 1..n
                PROVE  p < q <=> f[p] < f[q]
    OBVIOUS
  <2>1. <<f[p], f[q]>> \in Ascending(at) <=> Back(f[p]) < Back(f[q])
    BY <1>11, <1>17
  <2>2. <<f[p], f[q]>> \in Ascending(at) <=> f[p] < f[q]
    BY <1>17, AscendingPairs
  <2>. QED
    BY <1>17, <2>1, <2>2
<1>20. \A p \in 1..N : \E q \in 1..N : f[q] = p
  <2>. SUFFICES ASSUME NEW p \in 1..N
                PROVE  \E q \in 1..N : f[q] = p
    OBVIOUS
  <2>1. CASE p \in at
    <3>1. Back(p) \in 1..n
      BY <1>11, <1>14, <2>1
    <3>2. f[Back(p)] \in at /\ Back(f[Back(p)]) = Back(p)
      BY <1>17, <3>1
    <3>3. f[Back(p)] = p
      BY <1>11, <2>1, <3>2
    <3>4. Back(p) \in 1..N
      BY <1>1, <3>1
    <3>. QED
      BY <3>3, <3>4
  <2>2. CASE p \notin at
    <3>1. PICK i \in 1..N : Put(i) = p
      BY <1>5
    <3>2. i \in (n + 1)..N
      BY <1>3, <1>13, <2>2, <3>1
    <3>. QED
      BY <1>17, <3>1, <3>2
  <2>. QED
    BY <2>1, <2>2
\* What is not injected is before all that was appended.
<1>21. ASSUME NEW h \in 1..N, t[h] \notin injected
       PROVE  /\ u[h] \notin injected /\ h \in 1..n
              /\ \E p \in 1..n : f[p] = h
              /\ \A q \in (n + 1)..N : h < f[q]
  <2>1. u[h] \notin injected
    BY <1>7, <1>21
  <2>2. h \in 1..n
    BY <1>2, <1>3, <2>1
  <2>3. Put(h) = h
    BY <1>6, <2>1
  <2>4. h \in at
    BY <1>13, <2>2, <2>3
  <2>5. Back(h) \in 1..n
    BY <1>11, <1>14, <2>4
  <2>6. f[Back(h)] = h
    BY <1>11, <1>17, <2>4, <2>5
  <2>7. \A q \in (n + 1)..N : q \in 1..N /\ h < q
    BY <1>1, <2>2
  <2>. QED
    BY <1>6, <1>17, <2>1, <2>2, <2>5, <2>6, <2>7
<1>22. ASSUME NEW p \in 1..N, NEW q \in 1..N, SameRun(v, injected, p, q)
       PROVE  SameRun(t, injected, f[p], f[q])
  <2>1. \A h \in Nat : (p <= h /\ h <= q) \/ (q <= h /\ h <= p)
          => v[h] \in injected
    BY <1>22 DEF SameRun
  <2>. SUFFICES ASSUME NEW h \in (f[p]..f[q]) \cup (f[q]..f[p]),
                       t[h] \notin injected
                PROVE  FALSE
    BY DEF SameRun
  <2>2. f[p] \in 1..N /\ f[q] \in 1..N
    BY <1>18
  <2>3. h \in 1..N
    BY <1>1, <2>2
  <2>4. PICK g \in 1..n : f[g] = h
    BY <1>21, <2>3
  <2>5. v[g] \notin injected
    BY <1>17, <2>4
  <2>6. \A r \in (n + 1)..N : h < f[r]
    BY <1>21, <2>3
  <2>7. CASE p \in 1..n /\ q \in 1..n
    <3>1. /\ p < g <=> f[p] < h
          /\ g < p <=> h < f[p]
          /\ q < g <=> f[q] < h
          /\ g < q <=> h < f[q]
      BY <1>19, <2>4, <2>7
    <3>2. (p <= g /\ g <= q) \/ (q <= g /\ g <= p)
      BY <1>1, <2>2, <2>3, <2>7, <3>1
    <3>. QED
      BY <1>1, <2>1, <2>5, <3>2
  <2>8. CASE p \in 1..n /\ q \in (n + 1)..N
    <3>1. h < f[q] /\ (g < p <=> h < f[p])
      BY <1>19, <2>4, <2>6, <2>8
    <3>2. p <= g /\ g <= q
      BY <1>1, <2>2, <2>3, <2>8, <3>1
    <3>. QED
      BY <1>1, <2>1, <2>5, <3>2
  <2>9. CASE q \in 1..n /\ p \in (n + 1)..N
    <3>1. h < f[p] /\ (g < q <=> h < f[q])
      BY <1>19, <2>4, <2>6, <2>9
    <3>2. q <= g /\ g <= p
      BY <1>1, <2>2, <2>3, <2>9, <3>1
    <3>. QED
      BY <1>1, <2>1, <2>5, <3>2
  <2>10. CASE p \in (n + 1)..N /\ q \in (n + 1)..N
    <3>1. h < f[p] /\ h < f[q]
      BY <2>6, <2>10
    <3>. QED
      BY <2>2, <2>3, <3>1
  <2>. QED
    BY <1>3, <2>7, <2>8, <2>9, <2>10
\* Places that sorting u has put in one run were in one run.
<1>23. ASSUME NEW i \in 1..N, NEW j \in 1..N,
              SameRun(t, injected, Put(i), Put(j))
       PROVE  SameRun(u, injected, i, j)
  <2>. SUFFICES ASSUME NEW h \in (i..j) \cup (j..i), u[h] \notin injected
                PROVE  FALSE
    BY DEF SameRun
  <2>1. h \in 1..N
    BY <1>1
  <2>2. t[h] \notin injected
    BY <1>7, <2>1
  <2>3. /\ Put(h) = h
        /\ i < h => Put(i) < h
        /\ h < i => h < Put(i)
        /\ j < h => Put(j) < h
        /\ h < j => h < Put(j)
    BY <1>6, <2>1
  <2>4. Put(i) \in 1..N /\ Put(j) \in 1..N
    BY <1>4
  <2>5. h \in (Put(i)..Put(j)) \cup (Put(j)..Put(i))
    BY <1>1, <2>1, <2>3, <2>4
  <2>. QED
    BY <1>23, <2>2, <2>5 DEF SameRun
<1>24. \A i \in 1..N : u[i].name \in Nat
  BY <1>1, ElementOfSeq DEF Named
<1>25. ASSUME NEW p \in 1..N, NEW q \in 1..N, Sooner(v, injected, p, q)
       PROVE  f[p] < f[q]
  <2>1. PICK i \in 1..N : Put(i) = f[p] /\ (p \in (n + 1)..N => i = p)
                          /\ (p \in 1..n => i \in 1..n)
    BY <1>1, <1>3, <1>13, <1>17
  <2>2. PICK j \in 1..N : Put(j) = f[q] /\ (q \in (n + 1)..N => j = q)
                          /\ (q \in 1..n => j \in 1..n)
    BY <1>1, <1>3, <1>13, <1>17
  <2>3. v[p] = u[i] /\ v[q] = u[j]
    <3>1. v[p] = t[f[p]] /\ v[q] = t[f[q]]
      BY <1>3, <1>17
    <3>2. t[Put(i)] = u[i] /\ t[Put(j)] = u[j]
      BY <1>4
    <3>. QED
      BY <2>1, <2>2, <3>1, <3>2
  <2>4. p \in Nat /\ q \in Nat /\ i \in Nat /\ j \in Nat
    BY <1>1
  <2>5. Sooner(u, injected, i, j) => f[p] < f[q]
    BY <1>4, <2>1, <2>2
  <2>6. CASE SameRun(v, injected, q, p) /\ v[p].name # v[q].name
    <3>1. v[p].name < v[q].name
      BY <1>25, <2>6 DEF Sooner
    <3>2. SameRun(t, injected, f[q], f[p])
      BY <1>22, <2>6
    <3>3. SameRun(u, injected, j, i)
      BY <1>23, <2>1, <2>2, <3>2
    <3>4. Sooner(u, injected, i, j)
      BY <2>3, <2>6, <3>1, <3>3 DEF Sooner
    <3>. QED
      BY <2>5, <3>4
  <2>7. CASE ~(SameRun(v, injected, q, p) /\ v[p].name # v[q].name)
    <3>1. p < q
      BY <1>25, <2>7 DEF Sooner
    <3>2. CASE p \in 1..n /\ q \in 1..n
      BY <1>19, <3>1, <3>2
    <3>3. CASE p \in 1..n /\ q \in (n + 1)..N
      <4>1. j = q /\ i < j /\ i \in 1..n
        BY <1>1, <2>1, <2>2, <3>3
      <4>2. CASE v[p].name = v[q].name
        BY <2>3, <2>5, <4>1, <4>2 DEF Sooner
      <4>3. CASE ~SameRun(v, injected, q, p)
        <5>1. PICK h \in (q..p) \cup (p..q) : v[h] \notin injected
          BY <4>3 DEF SameRun
        <5>2. h \in p..q /\ h \in 1..N
          BY <1>1, <2>4, <3>1
        <5>3. h \in 1..n
          BY <1>3, <1>17, <5>1, <5>2
        <5>. DEFINE g == f[h]
        <5>4. g \in 1..N /\ t[g] \notin injected
          BY <1>17, <5>1, <5>3
        <5>5. u[g] \notin injected /\ g \in 1..n
          BY <1>21, <5>4
        <5>6. f[p] <= g
          <6>1. f[p] \in Nat /\ g \in Nat
            BY <1>1, <1>18, <5>4
          <6>2. ~(h < p)
            BY <1>1, <2>4, <5>2
          <6>3. ~(f[h] < f[p])
            BY <1>19, <3>3, <5>3, <6>2
          <6>. QED
            BY <6>1, <6>3
        <5>. HIDE DEF g
        <5>7. g < i => g < Put(i)
          BY <1>6, <5>4, <5>5
        <5>8. i <= g /\ g <= j
          <6>1. Put(i) \in Nat /\ g \in Nat
            BY <1>4, <5>4
          <6>2. ~(g < i)
            BY <2>1, <5>6, <5>7, <6>1
          <6>. QED
            BY <1>1, <2>4, <3>3, <4>1, <5>5, <6>1, <6>2
        <5>9. ~SameRun(u, injected, j, i)
          BY <2>4, <5>4, <5>5, <5>8 DEF SameRun
        <5>10. Sooner(u, injected, i, j)
          BY <4>1, <5>9 DEF Sooner
        <5>. QED
          BY <2>5, <5>10
      <4>. QED
        BY <2>7, <4>2, <4>3
    <3>4. CASE p \in (n + 1)..N /\ q \in (n + 1)..N
      <4>1. i = p /\ j = q
        BY <2>1, <2>2, <3>4
      <4>2. \A h \in (q..p) \cup (p..q) : h \in (n + 1)..N
        BY <1>1, <3>4
      <4>3. SameRun(v, injected, q, p)
        BY <1>17, <4>2 DEF SameRun
      <4>4. u[i].name = u[j].name
        BY <2>3, <2>7, <4>3
      <4>5. Sooner(u, injected, i, j)
        BY <3>1, <4>1, <4>4 DEF Sooner
      <4>. QED
        BY <2>5, <4>5
    <3>5. ~(p \in (n + 1)..N /\ q \in 1..n)
      BY <1>1, <3>1
    <3>. QED
      BY <1>3, <3>2, <3>3, <3>4, <3>5
  <2>. QED
    BY <2>6, <2>7
<1>. DEFINE D == DOMAIN v
            order == SortOrder(v, injected)
<1>26. D = 1..N
  BY <1>15
<1>27. IsFiniteSet(D) /\ Orders(D, order)
  BY <1>1, <1>15, <1>26, SortOrders, FS_Interval
<1>28. \A p, q \in D : <<p, q>> \in order => f[p] < f[q]
  BY <1>25, <1>26, SortOrderPairs
<1>. HIDE DEF D, order
<1>29. Numbers(f, D, order, N)
  BY <1>1, <1>18, <1>20, <1>26, <1>28 DEF Numbers
<1>30. \A p \in D : t[f[p]] = v[p]
  BY <1>3, <1>17, <1>26
<1>31. t = [p \in 1..N |-> t[p]]
  BY <1>7
<1>32. Moves(f, D, N, v, t)
  BY <1>30, <1>31 DEF Moves
<1>33. Arranged(v, D, order) = t
  BY <1>27, <1>29, <1>32, ArrangedIs
<1>34. InsertionSort(v, injected) = t
  BY <1>33, SortIsArranged DEF D, order
<1>. QED
  BY <1>34 DEF v, w, t, u

\* It makes the list no longer either.
LEMMA LenAgain ==
  ASSUME NEW S, Named(S), NEW s \in Seq(S), NEW xs \in Seq(S),
         NEW injected, NEW gone,
         \A x \in Range(s) : x \notin gone,
         \A x \in Range(xs) : x \in gone /\ x \in injected
  PROVE  Len(Without(InsertionSort(s \o xs, injected), gone) \o xs)
           = Len(s \o xs)
<1>. DEFINE u == s \o xs
            t == InsertionSort(u, injected)
            w == Without(t, gone)
            v == w \o xs
<1>1. u \in Seq(S)
  BY ConcatProperties
<1>2. InsertionSort(v, injected) = t
  BY SortAgain
<1>. HIDE DEF u
<1>3. t \in Seq(S) /\ Len(t) = Len(u)
  BY <1>1, SortType
<1>. HIDE DEF t
<1>4. w \in Seq(S)
  BY <1>3, WithoutType
<1>. HIDE DEF w
<1>5. v \in Seq(S)
  BY <1>4, ConcatProperties
<1>. HIDE DEF v
<1>6. Len(InsertionSort(v, injected)) = Len(v)
  BY <1>5, SortType
<1>7. Len(v) = Len(u)
  BY <1>2, <1>3, <1>6
<1>. QED
  BY <1>7 DEF v, w, t, u

-----------------------------------------------------------------------------
(* The inductive invariant *)

\* What holds of a workload however projections were bound to it: a volume of
\* a bound secret has the secret's name, and some projection records the
\* secret; the annotations that it shows are there and of a projection of the
\* same secret.  No other volume has the name of a secret.
VolumesRecorded(ps) ==
  \A v \in Range(ps.volumes) :
    IF v.secret \in Secrets
    THEN /\ v.name = v.secret
         /\ \E k \in Keys : ps.annotations[k] = v.secret
         /\ \A f \in v.fields :
              ps.annotations[f[1]] = v.secret /\ ps.template[f] # ""
    ELSE v.name \notin Secrets

EnvRecorded(ps) ==
  \A c \in Range(ps.containers) : \A e \in Range(c.env) :
    /\ e.secret \in Secrets => \E k \in Keys : ps.annotations[k] = e.secret
    /\ e.field # NoField => e.field \in Field /\ ps.template[e.field] # ""

TemplateRecorded(ps) ==
  \A f \in Field : ps.template[f] # "" => ps.annotations[f[1]] # NoSecret

\* Mounts name a volume, but none of Extras, which come and go.
MountsResolve(ps) ==
  \A c \in Range(ps.containers) : \A m \in Range(c.mounts) :
    /\ \E v \in Range(ps.volumes) : v.name = m.name
    /\ \A x \in Extras : m.name # x.volume.name

\* No two volumes have one name, and only those of Extras have their names.
VolumesDiffer(ps) ==
  /\ \A i, j \in DOMAIN ps.volumes :
       i # j => ps.volumes[i].name # ps.volumes[j].name
  /\ \A v \in Range(ps.volumes) : \A x \in Extras :
       v.name = x.volume.name => v = x.volume

PodOK(ps) ==
  /\ ps \in WithPod
  /\ ps.containers # << >>
  /\ VolumesRecorded(ps)
  /\ EnvRecorded(ps)
  /\ TemplateRecorded(ps)
  /\ MountsResolve(ps)
  /\ VolumesDiffer(ps)

\* A mount in the directory of a projection is of the secret it records.
NamesOf(k) == {b.name : b \in Specs[k]}
MountsKnown(ps) ==
  \A k \in Keys : \A c \in Range(ps.containers) : \A m \in Range(c.mounts) :
    m.dir \in NamesOf(k) => m.name = ps.annotations[k] /\ m.name \in Secrets

\* Every SERVICE_BINDING_ROOT has a value and is no projection's.
RootsGiven(ps) ==
  \A c \in Range(ps.containers) : \A e \in Range(c.env) :
    e.name = RootEnv =>
      e.value # "" /\ e.secret \notin Secrets /\ e.field = NoField

-----------------------------------------------------------------------------
(* Undo *)

\* Names of volumes, mounts and variables are numbers.
LEMMA AllNamed == Named(Volume) /\ Named(Mount) /\ Named(EnvVar)
BY DEF Named, Volume, Mount, EnvVar

\* Volumes and variables of some secrets, mounts and volumes of some names.
VolumesOf(secrets) == {v \in Volume : v.secret \in secrets}
MountsNamed(names) == {m \in Mount : m.name \in names}
VolumesNamed(names) == {v \in Volume : v.name \in names}
EnvOf(secrets) == {e \in EnvVar : isInjectedEnv(e, secrets)}
NamesWith(volumes, secrets) ==
  {v.name : v \in {w \in Range(volumes) : w.secret \in secrets}}

\* Elements of a list are of its elements' set.
LEMMA RangeType ==
  ASSUME NEW S, NEW s \in Seq(S)
  PROVE  /\ Range(s) \subseteq S
         /\ \A i \in DOMAIN s : s[i] \in Range(s) /\ s[i] \in S
         /\ \A x \in Range(s) : \E i \in DOMAIN s : s[i] = x
BY ElementOfSeq DEF Range

\* The parts of a container and of a pod template.
LEMMA PodParts ==
  ASSUME NEW ps \in WithPod
  PROVE  /\ ps.annotations \in [Keys -> Secrets \cup {NoSecret}]
         /\ ps.template \in [Field -> Texts \cup {""}]
         /\ ps.volumes \in Seq(Volume)
         /\ ps.containers \in Seq(Container)
         /\ DOMAIN ps.containers = 1..Len(ps.containers)
         /\ Len(ps.containers) \in Nat
         /\ \A i \in DOMAIN ps.containers :
              /\ ps.containers[i] \in Container
              /\ ps.containers[i].name \in Containers
              /\ ps.containers[i].env \in Seq(EnvVar)
              /\ ps.containers[i].mounts \in Seq(Mount)
<1>1. /\ ps.annotations \in [Keys -> Secrets \cup {NoSecret}]
      /\ ps.template \in [Field -> Texts \cup {""}]
      /\ ps.volumes \in Seq(Volume)
      /\ ps.containers \in Seq(Container)
  BY DEF WithPod
<1>2. /\ DOMAIN ps.containers = 1..Len(ps.containers)
      /\ Len(ps.containers) \in Nat
      /\ \A i \in DOMAIN ps.containers : ps.containers[i] \in Container
  BY <1>1, LenProperties, ElementOfSeq
<1>3. \A c \in Container : /\ c.name \in Containers
                           /\ c.env \in Seq(EnvVar)
                           /\ c.mounts \in Seq(Mount)
  BY DEF Container
<1>. QED
  BY <1>1, <1>2, <1>3

\* Undo of one container.
LEMMA UndoContainer ==
  ASSUME NEW c \in Container, NEW secrets, NEW names
  PROVE  /\ undoContainer(c, secrets, names) \in Container
         /\ undoContainer(c, secrets, names).name = c.name
         /\ undoContainer(c, secrets, names).mounts
              = Without(c.mounts, MountsNamed(names))
         /\ undoContainer(c, secrets, names).env
              = Without(c.env, EnvOf(secrets))
<1>. DEFINE M == {m \in Range(c.mounts) : m.name \in names}
            E == {e \in Range(c.env) : isInjectedEnv(e, secrets)}
            d == [c EXCEPT !.mounts = Without(c.mounts, M),
                           !.env = Without(c.env, E)]
<1>1. /\ c.name \in Containers
      /\ c.env \in Seq(EnvVar)
      /\ c.mounts \in Seq(Mount)
      /\ c = [name |-> c.name, env |-> c.env, mounts |-> c.mounts]
  BY DEF Container
<1>2. undoContainer(c, secrets, names) = d
  BY DEF undoContainer
<1>3. Range(c.mounts) \subseteq Mount /\ Range(c.env) \subseteq EnvVar
  BY <1>1, RangeType
<1>4. Without(c.mounts, M) = Without(c.mounts, MountsNamed(names))
  <2>1. \A m \in Range(c.mounts) : m \in M <=> m \in MountsNamed(names)
    BY <1>3 DEF MountsNamed
  <2>. HIDE DEF M
  <2>. QED
    BY <1>1, <2>1, WithoutRange
<1>5. Without(c.env, E) = Without(c.env, EnvOf(secrets))
  <2>1. \A e \in Range(c.env) : e \in E <=> e \in EnvOf(secrets)
    BY <1>3 DEF EnvOf
  <2>. HIDE DEF E
  <2>. QED
    BY <1>1, <2>1, WithoutRange
<1>6. /\ Without(c.mounts, MountsNamed(names)) \in Seq(Mount)
      /\ Without(c.env, EnvOf(secrets)) \in Seq(EnvVar)
  BY <1>1, WithoutType
<1>. HIDE DEF M, E
<1>7. /\ d.name = c.name
      /\ d.mounts = Without(c.mounts, M)
      /\ d.env = Without(c.env, E)
      /\ d = [name |-> d.name, env |-> d.env, mounts |-> d.mounts]
  <2>. DEFINE ms == Without(c.mounts, M)
              es == Without(c.env, E)
  <2>. HIDE DEF ms, es
  <2>1. d = [c EXCEPT !.mounts = ms, !.env = es]
    BY DEF ms, es
  <2>. HIDE DEF d
  <2>2. d = [name |-> c.name, env |-> es, mounts |-> ms]
    BY <1>1, <2>1
  <2>. QED
    BY <2>2 DEF ms, es
<1>. HIDE DEF d
<1>8. d \in Container
  BY <1>1, <1>4, <1>5, <1>6, <1>7 DEF Container
<1>. QED
  BY <1>2, <1>4, <1>5, <1>7, <1>8

\* What Undo makes of ps: u, its annotations and its lists.
MarksUndone(k, ps, u) ==
  /\ \A j \in Keys :
       u.annotations[j] = IF j = k THEN NoSecret ELSE ps.annotations[j]
  /\ \A f \in Field :
       u.template[f] = IF f[1] = k THEN "" ELSE ps.template[f]

ListsUndone(secrets, names, ps, u) ==
  /\ u.volumes = Without(ps.volumes, VolumesOf(secrets))
  /\ DOMAIN u.containers = DOMAIN ps.containers
  /\ \A i \in DOMAIN ps.containers :
       /\ u.containers[i].name = ps.containers[i].name
       /\ u.containers[i].mounts
            = Without(ps.containers[i].mounts, MountsNamed(names))
       /\ u.containers[i].env
            = Without(ps.containers[i].env, EnvOf(secrets))

\* The names of the volumes that Undo removes.
UndoNames(k, b, ps) == NamesWith(ps.volumes, removeSecrets(k, b, ps))

\* Undo of a pod template.
LEMMA UndoIs ==
  ASSUME NEW k \in Keys, NEW b \in ProjectionSpec, NEW ps \in WithPod
  PROVE  /\ Undo(k, b, ps) \in WithPod
         /\ MarksUndone(k, ps, Undo(k, b, ps))
         /\ ListsUndone(removeSecrets(k, b, ps), UndoNames(k, b, ps), ps,
                        Undo(k, b, ps))
<1>. DEFINE secrets == removeSecrets(k, b, ps)
            removed == {i \in DOMAIN ps.volumes :
                          ps.volumes[i].secret \in secrets}
            vnames == {ps.volumes[i].name : i \in removed}
            names == NamesWith(ps.volumes, secrets)
            V == {v \in Range(ps.volumes) : v.secret \in secrets}
            cs == [i \in DOMAIN ps.containers |->
                     undoContainer(ps.containers[i], secrets, names)]
            as == [ps.annotations EXCEPT ![k] = NoSecret]
            ts == [f \in Field |-> IF f[1] = k THEN "" ELSE ps.template[f]]
            vs == Without(ps.volumes, VolumesOf(secrets))
            u == Undo(k, b, ps)
<1>1. vnames = names
  BY DEF NamesWith, Range
<1>2. /\ ps.annotations \in [Keys -> Secrets \cup {NoSecret}]
      /\ ps.template \in [Field -> Texts \cup {""}]
      /\ ps.volumes \in Seq(Volume)
      /\ DOMAIN ps.containers = 1..Len(ps.containers)
      /\ Len(ps.containers) \in Nat
      /\ \A i \in DOMAIN ps.containers : ps.containers[i] \in Container
  BY PodParts
<1>3. ps = [annotations |-> ps.annotations, template |-> ps.template,
            volumes |-> ps.volumes, containers |-> ps.containers]
  BY DEF WithPod
<1>4. Without(ps.volumes, V) = vs
  <2>1. \A v \in Range(ps.volumes) : v \in V <=> v \in VolumesOf(secrets)
    BY <1>2, RangeType DEF VolumesOf
  <2>. HIDE DEF V, secrets
  <2>. QED
    BY <1>2, <2>1, WithoutRange
<1>5. u = [ps EXCEPT !.annotations[k] = NoSecret,
                     !.template = ts,
                     !.volumes = Without(ps.volumes, V),
                     !.containers = [i \in DOMAIN ps.containers |->
                        undoContainer(ps.containers[i], secrets, vnames)]]
  BY DEF Undo
<1>6. /\ u.annotations = as
      /\ u.template = ts
      /\ u.volumes = vs
      /\ u.containers = cs
      /\ u = [annotations |-> u.annotations, template |-> u.template,
              volumes |-> u.volumes, containers |-> u.containers]
  <2>. HIDE DEF secrets, vnames, names, V, vs, ts, u
  <2>. QED
    BY <1>1, <1>3, <1>4, <1>5
<1>7. as \in [Keys -> Secrets \cup {NoSecret}]
  BY <1>2
<1>8. ts \in [Field -> Texts \cup {""}]
  BY <1>2
<1>9. vs \in Seq(Volume)
  BY <1>2, WithoutType
<1>10. \A i \in DOMAIN ps.containers :
         /\ cs[i] \in Container
         /\ cs[i].name = ps.containers[i].name
         /\ cs[i].mounts = Without(ps.containers[i].mounts, MountsNamed(names))
         /\ cs[i].env = Without(ps.containers[i].env, EnvOf(secrets))
  <2>. HIDE DEF secrets, names
  <2>. SUFFICES ASSUME NEW i \in DOMAIN ps.containers
                PROVE  /\ cs[i] \in Container
                       /\ cs[i].name = ps.containers[i].name
                       /\ cs[i].mounts = Without(ps.containers[i].mounts,
                                                MountsNamed(names))
                       /\ cs[i].env = Without(ps.containers[i].env,
                                             EnvOf(secrets))
    OBVIOUS
  <2>1. cs[i] = undoContainer(ps.containers[i], secrets, names)
    OBVIOUS
  <2>2. ps.containers[i] \in Container
    BY <1>2
  <2>. HIDE DEF cs
  <2>. QED
    BY <2>1, <2>2, UndoContainer
<1>. HIDE DEF secrets, names, vs, ts, u, as
<1>11. cs \in Seq(Container) /\ DOMAIN cs = DOMAIN ps.containers
  <2>. DEFINE n == Len(ps.containers)
  <2>1. n \in Nat /\ DOMAIN ps.containers = 1..n
    BY <1>2
  <2>. HIDE DEF n
  <2>2. cs \in [1..n -> Container] /\ DOMAIN cs = DOMAIN ps.containers
    BY <1>10, <2>1
  <2>. HIDE DEF cs
  <2>. QED
    BY <2>1, <2>2
<1>. HIDE DEF cs
<1>12. u \in WithPod
  BY <1>6, <1>7, <1>8, <1>9, <1>11 DEF WithPod
<1>13. \A j \in Keys :
         u.annotations[j] = IF j = k THEN NoSecret ELSE ps.annotations[j]
  BY <1>2, <1>6 DEF as
<1>14. \A f \in Field :
         u.template[f] = IF f[1] = k THEN "" ELSE ps.template[f]
  BY <1>6 DEF ts
<1>15. MarksUndone(k, ps, u)
  BY <1>13, <1>14 DEF MarksUndone
<1>16. ListsUndone(secrets, names, ps, u)
  BY <1>6, <1>10, <1>11 DEF ListsUndone, vs
<1>. QED
  BY <1>12, <1>15, <1>16 DEF secrets, names, u, UndoNames

-----------------------------------------------------------------------------
(* Do *)

\* What Do adds to a container: the root, the mount and the variables.
Rooted(env) == IF MountPath(env) = "" THEN Append(env, DefaultRootEnv) ELSE env
NewMount(b, env) ==
  [name |-> b.secret, dir |-> b.name,
   root |-> IF MountPath(env) = "" THEN DefaultRoot ELSE MountPath(env)]
NewEnv(k, b) == [i \in DOMAIN b.env |-> ProjectedEnv(k, b, b.env[i])]

\* The names of volumes that Do takes for injected, and the secrets.
DoNames(k, b, ps) == injectedVolumes(Undo(k, b, ps)) \cup {b.secret}
DoSecrets(k, b, ps) == injectedSecrets(Undo(k, b, ps)) \cup {b.secret}

\* A list is sorted as one block.
InBlock(s) == Len(s) <= BlockSize

\* It is sorted by insertion.
LEMMA SortInBlock ==
  ASSUME NEW s, NEW injected, InBlock(s)
  PROVE  SortInjected(s, injected) = InsertionSort(s, injected)
BY DEF SortInjected, InBlock

\* The lists that Do sorts in a container, and in a workload, are.
FitsIn(k, b, c) ==
  /\ InBlock(Append(c.mounts, NewMount(b, c.env)))
  /\ b.env # << >> => InBlock(Rooted(c.env) \o NewEnv(k, b))

Fits(k, b, ps) ==
  LET u == Undo(k, b, ps)
  IN  /\ InBlock(Append(u.volumes, ProjectedVolume(k, b)))
      /\ \A i \in DOMAIN u.containers :
           isTargetContainer(b, u.containers[i]) => FitsIn(k, b, u.containers[i])

\* What the theorems assume of all states: whichever projection is bound
\* next, Do sorts no list that is longer than a block.
Short == \A k \in Live : Fits(k, SpecOf(k), pod)

\* The parts of a projection's spec.
LEMMA SpecParts ==
  ASSUME NEW b \in ProjectionSpec
  PROVE  /\ b.secret \in Secrets /\ b.secret \in Nat /\ b.secret # NoSecret
         /\ b.name \in String
         /\ b.type \in Texts \cup {""} /\ b.provider \in Texts \cup {""}
         /\ b.env \in Seq([name : Nat, key : String])
BY SecretsAssumption DEF ProjectionSpec

\* Appending one element.
LEMMA AppendRange ==
  ASSUME NEW S, NEW s \in Seq(S), NEW x \in S
  PROVE  Range(Append(s, x)) = Range(s) \cup {x}
<1>. DEFINE u == Append(s, x)
<1>1. /\ DOMAIN s = 1..Len(s) /\ Len(s) \in Nat
      /\ DOMAIN u = 1..(Len(s) + 1)
      /\ \A i \in 1..Len(s) : u[i] = s[i]
      /\ u[Len(s) + 1] = x
  BY LenProperties, AppendProperties
<1>. HIDE DEF u
<1>2. DOMAIN u = (DOMAIN s) \cup {Len(s) + 1}
  BY <1>1
<1>3. Range(u) = Range(s) \cup {x}
  BY <1>1, <1>2 DEF Range
<1>. QED
  BY <1>3 DEF u

\* Appending one element is appending a list of it.
LEMMA AppendOne ==
  ASSUME NEW S, NEW s \in Seq(S), NEW x \in S
  PROVE  /\ Append(s, x) = s \o <<x>>
         /\ <<x>> \in Seq(S)
         /\ Append(s, x) \in Seq(S)
BY AppendIsConcat, AppendProperties

\* The list of one element.
LEMMA OneRange ==
  ASSUME NEW x
  PROVE  Range(<<x>>) = {x}
BY DEF Range

\* The elements of two lists.
LEMMA ConcatRange ==
  ASSUME NEW S, NEW s \in Seq(S), NEW t \in Seq(S)
  PROVE  s \o t \in Seq(S) /\ Range(s \o t) = Range(s) \cup Range(t)
<1>. DEFINE u == s \o t
<1>1. u \in Seq(S)
  BY ConcatProperties
<1>2. /\ DOMAIN s = 1..Len(s) /\ Len(s) \in Nat
      /\ DOMAIN t = 1..Len(t) /\ Len(t) \in Nat
      /\ DOMAIN u = 1..(Len(s) + Len(t))
      /\ \A i \in 1..Len(s) : u[i] = s[i]
      /\ \A i \in (Len(s) + 1)..(Len(s) + Len(t)) : u[i] = t[i - Len(s)]
  BY LenProperties, ConcatProperties
<1>. HIDE DEF u
<1>3. \A i \in DOMAIN u : \/ i \in DOMAIN s /\ u[i] = s[i]
                          \/ i - Len(s) \in DOMAIN t /\ u[i] = t[i - Len(s)]
  BY <1>2
<1>4. /\ \A i \in DOMAIN s : i \in DOMAIN u /\ u[i] = s[i]
      /\ \A j \in DOMAIN t : j + Len(s) \in DOMAIN u /\ u[j + Len(s)] = t[j]
  BY <1>2
<1>5. Range(u) = Range(s) \cup Range(t)
  BY <1>3, <1>4 DEF Range
<1>. QED
  BY <1>1, <1>5 DEF u

\* The root is a string, and its default a variable.
LEMMA RootType ==
  ASSUME NEW env \in Seq(EnvVar)
  PROVE  /\ MountPath(env) \in String
         /\ DefaultRootEnv \in EnvVar
         /\ Rooted(env) \in Seq(EnvVar)
         /\ Range(Rooted(env)) \subseteq Range(env) \cup {DefaultRootEnv}
         /\ Range(env) \subseteq Range(Rooted(env))
<1>. DEFINE others == {e \in Range(env) : e.name # RootEnv}
            roots == Without(env, others)
<1>1. roots \in Seq(EnvVar)
  BY WithoutType
<1>. HIDE DEF others
<1>2. MountPath(env) = IF roots = << >> THEN "" ELSE Head(roots).value
  BY DEF MountPath, others
<1>. HIDE DEF roots
<1>3. MountPath(env) \in String
  <2>1. CASE roots # << >>
    <3>1. Head(roots) \in EnvVar
      BY <1>1, <2>1, HeadTailProperties
    <3>2. Head(roots).value \in String
      BY <3>1 DEF EnvVar
    <3>. QED
      BY <1>2, <2>1, <3>2
  <2>. QED
    BY <1>2, <2>1 DEF String
<1>4. DefaultRootEnv \in EnvVar
  BY DEF DefaultRootEnv, EnvVar, RootEnv, String, NoSecret
<1>5. /\ Append(env, DefaultRootEnv) \in Seq(EnvVar)
      /\ Range(Append(env, DefaultRootEnv)) = Range(env) \cup {DefaultRootEnv}
  <2>. DEFINE x == DefaultRootEnv
  <2>1. x \in EnvVar
    BY <1>4
  <2>. HIDE DEF x
  <2>2. Append(env, x) \in Seq(EnvVar)
    BY <2>1, AppendOne
  <2>3. Range(Append(env, x)) = Range(env) \cup {x}
    BY <2>1, AppendRange
  <2>. QED
    BY <2>2, <2>3 DEF x
<1>. QED
  BY <1>3, <1>4, <1>5 DEF Rooted

\* The variables that a spec asks for are marked as injected.
LEMMA NewEnvType ==
  ASSUME NEW k \in Keys, NEW b \in ProjectionSpec
  PROVE  /\ NewEnv(k, b) \in Seq(EnvVar)
         /\ b.env # << >> \/ NewEnv(k, b) = << >>
         /\ \A e \in Range(NewEnv(k, b)) :
              /\ e \in EnvVar
              /\ \/ e.secret = b.secret /\ e.field = NoField
                 \/ e.secret = NoSecret /\ e.field \in TypeFields(k, b)
              /\ \E x \in Range(b.env) : e.name = x.name
<1>. DEFINE n == Len(b.env)
            s == b.env
            t == NewEnv(k, b)
<1>1. s \in Seq([name : Nat, key : String])
  BY SpecParts
<1>2. n \in Nat /\ DOMAIN s = 1..n
      /\ \A i \in 1..n : s[i].name \in Nat /\ s[i].key \in String
  <2>1. \A i \in 1..n : s[i] \in [name : Nat, key : String]
    BY <1>1, LenProperties, ElementOfSeq
  <2>. QED
    BY <1>1, <2>1, LenProperties
<1>3. ASSUME NEW x, x.name \in Nat, x.key \in String
      PROVE  /\ ProjectedEnv(k, b, x) \in EnvVar
             /\ \/ /\ ProjectedEnv(k, b, x).secret = b.secret
                   /\ ProjectedEnv(k, b, x).field = NoField
                \/ /\ ProjectedEnv(k, b, x).secret = NoSecret
                   /\ ProjectedEnv(k, b, x).field \in TypeFields(k, b)
             /\ ProjectedEnv(k, b, x).name = x.name
  <2>. DEFINE p == ProjectedEnv(k, b, x)
              name == x.name
              key == x.key
              secret == b.secret
              fields == TypeFields(k, b)
              field == <<k, x.key>>
  <2>1. p = IF field \in fields
            THEN [name |-> name, value |-> "", secret |-> NoSecret,
                  key |-> "", field |-> field]
            ELSE [name |-> name, value |-> "", secret |-> secret,
                  key |-> key, field |-> NoField]
    BY DEF ProjectedEnv
  <2>2. fields \subseteq Field
    BY DEF TypeFields, Field
  <2>3. /\ secret \in Nat /\ NoSecret \in Nat /\ name \in Nat
        /\ key \in String /\ "" \in String
    BY <1>3, SpecParts DEF NoSecret, String
  <2>. HIDE DEF p, name, key, secret, fields, field
  <2>4. /\ p \in EnvVar
        /\ \/ p.secret = secret /\ p.field = NoField
           \/ p.secret = NoSecret /\ p.field \in fields
        /\ p.name = name
    BY <2>1, <2>2, <2>3 DEF EnvVar
  <2>. QED
    BY <2>4 DEF p, name, key, secret, fields
<1>4. t = [i \in DOMAIN s |-> ProjectedEnv(k, b, s[i])]
  BY DEF NewEnv
<1>. HIDE DEF n, s, t
<1>5. t \in [1..n -> EnvVar]
  BY <1>2, <1>3, <1>4
<1>6. t \in Seq(EnvVar) /\ DOMAIN t = 1..n
  BY <1>2, <1>5
<1>7. ASSUME NEW e \in Range(t)
      PROVE  /\ e \in EnvVar
             /\ \/ e.secret = b.secret /\ e.field = NoField
                \/ e.secret = NoSecret /\ e.field \in TypeFields(k, b)
             /\ \E x \in Range(s) : e.name = x.name
  <2>1. PICK i \in 1..n : e = t[i]
    BY <1>6 DEF Range
  <2>2. e = ProjectedEnv(k, b, s[i]) /\ s[i] \in Range(s)
    BY <1>2, <1>4, <2>1 DEF Range
  <2>. QED
    BY <1>2, <1>3, <2>2
<1>8. s # << >> \/ t = << >>
  BY <1>2, <1>4, <1>6
<1>. QED
  BY <1>6, <1>7, <1>8 DEF s, t

\* The mount that Do adds.
LEMMA NewMountType ==
  ASSUME NEW b \in ProjectionSpec, NEW env \in Seq(EnvVar)
  PROVE  /\ NewMount(b, env) \in Mount
         /\ NewMount(b, env).name = b.secret
         /\ NewMount(b, env).dir = b.name
<1>. DEFINE m == NewMount(b, env)
            secret == b.secret
            dir == b.name
            root == IF MountPath(env) = "" THEN DefaultRoot ELSE MountPath(env)
<1>1. secret \in Nat /\ dir \in String
  BY SpecParts
<1>2. root \in String
  BY RootType DEF String
<1>3. m = [name |-> secret, dir |-> dir, root |-> root]
  BY DEF NewMount
<1>. HIDE DEF m, secret, dir, root
<1>4. m \in Mount /\ m.name = secret /\ m.dir = dir
  BY <1>1, <1>2, <1>3 DEF Mount
<1>. QED
  BY <1>4 DEF m, secret, dir

\* The environment that Do gives a container.
BoundEnv(k, b, env, secrets) ==
  IF b.env = << >> THEN Rooted(env)
  ELSE InsertionSort(Rooted(env) \o NewEnv(k, b), EnvOf(secrets))

\* It has the variables of the container, the root and the new ones.
LEMMA BoundEnvType ==
  ASSUME NEW k \in Keys, NEW b \in ProjectionSpec, NEW env \in Seq(EnvVar),
         NEW secrets
  PROVE  /\ BoundEnv(k, b, env, secrets) \in Seq(EnvVar)
         /\ Range(BoundEnv(k, b, env, secrets))
              = Range(Rooted(env)) \cup Range(NewEnv(k, b))
<1>. DEFINE r == Rooted(env)
            n == NewEnv(k, b)
            a == r \o n
<1>1. r \in Seq(EnvVar) /\ n \in Seq(EnvVar) /\ (b.env = << >> => n = << >>)
  BY RootType, NewEnvType
<1>. HIDE DEF r, n
<1>2. a \in Seq(EnvVar) /\ Range(a) = Range(r) \cup Range(n)
  BY <1>1, ConcatRange
<1>. HIDE DEF a
<1>3. /\ InsertionSort(a, EnvOf(secrets)) \in Seq(EnvVar)
      /\ Range(InsertionSort(a, EnvOf(secrets))) = Range(a)
  BY <1>2, AllNamed, SortType
<1>4. CASE b.env = << >>
  <2>1. Range(n) = {}
    BY <1>1, <1>4 DEF Range
  <2>2. BoundEnv(k, b, env, secrets) = r
    BY <1>4 DEF BoundEnv, r
  <2>. QED
    BY <1>1, <2>1, <2>2 DEF r, n
<1>5. CASE b.env # << >>
  <2>1. BoundEnv(k, b, env, secrets) = InsertionSort(a, EnvOf(secrets))
    BY <1>5 DEF BoundEnv, a, r, n
  <2>. QED
    BY <1>2, <1>3, <2>1 DEF r, n
<1>. QED
  BY <1>4, <1>5

\* Do of one container.
LEMMA DoContainer ==
  ASSUME NEW k \in Keys, NEW b \in ProjectionSpec, NEW c \in Container,
         NEW names, NEW secrets, FitsIn(k, b, c)
  PROVE  LET d == doContainer(k, b, c, names, secrets)
         IN  /\ d \in Container
             /\ d.name = c.name
             /\ d.mounts = InsertionSort(Append(c.mounts, NewMount(b, c.env)),
                                        MountsNamed(names))
             /\ d.env = BoundEnv(k, b, c.env, secrets)
<1>. DEFINE given == MountPath(c.env)
            rooted == IF given = "" THEN Append(c.env, DefaultRootEnv)
                                    ELSE c.env
            mount == [name |-> b.secret, dir |-> b.name,
                      root |-> IF given = "" THEN DefaultRoot ELSE given]
            all == rooted
                     \o [i \in DOMAIN b.env |-> ProjectedEnv(k, b, b.env[i])]
            E == {e \in Range(all) : isInjectedEnv(e, secrets)}
            ms == SortByName(Append(c.mounts, mount), names)
            es == IF b.env = << >> THEN rooted ELSE SortInjected(all, E)
            d == doContainer(k, b, c, names, secrets)
<1>1. d = [c EXCEPT !.mounts = ms, !.env = es]
  BY DEF doContainer
<1>2. /\ c.name \in Containers
      /\ c.env \in Seq(EnvVar)
      /\ c.mounts \in Seq(Mount)
      /\ c = [name |-> c.name, env |-> c.env, mounts |-> c.mounts]
  BY DEF Container
<1>3. rooted = Rooted(c.env) /\ all = Rooted(c.env) \o NewEnv(k, b)
  BY DEF Rooted, NewEnv
<1>4. mount = NewMount(b, c.env)
  BY DEF NewMount
<1>. HIDE DEF d, rooted, mount
<1>5. all \in Seq(EnvVar)
  <2>1. Rooted(c.env) \in Seq(EnvVar) /\ NewEnv(k, b) \in Seq(EnvVar)
    BY <1>2, RootType, NewEnvType
  <2>. HIDE DEF all
  <2>. QED
    BY <1>3, <2>1, ConcatRange
<1>. HIDE DEF all
<1>6. es = BoundEnv(k, b, c.env, secrets)
  <2>1. \A e \in Range(all) : e \in E <=> e \in EnvOf(secrets)
    BY <1>5, RangeType DEF EnvOf
  <2>. HIDE DEF E
  <2>2. InsertionSort(all, E) = InsertionSort(all, EnvOf(secrets))
    BY <1>5, <2>1, SortRange
  <2>3. b.env # << >> => SortInjected(all, E) = InsertionSort(all, E)
    BY <1>3, SortInBlock DEF FitsIn
  <2>. QED
    BY <1>3, <2>2, <2>3 DEF BoundEnv
<1>7. mount \in Mount
  BY <1>2, <1>4, NewMountType
<1>8. ms = InsertionSort(Append(c.mounts, mount), MountsNamed(names))
  <2>. DEFINE u == Append(c.mounts, mount)
              M == {m \in Range(u) : m.name \in names}
  <2>1. u \in Seq(Mount)
    BY <1>2, <1>7, AppendOne
  <2>2. ms = SortInjected(u, M)
    BY DEF SortByName
  <2>fits. SortInjected(u, M) = InsertionSort(u, M)
    BY <1>4, SortInBlock DEF FitsIn
  <2>3. \A m \in Range(u) : m \in M <=> m \in MountsNamed(names)
    BY <2>1, RangeType DEF MountsNamed
  <2>. HIDE DEF u, M, ms
  <2>4. InsertionSort(u, M) = InsertionSort(u, MountsNamed(names))
    BY <2>1, <2>3, SortRange
  <2>. QED
    BY <2>2, <2>4, <2>fits DEF u
<1>9. ms \in Seq(Mount)
  <2>. DEFINE u == Append(c.mounts, mount)
  <2>1. u \in Seq(Mount)
    BY <1>2, <1>7, AppendOne
  <2>. HIDE DEF u, ms
  <2>. QED
    BY <1>8, <2>1, AllNamed, SortType DEF u
<1>10. es \in Seq(EnvVar)
  BY <1>2, <1>6, BoundEnvType
<1>. HIDE DEF ms, es
<1>11. d = [name |-> c.name, env |-> es, mounts |-> ms]
  BY <1>1, <1>2
<1>12. d \in Container
  BY <1>2, <1>9, <1>10, <1>11 DEF Container
<1>13. d.name = c.name /\ d.mounts = ms /\ d.env = es
  BY <1>11
<1>. QED
  BY <1>4, <1>6, <1>8, <1>12, <1>13 DEF d

\* The volume that Do adds.
LEMMA NewVolumeType ==
  ASSUME NEW k \in Keys, NEW b \in ProjectionSpec
  PROVE  /\ ProjectedVolume(k, b) \in Volume
         /\ ProjectedVolume(k, b).name = b.secret
         /\ ProjectedVolume(k, b).secret = b.secret
         /\ ProjectedVolume(k, b).fields = TypeFields(k, b)
<1>. DEFINE v == ProjectedVolume(k, b)
            secret == b.secret
            fields == TypeFields(k, b)
<1>1. secret \in Nat
  BY SpecParts
<1>2. fields \in SUBSET Field
  BY DEF TypeFields, Field
<1>3. v = [name |-> secret, secret |-> secret, fields |-> fields]
  BY DEF ProjectedVolume
<1>. HIDE DEF v, secret, fields
<1>4. v \in Volume /\ v.name = secret /\ v.secret = secret /\ v.fields = fields
  BY <1>1, <1>2, <1>3 DEF Volume
<1>. QED
  BY <1>4 DEF v, secret, fields

\* What Do makes of u, which Undo has left: d, its annotations and its lists.
MarksDone(k, b, u, d) ==
  /\ \A j \in Keys :
       d.annotations[j] = IF j = k THEN b.secret ELSE u.annotations[j]
  /\ \A f \in Field :
       d.template[f] = IF f \in TypeFields(k, b)
                       THEN b[f[2]] ELSE u.template[f]

ListsDone(k, b, names, secrets, u, d) ==
  /\ d.volumes = InsertionSort(Append(u.volumes, ProjectedVolume(k, b)),
                              VolumesNamed(names))
  /\ DOMAIN d.containers = DOMAIN u.containers
  /\ \A i \in DOMAIN u.containers :
       LET c == u.containers[i]
       IN  /\ d.containers[i].name = c.name
           /\ ~isTargetContainer(b, c) => d.containers[i] = c
           /\ isTargetContainer(b, c) =>
                /\ d.containers[i].mounts
                     = InsertionSort(Append(c.mounts, NewMount(b, c.env)),
                                    MountsNamed(names))
                /\ d.containers[i].env = BoundEnv(k, b, c.env, secrets)

\* Do of a pod template.
LEMMA DoIs ==
  ASSUME NEW k \in Keys, NEW b \in ProjectionSpec, NEW ps \in WithPod,
         Fits(k, b, ps)
  PROVE  /\ Do(k, b, ps) \in WithPod
         /\ MarksDone(k, b, Undo(k, b, ps), Do(k, b, ps))
         /\ ListsDone(k, b, DoNames(k, b, ps), DoSecrets(k, b, ps),
                      Undo(k, b, ps), Do(k, b, ps))
<1>. DEFINE u == Undo(k, b, ps)
            names == DoNames(k, b, ps)
            secrets == DoSecrets(k, b, ps)
            v == ProjectedVolume(k, b)
            cs == [i \in DOMAIN u.containers |->
                     IF isTargetContainer(b, u.containers[i])
                     THEN doContainer(k, b, u.containers[i], names, secrets)
                     ELSE u.containers[i]]
            as == [u.annotations EXCEPT ![k] = b.secret]
            ts == [f \in Field |-> IF f \in TypeFields(k, b)
                                   THEN b[f[2]] ELSE u.template[f]]
            vs == SortByName(Append(u.volumes, v), names)
            d == Do(k, b, ps)
<1>1. u \in WithPod
  BY UndoIs
<1>2. d = [u EXCEPT !.annotations[k] = b.secret,
                    !.template = ts,
                    !.volumes = vs,
                    !.containers = cs]
  BY DEF Do, DoNames, DoSecrets
<1>fits. /\ InBlock(Append(u.volumes, v))
       /\ \A i \in DOMAIN u.containers :
            isTargetContainer(b, u.containers[i]) =>
              FitsIn(k, b, u.containers[i])
  BY DEF Fits
<1>. HIDE DEF u, names, secrets, v, d
<1>3. /\ u.annotations \in [Keys -> Secrets \cup {NoSecret}]
      /\ u.template \in [Field -> Texts \cup {""}]
      /\ u.volumes \in Seq(Volume)
      /\ DOMAIN u.containers = 1..Len(u.containers)
      /\ Len(u.containers) \in Nat
      /\ \A i \in DOMAIN u.containers : u.containers[i] \in Container
  BY <1>1, PodParts
<1>4. u = [annotations |-> u.annotations, template |-> u.template,
           volumes |-> u.volumes, containers |-> u.containers]
  BY <1>1 DEF WithPod
<1>5. /\ d.annotations = as
      /\ d.template = ts
      /\ d.volumes = vs
      /\ d.containers = cs
      /\ d = [annotations |-> d.annotations, template |-> d.template,
              volumes |-> d.volumes, containers |-> d.containers]
  <2>. DEFINE secret == b.secret
  <2>1. d = [u EXCEPT !.annotations[k] = secret, !.template = ts,
                      !.volumes = vs, !.containers = cs]
    BY <1>2
  <2>2. as = [u.annotations EXCEPT ![k] = secret]
    OBVIOUS
  <2>. HIDE DEF secret, as, ts, vs, cs
  <2>. QED
    BY <1>4, <2>1, <2>2
<1>6. as \in [Keys -> Secrets \cup {NoSecret}]
  BY <1>3, SpecParts
<1>7. ts \in [Field -> Texts \cup {""}]
  <2>1. ASSUME NEW f \in TypeFields(k, b)
        PROVE  b[f[2]] \in Texts \cup {""}
    <3>1. f[2] = "type" \/ f[2] = "provider"
      BY DEF TypeFields
    <3>2. b["type"] \in Texts \cup {""} /\ b["provider"] \in Texts \cup {""}
      BY SpecParts
    <3>. QED
      BY <3>1, <3>2
  <2>. QED
    BY <1>3, <2>1
<1>8. v \in Volume
  BY NewVolumeType DEF v
<1>. DEFINE w == Append(u.volumes, v)
<1>9. w \in Seq(Volume)
  BY <1>3, <1>8, AppendOne
<1>10. vs = InsertionSort(w, VolumesNamed(names))
  <2>. DEFINE V == {x \in Range(w) : x.name \in names}
  <2>1. vs = InsertionSort(w, V)
    BY <1>fits, SortInBlock DEF SortByName
  <2>. HIDE DEF w, vs
  <2>2. \A x \in Range(w) : x \in V <=> x \in VolumesNamed(names)
    BY <1>9, RangeType DEF VolumesNamed
  <2>. HIDE DEF V
  <2>3. InsertionSort(w, V) = InsertionSort(w, VolumesNamed(names))
    BY <1>9, <2>2, SortRange
  <2>. QED
    BY <2>1, <2>3
<1>11. vs \in Seq(Volume)
  <2>. HIDE DEF w, vs
  <2>. QED
    BY <1>9, <1>10, AllNamed, SortType
<1>12. \A i \in DOMAIN u.containers :
         LET c == u.containers[i]
         IN  /\ cs[i] \in Container
             /\ cs[i].name = c.name
             /\ ~isTargetContainer(b, c) => cs[i] = c
             /\ isTargetContainer(b, c) =>
                  /\ cs[i].mounts
                       = InsertionSort(Append(c.mounts, NewMount(b, c.env)),
                                      MountsNamed(names))
                  /\ cs[i].env = BoundEnv(k, b, c.env, secrets)
  <2>. SUFFICES ASSUME NEW i \in DOMAIN u.containers, NEW c,
                       c = u.containers[i]
                PROVE  /\ cs[i] \in Container
                       /\ cs[i].name = c.name
                       /\ ~isTargetContainer(b, c) => cs[i] = c
                       /\ isTargetContainer(b, c) =>
                            /\ cs[i].mounts
                                 = InsertionSort(
                                     Append(c.mounts, NewMount(b, c.env)),
                                     MountsNamed(names))
                            /\ cs[i].env = BoundEnv(k, b, c.env, secrets)
    OBVIOUS
  <2>1. c \in Container
    BY <1>3
  <2>2. cs[i] = IF isTargetContainer(b, c)
                THEN doContainer(k, b, c, names, secrets) ELSE c
    OBVIOUS
  <2>3. isTargetContainer(b, c) => FitsIn(k, b, c)
    BY <1>fits
  <2>. HIDE DEF cs
  <2>. QED
    BY <2>1, <2>2, <2>3, DoContainer
<1>13. cs \in Seq(Container) /\ DOMAIN cs = DOMAIN u.containers
  <2>. DEFINE n == Len(u.containers)
  <2>1. n \in Nat /\ DOMAIN u.containers = 1..n
    BY <1>3
  <2>2. \A i \in DOMAIN u.containers : cs[i] \in Container
    BY <1>12
  <2>3. cs = [i \in DOMAIN u.containers |-> cs[i]]
    OBVIOUS
  <2>. HIDE DEF n, cs
  <2>4. cs \in [1..n -> Container] /\ DOMAIN cs = DOMAIN u.containers
    BY <2>1, <2>2, <2>3
  <2>. QED
    BY <2>1, <2>4
<1>. HIDE DEF vs, ts, as, cs
<1>14. d \in WithPod
  BY <1>5, <1>6, <1>7, <1>11, <1>13 DEF WithPod
<1>15. \A i \in DOMAIN u.containers :
         LET c == u.containers[i]
         IN  /\ d.containers[i].name = c.name
             /\ ~isTargetContainer(b, c) => d.containers[i] = c
             /\ isTargetContainer(b, c) =>
                  /\ d.containers[i].mounts
                       = InsertionSort(Append(c.mounts, NewMount(b, c.env)),
                                      MountsNamed(names))
                  /\ d.containers[i].env = BoundEnv(k, b, c.env, secrets)
  BY <1>5, <1>12
<1>16. d.volumes = InsertionSort(Append(u.volumes, v), VolumesNamed(names))
  BY <1>5, <1>10
<1>17. \A f \in Field :
         d.template[f] = IF f \in TypeFields(k, b)
                         THEN b[f[2]] ELSE u.template[f]
  BY <1>5 DEF ts
<1>18. \A j \in Keys :
         d.annotations[j] = IF j = k THEN b.secret ELSE u.annotations[j]
  BY <1>3, <1>5 DEF as
<1>19. DOMAIN d.containers = DOMAIN u.containers
  BY <1>5, <1>13
<1>20. MarksDone(k, b, u, d)
  BY <1>17, <1>18 DEF MarksDone
<1>21. ListsDone(k, b, names, secrets, u, d)
  BY <1>15, <1>16, <1>19 DEF ListsDone, v
<1>. QED
  BY <1>14, <1>20, <1>21 DEF names, secrets, u, d

-----------------------------------------------------------------------------
(* Undo and Do keep the invariant *)

\* The elements that Undo leaves.
ElementsUndone(secrets, names, ps, u) ==
  /\ Range(u.volumes) = {v \in Range(ps.volumes) : v.secret \notin secrets}
  /\ Picks(u.volumes, ps.volumes)
  /\ \A c \in Range(u.containers) : \E d \in Range(ps.containers) :
       /\ c.name = d.name
       /\ Range(c.mounts) = {m \in Range(d.mounts) : m.name \notin names}
       /\ Picks(c.mounts, d.mounts)
       /\ Range(c.env) = {e \in Range(d.env) : ~isInjectedEnv(e, secrets)}

\* Undo leaves these.
LEMMA UndoElements ==
  ASSUME NEW k \in Keys, NEW b \in ProjectionSpec, NEW ps \in WithPod
  PROVE  ElementsUndone(removeSecrets(k, b, ps), UndoNames(k, b, ps), ps,
                        Undo(k, b, ps))
<1>. DEFINE secrets == removeSecrets(k, b, ps)
            names == UndoNames(k, b, ps)
            u == Undo(k, b, ps)
<1>1. /\ u.volumes = Without(ps.volumes, VolumesOf(secrets))
      /\ DOMAIN u.containers = DOMAIN ps.containers
      /\ \A i \in DOMAIN ps.containers :
           /\ u.containers[i].name = ps.containers[i].name
           /\ u.containers[i].mounts
                = Without(ps.containers[i].mounts, MountsNamed(names))
           /\ u.containers[i].env
                = Without(ps.containers[i].env, EnvOf(secrets))
  BY UndoIs DEF ListsUndone
<1>2. /\ ps.volumes \in Seq(Volume)
      /\ \A i \in DOMAIN ps.containers :
           /\ ps.containers[i].env \in Seq(EnvVar)
           /\ ps.containers[i].mounts \in Seq(Mount)
  BY PodParts
<1>. HIDE DEF secrets, names, u
<1>3. Range(u.volumes) = {v \in Range(ps.volumes) : v.secret \notin secrets}
  <2>1. Range(u.volumes) = Range(ps.volumes) \ VolumesOf(secrets)
    BY <1>1, <1>2, WithoutType
  <2>2. Range(ps.volumes) \subseteq Volume
    BY <1>2, RangeType
  <2>. QED
    BY <2>1, <2>2 DEF VolumesOf
<1>4. Picks(u.volumes, ps.volumes)
  BY <1>1, <1>2, WithoutPicks
<1>5. ASSUME NEW c \in Range(u.containers)
      PROVE  \E d \in Range(ps.containers) :
               /\ c.name = d.name
               /\ Range(c.mounts)
                    = {m \in Range(d.mounts) : m.name \notin names}
               /\ Picks(c.mounts, d.mounts)
               /\ Range(c.env)
                    = {e \in Range(d.env) : ~isInjectedEnv(e, secrets)}
  <2>1. PICK i \in DOMAIN ps.containers : c = u.containers[i]
    BY <1>1 DEF Range
  <2>. DEFINE d == ps.containers[i]
              ms == d.mounts
              es == d.env
  <2>2. d \in Range(ps.containers)
    BY DEF Range
  <2>3. ms \in Seq(Mount) /\ es \in Seq(EnvVar)
    BY <1>2
  <2>4. /\ c.name = d.name
        /\ c.mounts = Without(ms, MountsNamed(names))
        /\ c.env = Without(es, EnvOf(secrets))
    BY <1>1, <2>1
  <2>. HIDE DEF ms, es
  <2>5. /\ Range(c.mounts) = Range(ms) \ MountsNamed(names)
        /\ Range(c.env) = Range(es) \ EnvOf(secrets)
    BY <2>3, <2>4, WithoutType
  <2>6. Picks(c.mounts, ms)
    BY <2>3, <2>4, WithoutPicks
  <2>7. Range(ms) \subseteq Mount /\ Range(es) \subseteq EnvVar
    BY <2>3, RangeType
  <2>8. /\ Range(c.mounts) = {m \in Range(ms) : m.name \notin names}
        /\ Range(c.env) = {e \in Range(es) : ~isInjectedEnv(e, secrets)}
    BY <2>5, <2>7 DEF MountsNamed, EnvOf
  <2>. QED
    BY <2>2, <2>4, <2>6, <2>8 DEF ms, es
<1>. QED
  BY <1>3, <1>4, <1>5 DEF secrets, names, u, ElementsUndone

\* The secrets that Undo looks for.
LEMMA RemoveSecrets ==
  ASSUME NEW k \in Keys, NEW b \in ProjectionSpec, NEW ps
  PROVE  /\ \A s \in removeSecrets(k, b, ps) : s # NoSecret
         /\ b.secret \in removeSecrets(k, b, ps)
         /\ ps.annotations[k] # NoSecret =>
              ps.annotations[k] \in removeSecrets(k, b, ps)
BY SpecParts DEF removeSecrets

\* Lists of the same length are empty together.
LEMMA EmptyTogether ==
  ASSUME NEW S, NEW s \in Seq(S), NEW t \in Seq(S), DOMAIN s = DOMAIN t,
         s # << >>
  PROVE  t # << >>
OBVIOUS

\* Nothing of b's secret, and no variable of an annotation, is in the workload.
CleanOf(k, b, u) ==
  /\ u.annotations[k] = NoSecret
  /\ \A f \in Field : f[1] = k => u.template[f] = ""
  /\ \A v \in Range(u.volumes) : v.secret # b.secret /\ v.name # b.secret
  /\ \A c \in Range(u.containers) :
       /\ \A m \in Range(c.mounts) : m.name # b.secret
       /\ \A e \in Range(c.env) : e.secret # b.secret /\ e.field = NoField

\* A volume's name tells its secret.
LEMMA NameIsSecret ==
  ASSUME NEW ps, VolumesRecorded(ps), NEW v \in Range(ps.volumes),
         v.name \in Secrets
  PROVE  v.secret = v.name
BY DEF VolumesRecorded

\* Undo keeps the invariant and leaves nothing of the projection.
LEMMA UndoKeeps ==
  ASSUME NEW k \in Keys, NEW b \in ProjectionSpec, NEW ps, PodOK(ps)
  PROVE  PodOK(Undo(k, b, ps)) /\ CleanOf(k, b, Undo(k, b, ps))
<1>. DEFINE secrets == removeSecrets(k, b, ps)
            names == UndoNames(k, b, ps)
            u == Undo(k, b, ps)
<1>1. /\ ps \in WithPod /\ ps.containers # << >>
      /\ VolumesRecorded(ps) /\ EnvRecorded(ps) /\ TemplateRecorded(ps)
      /\ MountsResolve(ps) /\ VolumesDiffer(ps)
  BY DEF PodOK
<1>2. /\ u \in WithPod
      /\ \A j \in Keys :
           u.annotations[j] = IF j = k THEN NoSecret ELSE ps.annotations[j]
      /\ \A f \in Field :
           u.template[f] = IF f[1] = k THEN "" ELSE ps.template[f]
      /\ \A s \in secrets : s # NoSecret
      /\ b.secret \in secrets
      /\ ps.annotations[k] # NoSecret => ps.annotations[k] \in secrets
      /\ u.containers # << >>
  <2>1. /\ u \in WithPod
        /\ MarksUndone(k, ps, u)
        /\ ListsUndone(secrets, names, ps, u)
    BY <1>1, UndoIs
  <2>2. /\ \A s \in secrets : s # NoSecret
        /\ b.secret \in secrets
        /\ ps.annotations[k] # NoSecret => ps.annotations[k] \in secrets
    BY RemoveSecrets
  <2>. HIDE DEF secrets, names, u
  <2>3. u.containers # << >>
    BY <1>1, <2>1, PodParts, EmptyTogether DEF ListsUndone
  <2>. QED
    BY <2>1, <2>2, <2>3 DEF MarksUndone
<1>3. /\ Range(u.volumes) = {v \in Range(ps.volumes) : v.secret \notin secrets}
      /\ Picks(u.volumes, ps.volumes)
  BY <1>1, UndoElements DEF ElementsUndone
<1>4. \A c \in Range(u.containers) : \E d \in Range(ps.containers) :
        /\ c.name = d.name
        /\ Range(c.mounts) = {m \in Range(d.mounts) : m.name \notin names}
        /\ Range(c.env) = {e \in Range(d.env) : ~isInjectedEnv(e, secrets)}
  BY <1>1, UndoElements DEF ElementsUndone
<1>5. b.secret \in Secrets /\ NoSecret \notin Secrets
  BY SpecParts, SecretsAssumption
<1>6. \A n : n \in names <=>
               \E v \in Range(ps.volumes) : v.secret \in secrets /\ v.name = n
  BY DEF NamesWith, UndoNames
<1>7. \A f \in Field : f[1] \in Keys
  BY DEF Field
<1>8. \A v \in Range(ps.volumes) : v \in Volume /\ v.fields \subseteq Field
  <2>1. \A v \in Volume : v.fields \subseteq Field
    BY DEF Volume
  <2>. QED
    BY <1>1, <2>1, PodParts, RangeType
<1>9. \A i \in DOMAIN u.volumes : u.volumes[i] \in Range(u.volumes)
  BY DEF Range
<1>. HIDE DEF secrets, names, u
<1>10. VolumesRecorded(u)
  <2>. SUFFICES ASSUME NEW v \in Range(u.volumes)
                PROVE  IF v.secret \in Secrets
                       THEN /\ v.name = v.secret
                            /\ \E j \in Keys : u.annotations[j] = v.secret
                            /\ \A f \in v.fields :
                                 /\ u.annotations[f[1]] = v.secret
                                 /\ u.template[f] # ""
                       ELSE v.name \notin Secrets
    BY DEF VolumesRecorded
  <2>1. v \in Range(ps.volumes) /\ v.secret \notin secrets
    BY <1>3
  <2>2. CASE v.secret \notin Secrets
    BY <1>1, <2>1, <2>2 DEF VolumesRecorded
  <2>3. CASE v.secret \in Secrets
    <3>1. /\ v.name = v.secret
          /\ \E j \in Keys : ps.annotations[j] = v.secret
          /\ \A f \in v.fields :
               ps.annotations[f[1]] = v.secret /\ ps.template[f] # ""
      BY <1>1, <2>1, <2>3 DEF VolumesRecorded
    <3>2. ps.annotations[k] # v.secret
      BY <1>2, <1>5, <2>1, <2>3
    <3>3. PICK j \in Keys : ps.annotations[j] = v.secret
      BY <3>1
    <3>4. u.annotations[j] = v.secret
      BY <1>2, <3>2, <3>3
    <3>5. ASSUME NEW f \in v.fields
          PROVE  u.annotations[f[1]] = v.secret /\ u.template[f] # ""
      <4>1. f \in Field /\ f[1] \in Keys
        BY <1>7, <1>8, <2>1
      <4>2. f[1] # k
        BY <3>1, <3>2
      <4>. QED
        BY <1>2, <3>1, <4>1, <4>2
    <3>. QED
      BY <2>3, <3>1, <3>4, <3>5
  <2>. QED
    BY <2>2, <2>3
<1>11. ASSUME NEW c \in Range(u.containers), NEW e \in Range(c.env)
       PROVE  /\ e.secret # b.secret /\ e.field = NoField
              /\ e.secret \in Secrets =>
                   \E j \in Keys : u.annotations[j] = e.secret
  <2>1. PICK d \in Range(ps.containers) :
          Range(c.env) = {x \in Range(d.env) : ~isInjectedEnv(x, secrets)}
    BY <1>4
  <2>2. e \in Range(d.env) /\ e.secret \notin secrets /\ e.field = NoField
    BY <2>1 DEF isInjectedEnv
  <2>3. ASSUME e.secret \in Secrets
        PROVE  \E j \in Keys : u.annotations[j] = e.secret
    <3>1. PICK j \in Keys : ps.annotations[j] = e.secret
      BY <1>1, <2>2, <2>3 DEF EnvRecorded
    <3>2. j # k
      BY <1>2, <1>5, <2>2, <2>3, <3>1
    <3>. QED
      BY <1>2, <3>1, <3>2
  <2>. QED
    BY <1>2, <2>2, <2>3
<1>12. EnvRecorded(u)
  BY <1>11 DEF EnvRecorded
<1>13. TemplateRecorded(u)
  BY <1>1, <1>2, <1>7 DEF TemplateRecorded
<1>14. ASSUME NEW c \in Range(u.containers), NEW m \in Range(c.mounts)
       PROVE  /\ \E v \in Range(u.volumes) : v.name = m.name
              /\ \A x \in Extras : m.name # x.volume.name
              /\ m.name # b.secret
  <2>1. PICK d \in Range(ps.containers) :
          Range(c.mounts) = {x \in Range(d.mounts) : x.name \notin names}
    BY <1>4
  <2>2. m \in Range(d.mounts) /\ m.name \notin names
    BY <2>1
  <2>3. PICK v \in Range(ps.volumes) : v.name = m.name
    BY <1>1, <2>2 DEF MountsResolve
  <2>4. v.secret \notin secrets
    BY <1>6, <2>2, <2>3
  <2>5. m.name # b.secret
    <3>. SUFFICES ASSUME m.name = b.secret PROVE FALSE
      OBVIOUS
    <3>1. v.name \in Secrets
      BY <1>5, <2>3
    <3>2. v.secret = v.name
      BY <1>1, <2>3, <3>1, NameIsSecret
    <3>. QED
      BY <1>2, <1>5, <2>3, <2>4, <3>2
  <2>6. \A x \in Extras : m.name # x.volume.name
    BY <1>1, <2>2 DEF MountsResolve
  <2>. QED
    BY <1>3, <2>3, <2>4, <2>5, <2>6
<1>15. MountsResolve(u)
  BY <1>14 DEF MountsResolve
<1>16. VolumesDiffer(u)
  <2>1. \A v \in Range(u.volumes) : \A x \in Extras :
          v.name = x.volume.name => v = x.volume
    BY <1>1, <1>3 DEF VolumesDiffer
  <2>2. ASSUME NEW i \in DOMAIN u.volumes, NEW j \in DOMAIN u.volumes, i # j
        PROVE  u.volumes[i].name # u.volumes[j].name
    <3>1. PICK g \in DOMAIN ps.volumes, h \in DOMAIN ps.volumes :
            /\ g # h
            /\ u.volumes[i] = ps.volumes[g]
            /\ u.volumes[j] = ps.volumes[h]
      BY <1>3, <2>2 DEF Picks
    <3>. QED
      BY <1>1, <3>1 DEF VolumesDiffer
  <2>. QED
    BY <2>1, <2>2 DEF VolumesDiffer
<1>17. PodOK(u)
  BY <1>2, <1>10, <1>12, <1>13, <1>15, <1>16 DEF PodOK
<1>18. \A v \in Range(u.volumes) : v.secret # b.secret /\ v.name # b.secret
  BY <1>1, <1>2, <1>3, <1>5, NameIsSecret
<1>19. CleanOf(k, b, u)
  BY <1>2, <1>11, <1>14, <1>18 DEF CleanOf
<1>. QED
  BY <1>17, <1>19 DEF u

\* The elements after Do.
ElementsDone(k, b, u, d) ==
  /\ Range(d.volumes) = Range(u.volumes) \cup {ProjectedVolume(k, b)}
  /\ Picks(d.volumes, Append(u.volumes, ProjectedVolume(k, b)))
  /\ \A c \in Range(d.containers) : \E e \in Range(u.containers) :
       /\ e.env \in Seq(EnvVar) /\ e.mounts \in Seq(Mount)
       /\ \/ c = e
          \/ /\ Range(c.mounts) = Range(e.mounts) \cup {NewMount(b, e.env)}
             /\ Picks(c.mounts, Append(e.mounts, NewMount(b, e.env)))
             /\ Range(c.env) = Range(Rooted(e.env)) \cup Range(NewEnv(k, b))

\* These are the elements after Do.
LEMMA DoElements ==
  ASSUME NEW k \in Keys, NEW b \in ProjectionSpec, NEW ps \in WithPod,
         Fits(k, b, ps)
  PROVE  ElementsDone(k, b, Undo(k, b, ps), Do(k, b, ps))
<1>. DEFINE u == Undo(k, b, ps)
            d == Do(k, b, ps)
            names == DoNames(k, b, ps)
            secrets == DoSecrets(k, b, ps)
            v == ProjectedVolume(k, b)
<1>1. u \in WithPod /\ ListsDone(k, b, names, secrets, u, d)
  BY UndoIs, DoIs
<1>2. v \in Volume
  BY NewVolumeType
<1>. HIDE DEF u, d, names, secrets, v
<1>3. /\ u.volumes \in Seq(Volume)
      /\ \A i \in DOMAIN u.containers :
           /\ u.containers[i].env \in Seq(EnvVar)
           /\ u.containers[i].mounts \in Seq(Mount)
  BY <1>1, PodParts
<1>4. d.volumes = InsertionSort(Append(u.volumes, v), VolumesNamed(names))
      /\ DOMAIN d.containers = DOMAIN u.containers
  BY <1>1 DEF ListsDone, v
<1>5. /\ Range(d.volumes) = Range(u.volumes) \cup {v}
      /\ Picks(d.volumes, Append(u.volumes, v))
  <2>. DEFINE w == Append(u.volumes, v)
  <2>1. w \in Seq(Volume)
    BY <1>2, <1>3, AppendOne
  <2>2. Range(w) = Range(u.volumes) \cup {v}
    BY <1>2, <1>3, AppendRange
  <2>. HIDE DEF w
  <2>3. d.volumes = InsertionSort(w, VolumesNamed(names))
    BY <1>4 DEF w
  <2>4. Range(d.volumes) = Range(w)
    BY <2>1, <2>3, AllNamed, SortType
  <2>5. Picks(d.volumes, w)
    BY <2>1, <2>3, AllNamed, SortPicks
  <2>. QED
    BY <2>2, <2>4, <2>5 DEF w
<1>6. ASSUME NEW c \in Range(d.containers)
      PROVE  \E e \in Range(u.containers) :
               /\ e.env \in Seq(EnvVar) /\ e.mounts \in Seq(Mount)
               /\ \/ c = e
                  \/ /\ Range(c.mounts)
                          = Range(e.mounts) \cup {NewMount(b, e.env)}
                     /\ Picks(c.mounts, Append(e.mounts, NewMount(b, e.env)))
                     /\ Range(c.env)
                          = Range(Rooted(e.env)) \cup Range(NewEnv(k, b))
  <2>1. PICK i \in DOMAIN u.containers : c = d.containers[i]
    BY <1>4 DEF Range
  <2>. DEFINE e == u.containers[i]
              ms == e.mounts
              es == e.env
              m == NewMount(b, es)
              w == Append(ms, m)
  <2>2. e \in Range(u.containers) /\ es \in Seq(EnvVar) /\ ms \in Seq(Mount)
    BY <1>3 DEF Range
  <2>3. /\ ~isTargetContainer(b, e) => c = e
        /\ isTargetContainer(b, e) =>
             /\ c.mounts = InsertionSort(w, MountsNamed(names))
             /\ c.env = BoundEnv(k, b, es, secrets)
    BY <1>1, <2>1 DEF ListsDone
  <2>4. m \in Mount
    BY <2>2, NewMountType
  <2>. HIDE DEF e, es, ms, m
  <2>5. w \in Seq(Mount)
    BY <2>2, <2>4, AppendOne
  <2>6. Range(w) = Range(ms) \cup {m}
    BY <2>2, <2>4, AppendRange
  <2>7. Range(BoundEnv(k, b, es, secrets))
          = Range(Rooted(es)) \cup Range(NewEnv(k, b))
    BY <2>2, BoundEnvType
  <2>. HIDE DEF w
  <2>8. /\ Range(InsertionSort(w, MountsNamed(names))) = Range(w)
        /\ Picks(InsertionSort(w, MountsNamed(names)), w)
    BY <2>5, AllNamed, SortType, SortPicks
  <2>9. \/ c = e
        \/ /\ Range(c.mounts) = Range(ms) \cup {m}
           /\ Picks(c.mounts, w)
           /\ Range(c.env) = Range(Rooted(es)) \cup Range(NewEnv(k, b))
    BY <2>3, <2>6, <2>7, <2>8
  <2>. QED
    BY <2>2, <2>9 DEF es, ms, m, w
<1>7. ElementsDone(k, b, u, d)
  BY <1>5, <1>6 DEF ElementsDone, v
<1>. QED
  BY <1>7 DEF u, d

\* The annotations of a projection that has a type or a provider.
LEMMA TypeFieldsAre ==
  ASSUME NEW k \in Keys, NEW b
  PROVE  /\ TypeFields(k, b) \subseteq Field
         /\ \A f \in TypeFields(k, b) : f[1] = k /\ b[f[2]] # ""
         /\ NoField \notin TypeFields(k, b)
         /\ \A f \in Field : f[1] \in Keys
BY DEF TypeFields, Field, NoField

\* Do keeps the invariant.
LEMMA DoKeeps ==
  ASSUME NEW k \in Keys, NEW b \in ProjectionSpec, NEW ps, PodOK(ps),
         Fits(k, b, ps)
  PROVE  PodOK(Do(k, b, ps))
<1>. DEFINE u == Undo(k, b, ps)
            d == Do(k, b, ps)
            v0 == ProjectedVolume(k, b)
            n0 == NewEnv(k, b)
<1>1. ps \in WithPod
  BY DEF PodOK
<1>2. PodOK(u) /\ CleanOf(k, b, u)
  BY UndoKeeps
<1>3. /\ d \in WithPod
      /\ MarksDone(k, b, u, d)
      /\ ListsDone(k, b, DoNames(k, b, ps), DoSecrets(k, b, ps), u, d)
      /\ ElementsDone(k, b, u, d)
  BY <1>1, DoIs, DoElements
<1>. HIDE DEF u, d
<1>4. /\ u \in WithPod /\ u.containers # << >>
      /\ VolumesRecorded(u) /\ EnvRecorded(u) /\ TemplateRecorded(u)
      /\ MountsResolve(u) /\ VolumesDiffer(u)
  BY <1>2 DEF PodOK
<1>5. /\ u.annotations[k] = NoSecret
      /\ \A v \in Range(u.volumes) : v.name # b.secret
      /\ \A c \in Range(u.containers) : \A e \in Range(c.env) :
           e.field = NoField
  BY <1>2 DEF CleanOf
<1>6. /\ \A j \in Keys :
           d.annotations[j] = IF j = k THEN b.secret ELSE u.annotations[j]
      /\ \A f \in Field :
           d.template[f] = IF f \in TypeFields(k, b)
                           THEN b[f[2]] ELSE u.template[f]
  BY <1>3 DEF MarksDone
<1>7. /\ TypeFields(k, b) \subseteq Field
      /\ \A f \in TypeFields(k, b) : f[1] = k /\ b[f[2]] # ""
      /\ \A f \in Field : f[1] \in Keys
  BY TypeFieldsAre
<1>8. /\ v0 \in Volume /\ v0.name = b.secret /\ v0.secret = b.secret
      /\ v0.fields = TypeFields(k, b)
  BY NewVolumeType
<1>9. b.secret \in Secrets /\ NoSecret \notin Secrets /\ b.secret # NoSecret
  BY SpecParts, SecretsAssumption
<1>10. /\ Range(d.volumes) = Range(u.volumes) \cup {v0}
       /\ Picks(d.volumes, Append(u.volumes, v0))
  BY <1>3 DEF ElementsDone
<1>11. \A x \in Extras : x.volume.name \notin Secrets
  BY ExtrasAssumption DEF IsOwnVolume
<1>12. u.volumes \in Seq(Volume)
  BY <1>4, PodParts
<1>13. \A v \in Range(u.volumes) : v.fields \subseteq Field
  <2>1. \A v \in Volume : v.fields \subseteq Field
    BY DEF Volume
  <2>. QED
    BY <1>12, <2>1, RangeType
\* What another projection records, it still does.
<1>14. \A j \in Keys : u.annotations[j] # NoSecret =>
         j # k /\ d.annotations[j] = u.annotations[j]
  BY <1>5, <1>6
<1>. HIDE DEF v0, n0
<1>15. VolumesRecorded(d)
  <2>1. ASSUME NEW v \in Range(u.volumes), v.secret \in Secrets
        PROVE  /\ v.name = v.secret
               /\ \E j \in Keys : d.annotations[j] = v.secret
               /\ \A f \in v.fields :
                    d.annotations[f[1]] = v.secret /\ d.template[f] # ""
    <3>1. /\ v.name = v.secret
          /\ \E j \in Keys : u.annotations[j] = v.secret
          /\ \A f \in v.fields :
               u.annotations[f[1]] = v.secret /\ u.template[f] # ""
      BY <1>4, <2>1 DEF VolumesRecorded
    <3>2. v.secret # NoSecret
      BY <1>9, <2>1
    <3>3. ASSUME NEW f \in v.fields
          PROVE  d.annotations[f[1]] = v.secret /\ d.template[f] # ""
      <4>1. f \in Field /\ f[1] \in Keys
        BY <1>7, <1>13
      <4>2. f[1] # k /\ d.annotations[f[1]] = v.secret
        BY <1>14, <3>1, <3>2, <4>1
      <4>. QED
        BY <1>6, <1>7, <3>1, <4>1, <4>2
    <3>. QED
      BY <1>14, <3>1, <3>2, <3>3
  <2>2. /\ d.annotations[k] = v0.secret
        /\ \A f \in v0.fields :
             d.annotations[f[1]] = v0.secret /\ d.template[f] # ""
    <3>1. d.annotations[k] = v0.secret
      BY <1>6, <1>8
    <3>2. \A f \in TypeFields(k, b) : f[1] = k /\ d.template[f] # ""
      BY <1>6, <1>7
    <3>. QED
      BY <1>8, <3>1, <3>2
  <2>3. \A v \in Range(u.volumes) : v.secret \notin Secrets =>
          v.name \notin Secrets
    BY <1>4 DEF VolumesRecorded
  <2>. QED
    BY <1>8, <1>9, <1>10, <2>1, <2>2, <2>3 DEF VolumesRecorded
<1>16. ASSUME NEW c \in Range(d.containers), NEW e \in Range(c.env)
       PROVE  /\ e.secret \in Secrets =>
                   \E j \in Keys : d.annotations[j] = e.secret
              /\ e.field # NoField =>
                   e.field \in Field /\ d.template[e.field] # ""
  <2>1. PICK o \in Range(u.containers) :
          /\ o.env \in Seq(EnvVar)
          /\ \/ c = o
             \/ Range(c.env) = Range(Rooted(o.env)) \cup Range(n0)
    BY <1>3 DEF ElementsDone, n0
  <2>2. e \in Range(o.env) \cup {DefaultRootEnv} \cup Range(n0)
    <3>1. Range(Rooted(o.env)) \subseteq Range(o.env) \cup {DefaultRootEnv}
      BY <2>1, RootType
    <3>. QED
      BY <2>1, <3>1
  <2>3. CASE e \in Range(o.env)
    <3>1. e.field = NoField
      BY <1>5, <2>3
    <3>2. ASSUME e.secret \in Secrets
          PROVE  \E j \in Keys : d.annotations[j] = e.secret
      <4>1. PICK j \in Keys : u.annotations[j] = e.secret
        BY <1>4, <2>3, <3>2 DEF EnvRecorded
      <4>2. u.annotations[j] # NoSecret
        BY <1>9, <3>2, <4>1
      <4>. QED
        BY <1>14, <4>1, <4>2
    <3>. QED
      BY <3>1, <3>2
  <2>4. CASE e = DefaultRootEnv
    <3>1. e.secret = NoSecret /\ e.field = NoField
      BY <2>4 DEF DefaultRootEnv
    <3>. QED
      BY <1>9, <3>1
  <2>5. CASE e \in Range(n0)
    <3>1. \/ e.secret = b.secret /\ e.field = NoField
          \/ e.secret = NoSecret /\ e.field \in TypeFields(k, b)
      BY <2>5, NewEnvType DEF n0
    <3>2. d.annotations[k] = b.secret
      BY <1>6
    <3>. QED
      BY <1>6, <1>7, <1>9, <3>1, <3>2
  <2>. QED
    BY <2>2, <2>3, <2>4, <2>5
<1>17. EnvRecorded(d)
  BY <1>16 DEF EnvRecorded
<1>18. TemplateRecorded(d)
  <2>. SUFFICES ASSUME NEW f \in Field, d.template[f] # ""
                PROVE  d.annotations[f[1]] # NoSecret
    BY DEF TemplateRecorded
  <2>1. CASE f \in TypeFields(k, b)
    BY <1>6, <1>7, <1>9, <2>1
  <2>2. CASE f \notin TypeFields(k, b)
    <3>1. u.template[f] # ""
      BY <1>6, <2>2
    <3>2. u.annotations[f[1]] # NoSecret /\ f[1] \in Keys
      BY <1>4, <1>7, <3>1 DEF TemplateRecorded
    <3>. QED
      BY <1>14, <3>2
  <2>. QED
    BY <2>1, <2>2
<1>19. MountsResolve(d)
  <2>. SUFFICES ASSUME NEW c \in Range(d.containers), NEW m \in Range(c.mounts)
                PROVE  /\ \E v \in Range(d.volumes) : v.name = m.name
                       /\ \A x \in Extras : m.name # x.volume.name
    BY DEF MountsResolve
  <2>1. PICK o \in Range(u.containers) :
          /\ o.env \in Seq(EnvVar)
          /\ \/ c = o
             \/ Range(c.mounts) = Range(o.mounts) \cup {NewMount(b, o.env)}
    BY <1>3 DEF ElementsDone
  <2>2. CASE m \in Range(o.mounts)
    BY <1>4, <1>10, <2>2 DEF MountsResolve
  <2>3. CASE m = NewMount(b, o.env)
    <3>1. m.name = b.secret
      BY <2>1, <2>3, NewMountType
    <3>. QED
      BY <1>8, <1>9, <1>10, <1>11, <3>1
  <2>. QED
    BY <2>1, <2>2, <2>3
<1>20. VolumesDiffer(d)
  <2>. DEFINE w == Append(u.volumes, v0)
              n == Len(u.volumes)
  <2>1. /\ n \in Nat /\ DOMAIN u.volumes = 1..n
        /\ DOMAIN w = 1..(n + 1)
        /\ \A i \in 1..n : w[i] = u.volumes[i]
        /\ w[n + 1] = v0
    BY <1>8, <1>12, LenProperties, AppendProperties
  <2>2. \A i \in 1..n : w[i] \in Range(u.volumes)
    BY <2>1 DEF Range
  <2>3. \A i, j \in DOMAIN u.volumes :
          i # j => u.volumes[i].name # u.volumes[j].name
    BY <1>4 DEF VolumesDiffer
  <2>. HIDE DEF w, n
  <2>4. ASSUME NEW i \in DOMAIN w, NEW j \in DOMAIN w, i # j
        PROVE  w[i].name # w[j].name
    <3>1. /\ i \in 1..n \/ i = n + 1
          /\ j \in 1..n \/ j = n + 1
      BY <2>1
    <3>2. CASE i \in 1..n /\ j \in 1..n
      BY <2>1, <2>3, <2>4, <3>2
    <3>3. CASE i \in 1..n /\ j = n + 1
      BY <1>5, <1>8, <2>1, <2>2, <3>3
    <3>4. CASE i = n + 1 /\ j \in 1..n
      BY <1>5, <1>8, <2>1, <2>2, <3>4
    <3>. QED
      BY <2>4, <3>1, <3>2, <3>3, <3>4
  <2>5. ASSUME NEW i \in DOMAIN d.volumes, NEW j \in DOMAIN d.volumes, i # j
        PROVE  d.volumes[i].name # d.volumes[j].name
    <3>1. PICK g \in DOMAIN w, h \in DOMAIN w :
            /\ g # h
            /\ d.volumes[i] = w[g]
            /\ d.volumes[j] = w[h]
      BY <1>10, <2>5 DEF Picks, w
    <3>. QED
      BY <2>4, <3>1
  <2>6. \A v \in Range(d.volumes) : \A x \in Extras :
          v.name = x.volume.name => v = x.volume
    BY <1>4, <1>8, <1>9, <1>10, <1>11 DEF VolumesDiffer
  <2>. QED
    BY <2>5, <2>6 DEF VolumesDiffer
<1>21. d.containers # << >>
  BY <1>3, <1>4, PodParts, EmptyTogether DEF ListsDone
<1>22. PodOK(d)
  BY <1>3, <1>15, <1>17, <1>18, <1>19, <1>20, <1>21 DEF PodOK
<1>. QED
  BY <1>22 DEF d

-----------------------------------------------------------------------------
(* The owner's changes *)

\* The element is removed if it is there, or appended.
Flipped(s, x) == IF x \in Range(s) THEN Without(s, {x}) ELSE Append(s, x)

\* Its type and its elements.
LEMMA FlippedType ==
  ASSUME NEW S, NEW s \in Seq(S), NEW x \in S
  PROVE  /\ Flipped(s, x) \in Seq(S)
         /\ x \in Range(s) => Range(Flipped(s, x)) = Range(s) \ {x}
         /\ x \notin Range(s) => Range(Flipped(s, x)) = Range(s) \cup {x}
<1>1. CASE x \in Range(s)
  <2>1. Flipped(s, x) = Without(s, {x})
    BY <1>1 DEF Flipped
  <2>2. /\ Without(s, {x}) \in Seq(S)
        /\ Range(Without(s, {x})) = Range(s) \ {x}
    BY WithoutType
  <2>. QED
    BY <1>1, <2>1, <2>2
<1>2. CASE x \notin Range(s)
  <2>1. Flipped(s, x) = Append(s, x)
    BY <1>2 DEF Flipped
  <2>2. Append(s, x) \in Seq(S)
    BY AppendOne
  <2>3. Range(Append(s, x)) = Range(s) \cup {x}
    BY AppendRange
  <2>. QED
    BY <1>2, <2>1, <2>2, <2>3
<1>. QED
  BY <1>1, <1>2

\* What a change of the owner's makes of ps: he adds or removes what z has.
ListsToggled(ps, z, t) ==
  /\ t.annotations = ps.annotations
  /\ t.template = ps.template
  /\ t.volumes = Flipped(ps.volumes, z.volume)
  /\ DOMAIN t.containers = DOMAIN ps.containers
  /\ \A i \in DOMAIN ps.containers :
       /\ t.containers[i].name = ps.containers[i].name
       /\ t.containers[i].mounts = ps.containers[i].mounts
       /\ t.containers[i].env = IF i = 1
                                THEN Flipped(ps.containers[i].env, z.env)
                                ELSE ps.containers[i].env

\* What the owner adds and removes.
LEMMA ExtraIs ==
  ASSUME NEW z \in Extras
  PROVE  /\ z.volume \in Volume /\ z.env \in EnvVar
         /\ z.volume.secret \notin Secrets /\ z.volume.name \notin Secrets
         /\ z.env.secret \notin Secrets /\ z.env.field = NoField
BY ExtrasAssumption DEF IsOwnVolume, IsOwnEnv

\* The change is this one.
LEMMA ToggledIs ==
  ASSUME NEW ps \in WithPod, ps.containers # << >>, NEW z \in Extras
  PROVE  Toggled(ps, z) \in WithPod /\ ListsToggled(ps, z, Toggled(ps, z))
<1>. DEFINE x == z.volume
            y == z.env
            cs == ps.containers
            c1 == cs[1]
            vs == Flipped(ps.volumes, x)
            es == Flipped(c1.env, y)
            d1 == [c1 EXCEPT !.env = es]
            ds == [cs EXCEPT ![1] = d1]
            t == Toggled(ps, z)
            n == Len(cs)
<1>1. t = [ps EXCEPT !.volumes = vs, !.containers[1].env = es]
  BY DEF Toggled, Flipped
<1>2. x \in Volume /\ y \in EnvVar
  BY ExtraIs
<1>3. /\ ps.annotations \in [Keys -> Secrets \cup {NoSecret}]
      /\ ps.template \in [Field -> Texts \cup {""}]
      /\ ps.volumes \in Seq(Volume)
      /\ cs \in Seq(Container)
      /\ DOMAIN cs = 1..n /\ n \in Nat
      /\ \A i \in DOMAIN cs : cs[i] \in Container
  BY PodParts
<1>4. ps = [annotations |-> ps.annotations, template |-> ps.template,
            volumes |-> ps.volumes, containers |-> ps.containers]
  BY DEF WithPod
<1>5. cs # << >>
  OBVIOUS
<1>. HIDE DEF x, y, vs, es, t
<1>6. /\ t.annotations = ps.annotations
      /\ t.template = ps.template
      /\ t.volumes = vs
      /\ t.containers = ds
      /\ t = [annotations |-> t.annotations, template |-> t.template,
              volumes |-> t.volumes, containers |-> t.containers]
  BY <1>1, <1>4
<1>. HIDE DEF cs
<1>7. 1 \in DOMAIN cs
  <2>1. Len(cs) # 0
    BY <1>3, <1>5, EmptySeq
  <2>2. n # 0
    BY <2>1 DEF n
  <2>. HIDE DEF n
  <2>3. n \in Nat /\ DOMAIN cs = 1..n
    BY <1>3
  <2>4. 1 \in 1..n
    BY <2>2, <2>3
  <2>. QED
    BY <2>3, <2>4
<1>. HIDE DEF n
<1>8. c1 \in Container
  BY <1>3, <1>7
<1>. HIDE DEF c1
<1>9. /\ c1.name \in Containers
      /\ c1.env \in Seq(EnvVar)
      /\ c1.mounts \in Seq(Mount)
      /\ c1 = [name |-> c1.name, env |-> c1.env, mounts |-> c1.mounts]
  BY <1>8 DEF Container
<1>10. vs \in Seq(Volume) /\ es \in Seq(EnvVar)
  BY <1>2, <1>3, <1>9, FlippedType DEF vs, es
<1>11. d1 = [name |-> c1.name, env |-> es, mounts |-> c1.mounts]
  BY <1>9
<1>. HIDE DEF d1
<1>12. d1 \in Container /\ d1.name = c1.name /\ d1.mounts = c1.mounts
       /\ d1.env = es
  BY <1>9, <1>10, <1>11 DEF Container
<1>13. /\ cs = [i \in 1..n |-> cs[i]]
       /\ \A i \in DOMAIN cs : ds[i] = IF i = 1 THEN d1 ELSE cs[i]
       /\ DOMAIN ds = DOMAIN cs
       /\ ds = [i \in 1..n |-> ds[i]]
  <2>1. cs = [i \in 1..n |-> cs[i]]
    BY <1>3, LenProperties DEF n
  <2>. QED
    BY <1>3, <2>1
<1>. HIDE DEF ds
<1>14. ds \in [1..n -> Container]
  BY <1>3, <1>12, <1>13
<1>15. ds \in Seq(Container)
  <2>1. n \in Nat
    BY <1>3
  <2>. QED
    BY <1>14, <2>1
<1>16. t \in WithPod
  BY <1>3, <1>6, <1>10, <1>15 DEF WithPod
<1>17. \A i \in DOMAIN cs :
         /\ ds[i].name = cs[i].name
         /\ ds[i].mounts = cs[i].mounts
         /\ ds[i].env = IF i = 1 THEN Flipped(cs[i].env, y) ELSE cs[i].env
  BY <1>12, <1>13 DEF c1, es
<1>18. ListsToggled(ps, z, t)
  BY <1>6, <1>13, <1>17 DEF ListsToggled, cs, vs, x, y
<1>. QED
  BY <1>16, <1>18 DEF t

\* A change of the owner's keeps the invariant.
LEMMA ToggleKeeps ==
  ASSUME NEW ps, PodOK(ps), NEW z \in Extras
  PROVE  PodOK(Toggled(ps, z))
<1>. DEFINE t == Toggled(ps, z)
            x == z.volume
            y == z.env
<1>1. /\ ps \in WithPod /\ ps.containers # << >>
      /\ VolumesRecorded(ps) /\ EnvRecorded(ps) /\ TemplateRecorded(ps)
      /\ MountsResolve(ps) /\ VolumesDiffer(ps)
  BY DEF PodOK
<1>2. t \in WithPod /\ ListsToggled(ps, z, t)
  BY <1>1, ToggledIs
<1>3. /\ x \in Volume /\ y \in EnvVar
      /\ x.secret \notin Secrets /\ x.name \notin Secrets
      /\ y.secret \notin Secrets /\ y.field = NoField
  BY ExtraIs
<1>. HIDE DEF t
<1>4. /\ ps.volumes \in Seq(Volume)
      /\ \A i \in DOMAIN ps.containers : ps.containers[i].env \in Seq(EnvVar)
  BY <1>1, PodParts
<1>5. /\ t.annotations = ps.annotations
      /\ t.template = ps.template
      /\ t.volumes = Flipped(ps.volumes, x)
      /\ DOMAIN t.containers = DOMAIN ps.containers
      /\ \A i \in DOMAIN ps.containers :
           /\ t.containers[i].mounts = ps.containers[i].mounts
           /\ t.containers[i].env = IF i = 1
                                    THEN Flipped(ps.containers[i].env, y)
                                    ELSE ps.containers[i].env
  BY <1>2 DEF ListsToggled
<1>. HIDE DEF x, y
<1>6. /\ x \in Range(ps.volumes) => Range(t.volumes) = Range(ps.volumes) \ {x}
      /\ x \notin Range(ps.volumes) =>
           Range(t.volumes) = Range(ps.volumes) \cup {x}
  <2>. DEFINE s == ps.volumes
  <2>1. s \in Seq(Volume) /\ t.volumes = Flipped(s, x)
    BY <1>4, <1>5
  <2>. HIDE DEF s
  <2>2. ASSUME x \in Range(s)
        PROVE  Range(Flipped(s, x)) = Range(s) \ {x}
    BY <1>3, <2>1, <2>2, FlippedType
  <2>3. ASSUME x \notin Range(s)
        PROVE  Range(Flipped(s, x)) = Range(s) \cup {x}
    BY <1>3, <2>1, <2>3, FlippedType
  <2>. QED
    BY <2>1, <2>2, <2>3 DEF s
<1>7. ASSUME NEW c \in Range(t.containers)
      PROVE  \E d \in Range(ps.containers) :
               /\ c.mounts = d.mounts
               /\ Range(c.env) \subseteq Range(d.env) \cup {y}
  <2>1. PICK i \in DOMAIN ps.containers : c = t.containers[i]
    BY <1>5 DEF Range
  <2>. DEFINE d == ps.containers[i]
              es == d.env
  <2>2. d \in Range(ps.containers) /\ es \in Seq(EnvVar)
    BY <1>4 DEF Range
  <2>3. c.mounts = d.mounts /\ c.env = IF i = 1 THEN Flipped(es, y) ELSE es
    BY <1>5, <2>1
  <2>. HIDE DEF es
  <2>4. Range(c.env) \subseteq Range(es) \cup {y}
    <3>1. Range(Flipped(es, y)) \subseteq Range(es) \cup {y}
      BY <1>3, <2>2, FlippedType
    <3>2. c.env = Flipped(es, y) \/ c.env = es
      BY <2>3
    <3>. QED
      BY <3>1, <3>2
  <2>. QED
    BY <2>2, <2>3, <2>4 DEF es
<1>8. VolumesRecorded(t)
  <2>. SUFFICES ASSUME NEW v \in Range(t.volumes)
                PROVE  IF v.secret \in Secrets
                       THEN /\ v.name = v.secret
                            /\ \E k \in Keys : t.annotations[k] = v.secret
                            /\ \A f \in v.fields :
                                 /\ t.annotations[f[1]] = v.secret
                                 /\ t.template[f] # ""
                       ELSE v.name \notin Secrets
    BY DEF VolumesRecorded
  <2>1. v \in Range(ps.volumes) \/ v = x
    BY <1>6
  <2>2. CASE v = x
    BY <1>3, <2>2
  <2>3. CASE v \in Range(ps.volumes)
    BY <1>1, <1>5, <2>3 DEF VolumesRecorded
  <2>. QED
    BY <2>1, <2>2, <2>3
<1>9. EnvRecorded(t)
  <2>. SUFFICES ASSUME NEW c \in Range(t.containers), NEW e \in Range(c.env)
                PROVE  /\ e.secret \in Secrets =>
                            \E k \in Keys : t.annotations[k] = e.secret
                       /\ e.field # NoField =>
                            e.field \in Field /\ t.template[e.field] # ""
    BY DEF EnvRecorded
  <2>1. PICK d \in Range(ps.containers) :
          Range(c.env) \subseteq Range(d.env) \cup {y}
    BY <1>7
  <2>2. CASE e = y
    BY <1>3, <2>2
  <2>3. CASE e \in Range(d.env)
    BY <1>1, <1>5, <2>3 DEF EnvRecorded
  <2>. QED
    BY <2>1, <2>2, <2>3
<1>10. TemplateRecorded(t)
  BY <1>1, <1>5 DEF TemplateRecorded
<1>11. MountsResolve(t)
  <2>. SUFFICES ASSUME NEW c \in Range(t.containers), NEW m \in Range(c.mounts)
                PROVE  /\ \E v \in Range(t.volumes) : v.name = m.name
                       /\ \A o \in Extras : m.name # o.volume.name
    BY DEF MountsResolve
  <2>1. PICK d \in Range(ps.containers) : c.mounts = d.mounts
    BY <1>7
  <2>2. /\ \E v \in Range(ps.volumes) : v.name = m.name
        /\ \A o \in Extras : m.name # o.volume.name
    BY <1>1, <2>1 DEF MountsResolve
  <2>. QED
    BY <1>6, <2>2 DEF x
<1>12. VolumesDiffer(t)
  <2>1. /\ \A i, j \in DOMAIN ps.volumes :
             i # j => ps.volumes[i].name # ps.volumes[j].name
        /\ \A v \in Range(ps.volumes) : v.name = x.name => v = x
    BY <1>1 DEF VolumesDiffer, x
  <2>2. \A v \in Range(t.volumes) : \A o \in Extras :
          v.name = o.volume.name => v = o.volume
    <3>1. \A v \in Range(ps.volumes) : \A o \in Extras :
            v.name = o.volume.name => v = o.volume
      BY <1>1 DEF VolumesDiffer
    <3>2. \A o \in Extras : x.name = o.volume.name => x = o.volume
      BY ExtrasAssumption DEF x
    <3>. QED
      BY <1>6, <3>1, <3>2
  <2>. DEFINE s == ps.volumes
              w == t.volumes
  <2>3. ASSUME NEW i \in DOMAIN w, NEW j \in DOMAIN w, i # j
        PROVE  w[i].name # w[j].name
    <3>1. CASE x \in Range(s)
      <4>1. w = Without(s, {x})
        BY <1>5, <3>1 DEF Flipped
      <4>2. Picks(w, s)
        BY <1>4, <4>1, WithoutPicks
      <4>3. PICK g \in DOMAIN s, h \in DOMAIN s :
              g # h /\ w[i] = s[g] /\ w[j] = s[h]
        BY <2>3, <4>2 DEF Picks
      <4>. QED
        BY <2>1, <4>3
    <3>2. CASE x \notin Range(s)
      <4>1. w = Append(s, x)
        BY <1>5, <3>2 DEF Flipped
      <4>. DEFINE n == Len(s)
      <4>2. /\ n \in Nat /\ DOMAIN s = 1..n
            /\ DOMAIN w = 1..(n + 1)
            /\ \A g \in 1..n : w[g] = s[g]
            /\ w[n + 1] = x
        BY <1>3, <1>4, <4>1, LenProperties, AppendProperties
      <4>3. \A g \in 1..n : w[g] \in Range(s)
        BY <4>2 DEF Range
      <4>4. \A g \in 1..n : w[g].name # x.name
        BY <2>1, <3>2, <4>3
      <4>. HIDE DEF w, s, n
      <4>5. /\ i \in 1..n \/ i = n + 1
            /\ j \in 1..n \/ j = n + 1
        BY <4>2
      <4>6. \A g, h \in 1..n : g # h => w[g].name # w[h].name
        BY <2>1, <4>2 DEF s
      <4>. QED
        BY <2>3, <4>2, <4>4, <4>5, <4>6
    <3>. QED
      BY <3>1, <3>2
  <2>. QED
    BY <2>2, <2>3 DEF VolumesDiffer
<1>13. t.containers # << >>
  BY <1>1, <1>2, <1>5, PodParts, EmptyTogether
<1>14. PodOK(t)
  BY <1>2, <1>8, <1>9, <1>10, <1>11, <1>12, <1>13 DEF PodOK
<1>. QED
  BY <1>14 DEF t

-----------------------------------------------------------------------------
(* The invariant *)

\* Names differ from place to place just when they are as many as the places.
LEMMA NamesCount ==
  ASSUME NEW S, NEW s \in Seq(S)
  PROVE  Cardinality({x.name : x \in Range(s)}) = Len(s) <=>
           \A i, j \in DOMAIN s : i # j => s[i].name # s[j].name
<1>. DEFINE n == Len(s)
            D == DOMAIN s
            T == {x.name : x \in Range(s)}
            f == [i \in D |-> s[i].name]
<1>1. D = 1..n /\ n \in Nat
  BY LenProperties
<1>2. IsFiniteSet(D) /\ Cardinality(D) = n
  BY <1>1, FS_Interval
<1>3. \A i \in D : s[i].name \in T
  BY DEF Range
<1>4. \A t \in T : \E i \in D : s[i].name = t
  BY DEF Range
<1>. HIDE DEF T, D, n
<1>5. f \in [D -> T] /\ (\A i \in D : f[i] = s[i].name)
  BY <1>3
<1>6. \A t \in T : \E i \in D : f[i] = t
  BY <1>4, <1>5
<1>. HIDE DEF f
<1>7. f \in Surjection(D, T)
  BY <1>5, <1>6, Fun_IsSurj
<1>8. Cardinality(T) = Cardinality(D) <=> f \in Injection(D, T)
  BY <1>2, <1>7, FS_Surjection
<1>9. f \in Injection(D, T) <=> \A i, j \in D : f[i] = f[j] => i = j
  <2>1. (\A i, j \in D : f[i] = f[j] => i = j) => f \in Injection(D, T)
    BY <1>5, Fun_IsInj
  <2>2. f \in Injection(D, T) => \A i, j \in D : f[i] = f[j] => i = j
    BY Fun_InjectionProperties
  <2>. QED
    BY <2>1, <2>2
<1>10. Cardinality(T) = n <=>
         \A i, j \in D : i # j => s[i].name # s[j].name
  BY <1>2, <1>5, <1>8, <1>9
<1>. QED
  BY <1>10 DEF T, D, n

\* The workload that its owner first creates.
LEMMA ManifestOK == PodOK(Manifest)
<1>1. /\ Manifest \in WithPod
      /\ Manifest.containers # << >>
      /\ \A k \in Keys : Manifest.annotations[k] = NoSecret
      /\ \A f \in Field : Manifest.template[f] = ""
      /\ \A v \in Range(Manifest.volumes) : IsOwnVolume(v)
      /\ \A c \in Range(Manifest.containers) :
           \A e \in Range(c.env) : IsOwnEnv(e)
      /\ NamesResolve(Manifest)
  BY ManifestAssumption
<1>2. Manifest.volumes \in Seq(Volume)
  BY <1>1, PodParts
<1>3. VolumesRecorded(Manifest)
  BY <1>1 DEF VolumesRecorded, IsOwnVolume
<1>4. EnvRecorded(Manifest)
  BY <1>1 DEF EnvRecorded, IsOwnEnv
<1>5. TemplateRecorded(Manifest)
  BY <1>1 DEF TemplateRecorded
<1>6. \A v \in Range(Manifest.volumes) : \A x \in Extras :
        v.name # x.volume.name
  BY ExtrasAssumption
<1>7. MountsResolve(Manifest)
  BY <1>1, <1>6 DEF MountsResolve, NamesResolve
<1>8. \A i, j \in DOMAIN Manifest.volumes :
        i # j => Manifest.volumes[i].name # Manifest.volumes[j].name
  <2>1. Cardinality({v.name : v \in Range(Manifest.volumes)})
          = Len(Manifest.volumes)
    BY <1>1 DEF NamesResolve
  <2>. QED
    BY <1>2, <2>1, NamesCount
<1>9. VolumesDiffer(Manifest)
  BY <1>6, <1>8 DEF VolumesDiffer
<1>. QED
  BY <1>1, <1>3, <1>4, <1>5, <1>7, <1>9 DEF PodOK

\* The inductive invariant.
Inv == TypeOK /\ PodOK(pod) /\ PodOK(own)

\* A projection that exists has one of its specs.
LEMMA SpecOfType ==
  ASSUME TypeOK, NEW k \in Live
  PROVE  k \in Keys /\ SpecOf(k) \in Specs[k] /\ SpecOf(k) \in ProjectionSpec
<1>1. k \in Keys /\ specs[k] # {}
  BY DEF Live
<1>2. PICK b \in Specs[k] : specs[k] = {b}
  BY <1>1 DEF TypeOK
<1>3. SpecOf(k) = b
  BY <1>2 DEF SpecOf
<1>. QED
  BY <1>1, <1>2, <1>3, SpecsAssumption

\* It holds in the beginning.
LEMMA InvInit == Init => Inv
<1>. SUFFICES ASSUME Init PROVE Inv
  OBVIOUS
<1>1. PodOK(pod) /\ PodOK(own)
  BY ManifestOK DEF Init
<1>2. TypeOK
  BY <1>1, MaxEditsAssumption DEF Init, TypeOK, PodOK
<1>. QED
  BY <1>1, <1>2 DEF Inv

\* Every step keeps it.
LEMMA InvNext == Inv /\ Short /\ [Next]_vars => Inv'
<1>. SUFFICES ASSUME Inv, Short, [Next]_vars
              PROVE  Inv'
  OBVIOUS
<1>1. TypeOK /\ PodOK(pod) /\ PodOK(own)
  BY DEF Inv
<1>2. /\ specs \in [Keys -> SUBSET ProjectionSpec]
      /\ \A k \in Keys : specs[k] = {} \/ \E b \in Specs[k] : specs[k] = {b}
      /\ deleting \subseteq Live
      /\ edits \in 0..MaxEdits
  BY <1>1 DEF TypeOK
<1>3. ASSUME NEW k \in Keys, Bind(k)
      PROVE  Inv'
  <2>1. /\ k \in Live
        /\ pod' = Do(k, SpecOf(k), pod)
        /\ UNCHANGED <<specs, deleting, own, edits>>
    BY <1>3 DEF Bind, Pending
  <2>2. SpecOf(k) \in ProjectionSpec /\ Fits(k, SpecOf(k), pod)
    BY <1>1, <2>1, SpecOfType DEF Short
  <2>3. PodOK(pod')
    BY <1>1, <2>1, <2>2, DoKeeps
  <2>. QED
    BY <1>1, <1>2, <2>1, <2>3 DEF Inv, TypeOK, PodOK, Live
<1>4. ASSUME NEW k \in Keys, Unbind(k)
      PROVE  Inv'
  <2>1. /\ k \in deleting
        /\ pod' = Undo(k, SpecOf(k), pod)
        /\ specs' = [specs EXCEPT ![k] = {}]
        /\ deleting' = deleting \ {k}
        /\ UNCHANGED <<own, edits>>
    BY <1>4 DEF Unbind
  <2>2. SpecOf(k) \in ProjectionSpec
    BY <1>1, <1>2, <2>1, SpecOfType
  <2>3. PodOK(pod')
    BY <1>1, <2>1, <2>2, UndoKeeps
  <2>4. /\ specs' \in [Keys -> SUBSET ProjectionSpec]
        /\ \A j \in Keys : specs'[j] = IF j = k THEN {} ELSE specs[j]
    BY <1>2, <2>1
  <2>5. deleting' \subseteq Live'
    BY <1>2, <2>1, <2>4 DEF Live
  <2>. QED
    BY <1>1, <1>2, <2>1, <2>3, <2>4, <2>5 DEF Inv, TypeOK, PodOK
<1>5. ASSUME NEW k \in Keys, Project(k)
      PROVE  Inv'
  <2>1. /\ edits < MaxEdits /\ edits' = edits + 1
        /\ UNCHANGED <<deleting, pod, own>>
    BY <1>5 DEF Project, Edit
  <2>2. PICK b \in Specs[k] : specs' = [specs EXCEPT ![k] = {b}]
    BY <1>5 DEF Project
  <2>3. b \in ProjectionSpec
    BY SpecsAssumption
  <2>4. /\ specs' \in [Keys -> SUBSET ProjectionSpec]
        /\ \A j \in Keys : specs'[j] = IF j = k THEN {b} ELSE specs[j]
    BY <1>2, <2>2, <2>3
  <2>5. deleting' \subseteq Live'
    BY <1>2, <2>1, <2>4 DEF Live
  <2>6. edits' \in 0..MaxEdits
    BY <1>2, <2>1, MaxEditsAssumption
  <2>7. \A j \in Keys : specs'[j] = {} \/ \E x \in Specs[j] : specs'[j] = {x}
    BY <1>2, <2>4
  <2>. QED
    BY <1>1, <2>1, <2>4, <2>5, <2>6, <2>7 DEF Inv, TypeOK
<1>6. ASSUME NEW k \in Keys, Delete(k)
      PROVE  Inv'
  <2>1. /\ edits < MaxEdits /\ edits' = edits + 1
        /\ k \in Live /\ deleting' = deleting \cup {k}
        /\ UNCHANGED <<specs, pod, own>>
    BY <1>6 DEF Delete, Edit
  <2>2. edits' \in 0..MaxEdits
    BY <1>2, <2>1, MaxEditsAssumption
  <2>. QED
    BY <1>1, <1>2, <2>1, <2>2 DEF Inv, TypeOK, Live
<1>7. ASSUME EditWorkload
      PROVE  Inv'
  <2>1. /\ edits < MaxEdits /\ edits' = edits + 1
        /\ \E z \in Extras : pod' = Toggled(pod, z) /\ own' = Toggled(own, z)
        /\ UNCHANGED <<specs, deleting>>
    BY <1>7 DEF EditWorkload, Edit
  <2>2. edits' \in 0..MaxEdits
    BY <1>2, <2>1, MaxEditsAssumption
  <2>3. PodOK(pod') /\ PodOK(own')
    BY <1>1, <2>1, ToggleKeeps
  <2>. QED
    BY <1>2, <2>1, <2>2, <2>3 DEF Inv, TypeOK, PodOK, Live
<1>8. ASSUME RecreateWorkload
      PROVE  Inv'
  <2>1. /\ edits < MaxEdits /\ edits' = edits + 1
        /\ pod' = own
        /\ UNCHANGED <<specs, deleting, own>>
    BY <1>8 DEF RecreateWorkload, Edit
  <2>2. edits' \in 0..MaxEdits
    BY <1>2, <2>1, MaxEditsAssumption
  <2>. QED
    BY <1>1, <1>2, <2>1, <2>2 DEF Inv, TypeOK, PodOK, Live
<1>9. ASSUME UNCHANGED vars
      PROVE  Inv'
  BY <1>1, <1>9 DEF vars, Inv, TypeOK, Live
<1>. QED
  BY <1>3, <1>4, <1>5, <1>6, <1>7, <1>8, <1>9 DEF Next

\* The invariant holds always.
LEMMA InvAlways == Spec /\ []Short => []Inv
BY InvInit, InvNext, PTL DEF Spec

\* While the lists that Do sorts fit in a block, every variable keeps its
\* type: Do and Undo make pod templates of pod templates, whatever was bound
\* before.
THEOREM TypeCorrect == Spec /\ []Short => []TypeOK
<1>1. Inv => TypeOK
  BY DEF Inv
<1>. QED
  BY <1>1, InvAlways, PTL

\* While the lists that Do sorts fit in a block, whatever Do injects is
\* recorded in the annotations until Undo removes it.
THEOREM RecordedAlways == Spec /\ []Short => []Recorded
<1>1. ASSUME Inv
      PROVE  Recorded
  <2>. DEFINE recorded == injectedSecrets(pod)
              fields == {f \in Field : pod.template[f] # ""}
  <2>1. VolumesRecorded(pod) /\ EnvRecorded(pod) /\ TemplateRecorded(pod)
        /\ pod \in WithPod
    BY <1>1 DEF Inv, PodOK
  <2>2. NoSecret \notin Secrets
    BY SecretsAssumption
  <2>3. \A s \in Secrets :
          (\E k \in Keys : pod.annotations[k] = s) => s \in recorded
    BY <2>2 DEF injectedSecrets
  <2>4. \A v \in Range(pod.volumes) : v.fields \subseteq Field
    <3>1. \A v \in Volume : v.fields \subseteq Field
      BY DEF Volume
    <3>. QED
      BY <2>1, <3>1, PodParts, RangeType
  <2>. HIDE DEF recorded
  <2>5. \A f \in fields : pod.annotations[f[1]] # NoSecret
    BY <2>1 DEF TemplateRecorded
  <2>6. \A v \in Range(pod.volumes) :
          v.secret \in Secrets =>
            v.secret \in recorded /\ v.fields \subseteq fields
    BY <2>1, <2>3, <2>4 DEF VolumesRecorded
  <2>7. \A c \in Range(pod.containers) : \A e \in Range(c.env) :
          /\ e.secret \in Secrets => e.secret \in recorded
          /\ e.field # NoField => e.field \in fields
    BY <2>1, <2>3 DEF EnvRecorded
  <2>. QED
    BY <2>5, <2>6, <2>7 DEF Recorded, recorded
<1>. QED
  BY <1>1, InvAlways, PTL

-----------------------------------------------------------------------------
(* Well-formed pods *)

\* Mounts name volumes that are there, and volumes have different names.
LEMMA PodNamesResolve ==
  ASSUME NEW ps, PodOK(ps)
  PROVE  NamesResolve(ps)
<1>1. ps \in WithPod /\ MountsResolve(ps) /\ VolumesDiffer(ps)
  BY DEF PodOK
<1>2. ps.volumes \in Seq(Volume)
  BY <1>1, PodParts
<1>3. Cardinality({v.name : v \in Range(ps.volumes)}) = Len(ps.volumes)
  <2>1. \A i, j \in DOMAIN ps.volumes :
          i # j => ps.volumes[i].name # ps.volumes[j].name
    BY <1>1 DEF VolumesDiffer
  <2>. QED
    BY <1>2, <2>1, NamesCount
<1>4. \A c \in Range(ps.containers) : \A m \in Range(c.mounts) :
        m.name \in {v.name : v \in Range(ps.volumes)}
  BY <1>1 DEF MountsResolve
<1>. QED
  BY <1>3, <1>4 DEF NamesResolve

\* The directories that projections are mounted in are different from those
\* of other projections, whatever specs they have, and from the owner's.
NamesApart ==
  /\ \A j, k \in Keys : j # k => NamesOf(j) \cap NamesOf(k) = {}
  /\ \A k \in Keys : \A c \in Range(Manifest.containers) :
       \A m \in Range(c.mounts) : m.dir \notin NamesOf(k)

\* Undo keeps paths apart, and leaves no mount in the projection's directory.
LEMMA UndoPaths ==
  ASSUME NEW k \in Keys, NEW b \in ProjectionSpec, NEW ps, PodOK(ps),
         MountsKnown(ps), PathsDiffer(ps)
  PROVE  /\ MountsKnown(Undo(k, b, ps)) /\ PathsDiffer(Undo(k, b, ps))
         /\ \A c \in Range(Undo(k, b, ps).containers) :
              \A m \in Range(c.mounts) : m.dir \notin NamesOf(k)
<1>. DEFINE secrets == removeSecrets(k, b, ps)
            names == UndoNames(k, b, ps)
            u == Undo(k, b, ps)
<1>1. ps \in WithPod /\ VolumesRecorded(ps) /\ MountsResolve(ps)
  BY DEF PodOK
<1>2. MarksUndone(k, ps, u) /\ ElementsUndone(secrets, names, ps, u)
  BY <1>1, UndoIs, UndoElements
<1>3. ps.annotations[k] # NoSecret => ps.annotations[k] \in secrets
  BY RemoveSecrets
<1>4. \A n : n \in names <=>
               \E v \in Range(ps.volumes) : v.secret \in secrets /\ v.name = n
  BY DEF NamesWith, UndoNames
<1>5. NoSecret \notin Secrets
  BY SecretsAssumption
<1>. HIDE DEF secrets, names, u
<1>6. \A j \in Keys :
        u.annotations[j] = IF j = k THEN NoSecret ELSE ps.annotations[j]
  BY <1>2 DEF MarksUndone
<1>7. \A c \in Range(u.containers) : \E d \in Range(ps.containers) :
        /\ Range(c.mounts) = {m \in Range(d.mounts) : m.name \notin names}
        /\ Picks(c.mounts, d.mounts)
  BY <1>2 DEF ElementsUndone
<1>8. ASSUME NEW c \in Range(u.containers), NEW m \in Range(c.mounts),
             NEW j \in Keys, m.dir \in NamesOf(j)
      PROVE  j # k /\ m.name = u.annotations[j] /\ m.name \in Secrets
  <2>1. PICK d \in Range(ps.containers) :
          Range(c.mounts) = {x \in Range(d.mounts) : x.name \notin names}
    BY <1>7
  <2>2. m \in Range(d.mounts) /\ m.name \notin names
    BY <2>1
  <2>3. m.name = ps.annotations[j] /\ m.name \in Secrets
    BY <1>8, <2>2 DEF MountsKnown
  <2>4. PICK v \in Range(ps.volumes) : v.name = m.name
    BY <1>1, <2>2 DEF MountsResolve
  <2>5. v.secret = m.name
    BY <1>1, <2>3, <2>4, NameIsSecret
  <2>6. j # k
    BY <1>3, <1>4, <1>5, <2>2, <2>3, <2>4, <2>5
  <2>. QED
    BY <1>6, <2>3, <2>6
<1>9. MountsKnown(u)
  BY <1>8 DEF MountsKnown
<1>10. PathsDiffer(u)
  <2>. SUFFICES ASSUME NEW c \in Range(u.containers),
                       NEW i \in DOMAIN c.mounts, NEW j \in DOMAIN c.mounts,
                       i # j
                PROVE  <<c.mounts[i].root, c.mounts[i].dir>>
                         # <<c.mounts[j].root, c.mounts[j].dir>>
    BY DEF PathsDiffer
  <2>1. PICK d \in Range(ps.containers) : Picks(c.mounts, d.mounts)
    BY <1>7
  <2>2. PICK g \in DOMAIN d.mounts, h \in DOMAIN d.mounts :
          /\ g # h
          /\ c.mounts[i] = d.mounts[g]
          /\ c.mounts[j] = d.mounts[h]
    BY <2>1 DEF Picks
  <2>. QED
    BY <2>2 DEF PathsDiffer
<1>. QED
  BY <1>8, <1>9, <1>10 DEF u

\* Do keeps paths apart.
LEMMA DoPaths ==
  ASSUME NamesApart,
         NEW k \in Keys, NEW b \in Specs[k], NEW ps, PodOK(ps),
         Fits(k, b, ps), MountsKnown(ps), PathsDiffer(ps)
  PROVE  MountsKnown(Do(k, b, ps)) /\ PathsDiffer(Do(k, b, ps))
<1>. DEFINE u == Undo(k, b, ps)
            d == Do(k, b, ps)
<1>1. b \in ProjectionSpec /\ ps \in WithPod /\ b.name \in NamesOf(k)
  BY SpecsAssumption DEF PodOK, NamesOf
<1>2. /\ MountsKnown(u) /\ PathsDiffer(u)
      /\ \A c \in Range(u.containers) :
           \A m \in Range(c.mounts) : m.dir \notin NamesOf(k)
  BY <1>1, UndoPaths
<1>3. MarksDone(k, b, u, d) /\ ElementsDone(k, b, u, d)
  BY <1>1, DoIs, DoElements
<1>4. b.secret \in Secrets
  BY <1>1, SpecParts
<1>. HIDE DEF u, d
<1>5. \A j \in Keys :
        d.annotations[j] = IF j = k THEN b.secret ELSE u.annotations[j]
  BY <1>3 DEF MarksDone
<1>6. \A c \in Range(d.containers) : \E o \in Range(u.containers) :
        /\ o.env \in Seq(EnvVar) /\ o.mounts \in Seq(Mount)
        /\ \/ c = o
           \/ /\ Range(c.mounts) = Range(o.mounts) \cup {NewMount(b, o.env)}
              /\ Picks(c.mounts, Append(o.mounts, NewMount(b, o.env)))
  BY <1>3 DEF ElementsDone
<1>7. \A j \in Keys : b.name \in NamesOf(j) => j = k
  BY <1>1 DEF NamesApart
<1>8. MountsKnown(d)
  <2>. SUFFICES ASSUME NEW j \in Keys, NEW c \in Range(d.containers),
                       NEW m \in Range(c.mounts), m.dir \in NamesOf(j)
                PROVE  m.name = d.annotations[j] /\ m.name \in Secrets
    BY DEF MountsKnown
  <2>1. PICK o \in Range(u.containers) :
          /\ o.env \in Seq(EnvVar)
          /\ \/ c = o
             \/ Range(c.mounts) = Range(o.mounts) \cup {NewMount(b, o.env)}
    BY <1>6
  <2>2. CASE m \in Range(o.mounts)
    <3>1. j # k
      BY <1>2, <2>2
    <3>2. m.name = u.annotations[j] /\ m.name \in Secrets
      BY <1>2, <2>2 DEF MountsKnown
    <3>. QED
      BY <1>5, <3>1, <3>2
  <2>3. CASE m = NewMount(b, o.env)
    <3>1. m.name = b.secret /\ m.dir = b.name
      BY <1>1, <2>1, <2>3, NewMountType
    <3>2. j = k
      BY <1>7, <3>1
    <3>. QED
      BY <1>4, <1>5, <3>1, <3>2
  <2>. QED
    BY <2>1, <2>2, <2>3
<1>9. PathsDiffer(d)
  <2>. SUFFICES ASSUME NEW c \in Range(d.containers),
                       NEW i \in DOMAIN c.mounts, NEW j \in DOMAIN c.mounts,
                       i # j
                PROVE  <<c.mounts[i].root, c.mounts[i].dir>>
                         # <<c.mounts[j].root, c.mounts[j].dir>>
    BY DEF PathsDiffer
  <2>1. PICK o \in Range(u.containers) :
          /\ o.env \in Seq(EnvVar) /\ o.mounts \in Seq(Mount)
          /\ c = o \/ Picks(c.mounts, Append(o.mounts, NewMount(b, o.env)))
    BY <1>6
  <2>2. CASE c = o
    BY <1>2, <2>1, <2>2 DEF PathsDiffer
  <2>3. CASE Picks(c.mounts, Append(o.mounts, NewMount(b, o.env)))
    <3>. DEFINE m == NewMount(b, o.env)
                s == o.mounts
                w == Append(s, m)
                n == Len(s)
    <3>1. m \in Mount /\ m.dir = b.name /\ s \in Seq(Mount)
      BY <1>1, <2>1, NewMountType
    <3>2. \A x \in Range(s) : x.dir # b.name
      BY <1>1, <1>2, <2>1
    <3>3. \A g, h \in DOMAIN s : g # h =>
            <<s[g].root, s[g].dir>> # <<s[h].root, s[h].dir>>
      BY <1>2, <2>1 DEF PathsDiffer
    <3>4. PICK g \in DOMAIN w, h \in DOMAIN w :
            g # h /\ c.mounts[i] = w[g] /\ c.mounts[j] = w[h]
      BY <2>3 DEF Picks
    <3>. HIDE DEF m, s
    <3>5. /\ n \in Nat /\ DOMAIN s = 1..n
          /\ DOMAIN w = 1..(n + 1)
          /\ \A p \in 1..n : w[p] = s[p]
          /\ w[n + 1] = m
      BY <3>1, LenProperties, AppendProperties
    <3>6. \A p \in 1..n : w[p].dir # b.name
      BY <3>2, <3>5 DEF Range
    <3>. HIDE DEF w, n
    <3>7. /\ g \in 1..n \/ g = n + 1
          /\ h \in 1..n \/ h = n + 1
      BY <3>5
    <3>8. <<w[g].root, w[g].dir>> # <<w[h].root, w[h].dir>>
      <4>1. CASE g \in 1..n /\ h \in 1..n
        BY <3>3, <3>4, <3>5, <4>1
      <4>2. CASE g \in 1..n /\ h = n + 1
        BY <3>1, <3>5, <3>6, <4>2
      <4>3. CASE g = n + 1 /\ h \in 1..n
        BY <3>1, <3>5, <3>6, <4>3
      <4>. QED
        BY <3>4, <3>7, <4>1, <4>2, <4>3
    <3>. QED
      BY <3>4, <3>8
  <2>. QED
    BY <2>1, <2>2, <2>3
<1>. QED
  BY <1>8, <1>9 DEF d

\* The owner's changes leave the mounts alone.
LEMMA TogglePaths ==
  ASSUME NEW ps, PodOK(ps), MountsKnown(ps), PathsDiffer(ps),
         NEW z \in Extras
  PROVE  MountsKnown(Toggled(ps, z)) /\ PathsDiffer(Toggled(ps, z))
<1>. DEFINE t == Toggled(ps, z)
<1>1. ps \in WithPod /\ ps.containers # << >>
  BY DEF PodOK
<1>2. ListsToggled(ps, z, t)
  BY <1>1, ToggledIs
<1>. HIDE DEF t
<1>3. t.annotations = ps.annotations
  BY <1>2 DEF ListsToggled
<1>4. \A c \in Range(t.containers) : \E d \in Range(ps.containers) :
        c.mounts = d.mounts
  BY <1>2 DEF ListsToggled, Range
<1>5. MountsKnown(t)
  BY <1>3, <1>4 DEF MountsKnown
<1>6. PathsDiffer(t)
  <2>. SUFFICES ASSUME NEW c \in Range(t.containers)
                PROVE  \A i, j \in DOMAIN c.mounts :
                         i # j => <<c.mounts[i].root, c.mounts[i].dir>>
                                    # <<c.mounts[j].root, c.mounts[j].dir>>
    BY DEF PathsDiffer
  <2>1. PICK d \in Range(ps.containers) : c.mounts = d.mounts
    BY <1>4
  <2>. QED
    BY <2>1 DEF PathsDiffer
<1>. QED
  BY <1>5, <1>6 DEF t

\* What is added to the invariant for the paths.
PathInv ==
  /\ MountsKnown(pod) /\ PathsDiffer(pod)
  /\ MountsKnown(own) /\ PathsDiffer(own)

\* It holds in the beginning.
LEMMA PathInit ==
  ASSUME NamesApart
  PROVE  Init => PathInv
BY ManifestAssumption DEF NamesApart, Init, PathInv, MountsKnown

\* Every step keeps it.
LEMMA PathNext ==
  ASSUME NamesApart
  PROVE  Inv /\ Short /\ PathInv /\ [Next]_vars => PathInv'
<1>. SUFFICES ASSUME Inv, Short, PathInv, [Next]_vars
              PROVE  PathInv'
  OBVIOUS
<1>1. /\ TypeOK /\ PodOK(pod) /\ PodOK(own) /\ deleting \subseteq Live
      /\ MountsKnown(pod) /\ PathsDiffer(pod)
      /\ MountsKnown(own) /\ PathsDiffer(own)
  BY DEF Inv, PathInv, TypeOK
<1>2. ASSUME NEW k \in Keys, Bind(k)
      PROVE  PathInv'
  <2>1. k \in Live /\ pod' = Do(k, SpecOf(k), pod) /\ own' = own
    BY <1>2 DEF Bind, Pending
  <2>2. SpecOf(k) \in Specs[k] /\ Fits(k, SpecOf(k), pod)
    BY <1>1, <2>1, SpecOfType DEF Short
  <2>3. MountsKnown(pod') /\ PathsDiffer(pod')
    BY <1>1, <2>1, <2>2, DoPaths
  <2>. QED
    BY <1>1, <2>1, <2>3 DEF PathInv
<1>3. ASSUME NEW k \in Keys, Unbind(k)
      PROVE  PathInv'
  <2>1. k \in Live /\ pod' = Undo(k, SpecOf(k), pod) /\ own' = own
    BY <1>1, <1>3 DEF Unbind
  <2>2. SpecOf(k) \in ProjectionSpec
    BY <1>1, <2>1, SpecOfType
  <2>3. MountsKnown(pod') /\ PathsDiffer(pod')
    BY <1>1, <2>1, <2>2, UndoPaths
  <2>. QED
    BY <1>1, <2>1, <2>3 DEF PathInv
<1>4. ASSUME NEW k \in Keys, Project(k) \/ Delete(k)
      PROVE  PathInv'
  BY <1>1, <1>4 DEF Project, Delete, PathInv
<1>5. ASSUME EditWorkload
      PROVE  PathInv'
  BY <1>1, <1>5, TogglePaths DEF EditWorkload, PathInv
<1>6. ASSUME RecreateWorkload
      PROVE  PathInv'
  BY <1>1, <1>6 DEF RecreateWorkload, PathInv
<1>7. ASSUME UNCHANGED vars
      PROVE  PathInv'
  BY <1>1, <1>7 DEF vars, PathInv
<1>. QED
  BY <1>2, <1>3, <1>4, <1>5, <1>6, <1>7 DEF Next

\* While the lists that Do sorts fit in a block, a workload never has two
\* volumes of one name, or a mount of a volume that is not there: Undo removes
\* a volume with its mounts and Do adds one with its mounts, also when a
\* secret has moved from one projection to another.
THEOREM NamesResolveAlways == Spec /\ []Short => []NamesResolve(pod)
<1>1. Inv => NamesResolve(pod)
  BY PodNamesResolve DEF Inv
<1>. QED
  BY <1>1, InvAlways, PTL

\* If projections are mounted in directories of their own, and the lists that
\* Do sorts fit in a block, no container gets two mounts at one path, and the
\* pod template stays one that is accepted.
THEOREM WellFormedPodAlways ==
  ASSUME NamesApart
  PROVE  Spec /\ []Short => []WellFormedPod
<1>1. Init => PathInv
  BY PathInit
<1>2. Inv /\ Short /\ PathInv /\ [Next]_vars => PathInv'
  BY PathNext
<1>3. Inv /\ PathInv => WellFormedPod
  BY PodNamesResolve DEF Inv, PathInv, WellFormedPod
<1>. QED
  BY <1>1, <1>2, <1>3, InvAlways, PTL DEF Spec

-----------------------------------------------------------------------------
(* What the owner wrote *)

\* Taking away first some of what is taken away then.
LEMMA WithoutInside ==
  ASSUME NEW S, NEW s \in Seq(S), NEW A, NEW gone,
         \A x \in Range(s) : x \in A => x \in gone
  PROVE  Without(Without(s, A), gone) = Without(s, gone)
<1>1. Without(Without(s, A), gone) = Without(s, A \cup gone)
  BY WithoutTwice
<1>2. Without(s, A \cup gone) = Without(s, gone)
  <2>1. \A x \in Range(s) : x \in A \cup gone <=> x \in gone
    OBVIOUS
  <2>. QED
    BY <2>1, WithoutRange
<1>. QED
  BY <1>1, <1>2

\* Sorting some of what is taken away then.
LEMMA SortInside ==
  ASSUME NEW S, Named(S), NEW s \in Seq(S), NEW injected, NEW gone,
         \A x \in Range(s) : x \in injected => x \in gone
  PROVE  Without(InsertionSort(s, injected), gone) = Without(s, gone)
<1>. DEFINE both == injected \cap gone
<1>1. InsertionSort(s, injected) = InsertionSort(s, both)
  <2>1. \A x \in Range(s) : x \in injected <=> x \in both
    OBVIOUS
  <2>. QED
    BY <2>1, SortRange
<1>2. Without(InsertionSort(s, both), gone) = Without(s, gone)
  <2>1. both \subseteq gone
    OBVIOUS
  <2>. HIDE DEF both
  <2>. QED
    BY <2>1, SortWithout
<1>. QED
  BY <1>1, <1>2

\* Taking away a list that was appended and sorted in.
LEMMA SortedInGone ==
  ASSUME NEW S, Named(S), NEW s \in Seq(S), NEW t \in Seq(S), NEW injected,
         NEW gone, Range(t) \subseteq gone,
         \A x \in Range(s) : x \in injected => x \in gone
  PROVE  Without(InsertionSort(s \o t, injected), gone) = Without(s, gone)
<1>. DEFINE a == s \o t
<1>1. a \in Seq(S) /\ Range(a) = Range(s) \cup Range(t)
  BY ConcatRange
<1>2. Without(a, gone) = Without(s, gone)
  BY WithoutAppended
<1>. HIDE DEF a
<1>3. \A x \in Range(a) : x \in injected => x \in gone
  BY <1>1
<1>4. Without(InsertionSort(a, injected), gone) = Without(a, gone)
  BY <1>1, <1>3, SortInside
<1>. QED
  BY <1>2, <1>4 DEF a

\* A change of the owner's shows in what is left if it is not taken away.
LEMMA FlippedWithout ==
  ASSUME NEW S, NEW s \in Seq(S), NEW x \in S, NEW gone
  PROVE  Without(Flipped(s, x), gone)
           = IF x \in gone THEN Without(s, gone)
                           ELSE Flipped(Without(s, gone), x)
<1>. DEFINE r == Without(s, gone)
<1>1. r \in Seq(S) /\ Range(r) = Range(s) \ gone
  BY WithoutType
<1>2. CASE x \in Range(s)
  <2>1. Flipped(s, x) = Without(s, {x})
    BY <1>2 DEF Flipped
  <2>2. Without(Without(s, {x}), gone) = Without(s, {x} \cup gone)
    BY WithoutTwice
  <2>3. CASE x \in gone
    <3>1. {x} \cup gone = gone
      BY <2>3
    <3>. QED
      BY <2>1, <2>2, <2>3, <3>1
  <2>4. CASE x \notin gone
    <3>1. Without(r, {x}) = Without(s, gone \cup {x})
      BY WithoutTwice
    <3>2. {x} \cup gone = gone \cup {x}
      OBVIOUS
    <3>3. x \in Range(r)
      BY <1>1, <1>2, <2>4
    <3>4. Flipped(r, x) = Without(r, {x})
      BY <3>3 DEF Flipped
    <3>. QED
      BY <2>1, <2>2, <2>4, <3>1, <3>2, <3>4
  <2>. QED
    BY <2>3, <2>4
<1>3. CASE x \notin Range(s)
  <2>1. Flipped(s, x) = Append(s, x)
    BY <1>3 DEF Flipped
  <2>2. CASE x \in gone
    <3>1. Append(s, x) = s \o <<x>> /\ <<x>> \in Seq(S) /\ Range(<<x>>) = {x}
      BY AppendOne, OneRange
    <3>2. Range(<<x>>) \subseteq gone
      BY <2>2, <3>1
    <3>3. Without(s \o <<x>>, gone) = Without(s, gone)
      BY <3>1, <3>2, WithoutAppended
    <3>. QED
      BY <2>1, <2>2, <3>1, <3>3
  <2>3. CASE x \notin gone
    <3>1. Without(Append(s, x), gone) = Append(r, x)
      BY <2>3, WithoutAppend
    <3>2. x \notin Range(r)
      BY <1>1, <1>3
    <3>3. Flipped(r, x) = Append(r, x)
      BY <3>2 DEF Flipped
    <3>. QED
      BY <2>1, <2>3, <3>1, <3>3
  <2>. QED
    BY <2>2, <2>3
<1>. QED
  BY <1>2, <1>3

\* What Stripped takes away.
AnyVolume == VolumesOf(Secrets)
AnyMount == MountsNamed(Secrets)
AnyEnv ==
  {e \in EnvVar : \/ e.secret \in Secrets
                  \/ e.field # NoField
                  \/ e = DefaultRootEnv}

\* Workloads in which the owner's part is the same.
SameOwn(ps, qs) ==
  /\ Without(ps.volumes, AnyVolume) = Without(qs.volumes, AnyVolume)
  /\ DOMAIN ps.containers = DOMAIN qs.containers
  /\ \A i \in DOMAIN ps.containers :
       /\ Without(ps.containers[i].env, AnyEnv)
            = Without(qs.containers[i].env, AnyEnv)
       /\ Without(ps.containers[i].mounts, AnyMount)
            = Without(qs.containers[i].mounts, AnyMount)

\* Stripped takes away that.
LEMMA StrippedIs ==
  ASSUME NEW ps \in WithPod
  PROVE  Stripped(ps)
           = [volumes |-> Without(ps.volumes, AnyVolume),
              containers |->
                [i \in DOMAIN ps.containers |->
                   [env |-> Without(ps.containers[i].env, AnyEnv),
                    mounts |-> Without(ps.containers[i].mounts, AnyMount)]]]
<1>. DEFINE Injected(e) == e.secret \in Secrets \/ e.field # NoField
            V == {v \in Range(ps.volumes) : v.secret \in Secrets}
            E(i) == {e \in Range(ps.containers[i].env) :
                       Injected(e) \/ e = DefaultRootEnv}
            M(i) == {m \in Range(ps.containers[i].mounts) :
                       m.name \in Secrets}
<1>1. /\ ps.volumes \in Seq(Volume)
      /\ \A i \in DOMAIN ps.containers :
           /\ ps.containers[i].env \in Seq(EnvVar)
           /\ ps.containers[i].mounts \in Seq(Mount)
  BY PodParts
<1>2. Without(ps.volumes, V) = Without(ps.volumes, AnyVolume)
  <2>1. \A v \in Range(ps.volumes) : v \in V <=> v \in AnyVolume
    BY <1>1, RangeType DEF AnyVolume, VolumesOf
  <2>. QED
    BY <1>1, <2>1, WithoutRange
<1>3. ASSUME NEW i \in DOMAIN ps.containers
      PROVE  Without(ps.containers[i].env, E(i))
               = Without(ps.containers[i].env, AnyEnv)
  <2>. DEFINE env == ps.containers[i].env
  <2>1. env \in Seq(EnvVar)
    BY <1>1, <1>3
  <2>2. \A e \in Range(env) : e \in EnvVar
    BY <2>1, RangeType
  <2>3. \A e \in Range(env) : e \in E(i) <=> e \in AnyEnv
    BY <2>2 DEF AnyEnv
  <2>. HIDE DEF env
  <2>4. Without(env, E(i)) = Without(env, AnyEnv)
    BY <2>1, <2>3, WithoutRange
  <2>. QED
    BY <2>4 DEF env
<1>4. ASSUME NEW i \in DOMAIN ps.containers
      PROVE  Without(ps.containers[i].mounts, M(i))
               = Without(ps.containers[i].mounts, AnyMount)
  <2>. DEFINE mounts == ps.containers[i].mounts
  <2>1. mounts \in Seq(Mount)
    BY <1>1, <1>4
  <2>2. \A m \in Range(mounts) : m \in Mount
    BY <2>1, RangeType
  <2>3. \A m \in Range(mounts) : m \in M(i) <=> m \in AnyMount
    BY <2>2 DEF AnyMount, MountsNamed
  <2>. HIDE DEF mounts
  <2>4. Without(mounts, M(i)) = Without(mounts, AnyMount)
    BY <2>1, <2>3, WithoutRange
  <2>. QED
    BY <2>4 DEF mounts
<1>5. Stripped(ps)
        = [volumes |-> Without(ps.volumes, V),
           containers |->
             [i \in DOMAIN ps.containers |->
                [env |-> Without(ps.containers[i].env, E(i)),
                 mounts |-> Without(ps.containers[i].mounts, M(i))]]]
  BY DEF Stripped
<1>. HIDE DEF V, E, M
<1>. QED
  BY <1>2, <1>3, <1>4, <1>5, Zenon

\* If the owner's part is the same, Stripped is the same.
LEMMA SameOwnStripped ==
  ASSUME NEW ps \in WithPod, NEW qs \in WithPod, SameOwn(ps, qs)
  PROVE  Stripped(ps) = Stripped(qs)
<1>1. /\ Without(ps.volumes, AnyVolume) = Without(qs.volumes, AnyVolume)
      /\ DOMAIN ps.containers = DOMAIN qs.containers
      /\ \A i \in DOMAIN ps.containers :
           /\ Without(ps.containers[i].env, AnyEnv)
                = Without(qs.containers[i].env, AnyEnv)
           /\ Without(ps.containers[i].mounts, AnyMount)
                = Without(qs.containers[i].mounts, AnyMount)
  BY DEF SameOwn
<1>2. [i \in DOMAIN ps.containers |->
         [env |-> Without(ps.containers[i].env, AnyEnv),
          mounts |-> Without(ps.containers[i].mounts, AnyMount)]]
        = [i \in DOMAIN qs.containers |->
             [env |-> Without(qs.containers[i].env, AnyEnv),
              mounts |-> Without(qs.containers[i].mounts, AnyMount)]]
  BY <1>1, Zenon
<1>. QED
  BY <1>1, <1>2, StrippedIs, Zenon

\* The secrets that Undo looks for and the volumes that it removes are of
\* secrets that projections bind.
LEMMA UndoSecrets ==
  ASSUME NEW k \in Keys, NEW b \in ProjectionSpec, NEW ps, PodOK(ps)
  PROVE  /\ removeSecrets(k, b, ps) \subseteq Secrets
         /\ UndoNames(k, b, ps) \subseteq Secrets
<1>1. removeSecrets(k, b, ps) \subseteq Secrets
  <2>1. ps.annotations[k] \in Secrets \cup {NoSecret}
    BY PodParts DEF PodOK
  <2>. QED
    BY <2>1, SpecParts DEF removeSecrets
<1>2. UndoNames(k, b, ps) \subseteq Secrets
  BY <1>1 DEF UndoNames, NamesWith, PodOK, VolumesRecorded
<1>. QED
  BY <1>1, <1>2

\* Undo leaves the owner's part as it is.
LEMMA UndoOwn ==
  ASSUME NEW k \in Keys, NEW b \in ProjectionSpec, NEW ps, PodOK(ps)
  PROVE  SameOwn(Undo(k, b, ps), ps)
<1>. DEFINE secrets == removeSecrets(k, b, ps)
            names == UndoNames(k, b, ps)
            u == Undo(k, b, ps)
<1>1. ps \in WithPod
  BY DEF PodOK
<1>2. ListsUndone(secrets, names, ps, u)
  BY <1>1, UndoIs
<1>3. secrets \subseteq Secrets /\ names \subseteq Secrets
  BY UndoSecrets
<1>. HIDE DEF secrets, names, u
<1>4. /\ ps.volumes \in Seq(Volume)
      /\ \A i \in DOMAIN ps.containers :
           /\ ps.containers[i].env \in Seq(EnvVar)
           /\ ps.containers[i].mounts \in Seq(Mount)
  BY <1>1, PodParts
<1>5. /\ VolumesOf(secrets) \subseteq AnyVolume
      /\ MountsNamed(names) \subseteq AnyMount
      /\ EnvOf(secrets) \subseteq AnyEnv
  BY <1>3 DEF VolumesOf, AnyVolume, MountsNamed, AnyMount, EnvOf, AnyEnv,
              isInjectedEnv
<1>6. Without(u.volumes, AnyVolume) = Without(ps.volumes, AnyVolume)
  <2>1. Without(Without(ps.volumes, VolumesOf(secrets)), AnyVolume)
          = Without(ps.volumes, AnyVolume)
    BY <1>4, <1>5, WithoutInside
  <2>. QED
    BY <1>2, <2>1 DEF ListsUndone
<1>7. ASSUME NEW i \in DOMAIN ps.containers
      PROVE  /\ Without(u.containers[i].env, AnyEnv)
                  = Without(ps.containers[i].env, AnyEnv)
             /\ Without(u.containers[i].mounts, AnyMount)
                  = Without(ps.containers[i].mounts, AnyMount)
  <2>. DEFINE env == ps.containers[i].env
              mounts == ps.containers[i].mounts
  <2>1. env \in Seq(EnvVar) /\ mounts \in Seq(Mount)
    BY <1>4, <1>7
  <2>2. /\ u.containers[i].env = Without(env, EnvOf(secrets))
        /\ u.containers[i].mounts = Without(mounts, MountsNamed(names))
    BY <1>2, <1>7 DEF ListsUndone
  <2>. HIDE DEF env, mounts
  <2>3. Without(Without(env, EnvOf(secrets)), AnyEnv) = Without(env, AnyEnv)
    BY <1>5, <2>1, WithoutInside
  <2>4. Without(Without(mounts, MountsNamed(names)), AnyMount)
          = Without(mounts, AnyMount)
    BY <1>5, <2>1, WithoutInside
  <2>. QED
    BY <2>2, <2>3, <2>4 DEF env, mounts
<1>8. DOMAIN u.containers = DOMAIN ps.containers
  BY <1>2 DEF ListsUndone
<1>9. SameOwn(u, ps)
  BY <1>6, <1>7, <1>8 DEF SameOwn
<1>. QED
  BY <1>9 DEF u

\* The volumes and the secrets that Do takes for injected are of secrets that
\* projections bind.
LEMMA DoSecretsBound ==
  ASSUME NEW k \in Keys, NEW b \in ProjectionSpec, NEW ps, PodOK(ps)
  PROVE  /\ DoNames(k, b, ps) \subseteq Secrets
         /\ DoSecrets(k, b, ps) \subseteq Secrets
<1>. DEFINE u == Undo(k, b, ps)
<1>1. PodOK(u)
  BY UndoKeeps
<1>2. b.secret \in Secrets
  BY SpecParts
<1>. HIDE DEF u
<1>3. injectedSecrets(u) \subseteq Secrets
  <2>1. u.annotations \in [Keys -> Secrets \cup {NoSecret}]
    BY <1>1, PodParts DEF PodOK
  <2>. QED
    BY <2>1 DEF injectedSecrets
<1>4. injectedVolumes(u) \subseteq Secrets
  BY <1>1, <1>3 DEF injectedVolumes, PodOK, VolumesRecorded, Range
<1>. QED
  BY <1>2, <1>3, <1>4 DEF u, DoNames, DoSecrets

\* The environment that Do gives a container has the owner's part of it.
LEMMA BoundEnvOwn ==
  ASSUME NEW k \in Keys, NEW b \in ProjectionSpec, NEW env \in Seq(EnvVar),
         NEW secrets, secrets \subseteq Secrets
  PROVE  Without(BoundEnv(k, b, env, secrets), AnyEnv) = Without(env, AnyEnv)
<1>. DEFINE r == Rooted(env)
            n == NewEnv(k, b)
<1>1. DefaultRootEnv \in EnvVar /\ r \in Seq(EnvVar)
  BY RootType
<1>2. n \in Seq(EnvVar) /\ Range(n) \subseteq AnyEnv
  <2>1. b.secret \in Secrets
    BY SpecParts
  <2>2. NoField \notin TypeFields(k, b)
    BY TypeFieldsAre
  <2>. QED
    BY <2>1, <2>2, NewEnvType DEF AnyEnv
<1>3. Without(r, AnyEnv) = Without(env, AnyEnv)
  <2>. DEFINE x == DefaultRootEnv
  <2>1. x \in EnvVar /\ x \in AnyEnv
    BY <1>1 DEF AnyEnv
  <2>2. r = env \/ r = Append(env, x)
    BY DEF Rooted
  <2>. HIDE DEF x, r
  <2>3. /\ Append(env, x) = env \o <<x>>
        /\ <<x>> \in Seq(EnvVar)
        /\ Range(<<x>>) \subseteq AnyEnv
    BY <2>1, AppendOne, OneRange
  <2>4. Without(env \o <<x>>, AnyEnv) = Without(env, AnyEnv)
    BY <2>3, WithoutAppended
  <2>. QED
    BY <2>2, <2>3, <2>4
<1>4. EnvOf(secrets) \subseteq AnyEnv
  BY DEF EnvOf, AnyEnv, isInjectedEnv
<1>5. CASE b.env = << >>
  BY <1>3, <1>5 DEF BoundEnv, r
<1>6. CASE b.env # << >>
  <2>1. BoundEnv(k, b, env, secrets) = InsertionSort(r \o n, EnvOf(secrets))
    BY <1>6 DEF BoundEnv
  <2>. HIDE DEF r, n
  <2>2. Without(InsertionSort(r \o n, EnvOf(secrets)), AnyEnv)
          = Without(r, AnyEnv)
    BY <1>1, <1>2, <1>4, AllNamed, SortedInGone
  <2>. QED
    BY <1>3, <2>1, <2>2
<1>. QED
  BY <1>5, <1>6

\* Do leaves the owner's part as Undo has left it.
LEMMA DoOwn ==
  ASSUME NEW k \in Keys, NEW b \in ProjectionSpec, NEW ps, PodOK(ps),
         Fits(k, b, ps)
  PROVE  SameOwn(Do(k, b, ps), Undo(k, b, ps))
<1>. DEFINE secrets == DoSecrets(k, b, ps)
            names == DoNames(k, b, ps)
            u == Undo(k, b, ps)
            d == Do(k, b, ps)
            x == ProjectedVolume(k, b)
<1>1. u \in WithPod /\ VolumesRecorded(u)
  BY UndoKeeps DEF PodOK
<1>2. ListsDone(k, b, names, secrets, u, d)
  BY DoIs DEF PodOK
<1>3. secrets \subseteq Secrets /\ names \subseteq Secrets
  BY DoSecretsBound
<1>4. x \in Volume /\ x.secret = b.secret /\ b.secret \in Secrets
  BY NewVolumeType, SpecParts
<1>. HIDE DEF secrets, names, u, d, x
<1>5. /\ u.volumes \in Seq(Volume)
      /\ \A i \in DOMAIN u.containers :
           /\ u.containers[i].env \in Seq(EnvVar)
           /\ u.containers[i].mounts \in Seq(Mount)
  BY <1>1, PodParts
<1>6. Without(d.volumes, AnyVolume) = Without(u.volumes, AnyVolume)
  <2>1. \A v \in Range(u.volumes) : v \in VolumesNamed(names) => v \in AnyVolume
    BY <1>1, <1>3, NameIsSecret DEF VolumesNamed, AnyVolume, VolumesOf
  <2>2. /\ Append(u.volumes, x) = u.volumes \o <<x>>
        /\ <<x>> \in Seq(Volume)
    BY <1>4, <1>5, AppendOne
  <2>3. Range(<<x>>) \subseteq AnyVolume
    BY <1>4, OneRange DEF AnyVolume, VolumesOf
  <2>4. Without(InsertionSort(u.volumes \o <<x>>, VolumesNamed(names)),
                AnyVolume) = Without(u.volumes, AnyVolume)
    <3>. DEFINE s == u.volumes
                t == <<x>>
                injected == VolumesNamed(names)
    <3>1. /\ s \in Seq(Volume) /\ t \in Seq(Volume)
          /\ Range(t) \subseteq AnyVolume
          /\ \A v \in Range(s) : v \in injected => v \in AnyVolume
      BY <1>5, <2>1, <2>2, <2>3
    <3>. HIDE DEF s, t, injected
    <3>2. Without(InsertionSort(s \o t, injected), AnyVolume)
            = Without(s, AnyVolume)
      BY <3>1, AllNamed, SortedInGone
    <3>. QED
      BY <3>2 DEF s, t, injected
  <2>. QED
    BY <1>2, <2>2, <2>4 DEF ListsDone, x
<1>7. ASSUME NEW i \in DOMAIN u.containers
      PROVE  /\ Without(d.containers[i].env, AnyEnv)
                  = Without(u.containers[i].env, AnyEnv)
             /\ Without(d.containers[i].mounts, AnyMount)
                  = Without(u.containers[i].mounts, AnyMount)
  <2>. DEFINE env == u.containers[i].env
              mounts == u.containers[i].mounts
              m == NewMount(b, env)
  <2>1. env \in Seq(EnvVar) /\ mounts \in Seq(Mount)
    BY <1>5, <1>7
  <2>2. CASE ~isTargetContainer(b, u.containers[i])
    BY <1>2, <1>7, <2>2 DEF ListsDone
  <2>3. CASE isTargetContainer(b, u.containers[i])
    <3>1. /\ d.containers[i].mounts
               = InsertionSort(Append(mounts, m), MountsNamed(names))
          /\ d.containers[i].env = BoundEnv(k, b, env, secrets)
      BY <1>2, <1>7, <2>3 DEF ListsDone
    <3>. HIDE DEF env, mounts
    <3>2. m \in Mount /\ m.name = b.secret
      BY <2>1, NewMountType
    <3>. HIDE DEF m
    <3>3. /\ Append(mounts, m) = mounts \o <<m>>
          /\ <<m>> \in Seq(Mount)
      BY <2>1, <3>2, AppendOne
    <3>4. Range(<<m>>) \subseteq AnyMount
      BY <1>4, <3>2, OneRange DEF AnyMount, MountsNamed
    <3>5. MountsNamed(names) \subseteq AnyMount
      BY <1>3 DEF AnyMount, MountsNamed
    <3>6. Without(InsertionSort(mounts \o <<m>>, MountsNamed(names)), AnyMount)
            = Without(mounts, AnyMount)
      <4>. DEFINE t == <<m>>
                  injected == MountsNamed(names)
      <4>1. /\ t \in Seq(Mount)
            /\ Range(t) \subseteq AnyMount
            /\ \A n \in Range(mounts) : n \in injected => n \in AnyMount
        BY <3>3, <3>4, <3>5
      <4>. HIDE DEF t, injected
      <4>2. Without(InsertionSort(mounts \o t, injected), AnyMount)
              = Without(mounts, AnyMount)
        BY <2>1, <4>1, AllNamed, SortedInGone
      <4>. QED
        BY <4>2 DEF t, injected
    <3>7. Without(BoundEnv(k, b, env, secrets), AnyEnv) = Without(env, AnyEnv)
      BY <1>3, <2>1, BoundEnvOwn
    <3>. QED
      BY <3>1, <3>3, <3>6, <3>7 DEF env, mounts
  <2>. QED
    BY <2>2, <2>3
<1>8. DOMAIN d.containers = DOMAIN u.containers
  BY <1>2 DEF ListsDone
<1>9. SameOwn(d, u)
  BY <1>6, <1>7, <1>8 DEF SameOwn
<1>. QED
  BY <1>9 DEF u, d

\* The owner's change shows in the same way.
LEMMA ToggleOwn ==
  ASSUME NEW ps, PodOK(ps), NEW qs, PodOK(qs), SameOwn(ps, qs),
         NEW z \in Extras
  PROVE  SameOwn(Toggled(ps, z), Toggled(qs, z))
<1>. DEFINE t == Toggled(ps, z)
            w == Toggled(qs, z)
            x == z.volume
            y == z.env
<1>1. ListsToggled(ps, z, t) /\ ListsToggled(qs, z, w)
  BY ToggledIs DEF PodOK
<1>2. /\ ps.volumes \in Seq(Volume) /\ qs.volumes \in Seq(Volume)
      /\ \A i \in DOMAIN ps.containers : ps.containers[i].env \in Seq(EnvVar)
      /\ \A i \in DOMAIN qs.containers : qs.containers[i].env \in Seq(EnvVar)
  BY PodParts DEF PodOK
<1>3. x \in Volume /\ y \in EnvVar
  BY ExtraIs
<1>4. /\ t.volumes = Flipped(ps.volumes, x)
      /\ w.volumes = Flipped(qs.volumes, x)
      /\ DOMAIN t.containers = DOMAIN ps.containers
      /\ DOMAIN w.containers = DOMAIN qs.containers
      /\ \A i \in DOMAIN ps.containers :
           /\ t.containers[i].mounts = ps.containers[i].mounts
           /\ t.containers[i].env = IF i = 1
                                    THEN Flipped(ps.containers[i].env, y)
                                    ELSE ps.containers[i].env
      /\ \A i \in DOMAIN qs.containers :
           /\ w.containers[i].mounts = qs.containers[i].mounts
           /\ w.containers[i].env = IF i = 1
                                    THEN Flipped(qs.containers[i].env, y)
                                    ELSE qs.containers[i].env
  BY <1>1 DEF ListsToggled
<1>. HIDE DEF t, w, x, y
<1>5. /\ Without(ps.volumes, AnyVolume) = Without(qs.volumes, AnyVolume)
      /\ DOMAIN ps.containers = DOMAIN qs.containers
      /\ \A i \in DOMAIN ps.containers :
           /\ Without(ps.containers[i].env, AnyEnv)
                = Without(qs.containers[i].env, AnyEnv)
           /\ Without(ps.containers[i].mounts, AnyMount)
                = Without(qs.containers[i].mounts, AnyMount)
  BY DEF SameOwn
<1>6. Without(t.volumes, AnyVolume) = Without(w.volumes, AnyVolume)
  <2>1. Without(Flipped(ps.volumes, x), AnyVolume)
          = IF x \in AnyVolume THEN Without(ps.volumes, AnyVolume)
                               ELSE Flipped(Without(ps.volumes, AnyVolume), x)
    BY <1>2, <1>3, FlippedWithout
  <2>2. Without(Flipped(qs.volumes, x), AnyVolume)
          = IF x \in AnyVolume THEN Without(qs.volumes, AnyVolume)
                               ELSE Flipped(Without(qs.volumes, AnyVolume), x)
    BY <1>2, <1>3, FlippedWithout
  <2>. QED
    BY <1>4, <1>5, <2>1, <2>2
<1>7. ASSUME NEW i \in DOMAIN ps.containers
      PROVE  Without(t.containers[i].env, AnyEnv)
               = Without(w.containers[i].env, AnyEnv)
  <2>. DEFINE e == ps.containers[i].env
              f == qs.containers[i].env
  <2>1. /\ e \in Seq(EnvVar) /\ f \in Seq(EnvVar)
        /\ Without(e, AnyEnv) = Without(f, AnyEnv)
        /\ t.containers[i].env = IF i = 1 THEN Flipped(e, y) ELSE e
        /\ w.containers[i].env = IF i = 1 THEN Flipped(f, y) ELSE f
    BY <1>2, <1>4, <1>5, <1>7
  <2>. HIDE DEF e, f
  <2>2. Without(Flipped(e, y), AnyEnv)
          = IF y \in AnyEnv THEN Without(e, AnyEnv)
                            ELSE Flipped(Without(e, AnyEnv), y)
    BY <1>3, <2>1, FlippedWithout
  <2>3. Without(Flipped(f, y), AnyEnv)
          = IF y \in AnyEnv THEN Without(f, AnyEnv)
                            ELSE Flipped(Without(f, AnyEnv), y)
    BY <1>3, <2>1, FlippedWithout
  <2>. QED
    BY <2>1, <2>2, <2>3
<1>8. SameOwn(t, w)
  BY <1>4, <1>5, <1>6, <1>7 DEF SameOwn
<1>. QED
  BY <1>8 DEF t, w

\* The owner's part is the same in the workload and in what he wrote.
OwnInv == SameOwn(pod, own)

\* Every step keeps it so.
LEMMA OwnNext == Inv /\ Short /\ OwnInv /\ [Next]_vars => OwnInv'
<1>. SUFFICES ASSUME Inv, Short, OwnInv, [Next]_vars
              PROVE  OwnInv'
  OBVIOUS
<1>1. /\ TypeOK /\ PodOK(pod) /\ PodOK(own) /\ deleting \subseteq Live
      /\ SameOwn(pod, own)
  BY DEF Inv, OwnInv, TypeOK
<1>2. ASSUME NEW qs, NEW ps, SameOwn(qs, ps), SameOwn(ps, own)
      PROVE  SameOwn(qs, own)
  BY <1>2 DEF SameOwn
<1>3. ASSUME NEW k \in Keys, Bind(k)
      PROVE  OwnInv'
  <2>1. k \in Live /\ pod' = Do(k, SpecOf(k), pod) /\ own' = own
    BY <1>3 DEF Bind, Pending
  <2>2. SpecOf(k) \in ProjectionSpec /\ Fits(k, SpecOf(k), pod)
    BY <1>1, <2>1, SpecOfType DEF Short
  <2>3. SameOwn(Undo(k, SpecOf(k), pod), pod)
    BY <1>1, <2>2, UndoOwn
  <2>4. SameOwn(Do(k, SpecOf(k), pod), Undo(k, SpecOf(k), pod))
    BY <1>1, <2>2, DoOwn
  <2>5. SameOwn(Undo(k, SpecOf(k), pod), own)
    BY <1>1, <1>2, <2>3
  <2>6. SameOwn(Do(k, SpecOf(k), pod), own)
    BY <1>2, <2>4, <2>5
  <2>. QED
    BY <2>1, <2>6 DEF OwnInv
<1>4. ASSUME NEW k \in Keys, Unbind(k)
      PROVE  OwnInv'
  <2>1. k \in Live /\ pod' = Undo(k, SpecOf(k), pod) /\ own' = own
    BY <1>1, <1>4 DEF Unbind
  <2>2. SpecOf(k) \in ProjectionSpec
    BY <1>1, <2>1, SpecOfType
  <2>3. SameOwn(Undo(k, SpecOf(k), pod), pod)
    BY <1>1, <2>2, UndoOwn
  <2>4. SameOwn(Undo(k, SpecOf(k), pod), own)
    BY <1>1, <1>2, <2>3
  <2>. QED
    BY <2>1, <2>4 DEF OwnInv
<1>5. ASSUME NEW k \in Keys, Project(k) \/ Delete(k)
      PROVE  OwnInv'
  BY <1>1, <1>5 DEF Project, Delete, OwnInv
<1>6. ASSUME EditWorkload
      PROVE  OwnInv'
  BY <1>1, <1>6, ToggleOwn DEF EditWorkload, OwnInv
<1>7. ASSUME RecreateWorkload
      PROVE  OwnInv'
  BY <1>1, <1>7 DEF RecreateWorkload, OwnInv, SameOwn
<1>8. ASSUME UNCHANGED vars
      PROVE  OwnInv'
  BY <1>1, <1>8 DEF vars, OwnInv
<1>. QED
  BY <1>3, <1>4, <1>5, <1>6, <1>7, <1>8 DEF Next

\* While the lists that Do sorts fit in a block, what the owner wrote stays in
\* the workload, in its order, however often projections are bound, changed
\* and unbound, and nothing that Do has added is left between it but
\* SERVICE_BINDING_ROOT.  With longer lists the order is lost (LongEnv.cfg).
THEOREM UserContentKeptAlways == Spec /\ []Short => []UserContentKept
<1>1. Init => OwnInv
  BY DEF Init, OwnInv, SameOwn
<1>2. Inv /\ OwnInv => UserContentKept
  BY SameOwnStripped DEF Inv, PodOK, OwnInv, UserContentKept
<1>. QED
  BY <1>1, <1>2, OwnNext, InvAlways, PTL DEF Spec

-----------------------------------------------------------------------------
(* Undo after Do *)

\* SameElements, with Count.
LEMMA SameElementsIs ==
  ASSUME NEW s, NEW t, Range(s) = Range(t),
         \A x \in Range(s) : Count(s, x) = Count(t, x)
  PROVE  SameElements(s, t)
BY DEF SameElements, Count

\* A list has its own elements.
LEMMA SameElementsItself ==
  ASSUME NEW s
  PROVE  SameElements(s, s)
BY SameElementsIs

\* What was appended and sorted in can be taken out: the others are there as
\* before.
LEMMA SortedInAndOut ==
  ASSUME NEW S, Named(S), NEW s \in Seq(S), NEW t \in Seq(S), NEW injected,
         NEW gone, Range(t) \subseteq gone
  PROVE  SameElements(Without(InsertionSort(s \o t, injected), gone),
                      Without(s, gone))
<1>. DEFINE a == s \o t
            d == InsertionSort(a, injected)
            r == Without(d, gone)
            w == Without(s, gone)
<1>1. a \in Seq(S) /\ Range(a) = Range(s) \cup Range(t)
  BY ConcatRange
<1>2. \A x : x \notin Range(t) => Count(a, x) = Count(s, x)
  BY CountAppended
<1>. HIDE DEF a
<1>3. d \in Seq(S) /\ Range(d) = Range(a)
  BY <1>1, SortType
<1>4. \A x : Count(d, x) = Count(a, x)
  BY <1>1, CountSort
<1>. HIDE DEF d
<1>5. Range(r) = Range(d) \ gone /\ Range(w) = Range(s) \ gone
  BY <1>3, WithoutType
<1>6. \A x : x \notin gone => /\ Count(r, x) = Count(d, x)
                              /\ Count(w, x) = Count(s, x)
  BY <1>3, CountWithout
<1>. HIDE DEF r, w
<1>7. Range(r) = Range(w)
  BY <1>1, <1>3, <1>5
<1>8. \A x \in Range(r) : Count(r, x) = Count(w, x)
  BY <1>2, <1>4, <1>5, <1>6
<1>9. SameElements(r, w)
  BY <1>7, <1>8, SameElementsIs
<1>. QED
  BY <1>9 DEF r, w, d, a

\* The variables called SERVICE_BINDING_ROOT.
RootEnvs == {e \in EnvVar : e.name = RootEnv}
Unrooting(env) == Without(env, RootEnvs)

\* They are what UndoReverts leaves out.
LEMMA UnrootingIs ==
  ASSUME NEW env \in Seq(EnvVar)
  PROVE  Without(env, {e \in Range(env) : e.name = RootEnv}) = Unrooting(env)
<1>. DEFINE A == {e \in Range(env) : e.name = RootEnv}
<1>1. \A e \in Range(env) : e \in A <=> e \in RootEnvs
  BY RangeType DEF RootEnvs
<1>. HIDE DEF A
<1>2. Without(env, A) = Without(env, RootEnvs)
  BY <1>1, WithoutRange
<1>. QED
  BY <1>2 DEF A, Unrooting

\* The variables that Do adds, and the root, can be taken out.
LEMMA BoundEnvOut ==
  ASSUME NEW k \in Keys, NEW b \in ProjectionSpec, NEW env \in Seq(EnvVar),
         NEW secrets,
         \A e \in Range(env) : e.secret # b.secret /\ e.field = NoField
  PROVE  SameElements(
           Unrooting(Without(BoundEnv(k, b, env, secrets), EnvOf({b.secret}))),
           Unrooting(env))
<1>. DEFINE r == Rooted(env)
            n == NewEnv(k, b)
            d == BoundEnv(k, b, env, secrets)
            out == EnvOf({b.secret})
            gone == out \cup RootEnvs
<1>1. DefaultRootEnv \in EnvVar /\ r \in Seq(EnvVar) /\ d \in Seq(EnvVar)
  BY RootType, BoundEnvType
<1>2. n \in Seq(EnvVar) /\ Range(n) \subseteq gone
  <2>1. NoField \notin TypeFields(k, b)
    BY TypeFieldsAre
  <2>2. n \in Seq(EnvVar) /\ Range(n) \subseteq out
    BY <2>1, NewEnvType DEF EnvOf, isInjectedEnv
  <2>. QED
    BY <2>2
<1>3. Without(r, gone) = Without(env, gone)
  <2>. DEFINE x == DefaultRootEnv
  <2>1. x.name = RootEnv
    BY DEF DefaultRootEnv
  <2>2. x \in EnvVar /\ x \in gone
    BY <1>1, <2>1 DEF RootEnvs
  <2>3. r = env \/ r = Append(env, x)
    BY DEF Rooted
  <2>. HIDE DEF x, r, gone
  <2>4. /\ Append(env, x) = env \o <<x>>
        /\ <<x>> \in Seq(EnvVar)
        /\ Range(<<x>>) \subseteq gone
    BY <2>2, AppendOne, OneRange
  <2>5. Without(env \o <<x>>, gone) = Without(env, gone)
    BY <2>4, WithoutAppended
  <2>. QED
    BY <2>3, <2>4, <2>5
<1>4. Without(env, gone) = Unrooting(env)
  <2>1. \A e \in Range(env) : e \in gone <=> e \in RootEnvs
    BY DEF EnvOf, isInjectedEnv
  <2>. HIDE DEF gone
  <2>2. Without(env, gone) = Without(env, RootEnvs)
    BY <2>1, WithoutRange
  <2>. QED
    BY <2>2 DEF Unrooting
<1>5. Unrooting(Without(d, out)) = Without(d, gone)
  <2>. HIDE DEF d, out
  <2>1. Without(Without(d, out), RootEnvs) = Without(d, out \cup RootEnvs)
    BY <1>1, WithoutTwice
  <2>. QED
    BY <2>1 DEF Unrooting
<1>6. SameElements(Without(d, gone), Without(r, gone))
  <2>1. CASE b.env = << >>
    <3>1. d = r
      BY <2>1 DEF BoundEnv
    <3>. QED
      BY <3>1, SameElementsItself
  <2>2. CASE b.env # << >>
    <3>1. d = InsertionSort(r \o n, EnvOf(secrets))
      BY <2>2 DEF BoundEnv
    <3>. HIDE DEF d, r, n, gone
    <3>2. SameElements(Without(InsertionSort(r \o n, EnvOf(secrets)), gone),
                       Without(r, gone))
      BY <1>1, <1>2, AllNamed, SortedInAndOut
    <3>. QED
      BY <3>1, <3>2
  <2>. QED
    BY <2>1, <2>2
<1>7. SameElements(Unrooting(Without(d, out)), Unrooting(env))
  BY <1>3, <1>4, <1>5, <1>6
<1>. QED
  BY <1>7 DEF d, out

\* What Undo looks for after Do: the projection's own secret and volume.
LEMMA UndoAfterDo ==
  ASSUME NEW k \in Keys, NEW b \in ProjectionSpec, NEW ps, PodOK(ps),
         Fits(k, b, ps)
  PROVE  /\ removeSecrets(k, b, Do(k, b, ps)) = {b.secret}
         /\ UndoNames(k, b, Do(k, b, ps)) = {b.secret}
<1>. DEFINE u == Undo(k, b, ps)
            d == Do(k, b, ps)
            x == ProjectedVolume(k, b)
<1>1. /\ MarksDone(k, b, u, d)
      /\ ElementsDone(k, b, u, d)
      /\ CleanOf(k, b, u)
  BY DoIs, DoElements, UndoKeeps DEF PodOK
<1>2. b.secret # NoSecret /\ x.name = b.secret /\ x.secret = b.secret
  BY SpecParts, NewVolumeType
<1>. HIDE DEF u, d
<1>3. removeSecrets(k, b, d) = {b.secret}
  BY <1>1, <1>2 DEF MarksDone, removeSecrets
<1>4. Range(d.volumes) = Range(u.volumes) \cup {x}
  BY <1>1 DEF ElementsDone
<1>5. \A v \in Range(u.volumes) : v.secret # b.secret
  BY <1>1 DEF CleanOf
<1>. HIDE DEF x
<1>6. {w \in Range(d.volumes) : w.secret \in {b.secret}} = {x}
  BY <1>2, <1>4, <1>5
<1>7. UndoNames(k, b, d) = {b.secret}
  BY <1>2, <1>3, <1>6 DEF UndoNames, NamesWith
<1>. QED
  BY <1>3, <1>7 DEF d

\* Functions with the same values are the same.
LEMMA SameFunction ==
  ASSUME NEW D, NEW T, NEW p \in [D -> T], NEW q \in [D -> T],
         \A x \in D : p[x] = q[x]
  PROVE  p = q
OBVIOUS

\* Pod templates r and u that differ as UndoReverts allows.
Reverted(r, u) ==
  /\ r.annotations = u.annotations
  /\ r.template = u.template
  /\ SameElements(r.volumes, u.volumes)
  /\ DOMAIN r.containers = DOMAIN u.containers
  /\ \A i \in DOMAIN u.containers :
       /\ r.containers[i].name = u.containers[i].name
       /\ SameElements(r.containers[i].mounts, u.containers[i].mounts)
       /\ SameElements(Unrooting(r.containers[i].env),
                       Unrooting(u.containers[i].env))

\* Undo takes back what Do has done.
LEMMA UndoDo ==
  ASSUME NEW k \in Keys, NEW b \in ProjectionSpec, NEW ps, PodOK(ps),
         Fits(k, b, ps)
  PROVE  Reverted(Undo(k, b, Do(k, b, ps)), Undo(k, b, ps))
<1>. DEFINE u == Undo(k, b, ps)
            d == Do(k, b, ps)
            r == Undo(k, b, d)
            s == {b.secret}
            x == ProjectedVolume(k, b)
            names == DoNames(k, b, ps)
            secrets == DoSecrets(k, b, ps)
<1>1. /\ ps \in WithPod /\ u \in WithPod /\ d \in WithPod /\ r \in WithPod
      /\ CleanOf(k, b, u)
  BY UndoKeeps, DoKeeps DEF PodOK
<1>2. MarksDone(k, b, u, d) /\ ListsDone(k, b, names, secrets, u, d)
  BY <1>1, DoIs
<1>3. MarksUndone(k, d, r) /\ ListsUndone(s, s, d, r)
  <2>1. /\ MarksUndone(k, d, r)
        /\ ListsUndone(removeSecrets(k, b, d), UndoNames(k, b, d), d, r)
    BY <1>1, UndoIs
  <2>. QED
    BY <2>1, UndoAfterDo
<1>4. x \in Volume /\ x.secret = b.secret
  BY NewVolumeType
<1>. HIDE DEF u, d, r, x, names, secrets
<1>5. /\ u.volumes \in Seq(Volume)
      /\ \A i \in DOMAIN u.containers :
           /\ u.containers[i] \in Range(u.containers)
           /\ u.containers[i].env \in Seq(EnvVar)
           /\ u.containers[i].mounts \in Seq(Mount)
  <2>1. u.containers \in Seq(Container)
    BY <1>1, PodParts
  <2>2. \A i \in DOMAIN u.containers : u.containers[i] \in Range(u.containers)
    BY <2>1, RangeType
  <2>. QED
    BY <1>1, <2>2, PodParts
<1>6. r.annotations = u.annotations
  <2>. DEFINE p == r.annotations
              q == u.annotations
  <2>1. /\ p \in [Keys -> Secrets \cup {NoSecret}]
        /\ q \in [Keys -> Secrets \cup {NoSecret}]
    BY <1>1, PodParts
  <2>2. \A j \in Keys : p[j] = q[j]
    BY <1>1, <1>2, <1>3 DEF MarksDone, MarksUndone, CleanOf
  <2>. HIDE DEF p, q
  <2>3. p = q
    BY <2>1, <2>2
  <2>. QED
    BY <2>3 DEF p, q
<1>7. r.template = u.template
  <2>. DEFINE p == r.template
              q == u.template
              T == Texts \cup {""}
  <2>1. p \in [Field -> T] /\ q \in [Field -> T]
    BY <1>1, PodParts
  <2>2. ASSUME NEW f \in Field
        PROVE  p[f] = q[f]
    <3>1. CASE f[1] = k
      BY <1>1, <1>3, <2>2, <3>1 DEF MarksUndone, CleanOf
    <3>2. CASE f[1] # k
      <4>1. f \notin TypeFields(k, b)
        BY <3>2, TypeFieldsAre
      <4>. QED
        BY <1>2, <1>3, <2>2, <3>2, <4>1 DEF MarksUndone, MarksDone
    <3>. QED
      BY <3>1, <3>2
  <2>. HIDE DEF p, q, T
  <2>3. p = q
    BY <2>1, <2>2, SameFunction
  <2>. QED
    BY <2>3 DEF p, q
<1>8. SameElements(r.volumes, u.volumes)
  <2>. DEFINE v == u.volumes
              t == <<x>>
              injected == VolumesNamed(names)
              gone == VolumesOf(s)
  <2>1. v \in Seq(Volume) /\ t \in Seq(Volume) /\ Append(v, x) = v \o t
    BY <1>4, <1>5, AppendOne
  <2>2. Range(t) \subseteq gone
    BY <1>4, OneRange DEF VolumesOf
  <2>3. \A y \in Range(v) : y \notin gone
    BY <1>1 DEF CleanOf, VolumesOf
  <2>4. r.volumes = Without(d.volumes, gone)
    BY <1>3 DEF ListsUndone
  <2>5. d.volumes = InsertionSort(Append(v, x), injected)
    BY <1>2 DEF ListsDone, x
  <2>. HIDE DEF v, t, injected, gone
  <2>6. SameElements(Without(InsertionSort(v \o t, injected), gone),
                     Without(v, gone))
    BY <2>1, <2>2, AllNamed, SortedInAndOut
  <2>7. Without(v, gone) = v
    BY <2>1, <2>3, WithoutNothing
  <2>. QED
    BY <2>1, <2>4, <2>5, <2>6, <2>7 DEF v
<1>9. DOMAIN r.containers = DOMAIN u.containers
  BY <1>2, <1>3 DEF ListsUndone, ListsDone
<1>10. ASSUME NEW i \in DOMAIN u.containers
       PROVE  /\ r.containers[i].name = u.containers[i].name
              /\ SameElements(r.containers[i].mounts, u.containers[i].mounts)
              /\ SameElements(Unrooting(r.containers[i].env),
                              Unrooting(u.containers[i].env))
  <2>. DEFINE c == u.containers[i]
              e == d.containers[i]
              o == r.containers[i]
              env == c.env
              mounts == c.mounts
  <2>1. /\ env \in Seq(EnvVar) /\ mounts \in Seq(Mount)
        /\ \A m \in Range(mounts) : m.name # b.secret
        /\ \A y \in Range(env) : y.secret # b.secret /\ y.field = NoField
    BY <1>1, <1>5, <1>10 DEF CleanOf
  <2>2. /\ o.name = e.name
        /\ o.mounts = Without(e.mounts, MountsNamed(s))
        /\ o.env = Without(e.env, EnvOf(s))
    BY <1>2, <1>3, <1>10 DEF ListsUndone, ListsDone
  <2>3. /\ e.name = c.name
        /\ ~isTargetContainer(b, c) => e = c
        /\ isTargetContainer(b, c) =>
             /\ e.mounts = InsertionSort(Append(mounts, NewMount(b, env)),
                                        MountsNamed(names))
             /\ e.env = BoundEnv(k, b, env, secrets)
    BY <1>2, <1>10 DEF ListsDone
  <2>4. CASE ~isTargetContainer(b, c)
    <3>1. e.env = env /\ e.mounts = mounts
      BY <2>3, <2>4
    <3>. HIDE DEF env, mounts
    <3>2. Without(mounts, MountsNamed(s)) = mounts
      <4>1. \A m \in Range(mounts) : m \notin MountsNamed(s)
        BY <2>1 DEF MountsNamed
      <4>. QED
        BY <2>1, <4>1, WithoutNothing
    <3>3. Without(env, EnvOf(s)) = env
      <4>1. \A y \in Range(env) : y \notin EnvOf(s)
        BY <2>1 DEF EnvOf, isInjectedEnv
      <4>. QED
        BY <2>1, <4>1, WithoutNothing
    <3>4. o.mounts = mounts /\ o.env = env
      BY <2>2, <3>1, <3>2, <3>3
    <3>5. /\ SameElements(mounts, mounts)
          /\ SameElements(Unrooting(env), Unrooting(env))
      BY SameElementsItself
    <3>. QED
      BY <2>2, <2>3, <3>4, <3>5 DEF env, mounts
  <2>5. CASE isTargetContainer(b, c)
    <3>. DEFINE m == NewMount(b, env)
                t == <<m>>
                injected == MountsNamed(names)
                gone == MountsNamed(s)
    <3>1. /\ e.mounts = InsertionSort(Append(mounts, m), injected)
          /\ e.env = BoundEnv(k, b, env, secrets)
      BY <2>3, <2>5
    <3>2. SameElements(Unrooting(Without(BoundEnv(k, b, env, secrets),
                                         EnvOf(s))), Unrooting(env))
      <4>. HIDE DEF env
      <4>. QED
        BY <2>1, BoundEnvOut
    <3>3. m \in Mount /\ m.name = b.secret
      BY <2>1, NewMountType
    <3>. HIDE DEF m, env, mounts
    <3>4. t \in Seq(Mount) /\ Append(mounts, m) = mounts \o t
      BY <2>1, <3>3, AppendOne
    <3>5. Range(t) \subseteq gone
      BY <3>3, OneRange DEF MountsNamed
    <3>6. \A y \in Range(mounts) : y \notin gone
      BY <2>1 DEF MountsNamed
    <3>7. o.mounts = Without(e.mounts, gone)
      BY <2>2
    <3>. HIDE DEF t, injected, gone
    <3>8. SameElements(Without(InsertionSort(mounts \o t, injected), gone),
                       Without(mounts, gone))
      BY <2>1, <3>4, <3>5, AllNamed, SortedInAndOut
    <3>9. Without(mounts, gone) = mounts
      BY <2>1, <3>6, WithoutNothing
    <3>10. SameElements(o.mounts, mounts)
      BY <3>1, <3>4, <3>7, <3>8, <3>9
    <3>11. SameElements(Unrooting(o.env), Unrooting(env))
      BY <2>2, <3>1, <3>2
    <3>. QED
      BY <2>2, <2>3, <3>10, <3>11 DEF env, mounts
  <2>. QED
    BY <2>4, <2>5
<1>11. Reverted(r, u)
  BY <1>6, <1>7, <1>8, <1>9, <1>10 DEF Reverted
<1>. QED
  BY <1>11 DEF r, d, u

\* While the lists that Do sorts fit in a block, Undo after Do leaves what
\* Undo alone leaves, in every state: nothing that Do adds, under whichever
\* spec and beside whichever other projections, is missed by Undo, and Undo
\* takes nothing else.
THEOREM UndoRevertsAlways == Spec /\ []Short => []UndoReverts
<1>1. ASSUME Inv, Short
      PROVE  UndoReverts
  <2>. DEFINE Unrooted(env) ==
                Without(env, {e \in Range(env) : e.name = RootEnv})
  <2>1. ASSUME NEW k \in Live
        PROVE  LET undone == Undo(k, SpecOf(k), pod)
                   reverted == Undo(k, SpecOf(k), Do(k, SpecOf(k), pod))
               IN  /\ reverted.annotations = undone.annotations
                   /\ reverted.template = undone.template
                   /\ SameElements(reverted.volumes, undone.volumes)
                   /\ DOMAIN reverted.containers = DOMAIN undone.containers
                   /\ \A i \in DOMAIN undone.containers :
                        LET c == reverted.containers[i]
                            d == undone.containers[i]
                        IN  /\ c.name = d.name
                            /\ SameElements(c.mounts, d.mounts)
                            /\ SameElements(Unrooted(c.env), Unrooted(d.env))
    <3>. DEFINE u == Undo(k, SpecOf(k), pod)
                r == Undo(k, SpecOf(k), Do(k, SpecOf(k), pod))
    <3>1. /\ k \in Keys /\ SpecOf(k) \in ProjectionSpec /\ PodOK(pod)
          /\ Fits(k, SpecOf(k), pod)
      BY <1>1, <2>1, SpecOfType DEF Inv, Short
    <3>2. Reverted(r, u)
      BY <3>1, UndoDo
    <3>3. u \in WithPod /\ r \in WithPod
      BY <3>1, UndoKeeps, DoKeeps DEF PodOK
    <3>. HIDE DEF u, r
    <3>4. /\ \A i \in DOMAIN u.containers : u.containers[i].env \in Seq(EnvVar)
          /\ \A i \in DOMAIN r.containers : r.containers[i].env \in Seq(EnvVar)
      BY <3>3, PodParts
    <3>5. \A i \in DOMAIN u.containers :
            Unrooted(u.containers[i].env) = Unrooting(u.containers[i].env)
      BY <3>4, UnrootingIs
    <3>6. \A i \in DOMAIN r.containers :
            Unrooted(r.containers[i].env) = Unrooting(r.containers[i].env)
      BY <3>4, UnrootingIs
    <3>. HIDE DEF Unrooted
    <3>7. /\ r.annotations = u.annotations
          /\ r.template = u.template
          /\ SameElements(r.volumes, u.volumes)
          /\ DOMAIN r.containers = DOMAIN u.containers
          /\ \A i \in DOMAIN u.containers :
               /\ r.containers[i].name = u.containers[i].name
               /\ SameElements(r.containers[i].mounts,
                               u.containers[i].mounts)
               /\ SameElements(Unrooted(r.containers[i].env),
                               Unrooted(u.containers[i].env))
      BY <3>2, <3>5, <3>6 DEF Reverted
    <3>. QED
      BY <3>7 DEF r, u
  <2>. QED
    BY <2>1 DEF UndoReverts
<1>. QED
  BY <1>1, InvAlways, PTL

-----------------------------------------------------------------------------
(* Do after Do *)

\* Containers with the same parts are the same.
LEMMA SameContainer ==
  ASSUME NEW c \in Container, NEW d \in Container,
         c.name = d.name, c.env = d.env, c.mounts = d.mounts
  PROVE  c = d
BY DEF Container

\* Pod templates with the same parts are the same.
LEMMA SamePod ==
  ASSUME NEW p \in WithPod, NEW q \in WithPod,
         p.annotations = q.annotations, p.template = q.template,
         p.volumes = q.volumes, p.containers = q.containers
  PROVE  p = q
<1>. DEFINE A == [Keys -> Secrets \cup {NoSecret}]
            T == [Field -> Texts \cup {""}]
            V == Seq(Volume)
            C == Seq(Container)
<1>1. WithPod = [annotations : A, template : T, volumes : V, containers : C]
  BY DEF WithPod
<1>. HIDE DEF A, T, V, C
<1>. QED
  BY <1>1

\* Lists with the same elements at the same places are the same.
LEMMA SameList ==
  ASSUME NEW S, NEW s \in Seq(S), NEW t \in Seq(S), DOMAIN s = DOMAIN t,
         \A i \in DOMAIN s : s[i] = t[i]
  PROVE  s = t
<1>1. /\ DOMAIN s = 1..Len(s) /\ s \in [1..Len(s) -> S]
      /\ DOMAIN t = 1..Len(t) /\ t \in [1..Len(t) -> S]
  BY LenProperties
<1>2. s \in [DOMAIN s -> S] /\ t \in [DOMAIN s -> S]
  BY <1>1
<1>. QED
  BY <1>2, SameFunction

\* The variables called SERVICE_BINDING_ROOT that are in env, and the others.
OtherEnvs == {e \in EnvVar : e.name # RootEnv}
RootsIn(env) == Without(env, OtherEnvs)

\* MountPath takes the first of them.
LEMMA MountPathIs ==
  ASSUME NEW env \in Seq(EnvVar)
  PROVE  /\ RootsIn(env) \in Seq(EnvVar)
         /\ Range(RootsIn(env)) = {e \in Range(env) : e.name = RootEnv}
         /\ MountPath(env)
              = IF RootsIn(env) = << >> THEN "" ELSE Head(RootsIn(env)).value
<1>. DEFINE A == {e \in Range(env) : e.name # RootEnv}
<1>1. \A e \in Range(env) : e \in EnvVar
  BY RangeType
<1>2. \A e \in Range(env) : e \in A <=> e \in OtherEnvs
  BY <1>1 DEF OtherEnvs
<1>3. Without(env, A) = RootsIn(env)
  <2>. HIDE DEF A
  <2>. QED
    BY <1>2, WithoutRange DEF RootsIn
<1>4. MountPath(env)
        = IF Without(env, A) = << >> THEN "" ELSE Head(Without(env, A)).value
  BY DEF MountPath
<1>5. /\ RootsIn(env) \in Seq(EnvVar)
      /\ Range(RootsIn(env)) = Range(env) \ OtherEnvs
  BY WithoutType DEF RootsIn
<1>6. Range(env) \ OtherEnvs = {e \in Range(env) : e.name = RootEnv}
  BY <1>1 DEF OtherEnvs
<1>. HIDE DEF A
<1>. QED
  BY <1>3, <1>4, <1>5, <1>6

\* An environment in which every SERVICE_BINDING_ROOT has a value and is not
\* injected.
EnvRootsGiven(env) ==
  \A e \in Range(env) :
    e.name = RootEnv =>
      e.value # "" /\ e.secret \notin Secrets /\ e.field = NoField

\* The root that Do mounts at.
RootFor(env) == IF MountPath(env) = "" THEN DefaultRoot ELSE MountPath(env)

\* Once the root is there, it is the one that Do finds.
LEMMA RootedPath ==
  ASSUME NEW env \in Seq(EnvVar), EnvRootsGiven(env)
  PROVE  /\ MountPath(Rooted(env)) = RootFor(env)
         /\ RootFor(env) # ""
         /\ EnvRootsGiven(Rooted(env))
<1>. DEFINE x == DefaultRootEnv
            r == RootsIn(env)
<1>1. /\ r \in Seq(EnvVar)
      /\ Range(r) = {e \in Range(env) : e.name = RootEnv}
      /\ MountPath(env) = IF r = << >> THEN "" ELSE Head(r).value
  BY MountPathIs
<1>2. x \in EnvVar
  BY RootType
<1>3. /\ x.name = RootEnv /\ x.value = DefaultRoot /\ x.value # ""
      /\ x.secret \notin Secrets /\ x.field = NoField
  BY SecretsAssumption DEF DefaultRootEnv, DefaultRoot
<1>4. x \notin OtherEnvs
  BY <1>3 DEF OtherEnvs
<1>. HIDE DEF x
<1>5. CASE MountPath(env) = ""
  <2>1. Rooted(env) = Append(env, x)
    BY <1>5 DEF Rooted, x
  <2>2. r = << >>
    <3>1. SUFFICES ASSUME r # << >> PROVE FALSE
      OBVIOUS
    <3>2. Head(r) \in Range(r)
      <4>. HIDE DEF r
      <4>1. Len(r) \in Nat /\ Len(r) # 0 /\ DOMAIN r = 1..Len(r)
        BY <1>1, <3>1, EmptySeq, LenProperties
      <4>2. 1 \in DOMAIN r /\ Head(r) = r[1]
        BY <1>1, <3>1, <4>1, HeadTailProperties
      <4>. QED
        BY <4>2 DEF Range
    <3>3. Head(r).value # ""
      BY <1>1, <3>2 DEF EnvRootsGiven
    <3>. QED
      BY <1>1, <1>5, <3>1, <3>3
  <2>3. RootsIn(Append(env, x)) = Append(r, x)
    BY <1>2, <1>4, WithoutAppend DEF RootsIn
  <2>4. RootsIn(Append(env, x)) = <<x>>
    BY <2>2, <2>3
  <2>5. /\ Append(env, x) \in Seq(EnvVar)
        /\ Range(Append(env, x)) = Range(env) \cup {x}
    BY <1>2, AppendRange, AppendOne
  <2>6. MountPath(Append(env, x)) = Head(<<x>>).value
    <3>. DEFINE a == Append(env, x)
    <3>1. a \in Seq(EnvVar) /\ RootsIn(a) = <<x>>
      BY <2>4, <2>5
    <3>. HIDE DEF a
    <3>2. MountPath(a)
            = IF RootsIn(a) = << >> THEN "" ELSE Head(RootsIn(a)).value
      BY <3>1, MountPathIs
    <3>3. <<x>> # << >>
      OBVIOUS
    <3>4. MountPath(a) = Head(<<x>>).value
      BY <3>1, <3>2, <3>3
    <3>. QED
      BY <3>4 DEF a
  <2>7. Head(<<x>>) = x
    OBVIOUS
  <2>8. MountPath(Append(env, x)) = DefaultRoot
    BY <1>3, <2>6, <2>7
  <2>9. EnvRootsGiven(Append(env, x))
    BY <1>3, <2>5 DEF EnvRootsGiven
  <2>. QED
    BY <1>3, <1>5, <2>1, <2>8, <2>9 DEF RootFor
<1>6. CASE MountPath(env) # ""
  BY <1>6 DEF Rooted, RootFor
<1>. QED
  BY <1>5, <1>6

\* The environment that Do gives a container is the one that it gives it
\* again after Undo, and its mount too.
LEMMA BoundEnvAgain ==
  ASSUME NEW k \in Keys, NEW b \in ProjectionSpec, NEW env \in Seq(EnvVar),
         NEW secrets, secrets \subseteq Secrets, b.secret \in secrets,
         \A e \in Range(env) : e.secret # b.secret /\ e.field = NoField,
         EnvRootsGiven(env),
         \A x \in Range(b.env) : x.name # RootEnv,
         NEW again, again = Without(BoundEnv(k, b, env, secrets),
                                    EnvOf({b.secret}))
  PROVE  /\ again \in Seq(EnvVar)
         /\ BoundEnv(k, b, again, secrets) = BoundEnv(k, b, env, secrets)
         /\ NewMount(b, again) = NewMount(b, env)
         /\ b.env # << >> => Len(Rooted(again) \o NewEnv(k, b))
                               = Len(Rooted(env) \o NewEnv(k, b))
<1>. DEFINE r == Rooted(env)
            n == NewEnv(k, b)
            d == BoundEnv(k, b, env, secrets)
            out == EnvOf({b.secret})
            E == EnvOf(secrets)
            gone == out \cup OtherEnvs
<1>1. /\ r \in Seq(EnvVar) /\ d \in Seq(EnvVar)
      /\ Range(r) \subseteq Range(env) \cup {DefaultRootEnv}
  BY RootType, BoundEnvType
<1>2. b.secret \in Secrets /\ b.secret # NoSecret
  BY SpecParts
<1>3. /\ n \in Seq(EnvVar)
      /\ \A e \in Range(n) : e \in out /\ e \in E /\ e \in gone
  <2>1. NoField \notin TypeFields(k, b)
    BY TypeFieldsAre
  <2>2. /\ n \in Seq(EnvVar)
        /\ \A e \in Range(n) :
             /\ e \in EnvVar
             /\ e.secret = b.secret \/ e.field # NoField
    BY <2>1, NewEnvType
  <2>3. \A e \in Range(n) : e \in out /\ e \in E
    BY <2>2 DEF EnvOf, isInjectedEnv
  <2>. QED
    BY <2>2, <2>3
<1>4. /\ MountPath(r) = RootFor(env) /\ RootFor(env) # ""
      /\ EnvRootsGiven(r)
  BY RootedPath
<1>5. \A e \in Range(r) : e \notin out
  <2>1. DefaultRootEnv.secret = NoSecret /\ DefaultRootEnv.field = NoField
    BY DEF DefaultRootEnv
  <2>2. \A e \in Range(r) : e.secret # b.secret /\ e.field = NoField
    BY <1>1, <1>2, <2>1
  <2>. QED
    BY <2>2 DEF EnvOf, isInjectedEnv
<1>6. \A e \in Range(r) : e \in E => e \in OtherEnvs
  <2>1. \A e \in Range(r) : e \in EnvVar
    BY <1>1, RangeType
  <2>. QED
    BY <1>4, <2>1 DEF EnvRootsGiven, EnvOf, isInjectedEnv, OtherEnvs
<1>7. again \in Seq(EnvVar)
  BY <1>1, WithoutType
<1>8. RootsIn(again) = RootsIn(r)
  <2>1. \A e \in Range(n) : e \in OtherEnvs
    <3>1. \A e \in Range(n) :
            e \in EnvVar /\ \E x \in Range(b.env) : e.name = x.name
      BY NewEnvType
    <3>. QED
      BY <3>1 DEF OtherEnvs
  <2>2. d = r \/ d = InsertionSort(r \o n, E)
    BY DEF BoundEnv
  <2>. HIDE DEF r, n, d, out, E
  <2>3. Without(Without(d, out), OtherEnvs) = Without(d, gone)
    BY <1>1, WithoutTwice
  <2>4. Without(InsertionSort(r \o n, E), gone) = Without(r, gone)
    <3>1. Range(n) \subseteq gone /\ \A e \in Range(r) : e \in E => e \in gone
      BY <1>6, <2>1
    <3>. HIDE DEF gone
    <3>. QED
      BY <1>1, <1>3, <3>1, AllNamed, SortedInGone
  <2>5. Without(r, gone) = Without(r, OtherEnvs)
    <3>1. \A e \in Range(r) : e \in gone <=> e \in OtherEnvs
      BY <1>5
    <3>. HIDE DEF gone
    <3>. QED
      BY <1>1, <3>1, WithoutRange
  <2>6. again = Without(d, out)
    BY DEF d, out
  <2>. HIDE DEF gone
  <2>. QED
    BY <2>2, <2>3, <2>4, <2>5, <2>6 DEF RootsIn
<1>9. MountPath(again) = RootFor(env)
  <2>. HIDE DEF r
  <2>1. MountPath(again) = MountPath(r)
    BY <1>1, <1>7, <1>8, MountPathIs
  <2>. QED
    BY <1>4, <2>1
<1>10. Rooted(again) = again
  BY <1>4, <1>9 DEF Rooted
<1>11. NewMount(b, again) = NewMount(b, env)
  <2>1. NewMount(b, again)
          = [name |-> b.secret, dir |-> b.name, root |-> RootFor(again)]
    BY DEF NewMount, RootFor
  <2>2. NewMount(b, env)
          = [name |-> b.secret, dir |-> b.name, root |-> RootFor(env)]
    BY DEF NewMount, RootFor
  <2>3. RootFor(again) = RootFor(env)
    BY <1>4, <1>9 DEF RootFor
  <2>. QED
    BY <2>1, <2>2, <2>3
<1>12. BoundEnv(k, b, again, secrets) = d
  <2>1. CASE b.env = << >>
    <3>1. d = r
      BY <2>1 DEF BoundEnv
    <3>2. Without(r, out) = r
      <4>. HIDE DEF r, out
      <4>. QED
        BY <1>1, <1>5, WithoutNothing
    <3>3. again = r
      BY <3>1, <3>2
    <3>4. BoundEnv(k, b, again, secrets) = Rooted(again)
      BY <2>1 DEF BoundEnv
    <3>. QED
      BY <1>10, <3>1, <3>3, <3>4
  <2>2. CASE b.env # << >>
    <3>1. d = InsertionSort(r \o n, E)
      BY <2>2 DEF BoundEnv
    <3>2. BoundEnv(k, b, again, secrets) = InsertionSort(Rooted(again) \o n, E)
      BY <2>2 DEF BoundEnv
    <3>3. again = Without(d, out)
      OBVIOUS
    <3>. HIDE DEF r, n, E, out, d
    <3>4. InsertionSort(Without(InsertionSort(r \o n, E), out) \o n, E)
            = InsertionSort(r \o n, E)
      BY <1>1, <1>3, <1>5, AllNamed, SortAgain
    <3>. QED
      BY <1>10, <3>1, <3>2, <3>3, <3>4
  <2>. QED
    BY <2>1, <2>2
<1>13. ASSUME b.env # << >>
       PROVE  Len(Rooted(again) \o n) = Len(r \o n)
  <2>1. d = InsertionSort(r \o n, E) /\ again = Without(d, out)
    BY <1>13 DEF BoundEnv
  <2>. HIDE DEF r, n, E, out, d
  <2>2. Len(Without(InsertionSort(r \o n, E), out) \o n) = Len(r \o n)
    BY <1>1, <1>3, <1>5, AllNamed, LenAgain
  <2>. QED
    BY <1>10, <2>1, <2>2
<1>. QED
  BY <1>7, <1>11, <1>12, <1>13 DEF d, r, n

\* What Do takes for injected depends on the annotations and the volumes that
\* Undo leaves.
LEMMA InjectedSame ==
  ASSUME NEW p, NEW q, p.annotations = q.annotations,
         Range(p.volumes) = Range(q.volumes)
  PROVE  /\ injectedSecrets(p) = injectedSecrets(q)
         /\ injectedVolumes(p) = injectedVolumes(q)
<1>1. injectedSecrets(p) = injectedSecrets(q)
  BY DEF injectedSecrets
<1>2. \A o : injectedVolumes(o) = NamesWith(o.volumes, injectedSecrets(o))
  BY DEF injectedVolumes, NamesWith, Range
<1>3. NamesWith(p.volumes, injectedSecrets(p))
        = NamesWith(q.volumes, injectedSecrets(q))
  BY <1>1 DEF NamesWith
<1>. QED
  BY <1>1, <1>2, <1>3

\* A projection that asks for no variable SERVICE_BINDING_ROOT.
NoRootIn(b) == \A x \in Range(b.env) : x.name # RootEnv

\* Undo keeps the roots that have values.
LEMMA UndoRoots ==
  ASSUME NEW k \in Keys, NEW b \in ProjectionSpec, NEW ps \in WithPod,
         RootsGiven(ps)
  PROVE  RootsGiven(Undo(k, b, ps))
<1>. DEFINE u == Undo(k, b, ps)
<1>1. ElementsUndone(removeSecrets(k, b, ps), UndoNames(k, b, ps), ps, u)
  BY UndoElements
<1>. HIDE DEF u
<1>2. RootsGiven(u)
  BY <1>1 DEF ElementsUndone, RootsGiven
<1>. QED
  BY <1>2 DEF u

\* What Do has made has room for the projection again.
LEMMA FitsAgain ==
  ASSUME NEW k \in Keys, NEW b \in ProjectionSpec, NEW ps, PodOK(ps),
         RootsGiven(ps), NoRootIn(b), Fits(k, b, ps)
  PROVE  Fits(k, b, Do(k, b, ps))
<1>. DEFINE u == Undo(k, b, ps)
            d == Do(k, b, ps)
            r == Undo(k, b, d)
            s == {b.secret}
            x == ProjectedVolume(k, b)
            names == DoNames(k, b, ps)
            secrets == DoSecrets(k, b, ps)
<1>1. /\ ps \in WithPod /\ u \in WithPod /\ d \in WithPod /\ r \in WithPod
      /\ CleanOf(k, b, u)
  BY UndoKeeps, DoKeeps DEF PodOK
<1>2. ListsDone(k, b, names, secrets, u, d)
  BY <1>1, DoIs
<1>3. ListsUndone(s, s, d, r)
  <2>1. ListsUndone(removeSecrets(k, b, d), UndoNames(k, b, d), d, r)
    BY <1>1, UndoIs
  <2>. QED
    BY <2>1, UndoAfterDo
<1>4. Reverted(r, u)
  BY UndoDo
<1>5. /\ x \in Volume /\ x.secret = b.secret /\ x.name = b.secret
      /\ b.secret \in names /\ b.secret \in secrets /\ secrets \subseteq Secrets
  BY NewVolumeType, DoSecretsBound DEF DoNames, DoSecrets
<1>6. RootsGiven(u)
  BY <1>1, UndoRoots
<1>7. /\ InBlock(Append(u.volumes, x))
      /\ \A i \in DOMAIN u.containers :
           isTargetContainer(b, u.containers[i]) =>
             FitsIn(k, b, u.containers[i])
  BY DEF Fits
<1>. HIDE DEF u, d, r, x, names, secrets
<1>8. /\ u.volumes \in Seq(Volume) /\ r.volumes \in Seq(Volume)
      /\ \A i \in DOMAIN u.containers :
           /\ u.containers[i] \in Range(u.containers)
           /\ u.containers[i].env \in Seq(EnvVar)
           /\ u.containers[i].mounts \in Seq(Mount)
      /\ \A i \in DOMAIN r.containers : r.containers[i].mounts \in Seq(Mount)
  <2>1. u.containers \in Seq(Container)
    BY <1>1, PodParts
  <2>2. \A i \in DOMAIN u.containers : u.containers[i] \in Range(u.containers)
    BY <2>1, RangeType
  <2>. QED
    BY <1>1, <2>2, PodParts
<1>9. InBlock(Append(r.volumes, x))
  <2>. DEFINE v == u.volumes
              t == <<x>>
              injected == VolumesNamed(names)
              gone == VolumesOf(s)
  <2>1. /\ v \in Seq(Volume) /\ t \in Seq(Volume) /\ Append(v, x) = v \o t
        /\ Append(r.volumes, x) = r.volumes \o t
    BY <1>5, <1>8, AppendOne
  <2>2. \A y \in Range(t) : y \in gone /\ y \in injected
    BY <1>5, OneRange DEF VolumesOf, VolumesNamed
  <2>3. \A y \in Range(v) : y \notin gone
    BY <1>1 DEF CleanOf, VolumesOf
  <2>4. r.volumes = Without(d.volumes, gone)
    BY <1>3 DEF ListsUndone
  <2>5. d.volumes = InsertionSort(Append(v, x), injected)
    BY <1>2 DEF ListsDone, x
  <2>. HIDE DEF v, t, injected, gone
  <2>6. Len(Without(InsertionSort(v \o t, injected), gone) \o t) = Len(v \o t)
    BY <2>1, <2>2, <2>3, AllNamed, LenAgain
  <2>. QED
    BY <1>7, <2>1, <2>4, <2>5, <2>6 DEF InBlock, v
<1>10. /\ DOMAIN r.containers = DOMAIN u.containers
       /\ DOMAIN d.containers = DOMAIN u.containers
  BY <1>2, <1>4 DEF Reverted, ListsDone
<1>11. ASSUME NEW i \in DOMAIN u.containers,
              isTargetContainer(b, r.containers[i])
       PROVE  FitsIn(k, b, r.containers[i])
  <2>. DEFINE c == u.containers[i]
              e == d.containers[i]
              o == r.containers[i]
              env == c.env
              mounts == c.mounts
              m == NewMount(b, env)
              t == <<m>>
              injected == MountsNamed(names)
              gone == MountsNamed(s)
  <2>1. /\ env \in Seq(EnvVar) /\ mounts \in Seq(Mount)
        /\ \A y \in Range(mounts) : y.name # b.secret
        /\ \A y \in Range(env) : y.secret # b.secret /\ y.field = NoField
        /\ EnvRootsGiven(env)
        /\ o.mounts \in Seq(Mount)
    BY <1>1, <1>6, <1>8, <1>10, <1>11 DEF CleanOf, RootsGiven, EnvRootsGiven
  <2>2. /\ o.name = c.name
        /\ o.mounts = Without(e.mounts, MountsNamed(s))
        /\ o.env = Without(e.env, EnvOf(s))
    BY <1>3, <1>4, <1>10, <1>11 DEF ListsUndone, Reverted
  <2>3. isTargetContainer(b, c)
    BY <1>11, <2>2 DEF isTargetContainer
  <2>4. /\ e.mounts = InsertionSort(Append(mounts, m), injected)
        /\ e.env = BoundEnv(k, b, env, secrets)
    BY <1>2, <1>11, <2>3 DEF ListsDone
  <2>5. /\ InBlock(Append(mounts, m))
        /\ b.env # << >> => InBlock(Rooted(env) \o NewEnv(k, b))
    BY <1>7, <1>11, <2>3 DEF FitsIn
  <2>6. /\ NewMount(b, o.env) = m
        /\ b.env # << >> => Len(Rooted(o.env) \o NewEnv(k, b))
                              = Len(Rooted(env) \o NewEnv(k, b))
    <3>. DEFINE again == o.env
    <3>1. again = Without(BoundEnv(k, b, env, secrets), EnvOf({b.secret}))
      BY <2>2, <2>4
    <3>2. \A y \in Range(b.env) : y.name # RootEnv
      BY DEF NoRootIn
    <3>. HIDE DEF again, env
    <3>3. NewMount(b, again) = NewMount(b, env)
      BY <1>5, <2>1, <3>1, <3>2, BoundEnvAgain
    <3>4. ASSUME b.env # << >>
          PROVE  Len(Rooted(again) \o NewEnv(k, b))
                   = Len(Rooted(env) \o NewEnv(k, b))
      BY <1>5, <2>1, <3>1, <3>2, <3>4, BoundEnvAgain
    <3>. QED
      BY <3>3, <3>4 DEF again
  <2>7. m \in Mount /\ m.name = b.secret
    BY <2>1, NewMountType
  <2>. HIDE DEF m, env, mounts
  <2>8. /\ t \in Seq(Mount) /\ Append(mounts, m) = mounts \o t
        /\ Append(o.mounts, m) = o.mounts \o t
    BY <2>1, <2>7, AppendOne
  <2>9. \A y \in Range(t) : y \in gone /\ y \in injected
    BY <1>5, <2>7, OneRange DEF MountsNamed
  <2>10. \A y \in Range(mounts) : y \notin gone
    BY <2>1 DEF MountsNamed
  <2>. HIDE DEF t, injected, gone
  <2>11. Len(Without(InsertionSort(mounts \o t, injected), gone) \o t)
           = Len(mounts \o t)
    BY <2>1, <2>8, <2>9, <2>10, AllNamed, LenAgain
  <2>12. InBlock(Append(o.mounts, m))
    BY <2>2, <2>4, <2>5, <2>8, <2>11 DEF InBlock, gone
  <2>13. b.env # << >> => InBlock(Rooted(o.env) \o NewEnv(k, b))
    BY <2>5, <2>6 DEF InBlock
  <2>. HIDE DEF o
  <2>14. FitsIn(k, b, o)
    BY <2>6, <2>12, <2>13 DEF FitsIn
  <2>. QED
    BY <2>14 DEF o
<1>12. Fits(k, b, d)
  BY <1>9, <1>10, <1>11 DEF Fits, r, x
<1>. QED
  BY <1>12 DEF d

\* Do of what Do has made changes nothing, if the roots have values.
LEMMA DoDo ==
  ASSUME NEW k \in Keys, NEW b \in ProjectionSpec, NEW ps, PodOK(ps),
         RootsGiven(ps), NoRootIn(b), Fits(k, b, ps)
  PROVE  Do(k, b, Do(k, b, ps)) = Do(k, b, ps)
<1>. DEFINE u == Undo(k, b, ps)
            d == Do(k, b, ps)
            r == Undo(k, b, d)
            a == Do(k, b, d)
            s == {b.secret}
            x == ProjectedVolume(k, b)
            names == DoNames(k, b, ps)
            secrets == DoSecrets(k, b, ps)
<1>1. /\ ps \in WithPod /\ u \in WithPod /\ d \in WithPod
      /\ r \in WithPod /\ a \in WithPod
      /\ PodOK(d) /\ CleanOf(k, b, u) /\ Fits(k, b, d)
  <2>1. Fits(k, b, d)
    BY FitsAgain
  <2>2. PodOK(u) /\ PodOK(d) /\ CleanOf(k, b, u)
    BY UndoKeeps, DoKeeps
  <2>. HIDE DEF d
  <2>3. PodOK(r) /\ PodOK(a)
    BY <2>1, <2>2, UndoKeeps, DoKeeps
  <2>. QED
    BY <2>1, <2>2, <2>3 DEF PodOK
<1>2. MarksDone(k, b, u, d) /\ ListsDone(k, b, names, secrets, u, d)
  BY <1>1, DoIs
<1>3. ListsUndone(s, s, d, r)
  <2>1. ListsUndone(removeSecrets(k, b, d), UndoNames(k, b, d), d, r)
    BY <1>1, UndoIs
  <2>. QED
    BY <2>1, UndoAfterDo
<1>4. Reverted(r, u)
  BY UndoDo
<1>5. /\ MarksDone(k, b, r, a)
      /\ ListsDone(k, b, DoNames(k, b, d), DoSecrets(k, b, d), r, a)
  BY <1>1, DoIs
<1>6. DoNames(k, b, d) = names /\ DoSecrets(k, b, d) = secrets
  <2>1. r.annotations = u.annotations /\ Range(r.volumes) = Range(u.volumes)
    BY <1>4 DEF Reverted, SameElements
  <2>. HIDE DEF r, u
  <2>2. /\ injectedSecrets(r) = injectedSecrets(u)
        /\ injectedVolumes(r) = injectedVolumes(u)
    BY <2>1, InjectedSame
  <2>. QED
    BY <2>2 DEF DoNames, DoSecrets, r, u
<1>7. /\ x \in Volume /\ x.secret = b.secret /\ x.name = b.secret
      /\ b.secret \in names /\ b.secret \in secrets /\ secrets \subseteq Secrets
  BY NewVolumeType, DoSecretsBound DEF DoNames, DoSecrets
<1>8. RootsGiven(u)
  BY <1>1, UndoRoots
<1>. HIDE DEF u, d, r, a, x, names, secrets
<1>9. MarksDone(k, b, r, a) /\ ListsDone(k, b, names, secrets, r, a)
  BY <1>5, <1>6
<1>10. /\ u.volumes \in Seq(Volume) /\ r.volumes \in Seq(Volume)
       /\ a.containers \in Seq(Container) /\ d.containers \in Seq(Container)
       /\ \A i \in DOMAIN u.containers :
            /\ u.containers[i] \in Range(u.containers)
            /\ u.containers[i].env \in Seq(EnvVar)
            /\ u.containers[i].mounts \in Seq(Mount)
       /\ \A i \in DOMAIN a.containers : a.containers[i] \in Container
       /\ \A i \in DOMAIN d.containers : d.containers[i] \in Container
       /\ \A i \in DOMAIN r.containers :
            /\ r.containers[i] \in Container
            /\ r.containers[i].mounts \in Seq(Mount)
  <2>1. u.containers \in Seq(Container)
    BY <1>1, PodParts
  <2>2. \A i \in DOMAIN u.containers : u.containers[i] \in Range(u.containers)
    BY <2>1, RangeType
  <2>. QED
    BY <1>1, <2>2, PodParts
<1>11. a.annotations = d.annotations
  <2>. DEFINE p == a.annotations
              q == d.annotations
              T == Secrets \cup {NoSecret}
  <2>1. p \in [Keys -> T] /\ q \in [Keys -> T]
    BY <1>1, PodParts
  <2>2. \A j \in Keys : p[j] = q[j]
    BY <1>2, <1>4, <1>9 DEF MarksDone, Reverted
  <2>. HIDE DEF p, q, T
  <2>3. p = q
    BY <2>1, <2>2, SameFunction
  <2>. QED
    BY <2>3 DEF p, q
<1>12. a.template = d.template
  <2>. DEFINE p == a.template
              q == d.template
              T == Texts \cup {""}
  <2>1. p \in [Field -> T] /\ q \in [Field -> T]
    BY <1>1, PodParts
  <2>2. r.template = u.template
    BY <1>4 DEF Reverted
  <2>3. \A f \in Field : p[f] = q[f]
    BY <1>2, <1>9, <2>2 DEF MarksDone
  <2>. HIDE DEF p, q, T
  <2>4. p = q
    BY <2>1, <2>3, SameFunction
  <2>. QED
    BY <2>4 DEF p, q
<1>13. a.volumes = d.volumes
  <2>. DEFINE v == u.volumes
              t == <<x>>
              injected == VolumesNamed(names)
              gone == VolumesOf(s)
  <2>1. /\ v \in Seq(Volume) /\ t \in Seq(Volume) /\ Append(v, x) = v \o t
        /\ Append(r.volumes, x) = r.volumes \o t
    BY <1>7, <1>10, AppendOne
  <2>2. \A y \in Range(t) : y \in gone /\ y \in injected
    BY <1>7, OneRange DEF VolumesOf, VolumesNamed
  <2>3. \A y \in Range(v) : y \notin gone
    BY <1>1 DEF CleanOf, VolumesOf
  <2>4. r.volumes = Without(d.volumes, gone)
    BY <1>3 DEF ListsUndone
  <2>5. /\ d.volumes = InsertionSort(Append(v, x), injected)
        /\ a.volumes = InsertionSort(Append(r.volumes, x), injected)
    BY <1>2, <1>9 DEF ListsDone, x
  <2>. HIDE DEF v, t, injected, gone
  <2>6. InsertionSort(Without(InsertionSort(v \o t, injected), gone) \o t,
                     injected) = InsertionSort(v \o t, injected)
    BY <2>1, <2>2, <2>3, AllNamed, SortAgain
  <2>. QED
    BY <2>1, <2>4, <2>5, <2>6
<1>14. /\ DOMAIN a.containers = DOMAIN u.containers
       /\ DOMAIN d.containers = DOMAIN u.containers
       /\ DOMAIN r.containers = DOMAIN u.containers
  BY <1>2, <1>4, <1>9 DEF ListsDone, Reverted
<1>15. ASSUME NEW i \in DOMAIN u.containers
       PROVE  a.containers[i] = d.containers[i]
  <2>. DEFINE c == u.containers[i]
              e == d.containers[i]
              o == r.containers[i]
              w == a.containers[i]
              env == c.env
              mounts == c.mounts
  <2>1. /\ env \in Seq(EnvVar) /\ mounts \in Seq(Mount)
        /\ \A m \in Range(mounts) : m.name # b.secret
        /\ \A y \in Range(env) : y.secret # b.secret /\ y.field = NoField
        /\ EnvRootsGiven(env)
        /\ e \in Container /\ o \in Container /\ w \in Container
        /\ o.mounts \in Seq(Mount)
    BY <1>1, <1>8, <1>10, <1>14, <1>15
       DEF CleanOf, RootsGiven, EnvRootsGiven
  <2>2. /\ o.name = c.name
        /\ o.mounts = Without(e.mounts, MountsNamed(s))
        /\ o.env = Without(e.env, EnvOf(s))
    BY <1>3, <1>4, <1>14, <1>15 DEF ListsUndone, Reverted
  <2>3. /\ e.name = c.name
        /\ ~isTargetContainer(b, c) => e = c
        /\ isTargetContainer(b, c) =>
             /\ e.mounts = InsertionSort(Append(mounts, NewMount(b, env)),
                                        MountsNamed(names))
             /\ e.env = BoundEnv(k, b, env, secrets)
    BY <1>2, <1>15 DEF ListsDone
  <2>4. /\ w.name = o.name
        /\ ~isTargetContainer(b, o) => w = o
        /\ isTargetContainer(b, o) =>
             /\ w.mounts = InsertionSort(Append(o.mounts, NewMount(b, o.env)),
                                        MountsNamed(names))
             /\ w.env = BoundEnv(k, b, o.env, secrets)
    BY <1>9, <1>14, <1>15 DEF ListsDone
  <2>5. isTargetContainer(b, o) <=> isTargetContainer(b, c)
    BY <2>2 DEF isTargetContainer
  <2>6. CASE ~isTargetContainer(b, c)
    <3>1. e.env = env /\ e.mounts = mounts
      BY <2>3, <2>6
    <3>. HIDE DEF env, mounts
    <3>2. Without(mounts, MountsNamed(s)) = mounts
      <4>1. \A m \in Range(mounts) : m \notin MountsNamed(s)
        BY <2>1 DEF MountsNamed
      <4>. QED
        BY <2>1, <4>1, WithoutNothing
    <3>3. Without(env, EnvOf(s)) = env
      <4>1. \A y \in Range(env) : y \notin EnvOf(s)
        BY <2>1 DEF EnvOf, isInjectedEnv
      <4>. QED
        BY <2>1, <4>1, WithoutNothing
    <3>4. o.mounts = e.mounts /\ o.env = e.env /\ o.name = e.name
      BY <2>2, <2>3, <3>1, <3>2, <3>3
    <3>. HIDE DEF o, e
    <3>5. o = e
      BY <2>1, <3>4, SameContainer
    <3>. QED
      BY <2>4, <2>5, <2>6, <3>5 DEF e
  <2>7. CASE isTargetContainer(b, c)
    <3>. DEFINE m == NewMount(b, env)
                t == <<m>>
                injected == MountsNamed(names)
                gone == MountsNamed(s)
    <3>1. /\ e.mounts = InsertionSort(Append(mounts, m), injected)
          /\ e.env = BoundEnv(k, b, env, secrets)
      BY <2>3, <2>7
    <3>2. /\ w.mounts = InsertionSort(Append(o.mounts, NewMount(b, o.env)),
                                     injected)
          /\ w.env = BoundEnv(k, b, o.env, secrets)
      BY <2>4, <2>5, <2>7
    <3>3. /\ BoundEnv(k, b, o.env, secrets) = BoundEnv(k, b, env, secrets)
          /\ NewMount(b, o.env) = NewMount(b, env)
      <4>. DEFINE again == o.env
      <4>1. again = Without(BoundEnv(k, b, env, secrets), EnvOf({b.secret}))
        BY <2>2, <3>1
      <4>2. \A y \in Range(b.env) : y.name # RootEnv
        BY DEF NoRootIn
      <4>. HIDE DEF again, env
      <4>3. /\ BoundEnv(k, b, again, secrets) = BoundEnv(k, b, env, secrets)
            /\ NewMount(b, again) = NewMount(b, env)
        BY <1>7, <2>1, <4>1, <4>2, BoundEnvAgain
      <4>. QED
        BY <4>3 DEF again
    <3>4. m \in Mount /\ m.name = b.secret
      BY <2>1, NewMountType
    <3>. HIDE DEF m, env, mounts
    <3>5. /\ t \in Seq(Mount) /\ Append(mounts, m) = mounts \o t
          /\ Append(o.mounts, m) = o.mounts \o t
      BY <2>1, <3>4, AppendOne
    <3>6. \A y \in Range(t) : y \in gone /\ y \in injected
      BY <1>7, <3>4, OneRange DEF MountsNamed
    <3>7. \A y \in Range(mounts) : y \notin gone
      BY <2>1 DEF MountsNamed
    <3>8. o.mounts = Without(e.mounts, gone)
      BY <2>2
    <3>. HIDE DEF t, injected, gone
    <3>9. InsertionSort(Without(InsertionSort(mounts \o t, injected), gone) \o t,
                       injected) = InsertionSort(mounts \o t, injected)
      BY <2>1, <3>5, <3>6, <3>7, AllNamed, SortAgain
    <3>10. w.mounts = e.mounts
      BY <3>1, <3>2, <3>3, <3>5, <3>8, <3>9 DEF m
    <3>11. w.env = e.env /\ w.name = e.name
      BY <2>2, <2>3, <2>4, <3>1, <3>2, <3>3
    <3>. HIDE DEF w, e
    <3>12. w = e
      BY <2>1, <3>10, <3>11, SameContainer
    <3>. QED
      BY <3>12 DEF w, e
  <2>. QED
    BY <2>6, <2>7
<1>16. a.containers = d.containers
  <2>. DEFINE p == a.containers
              q == d.containers
  <2>1. /\ p \in Seq(Container) /\ q \in Seq(Container)
        /\ DOMAIN p = DOMAIN q
        /\ \A i \in DOMAIN p : p[i] = q[i]
    BY <1>10, <1>14, <1>15
  <2>. HIDE DEF p, q
  <2>2. p = q
    BY <2>1, SameList
  <2>. QED
    BY <2>2 DEF p, q
<1>17. a = d
  BY <1>1, <1>11, <1>12, <1>13, <1>16, SamePod
<1>. QED
  BY <1>17 DEF a, d

\* The owner gives a value to every SERVICE_BINDING_ROOT that he writes, and
\* no projection asks for a variable of that name.
RootsHaveValues ==
  /\ \A c \in Range(Manifest.containers) : \A e \in Range(c.env) :
       e.name = RootEnv => e.value # ""
  /\ \A x \in Extras : x.env.name = RootEnv => x.env.value # ""
  /\ \A k \in Keys : \A b \in Specs[k] : NoRootIn(b)

\* Do adds no other root than the default.
LEMMA DoRoots ==
  ASSUME NEW k \in Keys, NEW b \in ProjectionSpec, NEW ps \in WithPod,
         RootsGiven(ps), NoRootIn(b), Fits(k, b, ps)
  PROVE  RootsGiven(Do(k, b, ps))
<1>. DEFINE u == Undo(k, b, ps)
            d == Do(k, b, ps)
<1>1. RootsGiven(u)
  BY UndoRoots
<1>2. ElementsDone(k, b, u, d)
  BY DoElements
<1>. HIDE DEF u, d
<1>3. ASSUME NEW c \in Range(d.containers)
      PROVE  EnvRootsGiven(c.env)
  <2>1. PICK e \in Range(u.containers) :
          /\ e.env \in Seq(EnvVar)
          /\ \/ c = e
             \/ Range(c.env) = Range(Rooted(e.env)) \cup Range(NewEnv(k, b))
    BY <1>2, <1>3 DEF ElementsDone
  <2>2. EnvRootsGiven(e.env)
    BY <1>1, <2>1 DEF RootsGiven, EnvRootsGiven
  <2>3. EnvRootsGiven(Rooted(e.env))
    BY <2>1, <2>2, RootedPath
  <2>4. \A y \in Range(NewEnv(k, b)) : y.name # RootEnv
    <3>1. \A y \in Range(NewEnv(k, b)) : \E z \in Range(b.env) : y.name = z.name
      BY NewEnvType
    <3>. QED
      BY <3>1 DEF NoRootIn
  <2>. QED
    BY <2>1, <2>2, <2>3, <2>4 DEF EnvRootsGiven
<1>4. RootsGiven(d)
  BY <1>3 DEF RootsGiven, EnvRootsGiven
<1>. QED
  BY <1>4 DEF d

\* So does the owner.
LEMMA ToggleRoots ==
  ASSUME NEW ps, PodOK(ps), RootsGiven(ps), RootsHaveValues, NEW z \in Extras
  PROVE  RootsGiven(Toggled(ps, z))
<1>. DEFINE t == Toggled(ps, z)
            y == z.env
<1>1. /\ ps \in WithPod /\ t \in WithPod /\ ListsToggled(ps, z, t)
  BY ToggledIs DEF PodOK
<1>2. /\ y \in EnvVar /\ y.secret \notin Secrets /\ y.field = NoField
      /\ y.name = RootEnv => y.value # ""
  BY ExtraIs DEF RootsHaveValues
<1>. HIDE DEF t, y
<1>3. ASSUME NEW c \in Range(t.containers)
      PROVE  EnvRootsGiven(c.env)
  <2>1. PICK i \in DOMAIN t.containers : c = t.containers[i]
    BY <1>3 DEF Range
  <2>2. /\ i \in DOMAIN ps.containers
        /\ c.env = IF i = 1 THEN Flipped(ps.containers[i].env, y)
                            ELSE ps.containers[i].env
    BY <1>1, <2>1 DEF ListsToggled, y
  <2>3. ps.containers[i].env \in Seq(EnvVar)
    BY <1>1, <2>2, PodParts
  <2>4. EnvRootsGiven(ps.containers[i].env)
    BY <2>2 DEF RootsGiven, EnvRootsGiven, Range
  <2>5. Range(c.env) \subseteq Range(ps.containers[i].env) \cup {y}
    <3>. DEFINE env == ps.containers[i].env
    <3>1. /\ env \in Seq(EnvVar)
          /\ c.env = Flipped(env, y) \/ c.env = env
      BY <2>2, <2>3
    <3>. HIDE DEF env
    <3>2. Range(Flipped(env, y)) \subseteq Range(env) \cup {y}
      BY <1>2, <3>1, FlippedType
    <3>. QED
      BY <3>1, <3>2 DEF env
  <2>. QED
    BY <1>2, <2>4, <2>5 DEF EnvRootsGiven
<1>4. RootsGiven(t)
  BY <1>3 DEF RootsGiven, EnvRootsGiven
<1>. QED
  BY <1>4 DEF t

\* What is added to the invariant for the roots.
RootInv == RootsGiven(pod) /\ RootsGiven(own)

\* It holds in the beginning.
LEMMA RootInit ==
  ASSUME RootsHaveValues
  PROVE  Init => RootInv
BY ManifestAssumption DEF RootsHaveValues, Init, RootInv, RootsGiven, IsOwnEnv

\* Every step keeps it.
LEMMA RootNext ==
  ASSUME RootsHaveValues
  PROVE  Inv /\ Short /\ RootInv /\ [Next]_vars => RootInv'
<1>. SUFFICES ASSUME Inv, Short, RootInv, [Next]_vars
              PROVE  RootInv'
  OBVIOUS
<1>1. /\ TypeOK /\ PodOK(pod) /\ PodOK(own) /\ deleting \subseteq Live
      /\ pod \in WithPod /\ RootsGiven(pod) /\ RootsGiven(own)
  BY DEF Inv, RootInv, TypeOK
<1>2. ASSUME NEW k \in Keys, Bind(k)
      PROVE  RootInv'
  <2>1. k \in Live /\ pod' = Do(k, SpecOf(k), pod) /\ own' = own
    BY <1>2 DEF Bind, Pending
  <2>2. /\ SpecOf(k) \in Specs[k] /\ SpecOf(k) \in ProjectionSpec
        /\ Fits(k, SpecOf(k), pod)
    BY <1>1, <2>1, SpecOfType DEF Short
  <2>3. NoRootIn(SpecOf(k))
    BY <2>2 DEF RootsHaveValues
  <2>4. RootsGiven(pod')
    BY <1>1, <2>1, <2>2, <2>3, DoRoots
  <2>. QED
    BY <1>1, <2>1, <2>4 DEF RootInv
<1>3. ASSUME NEW k \in Keys, Unbind(k)
      PROVE  RootInv'
  <2>1. k \in Live /\ pod' = Undo(k, SpecOf(k), pod) /\ own' = own
    BY <1>1, <1>3 DEF Unbind
  <2>2. SpecOf(k) \in ProjectionSpec
    BY <1>1, <2>1, SpecOfType
  <2>3. RootsGiven(pod')
    BY <1>1, <2>1, <2>2, UndoRoots
  <2>. QED
    BY <1>1, <2>1, <2>3 DEF RootInv
<1>4. ASSUME NEW k \in Keys, Project(k) \/ Delete(k)
      PROVE  RootInv'
  BY <1>1, <1>4 DEF Project, Delete, RootInv
<1>5. ASSUME EditWorkload
      PROVE  RootInv'
  BY <1>1, <1>5, ToggleRoots DEF EditWorkload, RootInv
<1>6. ASSUME RecreateWorkload
      PROVE  RootInv'
  BY <1>1, <1>6 DEF RecreateWorkload, RootInv
<1>7. ASSUME UNCHANGED vars
      PROVE  RootInv'
  BY <1>1, <1>7 DEF vars, RootInv
<1>. QED
  BY <1>2, <1>3, <1>4, <1>5, <1>6, <1>7 DEF Next

\* If every SERVICE_BINDING_ROOT of the owner's has a value, and the lists that
\* Do sorts fit in a block, binding a projection again changes nothing, in
\* every state and for every spec: what Do finds of its own it removes and
\* puts back where it was.  Neither can be left out: before a root without a
\* value Do appends another one each time, and SymMerge does not leave what it
\* has merged as it is.
THEOREM IdempotentAlways ==
  ASSUME RootsHaveValues
  PROVE  Spec /\ []Short => []Idempotent
<1>1. Init => RootInv
  BY RootInit
<1>2. Inv /\ Short /\ RootInv /\ [Next]_vars => RootInv'
  BY RootNext
<1>3. ASSUME Inv, Short, RootInv
      PROVE  Idempotent
  <2>1. ASSUME NEW k \in Live
        PROVE  Do(k, SpecOf(k), Do(k, SpecOf(k), pod)) = Do(k, SpecOf(k), pod)
    <3>1. /\ k \in Keys /\ SpecOf(k) \in Specs[k] /\ SpecOf(k) \in ProjectionSpec
          /\ Fits(k, SpecOf(k), pod)
      BY <1>3, <2>1, SpecOfType DEF Inv, Short
    <3>2. NoRootIn(SpecOf(k))
      BY <3>1 DEF RootsHaveValues
    <3>. QED
      BY <1>3, <3>1, <3>2, DoDo DEF Inv, RootInv
  <2>. QED
    BY <2>1 DEF Idempotent
<1>. QED
  BY <1>1, <1>2, <1>3, InvAlways, PTL DEF Spec

-----------------------------------------------------------------------------
(* Rest *)

\* A list of one element.
LEMMA OnlyOne ==
  ASSUME NEW S, NEW s \in Seq(S), NEW x \in S, x \notin Range(s),
         NEW r \in Seq(S), Range(r) = {x}, Picks(r, Append(s, x))
  PROVE  r = <<x>>
<1>. DEFINE a == Append(s, x)
<1>1. /\ Len(s) \in Nat /\ DOMAIN s = 1..Len(s)
      /\ DOMAIN a = 1..(Len(s) + 1)
      /\ \A i \in 1..Len(s) : a[i] = s[i]
  BY LenProperties, AppendProperties
<1>2. Picks(r, a)
  OBVIOUS
<1>. HIDE DEF a
<1>3. \A i \in DOMAIN a : a[i] = x => i = Len(s) + 1
  BY <1>1 DEF Range
<1>4. \A p \in DOMAIN r : r[p] = x
  BY DEF Range
<1>5. \A p, q \in DOMAIN r : p = q
  BY <1>2, <1>3, <1>4 DEF Picks
<1>6. Len(r) \in Nat /\ DOMAIN r = 1..Len(r)
  BY LenProperties
<1>7. DOMAIN r # {}
  BY DEF Range
<1>8. Len(r) = 1
  <2>1. Len(r) >= 1
    BY <1>6, <1>7
  <2>2. ~(Len(r) >= 2)
    <3>. SUFFICES ASSUME Len(r) >= 2 PROVE FALSE
      OBVIOUS
    <3>1. 1 \in DOMAIN r /\ 2 \in DOMAIN r
      BY <1>6
    <3>. QED
      BY <1>5, <3>1
  <2>. QED
    BY <1>6, <2>1, <2>2
<1>9. DOMAIN r = 1..1 /\ r[1] = x
  BY <1>4, <1>6, <1>8
<1>. DEFINE t == <<x>>
<1>10. t \in Seq(S) /\ DOMAIN t = 1..1 /\ t[1] = x
  OBVIOUS
<1>. HIDE DEF t
<1>11. r = t
  BY <1>9, <1>10, SameList
<1>. QED
  BY <1>11 DEF t

\* Picking from what was picked.
LEMMA PicksTwice ==
  ASSUME NEW r, NEW s, NEW t, Picks(r, s), Picks(s, t)
  PROVE  Picks(r, t)
<1>. SUFFICES ASSUME NEW p \in DOMAIN r, NEW q \in DOMAIN r, p # q
              PROVE  \E i, j \in DOMAIN t :
                       i # j /\ r[p] = t[i] /\ r[q] = t[j]
  BY DEF Picks
<1>1. PICK g, h \in DOMAIN s : g # h /\ r[p] = s[g] /\ r[q] = s[h]
  BY DEF Picks
<1>2. \E i, j \in DOMAIN t : i # j /\ s[g] = t[i] /\ s[h] = t[j]
  BY <1>1 DEF Picks
<1>. QED
  BY <1>1, <1>2

\* After Do, a target has one mount of the secret.
LEMMA MountedOnce ==
  ASSUME NEW mounts \in Seq(Mount), NEW secret, NEW m \in Mount,
         m.name = secret, NEW injected,
         \A y \in Range(mounts) : y.name # secret,
         NEW after, after = InsertionSort(Append(mounts, m), injected)
  PROVE  Without(after, {y \in Range(after) : y.name # secret}) = <<m>>
<1>. DEFINE gone == {y \in Range(after) : y.name # secret}
            r == Without(after, gone)
            a == Append(mounts, m)
<1>1. a \in Seq(Mount) /\ Range(a) = Range(mounts) \cup {m}
  BY AppendRange, AppendOne
<1>2. /\ after \in Seq(Mount) /\ Range(after) = Range(a)
      /\ Picks(after, a)
  <2>. HIDE DEF a
  <2>1. after = InsertionSort(a, injected)
    BY DEF a
  <2>. QED
    BY <1>1, <2>1, AllNamed, SortType, SortPicks
<1>3. r \in Seq(Mount) /\ Range(r) = Range(after) \ gone /\ Picks(r, after)
  <2>. HIDE DEF gone
  <2>. QED
    BY <1>2, WithoutType, WithoutPicks
<1>4. Range(r) = {m}
  BY <1>1, <1>2, <1>3
<1>. HIDE DEF r, gone
<1>5. Picks(r, a)
  <2>. HIDE DEF a
  <2>. QED
    BY <1>2, <1>3, PicksTwice
<1>6. m \notin Range(mounts)
  OBVIOUS
<1>7. r = <<m>>
  BY <1>3, <1>4, <1>5, <1>6, OnlyOne
<1>. QED
  BY <1>7 DEF r, gone

\* The variables that the spec asks for.
LEMMA WantedIs ==
  ASSUME NEW k \in Keys, NEW b \in ProjectionSpec
  PROVE  {ProjectedEnv(k, b, e) : e \in Range(b.env)} = Range(NewEnv(k, b))
BY DEF NewEnv, Range

\* i is the first place of s whose element is kept.
IsFirst(s, gone, i) ==
  /\ i \in DOMAIN s /\ s[i] \notin gone
  /\ \A j \in DOMAIN s : s[j] \notin gone => i <= j

\* What is at the first place that Without keeps is the first element of what
\* it keeps.
LEMMA FirstKept ==
  ASSUME NEW S, NEW s \in Seq(S), NEW gone, NEW i, IsFirst(s, gone, i)
  PROVE  /\ Without(s, gone) # << >>
         /\ Head(Without(s, gone)) = s[i]
<1>. DEFINE at == KeptAt(s, gone)
            before == Ascending(at)
            r == Without(s, gone)
            Ahead == {j \in at : <<j, i>> \in before}
<1>1. /\ at \in SUBSET Nat /\ IsFiniteSet(at) /\ Orders(at, before)
      /\ Cardinality(at) \in Nat
  BY KeptPlaces
<1>2. i \in at /\ \A j \in at : i <= j
  BY DEF IsFirst, KeptAt
<1>3. /\ r \in Seq(S) /\ Len(r) = Cardinality(at)
      /\ r = Arranged(s, at, before)
  BY WithoutType, WithoutIsArranged
<1>4. Ahead = {}
  <2>. SUFFICES ASSUME NEW j \in at, <<j, i>> \in before PROVE FALSE
    OBVIOUS
  <2>1. j < i /\ i <= j /\ i \in Nat /\ j \in Nat
    BY <1>1, <1>2, AscendingPairs
  <2>. QED
    BY <2>1
<1>5. PlaceOf(at, before, i) = 1
  <2>1. Cardinality(Ahead) = 0
    BY <1>4, FS_EmptySet
  <2>. QED
    BY <2>1 DEF PlaceOf
<1>. HIDE DEF at, before, r
<1>6. 1 \in 1..Cardinality(at) /\ r[1] = s[i]
  BY <1>1, <1>2, <1>3, <1>5, Places, ArrangedElements
<1>7. r # << >>
  <2>1. Len(r) # 0
    BY <1>1, <1>3, <1>6
  <2>. QED
    BY <1>3, <2>1, EmptySeq
<1>8. Head(r) = r[1]
  BY <1>3, <1>7, HeadTailProperties
<1>. QED
  BY <1>6, <1>7, <1>8 DEF r

\* There is one if Without keeps anything.
LEMMA FirstExists ==
  ASSUME NEW S, NEW s \in Seq(S), NEW gone, Without(s, gone) # << >>
  PROVE  \E i : IsFirst(s, gone, i)
<1>. DEFINE at == KeptAt(s, gone)
            before == Ascending(at)
            n == Cardinality(at)
            r == Without(s, gone)
<1>1. at \in SUBSET Nat /\ n \in Nat
  BY KeptPlaces
<1>2. IsFiniteSet(at) /\ Orders(at, before)
  BY KeptPlaces
<1>3. r \in Seq(S) /\ Len(r) = n
  BY WithoutType
<1>. HIDE DEF n
<1>4. 1 \in 1..n
  <2>. HIDE DEF r
  <2>1. r # << >>
    BY DEF r
  <2>2. Len(r) # 0
    BY <1>3, <2>1, EmptySeq
  <2>. QED
    BY <1>1, <1>3, <2>2
<1>5. PICK i \in at : PlaceOf(at, before, i) = 1
  <2>. HIDE DEF at, before
  <2>1. \A p \in 1..Cardinality(at) :
          \E j \in at : PlaceOf(at, before, j) = p
    BY <1>2, Places
  <2>. QED
    BY <1>4, <2>1 DEF n
<1>6. ASSUME NEW j \in at
      PROVE  i <= j
  <2>1. PlaceOf(at, before, j) \in 1..n
    <3>. HIDE DEF at, before
    <3>. QED
      BY <1>2, Places DEF n
  <2>2. <<j, i>> \notin before
    <3>. SUFFICES ASSUME <<j, i>> \in before PROVE FALSE
      OBVIOUS
    <3>1. PlaceOf(at, before, j) < PlaceOf(at, before, i)
      <4>. HIDE DEF at, before
      <4>. QED
        BY <1>2, Places
    <3>. QED
      BY <1>1, <1>5, <2>1, <3>1
  <2>3. ~(j < i) /\ i \in Nat /\ j \in Nat
    BY <1>1, <2>2, AscendingPairs
  <2>. QED
    BY <2>3
<1>7. IsFirst(s, gone, i)
  BY <1>6 DEF IsFirst, KeptAt
<1>. QED
  BY <1>7

\* It stays the first when a list is appended.
LEMMA FirstAppended ==
  ASSUME NEW S, NEW s \in Seq(S), NEW t \in Seq(S), NEW gone, NEW i,
         IsFirst(s, gone, i)
  PROVE  IsFirst(s \o t, gone, i) /\ (s \o t)[i] = s[i]
<1>. DEFINE st == s \o t
<1>1. /\ DOMAIN s = 1..Len(s) /\ Len(s) \in Nat /\ Len(t) \in Nat
      /\ DOMAIN st = 1..(Len(s) + Len(t))
      /\ \A j \in 1..Len(s) : st[j] = s[j]
  BY LenProperties, ConcatProperties
<1>. HIDE DEF st
<1>2. i \in 1..Len(s) /\ i \in DOMAIN st /\ st[i] = s[i] /\ st[i] \notin gone
  BY <1>1 DEF IsFirst
<1>3. ASSUME NEW j \in DOMAIN st, st[j] \notin gone
      PROVE  i <= j
  <2>1. CASE j \in 1..Len(s)
    BY <1>1, <1>3, <2>1 DEF IsFirst
  <2>2. CASE j \notin 1..Len(s)
    BY <1>1, <1>2, <2>2
  <2>. QED
    BY <2>1, <2>2
<1>4. IsFirst(st, gone, i)
  BY <1>2, <1>3 DEF IsFirst
<1>. QED
  BY <1>2, <1>4 DEF st

\* All that is kept has one name.
OneName(s, gone, name) == \A x \in Range(s) : x \notin gone => x.name = name

\* The sort is stable: of the elements of one name, the first stays the first.
LEMMA FirstSorted ==
  ASSUME NEW S, Named(S), NEW s \in Seq(S), NEW injected, NEW gone, NEW name,
         OneName(s, gone, name), NEW i, IsFirst(s, gone, i)
  PROVE  /\ IsFirst(InsertionSort(s, injected), gone, SortPlace(s, injected, i))
         /\ InsertionSort(s, injected)[SortPlace(s, injected, i)] = s[i]
<1>. DEFINE t == InsertionSort(s, injected)
            Put(j) == SortPlace(s, injected, j)
<1>1. DOMAIN t = DOMAIN s /\ DOMAIN s = 1..Len(s) /\ Len(s) \in Nat
  BY SortType, LenProperties
<1>2. \A j \in DOMAIN s : Put(j) \in DOMAIN s /\ t[Put(j)] = s[j]
  BY SortPlaces
<1>3. i \in DOMAIN s /\ s[i] \notin gone
      /\ \A j \in DOMAIN s : s[j] \notin gone => i <= j
  BY DEF IsFirst
<1>4. \A j \in DOMAIN s : s[j] \notin gone => s[j].name = name
  BY DEF OneName, Range
<1>5. ASSUME NEW p \in DOMAIN s, t[p] \notin gone
      PROVE  Put(i) <= p
  <2>1. PICK j \in DOMAIN s : Put(j) = p
    BY SortOnto
  <2>2. s[j] \notin gone
    BY <1>2, <1>5, <2>1
  <2>3. i <= j /\ s[i].name = s[j].name
    BY <1>3, <1>4, <2>2
  <2>4. CASE i = j
    BY <1>1, <1>2, <2>1, <2>4
  <2>5. CASE i # j
    <3>1. i < j
      BY <1>1, <1>3, <2>3, <2>5
    <3>2. Sooner(s, injected, i, j)
      BY <2>3, <3>1 DEF Sooner
    <3>3. Put(i) < Put(j)
      BY <1>3, <3>2, SortBefore
    <3>. QED
      BY <1>1, <1>2, <1>3, <2>1, <3>3
  <2>. QED
    BY <2>4, <2>5
<1>6. Put(i) \in DOMAIN t /\ t[Put(i)] = s[i]
  BY <1>1, <1>2, <1>3
<1>. HIDE DEF t, Put
<1>7. IsFirst(t, gone, Put(i))
  BY <1>1, <1>3, <1>5, <1>6 DEF IsFirst
<1>. QED
  BY <1>6, <1>7 DEF t, Put

\* One more of an element.
LEMMA CountAppend ==
  ASSUME NEW S, NEW s \in Seq(S), NEW x \in S
  PROVE  Count(Append(s, x), x) # Count(s, x)
<1>. DEFINE a == Append(s, x)
            A == {i \in DOMAIN s : s[i] = x}
            B == {i \in DOMAIN a : a[i] = x}
            n == Len(s) + 1
<1>1. /\ DOMAIN s = 1..Len(s) /\ Len(s) \in Nat
      /\ DOMAIN a = 1..n
      /\ \A i \in 1..Len(s) : a[i] = s[i]
      /\ a[n] = x
  BY LenProperties, AppendProperties
<1>2. IsFiniteSet(A)
  BY CountFinite
<1>. HIDE DEF a
<1>3. B = A \cup {n} /\ n \notin A
  BY <1>1
<1>. HIDE DEF A, B, n
<1>4. Cardinality(A) \in Nat /\ Cardinality(B) = Cardinality(A) + 1
  BY <1>2, <1>3, FS_CardinalityType, FS_AddElement
<1>5. Cardinality(B) # Cardinality(A)
  BY <1>4
<1>. QED
  BY <1>5 DEF A, B, a, Count

\* If Do makes no difference to a container, it has found a root in it: a
\* default would be there once more.
LEMMA RestRoot ==
  ASSUME NEW k \in Keys, NEW b \in ProjectionSpec, NEW before \in Seq(EnvVar),
         NEW removed, NoSecret \notin removed, NEW secrets, NEW env,
         env = Without(before, EnvOf(removed)),
         BoundEnv(k, b, env, secrets) = before
  PROVE  MountPath(env) # ""
<1>. DEFINE x == DefaultRootEnv
            n == NewEnv(k, b)
            out == EnvOf(removed)
            E == EnvOf(secrets)
<1>1. /\ x \in EnvVar /\ env \in Seq(EnvVar) /\ n \in Seq(EnvVar)
  BY RootType, NewEnvType, WithoutType
<1>2. x \notin out /\ x \notin Range(n)
  <2>1. x.secret = NoSecret /\ x.secret \notin removed /\ x.field = NoField
    BY DEF DefaultRootEnv
  <2>2. b.secret # NoSecret /\ NoField \notin TypeFields(k, b)
    BY SpecParts, TypeFieldsAre
  <2>. HIDE DEF x
  <2>3. x \notin out
    BY <2>1 DEF EnvOf, isInjectedEnv
  <2>4. \A e \in Range(n) : e.secret # NoSecret \/ e.field # NoField
    BY <2>2, NewEnvType
  <2>. QED
    BY <2>1, <2>3, <2>4
<1>3. Count(env, x) = Count(before, x)
  <2>. HIDE DEF x, out
  <2>1. env = Without(before, out)
    BY DEF out
  <2>. QED
    BY <1>2, <2>1, CountWithout
<1>. SUFFICES ASSUME MountPath(env) = "" PROVE FALSE
  OBVIOUS
<1>. DEFINE a == Append(env, x)
<1>4. a \in Seq(EnvVar)
  BY <1>1, AppendOne
<1>5. before = a \/ before = InsertionSort(a \o n, E)
  BY DEF BoundEnv, Rooted
<1>6. Count(a, x) # Count(env, x)
  <2>. HIDE DEF x
  <2>. QED
    BY <1>1, CountAppend
<1>. HIDE DEF a, n, x, E
<1>7. a \o n \in Seq(EnvVar) /\ Count(a \o n, x) = Count(a, x)
  BY <1>1, <1>2, <1>4, ConcatRange, CountAppended
<1>8. Count(InsertionSort(a \o n, E), x) = Count(a \o n, x)
  <2>. DEFINE s == a \o n
  <2>1. s \in Seq(EnvVar)
    BY <1>7
  <2>. HIDE DEF s
  <2>2. Count(InsertionSort(s, E), x) = Count(s, x)
    BY <2>1, AllNamed, CountSort
  <2>. QED
    BY <2>2 DEF s
<1>. QED
  BY <1>3, <1>5, <1>6, <1>7, <1>8

\* The first root after Do is the one that Do has found.
LEMMA BoundEnvRoot ==
  ASSUME NEW k \in Keys, NEW b \in ProjectionSpec, NEW env \in Seq(EnvVar),
         NEW secrets, MountPath(env) # ""
  PROVE  MountPath(BoundEnv(k, b, env, secrets)) = MountPath(env)
<1>. DEFINE n == NewEnv(k, b)
            d == BoundEnv(k, b, env, secrets)
            s == env \o n
            E == EnvOf(secrets)
<1>1. /\ d \in Seq(EnvVar) /\ n \in Seq(EnvVar)
      /\ s \in Seq(EnvVar)
  BY BoundEnvType, NewEnvType, ConcatRange
<1>2. d = env \/ d = InsertionSort(s, E)
  BY DEF BoundEnv, Rooted
<1>3. RootsIn(env) # << >> /\ MountPath(env) = Head(RootsIn(env)).value
  BY MountPathIs
<1>4. PICK i : IsFirst(env, OtherEnvs, i)
  BY <1>3, FirstExists DEF RootsIn
<1>5. Head(RootsIn(env)) = env[i]
  BY <1>4, FirstKept DEF RootsIn
<1>6. IsFirst(s, OtherEnvs, i) /\ s[i] = env[i]
  <2>. HIDE DEF n
  <2>. QED
    BY <1>1, <1>4, FirstAppended
<1>7. OneName(s, OtherEnvs, RootEnv)
  <2>. HIDE DEF s
  <2>. QED
    BY <1>1, RangeType DEF OtherEnvs, OneName
<1>. HIDE DEF s, n, d, E
<1>8. CASE d = InsertionSort(s, E)
  <2>. DEFINE t == InsertionSort(s, E)
              p == SortPlace(s, E, i)
  <2>1. IsFirst(t, OtherEnvs, p) /\ t[p] = env[i]
    <3>. DEFINE gone == OtherEnvs
                name == RootEnv
                V == EnvVar
    <3>1. /\ Named(V) /\ s \in Seq(V) /\ IsFirst(s, gone, i)
          /\ OneName(s, gone, name)
      BY <1>1, <1>6, <1>7, AllNamed
    <3>. HIDE DEF gone, name, V
    <3>2. IsFirst(t, gone, p) /\ t[p] = s[i]
      BY <3>1, FirstSorted
    <3>. QED
      BY <1>6, <3>2 DEF gone
  <2>2. t = d
    BY <1>8
  <2>. HIDE DEF t, p
  <2>3. IsFirst(d, OtherEnvs, p) /\ d[p] = env[i]
    BY <2>1, <2>2
  <2>4. RootsIn(d) # << >> /\ Head(RootsIn(d)) = env[i]
    BY <1>1, <2>3, FirstKept DEF RootsIn
  <2>5. MountPath(d) = env[i].value
    BY <1>1, <2>4, MountPathIs
  <2>. QED
    BY <1>3, <1>5, <2>5 DEF d
<1>. QED
  BY <1>2, <1>8 DEF d

\* Containers as Bound wants them.
BoundIn(k, b, c) ==
  LET mounts == Without(c.mounts, {m \in Range(c.mounts) : m.name # b.secret})
      wanted == {ProjectedEnv(k, b, e) : e \in Range(b.env)}
  IN  IF isTargetContainer(b, c)
      THEN /\ mounts = <<[name |-> b.secret, dir |-> b.name,
                          root |-> MountPath(c.env)]>>
           /\ wanted \subseteq Range(c.env)
      ELSE /\ mounts = << >>
           /\ wanted \cap Range(c.env) = {}

\* Every container is so if Do makes no difference.
LEMMA DoContainers ==
  ASSUME NEW k \in Keys, NEW b \in ProjectionSpec, NEW ps, PodOK(ps),
         Fits(k, b, ps),
         Do(k, b, ps) = ps, NEW c \in Range(Do(k, b, ps).containers)
  PROVE  BoundIn(k, b, c)
<1>. DEFINE u == Undo(k, b, ps)
            d == Do(k, b, ps)
            names == DoNames(k, b, ps)
            secrets == DoSecrets(k, b, ps)
            removed == removeSecrets(k, b, ps)
            wanted == {ProjectedEnv(k, b, e) : e \in Range(b.env)}
            others == {m \in Range(c.mounts) : m.name # b.secret}
<1>1. /\ u \in WithPod /\ CleanOf(k, b, u) /\ ps \in WithPod
      /\ ListsUndone(removed, UndoNames(k, b, ps), ps, u)
  BY UndoKeeps, UndoIs DEF PodOK
<1>2. ListsDone(k, b, names, secrets, u, d)
  BY DoIs DEF PodOK
<1>3. NoSecret \notin removed /\ d = ps
  BY RemoveSecrets
<1>4. wanted = Range(NewEnv(k, b))
  BY WantedIs
<1>5. \A e \in wanted : e.secret = b.secret \/ e.field # NoField
  <2>1. NoField \notin TypeFields(k, b)
    BY TypeFieldsAre
  <2>. QED
    BY <1>4, <2>1, NewEnvType
<1>. HIDE DEF u, d, names, secrets, removed, wanted
<1>6. PICK i \in DOMAIN d.containers : c = d.containers[i]
  BY DEF Range, d
<1>. DEFINE o == u.containers[i]
            env == o.env
            mounts == o.mounts
<1>7. /\ i \in DOMAIN u.containers /\ c.name = o.name
      /\ ~isTargetContainer(b, o) => c = o
      /\ isTargetContainer(b, o) =>
           /\ c.mounts = InsertionSort(Append(mounts, NewMount(b, env)),
                                      MountsNamed(names))
           /\ c.env = BoundEnv(k, b, env, secrets)
  BY <1>2, <1>6 DEF ListsDone
<1>8. o \in Range(u.containers) /\ env \in Seq(EnvVar) /\ mounts \in Seq(Mount)
  <2>1. u.containers \in Seq(Container)
    BY <1>1, PodParts
  <2>. QED
    BY <1>1, <1>7, <2>1, PodParts, RangeType
<1>9. /\ \A m \in Range(mounts) : m.name # b.secret
      /\ \A e \in Range(env) : e.secret # b.secret /\ e.field = NoField
  BY <1>1, <1>8 DEF CleanOf
<1>10. isTargetContainer(b, c) <=> isTargetContainer(b, o)
  BY <1>7 DEF isTargetContainer
<1>11. CASE ~isTargetContainer(b, c)
  <2>1. c.mounts = mounts /\ c.env = env
    BY <1>7, <1>10, <1>11
  <2>. HIDE DEF env, mounts
  <2>2. wanted \cap Range(c.env) = {}
    BY <1>5, <1>9, <2>1
  <2>3. others = Range(mounts)
    BY <1>9, <2>1
  <2>4. Without(mounts, Range(mounts)) = << >>
    <3>1. /\ Without(mounts, Range(mounts)) \in Seq(Mount)
          /\ Range(Without(mounts, Range(mounts))) = {}
      BY <1>8, WithoutType
    <3>2. \A s \in Seq(Mount) : Range(s) = {} => s = << >>
      <4>1. ASSUME NEW s \in Seq(Mount), Range(s) = {}
            PROVE  s = << >>
        <5>1. DOMAIN s = 1..Len(s) /\ Len(s) \in Nat
          BY LenProperties
        <5>2. DOMAIN s = {}
          BY <4>1 DEF Range
        <5>3. Len(s) = 0
          BY <5>1, <5>2
        <5>. QED
          BY <5>3, EmptySeq
      <4>. QED
        BY <4>1
    <3>. QED
      BY <3>1, <3>2
  <2>5. Without(c.mounts, others) = << >>
    BY <2>1, <2>3, <2>4
  <2>. QED
    BY <1>11, <2>2, <2>5 DEF BoundIn, wanted
<1>12. CASE isTargetContainer(b, c)
  <2>. DEFINE m == NewMount(b, env)
  <2>1. /\ c.mounts = InsertionSort(Append(mounts, m), MountsNamed(names))
        /\ c.env = BoundEnv(k, b, env, secrets)
    BY <1>7, <1>10, <1>12
  <2>2. c.env \in Seq(EnvVar) /\ env = Without(c.env, EnvOf(removed))
    BY <1>1, <1>3, <1>6, PodParts DEF ListsUndone
  <2>. HIDE DEF env, mounts
  <2>3. m \in Mount /\ m.name = b.secret
    BY <1>8, NewMountType
  <2>4. MountPath(env) # ""
    <3>. DEFINE before == c.env
    <3>1. /\ before \in Seq(EnvVar) /\ env = Without(before, EnvOf(removed))
          /\ BoundEnv(k, b, env, secrets) = before
      BY <2>2, <2>1
    <3>. HIDE DEF before
    <3>. QED
      BY <1>3, <3>1, RestRoot
  <2>5. MountPath(c.env) = MountPath(env)
    <3>1. MountPath(BoundEnv(k, b, env, secrets)) = MountPath(env)
      BY <1>8, <2>4, BoundEnvRoot
    <3>. QED
      BY <2>1, <3>1
  <2>6. m = [name |-> b.secret, dir |-> b.name, root |-> MountPath(c.env)]
    BY <2>4, <2>5 DEF NewMount
  <2>7. wanted \subseteq Range(c.env)
    BY <1>4, <1>8, <2>1, BoundEnvType
  <2>. HIDE DEF m
  <2>8. Without(c.mounts, others) = <<m>>
    <3>. DEFINE after == c.mounts
                injected == MountsNamed(names)
    <3>1. after = InsertionSort(Append(mounts, m), injected)
      BY <2>1
    <3>. HIDE DEF after, injected
    <3>2. Without(after, {y \in Range(after) : y.name # b.secret}) = <<m>>
      BY <1>8, <1>9, <2>3, <3>1, MountedOnce
    <3>. QED
      BY <3>2 DEF after
  <2>9. Without(c.mounts, others)
          = <<[name |-> b.secret, dir |-> b.name, root |-> MountPath(c.env)]>>
    BY <2>6, <2>8
  <2>. QED
    BY <1>12, <2>7, <2>9 DEF BoundIn, wanted
<1>. QED
  BY <1>11, <1>12

\* A projection that would not patch the workload is bound.
LEMMA RestBound ==
  ASSUME NEW k \in Live, Inv, Short, Do(k, SpecOf(k), pod) = pod
  PROVE  Bound(k)
<1>. DEFINE b == SpecOf(k)
            u == Undo(k, b, pod)
<1>1. k \in Keys /\ b \in ProjectionSpec /\ PodOK(pod) /\ Fits(k, b, pod)
  BY SpecOfType DEF Inv, Short
<1>2. Do(k, b, pod) = pod
  OBVIOUS
<1>. HIDE DEF b
<1>3. MarksDone(k, b, u, pod) /\ ElementsDone(k, b, u, pod) /\ CleanOf(k, b, u)
  BY <1>1, <1>2, DoIs, DoElements, UndoKeeps DEF PodOK
<1>4. \A c \in Range(pod.containers) : BoundIn(k, b, c)
  BY <1>1, <1>2, DoContainers
<1>. HIDE DEF u
<1>5. pod.annotations[k] = b.secret
  BY <1>1, <1>3 DEF MarksDone
<1>6. ProjectedVolume(k, b) \in Range(pod.volumes)
  BY <1>3 DEF ElementsDone
<1>7. ASSUME NEW f \in {k} \X {"type", "provider"}
      PROVE  pod.template[f] = b[f[2]]
  <2>1. f \in Field /\ f[1] = k
    BY <1>1 DEF Field
  <2>2. CASE b[f[2]] # ""
    <3>1. f \in TypeFields(k, b)
      BY <1>7, <2>2 DEF TypeFields
    <3>. QED
      BY <1>3, <2>1, <3>1 DEF MarksDone
  <2>3. CASE b[f[2]] = ""
    <3>1. f \notin TypeFields(k, b)
      BY <2>3 DEF TypeFields
    <3>2. u.template[f] = ""
      BY <1>3, <2>1 DEF CleanOf
    <3>. QED
      BY <1>3, <2>1, <2>3, <3>1, <3>2 DEF MarksDone
  <2>. QED
    BY <2>2, <2>3
<1>. QED
  BY <1>2, <1>4, <1>5, <1>6, <1>7 DEF Bound, BoundIn, b

\* Undo and Do change the annotation of one projection.
LEMMA AnnotationsAre ==
  ASSUME NEW k \in Keys, NEW b \in ProjectionSpec, NEW ps \in WithPod,
         NEW j \in Keys
  PROVE  /\ Undo(k, b, ps).annotations[j]
              = IF j = k THEN NoSecret ELSE ps.annotations[j]
         /\ j # k /\ Fits(k, b, ps) =>
              Do(k, b, ps).annotations[j] = ps.annotations[j]
<1>. DEFINE u == Undo(k, b, ps)
            d == Do(k, b, ps)
<1>1. MarksUndone(k, ps, u)
  BY UndoIs
<1>2. Fits(k, b, ps) => MarksDone(k, b, u, d)
  BY DoIs
<1>. HIDE DEF u, d
<1>3. u.annotations[j] = IF j = k THEN NoSecret ELSE ps.annotations[j]
  BY <1>1 DEF MarksUndone
<1>4. j # k /\ Fits(k, b, ps) => d.annotations[j] = u.annotations[j]
  BY <1>2 DEF MarksDone
<1>. QED
  BY <1>3, <1>4 DEF u, d

\* Annotations are of projections that exist.
MarkInv ==
  /\ \A k \in Keys : pod.annotations[k] # NoSecret => k \in Live
  /\ \A k \in Keys : own.annotations[k] = NoSecret

\* Every step keeps it so.
LEMMA MarkNext == Inv /\ Short /\ MarkInv /\ [Next]_vars => MarkInv'
<1>. SUFFICES ASSUME Inv, Short, MarkInv, [Next]_vars
              PROVE  MarkInv'
  OBVIOUS
<1>1. /\ TypeOK /\ PodOK(pod) /\ PodOK(own) /\ deleting \subseteq Live
      /\ specs \in [Keys -> SUBSET ProjectionSpec]
      /\ pod \in WithPod /\ own \in WithPod
      /\ pod.containers # << >> /\ own.containers # << >>
  BY DEF Inv, TypeOK, PodOK
<1>2. /\ \A j \in Keys : pod.annotations[j] # NoSecret => specs[j] # {}
      /\ \A j \in Keys : own.annotations[j] = NoSecret
  BY DEF MarkInv, Live
<1>3. ASSUME NEW k \in Keys, Bind(k)
      PROVE  MarkInv'
  <2>1. /\ k \in Live /\ pod' = Do(k, SpecOf(k), pod)
        /\ own' = own /\ specs' = specs
    BY <1>3 DEF Bind, Pending
  <2>2. SpecOf(k) \in ProjectionSpec /\ Fits(k, SpecOf(k), pod)
    BY <1>1, <2>1, SpecOfType DEF Short
  <2>3. \A j \in Keys : j # k => pod'.annotations[j] = pod.annotations[j]
    BY <1>1, <2>1, <2>2, AnnotationsAre
  <2>. QED
    BY <1>2, <2>1, <2>3 DEF MarkInv, Live
<1>4. ASSUME NEW k \in Keys, Unbind(k)
      PROVE  MarkInv'
  <2>1. /\ k \in Live /\ pod' = Undo(k, SpecOf(k), pod)
        /\ own' = own /\ specs' = [specs EXCEPT ![k] = {}]
    BY <1>1, <1>4 DEF Unbind
  <2>2. SpecOf(k) \in ProjectionSpec
    BY <1>1, <2>1, SpecOfType
  <2>3. \A j \in Keys :
          pod'.annotations[j] = IF j = k THEN NoSecret ELSE pod.annotations[j]
    BY <1>1, <2>1, <2>2, AnnotationsAre
  <2>4. \A j \in Keys : j # k => specs'[j] = specs[j]
    BY <1>1, <2>1
  <2>. QED
    BY <1>2, <2>1, <2>3, <2>4 DEF MarkInv, Live
<1>5. ASSUME NEW k \in Keys, Project(k)
      PROVE  MarkInv'
  <2>1. PICK b \in Specs[k] : specs' = [specs EXCEPT ![k] = {b}]
    BY <1>5 DEF Project
  <2>2. \A j \in Keys : specs'[j] = IF j = k THEN {b} ELSE specs[j]
    BY <1>1, <2>1
  <2>3. pod' = pod /\ own' = own
    BY <1>5 DEF Project
  <2>. QED
    BY <1>2, <2>2, <2>3 DEF MarkInv, Live
<1>6. ASSUME NEW k \in Keys, Delete(k)
      PROVE  MarkInv'
  BY <1>2, <1>6 DEF Delete, MarkInv, Live
<1>7. ASSUME EditWorkload
      PROVE  MarkInv'
  <2>1. /\ \E z \in Extras : pod' = Toggled(pod, z) /\ own' = Toggled(own, z)
        /\ specs' = specs
    BY <1>7 DEF EditWorkload
  <2>2. /\ pod'.annotations = pod.annotations
        /\ own'.annotations = own.annotations
    BY <1>1, <2>1, ToggledIs DEF ListsToggled
  <2>. QED
    BY <1>2, <2>1, <2>2 DEF MarkInv, Live
<1>8. ASSUME RecreateWorkload
      PROVE  MarkInv'
  BY <1>2, <1>8 DEF RecreateWorkload, MarkInv, Live
<1>9. ASSUME UNCHANGED vars
      PROVE  MarkInv'
  BY <1>2, <1>9 DEF vars, MarkInv, Live
<1>. QED
  BY <1>3, <1>4, <1>5, <1>6, <1>7, <1>8, <1>9 DEF Next

\* While the lists that Do sorts fit in a block, the reconcilers rest only
\* when the workload carries every projection, in the containers that it is
\* for and in no others, and no mark of one that is gone, whatever roots the
\* owner has set: as long as a SERVICE_BINDING_ROOT without a value is in the
\* way they do not rest.
THEOREM RestsOnlyWhenBoundAlways == Spec /\ []Short => []RestsOnlyWhenBound
<1>1. Init => MarkInv
  BY ManifestAssumption DEF Init, MarkInv
<1>2. ASSUME Inv, Short, MarkInv
      PROVE  RestsOnlyWhenBound
  <2>. SUFFICES ASSUME deleting = {}, \A k \in Keys : ~Pending(k),
                       NEW k \in Keys
                PROVE  IF k \in Live THEN Bound(k) ELSE Unbound(k)
    BY DEF RestsOnlyWhenBound
  <2>1. CASE k \in Live
    <3>1. Do(k, SpecOf(k), pod) = pod
      BY <2>1 DEF Pending
    <3>2. Bound(k)
      BY <1>2, <2>1, <3>1, RestBound
    <3>. QED
      BY <2>1, <3>2
  <2>2. CASE k \notin Live
    <3>1. pod.annotations[k] = NoSecret
      BY <1>2, <2>2 DEF MarkInv
    <3>2. \A f \in {k} \X {"type", "provider"} : f \in Field /\ f[1] = k
      BY DEF Field
    <3>3. \A f \in {k} \X {"type", "provider"} : pod.template[f] = ""
      BY <1>2, <3>1, <3>2 DEF Inv, PodOK, TemplateRecorded
    <3>. QED
      BY <2>2, <3>1, <3>3 DEF Unbound
  <2>. QED
    BY <2>1, <2>2
<1>. QED
  BY <1>1, <1>2, MarkNext, InvAlways, PTL DEF Spec
=============================================================================
