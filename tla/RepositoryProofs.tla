--------------------------- MODULE RepositoryProofs ---------------------------
(***************************************************************************)
(* Theorems about the two repositories and the lists they return, for any   *)
(* table of validated rows.                                                 *)
(***************************************************************************)
EXTENDS Repositories, DatasetProofs

-----------------------------------------------------------------------------
(* Sorted lists. *)

\* R orders the elements of S, none before itself.
Orders(R, S) ==
  /\ \A x \in S : <<x, x>> \notin R
  /\ \A x, y, z \in S : <<x, y>> \in R /\ <<y, z>> \in R => <<x, z>> \in R
  /\ \A x, y \in S : x = y \/ <<x, y>> \in R \/ <<y, x>> \in R

Below(R, S, x) == {y \in S : <<y, x>> \in R}

(* The number of elements before it is an element's place.                   *)
LEMMA PlacesAreDistinct ==
  ASSUME NEW S, IsFiniteSet(S), NEW R, Orders(R, S)
  PROVE  [x \in S |-> Cardinality(Below(R, S, x)) + 1] \in Bijection(S, 1..Cardinality(S))
<1> DEFINE place == [x \in S |-> Cardinality(Below(R, S, x)) + 1]
           size == Cardinality(S)
<1>1. size \in Nat
  BY FS_CardinalityType
<1>2. ASSUME NEW x \in S
      PROVE  /\ IsFiniteSet(Below(R, S, x)) /\ Cardinality(Below(R, S, x)) \in Nat
             /\ Cardinality(Below(R, S, x)) < size
  <2>1. Below(R, S, x) \in SUBSET S /\ Below(R, S, x) # S
    BY DEF Below, Orders
  <2>2. IsFiniteSet(Below(R, S, x)) /\ Cardinality(Below(R, S, x)) \in Nat
    BY <2>1, FS_Subset, FS_CardinalityType
  <2> QED
    BY <1>1, <2>1, <2>2, FS_Subset
<1>3. place \in [S -> 1..size]
  <2> SUFFICES ASSUME NEW x \in S PROVE Cardinality(Below(R, S, x)) + 1 \in 1..size
    OBVIOUS
  <2> QED
    BY <1>1, <1>2
<1>4. ASSUME NEW x \in S, NEW y \in S, <<x, y>> \in R
      PROVE  Cardinality(Below(R, S, x)) < Cardinality(Below(R, S, y))
  <2>1. /\ Below(R, S, x) \in SUBSET Below(R, S, y)
        /\ x \in Below(R, S, y) /\ x \notin Below(R, S, x)
    BY <1>4 DEF Below, Orders
  <2>2. Cardinality(Below(R, S, x)) # Cardinality(Below(R, S, y))
    BY <1>2, <2>1, FS_Subset
  <2>3. Cardinality(Below(R, S, x)) <= Cardinality(Below(R, S, y))
    BY <1>2, <2>1, FS_Subset
  <2> QED
    BY <1>2, <2>2, <2>3
<1>5. ASSUME NEW x \in S, NEW y \in S, place[x] = place[y]
      PROVE  x = y
  <2>1. Cardinality(Below(R, S, x)) = Cardinality(Below(R, S, y))
    BY <1>2, <1>5
  <2>2. <<x, y>> \notin R /\ <<y, x>> \notin R
    BY <1>2, <1>4, <2>1
  <2> QED
    BY <2>2 DEF Orders
<1> HIDE DEF place
<1>6. place \in Injection(S, 1..size)
  BY <1>3, <1>5 DEF Injection, IsInjective
<1>7. IsFiniteSet(1..size) /\ Cardinality(1..size) = size
  BY <1>1, FS_Interval
<1>8. place \in Surjection(S, 1..size)
  BY <1>6, <1>7, FS_Injection
<1> QED
  BY <1>6, <1>8 DEF Bijection, place

\* What SortedBy does, for an order that is a set of pairs.
Listed(R, S) ==
  [n \in 1..Cardinality(S) |-> CHOOSE x \in S : Cardinality(Below(R, S, x)) = n - 1]

(* It lists every element once, each before those that come after it.        *)
LEMMA ListedInOrder ==
  ASSUME NEW S, IsFiniteSet(S), NEW R, Orders(R, S)
  PROVE  /\ Listed(R, S) \in Bijection(1..Cardinality(S), S)
         /\ \A i, j \in 1..Cardinality(S) :
              i < j => <<Listed(R, S)[i], Listed(R, S)[j]>> \in R
<1> DEFINE place == [x \in S |-> Cardinality(Below(R, S, x)) + 1]
           size == Cardinality(S)
           list == Listed(R, S)
<1>1. place \in Bijection(S, 1..size)
  BY PlacesAreDistinct
<1>2. size \in Nat
  BY FS_CardinalityType
<1>3. ASSUME NEW x \in S
      PROVE  Below(R, S, x) \in SUBSET S /\ IsFiniteSet(Below(R, S, x)) /\ Cardinality(Below(R, S, x)) \in Nat
  <2>1. Below(R, S, x) \in SUBSET S
    BY DEF Below
  <2> QED
    BY <2>1, FS_Subset, FS_CardinalityType
<1>4. ASSUME NEW n \in 1..size
      PROVE  list[n] \in S /\ place[list[n]] = n
  <2>1. PICK x \in S : place[x] = n
    BY <1>1 DEF Bijection, Surjection
  <2>2. Cardinality(Below(R, S, x)) = n - 1
    BY <1>2, <1>3, <2>1
  <2>3. list[n] \in S /\ Cardinality(Below(R, S, list[n])) = n - 1
    BY <2>2 DEF Listed
  <2> QED
    BY <1>2, <2>3
<1>5. list \in [1..size -> S]
  BY <1>4 DEF Listed
<1>6. ASSUME NEW x \in S
      PROVE  \E n \in 1..size : list[n] = x
  <2>1. place[x] \in 1..size
    BY <1>1 DEF Bijection, Surjection
  <2>2. place[list[place[x]]] = place[x] /\ list[place[x]] \in S
    BY <1>4, <2>1
  <2> HIDE DEF place, list
  <2>3. list[place[x]] = x
    BY <1>1, <2>2 DEF Bijection, Injection, IsInjective
  <2> QED
    BY <2>1, <2>3
<1>7. ASSUME NEW i \in 1..size, NEW j \in 1..size, i < j
      PROVE  <<list[i], list[j]>> \in R
  <2>1. list[i] \in S /\ list[j] \in S /\ place[list[i]] = i /\ place[list[j]] = j
    BY <1>4
  <2>2. list[i] # list[j]
    BY <1>2, <1>7, <2>1
  <2>3. ~(<<list[j], list[i]>> \in R)
    <3> SUFFICES ASSUME <<list[j], list[i]>> \in R PROVE FALSE
      OBVIOUS
    <3>1. Below(R, S, list[j]) \in SUBSET Below(R, S, list[i])
      BY <2>1 DEF Below, Orders
    <3>2. Cardinality(Below(R, S, list[j])) <= Cardinality(Below(R, S, list[i]))
      BY <1>3, <2>1, <3>1, FS_Subset
    <3>3. Cardinality(Below(R, S, list[i])) + 1 = i /\ Cardinality(Below(R, S, list[j])) + 1 = j
      BY <2>1
    <3> QED
      BY <1>2, <1>3, <1>7, <2>1, <3>2, <3>3
  <2> QED
    BY <2>1, <2>2, <2>3 DEF Orders
<1> HIDE DEF list
<1>8. list \in Surjection(1..size, S)
  BY <1>5, <1>6 DEF Surjection
<1>9. list \in Injection(1..size, S)
  <2>1. ASSUME NEW i \in 1..size, NEW j \in 1..size, list[i] = list[j] PROVE i = j
    BY <1>4, <2>1
  <2> QED
    BY <1>5, <2>1 DEF Injection, IsInjective
<1> QED
  BY <1>7, <1>8, <1>9 DEF Bijection, list

(* Rows by time, then by id: the lists of rows in limbo, of rows in a window *)
(* and of the rows of a group, in both repositories.                         *)
TimeOrder(tab, ids) ==
  {p \in ids \X ids : \/ tab[p[1]].at < tab[p[2]].at
                      \/ tab[p[1]].at = tab[p[2]].at /\ p[1] < p[2]}

LEMMA RowsListed ==
  ASSUME NEW tab, NEW ids, IsFiniteSet(ids), ids \subseteq Nat, \A i \in ids : tab[i].at \in Int
  PROVE  /\ RowList(tab, ids) \in Bijection(1..Cardinality(ids), ids)
         /\ RowList(tab, ids) \in Seq(ids) /\ Len(RowList(tab, ids)) = Cardinality(ids)
         /\ ToSet(RowList(tab, ids)) = ids
         /\ Orders(TimeOrder(tab, ids), ids)
         /\ \A i, j \in 1..Cardinality(ids) : i < j =>
              <<RowList(tab, ids)[i], RowList(tab, ids)[j]>> \in TimeOrder(tab, ids)
<1> DEFINE R == TimeOrder(tab, ids)
           list == RowList(tab, ids)
<1>1. Orders(R, ids)
  <2> DEFINE at(i) == tab[i].at
  <2>1. \A x, y \in ids : <<x, y>> \in R <=> at(x) < at(y) \/ (at(x) = at(y) /\ x < y)
    BY DEF TimeOrder
  <2>2. \A x \in ids : at(x) \in Int /\ x \in Nat
    OBVIOUS
  <2> HIDE DEF at, R
  <2>3. \A x \in ids : <<x, x>> \notin R
    BY <2>1, <2>2
  <2>4. \A x, y, z \in ids : <<x, y>> \in R /\ <<y, z>> \in R => <<x, z>> \in R
    BY <2>1, <2>2
  <2>5. ASSUME NEW x \in ids, NEW y \in ids
        PROVE  x = y \/ <<x, y>> \in R \/ <<y, x>> \in R
    <3>1. at(x) < at(y) \/ at(y) < at(x) \/ (at(x) = at(y) /\ (x = y \/ x < y \/ y < x))
      BY <2>2
    <3> QED
      BY <2>1, <3>1
  <2> QED
    BY <2>3, <2>4, <2>5 DEF Orders
<1>2. list = Listed(R, ids)
  <2>1. ASSUME NEW x \in ids
        PROVE  {y \in ids : tab[y].at < tab[x].at \/ (tab[y].at = tab[x].at /\ y < x)} = Below(R, ids, x)
    BY DEF Below, TimeOrder
  <2> DEFINE Before(y, x) == tab[y].at < tab[x].at \/ (tab[y].at = tab[x].at /\ y < x)
             Nth(n) == CHOOSE x \in ids : Cardinality({y \in ids : Before(y, x)}) = n - 1
  <2>2. list = [n \in 1..Cardinality(ids) |-> Nth(n)]
    BY DEF RowList, SortedBy
  <2>3. ASSUME NEW n
        PROVE  Nth(n) = CHOOSE x \in ids : Cardinality(Below(R, ids, x)) = n - 1
    <3>1. \A x \in ids : {y \in ids : Before(y, x)} = Below(R, ids, x)
      BY <2>1
    <3> HIDE DEF Before
    <3> QED
      BY <3>1
  <2> HIDE DEF list, Nth
  <2> QED
    BY <2>2, <2>3 DEF Listed
<1> HIDE DEF list
<1>3. /\ list \in Bijection(1..Cardinality(ids), ids)
      /\ \A i, j \in 1..Cardinality(ids) : i < j => <<list[i], list[j]>> \in R
  BY <1>1, <1>2, ListedInOrder
<1>4. Cardinality(ids) \in Nat
  BY FS_CardinalityType
<1>5. list \in Seq(ids) /\ Len(list) = Cardinality(ids) /\ ToSet(list) = ids
  BY <1>3, <1>4 DEF Bijection, Surjection, ToSet
<1> QED
  BY <1>1, <1>3, <1>5 DEF list

(* The fake sorts rows the same way.                                         *)
LEMMA FakeSortsAlike ==
  ASSUME NEW tab, NEW ids
  PROVE  StableByTime(tab, ids) = RowList(tab, ids)
BY DEF StableByTime, RowList, SortedBy

(* Duplicate groups by transaction and source.                               *)
Key == (DOMAIN TextRank) \X Sources

KeyOrder(keys) == {p \in keys \X keys : KeyBefore(p[1], p[2])}

LEMMA KeysListed ==
  ASSUME NEW keys, IsFiniteSet(keys), keys \subseteq Key
  PROVE  /\ SortedBy(keys, KeyBefore) \in Bijection(1..Cardinality(keys), keys)
         /\ SortedBy(keys, KeyBefore) \in Seq(keys)
         /\ Len(SortedBy(keys, KeyBefore)) = Cardinality(keys)
         /\ ToSet(SortedBy(keys, KeyBefore)) = keys
         /\ Orders(KeyOrder(keys), keys)
         /\ \A i, j \in 1..Cardinality(keys) : i < j =>
              <<SortedBy(keys, KeyBefore)[i], SortedBy(keys, KeyBefore)[j]>> \in KeyOrder(keys)
<1> DEFINE R == KeyOrder(keys)
           list == SortedBy(keys, KeyBefore)
<1>1. Orders(R, keys)
  <2> DEFINE tx(k) == TextRank[k[1]]
             src(k) == SourceRank[k[2]]
  <2>1. ASSUME NEW k \in keys
        PROVE  k \in Key /\ k = <<k[1], k[2]>> /\ tx(k) \in Int /\ src(k) \in Int
    <3>1. k \in Key /\ k = <<k[1], k[2]>> /\ k[1] \in DOMAIN TextRank /\ k[2] \in Sources
      BY DEF Key
    <3>2. tx(k) \in Int
      BY <3>1, TextRankAssumption
    <3>3. src(k) \in Int
      BY <3>1 DEF SourceRank, Sources
    <3> QED
      BY <3>1, <3>2, <3>3
  <2>2. ASSUME NEW k \in keys, NEW l \in keys
        PROVE  k[1] = l[1] <=> tx(k) = tx(l)
    <3>1. k[1] \in DOMAIN TextRank /\ l[1] \in DOMAIN TextRank
      BY DEF Key
    <3> QED
      BY <3>1, TextRankAssumption
  <2>3. ASSUME NEW k \in keys, NEW l \in keys
        PROVE  k[2] = l[2] <=> src(k) = src(l)
    <3>1. k[2] \in Sources /\ l[2] \in Sources
      BY DEF Key
    <3> QED
      BY <3>1 DEF SourceRank, Sources
  <2>4. \A k, l \in keys : k = l <=> tx(k) = tx(l) /\ src(k) = src(l)
    BY <2>1, <2>2, <2>3
  <2>5. \A k, l \in keys : <<k, l>> \in R <=> tx(k) < tx(l) \/ (tx(k) = tx(l) /\ src(k) < src(l))
    BY <2>2 DEF KeyBefore, KeyOrder
  <2> HIDE DEF R, tx, src
  <2>6. \A k \in keys : <<k, k>> \notin R
    BY <2>1, <2>5
  <2>7. \A k, l, m \in keys : <<k, l>> \in R /\ <<l, m>> \in R => <<k, m>> \in R
    BY <2>1, <2>5
  <2>8. ASSUME NEW k \in keys, NEW l \in keys
        PROVE  k = l \/ <<k, l>> \in R \/ <<l, k>> \in R
    <3>1. \/ tx(k) < tx(l) \/ tx(l) < tx(k)
          \/ tx(k) = tx(l) /\ (src(k) < src(l) \/ src(l) < src(k) \/ src(k) = src(l))
      BY <2>1
    <3> QED
      BY <2>4, <2>5, <3>1
  <2> QED
    BY <2>6, <2>7, <2>8 DEF Orders
<1>2. list = Listed(R, keys)
  <2>1. \A x \in keys : {y \in keys : KeyBefore(y, x)} = Below(R, keys, x)
    BY DEF Below, KeyOrder
  <2> DEFINE Nth(n) == CHOOSE x \in keys : Cardinality({y \in keys : KeyBefore(y, x)}) = n - 1
  <2>2. list = [n \in 1..Cardinality(keys) |-> Nth(n)]
    BY DEF SortedBy
  <2>3. ASSUME NEW n
        PROVE  Nth(n) = CHOOSE x \in keys : Cardinality(Below(R, keys, x)) = n - 1
    BY <2>1
  <2> HIDE DEF list, Nth, R
  <2> QED
    BY <2>2, <2>3 DEF Listed
<1> HIDE DEF list, R
<1>3. /\ list \in Bijection(1..Cardinality(keys), keys)
      /\ \A i, j \in 1..Cardinality(keys) : i < j => <<list[i], list[j]>> \in R
  BY <1>1, <1>2, ListedInOrder
<1>4. Cardinality(keys) \in Nat
  BY FS_CardinalityType
<1>5. list \in Seq(keys) /\ Len(list) = Cardinality(keys) /\ ToSet(list) = keys
  BY <1>3, <1>4 DEF Bijection, Surjection, ToSet
<1> QED
  BY <1>1, <1>3, <1>5 DEF list, R

(* A finite set of times has an earliest.                                    *)
LEMMA EarliestTime ==
  ASSUME NEW times, IsFiniteSet(times), times \subseteq Int, times # {}
  PROVE  Min(times) \in times /\ \A t \in times : Min(times) <= t
<1> DEFINE OneLess(n) == \A S \in SUBSET times : Cardinality(S) = n /\ S # {} =>
                           \E x \in S : \A y \in S : x <= y
           P == {n \in Nat : OneLess(n)}
<1>1. \A S \in SUBSET times : IsFiniteSet(S) /\ Cardinality(S) \in Nat
  BY FS_Subset, FS_CardinalityType
<1>2. 0 \in P
  <2>1. \A S \in SUBSET times : Cardinality(S) = 0 => S = {}
    BY <1>1, FS_EmptySet
  <2> QED
    BY <2>1
<1>3. ASSUME NEW n \in Nat, n \in P
      PROVE  n + 1 \in P
  <2> SUFFICES ASSUME NEW S \in SUBSET times, Cardinality(S) = n + 1, S # {}
               PROVE  \E x \in S : \A y \in S : x <= y
    OBVIOUS
  <2>1. PICK z \in S : TRUE
    OBVIOUS
  <2>2. S \ {z} \in SUBSET times /\ Cardinality(S \ {z}) = n
    <3>1. IsFiniteSet(S) /\ S \ {z} \in SUBSET times
      BY <1>1
    <3>2. Cardinality(S \ {z}) = Cardinality(S) - 1
      BY <2>1, <3>1, FS_RemoveElement
    <3> QED
      BY <3>1, <3>2
  <2>3. CASE S \ {z} = {}
    BY <2>3
  <2>4. CASE S \ {z} # {}
    <3>1. PICK x \in S \ {z} : \A y \in S \ {z} : x <= y
      BY <1>3, <2>2, <2>4
    <3>2. x \in Int /\ z \in Int /\ \A y \in S \ {z} : y \in Int
      OBVIOUS
    <3>3. CASE x <= z
      BY <3>1, <3>3
    <3>4. CASE ~(x <= z)
      <4>1. \A y \in S : z <= y
        BY <3>1, <3>2, <3>4
      <4> QED
        BY <4>1
    <3> QED
      BY <3>3, <3>4
  <2> QED
    BY <2>3, <2>4
<1> HIDE DEF P
<1>4. Nat \subseteq P
  BY <1>2, <1>3, SetInduction
<1>5. \E x \in times : \A y \in times : x <= y
  <2>1. Cardinality(times) \in P
    BY <1>1, <1>4
  <2> QED
    BY <2>1 DEF P
<1> QED
  BY <1>5 DEF Min

(* FindOrphanedApprovals and FindGhostOrders list each transaction once, by  *)
(* time, then by id.                                                         *)
Items(tab, ids) == {Item(tab, ids, tx) : tx \in TxOf(tab, ids)}

ItemOrder(S) ==
  {p \in S \X S : \/ p[1].at < p[2].at
                  \/ p[1].at = p[2].at /\ TextRank[p[1].tx] < TextRank[p[2].tx]}

LEMMA ItemFields ==
  ASSUME NEW tab, NEW ids, IsFiniteSet(ids),
         \A i \in ids : tab[i].at \in Int /\ tab[i].id \in DOMAIN TextRank
  PROVE  /\ \A tx : Item(tab, ids, tx).tx = tx
         /\ \A tx \in TxOf(tab, ids) :
              /\ tx \in DOMAIN TextRank /\ Item(tab, ids, tx).at \in Int
              /\ \E i \in ids : tab[i].id = tx /\ tab[i].at = Item(tab, ids, tx).at
              /\ \A i \in ids : tab[i].id = tx => Item(tab, ids, tx).at <= tab[i].at
<1>1. \A tx : Item(tab, ids, tx).tx = tx
  BY DEF Item
<1>2. ASSUME NEW tx \in TxOf(tab, ids)
      PROVE  /\ tx \in DOMAIN TextRank /\ Item(tab, ids, tx).at \in Int
             /\ \E i \in ids : tab[i].id = tx /\ tab[i].at = Item(tab, ids, tx).at
             /\ \A i \in ids : tab[i].id = tx => Item(tab, ids, tx).at <= tab[i].at
  <2> DEFINE own == {j \in ids : tab[j].id = tx}
             f == [j \in own |-> tab[j].at]
             times == {f[j] : j \in own}
  <2>1. PICK i \in ids : tab[i].id = tx
    BY DEF TxOf
  <2>2. own \in SUBSET ids /\ IsFiniteSet(own)
    BY FS_Subset
  <2>3. times \subseteq Int /\ times # {} /\ f \in [own -> times]
    BY <2>1
  <2>4. IsFiniteSet(times)
    <3> HIDE DEF own, f
    <3> QED
      BY <2>2, <2>3, ImageFinite
  <2>5. Item(tab, ids, tx).at = Min(times)
    <3>1. times = {tab[j].at : j \in own}
      OBVIOUS
    <3> QED
      BY <3>1 DEF Item
  <2>6. Min(times) \in times /\ \A t \in times : Min(times) <= t
    <3> HIDE DEF times
    <3> QED
      BY <2>3, <2>4, EarliestTime
  <2>7. tx \in DOMAIN TextRank
    BY <2>1
  <2> HIDE DEF times
  <2>8. Item(tab, ids, tx).at \in Int /\ Item(tab, ids, tx).at \in times
    BY <2>3, <2>5, <2>6
  <2>9. \E j \in ids : tab[j].id = tx /\ tab[j].at = Item(tab, ids, tx).at
    BY <2>8 DEF times
  <2>10. \A j \in ids : tab[j].id = tx => Item(tab, ids, tx).at <= tab[j].at
    BY <2>5, <2>6 DEF times
  <2> QED
    BY <2>7, <2>8, <2>9, <2>10
<1> QED
  BY <1>1, <1>2

LEMMA ItemsListed ==
  ASSUME NEW tab, NEW ids, IsFiniteSet(ids),
         \A i \in ids : tab[i].at \in Int /\ tab[i].id \in DOMAIN TextRank
  PROVE  /\ IsFiniteSet(Items(tab, ids))
         /\ ItemList(tab, ids) \in Bijection(1..Cardinality(Items(tab, ids)), Items(tab, ids))
         /\ ItemList(tab, ids) \in Seq(Items(tab, ids))
         /\ Len(ItemList(tab, ids)) = Cardinality(Items(tab, ids))
         /\ ToSet(ItemList(tab, ids)) = Items(tab, ids)
         /\ Orders(ItemOrder(Items(tab, ids)), Items(tab, ids))
         /\ \A i, j \in 1..Cardinality(Items(tab, ids)) : i < j =>
              <<ItemList(tab, ids)[i], ItemList(tab, ids)[j]>> \in ItemOrder(Items(tab, ids))
<1> DEFINE S == Items(tab, ids)
           Before(x, y) == x.at < y.at \/ (x.at = y.at /\ TextRank[x.tx] < TextRank[y.tx])
           R == ItemOrder(S)
           list == ItemList(tab, ids)
<1>1. ASSUME NEW x \in S
      PROVE  /\ x.tx \in TxOf(tab, ids) /\ x = Item(tab, ids, x.tx)
             /\ x.tx \in DOMAIN TextRank /\ x.at \in Int
  <2>1. PICK tx \in TxOf(tab, ids) : x = Item(tab, ids, tx)
    BY DEF Items
  <2>2. x.tx = tx
    BY <2>1, ItemFields
  <2> QED
    BY <2>1, <2>2, ItemFields
<1>2. Orders(R, S)
  <2> DEFINE at(x) == x.at
             rank(x) == TextRank[x.tx]
  <2>1. \A x \in S : at(x) \in Int /\ rank(x) \in Int
    BY <1>1, TextRankAssumption
  <2>2. ASSUME NEW x \in S, NEW y \in S, rank(x) = rank(y)
        PROVE  x = y
    <3>1. x.tx = y.tx
      BY <1>1, <2>2, TextRankAssumption
    <3> QED
      BY <1>1, <3>1
  <2>3. \A x, y \in S : <<x, y>> \in R <=> at(x) < at(y) \/ (at(x) = at(y) /\ rank(x) < rank(y))
    BY DEF ItemOrder
  <2> HIDE DEF S, R, at, rank
  <2>4. \A x \in S : <<x, x>> \notin R
    BY <2>1, <2>3
  <2>5. \A x, y, z \in S : <<x, y>> \in R /\ <<y, z>> \in R => <<x, z>> \in R
    BY <2>1, <2>3
  <2>6. ASSUME NEW x \in S, NEW y \in S
        PROVE  x = y \/ <<x, y>> \in R \/ <<y, x>> \in R
    <3>1. \/ at(x) < at(y) \/ at(y) < at(x)
          \/ at(x) = at(y) /\ (rank(x) < rank(y) \/ rank(y) < rank(x) \/ rank(x) = rank(y))
      BY <2>1
    <3> QED
      BY <2>2, <2>3, <3>1
  <2> QED
    BY <2>4, <2>5, <2>6 DEF Orders
<1>3. list = Listed(R, S)
  <2> DEFINE Nth(n) == CHOOSE x \in S : Cardinality({y \in S : Before(y, x)}) = n - 1
  <2>1. list = [n \in 1..Cardinality(S) |-> Nth(n)]
    BY DEF ItemList, SortedBy, Items
  <2>2. \A x \in S : {y \in S : Before(y, x)} = Below(R, S, x)
    BY DEF Below, ItemOrder
  <2>3. ASSUME NEW n
        PROVE  Nth(n) = CHOOSE x \in S : Cardinality(Below(R, S, x)) = n - 1
    <3> HIDE DEF Before, S, R
    <3> QED
      BY <2>2
  <2> HIDE DEF list, Nth, R, S
  <2> QED
    BY <2>1, <2>3 DEF Listed
<1>4. IsFiniteSet(S)
  <2> DEFINE f == [tx \in TxOf(tab, ids) |-> Item(tab, ids, tx)]
  <2>1. f \in [TxOf(tab, ids) -> S] /\ S = {f[tx] : tx \in TxOf(tab, ids)}
    BY DEF Items
  <2>2. IsFiniteSet(TxOf(tab, ids))
    BY TxOfFinite
  <2> HIDE DEF f, S
  <2> QED
    BY <2>1, <2>2, ImageFinite
<1> HIDE DEF list, R, S
<1>5. /\ list \in Bijection(1..Cardinality(S), S)
      /\ \A i, j \in 1..Cardinality(S) : i < j => <<list[i], list[j]>> \in R
  BY <1>2, <1>3, <1>4, ListedInOrder
<1>6. Cardinality(S) \in Nat
  BY <1>4, FS_CardinalityType
<1>7. list \in Seq(S) /\ Len(list) = Cardinality(S) /\ ToSet(list) = S
  BY <1>5, <1>6 DEF Bijection, Surjection, ToSet
<1> QED
  BY <1>2, <1>4, <1>5, <1>7 DEF list, R, S

-----------------------------------------------------------------------------
(* Pages. *)

(* paginate and LIMIT with OFFSET cut the same page out of a list, unless     *)
(* there is an offset without a limit.                                       *)
LEMMA PagesAgree ==
  ASSUME NEW S, NEW list \in Seq(S), NEW limit \in Nat, NEW skip \in Nat, limit > 0 \/ skip = 0
  PROVE  FakePage(list, limit, skip) = Page(list, limit, skip)
<1> DEFINE n == Len(list)
           rest == SubSeq(list, skip + 1, n)
<1>1. n \in Nat
  OBVIOUS
<1>2. CASE limit = 0
  <2>1. rest = list
    BY <1>2
  <2> QED
    BY <1>2, <2>1 DEF FakePage, Page
<1>3. CASE limit > 0
  <2>1. Len(rest) = IF skip <= n THEN n - skip ELSE 0
    BY <1>1
  <2>2. Min({n, skip + limit}) = IF n <= skip + limit THEN n ELSE skip + limit
    BY <1>1 DEF Min
  <2>3. CASE Len(rest) > limit
    <3>1. SubSeq(rest, 1, limit) = SubSeq(list, skip + 1, skip + limit)
      BY <1>1, <1>3, <2>1, <2>3
    <3>2. Min({n, skip + limit}) = skip + limit
      BY <1>1, <2>1, <2>2, <2>3
    <3>3. FakePage(list, limit, skip) = SubSeq(rest, 1, limit)
      BY <1>3, <2>3 DEF FakePage
    <3>4. Page(list, limit, skip) = SubSeq(list, skip + 1, Min({n, skip + limit}))
      <4>1. ~(limit <= 0)
        BY <1>3
      <4> QED
        BY <4>1, Zenon DEF Page
    <3> QED
      BY <3>1, <3>2, <3>3, <3>4
  <2>4. CASE ~(Len(rest) > limit)
    <3>1. CASE n <= skip + limit
      BY <1>3, <2>2, <2>4, <3>1 DEF FakePage, Page
    <3>2. CASE ~(n <= skip + limit)
      BY <1>1, <1>3, <2>1, <2>4, <3>2
    <3> QED
      BY <3>1, <3>2
  <2> QED
    BY <2>3, <2>4
<1> QED
  BY <1>2, <1>3

-----------------------------------------------------------------------------
(* The fake's loops find the rows that the SQL finds. *)

(* What the type invariant says of the rows of the table.                    *)
LEMMA TableRows ==
  ASSUME DatasetTypeOK
  PROVE  /\ IsFiniteSet(Ids(table)) /\ Ids(table) \subseteq Nat /\ now \in Int
         /\ \A i \in Ids(table) :
              /\ table[i].at \in Int
              /\ table[i].id \in DOMAIN TextRank
              /\ table[i].source \in Sources
<1>1. table \in Seq({row \in Rows : Valid(row)}) /\ now \in Int
  BY InstantsAssumption DEF DatasetTypeOK
<1>2. ASSUME NEW i \in Ids(table)
      PROVE  table[i] \in Rows /\ Valid(table[i])
  BY <1>1 DEF Ids
<1>3. ASSUME NEW i \in Ids(table)
      PROVE  /\ table[i].at \in Int
             /\ table[i].id \in DOMAIN TextRank
             /\ table[i].source \in Sources
  <2>1. table[i].source \in Sources
    BY <1>2, ValidFitsSchema DEF SchemaAccepts
  <2> QED
    BY <1>2, <2>1, InstantsAssumption, RanksAssumption
<1> QED
  BY <1>1, <1>3, TableFinite

LEMMA WindowsAgree ==
  ASSUME NEW w \in Windows, NEW at \in Int
  PROVE  FakeInWindow(w, at) <=> InWindow(w, at)
<1>1. w.from \in Times \cup {NoBound} /\ w.to \in Times \cup {NoBound}
  BY DEF Windows
<1> DEFINE from == w.from
           to == w.to
<1>2. (from # NoBound => from \in Int) /\ (to # NoBound => to \in Int)
  BY <1>1, InstantsAssumption
<1> HIDE DEF from, to
<1>3. /\ ~(from # NoBound /\ at < from) <=> (from # NoBound => from <= at)
      /\ ~(to # NoBound /\ at > to) <=> (to # NoBound => at <= to)
  BY <1>2
<1> QED
  BY <1>3 DEF FakeInWindow, InWindow, from, to

LEMMA FakeLimboAgrees ==
  ASSUME DatasetTypeOK, NEW w \in Windows
  PROVE  FakeLimbo(table, w, now) = LimboList(table, w, now)
<1> DEFINE ids == {i \in OfSource(table, "processor") :
                     /\ table[i].status = "pending"
                     /\ FakeInWindow(w, table[i].at)
                     /\ \/ table[i].method = "pix" /\ now - table[i].at > PixThreshold
                        \/ table[i].method = "boleto" /\ now - table[i].at > BoletoThreshold}
<1>1. \A i \in Ids(table) :
        /\ table[i].at \in Int
        /\ FakeInWindow(w, table[i].at) <=> InWindow(w, table[i].at)
  BY TableRows, WindowsAgree
<1>2. ASSUME NEW i \in Ids(table)
      PROVE  \/ table[i].method = "pix" /\ now - table[i].at > PixThreshold
             \/ table[i].method = "boleto" /\ now - table[i].at > BoletoThreshold
             <=> table[i].method \in {"pix", "boleto"} /\ table[i].at < Cutoff(table[i].method, now)
  <2> DEFINE at == table[i].at
  <2>1. at \in Int /\ now \in Int
    BY <1>1, TableRows
  <2> HIDE DEF at
  <2>2. /\ now - at > PixThreshold <=> at < now - PixThreshold
        /\ now - at > BoletoThreshold <=> at < now - BoletoThreshold
    BY <2>1, ThresholdsAssumption
  <2> QED
    BY <2>2 DEF Cutoff, at
<1>3. ids = LimboRows(table, w, now)
  BY <1>1, <1>2 DEF LimboRows, OfSource
<1>4. FakeLimbo(table, w, now) = StableByTime(table, ids)
  BY DEF FakeLimbo
<1> HIDE DEF ids
<1> QED
  BY <1>3, <1>4, FakeSortsAlike DEF LimboList

LEMMA FakeGroupsAgree ==
  ASSUME DatasetTypeOK, NEW w \in Windows
  PROVE  FakeGroups(table, w) = GroupList(table, w)
<1> DEFINE keys == {k \in {KeyOf(table, i) : i \in Ids(table)} :
                      /\ Cardinality(GroupRows(table, k)) >= 2
                      /\ \E i \in GroupRows(table, k) : FakeInWindow(w, table[i].at)}
<1>1. \A i \in Ids(table) : FakeInWindow(w, table[i].at) <=> InWindow(w, table[i].at)
  BY TableRows, WindowsAgree
<1>2. \A k : Cardinality(GroupRows(table, k)) >= 2 <=> Cardinality(GroupRows(table, k)) > 1
  BY TableRows, GroupFinite
<1>3. \A k : (\E i \in GroupRows(table, k) : FakeInWindow(w, table[i].at))
               <=> k \in {KeyOf(table, i) : i \in {j \in Ids(table) : InWindow(w, table[j].at)}}
  BY <1>1 DEF GroupRows
<1>4. \A k : (\E i \in GroupRows(table, k) : FakeInWindow(w, table[i].at))
               => k \in {KeyOf(table, i) : i \in Ids(table)}
  BY DEF GroupRows
<1>5. keys = DuplicateKeys(table, w)
  BY <1>2, <1>3, <1>4 DEF DuplicateKeys
<1>6. FakeGroups(table, w) = SortedBy(keys, KeyBefore)
  BY DEF FakeGroups
<1> HIDE DEF keys
<1> QED
  BY <1>5, <1>6 DEF GroupList

LEMMA FakeListAgrees ==
  ASSUME DatasetTypeOK, NEW w \in Windows
  PROVE  FakeListByWindow(table, w) = WindowList(table, w)
<1>1. {i \in Ids(table) : FakeInWindow(w, table[i].at)} = RowsInWindow(table, w)
  BY TableRows, WindowsAgree DEF RowsInWindow
<1> QED
  BY <1>1, FakeSortsAlike DEF FakeListByWindow, WindowList

(* The lists themselves, which are as long as what they list.                *)
LEMMA Lists ==
  ASSUME DatasetTypeOK, NEW w \in Windows
  PROVE  /\ LimboList(table, w, now) \in Seq(LimboRows(table, w, now))
         /\ Len(LimboList(table, w, now)) = Cardinality(LimboRows(table, w, now))
         /\ ToSet(LimboList(table, w, now)) = LimboRows(table, w, now)
         /\ WindowList(table, w) \in Seq(RowsInWindow(table, w))
         /\ Len(WindowList(table, w)) = Cardinality(RowsInWindow(table, w))
         /\ ToSet(WindowList(table, w)) = RowsInWindow(table, w)
         /\ GroupList(table, w) \in Seq(DuplicateKeys(table, w))
         /\ Len(GroupList(table, w)) = Cardinality(DuplicateKeys(table, w))
         /\ ToSet(GroupList(table, w)) = DuplicateKeys(table, w)
<1>1. ASSUME NEW ids, ids \subseteq Ids(table)
      PROVE  /\ RowList(table, ids) \in Seq(ids)
             /\ Len(RowList(table, ids)) = Cardinality(ids)
             /\ ToSet(RowList(table, ids)) = ids
  <2>1. IsFiniteSet(ids) /\ ids \subseteq Nat /\ \A i \in ids : table[i].at \in Int
    BY <1>1, TableRows, FS_Subset
  <2> QED
    BY <2>1, RowsListed
<1>2. LimboRows(table, w, now) \subseteq Ids(table) /\ RowsInWindow(table, w) \subseteq Ids(table)
  BY DEF LimboRows, RowsInWindow, OfSource
<1>3. IsFiniteSet(DuplicateKeys(table, w)) /\ DuplicateKeys(table, w) \subseteq Key
  <2>1. IsFiniteSet(DuplicateKeys(table, w))
    BY TableRows, DuplicateGroups
  <2>2. ASSUME NEW i \in Ids(table) PROVE KeyOf(table, i) \in Key
    BY TableRows DEF KeyOf, Key
  <2> QED
    BY <2>1, <2>2 DEF DuplicateKeys
<1> QED
  BY <1>1, <1>2, <1>3, KeysListed DEF LimboList, WindowList, GroupList

(* Rows in limbo, duplicate groups with their rows and listed transactions    *)
(* come in the same pages from the fake and from SQLite, and without a limit *)
(* the fake gives what SQLite's whole list has behind the offset (paginate,  *)
(* limitOffsetClause).                                                       *)
THEOREM PagesAreTheSame == DatasetSpec => []FakePagesTheSame
<1>1. DatasetTypeOK => FakePagesTheSame
  <2> SUFFICES ASSUME DatasetTypeOK, NEW w \in Windows
               PROVE  LET fakes == <<FakeLimbo(table, w, now), FakeGroups(table, w), FakeListByWindow(table, w)>>
                          lists == <<LimboList(table, w, now), GroupList(table, w), WindowList(table, w)>>
                      IN  /\ \A limit, offset \in Limits, i \in 1..3 :
                               LET page == Page(lists[i], limit, offset)
                               IN  FakePage(fakes[i], limit, offset)
                                     = IF limit > 0 THEN page ELSE SubSeq(page, offset + 1, Len(page))
                          /\ \A k \in DuplicateKeys(table, w) : FakeGroupDetail(table, k) = GroupDetail(table, k)
    BY DEF FakePagesTheSame
  <2>1. /\ FakeLimbo(table, w, now) = LimboList(table, w, now)
        /\ FakeGroups(table, w) = GroupList(table, w)
        /\ FakeListByWindow(table, w) = WindowList(table, w)
    BY FakeLimboAgrees, FakeGroupsAgree, FakeListAgrees
  <2>2. \A k : FakeGroupDetail(table, k) = GroupDetail(table, k)
    BY FakeSortsAlike DEF FakeGroupDetail, GroupDetail
  <2>3. ASSUME NEW limit \in Limits, NEW offset \in Limits, NEW i \in 1..3,
               NEW list, list = <<LimboList(table, w, now), GroupList(table, w), WindowList(table, w)>>[i],
               NEW page, page = Page(list, limit, offset)
        PROVE  FakePage(list, limit, offset)
                 = IF limit > 0 THEN page ELSE SubSeq(page, offset + 1, Len(page))
    <3>1. limit \in Nat /\ offset \in Nat
      BY FieldsAssumption
    <3>2. list \in {LimboList(table, w, now), GroupList(table, w), WindowList(table, w)}
      BY <2>3
    <3>3. CASE limit > 0
      BY <2>3, <3>1, <3>2, <3>3, Lists, PagesAgree
    <3>4. CASE ~(limit > 0)
      <4>1. page = list /\ FakePage(list, limit, offset) = SubSeq(list, offset + 1, Len(list))
        BY <2>3, <3>1, <3>4 DEF Page, FakePage
      <4> QED
        BY <3>4, <4>1
    <3> QED
      BY <3>3, <3>4
  <2>4. <<FakeLimbo(table, w, now), FakeGroups(table, w), FakeListByWindow(table, w)>>
          = <<LimboList(table, w, now), GroupList(table, w), WindowList(table, w)>>
    BY <2>1
  <2> QED
    BY <2>2, <2>3, <2>4
<1> QED
  BY <1>1, DatasetTypes, PTL

-----------------------------------------------------------------------------
(* Counts. *)

(* One row of each transaction is the first of the slice.                    *)
LEMMA FirstSeenOnce ==
  ASSUME NEW tab, NEW ids, IsFiniteSet(ids), ids \subseteq Nat
  PROVE  /\ TxOf(tab, FirstSeen(tab, ids)) = TxOf(tab, ids)
         /\ \A i, j \in FirstSeen(tab, ids) : tab[i].id = tab[j].id => i = j
         /\ IsFiniteSet(FirstSeen(tab, ids))
         /\ Cardinality(FirstSeen(tab, ids)) = Cardinality(TxOf(tab, ids))
<1> DEFINE some == FirstSeen(tab, ids)
           f == [i \in some |-> tab[i].id]
<1>1. some \subseteq ids /\ IsFiniteSet(some)
  BY FS_Subset DEF FirstSeen
<1>2. ASSUME NEW tx \in TxOf(tab, ids)
      PROVE  \E i \in some : tab[i].id = tx
  <2> DEFINE same == {i \in ids : tab[i].id = tx}
  <2>1. same \subseteq Nat /\ same # {}
    BY <1>2 DEF TxOf
  <2>2. PICK i \in same : \A j \in same : i <= j
    BY <2>1, LeastNumber
  <2> QED
    BY <2>2 DEF FirstSeen
<1>3. ASSUME NEW i \in some, NEW j \in some, tab[i].id = tab[j].id
      PROVE  i = j
  <2>1. i \in Nat /\ j \in Nat /\ i <= j /\ j <= i
    BY <1>3 DEF FirstSeen
  <2> QED
    BY <2>1
<1>4. TxOf(tab, some) = TxOf(tab, ids)
  BY <1>1, <1>2 DEF TxOf
<1>5. f \in Bijection(some, TxOf(tab, ids))
  <2>1. f \in [some -> TxOf(tab, ids)]
    BY <1>1 DEF TxOf
  <2> QED
    BY <1>2, <1>3, <2>1 DEF Bijection, Injection, Surjection, IsInjective
<1>6. Cardinality(TxOf(tab, ids)) = Cardinality(some)
  BY <1>1, <1>5, FS_Bijection DEF ExistsBijection
<1> QED
  BY <1>1, <1>3, <1>4, <1>6

(* A finite set of numbers has a greatest one.                               *)
LEMMA GreatestNumber ==
  ASSUME NEW n \in Nat, NEW S, S \subseteq 1..n, S # {}
  PROVE  \E i \in S : \A j \in S : j <= i
<1> DEFINE down == {n - i : i \in S}
<1>1. down \subseteq Nat /\ down # {}
  <2>1. \A i \in S : n - i \in Nat
    OBVIOUS
  <2> QED
    BY <2>1
<1>2. PICK m \in down : \A k \in down : m <= k
  BY <1>1, LeastNumber
<1>3. PICK i \in S : m = n - i
  BY <1>2
<1>4. \A j \in S : n - i <= n - j
  BY <1>2, <1>3
<1>5. \A j \in S : j <= i
  BY <1>4
<1> QED
  BY <1>5

(* The fake prefers the first of the latest processor rows, SQL the last; as  *)
(* long as they agree on it, the transaction is denied by both.              *)
LEMMA DenialsAgree ==
  ASSUME DatasetTypeOK, ~Conflict, NEW tx
  PROVE  (\A j \in FakeLatest(table, tx) : Denies(table[j])) <=> ProcDenies(table, tx)
<1> DEFINE proc == {i \in OfSource(table, "processor") : table[i].id = tx}
           Tied(i) == {j \in proc : table[j].at = table[i].at}
<1>1. Ids(table) = 1..Len(table) /\ Len(table) \in Nat /\ \A i \in Ids(table) : table[i].at \in Int
  BY TableRows, TableFinite
<1>2. proc \subseteq 1..Len(table) /\ \A i \in proc : table[i].at \in Int
  BY <1>1 DEF OfSource
<1>3. \A i, j \in proc : table[i].at = table[j].at => (Denies(table[i]) <=> Denies(table[j]))
  BY DEF Conflict
<1>4. \A i : i \in FakeLatest(table, tx) <=>
        i \in proc /\ \A j \in proc : table[j].at < table[i].at \/ (table[j].at = table[i].at /\ i <= j)
  BY DEF FakeLatest
<1>5. \A i : (i \in Ids(table) /\ table[i].id = tx /\ ProcLatest(table, i)) <=>
        i \in proc /\ \A j \in proc : table[j].at < table[i].at \/ (table[j].at = table[i].at /\ j <= i)
  BY DEF ProcLatest, OfSource
<1>6. ProcDenies(table, tx) <=>
        \A i : i \in Ids(table) /\ table[i].id = tx /\ ProcLatest(table, i) => Denies(table[i])
  BY DEF ProcDenies, Denies
<1>7. ASSUME NEW i \in proc, \A j \in proc : table[j].at <= table[i].at
      PROVE  /\ \E k \in FakeLatest(table, tx) : table[k].at = table[i].at
             /\ \E k \in Ids(table) : /\ table[k].id = tx /\ ProcLatest(table, k)
                                      /\ table[k].at = table[i].at
  <2>1. Tied(i) # {} /\ Tied(i) \subseteq 1..Len(table) /\ Tied(i) \subseteq Nat
    BY <1>2
  <2>2. \A j \in proc : table[j].at < table[i].at \/ j \in Tied(i)
    BY <1>2, <1>7
  <2>3. PICK first \in Tied(i) : \A j \in Tied(i) : first <= j
    BY <2>1, LeastNumber
  <2>4. PICK last \in Tied(i) : \A j \in Tied(i) : j <= last
    BY <1>1, <2>1, GreatestNumber
  <2> QED
    BY <1>4, <1>5, <2>2, <2>3, <2>4
<1>8. \A i, j \in proc : table[j].at < table[i].at \/ table[j].at = table[i].at => table[j].at <= table[i].at
  BY <1>2
<1> HIDE DEF proc, Tied
<1>9. ASSUME \A j \in FakeLatest(table, tx) : Denies(table[j])
      PROVE  ProcDenies(table, tx)
  <2> SUFFICES ASSUME NEW i, i \in Ids(table), table[i].id = tx, ProcLatest(table, i)
               PROVE  Denies(table[i])
    BY <1>6
  <2>1. i \in proc /\ \A j \in proc : table[j].at <= table[i].at
    BY <1>5, <1>8
  <2>2. PICK k \in FakeLatest(table, tx) : table[k].at = table[i].at
    BY <1>7, <2>1
  <2> QED
    BY <1>3, <1>4, <1>9, <2>1, <2>2
<1>10. ASSUME ProcDenies(table, tx), NEW j \in FakeLatest(table, tx)
      PROVE  Denies(table[j])
  <2>1. j \in proc /\ \A k \in proc : table[k].at <= table[j].at
    BY <1>4, <1>8
  <2>2. PICK k \in Ids(table) : table[k].id = tx /\ ProcLatest(table, k) /\ table[k].at = table[j].at
    BY <1>7, <2>1
  <2> QED
    BY <1>3, <1>5, <1>6, <1>10, <2>1, <2>2
<1> QED
  BY <1>9, <1>10

\* The rows of a merchant's or processor's finding, as the fake collects them.
FakeOrphanRows(tab, w) ==
  {i \in OfSource(tab, "processor") :
     /\ tab[i].status = "approved"
     /\ FakeInWindow(w, tab[i].at)
     /\ tab[i].id \notin TxOf(tab, OfSource(tab, "merchant_order_system"))}

FakeGhostRows(tab, w) ==
  {i \in OfSource(tab, "merchant_order_system") :
     /\ tab[i].status = "approved"
     /\ FakeInWindow(w, tab[i].at)
     /\ \A j \in FakeLatest(tab, tab[i].id) : tab[j].status \in {"declined", "failed"}}

LEMMA FakeRowsAgree ==
  ASSUME DatasetTypeOK, NEW w \in Windows
  PROVE  /\ FakeOrphanRows(table, w) = OrphanRows(table, w)
         /\ ~Conflict => FakeGhostRows(table, w) = GhostRows(table, w)
<1>1. \A i \in Ids(table) : FakeInWindow(w, table[i].at) <=> InWindow(w, table[i].at)
  BY TableRows, WindowsAgree
<1>2. FakeOrphanRows(table, w) = OrphanRows(table, w)
  BY <1>1 DEF FakeOrphanRows, OrphanRows, OfSource
<1>3. ASSUME ~Conflict
      PROVE  FakeGhostRows(table, w) = GhostRows(table, w)
  <2>1. \A tx : (\A j \in FakeLatest(table, tx) : table[j].status \in {"declined", "failed"})
                  <=> ProcDenies(table, tx)
    BY <1>3, DenialsAgree DEF Denies
  <2> QED
    BY <1>1, <2>1 DEF FakeGhostRows, GhostRows, OfSource
<1> QED
  BY <1>2, <1>3

(* A list of one row for each transaction is as long as the transactions are *)
(* many.                                                                     *)
LEMMA FirstSeenListed ==
  ASSUME DatasetTypeOK, NEW ids, ids \subseteq Ids(table)
  PROVE  /\ Len(StableByTime(table, FirstSeen(table, ids))) = Cardinality(TxOf(table, ids))
         /\ ToSet(StableByTime(table, FirstSeen(table, ids))) = FirstSeen(table, ids)
<1> DEFINE some == FirstSeen(table, ids)
<1>1. some \subseteq Ids(table)
  BY DEF FirstSeen
<1>2. IsFiniteSet(ids) /\ ids \subseteq Nat
  BY TableRows, FS_Subset
<1>3. IsFiniteSet(some) /\ Cardinality(some) = Cardinality(TxOf(table, ids))
  BY <1>2, FirstSeenOnce
<1>4. some \subseteq Nat /\ \A i \in some : table[i].at \in Int
  BY <1>1, TableRows
<1> HIDE DEF some
<1>5. Len(RowList(table, some)) = Cardinality(some) /\ ToSet(RowList(table, some)) = some
  BY <1>3, <1>4, RowsListed
<1> QED
  BY <1>3, <1>5, FakeSortsAlike DEF some

LEMMA GroupDetailListed ==
  ASSUME DatasetTypeOK, NEW k
  PROVE  /\ FakeGroupDetail(table, k) = GroupDetail(table, k)
         /\ Len(GroupDetail(table, k)) = Cardinality(GroupRows(table, k))
         /\ ToSet(GroupDetail(table, k)) = GroupRows(table, k)
<1>1. GroupRows(table, k) \subseteq Ids(table)
  BY DEF GroupRows
<1>2. /\ IsFiniteSet(GroupRows(table, k)) /\ GroupRows(table, k) \subseteq Nat
      /\ \A i \in GroupRows(table, k) : table[i].at \in Int
  BY <1>1, TableRows, FS_Subset
<1> QED
  BY <1>2, RowsListed, FakeSortsAlike DEF GroupDetail, FakeGroupDetail

(* The fake adds up the lengths of the groups' details.                      *)
FakeExtraOf(tab, keys) == MapThenSumSet(LAMBDA k : Len(FakeGroupDetail(tab, k)) - 1, keys)

LEMMA FakeExtraAgrees ==
  ASSUME DatasetTypeOK, NEW keys
  PROVE  FakeExtraOf(table, keys) = ExtraOf(table, keys)
<1> DEFINE Fake(g) == [s \in SUBSET keys |->
                         IF s = {} THEN 0
                         ELSE (Len(FakeGroupDetail(table, CHOOSE x \in s : TRUE)) - 1)
                                + g[s \ {CHOOSE x \in s : TRUE}]]
           Real(g) == [s \in SUBSET keys |->
                         IF s = {} THEN 0
                         ELSE (Cardinality(GroupRows(table, CHOOSE x \in s : TRUE)) - 1)
                                + g[s \ {CHOOSE x \in s : TRUE}]]
<1>1. FakeExtraOf(table, keys) = (CHOOSE g : g = Fake(g))[keys]
  BY DEF FakeExtraOf, MapThenSumSet, MapThenFoldSet
<1>2. ExtraOf(table, keys) = (CHOOSE g : g = Real(g))[keys]
  BY DEF ExtraOf, MapThenSumSet, MapThenFoldSet
<1>3. \A k : Len(FakeGroupDetail(table, k)) = Cardinality(GroupRows(table, k))
  BY GroupDetailListed
<1>4. \A g : Fake(g) = Real(g)
  BY <1>3
<1> HIDE DEF Fake, Real
<1> QED
  BY <1>1, <1>2, <1>4

(* Counts, and with them health scores and alerts, are the same from the     *)
(* fake and from SQLite for every window, unless two processor events of one *)
(* instant contradict each other (fake.go:149, transactions.go:216-219).     *)
THEOREM CountsAreTheSame == DatasetSpec => []FakeCountsTheSame
<1>1. DatasetTypeOK => FakeCountsTheSame
  <2> SUFFICES ASSUME DatasetTypeOK, ~Conflict, NEW w \in Windows
               PROVE  FakeCounts(table, w, now) = Counts(table, w, now)
    BY DEF FakeCountsTheSame
  <2>1. /\ OrphanRows(table, w) \subseteq Ids(table) /\ GhostRows(table, w) \subseteq Ids(table)
        /\ LimboRows(table, w, now) \subseteq Ids(table) /\ RowsInWindow(table, w) \subseteq Ids(table)
    BY DEF OrphanRows, GhostRows, LimboRows, RowsInWindow, OfSource
  <2>2. Len(FakeOrphans(table, w)) = Cardinality(Orphaned(table, w))
    <3>1. FakeOrphans(table, w) = StableByTime(table, FirstSeen(table, OrphanRows(table, w)))
      BY FakeRowsAgree DEF FakeOrphans, FakeOrphanRows
    <3> QED
      BY <2>1, <3>1, FirstSeenListed DEF Orphaned
  <2>3. Len(FakeGhosts(table, w)) = Cardinality(Ghosts(table, w))
    <3>1. FakeGhosts(table, w) = StableByTime(table, FirstSeen(table, GhostRows(table, w)))
      BY FakeRowsAgree DEF FakeGhosts, FakeGhostRows
    <3> QED
      BY <2>1, <3>1, FirstSeenListed DEF Ghosts
  <2>4. /\ Len(FakeGroups(table, w)) = Cardinality(DuplicateKeys(table, w))
        /\ ToSet(FakeGroups(table, w)) = DuplicateKeys(table, w)
        /\ Len(FakeLimbo(table, w, now)) = Cardinality(LimboRows(table, w, now))
        /\ ToSet(FakeListByWindow(table, w)) = RowsInWindow(table, w)
    BY FakeGroupsAgree, FakeLimboAgrees, FakeListAgrees, Lists
  <2>5. FakeCounts(table, w, now) =
          [orphaned |-> Cardinality(Orphaned(table, w)),
           ghost    |-> Cardinality(Ghosts(table, w)),
           groups   |-> Cardinality(DuplicateKeys(table, w)),
           extra    |-> FakeExtraOf(table, DuplicateKeys(table, w)),
           limbo    |-> Cardinality(LimboRows(table, w, now)),
           unique   |-> Cardinality(TxOf(table, RowsInWindow(table, w))),
           total    |-> Cardinality(RowsInWindow(table, w))]
    BY <2>2, <2>3, <2>4 DEF FakeCounts, FakeExtraOf
  <2>6. Counts(table, w, now) =
          [orphaned |-> Cardinality(Orphaned(table, w)),
           ghost    |-> Cardinality(Ghosts(table, w)),
           groups   |-> Cardinality(DuplicateKeys(table, w)),
           extra    |-> ExtraOf(table, DuplicateKeys(table, w)),
           limbo    |-> Cardinality(LimboRows(table, w, now)),
           unique   |-> Cardinality(TxOf(table, RowsInWindow(table, w))),
           total    |-> Cardinality(RowsInWindow(table, w))]
    BY DEF Counts, ExtraOf, UniqueIn
  <2> QED
    BY <2>5, <2>6, FakeExtraAgrees
<1> QED
  BY <1>1, DatasetTypes, PTL

-----------------------------------------------------------------------------
(* Dividing counts up. *)

\* f is one column of a breakdown.
Column(f, b, column) ==
  f \in [DOMAIN b -> Nat] /\ \A k \in DOMAIN b : f[k] = b[k][column]

(* The sum over the keys of a breakdown.                                     *)
LEMMA SumOverAddsUp ==
  ASSUME NEW b, NEW column, IsFiniteSet(DOMAIN b), NEW f, Column(f, b, column)
  PROVE  \E total \in [SUBSET DOMAIN b -> Nat] : AddsUp(total, f, DOMAIN b) /\ SumOver(b, column) = total[DOMAIN b]
<1> DEFINE Rec(g) == [s \in SUBSET DOMAIN b |->
                        IF s = {} THEN 0
                        ELSE b[CHOOSE x \in s : TRUE][column] + g[s \ {CHOOSE x \in s : TRUE}]]
           iter == CHOOSE g : g = Rec(g)
<1> f \in [DOMAIN b -> Nat] /\ \A k \in DOMAIN b : f[k] = b[k][column]
  BY DEF Column
<1>1. SumOver(b, column) = iter[DOMAIN b]
  BY DEF SumOver, MapThenSumSet, MapThenFoldSet
<1>2. \A g : AddsUp(g, f, DOMAIN b) <=> g = Rec(g)
  <2> TAKE g
  <2>1. \A s \in SUBSET DOMAIN b : s # {} => First(s) \in DOMAIN b /\ f[First(s)] = b[First(s)][column]
    BY DEF First
  <2>2. Rec(g) = [s \in SUBSET DOMAIN b |-> IF s = {} THEN 0 ELSE f[First(s)] + g[s \ {First(s)}]]
    BY <2>1 DEF First
  <2> QED
    BY <2>2 DEF AddsUp
<1>3. PICK total \in [SUBSET DOMAIN b -> Nat] : AddsUp(total, f, DOMAIN b)
  BY SumExists
<1> HIDE DEF Rec
<1>4. iter = Rec(iter)
  <2>1. total = Rec(total)
    BY <1>2, <1>3
  <2> QED
    BY <2>1
<1>5. iter = total
  BY <1>2, <1>3, <1>4, SumUnique
<1> QED
  BY <1>1, <1>3, <1>5

(* If a column gives each key the measure of its part, it adds up to the     *)
(* measure of the whole.                                                     *)
LEMMA ColumnAddsUp ==
  ASSUME NEW b, NEW column, IsFiniteSet(DOMAIN b),
         NEW S, NEW m, Additive(m, S), NEW g \in [S -> DOMAIN b],
         \A k \in DOMAIN b : b[k][column] = m[{x \in S : g[x] = k}]
  PROVE  SumOver(b, column) = m[S]
<1> DEFINE f == [k \in DOMAIN b |-> b[k][column]]
<1>1. \A k \in DOMAIN b : {x \in S : g[x] = k} \in SUBSET S
  OBVIOUS
<1>2. Column(f, b, column) /\ Parts(f, DOMAIN b, g, m, S)
  BY <1>1 DEF Additive, Column, Parts
<1> HIDE DEF f
<1>3. PICK total \in [SUBSET DOMAIN b -> Nat] : AddsUp(total, f, DOMAIN b) /\ SumOver(b, column) = total[DOMAIN b]
  <2>1. IsFiniteSet(DOMAIN b) /\ Column(f, b, column) =>
          \E sum \in [SUBSET DOMAIN b -> Nat] :
            AddsUp(sum, f, DOMAIN b) /\ SumOver(b, column) = sum[DOMAIN b]
    BY ONLY SumOverAddsUp
  <2> QED
    BY <1>2, <2>1
<1>4. total[DOMAIN b] = m[S]
  <2>1. \A K, sum : /\ Additive(m, S) /\ IsFiniteSet(K) /\ Parts(f, K, g, m, S)
                     /\ sum \in [SUBSET K -> Nat] /\ AddsUp(sum, f, K)
                     => sum[K] = m[S]
    BY ONLY PartsAddUp, Z3
  <2> QED
    BY <1>2, <1>3, <2>1
<1> QED
  BY <1>3, <1>4

(* The redundant rows of some of the groups are part of one sum.             *)
Redundant(tab, keys) == [k \in keys |-> Cardinality(GroupRows(tab, k)) - 1]

Groups(tab, keys) ==
  IsFiniteSet(keys) /\ \A k \in keys : Cardinality(GroupRows(tab, k)) \in Nat \ {0}

ExtraSum(sum, tab, keys) ==
  sum \in [SUBSET keys -> Nat] /\ AddsUp(sum, Redundant(tab, keys), keys)

LEMMA ExtraIsASum ==
  ASSUME NEW tab, NEW keys, Groups(tab, keys)
  PROVE  \E sum \in [SUBSET keys -> Nat] :
           AddsUp(sum, Redundant(tab, keys), keys) /\ ExtraOf(tab, keys) = sum[keys]
<1>1. IsFiniteSet(keys) /\ \A k \in keys : Cardinality(GroupRows(tab, k)) \in Nat \ {0}
  BY DEF Groups
<1> QED
  BY <1>1, ExtraAddsUp DEF Redundant

LEMMA ExtraOfSome ==
  ASSUME NEW tab, NEW keys, Groups(tab, keys),
         NEW sum, ExtraSum(sum, tab, keys), NEW some \in SUBSET keys
  PROVE  ExtraOf(tab, some) = sum[some]
<1> sum \in [SUBSET keys -> Nat] /\ AddsUp(sum, Redundant(tab, keys), keys)
  BY DEF ExtraSum
<1> DEFINE f == Redundant(tab, keys)
           h == Redundant(tab, some)
           part == [s \in SUBSET some |-> sum[s]]
<1>1. Groups(tab, some)
  BY FS_Subset DEF Groups
<1>2. PICK other \in [SUBSET some -> Nat] : AddsUp(other, h, some) /\ ExtraOf(tab, some) = other[some]
  BY <1>1, ExtraIsASum
<1>3. AddsUp(part, h, some)
  <2>1. ASSUME NEW s \in SUBSET some
        PROVE  part[s] = IF s = {} THEN 0 ELSE h[First(s)] + part[s \ {First(s)}]
    <3>1. sum[s] = IF s = {} THEN 0 ELSE f[First(s)] + sum[s \ {First(s)}]
      BY DEF AddsUp
    <3>2. s # {} => First(s) \in s /\ First(s) \in some /\ First(s) \in keys
      BY DEF First
    <3>3. s \ {First(s)} \in SUBSET some
      OBVIOUS
    <3> QED
      BY <3>1, <3>2, <3>3 DEF Redundant
  <2> HIDE DEF h
  <2> QED
    BY <2>1 DEF AddsUp
<1>4. h \in [some -> Nat]
  BY <1>1 DEF Groups, Redundant
<1>5. part = other
  BY <1>1, <1>2, <1>3, <1>4, SumUnique DEF Groups
<1> QED
  BY <1>2, <1>5

\* A column counts the elements of S that have the key as their val.
CountsBy(b, column, S, val) ==
  /\ val \in [S -> DOMAIN b]
  /\ \A k \in DOMAIN b : b[k][column] = Cardinality({x \in S : val[x] = k})

LEMMA CountColumnAddsUp ==
  ASSUME NEW b, NEW column, IsFiniteSet(DOMAIN b), NEW S, IsFiniteSet(S),
         NEW val, CountsBy(b, column, S, val)
  PROVE  SumOver(b, column) = Cardinality(S)
<1> DEFINE m == [s \in SUBSET S |-> Cardinality(s)]
<1>1. Additive(m, S)
  BY SizeIsAdditive
<1>2. val \in [S -> DOMAIN b] /\ \A k \in DOMAIN b : b[k][column] = m[{x \in S : val[x] = k}]
  BY DEF CountsBy
<1>3. m[S] = Cardinality(S)
  OBVIOUS
<1> HIDE DEF m
<1>4. SumOver(b, column) = m[S]
  BY <1>1, <1>2, ColumnAddsUp
<1> QED
  BY <1>3, <1>4

LEMMA ExtraColumnAddsUp ==
  ASSUME NEW tab, NEW groups, Groups(tab, groups), NEW b, IsFiniteSet(DOMAIN b),
         NEW val \in [groups -> DOMAIN b],
         \A k \in DOMAIN b : b[k]["extra"] = ExtraOf(tab, {x \in groups : val[x] = k})
  PROVE  SumOver(b, "extra") = ExtraOf(tab, groups)
<1>1. PICK sum \in [SUBSET groups -> Nat] :
        AddsUp(sum, Redundant(tab, groups), groups) /\ ExtraOf(tab, groups) = sum[groups]
  BY ExtraIsASum
<1>2. Redundant(tab, groups) \in [groups -> Nat] /\ IsFiniteSet(groups)
  BY DEF Redundant, Groups
<1>3. Additive(sum, groups)
  BY <1>1, <1>2, SumIsAdditive
<1>4. ASSUME NEW some \in SUBSET groups PROVE ExtraOf(tab, some) = sum[some]
  <2>1. ExtraSum(sum, tab, groups)
    BY <1>1 DEF ExtraSum
  <2> QED
    BY <2>1, ExtraOfSome
<1>5. \A k \in DOMAIN b : b[k]["extra"] = sum[{x \in groups : val[x] = k}]
  BY <1>4
<1> QED
  BY <1>1, <1>3, <1>5, ColumnAddsUp

(* Whatever rows stand for the orphans, the ghosts and the groups, a         *)
(* breakdown has all of them.                                                *)
LEMMA BumpedAddsUp ==
  ASSUME NEW tab, IsFiniteSet(Ids(tab)), NEW field,
         NEW orphans, IsFiniteSet(orphans), NEW orphan \in [orphans -> Ids(tab)],
         NEW ghosts, IsFiniteSet(ghosts), NEW ghost \in [ghosts -> Ids(tab)],
         NEW groups, Groups(tab, groups), NEW group \in [groups -> Ids(tab)],
         NEW limbo, limbo \subseteq Ids(tab),
         NEW b, b = Bumped(tab, field, orphan, ghost, group, limbo)
  PROVE  /\ SumOver(b, "orphaned") = Cardinality(orphans)
         /\ SumOver(b, "ghost") = Cardinality(ghosts)
         /\ SumOver(b, "groups") = Cardinality(groups)
         /\ SumOver(b, "extra") = ExtraOf(tab, groups)
         /\ SumOver(b, "limbo") = Cardinality(limbo)
<1> DEFINE rows == Range(orphan) \cup Range(ghost) \cup Range(group) \cup limbo
           val(i) == tab[i][field]
           named == {val(i) : i \in rows}
           With(f, S, k) == {x \in S : val(f[x]) = k}
<1>1. b = [k \in named |->
             [orphaned |-> Cardinality(With(orphan, orphans, k)),
              ghost    |-> Cardinality(With(ghost, ghosts, k)),
              groups   |-> Cardinality(With(group, groups, k)),
              extra    |-> ExtraOf(tab, With(group, groups, k)),
              limbo    |-> Cardinality({i \in limbo : val(i) = k})]]
  BY DEF Bumped, Extra, ExtraOf
<1>2. /\ rows \subseteq Ids(tab)
      /\ \A x \in orphans : orphan[x] \in rows
      /\ \A x \in ghosts : ghost[x] \in rows
      /\ \A x \in groups : group[x] \in rows
      /\ \A i \in limbo : i \in rows
  BY DEF Range
<1> HIDE DEF rows
<1>3. DOMAIN b = named
  BY <1>1
<1>4. IsFiniteSet(named)
  <2> DEFINE f == [i \in rows |-> val(i)]
  <2>1. IsFiniteSet(rows)
    BY <1>2, FS_Subset
  <2>2. f \in [rows -> named] /\ named = {f[i] : i \in rows}
    OBVIOUS
  <2> HIDE DEF f, named
  <2> QED
    BY <2>1, <2>2, ImageFinite
<1>5. \A k \in named :
        /\ b[k]["orphaned"] = Cardinality(With(orphan, orphans, k))
        /\ b[k]["ghost"] = Cardinality(With(ghost, ghosts, k))
        /\ b[k]["groups"] = Cardinality(With(group, groups, k))
        /\ b[k]["extra"] = ExtraOf(tab, With(group, groups, k))
        /\ b[k]["limbo"] = Cardinality({i \in limbo : val(i) = k})
  BY <1>1
<1>6. \A i \in rows : val(i) \in named
  OBVIOUS
<1> HIDE DEF named, val
<1>7. SumOver(b, "orphaned") = Cardinality(orphans)
  <2> DEFINE of == [x \in orphans |-> val(orphan[x])]
  <2>1. of \in [orphans -> DOMAIN b]
    BY <1>2, <1>3, <1>6
  <2>2. \A k \in DOMAIN b : With(orphan, orphans, k) = {x \in orphans : of[x] = k}
    OBVIOUS
  <2>3. \A k \in DOMAIN b : b[k]["orphaned"] = Cardinality(With(orphan, orphans, k))
    BY <1>3, <1>5
  <2> HIDE DEF of, With
  <2>4. CountsBy(b, "orphaned", orphans, of)
    BY <2>1, <2>2, <2>3 DEF CountsBy
  <2> QED
    BY <1>3, <1>4, <2>4, CountColumnAddsUp
<1>8. SumOver(b, "ghost") = Cardinality(ghosts)
  <2> DEFINE of == [x \in ghosts |-> val(ghost[x])]
  <2>1. of \in [ghosts -> DOMAIN b]
    BY <1>2, <1>3, <1>6
  <2>2. \A k \in DOMAIN b : With(ghost, ghosts, k) = {x \in ghosts : of[x] = k}
    OBVIOUS
  <2>3. \A k \in DOMAIN b : b[k]["ghost"] = Cardinality(With(ghost, ghosts, k))
    BY <1>3, <1>5
  <2> HIDE DEF of, With
  <2>4. CountsBy(b, "ghost", ghosts, of)
    BY <2>1, <2>2, <2>3 DEF CountsBy
  <2> QED
    BY <1>3, <1>4, <2>4, CountColumnAddsUp
<1>9. SumOver(b, "groups") = Cardinality(groups)
  <2> DEFINE of == [x \in groups |-> val(group[x])]
  <2>1. of \in [groups -> DOMAIN b]
    BY <1>2, <1>3, <1>6
  <2>2. \A k \in DOMAIN b : With(group, groups, k) = {x \in groups : of[x] = k}
    OBVIOUS
  <2>3. \A k \in DOMAIN b : b[k]["groups"] = Cardinality(With(group, groups, k))
    BY <1>3, <1>5
  <2> HIDE DEF of, With
  <2>4. CountsBy(b, "groups", groups, of)
    BY <2>1, <2>2, <2>3 DEF CountsBy
  <2> QED
    BY <1>3, <1>4, <2>4, CountColumnAddsUp DEF Groups
<1>10. SumOver(b, "limbo") = Cardinality(limbo)
  <2> DEFINE of == [i \in limbo |-> val(i)]
  <2>1. of \in [limbo -> DOMAIN b]
    BY <1>2, <1>3, <1>6
  <2>2. \A k \in DOMAIN b : {i \in limbo : val(i) = k} = {i \in limbo : of[i] = k}
    OBVIOUS
  <2>3. \A k \in DOMAIN b : b[k]["limbo"] = Cardinality({i \in limbo : val(i) = k})
    BY <1>3, <1>5
  <2>4. IsFiniteSet(limbo)
    BY FS_Subset
  <2> HIDE DEF of
  <2>5. CountsBy(b, "limbo", limbo, of)
    BY <2>1, <2>2, <2>3 DEF CountsBy
  <2> QED
    BY <1>3, <1>4, <2>4, <2>5, CountColumnAddsUp
<1>11. SumOver(b, "extra") = ExtraOf(tab, groups)
  <2> DEFINE of == [x \in groups |-> val(group[x])]
  <2>1. of \in [groups -> DOMAIN b]
    BY <1>2, <1>3, <1>6
  <2>2. \A k \in DOMAIN b : With(group, groups, k) = {x \in groups : of[x] = k}
    OBVIOUS
  <2>3. \A k \in DOMAIN b : b[k]["extra"] = ExtraOf(tab, With(group, groups, k))
    BY <1>3, <1>5
  <2> HIDE DEF of, With
  <2>4. \A k \in DOMAIN b : b[k]["extra"] = ExtraOf(tab, {x \in groups : of[x] = k})
    BY <2>2, <2>3
  <2> QED
    BY <1>3, <1>4, <2>1, <2>4, ExtraColumnAddsUp
<1> QED
  BY <1>7, <1>8, <1>9, <1>10, <1>11

(* The first row of a group's detail is one of its rows.                     *)
LEMMA FirstRowsOfGroups ==
  ASSUME DatasetTypeOK, NEW w \in Windows
  PROVE  /\ Groups(table, DuplicateKeys(table, w))
         /\ FirstRows(table, DuplicateKeys(table, w)) \in [DuplicateKeys(table, w) -> Ids(table)]
<1> DEFINE keys == DuplicateKeys(table, w)
<1>1. IsFiniteSet(keys) /\ \A k \in keys : Cardinality(GroupRows(table, k)) \in Nat \ {0}
  BY TableRows, DuplicateGroups
<1>2. ASSUME NEW k \in keys
      PROVE  GroupDetail(table, k)[1] \in Ids(table)
  <2>1. 1 \in DOMAIN GroupDetail(table, k)
    <3>1. GroupDetail(table, k) \in Seq(GroupRows(table, k))
      <4>1. GroupRows(table, k) \subseteq Ids(table)
        BY DEF GroupRows
      <4>2. /\ IsFiniteSet(GroupRows(table, k)) /\ GroupRows(table, k) \subseteq Nat
            /\ \A i \in GroupRows(table, k) : table[i].at \in Int
        BY <4>1, TableRows, FS_Subset
      <4> QED
        BY <4>2, RowsListed DEF GroupDetail
    <3>2. Len(GroupDetail(table, k)) >= 1
      BY <1>1, GroupDetailListed
    <3> QED
      BY <3>1, <3>2
  <2>2. GroupDetail(table, k)[1] \in ToSet(GroupDetail(table, k))
    BY <2>1 DEF ToSet
  <2> QED
    BY <2>2, GroupDetailListed DEF GroupRows
<1> HIDE DEF keys
<1>3. Groups(table, keys) /\ FirstRows(table, keys) \in [keys -> Ids(table)]
  BY <1>1, <1>2 DEF Groups, FirstRows
<1> QED
  BY <1>3 DEF keys

(* A breakdown divides the counts up, it loses and invents nothing, whatever *)
(* row SQLite takes for a transaction (countsByKey against CountsByWindow).  *)
THEOREM BreakdownsDivideTheCounts == DatasetSpec => []BreakdownsAddUp
<1>1. DatasetTypeOK => BreakdownsAddUp
  <2> SUFFICES ASSUME DatasetTypeOK, NEW w \in Windows, NEW field \in Fields,
                      NEW b \in Breakdowns(table, w, now, field)
               PROVE  \A column \in {"orphaned", "ghost", "groups", "extra", "limbo"} :
                        SumOver(b, column) = Counts(table, w, now)[column]
    BY DEF BreakdownsAddUp
  <2> DEFINE keys == DuplicateKeys(table, w)
             limbo == LimboRows(table, w, now)
  <2>1. PICK orphan \in BareRows(table, OrphanRows(table, w)), ghost \in BareRows(table, GhostRows(table, w)) :
          b = Bumped(table, field, orphan, ghost, FirstRows(table, keys), limbo)
    BY DEF Breakdowns
  <2>2. IsFiniteSet(Ids(table))
    BY TableRows
  <2>3. /\ orphan \in [Orphaned(table, w) -> Ids(table)]
        /\ ghost \in [Ghosts(table, w) -> Ids(table)]
    <3>1. OrphanRows(table, w) \subseteq Ids(table) /\ GhostRows(table, w) \subseteq Ids(table)
      BY DEF OrphanRows, GhostRows, OfSource
    <3>2. /\ orphan \in [Orphaned(table, w) -> OrphanRows(table, w)]
          /\ ghost \in [Ghosts(table, w) -> GhostRows(table, w)]
      BY DEF BareRows, Orphaned, Ghosts
    <3> QED
      BY <3>1, <3>2
  <2>4. IsFiniteSet(Orphaned(table, w)) /\ IsFiniteSet(Ghosts(table, w))
    BY <2>2, FindingsFinite
  <2>5. Groups(table, keys) /\ FirstRows(table, keys) \in [keys -> Ids(table)]
    BY FirstRowsOfGroups
  <2>6. limbo \subseteq Ids(table)
    BY DEF LimboRows, OfSource
  <2> HIDE DEF keys, limbo
  <2>7. /\ SumOver(b, "orphaned") = Cardinality(Orphaned(table, w))
        /\ SumOver(b, "ghost") = Cardinality(Ghosts(table, w))
        /\ SumOver(b, "groups") = Cardinality(keys)
        /\ SumOver(b, "extra") = ExtraOf(table, keys)
        /\ SumOver(b, "limbo") = Cardinality(limbo)
    BY <2>1, <2>2, <2>3, <2>4, <2>5, <2>6, BumpedAddsUp
  <2>8. /\ Counts(table, w, now)["orphaned"] = Cardinality(Orphaned(table, w))
        /\ Counts(table, w, now)["ghost"] = Cardinality(Ghosts(table, w))
        /\ Counts(table, w, now)["groups"] = Cardinality(keys)
        /\ Counts(table, w, now)["extra"] = ExtraOf(table, keys)
        /\ Counts(table, w, now)["limbo"] = Cardinality(limbo)
    BY <2>2, CountsAreNumbers DEF keys, limbo
  <2> QED
    BY <2>7, <2>8
<1> QED
  BY <1>1, DatasetTypes, PTL

-----------------------------------------------------------------------------
(* Details, as long as events arrive in time order. *)

LEMMA NoConflictInOrder == ASSUME DatasetTypeOK, InTimeOrder PROVE ~Conflict
<1> SUFFICES ASSUME NEW i \in OfSource(table, "processor"), NEW j \in OfSource(table, "processor"),
                    table[i].id = table[j].id, table[i].at = table[j].at,
                    Denies(table[i]), ~Denies(table[j])
             PROVE  FALSE
  BY DEF Conflict
<1>1. i \in Ids(table) /\ j \in Ids(table) /\ i \in Nat /\ j \in Nat /\ table[i].at \in Int
  BY TableRows DEF OfSource
<1>2. i < j \/ j < i
  BY <1>1
<1>3. table[i].at < table[j].at \/ table[j].at < table[i].at
  BY <1>1, <1>2 DEF InTimeOrder
<1> QED
  BY <1>1, <1>3

(* Then the row the fake sees first is the one with the minimal time, and    *)
(* the only one.                                                             *)
LEMMA FirstIsEarliest ==
  ASSUME DatasetTypeOK, InTimeOrder, NEW ids, ids \subseteq Ids(table), NEW i \in FirstSeen(table, ids)
  PROVE  /\ i \in ids /\ table[i].at \in Int
         /\ Item(table, ids, table[i].id) = [tx |-> table[i].id, at |-> table[i].at]
         /\ \A j \in ids : table[j].id = table[i].id /\ table[j].at = table[i].at => j = i
<1>1. i \in ids /\ \A j \in ids : table[j].id = table[i].id => i <= j
  BY DEF FirstSeen
<1>2. \A j \in ids : j \in Ids(table) /\ j \in Nat /\ table[j].at \in Int
  BY TableRows
<1>3. ASSUME NEW j \in ids, table[j].id = table[i].id
      PROVE  j = i \/ table[i].at < table[j].at
  <2>1. j = i \/ i < j
    BY <1>1, <1>2, <1>3
  <2> QED
    BY <1>1, <1>2, <1>3, <2>1 DEF InTimeOrder
<1> DEFINE times == {table[j].at : j \in {k \in ids : table[k].id = table[i].id}}
<1>4. /\ table[i].at \in times
      /\ \A t \in times : t \in Int /\ (t = table[i].at \/ table[i].at < t)
  BY <1>1, <1>2, <1>3
<1> HIDE DEF times
<1>5. Min(times) = table[i].at
  <2> DEFINE first == table[i].at
  <2>1. first \in times /\ first \in Int /\ \A t \in times : t \in Int /\ first <= t
    BY <1>4
  <2> HIDE DEF first
  <2>2. \A x \in times : (\A y \in times : x <= y) <=> x = first
    BY <2>1
  <2>3. Min(times) = CHOOSE x \in times : x = first
    BY <2>2 DEF Min
  <2> QED
    BY <2>1, <2>3 DEF first
<1>6. Item(table, ids, table[i].id) = [tx |-> table[i].id, at |-> Min(times)]
  BY DEF Item, times
<1>7. \A j \in ids : table[j].id = table[i].id /\ table[j].at = table[i].at => j = i
  BY <1>2, <1>3
<1> QED
  BY <1>1, <1>2, <1>5, <1>6, <1>7

LEMMA TableItemsListed ==
  ASSUME DatasetTypeOK, NEW ids, ids \subseteq Ids(table)
  PROVE  ToSet(ItemList(table, ids)) = Items(table, ids)
<1>1. IsFiniteSet(ids) /\ \A i \in ids : table[i].at \in Int /\ table[i].id \in DOMAIN TextRank
  BY TableRows, FS_Subset
<1> QED
  BY <1>1, ItemsListed

LEMMA FirstSeenAreItems ==
  ASSUME DatasetTypeOK, InTimeOrder, NEW ids, ids \subseteq Ids(table)
  PROVE  /\ {[tx |-> table[i].id, at |-> table[i].at] : i \in FirstSeen(table, ids)} = Items(table, ids)
         /\ \A x \in Items(table, ids) :
              x = [tx |-> x.tx, at |-> x.at] /\ x.tx \in DOMAIN TextRank /\ x.at \in Int
         /\ \A x, y \in Items(table, ids) : x.tx = y.tx => x = y
         /\ IsFiniteSet(Items(table, ids))
<1> DEFINE f == [i \in FirstSeen(table, ids) |-> [tx |-> table[i].id, at |-> table[i].at]]
<1>1. IsFiniteSet(ids) /\ ids \subseteq Nat
  BY TableRows, FS_Subset
<1>2. TxOf(table, FirstSeen(table, ids)) = TxOf(table, ids) /\ IsFiniteSet(FirstSeen(table, ids))
  BY <1>1, FirstSeenOnce
<1>3. \A i \in FirstSeen(table, ids) : Item(table, ids, table[i].id) = f[i] /\ table[i].at \in Int /\ i \in ids
  BY FirstIsEarliest
<1>4. Items(table, ids) = {f[i] : i \in FirstSeen(table, ids)}
  <2>1. Items(table, ids) = {Item(table, ids, tx) : tx \in TxOf(table, FirstSeen(table, ids))}
    BY <1>2 DEF Items
  <2>2. Items(table, ids) = {Item(table, ids, table[i].id) : i \in FirstSeen(table, ids)}
    BY <2>1 DEF TxOf
  <2> DEFINE item(i) == Item(table, ids, table[i].id)
  <2>3. \A i \in FirstSeen(table, ids) : item(i) = f[i]
    BY <1>3
  <2>4. Items(table, ids) = {item(i) : i \in FirstSeen(table, ids)}
    BY <2>2
  <2> HIDE DEF item, f
  <2> QED
    BY <2>3, <2>4
<1>5. ASSUME NEW x \in Items(table, ids)
      PROVE  x = [tx |-> x.tx, at |-> x.at] /\ x.tx \in DOMAIN TextRank /\ x.at \in Int
  BY <1>3, <1>4, TableRows
<1>6. ASSUME NEW x \in Items(table, ids), NEW y \in Items(table, ids), x.tx = y.tx
      PROVE  x = y
  <2>1. PICK t \in TxOf(table, ids), u \in TxOf(table, ids) :
          x = Item(table, ids, t) /\ y = Item(table, ids, u)
    BY DEF Items
  <2>2. \A tx : Item(table, ids, tx).tx = tx
    BY DEF Item
  <2> QED
    BY <1>6, <2>1, <2>2
<1>7. IsFiniteSet(Items(table, ids))
  <2>1. f \in [FirstSeen(table, ids) -> Items(table, ids)]
    BY <1>4
  <2> HIDE DEF f
  <2> QED
    BY <1>2, <1>4, <2>1, ImageFinite
<1> QED
  BY <1>4, <1>5, <1>6, <1>7

(* And the row the bare columns come from is the row the fake keeps.         *)
LEMMA BareRowIsFirstSeen ==
  ASSUME DatasetTypeOK, InTimeOrder, NEW ids, ids \subseteq Ids(table),
         NEW list, ToSet(list) = FirstSeen(table, ids)
  PROVE  BareRows(table, ids) = {ByTx(table, list)}
<1> DEFINE some == FirstSeen(table, ids)
           f == ByTx(table, list)
<1>1. /\ TxOf(table, some) = TxOf(table, ids)
      /\ \A i, j \in some : table[i].id = table[j].id => i = j
  <2>1. IsFiniteSet(ids) /\ ids \subseteq Nat
    BY TableRows, FS_Subset
  <2> QED
    BY <2>1, FirstSeenOnce
<1>2. ASSUME NEW i \in some
      PROVE  /\ i \in ids
             /\ Item(table, ids, table[i].id).at = table[i].at
             /\ \A j \in ids : table[j].id = table[i].id /\ table[j].at = table[i].at => j = i
  <2>1. Item(table, ids, table[i].id) = [tx |-> table[i].id, at |-> table[i].at]
    BY FirstIsEarliest
  <2>2. i \in ids /\ \A j \in ids : table[j].id = table[i].id /\ table[j].at = table[i].at => j = i
    BY FirstIsEarliest
  <2> QED
    BY <2>1, <2>2
<1>3. f = [tx \in TxOf(table, ids) |-> CHOOSE i \in some : table[i].id = tx]
  BY <1>1 DEF ByTx
<1>4. ASSUME NEW tx \in TxOf(table, ids)
      PROVE  /\ f[tx] \in some /\ table[f[tx]].id = tx /\ f[tx] \in ids
             /\ table[f[tx]].at = Item(table, ids, tx).at
             /\ \A j \in ids : table[j].id = tx /\ table[j].at = Item(table, ids, tx).at => j = f[tx]
  <2>1. \E i \in some : table[i].id = tx
    BY <1>1 DEF TxOf
  <2>2. f[tx] \in some /\ table[f[tx]].id = tx
    BY <1>3, <2>1
  <2> HIDE DEF f, some
  <2> QED
    BY <1>2, <2>2
<1>5. f \in [TxOf(table, ids) -> ids]
  BY <1>3, <1>4
<1> HIDE DEF f, some
<1>6. f \in BareRows(table, ids)
  BY <1>4, <1>5 DEF BareRows
<1>7. ASSUME NEW g \in BareRows(table, ids)
      PROVE  g = f
  <2>1. /\ g \in [TxOf(table, ids) -> ids]
        /\ \A tx \in TxOf(table, ids) : table[g[tx]].id = tx /\ table[g[tx]].at = Item(table, ids, tx).at
    BY DEF BareRows
  <2>2. \A tx \in TxOf(table, ids) : g[tx] = f[tx]
    BY <1>4, <2>1
  <2> QED
    BY <1>5, <2>1, <2>2
<1> QED
  BY <1>6, <1>7 DEF f

(* As long as events arrive in time order, the details agree too: orphans    *)
(* and ghosts are dated alike, and the fake breaks the counts down as SQLite *)
(* does (FakeRepo takes the first row of the slice, MIN() the earliest).     *)
THEOREM DetailsAreTheSame == DatasetSpec => []FakeDetailsTheSame
<1>1. DatasetTypeOK => FakeDetailsTheSame
  <2> SUFFICES ASSUME DatasetTypeOK, InTimeOrder, NEW w \in Windows
               PROVE  /\ Shown(table, FakeOrphans(table, w)) = ToSet(OrphanList(table, w))
                      /\ Shown(table, FakeGhosts(table, w)) = ToSet(GhostList(table, w))
                      /\ \A field \in Fields :
                           Breakdowns(table, w, now, field) = {FakeBreakdown(table, w, now, field)}
    BY DEF FakeDetailsTheSame
  <2> DEFINE orphans == OrphanRows(table, w)
             ghosts == GhostRows(table, w)
             keys == DuplicateKeys(table, w)
  <2>1. orphans \subseteq Ids(table) /\ ghosts \subseteq Ids(table)
    BY DEF OrphanRows, GhostRows, OfSource
  <2>2. /\ FakeOrphans(table, w) = StableByTime(table, FirstSeen(table, orphans))
        /\ FakeGhosts(table, w) = StableByTime(table, FirstSeen(table, ghosts))
    BY FakeRowsAgree, NoConflictInOrder DEF FakeOrphans, FakeGhosts, FakeOrphanRows, FakeGhostRows
  <2>3. /\ OrphanList(table, w) = ItemList(table, orphans)
        /\ GhostList(table, w) = ItemList(table, ghosts)
    BY DEF OrphanList, GhostList
  <2> HIDE DEF orphans, ghosts
  <2>4. /\ ToSet(FakeOrphans(table, w)) = FirstSeen(table, orphans)
        /\ ToSet(FakeGhosts(table, w)) = FirstSeen(table, ghosts)
    BY <2>1, <2>2, FirstSeenListed
  <2>5. /\ Shown(table, FakeOrphans(table, w)) = ToSet(OrphanList(table, w))
        /\ Shown(table, FakeGhosts(table, w)) = ToSet(GhostList(table, w))
    <3>1. ASSUME NEW ids, ids \subseteq Ids(table), NEW list, ToSet(list) = FirstSeen(table, ids)
          PROVE  Shown(table, list) = ToSet(ItemList(table, ids))
      BY <3>1, FirstSeenAreItems, TableItemsListed DEF Shown
    <3> QED
      BY <2>1, <2>3, <2>4, <3>1
  <2>6. ASSUME NEW field \in Fields
        PROVE  Breakdowns(table, w, now, field) = {FakeBreakdown(table, w, now, field)}
    <3>1. /\ BareRows(table, orphans) = {ByTx(table, FakeOrphans(table, w))}
          /\ BareRows(table, ghosts) = {ByTx(table, FakeGhosts(table, w))}
      BY <2>1, <2>4, BareRowIsFirstSeen
    <3>2. ToSet(FakeGroups(table, w)) = keys
      BY FakeGroupsAgree, Lists
    <3>3. ToSet(FakeLimbo(table, w, now)) = LimboRows(table, w, now)
      BY FakeLimboAgrees, Lists
    <3> HIDE DEF keys
    <3>4. [k \in keys |-> FakeGroupDetail(table, k)[1]] = FirstRows(table, keys)
      BY GroupDetailListed DEF FirstRows
    <3>5. Breakdowns(table, w, now, field) =
            {Bumped(table, field, orphan, ghost, FirstRows(table, keys), LimboRows(table, w, now)) :
               orphan \in BareRows(table, orphans), ghost \in BareRows(table, ghosts)}
      BY DEF Breakdowns, orphans, ghosts, keys
    <3>6. FakeBreakdown(table, w, now, field) =
            Bumped(table, field, ByTx(table, FakeOrphans(table, w)), ByTx(table, FakeGhosts(table, w)),
                   [k \in ToSet(FakeGroups(table, w)) |-> FakeGroupDetail(table, k)[1]],
                   ToSet(FakeLimbo(table, w, now)))
      BY DEF FakeBreakdown
    <3> QED
      BY <3>1, <3>2, <3>3, <3>4, <3>5, <3>6
  <2> QED
    BY <2>5, <2>6
<1> QED
  BY <1>1, DatasetTypes, PTL
=============================================================================
