---------------------------- MODULE DetectionProofs ----------------------------
(***************************************************************************)
(* Lemmas about validation and the anomaly queries over one table: what     *)
(* they find is finite, so that its cardinality means something.            *)
(***************************************************************************)
EXTENDS Detection, TLAPS, FiniteSetTheorems, FunctionTheorems, WellFoundedInduction

(* A transaction that passes Validate passes the CHECK constraints.          *)
LEMMA ValidFitsSchema ==
  ASSUME NEW t, Valid(t)
  PROVE  SchemaAccepts(t)
<1>1. Failing(t) = {}
  <2> SUFFICES ASSUME Failing(t) # {} PROVE FALSE
    OBVIOUS
  <2>1. \A i \in 1..8 : Rules(t)[i][1] # ""
    <3>1. /\ Rules(t)[1][1] # "" /\ Rules(t)[2][1] # "" /\ Rules(t)[3][1] # ""
          /\ Rules(t)[4][1] # "" /\ Rules(t)[5][1] # "" /\ Rules(t)[6][1] # ""
          /\ Rules(t)[7][1] # "" /\ Rules(t)[8][1] # ""
      BY DEF Rules
    <3>2. \A i \in 1..8 : i = 1 \/ i = 2 \/ i = 3 \/ i = 4 \/ i = 5 \/ i = 6 \/ i = 7 \/ i = 8
      OBVIOUS
    <3> QED
      BY <3>1, <3>2
  <2> DEFINE first == CHOOSE i \in Failing(t) : \A j \in Failing(t) : i <= j
  <2>2. \E i \in Failing(t) : \A j \in Failing(t) : i <= j
    <3>1. PICK i \in Failing(t) : TRUE
      OBVIOUS
    <3>2. Failing(t) \subseteq 1..8
      BY DEF Failing
    <3> QED
      BY <3>1, <3>2
  <2>3. first \in 1..8
    BY <2>2 DEF Failing
  <2> QED
    BY <2>1, <2>3 DEF Valid, Validate
<1>2. Rules(t)[3][2] /\ Rules(t)[5][2] /\ Rules(t)[6][2] /\ Rules(t)[7][2]
  BY <1>1 DEF Failing
<1> QED
  BY <1>2 DEF Rules, SchemaAccepts

(* The values a function takes on a finite set are finitely many, and no     *)
(* more than its arguments.                                                  *)
LEMMA ImageFinite ==
  ASSUME NEW f, NEW S, IsFiniteSet(S), NEW T, f \in [S -> T], T = {f[x] : x \in S}
  PROVE  IsFiniteSet(T) /\ Cardinality(T) \in Nat /\ Cardinality(T) <= Cardinality(S)
<1>1. f \in Surjection(S, T)
  BY DEF Surjection
<1>2. IsFiniteSet(T) /\ Cardinality(T) <= Cardinality(S)
  BY <1>1, FS_Surjection
<1> QED
  BY <1>2, FS_CardinalityType

(* Finitely many rows are of finitely many transactions.                     *)
LEMMA TxOfFinite ==
  ASSUME NEW tab, NEW ids, IsFiniteSet(ids)
  PROVE  /\ IsFiniteSet(TxOf(tab, ids)) /\ Cardinality(TxOf(tab, ids)) \in Nat
         /\ Cardinality(TxOf(tab, ids)) <= Cardinality(ids)
<1> DEFINE f == [i \in ids |-> tab[i].id]
<1>1. f \in [ids -> TxOf(tab, ids)] /\ TxOf(tab, ids) = {f[i] : i \in ids}
  BY DEF TxOf
<1> HIDE DEF f
<1> QED
  BY <1>1, ImageFinite

(* Every finder returns finitely many results on a finite table.             *)
LEMMA FindingsFinite ==
  ASSUME NEW tab, NEW w, NEW now, IsFiniteSet(Ids(tab))
  PROVE  /\ IsFiniteSet(Orphaned(tab, w)) /\ Cardinality(Orphaned(tab, w)) \in Nat
         /\ IsFiniteSet(Ghosts(tab, w)) /\ Cardinality(Ghosts(tab, w)) \in Nat
         /\ IsFiniteSet(DuplicateKeys(tab, w)) /\ Cardinality(DuplicateKeys(tab, w)) \in Nat
         /\ IsFiniteSet(LimboRows(tab, w, now)) /\ Cardinality(LimboRows(tab, w, now)) \in Nat
         /\ IsFiniteSet(UniqueIn(tab, w)) /\ Cardinality(UniqueIn(tab, w)) \in Nat
         /\ IsFiniteSet(RowsInWindow(tab, w)) /\ Cardinality(RowsInWindow(tab, w)) \in Nat
<1>1. ASSUME NEW ids, ids \subseteq Ids(tab)
      PROVE  IsFiniteSet(ids) /\ Cardinality(ids) \in Nat
  BY <1>1, FS_Subset, FS_CardinalityType
<1>2. /\ OrphanRows(tab, w) \subseteq Ids(tab) /\ GhostRows(tab, w) \subseteq Ids(tab)
      /\ LimboRows(tab, w, now) \subseteq Ids(tab) /\ RowsInWindow(tab, w) \subseteq Ids(tab)
  BY DEF OrphanRows, GhostRows, LimboRows, RowsInWindow, OfSource
<1>3. IsFiniteSet(DuplicateKeys(tab, w)) /\ Cardinality(DuplicateKeys(tab, w)) \in Nat
  <2> DEFINE ids == {j \in Ids(tab) : InWindow(w, tab[j].at)}
             keys == {KeyOf(tab, i) : i \in ids}
             f == [i \in ids |-> KeyOf(tab, i)]
  <2>1. IsFiniteSet(ids)
    BY <1>1
  <2>2. f \in [ids -> keys] /\ keys = {f[i] : i \in ids}
    OBVIOUS
  <2>3. DuplicateKeys(tab, w) \subseteq keys
    BY DEF DuplicateKeys
  <2> HIDE DEF f, ids, keys
  <2>4. IsFiniteSet(keys)
    BY <2>1, <2>2, ImageFinite
  <2> QED
    BY <2>3, <2>4, FS_Subset, FS_CardinalityType
<1> QED
  BY <1>1, <1>2, <1>3, TxOfFinite DEF Orphaned, Ghosts, UniqueIn

(* The rows of a group are rows of the table.                                *)
LEMMA GroupFinite ==
  ASSUME NEW tab, NEW k, IsFiniteSet(Ids(tab))
  PROVE  IsFiniteSet(GroupRows(tab, k)) /\ Cardinality(GroupRows(tab, k)) \in Nat
<1>1. GroupRows(tab, k) \subseteq Ids(tab)
  BY DEF GroupRows
<1> QED
  BY <1>1, FS_Subset, FS_CardinalityType

(* A table that only got new rows has all the rows of every group still.     *)
LEMMA GroupGrows ==
  ASSUME NEW tab, NEW later, NEW k, IsFiniteSet(Ids(later)),
         Ids(tab) \subseteq Ids(later), \A i \in Ids(tab) : later[i] = tab[i]
  PROVE  Cardinality(GroupRows(tab, k)) <= Cardinality(GroupRows(later, k))
<1>1. GroupRows(tab, k) \subseteq GroupRows(later, k)
  BY DEF GroupRows, KeyOf
<1> QED
  BY <1>1, GroupFinite, FS_Subset

-----------------------------------------------------------------------------
(* Sums over finite sets.  MapThenSumSet is a recursive function on the      *)
(* subsets of a set; that there is one is what has to be shown.              *)

(* A set of numbers has a least one.                                         *)
LEMMA LeastNumber ==
  ASSUME NEW S, S \subseteq Nat, S # {}
  PROVE  \E i \in S : \A j \in S : i <= j
<1>1. PICK i \in S : \A j \in S : <<j, i>> \notin OpToRel(<, Nat)
  BY NatLessThanWellFounded, WFMin
<1>2. \A j \in S : ~(j < i)
  BY <1>1 DEF OpToRel
<1> QED
  BY <1>2

(* Induction on the natural numbers, for a set.                              *)
LEMMA SetInduction ==
  ASSUME NEW P, 0 \in P, \A n \in Nat : n \in P => n + 1 \in P
  PROVE  Nat \subseteq P
<1> SUFFICES ASSUME Nat \ P # {} PROVE FALSE
  OBVIOUS
<1>1. PICK n \in Nat \ P : \A m \in Nat \ P : n <= m
  BY LeastNumber
<1>2. n # 0 /\ n - 1 \in Nat /\ ~(n <= n - 1) /\ n - 1 + 1 = n
  OBVIOUS
<1> QED
  BY <1>1, <1>2

First(s) == CHOOSE x \in s : TRUE

(* sum is what f adds up to on the subsets of S.                             *)
AddsUp(sum, f, S) ==
  sum = [s \in SUBSET S |-> IF s = {} THEN 0 ELSE f[First(s)] + sum[s \ {First(s)}]]

(* A set without its first element is smaller.                               *)
LEMMA RestIsSmaller ==
  ASSUME NEW S, IsFiniteSet(S), NEW s \in SUBSET S
  PROVE  /\ Cardinality(s) \in Nat /\ (Cardinality(s) = 0 <=> s = {})
         /\ s # {} => /\ First(s) \in s /\ s \ {First(s)} \in SUBSET S
                      /\ Cardinality(s \ {First(s)}) = Cardinality(s) - 1
<1>1. IsFiniteSet(s)
  BY FS_Subset
<1>2. s # {} => First(s) \in s
  BY DEF First
<1> QED
  BY <1>1, <1>2, FS_CardinalityType, FS_EmptySet, FS_RemoveElement

(* Every function has a sum.                                                 *)
LEMMA SumExists ==
  ASSUME NEW S, IsFiniteSet(S), NEW f \in [S -> Nat]
  PROVE  \E sum \in [SUBSET S -> Nat] : AddsUp(sum, f, S)
<1> DEFINE Step(g, s) == IF s = {} THEN 0 ELSE f[First(s)] + g[s \ {First(s)}]
           Upto(g, n) == \A s \in SUBSET S : Cardinality(s) <= n => g[s] = Step(g, s)
           P == {n \in Nat : \E g \in [SUBSET S -> Nat] : Upto(g, n)}
<1>1. \A s \in SUBSET S :
        /\ Cardinality(s) \in Nat /\ (Cardinality(s) = 0 <=> s = {})
        /\ s # {} => /\ First(s) \in s /\ s \ {First(s)} \in SUBSET S
                     /\ Cardinality(s \ {First(s)}) = Cardinality(s) - 1
  BY RestIsSmaller
<1>2. 0 \in P
  <2> DEFINE zero == [s \in SUBSET S |-> 0]
  <2>1. ASSUME NEW s \in SUBSET S, Cardinality(s) <= 0 PROVE s = {}
    <3>1. Cardinality(s) \in Nat /\ (Cardinality(s) = 0 <=> s = {})
      BY RestIsSmaller
    <3> QED
      BY <2>1, <3>1
  <2>2. Upto(zero, 0)
    BY <2>1
  <2> QED
    BY <2>2
<1>3. ASSUME NEW n \in Nat, n \in P
      PROVE  n + 1 \in P
  <2>1. PICK g \in [SUBSET S -> Nat] : Upto(g, n)
    BY <1>3
  <2> DEFINE h == [s \in SUBSET S |-> IF Cardinality(s) <= n THEN g[s] ELSE Step(g, s)]
  <2>2. \A s \in SUBSET S : Step(g, s) \in Nat
    BY <1>1
  <2>3. h \in [SUBSET S -> Nat]
    BY <2>2
  <2>4. \A s \in SUBSET S : Cardinality(s) <= n => h[s] = g[s]
    OBVIOUS
  <2>5. ASSUME NEW s \in SUBSET S, Cardinality(s) <= n + 1
        PROVE  h[s] = Step(h, s)
    <3>1. h[s] = Step(g, s)
      BY <2>1
    <3>2. s # {} => h[s \ {First(s)}] = g[s \ {First(s)}]
      BY <1>1, <2>4, <2>5
    <3> HIDE DEF h
    <3> QED
      BY <3>1, <3>2
  <2> HIDE DEF h, Step
  <2> QED
    BY <2>3, <2>5
<1> HIDE DEF P
<1>4. Cardinality(S) \in P
  BY <1>1, <1>2, <1>3, SetInduction
<1>5. PICK g \in [SUBSET S -> Nat] : Upto(g, Cardinality(S))
  BY <1>4 DEF P
<1>6. \A s \in SUBSET S : g[s] = Step(g, s)
  BY <1>5, FS_Subset
<1>7. g = [s \in SUBSET S |-> Step(g, s)]
  BY <1>6
<1> QED
  BY <1>7 DEF AddsUp

(* It has one sum only.                                                      *)
LEMMA SumUnique ==
  ASSUME NEW S, IsFiniteSet(S), NEW f, NEW g, NEW h, AddsUp(g, f, S), AddsUp(h, f, S)
  PROVE  g = h
<1> DEFINE P == {n \in Nat : \A s \in SUBSET S : Cardinality(s) = n => g[s] = h[s]}
<1>1. \A s \in SUBSET S :
        /\ Cardinality(s) \in Nat /\ (Cardinality(s) = 0 <=> s = {})
        /\ s # {} => /\ First(s) \in s /\ s \ {First(s)} \in SUBSET S
                     /\ Cardinality(s \ {First(s)}) = Cardinality(s) - 1
  BY RestIsSmaller
<1>2. \A s \in SUBSET S :
        /\ g[s] = IF s = {} THEN 0 ELSE f[First(s)] + g[s \ {First(s)}]
        /\ h[s] = IF s = {} THEN 0 ELSE f[First(s)] + h[s \ {First(s)}]
  BY DEF AddsUp
<1>3. 0 \in P
  BY <1>1, <1>2
<1>4. ASSUME NEW n \in Nat, n \in P
      PROVE  n + 1 \in P
  <2> SUFFICES ASSUME NEW s \in SUBSET S, Cardinality(s) = n + 1 PROVE g[s] = h[s]
    OBVIOUS
  <2>1. s # {} /\ Cardinality(s \ {First(s)}) = n
    <3>1. Cardinality(s) # 0
      OBVIOUS
    <3> QED
      BY <1>1, <3>1
  <2>2. g[s \ {First(s)}] = h[s \ {First(s)}]
    BY <1>1, <1>4, <2>1
  <2> QED
    BY <1>2, <2>1, <2>2
<1> HIDE DEF P
<1>5. \A s \in SUBSET S : Cardinality(s) \in P
  BY <1>1, <1>3, <1>4, SetInduction
<1>6. \A s \in SUBSET S : g[s] = h[s]
  BY <1>5 DEF P
<1> QED
  BY <1>6 DEF AddsUp

(* A sum takes its arguments in any order.                                   *)
LEMMA SumTakesOut ==
  ASSUME NEW S, IsFiniteSet(S), NEW f \in [S -> Nat],
         NEW sum \in [SUBSET S -> Nat], AddsUp(sum, f, S), NEW t \in SUBSET S, NEW z \in t
  PROVE  sum[t] = f[z] + sum[t \ {z}]
<1> DEFINE P == {n \in Nat : \A s \in SUBSET S : Cardinality(s) = n =>
                   \A x \in s : sum[s] = f[x] + sum[s \ {x}]}
<1>1. ASSUME NEW s \in SUBSET S
      PROVE  /\ Cardinality(s) \in Nat /\ (Cardinality(s) = 0 <=> s = {})
             /\ s # {} => /\ First(s) \in s /\ s \ {First(s)} \in SUBSET S
                          /\ Cardinality(s \ {First(s)}) = Cardinality(s) - 1
                          /\ sum[s] = f[First(s)] + sum[s \ {First(s)}]
  BY RestIsSmaller DEF AddsUp
<1>2. 0 \in P
  BY <1>1
<1>3. ASSUME NEW n \in Nat, n \in P
      PROVE  n + 1 \in P
  <2> SUFFICES ASSUME NEW s \in SUBSET S, Cardinality(s) = n + 1, NEW x \in s
               PROVE  sum[s] = f[x] + sum[s \ {x}]
    OBVIOUS
  <2> DEFINE y == First(s)
             rest == s \ {y}
             both == rest \ {x}
  <2>1. /\ y \in s /\ rest \in SUBSET S /\ Cardinality(rest) = n
        /\ sum[s] = f[y] + sum[rest]
    <3>1. s # {}
      OBVIOUS
    <3>2. Cardinality(s) - 1 = n
      OBVIOUS
    <3> QED
      BY <1>1, <3>1, <3>2
  <2> HIDE DEF y
  <2>2. CASE x = y
    BY <2>1, <2>2
  <2>3. CASE x # y
    <3>1. sum[rest] = f[x] + sum[both]
      BY <1>3, <2>1, <2>3
    <3>2. s \ {x} \in SUBSET S /\ y \in s \ {x} /\ (s \ {x}) \ {y} = both
      BY <2>1, <2>3
    <3>3. Cardinality(s \ {x}) = n
      <4>1. IsFiniteSet(s)
        BY FS_Subset
      <4>2. Cardinality(s) - 1 = n
        OBVIOUS
      <4> QED
        BY <4>1, <4>2, FS_RemoveElement
    <3>4. sum[s \ {x}] = f[y] + sum[both]
      <4> DEFINE others == s \ {x}
      <4>1. \A v \in SUBSET S : Cardinality(v) = n => \A w \in v : sum[v] = f[w] + sum[v \ {w}]
        BY <1>3
      <4>2. others \in SUBSET S /\ Cardinality(others) = n /\ y \in others /\ others \ {y} = both
        BY <3>2, <3>3
      <4> HIDE DEF others, both
      <4>3. sum[others] = f[y] + sum[others \ {y}]
        BY <4>1, <4>2
      <4> QED
        BY <4>2, <4>3 DEF others
    <3>5. f[x] \in Nat /\ f[y] \in Nat /\ sum[both] \in Nat
      BY <2>1
    <3> HIDE DEF rest, both
    <3> QED
      BY <2>1, <3>1, <3>4, <3>5
  <2> QED
    BY <2>2, <2>3
<1> HIDE DEF P
<1>4. \A s \in SUBSET S : Cardinality(s) \in P
  BY <1>1, <1>2, <1>3, SetInduction
<1> QED
  BY <1>4 DEF P

(* Of smaller terms the sum is smaller.                                      *)
LEMMA SumsCompare ==
  ASSUME NEW T, IsFiniteSet(T), NEW S \in SUBSET T,
         NEW f \in [S -> Nat], NEW g \in [T -> Nat], \A x \in S : f[x] <= g[x],
         NEW sum \in [SUBSET S -> Nat], AddsUp(sum, f, S),
         NEW total \in [SUBSET T -> Nat], AddsUp(total, g, T)
  PROVE  sum[S] <= total[S]
<1> DEFINE P == {n \in Nat : \A s \in SUBSET S : Cardinality(s) = n => sum[s] <= total[s]}
<1>0. IsFiniteSet(S)
  BY FS_Subset
<1>1. ASSUME NEW s \in SUBSET S
      PROVE  /\ Cardinality(s) \in Nat /\ (Cardinality(s) = 0 <=> s = {})
             /\ s # {} => /\ First(s) \in s /\ s \ {First(s)} \in SUBSET S
                          /\ Cardinality(s \ {First(s)}) = Cardinality(s) - 1
  BY <1>0, RestIsSmaller
<1>2. ASSUME NEW s \in SUBSET S
      PROVE  /\ sum[s] = IF s = {} THEN 0 ELSE f[First(s)] + sum[s \ {First(s)}]
             /\ total[s] = IF s = {} THEN 0 ELSE g[First(s)] + total[s \ {First(s)}]
  <2>1. s \in SUBSET T
    OBVIOUS
  <2> QED
    BY <2>1 DEF AddsUp
<1>3. 0 \in P
  <2> SUFFICES ASSUME NEW s \in SUBSET S, Cardinality(s) = 0 PROVE sum[s] <= total[s]
    OBVIOUS
  <2>1. s = {}
    BY <1>1
  <2>2. sum[s] = 0 /\ total[s] = 0
    BY <1>2, <2>1
  <2> QED
    BY <2>2
<1>4. ASSUME NEW n \in Nat, n \in P
      PROVE  n + 1 \in P
  <2> SUFFICES ASSUME NEW s \in SUBSET S, Cardinality(s) = n + 1 PROVE sum[s] <= total[s]
    OBVIOUS
  <2> DEFINE x == First(s)
             rest == s \ {x}
  <2>1. s # {} /\ x \in s /\ rest \in SUBSET S /\ Cardinality(rest) = n
    BY <1>1
  <2>2. sum[rest] <= total[rest]
    BY <1>4, <2>1
  <2>3. sum[s] = f[x] + sum[rest] /\ total[s] = g[x] + total[rest]
    BY <1>2, <2>1
  <2>4. /\ f[x] \in Nat /\ g[x] \in Nat /\ f[x] <= g[x]
        /\ sum[rest] \in Nat /\ total[rest] \in Nat
    BY <2>1
  <2> HIDE DEF x, rest
  <2> QED
    BY <2>2, <2>3, <2>4
<1> HIDE DEF P
<1>5. Cardinality(S) \in P
  BY <1>1, <1>3, <1>4, SetInduction
<1> QED
  BY <1>5 DEF P

(* A measure of the subsets of S, like their cardinality or a sum.           *)
Additive(m, S) ==
  /\ m \in [SUBSET S -> Nat] /\ m[{}] = 0
  /\ \A s, t \in SUBSET S : s \cap t = {} => m[s \cup t] = m[s] + m[t]

LEMMA SumIsAdditive ==
  ASSUME NEW S, IsFiniteSet(S), NEW f \in [S -> Nat],
         NEW sum \in [SUBSET S -> Nat], AddsUp(sum, f, S)
  PROVE  Additive(sum, S)
<1> DEFINE Splits(s, t) == s \cap t = {} => sum[s \cup t] = sum[s] + sum[t]
           P == {n \in Nat : \A s, t \in SUBSET S : Cardinality(t) = n => Splits(s, t)}
<1>1. ASSUME NEW s \in SUBSET S
      PROVE  /\ Cardinality(s) \in Nat /\ (Cardinality(s) = 0 <=> s = {})
             /\ s # {} => /\ First(s) \in s /\ s \ {First(s)} \in SUBSET S
                          /\ Cardinality(s \ {First(s)}) = Cardinality(s) - 1
  BY RestIsSmaller
<1>2. ASSUME NEW s \in SUBSET S, NEW x \in s
      PROVE  sum[s] = f[x] + sum[s \ {x}]
  BY SumTakesOut
<1>3. sum[{}] = 0
  BY DEF AddsUp
<1>4. 0 \in P
  <2> SUFFICES ASSUME NEW s \in SUBSET S, NEW t \in SUBSET S, Cardinality(t) = 0
               PROVE  sum[s \cup t] = sum[s] + sum[t]
    OBVIOUS
  <2>1. t = {} /\ s \cup t = s /\ sum[s] \in Nat
    BY <1>1
  <2> QED
    BY <1>3, <2>1
<1>5. ASSUME NEW n \in Nat, n \in P
      PROVE  n + 1 \in P
  <2> SUFFICES ASSUME NEW s \in SUBSET S, NEW t \in SUBSET S,
                      Cardinality(t) = n + 1, s \cap t = {}
               PROVE  sum[s \cup t] = sum[s] + sum[t]
    <3> HIDE DEF Splits
    <3>1. (\A s, t \in SUBSET S : Cardinality(t) = n + 1 => Splits(s, t)) => n + 1 \in P
      OBVIOUS
    <3> QED
      BY <3>1 DEF Splits
  <2> DEFINE x == First(t)
             rest == t \ {x}
  <2>1. x \in t /\ rest \in SUBSET S /\ Cardinality(rest) = n
    <3>1. Cardinality(t) # 0 /\ Cardinality(t) - 1 = n
      OBVIOUS
    <3> QED
      BY <1>1, <3>1
  <2> HIDE DEF x
  <2>2. /\ s \cup t \in SUBSET S /\ x \in s \cup t /\ (s \cup t) \ {x} = s \cup rest
        /\ s \cap rest = {}
    BY <2>1
  <2>3. sum[s \cup t] = f[x] + sum[s \cup rest]
    BY <1>2, <2>2
  <2>4. sum[s \cup rest] = sum[s] + sum[rest]
    BY <1>5, <2>1, <2>2
  <2>5. sum[t] = f[x] + sum[rest]
    BY <1>2, <2>1
  <2>6. f[x] \in Nat /\ sum[s] \in Nat /\ sum[rest] \in Nat
    BY <2>1
  <2> HIDE DEF rest
  <2> QED
    BY <2>3, <2>4, <2>5, <2>6
<1> HIDE DEF P
<1>6. \A s \in SUBSET S : Cardinality(s) \in P
  BY <1>1, <1>4, <1>5, SetInduction
<1> QED
  BY <1>3, <1>6 DEF P, Additive

LEMMA SizeIsAdditive ==
  ASSUME NEW S, IsFiniteSet(S)
  PROVE  Additive([s \in SUBSET S |-> Cardinality(s)], S)
<1>1. ASSUME NEW s \in SUBSET S
      PROVE  IsFiniteSet(s) /\ Cardinality(s) \in Nat
  BY FS_Subset, FS_CardinalityType
<1>2. ASSUME NEW s \in SUBSET S, NEW t \in SUBSET S, s \cap t = {}
      PROVE  s \cup t \in SUBSET S /\ Cardinality(s \cup t) = Cardinality(s) + Cardinality(t)
  <2>1. Cardinality(s \cup t) = Cardinality(s) + Cardinality(t) - Cardinality(s \cap t)
    BY <1>1, FS_Union
  <2> QED
    BY <1>1, <1>2, <2>1, FS_EmptySet
<1> QED
  BY <1>1, <1>2, FS_EmptySet DEF Additive

\* part measures the elements of S that g sends to each of K.
Parts(part, K, g, m, S) ==
  g \in [S -> K] /\ \A k \in K : part[k] = m[{x \in S : g[x] = k}]

(* The measures of the parts add up to that of the whole.                    *)
LEMMA PartsAddUp ==
  ASSUME NEW S, NEW m, Additive(m, S), NEW K, IsFiniteSet(K), NEW g, NEW part, Parts(part, K, g, m, S),
         NEW total \in [SUBSET K -> Nat], AddsUp(total, part, K)
  PROVE  total[K] = m[S]
<1> g \in [S -> K] /\ \A k \in K : part[k] = m[{x \in S : g[x] = k}]
  BY DEF Parts
<1> DEFINE In(s) == {x \in S : g[x] \in s}
           P == {n \in Nat : \A s \in SUBSET K : Cardinality(s) = n => total[s] = m[In(s)]}
<1>1. ASSUME NEW s \in SUBSET K
      PROVE  /\ Cardinality(s) \in Nat /\ (Cardinality(s) = 0 <=> s = {})
             /\ s # {} => /\ First(s) \in s /\ s \ {First(s)} \in SUBSET K
                          /\ Cardinality(s \ {First(s)}) = Cardinality(s) - 1
                          /\ total[s] = part[First(s)] + total[s \ {First(s)}]
  BY RestIsSmaller DEF AddsUp
<1>2. 0 \in P
  <2>1. total[{}] = 0 /\ In({}) = {} /\ m[{}] = 0
    BY DEF AddsUp, Additive
  <2> QED
    BY <1>1, <2>1
<1>3. ASSUME NEW n \in Nat, n \in P
      PROVE  n + 1 \in P
  <2> SUFFICES ASSUME NEW s \in SUBSET K, Cardinality(s) = n + 1
               PROVE  total[s] = m[In(s)]
    <3> HIDE DEF In
    <3> QED
      OBVIOUS
  <2> DEFINE k == First(s)
             rest == s \ {k}
             of == {x \in S : g[x] = k}
  <2>1. /\ k \in s /\ rest \in SUBSET K /\ Cardinality(rest) = n
        /\ total[s] = part[k] + total[rest]
    <3>1. Cardinality(s) # 0 /\ Cardinality(s) - 1 = n
      OBVIOUS
    <3> QED
      BY <1>1, <3>1
  <2> HIDE DEF k
  <2>2. total[rest] = m[In(rest)]
    BY <1>3, <2>1
  <2>3. /\ In(s) = of \cup In(rest) /\ of \cap In(rest) = {}
        /\ of \in SUBSET S /\ In(rest) \in SUBSET S
    BY <2>1
  <2>4. part[k] = m[of]
    BY <2>1
  <2> HIDE DEF In, rest, of
  <2>5. m[In(s)] = m[of] + m[In(rest)]
    BY <2>3 DEF Additive
  <2> QED
    BY <2>1, <2>2, <2>4, <2>5
<1> HIDE DEF P
<1>4. \A s \in SUBSET K : Cardinality(s) \in P
  BY <1>1, <1>2, <1>3, SetInduction
<1>5. total[K] = m[In(K)]
  BY <1>4 DEF P
<1>6. In(K) = S
  OBVIOUS
<1> QED
  BY <1>5, <1>6

\* total is what f adds up to on S and on its subsets.
IsTotal(total, f, S) ==
  IsFiniteSet(S) /\ f \in [S -> Nat] /\ total \in [SUBSET S -> Nat] /\ AddsUp(total, f, S)

\* g renames the terms f adds up to those part does, one by one.
Renames(g, f, S, part, K) ==
  /\ g \in [S -> K]
  /\ \A x, y \in S : g[x] = g[y] => x = y
  /\ \A k \in K : \E x \in S : g[x] = k
  /\ \A x \in S : f[x] = part[g[x]]

(* Terms that are renamed one by one add up to the same.                     *)
LEMMA SumOfRenamed ==
  ASSUME NEW S, NEW f, NEW sum, IsTotal(sum, f, S),
         NEW K, NEW part, NEW total, IsTotal(total, part, K), NEW g, Renames(g, f, S, part, K)
  PROVE  sum[S] = total[K]
<1>1. Additive(sum, S)
  BY SumIsAdditive DEF IsTotal
<1>2. ASSUME NEW k \in K PROVE part[k] = sum[{x \in S : g[x] = k}]
  <2>1. PICK x \in S : g[x] = k
    BY DEF Renames
  <2>2. {y \in S : g[y] = k} = {x}
    BY <2>1 DEF Renames
  <2>3. {x} \in SUBSET S /\ {x} # {} /\ First({x}) = x /\ {x} \ {x} = {}
    BY DEF First
  <2>4. sum[{x}] = f[x] + sum[{}]
    <3>1. \A s \in SUBSET S : s # {} => sum[s] = f[First(s)] + sum[s \ {First(s)}]
      BY DEF AddsUp, IsTotal
    <3> QED
      BY <2>3, <3>1
  <2>5. sum[{}] = 0 /\ f[x] \in Nat /\ f[x] = part[k]
    BY <1>1, <2>1 DEF Additive, IsTotal, Renames
  <2>6. sum[{x}] = part[k]
    BY <2>4, <2>5
  <2> QED
    BY <2>2, <2>6
<1>3. Parts(part, K, g, sum, S)
  BY <1>2 DEF Parts, Renames
<1>4. total[K] = sum[S]
  <2>1. \A m, k, h : /\ Additive(m, S) /\ IsFiniteSet(k) /\ Parts(part, k, g, m, S)
                    /\ h \in [SUBSET k -> Nat] /\ AddsUp(h, part, k)
                    => h[k] = m[S]
    BY ONLY PartsAddUp, Z3
  <2> QED
    BY <1>1, <1>3, <2>1 DEF IsTotal
<1> QED
  BY <1>4

(* The redundant rows of duplicate groups are such a sum.                    *)
ExtraOf(tab, keys) == MapThenSumSet(LAMBDA k : Cardinality(GroupRows(tab, k)) - 1, keys)

LEMMA ExtraAddsUp ==
  ASSUME NEW tab, NEW keys, IsFiniteSet(keys),
         \A k \in keys : Cardinality(GroupRows(tab, k)) \in Nat \ {0}
  PROVE  \E sum \in [SUBSET keys -> Nat] :
           /\ AddsUp(sum, [k \in keys |-> Cardinality(GroupRows(tab, k)) - 1], keys)
           /\ ExtraOf(tab, keys) = sum[keys]
<1> DEFINE f == [k \in keys |-> Cardinality(GroupRows(tab, k)) - 1]
           Rec(g) == [s \in SUBSET keys |->
                        IF s = {} THEN 0
                        ELSE (Cardinality(GroupRows(tab, CHOOSE x \in s : TRUE)) - 1)
                               + g[s \ {CHOOSE x \in s : TRUE}]]
           iter == CHOOSE g : g = Rec(g)
<1>1. f \in [keys -> Nat]
  OBVIOUS
<1>2. ExtraOf(tab, keys) = iter[keys]
  BY DEF ExtraOf, MapThenSumSet, MapThenFoldSet
<1>3. \A g : AddsUp(g, f, keys) <=> g = Rec(g)
  <2> TAKE g
  <2>1. \A s \in SUBSET keys : s # {} => First(s) \in keys /\ f[First(s)] = Cardinality(GroupRows(tab, First(s))) - 1
    BY DEF First
  <2>2. Rec(g) = [s \in SUBSET keys |-> IF s = {} THEN 0 ELSE f[First(s)] + g[s \ {First(s)}]]
    BY <2>1 DEF First
  <2> QED
    BY <2>2 DEF AddsUp
<1>4. PICK sum \in [SUBSET keys -> Nat] : AddsUp(sum, f, keys)
  BY <1>1, SumExists
<1> HIDE DEF Rec
<1>5. iter = Rec(iter)
  <2>1. sum = Rec(sum)
    BY <1>3, <1>4
  <2> QED
    BY <2>1
<1>6. iter = sum
  BY <1>3, <1>4, <1>5, SumUnique
<1> QED
  BY <1>2, <1>4, <1>6

(* A group that is a duplicate has a redundant row.                          *)
LEMMA DuplicateGroups ==
  ASSUME NEW tab, NEW w, IsFiniteSet(Ids(tab))
  PROVE  /\ IsFiniteSet(DuplicateKeys(tab, w))
         /\ \A k \in DuplicateKeys(tab, w) : /\ Cardinality(GroupRows(tab, k)) \in Nat \ {0}
                                             /\ Cardinality(GroupRows(tab, k)) > 1
<1>1. IsFiniteSet(DuplicateKeys(tab, w))
  BY FindingsFinite
<1>2. \A k : Cardinality(GroupRows(tab, k)) \in Nat
  BY GroupFinite
<1>3. \A k \in DuplicateKeys(tab, w) : Cardinality(GroupRows(tab, k)) > 1
  BY DEF DuplicateKeys
<1> QED
  BY <1>1, <1>2, <1>3

(* So a window has redundant rows if and only if it has duplicate groups.    *)
LEMMA ExtraIffGroups ==
  ASSUME NEW tab, NEW w, IsFiniteSet(Ids(tab))
  PROVE  /\ ExtraOf(tab, DuplicateKeys(tab, w)) \in Nat
         /\ ExtraOf(tab, DuplicateKeys(tab, w)) = 0 <=> DuplicateKeys(tab, w) = {}
<1> DEFINE keys == DuplicateKeys(tab, w)
           f == [k \in keys |-> Cardinality(GroupRows(tab, k)) - 1]
<1>1. /\ IsFiniteSet(keys)
      /\ \A k \in keys : /\ Cardinality(GroupRows(tab, k)) \in Nat \ {0}
                         /\ Cardinality(GroupRows(tab, k)) > 1
  BY DuplicateGroups
<1> HIDE DEF keys
<1>2. PICK sum \in [SUBSET keys -> Nat] : AddsUp(sum, f, keys) /\ ExtraOf(tab, keys) = sum[keys]
  BY <1>1, ExtraAddsUp
<1>3. sum[keys] = IF keys = {} THEN 0 ELSE f[First(keys)] + sum[keys \ {First(keys)}]
  BY <1>2 DEF AddsUp
<1>4. CASE keys = {}
  BY <1>2, <1>3, <1>4 DEF keys
<1>5. CASE keys # {}
  <2>1. First(keys) \in keys
    BY <1>5 DEF First
  <2>2. f[First(keys)] \in Nat /\ f[First(keys)] > 0
    BY <1>1, <2>1
  <2>3. sum[keys \ {First(keys)}] \in Nat
    BY <1>2
  <2> QED
    BY <1>2, <1>3, <1>5, <2>2, <2>3 DEF keys
<1> QED
  BY <1>4, <1>5

(* More groups of more rows have more redundant rows.                        *)
LEMMA ExtraGrows ==
  ASSUME NEW tab, NEW later, NEW w, IsFiniteSet(Ids(tab)), IsFiniteSet(Ids(later)),
         Ids(tab) \subseteq Ids(later), \A i \in Ids(tab) : later[i] = tab[i]
  PROVE  ExtraOf(tab, DuplicateKeys(tab, w)) <= ExtraOf(later, DuplicateKeys(later, w))
<1> DEFINE keys == DuplicateKeys(tab, w)
           more == DuplicateKeys(later, w)
           f == [k \in keys |-> Cardinality(GroupRows(tab, k)) - 1]
           g == [k \in more |-> Cardinality(GroupRows(later, k)) - 1]
<1>1. \A k : /\ Cardinality(GroupRows(tab, k)) \in Nat /\ Cardinality(GroupRows(later, k)) \in Nat
             /\ Cardinality(GroupRows(tab, k)) <= Cardinality(GroupRows(later, k))
  BY GroupFinite, GroupGrows
<1>2. keys \subseteq more
  <2> SUFFICES ASSUME NEW k \in keys PROVE k \in more
    OBVIOUS
  <2>1. PICK i \in Ids(tab) : InWindow(w, tab[i].at) /\ KeyOf(tab, i) = k
    BY DEF DuplicateKeys
  <2>2. i \in Ids(later) /\ InWindow(w, later[i].at) /\ KeyOf(later, i) = k
    BY <2>1 DEF KeyOf
  <2>3. Cardinality(GroupRows(tab, k)) > 1
    BY DEF DuplicateKeys
  <2>4. Cardinality(GroupRows(later, k)) > 1
    BY <1>1, <2>3
  <2> QED
    BY <2>2, <2>4 DEF DuplicateKeys
<1>3. /\ IsFiniteSet(keys) /\ \A k \in keys : Cardinality(GroupRows(tab, k)) \in Nat \ {0}
      /\ IsFiniteSet(more) /\ \A k \in more : Cardinality(GroupRows(later, k)) \in Nat \ {0}
  BY DuplicateGroups
<1> HIDE DEF keys, more
<1>4. PICK sum \in [SUBSET keys -> Nat] : AddsUp(sum, f, keys) /\ ExtraOf(tab, keys) = sum[keys]
  BY <1>3, ExtraAddsUp
<1>5. PICK total \in [SUBSET more -> Nat] : AddsUp(total, g, more) /\ ExtraOf(later, more) = total[more]
  BY <1>3, ExtraAddsUp
<1>6. f \in [keys -> Nat] /\ g \in [more -> Nat] /\ \A k \in keys : f[k] <= g[k]
  BY <1>1, <1>2, <1>3
<1> HIDE DEF f, g
<1>7. sum[keys] <= total[keys]
  BY <1>2, <1>3, <1>4, <1>5, <1>6, SumsCompare
<1>8. total[keys] <= total[more]
  <2>1. Additive(total, more)
    BY <1>3, <1>5, <1>6, SumIsAdditive
  <2>2. keys \in SUBSET more /\ more \ keys \in SUBSET more
        /\ keys \cap (more \ keys) = {} /\ keys \cup (more \ keys) = more
    BY <1>2
  <2>3. total[more] = total[keys] + total[more \ keys]
    BY <2>1, <2>2 DEF Additive
  <2>4. total[more] \in Nat /\ total[keys] \in Nat /\ total[more \ keys] \in Nat
    BY <2>2
  <2> QED
    BY <2>3, <2>4
<1>9. sum[keys] \in Nat /\ total[keys] \in Nat /\ total[more] \in Nat
  BY <1>2
<1> QED
  BY <1>4, <1>5, <1>7, <1>8, <1>9 DEF keys, more

(* The numbers a report counts.                                              *)
LEMMA CountsAreNumbers ==
  ASSUME NEW tab, NEW w, NEW now, IsFiniteSet(Ids(tab))
  PROVE  LET c == Counts(tab, w, now)
         IN  /\ c.orphaned = Cardinality(Orphaned(tab, w)) /\ c.orphaned \in Nat
             /\ c.ghost = Cardinality(Ghosts(tab, w)) /\ c.ghost \in Nat
             /\ c.groups = Cardinality(DuplicateKeys(tab, w)) /\ c.groups \in Nat
             /\ c.extra = ExtraOf(tab, DuplicateKeys(tab, w)) /\ c.extra \in Nat
             /\ c.limbo = Cardinality(LimboRows(tab, w, now)) /\ c.limbo \in Nat
             /\ c.unique = Cardinality(UniqueIn(tab, w)) /\ c.unique \in Nat
             /\ c.total = Cardinality(RowsInWindow(tab, w)) /\ c.total \in Nat
<1>1. Counts(tab, w, now).extra = ExtraOf(tab, DuplicateKeys(tab, w))
  BY DEF Counts, ExtraOf
<1>2. ExtraOf(tab, DuplicateKeys(tab, w)) \in Nat
  BY ExtraIffGroups
<1>3. /\ Counts(tab, w, now).orphaned = Cardinality(Orphaned(tab, w))
      /\ Counts(tab, w, now).ghost = Cardinality(Ghosts(tab, w))
      /\ Counts(tab, w, now).groups = Cardinality(DuplicateKeys(tab, w))
      /\ Counts(tab, w, now).limbo = Cardinality(LimboRows(tab, w, now))
      /\ Counts(tab, w, now).unique = Cardinality(UniqueIn(tab, w))
      /\ Counts(tab, w, now).total = Cardinality(RowsInWindow(tab, w))
  BY DEF Counts
<1> QED
  BY <1>1, <1>2, <1>3, FindingsFinite

(* What a clean count is, redundant rows or groups makes no difference; and  *)
(* where no transaction is in the window nothing is found.                   *)
LEMMA CleanCounts ==
  ASSUME NEW tab, NEW w, NEW now, IsFiniteSet(Ids(tab))
  PROVE  LET c == Counts(tab, w, now)
         IN  /\ c.extra = 0 <=> c.groups = 0
             /\ c.unique = 0 => c.orphaned = 0 /\ c.ghost = 0 /\ c.groups = 0 /\ c.limbo = 0
<1>1. Counts(tab, w, now).extra = 0 <=> Counts(tab, w, now).groups = 0
  <2>1. Cardinality(DuplicateKeys(tab, w)) = 0 <=> DuplicateKeys(tab, w) = {}
    BY FindingsFinite, FS_EmptySet
  <2> QED
    BY <2>1, CountsAreNumbers, ExtraIffGroups
<1>2. ASSUME Counts(tab, w, now).unique = 0
      PROVE  /\ Orphaned(tab, w) = {} /\ Ghosts(tab, w) = {}
             /\ DuplicateKeys(tab, w) = {} /\ LimboRows(tab, w, now) = {}
  <2>1. UniqueIn(tab, w) = {}
    <3>1. IsFiniteSet(UniqueIn(tab, w))
      BY FindingsFinite
    <3>2. Cardinality(UniqueIn(tab, w)) = 0
      BY <1>2, CountsAreNumbers
    <3> QED
      BY <3>1, <3>2, FS_EmptySet
  <2>2. \A i \in Ids(tab) : ~InWindow(w, tab[i].at)
    BY <2>1 DEF UniqueIn, TxOf, RowsInWindow
  <2> QED
    BY <2>2 DEF Orphaned, OrphanRows, Ghosts, GhostRows, DuplicateKeys, LimboRows, TxOf, OfSource
<1>3. Counts(tab, w, now).unique = 0
        => /\ Counts(tab, w, now).orphaned = 0 /\ Counts(tab, w, now).ghost = 0
           /\ Counts(tab, w, now).groups = 0 /\ Counts(tab, w, now).limbo = 0
  BY <1>2, CountsAreNumbers, FS_EmptySet
<1> QED
  BY <1>1, <1>3

AreCounts(c) ==
  /\ c.orphaned \in Nat /\ c.ghost \in Nat /\ c.groups \in Nat /\ c.extra \in Nat
  /\ c.limbo \in Nat /\ c.unique \in Nat

(* The health score is a fraction of 1, and 1 of a clean count only.         *)
LEMMA ScoreIsFraction ==
  ASSUME NEW c, AreCounts(c), c.extra = 0 <=> c.groups = 0,
         c.unique = 0 => c.orphaned = 0 /\ c.ghost = 0 /\ c.groups = 0 /\ c.limbo = 0
  PROVE  /\ Score(c)[1] \in Nat /\ Score(c)[2] \in Nat \ {0} /\ Score(c)[1] <= Score(c)[2]
         /\ Score(c)[1] = Score(c)[2] <=> c.orphaned + c.ghost + c.groups + c.limbo = 0
<1>1. /\ c.orphaned \in Nat /\ c.ghost \in Nat /\ c.groups \in Nat /\ c.extra \in Nat
      /\ c.limbo \in Nat /\ c.unique \in Nat
  BY DEF AreCounts
<1>2. /\ c.extra = 0 <=> c.groups = 0
      /\ c.unique = 0 => c.orphaned = 0 /\ c.ghost = 0 /\ c.groups = 0 /\ c.limbo = 0
  OBVIOUS
<1> DEFINE anomalies == c.orphaned + c.ghost + c.extra + c.limbo
<1>3. anomalies \in Nat /\ (anomalies = 0 <=> c.orphaned + c.ghost + c.groups + c.limbo = 0)
  <2> DEFINE o == c.orphaned  g == c.ghost  d == c.groups  e == c.extra  l == c.limbo
  <2>1. /\ o \in Nat /\ g \in Nat /\ d \in Nat /\ e \in Nat /\ l \in Nat
        /\ e = 0 <=> d = 0
    BY <1>1, <1>2
  <2> HIDE DEF o, g, d, e, l
  <2>2. o + g + e + l \in Nat /\ (o + g + e + l = 0 <=> o + g + d + l = 0)
    BY <2>1
  <2> QED
    BY <2>2 DEF o, g, d, e, l
<1>4. Score(c) = IF c.unique = 0 THEN <<1, 1>>
                 ELSE IF anomalies > c.unique THEN <<0, 1>>
                 ELSE <<c.unique - anomalies, c.unique>>
  BY DEF Score
<1>5. CASE c.unique = 0
  BY <1>1, <1>2, <1>4, <1>5
<1> HIDE DEF anomalies
<1>6. CASE c.unique # 0 /\ anomalies > c.unique
  <2>1. Score(c)[1] = 0 /\ Score(c)[2] = 1 /\ anomalies # 0
    BY <1>1, <1>3, <1>4, <1>6
  <2> QED
    BY <1>3, <2>1
<1>7. CASE c.unique # 0 /\ ~(anomalies > c.unique)
  <2>1. Score(c)[1] = c.unique - anomalies /\ Score(c)[2] = c.unique
    BY <1>4, <1>7
  <2>2. /\ c.unique - anomalies \in Nat /\ c.unique \in Nat \ {0}
        /\ c.unique - anomalies <= c.unique
        /\ c.unique - anomalies = c.unique <=> anomalies = 0
    BY <1>1, <1>3, <1>7
  <2> QED
    BY <1>3, <2>1, <2>2
<1> QED
  BY <1>5, <1>6, <1>7

LEMMA ScoreProperties ==
  ASSUME NEW tab, NEW w, NEW now, IsFiniteSet(Ids(tab)),
         NEW c, c = Counts(tab, w, now)
  PROVE  /\ Score(c)[1] \in Nat /\ Score(c)[2] \in Nat \ {0} /\ Score(c)[1] <= Score(c)[2]
         /\ Score(c)[1] = Score(c)[2] <=> c.orphaned + c.ghost + c.groups + c.limbo = 0
<1>1. AreCounts(c)
  BY CountsAreNumbers DEF AreCounts
<1>2. /\ c.extra = 0 <=> c.groups = 0
      /\ c.unique = 0 => c.orphaned = 0 /\ c.ghost = 0 /\ c.groups = 0 /\ c.limbo = 0
  BY CleanCounts
<1> QED
  BY <1>1, <1>2, ScoreIsFraction

\* No fewer anomalies among as many transactions.
AtLeastAsBad(c, d) ==
  /\ c.orphaned <= d.orphaned /\ c.ghost <= d.ghost
  /\ c.extra <= d.extra /\ c.limbo <= d.limbo
  /\ c.unique = d.unique

(* A score below some minimum stays below it when matters get worse.         *)
LEMMA WorseScore ==
  ASSUME NEW c, NEW d, AreCounts(c), AreCounts(d), AtLeastAsBad(c, d), NEW min \in 0..100,
         Score(c)[1] * 100 < min * Score(c)[2]
  PROVE  Score(d)[1] * 100 < min * Score(d)[2]
<1> DEFINE u == c.unique
           a == c.orphaned + c.ghost + c.extra + c.limbo
           b == d.orphaned + d.ghost + d.extra + d.limbo
<1>1. u \in Nat /\ a \in Nat /\ b \in Nat /\ a <= b /\ d.unique = u
  <2> DEFINE o == c.orphaned  g == c.ghost  e == c.extra  l == c.limbo
             p == d.orphaned  h == d.ghost  f == d.extra  m == d.limbo
  <2>1. /\ o \in Nat /\ g \in Nat /\ e \in Nat /\ l \in Nat
        /\ p \in Nat /\ h \in Nat /\ f \in Nat /\ m \in Nat
        /\ o <= p /\ g <= h /\ e <= f /\ l <= m
    BY DEF AreCounts, AtLeastAsBad
  <2> HIDE DEF o, g, e, l, p, h, f, m
  <2>2. /\ o + g + e + l \in Nat /\ p + h + f + m \in Nat
        /\ o + g + e + l <= p + h + f + m
    BY <2>1
  <2>3. u \in Nat /\ d.unique = u
    BY DEF AreCounts, AtLeastAsBad
  <2> QED
    BY <2>2, <2>3 DEF o, g, e, l, p, h, f, m
<1>2. /\ Score(c) = IF u = 0 THEN <<1, 1>> ELSE IF a > u THEN <<0, 1>> ELSE <<u - a, u>>
      /\ Score(d) = IF u = 0 THEN <<1, 1>> ELSE IF b > u THEN <<0, 1>> ELSE <<u - b, u>>
  BY <1>1 DEF Score
<1> HIDE DEF u, a, b
<1>3. CASE u = 0
  BY <1>2, <1>3
<1>4. CASE u # 0 /\ a > u
  <2>1. b > u
    BY <1>1, <1>4
  <2> QED
    BY <1>2, <1>4, <2>1
<1>5. CASE u # 0 /\ ~(a > u)
  <2>1. (u - a) * 100 < min * u
    BY <1>2, <1>5
  <2>2. CASE b > u
    <3>1. min # 0
      BY <1>1, <1>5, <2>1
    <3>2. Score(d)[1] = 0 /\ Score(d)[2] = 1
      BY <1>2, <1>5, <2>2
    <3> QED
      BY <3>1, <3>2
  <2>3. CASE ~(b > u)
    <3>1. (u - b) * 100 <= (u - a) * 100 /\ (u - b) * 100 \in Int /\ (u - a) * 100 \in Int
      BY <1>1
    <3>2. min * u \in Int
      BY <1>1
    <3>3. (u - b) * 100 < min * u
      BY <2>1, <3>1, <3>2
    <3> QED
      BY <1>2, <1>5, <2>3, <3>3
  <2> QED
    BY <2>2, <2>3
<1> QED
  BY <1>3, <1>4, <1>5

(* Rows of some groups. *)
RowsOf(tab, keys) == {i \in Ids(tab) : KeyOf(tab, i) \in keys}

(* Groups count their rows, one key per group and the redundant ones.        *)
LEMMA RowsAreKeysAndExtra ==
  ASSUME NEW tab, IsFiniteSet(Ids(tab)), NEW keys, IsFiniteSet(keys),
         \A k \in keys : GroupRows(tab, k) # {}
  PROVE  Cardinality(RowsOf(tab, keys)) = Cardinality(keys) + ExtraOf(tab, keys)
<1> DEFINE f == [k \in keys |-> Cardinality(GroupRows(tab, k)) - 1]
<1>1. /\ \A k : IsFiniteSet(GroupRows(tab, k)) /\ Cardinality(GroupRows(tab, k)) \in Nat
      /\ \A k \in keys : Cardinality(GroupRows(tab, k)) \in Nat \ {0}
  <2>1. \A k : IsFiniteSet(GroupRows(tab, k)) /\ Cardinality(GroupRows(tab, k)) \in Nat
    BY GroupFinite
  <2> QED
    BY <2>1, FS_EmptySet
<1>2. PICK sum \in [SUBSET keys -> Nat] : AddsUp(sum, f, keys) /\ ExtraOf(tab, keys) = sum[keys]
  BY <1>1, ExtraAddsUp
<1> DEFINE P == {n \in Nat : \A s \in SUBSET keys :
                   Cardinality(s) = n => Cardinality(RowsOf(tab, s)) = n + sum[s]}
<1>3. \A s : IsFiniteSet(RowsOf(tab, s)) /\ Cardinality(RowsOf(tab, s)) \in Nat
  <2>1. \A s : RowsOf(tab, s) \in SUBSET Ids(tab)
    BY DEF RowsOf
  <2> QED
    BY <2>1, FS_Subset, FS_CardinalityType
<1>4. 0 \in P
  <2> SUFFICES ASSUME NEW s \in SUBSET keys, Cardinality(s) = 0
               PROVE  Cardinality(RowsOf(tab, s)) = 0 + sum[s]
    OBVIOUS
  <2>1. s = {}
    BY RestIsSmaller
  <2>2. RowsOf(tab, s) = {} /\ sum[s] = 0
    BY <1>2, <2>1 DEF RowsOf, AddsUp
  <2> QED
    BY <2>2, FS_EmptySet
<1>5. ASSUME NEW n \in Nat, n \in P
      PROVE  n + 1 \in P
  <2> SUFFICES ASSUME NEW s \in SUBSET keys, Cardinality(s) = n + 1
               PROVE  Cardinality(RowsOf(tab, s)) = (n + 1) + sum[s]
    OBVIOUS
  <2> DEFINE k == First(s)
             rest == s \ {k}
  <2>1. s # {}
    <3>1. Cardinality(s) # 0
      OBVIOUS
    <3> QED
      BY <3>1, FS_EmptySet
  <2>2. k \in s /\ rest \in SUBSET keys /\ Cardinality(rest) = n
    BY <2>1, RestIsSmaller
  <2>3. sum[s] = (Cardinality(GroupRows(tab, k)) - 1) + sum[rest]
    BY <1>2, <2>1, <2>2 DEF AddsUp
  <2>4. Cardinality(RowsOf(tab, rest)) = n + sum[rest]
    BY <1>5, <2>2
  <2>5. /\ RowsOf(tab, s) = RowsOf(tab, rest) \cup GroupRows(tab, k)
        /\ RowsOf(tab, rest) \cap GroupRows(tab, k) = {}
    BY <2>2 DEF RowsOf, GroupRows
  <2>6. Cardinality(RowsOf(tab, s))
          = Cardinality(RowsOf(tab, rest)) + Cardinality(GroupRows(tab, k)) - Cardinality({})
    BY <1>1, <1>3, <2>5, FS_Union
  <2>7. sum[rest] \in Nat /\ Cardinality(GroupRows(tab, k)) \in Nat
    BY <1>1, <1>2, <2>2
  <2> HIDE DEF k, rest
  <2> QED
    BY <2>3, <2>4, <2>6, <2>7, FS_EmptySet
<1> HIDE DEF P
<1>6. Cardinality(keys) \in P
  BY <1>4, <1>5, SetInduction, FS_CardinalityType
<1> QED
  BY <1>2, <1>6 DEF P

(* Over the whole dataset, the redundant rows are the rows beyond one per    *)
(* transaction and source.                                                   *)
LEMMA ExtraOfWholeTable ==
  ASSUME NEW tab, IsFiniteSet(Ids(tab)), NEW w, \A i \in Ids(tab) : InWindow(w, tab[i].at)
  PROVE  LET all == {KeyOf(tab, i) : i \in Ids(tab)}
         IN  /\ Cardinality(all) \in Nat
             /\ Cardinality(Ids(tab)) = Cardinality(all) + ExtraOf(tab, DuplicateKeys(tab, w))
<1> DEFINE all == {KeyOf(tab, i) : i \in Ids(tab)}
           keys == DuplicateKeys(tab, w)
           single == all \ keys
<1>1. keys = {k \in all : Cardinality(GroupRows(tab, k)) > 1}
  BY DEF DuplicateKeys
<1>2. IsFiniteSet(all) /\ Cardinality(all) \in Nat
  <2> DEFINE f == [i \in Ids(tab) |-> KeyOf(tab, i)]
  <2>1. f \in [Ids(tab) -> all] /\ all = {f[i] : i \in Ids(tab)}
    OBVIOUS
  <2> QED
    BY <2>1, ImageFinite
<1>3. /\ \A k : IsFiniteSet(GroupRows(tab, k)) /\ Cardinality(GroupRows(tab, k)) \in Nat
      /\ \A k \in all : GroupRows(tab, k) # {}
  BY GroupFinite DEF GroupRows
<1>4. /\ RowsOf(tab, keys) \cup RowsOf(tab, single) = Ids(tab)
      /\ RowsOf(tab, keys) \cap RowsOf(tab, single) = {}
      /\ keys \cup single = all /\ keys \cap single = {}
  BY <1>1 DEF RowsOf
<1>5. /\ IsFiniteSet(keys) /\ IsFiniteSet(single)
      /\ IsFiniteSet(RowsOf(tab, keys)) /\ IsFiniteSet(RowsOf(tab, single))
  BY <1>2, <1>4, FS_Subset
<1>6. Cardinality(RowsOf(tab, keys)) = Cardinality(keys) + ExtraOf(tab, keys)
  <2>1. \A k \in keys : GroupRows(tab, k) # {}
    BY <1>1, <1>3
  <2> HIDE DEF keys
  <2> QED
    BY <1>5, <2>1, RowsAreKeysAndExtra
<1>7. Cardinality(RowsOf(tab, single)) = Cardinality(single)
  <2> DEFINE f == [i \in RowsOf(tab, single) |-> KeyOf(tab, i)]
  <2>1. f \in [RowsOf(tab, single) -> single]
    BY DEF RowsOf
  <2>2. \A k \in single : \E i \in RowsOf(tab, single) : f[i] = k
    BY DEF RowsOf
  <2>3. ASSUME NEW i \in RowsOf(tab, single), NEW j \in RowsOf(tab, single), f[i] = f[j]
        PROVE  i = j
    <3> DEFINE k == KeyOf(tab, i)
    <3>1. k \in single /\ i \in GroupRows(tab, k) /\ j \in GroupRows(tab, k)
      BY <2>3 DEF RowsOf, GroupRows
    <3>2. ~(Cardinality(GroupRows(tab, k)) > 1) /\ Cardinality(GroupRows(tab, k)) # 0
      BY <1>1, <1>3, <3>1, FS_EmptySet
    <3> HIDE DEF k
    <3>3. Cardinality(GroupRows(tab, k)) = 1
      BY <1>3, <3>2
    <3>4. \E x : GroupRows(tab, k) = {x}
      BY <1>3, <3>3, FS_Singleton
    <3> QED
      BY <3>1, <3>4
  <2>4. f \in Bijection(RowsOf(tab, single), single)
    BY <2>1, <2>2, <2>3 DEF Bijection, Injection, Surjection, IsInjective
  <2> QED
    BY <1>5, <2>4, FS_Bijection DEF ExistsBijection
<1>8. ExtraOf(tab, keys) \in Nat
  BY ExtraIffGroups
<1> HIDE DEF all, keys, single
<1>9. /\ Cardinality(keys) \in Nat /\ Cardinality(single) \in Nat
      /\ Cardinality(all) = Cardinality(keys) + Cardinality(single)
  <2>1. Cardinality(keys) \in Nat /\ Cardinality(single) \in Nat
    BY <1>5, FS_CardinalityType
  <2>2. Cardinality(keys \cup single)
          = Cardinality(keys) + Cardinality(single) - Cardinality(keys \cap single)
    BY <1>5, FS_Union
  <2>3. keys \cup single = all /\ Cardinality(keys \cap single) = 0
    BY <1>4, FS_EmptySet
  <2> QED
    BY <2>1, <2>2, <2>3
<1>10. Cardinality(Ids(tab)) = Cardinality(all) + ExtraOf(tab, keys)
  <2> DEFINE left == RowsOf(tab, keys)
             right == RowsOf(tab, single)
  <2>1. Cardinality(left \cup right) = Cardinality(left) + Cardinality(right) - Cardinality(left \cap right)
    BY <1>5, FS_Union
  <2>2. left \cup right = Ids(tab) /\ Cardinality(left \cap right) = 0
    BY <1>4, FS_EmptySet
  <2> HIDE DEF left, right
  <2>3. Cardinality(left) = Cardinality(keys) + ExtraOf(tab, keys) /\ Cardinality(right) = Cardinality(single)
    BY <1>6, <1>7 DEF left, right
  <2>4. Cardinality(Ids(tab)) = Cardinality(left) + Cardinality(right) - 0
    BY <2>1, <2>2
  <2> QED
    BY <1>8, <1>9, <2>3, <2>4
<1> QED
  BY <1>2, <1>10 DEF all, keys

-----------------------------------------------------------------------------
(* The order of the rows. *)

(* Groups of the same sizes have as many redundant rows.                     *)
LEMMA ExtraDependsOnSizes ==
  ASSUME NEW tab, NEW other, NEW keys, IsFiniteSet(keys),
         \A k \in keys : /\ Cardinality(GroupRows(tab, k)) \in Nat \ {0}
                         /\ Cardinality(GroupRows(other, k)) = Cardinality(GroupRows(tab, k))
  PROVE  ExtraOf(other, keys) = ExtraOf(tab, keys)
<1> DEFINE f == [k \in keys |-> Cardinality(GroupRows(tab, k)) - 1]
           g == [k \in keys |-> Cardinality(GroupRows(other, k)) - 1]
<1>1. f = g
  OBVIOUS
<1>2. PICK sum \in [SUBSET keys -> Nat] : AddsUp(sum, f, keys) /\ ExtraOf(tab, keys) = sum[keys]
  BY ExtraAddsUp
<1>3. PICK sum2 \in [SUBSET keys -> Nat] : AddsUp(sum2, g, keys) /\ ExtraOf(other, keys) = sum2[keys]
  BY ExtraAddsUp
<1> HIDE DEF f, g
<1>4. sum = sum2
  BY <1>1, <1>2, <1>3, SumUnique
<1> QED
  BY <1>2, <1>3, <1>4

(* other has the rows of tab in another order: its j-th is tab's from[j]-th. *)
Reordered(other, tab, from) ==
  /\ Ids(other) = Ids(tab)
  /\ from \in Bijection(Ids(tab), Ids(tab))
  /\ \A j \in Ids(tab) : other[j] = tab[from[j]]

(* A set of rows is as large under other names.                              *)
LEMMA SameSize ==
  ASSUME NEW from, NEW ids, IsFiniteSet(ids), from \in Bijection(ids, ids),
         NEW some, some \subseteq ids, NEW same, same = {j \in ids : from[j] \in some}
  PROVE  Cardinality(same) = Cardinality(some)
<1> DEFINE f == [j \in same |-> from[j]]
<1>1. /\ from \in [ids -> ids] /\ \A k \in ids : \E j \in ids : from[j] = k
      /\ \A j, k \in ids : from[j] = from[k] => j = k
  BY DEF Bijection, Injection, Surjection, IsInjective
<1>2. f \in [same -> some]
  OBVIOUS
<1>3. \A k \in some : \E j \in same : f[j] = k
  BY <1>1
<1>4. \A j, k \in same : f[j] = f[k] => j = k
  BY <1>1
<1>5. f \in Bijection(same, some)
  BY <1>2, <1>3, <1>4 DEF Bijection, Injection, Surjection, IsInjective
<1>6. IsFiniteSet(same)
  BY FS_Subset
<1> QED
  BY <1>5, <1>6, FS_Bijection DEF ExistsBijection

(* The counts of a report do not depend on the order of the rows, as long as *)
(* it does not change which processor row of a transaction is the latest.    *)
LEMMA OrderDoesNotMatter ==
  ASSUME NEW tab, IsFiniteSet(Ids(tab)), NEW other, NEW from, Reordered(other, tab, from),
         \A j \in Ids(tab) : ProcLatest(other, j) <=> ProcLatest(tab, from[j]),
         NEW w, NEW now
  PROVE  Counts(other, w, now) = Counts(tab, w, now) /\ Ghosts(other, w) = Ghosts(tab, w)
<1> DEFINE ids == Ids(tab)
<1>1. /\ Ids(other) = ids /\ from \in Bijection(ids, ids) /\ from \in [ids -> ids]
      /\ \A j \in ids : other[j] = tab[from[j]] /\ from[j] \in ids
      /\ \A k \in ids : \E j \in ids : from[j] = k
  BY DEF Reordered, Bijection, Surjection, Injection
<1>2. \A src : OfSource(other, src) = {j \in ids : from[j] \in OfSource(tab, src)}
  BY <1>1 DEF OfSource
<1>3. ASSUME NEW some \in SUBSET ids
      PROVE  TxOf(other, {j \in ids : from[j] \in some}) = TxOf(tab, some)
  BY <1>1 DEF TxOf
<1>4. \A src : OfSource(tab, src) \in SUBSET ids
  BY DEF OfSource
<1>5. \A src : TxOf(other, OfSource(other, src)) = TxOf(tab, OfSource(tab, src))
  BY <1>2, <1>3, <1>4
<1>6. Orphaned(other, w) = Orphaned(tab, w)
  <2>1. OrphanRows(other, w) = {j \in ids : from[j] \in OrphanRows(tab, w)}
    <3> DEFINE known == TxOf(tab, OfSource(tab, "merchant_order_system"))
    <3>1. TxOf(other, OfSource(other, "merchant_order_system")) = known
      BY <1>5
    <3> HIDE DEF known
    <3>2. \A j \in ids : j \in OrphanRows(other, w) <=> from[j] \in OrphanRows(tab, w)
      BY <1>1, <3>1 DEF OrphanRows, OfSource, known
    <3>3. OrphanRows(other, w) \subseteq ids
      BY <1>1 DEF OrphanRows, OfSource
    <3> QED
      BY <3>2, <3>3
  <2>2. OrphanRows(tab, w) \in SUBSET ids
    BY DEF OrphanRows, OfSource
  <2> QED
    BY <1>3, <2>1, <2>2 DEF Orphaned
<1>7. Ghosts(other, w) = Ghosts(tab, w)
  <2>1. \A tx : ProcDenies(other, tx) <=> ProcDenies(tab, tx)
    BY <1>1 DEF ProcDenies
  <2>2. GhostRows(other, w) = {j \in ids : from[j] \in GhostRows(tab, w)}
    BY <1>1, <1>2, <2>1 DEF GhostRows, OfSource
  <2>3. GhostRows(tab, w) \in SUBSET ids
    BY DEF GhostRows, OfSource
  <2> QED
    BY <1>3, <2>2, <2>3 DEF Ghosts
<1>8. ASSUME NEW k
      PROVE  Cardinality(GroupRows(other, k)) = Cardinality(GroupRows(tab, k))
  <2>1. GroupRows(other, k) = {j \in ids : from[j] \in GroupRows(tab, k)}
    BY <1>1 DEF GroupRows, KeyOf
  <2>2. GroupRows(tab, k) \subseteq ids
    BY DEF GroupRows
  <2> QED
    BY <1>1, <2>1, <2>2, SameSize
<1>9. DuplicateKeys(other, w) = DuplicateKeys(tab, w)
  <2> DEFINE KeysOf(t) == {KeyOf(t, i) : i \in {j \in Ids(t) : InWindow(w, t[j].at)}}
  <2>1. KeysOf(other) = KeysOf(tab)
    BY <1>1 DEF KeyOf
  <2>2. \A t : DuplicateKeys(t, w) = {k \in KeysOf(t) : Cardinality(GroupRows(t, k)) > 1}
    BY DEF DuplicateKeys
  <2>3. \A k : Cardinality(GroupRows(other, k)) = Cardinality(GroupRows(tab, k))
    BY <1>8
  <2> HIDE DEF KeysOf
  <2> QED
    BY <2>1, <2>2, <2>3
<1>10. ExtraOf(other, DuplicateKeys(other, w)) = ExtraOf(tab, DuplicateKeys(tab, w))
  BY <1>8, <1>9, DuplicateGroups, ExtraDependsOnSizes
<1>11. Cardinality(LimboRows(other, w, now)) = Cardinality(LimboRows(tab, w, now))
  <2>1. LimboRows(other, w, now) = {j \in ids : from[j] \in LimboRows(tab, w, now)}
    BY <1>1, <1>2 DEF LimboRows, OfSource
  <2>2. LimboRows(tab, w, now) \subseteq ids
    BY DEF LimboRows, OfSource
  <2> QED
    BY <1>1, <2>1, <2>2, SameSize
<1>12. /\ RowsInWindow(other, w) = {j \in ids : from[j] \in RowsInWindow(tab, w)}
       /\ RowsInWindow(tab, w) \in SUBSET ids
  BY <1>1 DEF RowsInWindow
<1>13. Cardinality(RowsInWindow(other, w)) = Cardinality(RowsInWindow(tab, w))
  BY <1>1, <1>12, SameSize
<1>14. UniqueIn(other, w) = UniqueIn(tab, w)
  BY <1>3, <1>12 DEF UniqueIn
<1>15. Counts(other, w, now) = Counts(tab, w, now)
  BY <1>6, <1>7, <1>9, <1>10, <1>11, <1>13, <1>14 DEF Counts, ExtraOf
<1> QED
  BY <1>7, <1>15
=============================================================================
