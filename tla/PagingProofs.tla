---------------------------- MODULE PagingProofs ----------------------------
(***************************************************************************)
(* Theorems about a client that reads a list page by page while it changes, *)
(* for any rows, windows, limits and any number of pages.                   *)
(***************************************************************************)
EXTENDS Paging, RepositoryProofs

(***************************************************************************)
(* The inductive invariant.  While the client reads, what it can no longer  *)
(* come to see is accounted for by departures, and what it saw and will see *)
(* once more, together with what it saw twice, by arrivals.                 *)
(***************************************************************************)
Values(a) == {a[i] : i \in DOMAIN a}

After(a, o) == {a[i] : i \in {j \in DOMAIN a : j > o}}

NameList(q, list) == [i \in DOMAIN list |-> Name(q, list[i])]

Lost(began, forward, seen, a, o) ==
  {x \in began \ forward : x \notin seen /\ x \notin After(a, o)}

Again(seen, a, o) == seen \cap After(a, o)

Current == NameList(query, ListOf(query, table, now))

\* What lists consist of.
Elements == [tx : DOMAIN TextRank, at : Int] \cup Nat \cup Key

Queries == [type : Types, win : PageWindows, limit : Nat]

OnlyGrows(q) == q.type \in {"duplicate", "pending_limbo"}

PagingTypeOK ==
  /\ DatasetTypeOK
  /\ query = Idle \/ query \in Queries
  /\ offset \in Nat /\ finished \in BOOLEAN
  /\ shown \in Seq(Elements) /\ start \in Seq(Elements)
  /\ arrivals \in Nat /\ departures \in Nat

NotBegun ==
  query = Idle =>
    shown = <<>> /\ ~finished /\ arrivals = 0 /\ departures = 0 /\ moved = {}

\* Rows in limbo and duplicate groups never leave their lists nor change their places.
GrowingStays == query # Idle /\ OnlyGrows(query) => departures = 0 /\ moved = {}

LostAreExplained ==
  query # Idle /\ ~finished =>
    /\ query.limit > 0
    /\ Cardinality(Lost(Names(query, start), moved, Seen, Current, offset)) <= departures

AgainAreExplained ==
  query # Idle /\ ~finished =>
    Len(shown) - Cardinality(Seen) + Cardinality(Again(Seen, Current, offset)) <= arrivals

PagingInv ==
  /\ PagingTypeOK /\ NotBegun /\ GrowingStays
  /\ LostAreExplained /\ AgainAreExplained
  /\ SkipsAreExplained /\ RepeatsAreExplained

-----------------------------------------------------------------------------
(* Lists without repetitions, and what is before and after an offset. *)

NoRepeats(a, n) ==
  /\ n \in Nat /\ DOMAIN a = 1..n
  /\ \A i, j \in 1..n : a[i] = a[j] => i = j

Upto(a, o) == {a[i] : i \in {j \in DOMAIN a : j <= o}}

(* The sizes of two parts of a finite set.                                   *)
LEMMA TwoPartsOf ==
  ASSUME NEW S, IsFiniteSet(S), NEW A \in SUBSET S, NEW B \in SUBSET S, A \cap B = {}
  PROVE  /\ IsFiniteSet(A) /\ IsFiniteSet(B)
         /\ Cardinality(A) \in Nat /\ Cardinality(B) \in Nat /\ Cardinality(S) \in Nat
         /\ Cardinality(A) + Cardinality(B) <= Cardinality(S)
         /\ A \cup B = S => Cardinality(S) = Cardinality(A) + Cardinality(B)
<1>1. /\ IsFiniteSet(A) /\ IsFiniteSet(B)
      /\ Cardinality(A) \in Nat /\ Cardinality(B) \in Nat /\ Cardinality(S) \in Nat
  BY FS_Subset, FS_CardinalityType
<1>2. IsFiniteSet(A \cap B) /\ Cardinality(A \cap B) = 0
  BY FS_EmptySet
<1>3. Cardinality(A \cup B) = Cardinality(A) + Cardinality(B) - Cardinality(A \cap B)
  BY <1>1, FS_Union
<1>4. Cardinality(A \cup B) = Cardinality(A) + Cardinality(B)
  BY <1>1, <1>2, <1>3
<1>5. A \cup B \in SUBSET S
  OBVIOUS
<1>6. Cardinality(A \cup B) <= Cardinality(S)
  BY <1>5, FS_Subset
<1> QED
  BY <1>1, <1>4, <1>6

(* The first o elements are o elements, or all there are.                    *)
LEMMA FirstOnes ==
  ASSUME NEW a, NEW n, NoRepeats(a, n), NEW o \in Nat
  PROVE  /\ IsFiniteSet(Values(a)) /\ Cardinality(Values(a)) = n
         /\ Upto(a, o) \in SUBSET Values(a) /\ After(a, o) \in SUBSET Values(a)
         /\ Upto(a, o) \cap After(a, o) = {} /\ Upto(a, o) \cup After(a, o) = Values(a)
         /\ Cardinality(Upto(a, o)) = IF o <= n THEN o ELSE n
<1> USE DEF NoRepeats
<1>1. ASSUME NEW k \in Nat, k <= n
      PROVE  IsFiniteSet({a[i] : i \in 1..k}) /\ Cardinality({a[i] : i \in 1..k}) = k
  <2> DEFINE f == [i \in 1..k |-> a[i]]
             S == {a[i] : i \in 1..k}
  <2>1. f \in Bijection(1..k, S)
    <3>1. \A i, j \in 1..k : f[i] = f[j] => i = j
      BY <1>1
    <3>2. f \in [1..k -> S] /\ \A s \in S : \E i \in 1..k : f[i] = s
      OBVIOUS
    <3> QED
      BY <3>1, <3>2 DEF Bijection, Injection, Surjection, IsInjective
  <2>2. IsFiniteSet(1..k) /\ Cardinality(1..k) = k
    BY FS_Interval
  <2> HIDE DEF f, S
  <2>3. IsFiniteSet(S) /\ Cardinality(S) = k
    BY <2>1, <2>2, FS_Bijection DEF ExistsBijection
  <2> QED
    BY <2>3 DEF S
<1>2. Values(a) = {a[i] : i \in 1..n}
  BY DEF Values
<1>3. Upto(a, o) = {a[i] : i \in 1..(IF o <= n THEN o ELSE n)}
  BY DEF Upto
<1>4. IsFiniteSet(Values(a)) /\ Cardinality(Values(a)) = n
  BY <1>1, <1>2
<1>5. Cardinality(Upto(a, o)) = IF o <= n THEN o ELSE n
  <2> DEFINE k == IF o <= n THEN o ELSE n
  <2>1. k \in Nat /\ k <= n /\ Upto(a, o) = {a[i] : i \in 1..k}
    BY <1>3
  <2> HIDE DEF k
  <2>2. Cardinality(Upto(a, o)) = k
    BY <1>1, <2>1
  <2> QED
    BY <2>2 DEF k
<1>6. Upto(a, o) \in SUBSET Values(a) /\ After(a, o) \in SUBSET Values(a)
  BY DEF Upto, After, Values
<1>7. Upto(a, o) \cup After(a, o) = Values(a)
  <2>1. \A i \in DOMAIN a : i <= o \/ i > o
    OBVIOUS
  <2> QED
    BY <2>1 DEF Upto, After, Values
<1>8. Upto(a, o) \cap After(a, o) = {}
  BY DEF Upto, After
<1> QED
  BY <1>4, <1>5, <1>6, <1>7, <1>8

(* From a to b, no element of K comes to stand before one of P it followed.  *)
InStep(a, b, P, K) ==
  \A i, k \in DOMAIN a, j, l \in DOMAIN b :
    a[i] = b[j] /\ a[i] \in P /\ a[k] = b[l] /\ a[k] \in K /\ i < k => j < l

(* What an offset jumps over when a list changes: as many of the elements    *)
(* that keep their order as others, outside of P, stood before the offset.   *)
LEMMA Shift ==
  ASSUME NEW a, NEW n, NoRepeats(a, n), NEW b, NEW m, NoRepeats(b, m), NEW o \in Nat,
         NEW P, P \subseteq Values(a), P \subseteq Values(b), NEW K \in SUBSET P,
         InStep(a, b, P, K)
  PROVE  LET jumped == (K \cap After(a, o)) \ After(b, o)
             others == Values(a) \ P
         IN  /\ IsFiniteSet(jumped) /\ Cardinality(jumped) \in Nat
             /\ IsFiniteSet(others) /\ Cardinality(others) \in Nat
             /\ IsFiniteSet(others \cap After(a, o)) /\ Cardinality(others \cap After(a, o)) \in Nat
             /\ Cardinality(jumped) + Cardinality(others \cap After(a, o)) <= Cardinality(others)
<1> DEFINE jumped == (K \cap After(a, o)) \ After(b, o)
           others == Values(a) \ P
           rest == others \cap After(a, o)
           low == Upto(a, o)
           early == Upto(b, o)
<1>1. /\ IsFiniteSet(Values(a)) /\ Upto(a, o) \in SUBSET Values(a) /\ After(a, o) \in SUBSET Values(a)
      /\ Upto(a, o) \cap After(a, o) = {} /\ Upto(a, o) \cup After(a, o) = Values(a)
      /\ Cardinality(Upto(a, o)) = IF o <= n THEN o ELSE n
  BY FirstOnes
<1>2. /\ IsFiniteSet(Values(b)) /\ Upto(b, o) \in SUBSET Values(b)
      /\ Upto(b, o) \cup After(b, o) = Values(b)
      /\ Cardinality(Upto(b, o)) = IF o <= m THEN o ELSE m
  BY FirstOnes
<1>3. n \in Nat /\ m \in Nat
  BY DEF NoRepeats
<1>4. jumped \in SUBSET Values(a) /\ others \in SUBSET Values(a) /\ rest \in SUBSET others
  BY <1>1
<1>5. IsFiniteSet(jumped) /\ IsFiniteSet(others) /\ IsFiniteSet(rest)
  BY <1>1, <1>4, FS_Subset
<1>6. Cardinality(jumped) \in Nat /\ Cardinality(others) \in Nat /\ Cardinality(rest) \in Nat
  BY <1>5, FS_CardinalityType
<1>7. CASE jumped = {}
  <2>1. Cardinality(jumped) = 0
    BY <1>7, FS_EmptySet
  <2>2. Cardinality(rest) <= Cardinality(others)
    BY <1>4, <1>5, FS_Subset
  <2> HIDE DEF jumped, others, rest
  <2>3. Cardinality(jumped) + Cardinality(rest) <= Cardinality(others)
    BY <1>6, <2>1, <2>2
  <2> QED
    BY <1>5, <1>6, <2>3 DEF jumped, others, rest
<1>8. CASE jumped # {}
  <2>1. PICK x : x \in jumped
    BY <1>8
  <2>2. x \in K /\ x \in After(a, o) /\ x \notin After(b, o) /\ x \in Values(b)
    BY <2>1
  <2>3. PICK k \in DOMAIN a : k > o /\ x = a[k]
    BY <2>2 DEF After
  <2>4. PICK l \in DOMAIN b : x = b[l]
    BY <2>2 DEF Values
  <2>5. k \in 1..n /\ l \in 1..m /\ l <= o /\ o <= n
    BY <1>3, <2>2, <2>3, <2>4 DEF After, NoRepeats
  <2>6. Cardinality(low) = o /\ Cardinality(early) <= o
    BY <1>1, <1>2, <1>3, <2>5
  <2>7. ASSUME NEW y \in low \cap P
        PROVE  y \in early
    <3>1. PICK i \in DOMAIN a : i <= o /\ y = a[i]
      BY DEF Upto
    <3>2. PICK j \in DOMAIN b : y = b[j]
      BY <2>7 DEF Values
    <3>3. i < k
      BY <2>3, <2>5, <3>1 DEF NoRepeats
    <3>4. j < l
      BY <2>2, <2>3, <2>4, <3>1, <3>2, <3>3 DEF InStep
    <3>5. j <= o
      BY <2>5, <3>2, <3>4 DEF NoRepeats
    <3> QED
      BY <3>2, <3>5 DEF Upto
  <2>8. low \cap P \in SUBSET early /\ jumped \in SUBSET early /\ (low \cap P) \cap jumped = {}
    BY <1>1, <1>2, <2>7
  <2>9. low \cap P \in SUBSET low /\ low \ P \in SUBSET low /\ (low \cap P) \cap (low \ P) = {}
        /\ (low \cap P) \cup (low \ P) = low
    OBVIOUS
  <2>10. low \ P \in SUBSET others /\ rest \in SUBSET others /\ (low \ P) \cap rest = {}
    BY <1>1
  <2>11. IsFiniteSet(low) /\ IsFiniteSet(early)
    BY <1>1, <1>2, FS_Subset
  <2> HIDE DEF low, early, jumped, others, rest
  <2>12. Cardinality(low \cap P) + Cardinality(jumped) <= Cardinality(early)
    BY ONLY <2>8, <2>11, TwoPartsOf
  <2>13. Cardinality(low) = Cardinality(low \cap P) + Cardinality(low \ P)
    BY ONLY <2>9, <2>11, TwoPartsOf
  <2>14. Cardinality(low \ P) + Cardinality(rest) <= Cardinality(others)
    BY ONLY <2>10, <1>5, TwoPartsOf
  <2>15. Cardinality(low \cap P) \in Nat /\ Cardinality(low \ P) \in Nat /\ Cardinality(early) \in Nat
    <3>1. IsFiniteSet(low \cap P) /\ IsFiniteSet(low \ P)
      BY <2>9, <2>11, FS_Subset
    <3> QED
      BY <2>11, <3>1, FS_CardinalityType
  <2>16. Cardinality(jumped) + Cardinality(rest) <= Cardinality(others)
    BY ONLY <1>6, <2>6, <2>12, <2>13, <2>14, <2>15, o \in Nat
  <2> QED
    BY <1>5, <1>6, <2>16 DEF jumped, others, rest
<1> QED
  BY <1>7, <1>8
(* Two finite sets together have no more elements than each of them.         *)
LEMMA Unions ==
  ASSUME NEW A, IsFiniteSet(A), NEW B, IsFiniteSet(B)
  PROVE  /\ IsFiniteSet(A \cup B) /\ Cardinality(A \cup B) \in Nat
         /\ Cardinality(A \cup B) <= Cardinality(A) + Cardinality(B)
<1>1. /\ IsFiniteSet(A \cup B) /\ IsFiniteSet(A \cap B)
      /\ Cardinality(A \cup B) = Cardinality(A) + Cardinality(B) - Cardinality(A \cap B)
  BY FS_Union, FS_Intersection
<1>2. /\ Cardinality(A \cup B) \in Nat /\ Cardinality(A \cap B) \in Nat
      /\ Cardinality(A) \in Nat /\ Cardinality(B) \in Nat
  BY <1>1, FS_CardinalityType
<1> QED
  BY <1>1, <1>2
(* What lies within a set and two more has no more than they have together.  *)
LEMMA WithinTwo ==
  ASSUME NEW A, IsFiniteSet(A), NEW B, IsFiniteSet(B), NEW C, IsFiniteSet(C),
         NEW D, D \subseteq A \cup (B \cup C)
  PROVE  /\ IsFiniteSet(D) /\ Cardinality(D) \in Nat
         /\ Cardinality(D) <= Cardinality(A) + (Cardinality(B) + Cardinality(C))
<1>1. /\ IsFiniteSet(B \cup C) /\ Cardinality(B \cup C) \in Nat
      /\ Cardinality(B \cup C) <= Cardinality(B) + Cardinality(C)
  BY Unions
<1>2. /\ IsFiniteSet(A \cup (B \cup C)) /\ Cardinality(A \cup (B \cup C)) \in Nat
      /\ Cardinality(A \cup (B \cup C)) <= Cardinality(A) + Cardinality(B \cup C)
  BY <1>1, Unions
<1>3. IsFiniteSet(D) /\ Cardinality(D) \in Nat /\ Cardinality(D) <= Cardinality(A \cup (B \cup C))
  BY <1>2, FS_Subset, FS_CardinalityType
<1>4. Cardinality(A) \in Nat /\ Cardinality(B) \in Nat /\ Cardinality(C) \in Nat
  BY FS_CardinalityType
<1> QED
  BY ONLY <1>1, <1>2, <1>3, <1>4
(* When the list changes, what can no longer be seen grows by no more than   *)
(* what left it, if what moved forward is not counted.                       *)
LEMMA LostInStep ==
  ASSUME NEW a, NEW n, NoRepeats(a, n), NEW b, NEW m, NoRepeats(b, m), NEW o \in Nat,
         NEW here, here = Values(a) \cap Values(b), NEW forward,
         InStep(a, b, here, here \ forward),
         NEW began, IsFiniteSet(began), NEW before, NEW seen
  PROVE  Cardinality(Lost(began, before \cup forward, seen, b, o))
           <= Cardinality(Lost(began, before, seen, a, o)) + Cardinality(Values(a) \ here)
<1> DEFINE kept == here \ forward
           jumped == (kept \cap After(a, o)) \ After(b, o)
           gone == Values(a) \ here
           rest == gone \cap After(a, o)
           old == Lost(began, before, seen, a, o)
           new == Lost(began, before \cup forward, seen, b, o)
<1>1. /\ IsFiniteSet(jumped) /\ Cardinality(jumped) \in Nat
      /\ IsFiniteSet(gone) /\ Cardinality(gone) \in Nat
      /\ IsFiniteSet(rest) /\ Cardinality(rest) \in Nat
      /\ Cardinality(jumped) + Cardinality(rest) <= Cardinality(gone)
  <2>1. here \subseteq Values(a) /\ here \subseteq Values(b) /\ kept \in SUBSET here
    OBVIOUS
  <2> HIDE DEF kept
  <2> QED
    BY <2>1, Shift DEF kept
<1>2. After(a, o) \in SUBSET Values(a)
  BY FirstOnes
<1>3. new \subseteq old \cup (jumped \cup rest)
  BY <1>2 DEF Lost
<1>4. IsFiniteSet(old) /\ Cardinality(old) \in Nat
  <2>1. old \in SUBSET began
    BY DEF Lost
  <2> QED
    BY <2>1, FS_Subset, FS_CardinalityType
<1> HIDE DEF jumped, rest, gone, old, new
<1>5. Cardinality(new) <= Cardinality(old) + (Cardinality(jumped) + Cardinality(rest))
  BY <1>1, <1>3, <1>4, WithinTwo
<1>6. Cardinality(new) \in Nat
  BY <1>1, <1>3, <1>4, WithinTwo
<1>7. Cardinality(new) <= Cardinality(old) + Cardinality(gone)
  BY ONLY <1>1, <1>4, <1>5, <1>6
<1> QED
  BY <1>7 DEF old, new, gone

(* And what will be seen again grows by no more than what came, or moved     *)
(* forward.                                                                  *)
LEMMA AgainInStep ==
  ASSUME NEW a, NEW n, NoRepeats(a, n), NEW b, NEW m, NoRepeats(b, m), NEW o \in Nat,
         NEW here, here = Values(a) \cap Values(b), NEW forward \in SUBSET here,
         InStep(a, b, here, here \ forward), NEW seen
  PROVE  Cardinality(Again(seen, b, o))
           <= Cardinality(Again(seen, a, o)) + (Cardinality(Values(b) \ here) + Cardinality(forward))
<1> DEFINE kept == here \ forward
           jumped == (kept \cap After(b, o)) \ After(a, o)
           others == Values(b) \ kept
           come == Values(b) \ here
           rest == others \cap After(b, o)
           old == Again(seen, a, o)
           new == Again(seen, b, o)
<1>1. InStep(b, a, kept, kept)
  <2> SUFFICES ASSUME NEW i \in DOMAIN b, NEW k \in DOMAIN b, NEW j \in DOMAIN a, NEW l \in DOMAIN a,
                      b[i] = a[j], b[i] \in kept, b[k] = a[l], b[k] \in kept, i < k
               PROVE  j < l
    BY DEF InStep
  <2>1. j # l
    BY DEF NoRepeats
  <2>2. ~(l < j)
    BY DEF InStep, NoRepeats
  <2> QED
    BY <2>1, <2>2 DEF NoRepeats
<1>2. /\ IsFiniteSet(jumped) /\ Cardinality(jumped) \in Nat
      /\ IsFiniteSet(others) /\ Cardinality(others) \in Nat
      /\ IsFiniteSet(rest) /\ Cardinality(rest) \in Nat
      /\ Cardinality(jumped) + Cardinality(rest) <= Cardinality(others)
  <2>1. kept \subseteq Values(a) /\ kept \subseteq Values(b) /\ kept \in SUBSET kept
    OBVIOUS
  <2> HIDE DEF kept
  <2> QED
    BY <1>1, <2>1, Shift
<1>3. /\ IsFiniteSet(Values(a)) /\ After(a, o) \in SUBSET Values(a)
      /\ IsFiniteSet(Values(b)) /\ After(b, o) \in SUBSET Values(b)
  BY FirstOnes
<1>4. new \subseteq old \cup (jumped \cup rest)
  BY <1>3 DEF Again
<1>5. IsFiniteSet(old) /\ Cardinality(old) \in Nat
  <2>1. old \in SUBSET Values(a)
    BY <1>3 DEF Again
  <2> QED
    BY <1>3, <2>1, FS_Subset, FS_CardinalityType
<1>6. Cardinality(others) = Cardinality(come) + Cardinality(forward)
  <2>1. come \in SUBSET others /\ forward \in SUBSET others /\ come \cap forward = {}
        /\ come \cup forward = others
    OBVIOUS
  <2> HIDE DEF come, others
  <2> QED
    BY <1>2, <2>1, TwoPartsOf
<1> HIDE DEF jumped, rest, others, old, new
<1>7. /\ Cardinality(new) <= Cardinality(old) + (Cardinality(jumped) + Cardinality(rest))
      /\ Cardinality(new) \in Nat
  BY <1>2, <1>4, <1>5, WithinTwo
<1>8. Cardinality(new) <= Cardinality(old) + Cardinality(others)
  BY ONLY <1>2, <1>5, <1>7
<1> QED
  BY <1>6, <1>8 DEF old, new
(* A list names finitely many items.                                         *)
LEMMA NamesFinite ==
  ASSUME NEW q, NEW S, NEW list \in Seq(S)
  PROVE  IsFiniteSet(Names(q, list)) /\ Cardinality(Names(q, list)) \in Nat
<1> DEFINE f == [i \in DOMAIN list |-> Name(q, list[i])]
<1>1. f \in [DOMAIN list -> Names(q, list)] /\ Names(q, list) = {f[i] : i \in DOMAIN list}
  BY DEF Names
<1>2. IsFiniteSet(DOMAIN list)
  <2>1. DOMAIN list = 1..Len(list) /\ Len(list) \in Nat
    OBVIOUS
  <2> QED
    BY <2>1, FS_Interval
<1> HIDE DEF f
<1> QED
  BY <1>1, <1>2, ImageFinite

(* Two lists together name what each of them names.                          *)
LEMMA NamesOfBoth ==
  ASSUME NEW q, NEW S, NEW s \in Seq(S), NEW t \in Seq(S)
  PROVE  Names(q, s \o t) = Names(q, s) \cup Names(q, t)
<1> DEFINE n == Len(s)
           m == Len(t)
           u == s \o t
<1>1. n \in Nat /\ m \in Nat /\ DOMAIN s = 1..n /\ DOMAIN t = 1..m /\ DOMAIN u = 1..(n + m)
  OBVIOUS
<1>2. \A i \in 1..n : u[i] = s[i]
  OBVIOUS
<1>3. \A i \in 1..m : u[n + i] = t[i]
  OBVIOUS
<1> HIDE DEF n, m, u
<1>4. ASSUME NEW x \in Names(q, u)
      PROVE  x \in Names(q, s) \cup Names(q, t)
  <2>1. PICK k \in 1..(n + m) : x = Name(q, u[k])
    BY <1>1 DEF Names
  <2>2. CASE k <= n
    <3>1. k \in 1..n
      BY <1>1, <2>2
    <3> QED
      BY <1>1, <1>2, <2>1, <3>1 DEF Names
  <2>3. CASE ~(k <= n)
    <3> DEFINE i == k - n
    <3>1. i \in 1..m /\ n + i = k
      BY <1>1, <2>3
    <3> HIDE DEF i
    <3>2. u[k] = t[i]
      BY <1>3, <3>1
    <3> QED
      BY <1>1, <2>1, <3>1, <3>2 DEF Names
  <2> QED
    BY <2>2, <2>3
<1>5. ASSUME NEW x \in Names(q, s)
      PROVE  x \in Names(q, u)
  <2>1. PICK i \in 1..n : x = Name(q, s[i])
    BY <1>1 DEF Names
  <2>2. i \in 1..(n + m) /\ u[i] = s[i]
    BY <1>1, <1>2
  <2> QED
    BY <1>1, <2>1, <2>2 DEF Names
<1>6. ASSUME NEW x \in Names(q, t)
      PROVE  x \in Names(q, u)
  <2>1. PICK i \in 1..m : x = Name(q, t[i])
    BY <1>1 DEF Names
  <2> DEFINE k == n + i
  <2>2. k \in 1..(n + m) /\ u[k] = t[i]
    BY <1>1, <1>3
  <2> HIDE DEF k
  <2> QED
    BY <1>1, <2>1, <2>2 DEF Names
<1> QED
  BY <1>4, <1>5, <1>6 DEF u
-----------------------------------------------------------------------------
(* Reading a page. *)

(* A page with a limit: the elements after the offset, up to the limit.      *)
LEMMA PageIsCut ==
  ASSUME NEW S, NEW list \in Seq(S), NEW limit \in Nat, limit > 0, NEW o \in Nat
  PROVE  /\ Page(list, limit, o) \in Seq(S)
         /\ Len(Page(list, limit, o)) = IF Len(list) <= o THEN 0
                                        ELSE IF Len(list) <= o + limit THEN Len(list) - o ELSE limit
         /\ \A i \in 1..Len(Page(list, limit, o)) :
              o + i \in 1..Len(list) /\ Page(list, limit, o)[i] = list[o + i]
<1> DEFINE n == Len(list)
           last == IF n <= o + limit THEN n ELSE o + limit
<1>1. n \in Nat
  OBVIOUS
<1>2. Min({n, o + limit}) = last
  BY <1>1 DEF Min
<1>3. Page(list, limit, o) = SubSeq(list, o + 1, last)
  <2>1. ~(limit <= 0)
    OBVIOUS
  <2> QED
    BY <1>2, <2>1, Zenon DEF Page
<1>4. last \in Nat /\ last <= n
  BY <1>1
<1>5. Len(SubSeq(list, o + 1, last)) = IF o + 1 <= last THEN last - o ELSE 0
  BY <1>4
<1>6. CASE o + 1 <= last
  <2>1. SubSeq(list, o + 1, last) \in Seq(S)
    BY <1>1, <1>4, <1>6
  <2>2. \A i \in 1..(last - o) : o + i \in 1..n /\ SubSeq(list, o + 1, last)[i] = list[o + i]
    <3> HIDE DEF last
    <3>1. \A i \in 1..(last - o) :
            /\ i \in Int /\ o + i \in 1..n
            /\ i \in 1..(last - (o + 1) + 1) /\ (o + 1) + i - 1 = o + i
      BY <1>1, <1>4, <1>6
    <3>2. \A i \in 1..(last - (o + 1) + 1) : SubSeq(list, o + 1, last)[i] = list[(o + 1) + i - 1]
      BY <1>1, <1>4, <1>6
    <3> QED
      BY <3>1, <3>2
  <2>3. last - o = IF n <= o THEN 0 ELSE IF n <= o + limit THEN n - o ELSE limit
    BY <1>1, <1>6
  <2>4. Len(SubSeq(list, o + 1, last)) = last - o
    BY <1>5, <1>6
  <2> HIDE DEF n, last
  <2>5. Page(list, limit, o) \in Seq(S) /\ Len(Page(list, limit, o)) = last - o
    BY <1>3, <2>1, <2>4
  <2>6. \A i \in 1..(last - o) : o + i \in 1..n /\ Page(list, limit, o)[i] = list[o + i]
    BY <1>3, <2>2
  <2> QED
    BY <2>3, <2>5, <2>6, Zenon DEF n
<1>7. CASE ~(o + 1 <= last)
  <2>1. SubSeq(list, o + 1, last) = <<>>
    BY <1>4, <1>7
  <2>2. n <= o
    BY <1>1, <1>7
  <2> QED
    BY <1>3, <2>1, <2>2
<1> QED
  BY <1>6, <1>7

(* Its elements are new to the rest of the list, all different, and a short  *)
(* page leaves nothing after it.                                             *)
LEMMA PageNames ==
  ASSUME NEW S, NEW list \in Seq(S), NEW q, NEW a, a = NameList(q, list), NoRepeats(a, Len(list)),
         NEW limit \in Nat, limit > 0, NEW o \in Nat
  PROVE  LET page == Page(list, limit, o)
         IN  /\ After(a, o + limit) \in SUBSET After(a, o)
             /\ Names(q, page) = After(a, o) \ After(a, o + limit)
             /\ IsFiniteSet(Names(q, page)) /\ Cardinality(Names(q, page)) = Len(page)
             /\ Len(page) < limit => After(a, o + limit) = {}
<1> DEFINE page == Page(list, limit, o)
           n == Len(list)
           k == Len(page)
           p == NameList(q, page)
<1>1. /\ n \in Nat /\ DOMAIN list = 1..n /\ page \in Seq(S)
      /\ k = IF n <= o THEN 0 ELSE IF n <= o + limit THEN n - o ELSE limit
      /\ \A i \in 1..k : o + i \in 1..n /\ page[i] = list[o + i]
  BY PageIsCut
<1> HIDE DEF page, n
<1>2. k \in Nat /\ DOMAIN page = 1..k
  BY <1>1
<1> HIDE DEF k
<1>3. DOMAIN a = 1..n /\ \A i, j \in 1..n : a[i] = a[j] => i = j
  BY DEF NoRepeats, n
<1>4. DOMAIN p = 1..k /\ \A i \in 1..k : o + i \in 1..n /\ p[i] = a[o + i]
  BY <1>1, <1>2, <1>3 DEF NameList
<1> HIDE DEF p
<1>5. NoRepeats(p, k)
  <2>1. ASSUME NEW i \in 1..k, NEW j \in 1..k, p[i] = p[j]
        PROVE  i = j
    <3>1. a[o + i] = a[o + j] /\ o + i \in 1..n /\ o + j \in 1..n
      BY <1>4, <2>1
    <3>2. o + i = o + j
      BY <1>3, <3>1
    <3> QED
      BY <1>2, <3>2
  <2> QED
    BY <1>2, <1>4, <2>1 DEF NoRepeats
<1>6. Names(q, page) = Values(p)
  BY <1>2, <1>4 DEF Names, Values, p, NameList
<1>7. IsFiniteSet(Names(q, page)) /\ Cardinality(Names(q, page)) = k
  BY <1>5, <1>6, FirstOnes, 0 \in Nat
<1>8. After(a, o + limit) \in SUBSET After(a, o)
  <2>1. \A j \in 1..n : j > o + limit => j > o
    BY <1>1
  <2> QED
    BY <1>3, <2>1 DEF After
<1>9. ASSUME NEW x \in Values(p)
      PROVE  x \in After(a, o) /\ x \notin After(a, o + limit)
  <2>1. PICK i \in 1..k : x = p[i]
    BY <1>4 DEF Values
  <2>2. o + i \in 1..n /\ x = a[o + i] /\ o + i > o /\ ~(o + i > o + limit)
    BY <1>1, <1>2, <1>4, <2>1
  <2> DEFINE c == o + i
  <2> HIDE DEF c
  <2>3. c \in 1..n /\ x = a[c] /\ c > o /\ ~(c > o + limit)
    BY <2>2 DEF c
  <2> QED
    BY <1>3, <2>3 DEF After
<1>10. ASSUME NEW x \in After(a, o), x \notin After(a, o + limit)
       PROVE  x \in Values(p)
  <2>1. PICK j \in 1..n : j > o /\ x = a[j]
    BY <1>3 DEF After
  <2>2. ~(j > o + limit)
    BY <1>3, <1>10, <2>1 DEF After
  <2> DEFINE i == j - o
  <2>3. i \in 1..k /\ o + i = j
    BY <1>1, <2>1, <2>2
  <2> HIDE DEF i
  <2>4. p[i] = x
    BY <1>4, <2>1, <2>3
  <2> QED
    BY <1>4, <2>3, <2>4 DEF Values
<1>11. Names(q, page) = After(a, o) \ After(a, o + limit)
  BY <1>6, <1>9, <1>10
<1>12. k < limit => After(a, o + limit) = {}
  <2> SUFFICES ASSUME k < limit, NEW j \in 1..n, j > o + limit PROVE FALSE
    BY <1>3 DEF After
  <2> QED
    BY <1>1
<1> QED
  BY <1>7, <1>8, <1>11, <1>12 DEF page, k

(* Of a list with the names a, one more page is shown: no more is lost than  *)
(* before, and the repetitions, past and to come, are as many.               *)
AccountsKept(q, before, after, page, a, o, limit, began, out) ==
  /\ Lost(began, out, Names(q, after), a, o + limit)
       \subseteq Lost(began, out, Names(q, before), a, o)
  /\ Len(page) < limit =>
       (began \ Names(q, after)) \ out = Lost(began, out, Names(q, after), a, o + limit)
  /\ Len(after) - Cardinality(Names(q, after)) + Cardinality(Again(Names(q, after), a, o + limit))
       = Len(before) - Cardinality(Names(q, before)) + Cardinality(Again(Names(q, before), a, o))
  /\ Cardinality(Again(Names(q, after), a, o + limit)) \in Nat

LEMMA PageKeepsAccounts ==
  ASSUME NEW S, NEW list \in Seq(S), NEW q, NEW a, a = NameList(q, list), NoRepeats(a, Len(list)),
         NEW limit \in Nat, limit > 0, NEW o \in Nat, NEW before \in Seq(S),
         NEW after, after = before \o Page(list, limit, o),
         NEW began, NEW out
  PROVE  /\ after \in Seq(S)
         /\ AccountsKept(q, before, after, Page(list, limit, o), a, o, limit, began, out)
<1> DEFINE page == Page(list, limit, o)
           old == Names(q, before)
           new == Names(q, after)
           cut == Names(q, page)
           now0 == After(a, o)
           later == After(a, o + limit)
<1>1. page \in Seq(S)
  BY PageIsCut
<1>2. /\ later \in SUBSET now0 /\ cut = now0 \ later
      /\ IsFiniteSet(cut) /\ Cardinality(cut) = Len(page)
      /\ Len(page) < limit => later = {}
  BY PageNames
<1>3. IsFiniteSet(now0)
  <2>1. now0 \in SUBSET Values(a) /\ IsFiniteSet(Values(a))
    BY FirstOnes
  <2> QED
    BY <2>1, FS_Subset
<1> HIDE DEF page, now0, later
<1>4. after \in Seq(S) /\ Len(after) = Len(before) + Len(page) /\ Len(before) \in Nat /\ Len(page) \in Nat
  BY <1>1 DEF page
<1>5. new = old \cup cut
  BY <1>1, NamesOfBoth DEF page
<1>6. IsFiniteSet(old)
  BY NamesFinite
<1> HIDE DEF old, new, cut
<1>7. Lost(began, out, new, a, o + limit) \subseteq Lost(began, out, old, a, o)
  BY <1>2, <1>5 DEF Lost, now0, later
<1>8. Len(page) < limit => (began \ new) \ out = Lost(began, out, new, a, o + limit)
  BY <1>2 DEF Lost, later
<1> DEFINE twice == old \cap cut
           again == old \cap later
           again0 == old \cap now0
<1>9. /\ twice \in SUBSET again0 /\ again \in SUBSET again0
      /\ twice \cap again = {} /\ twice \cup again = again0
  BY <1>2
<1>10. IsFiniteSet(again0)
  BY <1>6, FS_Intersection
<1>11. Cardinality(new) = Cardinality(old) + Cardinality(cut) - Cardinality(twice)
  BY <1>2, <1>5, <1>6, FS_Union
<1>12. new \cap later = again
  BY <1>2, <1>5
<1> HIDE DEF twice, again, again0
<1>13. /\ Cardinality(again0) = Cardinality(twice) + Cardinality(again)
       /\ Cardinality(twice) \in Nat /\ Cardinality(again) \in Nat
  BY <1>9, <1>10, TwoPartsOf
<1>14. Cardinality(old) \in Nat
  BY <1>6, FS_CardinalityType
<1>15. Len(after) - Cardinality(new) + Cardinality(again)
         = Len(before) - Cardinality(old) + Cardinality(again0)
  BY ONLY <1>2, <1>4, <1>11, <1>13, <1>14
<1> QED
  BY <1>4, <1>7, <1>8, <1>12, <1>13, <1>15
     DEF AccountsKept, Again, page, old, new, now0, later, again, again0
-----------------------------------------------------------------------------
(* The lists as they are on a table of validated rows. *)

TableOK(tab) ==
  /\ IsFiniteSet(Ids(tab)) /\ Ids(tab) \subseteq Nat
  /\ \A i \in Ids(tab) :
       tab[i].at \in Int /\ tab[i].id \in DOMAIN TextRank /\ tab[i].source \in Sources

(* What Validate promises of the rows of a table.                            *)
LEMMA StoredRows ==
  ASSUME NEW tab \in Seq({row \in Rows : Valid(row)})
  PROVE  TableOK(tab)
<1>1. Ids(tab) = 1..Len(tab) /\ Len(tab) \in Nat
  BY DEF Ids
<1>2. IsFiniteSet(Ids(tab)) /\ Ids(tab) \subseteq Nat
  BY <1>1, FS_Interval
<1>3. ASSUME NEW i \in Ids(tab)
      PROVE  tab[i].at \in Int /\ tab[i].id \in DOMAIN TextRank /\ tab[i].source \in Sources
  <2>1. tab[i] \in Rows /\ Valid(tab[i])
    BY <1>1
  <2>2. tab[i].source \in Sources
    BY <2>1, ValidFitsSchema DEF SchemaAccepts
  <2> QED
    BY <2>1, <2>2, InstantsAssumption, PagedRanksAssumption
<1> QED
  BY <1>2, <1>3 DEF TableOK

\* The list a is in the order R.
Ranked(a, n, R) ==
  /\ NoRepeats(a, n) /\ Orders(R, Values(a))
  /\ \A i, j \in 1..n : i < j => <<a[i], a[j]>> \in R

(* Where a list's order is kept by another's, nothing overtakes.             *)
LEMMA RankedInStep ==
  ASSUME NEW a, NEW n, NEW A, Ranked(a, n, A), NEW b, NEW m, NEW B, Ranked(b, m, B),
         NEW P, NEW K, \A y \in P, x \in K : <<y, x>> \in A => <<y, x>> \in B
  PROVE  InStep(a, b, P, K)
<1> SUFFICES ASSUME NEW i \in DOMAIN a, NEW k \in DOMAIN a, NEW j \in DOMAIN b, NEW l \in DOMAIN b,
                    a[i] = b[j], a[i] \in P, a[k] = b[l], a[k] \in K, i < k
             PROVE  j < l
  BY DEF InStep
<1>1. i \in 1..n /\ k \in 1..n /\ j \in 1..m /\ l \in 1..m /\ n \in Nat /\ m \in Nat
  BY DEF Ranked, NoRepeats
<1>2. <<b[j], b[l]>> \in B
  BY <1>1 DEF Ranked
<1>3. b[j] \in Values(b) /\ b[l] \in Values(b)
  BY DEF Values
<1>4. j # l
  BY <1>2, <1>3 DEF Ranked, Orders
<1>5. ~(l < j)
  <2> SUFFICES ASSUME l < j PROVE FALSE
    OBVIOUS
  <2>1. <<b[l], b[j]>> \in B
    BY <1>1 DEF Ranked
  <2>2. <<b[j], b[j]>> \in B
    BY <1>2, <1>3, <2>1 DEF Ranked, Orders
  <2> QED
    BY <1>3, <2>2 DEF Ranked, Orders
<1> QED
  BY <1>1, <1>4, <1>5

ByItem(q) == q.type \in {"orphaned", "ghost"}

\* Transactions by their items.
TxOrder(tab, ids) ==
  {p \in TxOf(tab, ids) \X TxOf(tab, ids) :
     \/ Item(tab, ids, p[1]).at < Item(tab, ids, p[2]).at
     \/ Item(tab, ids, p[1]).at = Item(tab, ids, p[2]).at /\ TextRank[p[1]] < TextRank[p[2]]}

(* Orphans and ghosts: each transaction once, by its item and its id.        *)
LEMMA ItemsAreRanked ==
  ASSUME NEW tab, TableOK(tab), NEW ids \in SUBSET Ids(tab), NEW q, ByItem(q),
         NEW list, list = ItemList(tab, ids), NEW a, a = NameList(q, list)
  PROVE  /\ list \in Seq(Elements) /\ Ranked(a, Len(list), TxOrder(tab, ids))
         /\ Values(a) = TxOf(tab, ids)
         /\ \A i \in DOMAIN list : list[i].tx = a[i] /\ list[i].at = Item(tab, ids, a[i]).at
<1> DEFINE S == Items(tab, ids)
           n == Cardinality(S)
<1>1. IsFiniteSet(ids) /\ \A i \in ids : tab[i].at \in Int /\ tab[i].id \in DOMAIN TextRank
  BY FS_Subset DEF TableOK
<1>2. /\ IsFiniteSet(S) /\ list \in Bijection(1..n, S)
      /\ list \in Seq(S) /\ Len(list) = n /\ ToSet(list) = S
      /\ Orders(ItemOrder(S), S)
      /\ \A i, j \in 1..n : i < j => <<list[i], list[j]>> \in ItemOrder(S)
  BY <1>1, ItemsListed
<1>3. /\ \A tx : Item(tab, ids, tx).tx = tx
      /\ \A tx \in TxOf(tab, ids) : tx \in DOMAIN TextRank /\ Item(tab, ids, tx).at \in Int
  <2> HIDE DEF S, n
  <2>1. \A tx : Item(tab, ids, tx).tx = tx
    BY DEF Item
  <2>2. \A tx \in TxOf(tab, ids) : tx \in DOMAIN TextRank /\ Item(tab, ids, tx).at \in Int
    BY ONLY <1>1, ItemFields
  <2> QED
    BY <2>1, <2>2
<1>4. \A x \in S : x.tx \in TxOf(tab, ids) /\ x = Item(tab, ids, x.tx)
  BY <1>3 DEF Items
<1>5. \A tx \in TxOf(tab, ids) : Item(tab, ids, tx) \in S
  BY DEF Items
<1>6. list \in Seq(Elements)
  <2>1. \A x \in S : x \in [tx : DOMAIN TextRank, at : Int]
    <3> SUFFICES ASSUME NEW tx \in TxOf(tab, ids) PROVE Item(tab, ids, tx) \in [tx : DOMAIN TextRank, at : Int]
      BY DEF Items
    <3>1. tx \in DOMAIN TextRank /\ Item(tab, ids, tx).at \in Int
      BY <1>3
    <3>2. Item(tab, ids, tx) = [tx |-> tx, at |-> Item(tab, ids, tx).at]
      BY DEF Item
    <3> QED
      BY <3>1, <3>2
  <2>2. S \subseteq Elements
    BY <2>1 DEF Elements
  <2> HIDE DEF S
  <2> QED
    BY <1>2, <2>2
<1> HIDE DEF S
<1>7. n \in Nat /\ DOMAIN list = 1..n
  BY <1>2, FS_CardinalityType
<1> HIDE DEF n
<1>8. ASSUME NEW i \in 1..n
      PROVE  /\ list[i] \in S /\ a[i] = list[i].tx /\ a[i] \in TxOf(tab, ids)
             /\ list[i] = Item(tab, ids, a[i])
  <2>1. list[i] \in S
    BY <1>2, <1>7
  <2>2. a[i] = list[i].tx
    BY <1>7 DEF NameList, Name, ByItem
  <2> QED
    BY <1>4, <2>1, <2>2
<1>9. DOMAIN a = 1..n
  BY <1>7 DEF NameList
<1>10. NoRepeats(a, n)
  <2>1. \A i, j \in 1..n : list[i] = list[j] => i = j
    BY <1>2 DEF Bijection, Injection, IsInjective
  <2> QED
    BY <1>7, <1>8, <1>9, <2>1 DEF NoRepeats
<1>11. Values(a) = TxOf(tab, ids)
  <2>1. ASSUME NEW tx \in TxOf(tab, ids)
        PROVE  \E i \in 1..n : a[i] = tx
    <3>1. PICK i \in 1..n : list[i] = Item(tab, ids, tx)
      BY <1>2, <1>5 DEF Bijection, Surjection
    <3>2. a[i] = tx
      BY <1>3, <1>8, <3>1
    <3> QED
      BY <3>2
  <2> QED
    BY <1>8, <1>9, <2>1 DEF Values
<1>12. ASSUME NEW t \in TxOf(tab, ids), NEW u \in TxOf(tab, ids)
       PROVE  <<Item(tab, ids, t), Item(tab, ids, u)>> \in ItemOrder(S) <=> <<t, u>> \in TxOrder(tab, ids)
  <2> DEFINE x == Item(tab, ids, t)
             y == Item(tab, ids, u)
  <2>1. x \in S /\ y \in S /\ x.tx = t /\ y.tx = u
    BY <1>3, <1>5
  <2>2. <<t, u>> \in TxOrder(tab, ids)
          <=> x.at < y.at \/ (x.at = y.at /\ TextRank[t] < TextRank[u])
    BY DEF TxOrder
  <2> HIDE DEF x, y
  <2>3. <<x, y>> \in ItemOrder(S)
          <=> x.at < y.at \/ (x.at = y.at /\ TextRank[x.tx] < TextRank[y.tx])
    BY <2>1 DEF ItemOrder
  <2>4. <<x, y>> \in ItemOrder(S) <=> <<t, u>> \in TxOrder(tab, ids)
    BY ONLY <2>1, <2>2, <2>3
  <2> QED
    BY <2>4 DEF x, y
<1>13. Orders(TxOrder(tab, ids), Values(a))
  <2> DEFINE R == TxOrder(tab, ids)
             T == TxOf(tab, ids)
             It(t) == Item(tab, ids, t)
  <2>1. \A t \in T : It(t) \in S /\ It(t).tx = t
    BY <1>3, <1>5
  <2>2. \A t, u \in T : <<It(t), It(u)>> \in ItemOrder(S) <=> <<t, u>> \in R
    BY <1>12, <2>1
  <2> HIDE DEF R, It
  <2>3. Orders(R, T)
    <3>1. \A t \in T : <<t, t>> \notin R
      BY <1>2, <2>1, <2>2 DEF Orders
    <3>2. \A t, u, v \in T : <<t, u>> \in R /\ <<u, v>> \in R => <<t, v>> \in R
      BY <1>2, <2>1, <2>2 DEF Orders
    <3>3. \A t, u \in T : t = u \/ <<t, u>> \in R \/ <<u, t>> \in R
      BY <1>2, <2>1, <2>2 DEF Orders
    <3> QED
      BY <3>1, <3>2, <3>3 DEF Orders
  <2> QED
    BY <1>11, <2>3 DEF R
<1>14. ASSUME NEW i \in 1..n, NEW j \in 1..n, i < j
       PROVE  <<a[i], a[j]>> \in TxOrder(tab, ids)
  <2>1. <<list[i], list[j]>> \in ItemOrder(S)
    BY <1>2, <1>14
  <2>2. <<Item(tab, ids, a[i]), Item(tab, ids, a[j])>> \in ItemOrder(S)
    BY <1>8, <2>1
  <2> QED
    BY <1>8, <1>12, <2>2
<1>15. Ranked(a, Len(list), TxOrder(tab, ids))
  BY <1>2, <1>10, <1>13, <1>14 DEF Ranked
<1>16. \A i \in DOMAIN list : list[i].tx = a[i] /\ list[i].at = Item(tab, ids, a[i]).at
  BY <1>7, <1>8
<1> QED
  BY <1>6, <1>11, <1>15, <1>16
(* Lists whose items are their own names.                                    *)
LEMMA OwnNames ==
  ASSUME NEW q, OnlyGrows(q), NEW S, NEW list \in Seq(S), NEW a, a = NameList(q, list),
         NEW keys, IsFiniteSet(keys), list \in Bijection(1..Cardinality(keys), keys),
         Len(list) = Cardinality(keys), NEW R, Orders(R, keys),
         \A i, j \in 1..Cardinality(keys) : i < j => <<list[i], list[j]>> \in R
  PROVE  Ranked(a, Len(list), R) /\ Values(a) = keys
<1> DEFINE n == Cardinality(keys)
<1>1. n \in Nat /\ DOMAIN list = 1..n /\ Len(list) = n
  BY FS_CardinalityType
<1>2. ~(q.type \in {"orphaned", "ghost"})
  BY DEF OnlyGrows
<1>3. DOMAIN a = 1..n /\ \A i \in 1..n : a[i] = list[i]
  BY <1>1, <1>2 DEF NameList, Name
<1>4. /\ \A i, j \in 1..n : list[i] = list[j] => i = j
      /\ \A i \in 1..n : list[i] \in keys
      /\ \A k \in keys : \E i \in 1..n : list[i] = k
  BY DEF Bijection, Injection, Surjection, IsInjective
<1> HIDE DEF n
<1>5. NoRepeats(a, n)
  BY <1>1, <1>3, <1>4 DEF NoRepeats
<1>6. Values(a) = keys
  BY <1>3, <1>4 DEF Values
<1>7. \A i, j \in 1..n : i < j => <<a[i], a[j]>> \in R
  BY <1>3 DEF n
<1> QED
  BY <1>1, <1>5, <1>6, <1>7 DEF Ranked

(* Duplicate groups: each key once, by transaction and source.               *)
LEMMA GroupsAreRanked ==
  ASSUME NEW tab, TableOK(tab), NEW q, q.type = "duplicate",
         NEW list, list = GroupList(tab, q.win), NEW a, a = NameList(q, list)
  PROVE  /\ list \in Seq(Elements)
         /\ Ranked(a, Len(list), KeyOrder(DuplicateKeys(tab, q.win)))
         /\ Values(a) = DuplicateKeys(tab, q.win)
<1> DEFINE keys == DuplicateKeys(tab, q.win)
<1>1. keys \subseteq Key
  BY DEF DuplicateKeys, KeyOf, Key, TableOK
<1>2. IsFiniteSet(keys)
  BY FindingsFinite DEF TableOK
<1>3. list = SortedBy(keys, KeyBefore)
  BY DEF GroupList
<1> HIDE DEF keys
<1>4. /\ list \in Bijection(1..Cardinality(keys), keys)
      /\ list \in Seq(keys) /\ Len(list) = Cardinality(keys)
      /\ Orders(KeyOrder(keys), keys)
      /\ \A i, j \in 1..Cardinality(keys) : i < j => <<list[i], list[j]>> \in KeyOrder(keys)
  BY <1>1, <1>2, <1>3, KeysListed
<1>5. list \in Seq(Elements)
  <2>1. keys \subseteq Elements
    BY <1>1 DEF Elements
  <2> QED
    BY <1>4, <2>1
<1>6. OnlyGrows(q)
  BY DEF OnlyGrows
<1>7. Ranked(a, Len(list), KeyOrder(keys)) /\ Values(a) = keys
  BY <1>2, <1>4, <1>6, OwnNames
<1> QED
  BY <1>5, <1>7 DEF keys

(* Rows in limbo: each once, by time and id.                                 *)
LEMMA LimboIsRanked ==
  ASSUME NEW tab, TableOK(tab), NEW q, q.type = "pending_limbo", NEW at,
         NEW list, list = LimboList(tab, q.win, at), NEW a, a = NameList(q, list)
  PROVE  /\ list \in Seq(Elements)
         /\ Ranked(a, Len(list), TimeOrder(tab, LimboRows(tab, q.win, at)))
         /\ Values(a) = LimboRows(tab, q.win, at)
<1> DEFINE ids == LimboRows(tab, q.win, at)
<1>1. ids \in SUBSET Ids(tab)
  BY DEF LimboRows, OfSource
<1>2. list = RowList(tab, ids)
  BY DEF LimboList
<1> HIDE DEF ids
<1>3. IsFiniteSet(ids) /\ ids \subseteq Nat /\ \A i \in ids : tab[i].at \in Int
  BY <1>1, FS_Subset DEF TableOK
<1>4. /\ list \in Bijection(1..Cardinality(ids), ids)
      /\ list \in Seq(ids) /\ Len(list) = Cardinality(ids)
      /\ Orders(TimeOrder(tab, ids), ids)
      /\ \A i, j \in 1..Cardinality(ids) : i < j => <<list[i], list[j]>> \in TimeOrder(tab, ids)
  BY <1>2, <1>3, RowsListed
<1>5. list \in Seq(Elements)
  <2>1. ids \subseteq Elements
    BY <1>3 DEF Elements
  <2> QED
    BY <1>4, <2>1
<1>6. OnlyGrows(q)
  BY DEF OnlyGrows
<1>7. Ranked(a, Len(list), TimeOrder(tab, ids)) /\ Values(a) = ids
  BY <1>3, <1>4, <1>6, OwnNames
<1> QED
  BY <1>5, <1>7 DEF ids

(* Every list is finite, and names each of its items once.                   *)
LEMMA ListNamesOnce ==
  ASSUME NEW tab, TableOK(tab), NEW q \in Queries, NEW at,
         NEW list, list = ListOf(q, tab, at), NEW a, a = NameList(q, list)
  PROVE  list \in Seq(Elements) /\ NoRepeats(a, Len(list)) /\ Names(q, list) = Values(a)
<1>1. Names(q, list) = Values(a)
  BY DEF Names, Values, NameList
<1>2. OrphanRows(tab, q.win) \in SUBSET Ids(tab) /\ GhostRows(tab, q.win) \in SUBSET Ids(tab)
  BY DEF OrphanRows, GhostRows, OfSource
<1>3. CASE q.type = "orphaned"
  <2>1. ByItem(q) /\ list = ItemList(tab, OrphanRows(tab, q.win))
    BY <1>3 DEF ByItem, ListOf, OrphanList
  <2> QED
    BY <1>1, <1>2, <2>1, ItemsAreRanked DEF Ranked
<1>4. CASE q.type = "ghost"
  <2>1. ByItem(q) /\ list = ItemList(tab, GhostRows(tab, q.win))
    BY <1>4 DEF ByItem, ListOf, GhostList
  <2> QED
    BY <1>1, <1>2, <2>1, ItemsAreRanked DEF Ranked
<1>5. CASE q.type = "duplicate"
  <2>1. list = GroupList(tab, q.win)
    BY <1>5 DEF ListOf
  <2> QED
    BY <1>1, <1>5, <2>1, GroupsAreRanked DEF Ranked
<1>6. CASE q.type = "pending_limbo"
  <2>1. list = LimboList(tab, q.win, at)
    BY <1>6 DEF ListOf
  <2> QED
    BY <1>1, <1>6, <2>1, LimboIsRanked DEF Ranked
<1>7. q.type \in Types
  BY DEF Queries
<1> QED
  BY <1>3, <1>4, <1>5, <1>6, <1>7 DEF Types
-----------------------------------------------------------------------------
(* What a change of the table does to a list. *)

Here(q, old, new) == Names(q, old) \cap Names(q, new)

\* As in Watch.
Forward(q, old, new) ==
  {n \in Here(q, old, new) :
     q.type \in {"orphaned", "ghost"} /\
     \E i \in DOMAIN old, j \in DOMAIN new :
       old[i].tx = n /\ new[j].tx = n /\ new[j].at < old[i].at}

\* The later table has the rows of the earlier one, and more.
Extended(tab, later) ==
  /\ TableOK(tab) /\ TableOK(later)
  /\ Ids(tab) \subseteq Ids(later) /\ \A i \in Ids(tab) : later[i] = tab[i]

(* An orphan or ghost that stays one keeps its rows, so that its item gets   *)
(* no later; and what did not move forward is not overtaken.                 *)
LEMMA ItemsInStep ==
  ASSUME NEW tab, NEW later, Extended(tab, later), NEW q, ByItem(q),
         NEW ids \in SUBSET Ids(tab), NEW ids2 \in SUBSET Ids(later),
         \A i \in ids : tab[i].id \in TxOf(later, ids2) => i \in ids2,
         NEW old, old = ItemList(tab, ids), NEW new, new = ItemList(later, ids2)
  PROVE  InStep(NameList(q, old), NameList(q, new),
                Here(q, old, new), Here(q, old, new) \ Forward(q, old, new))
<1> DEFINE a == NameList(q, old)
           b == NameList(q, new)
           here == Here(q, old, new)
           kept == here \ Forward(q, old, new)
           at1(t) == Item(tab, ids, t).at
           at2(t) == Item(later, ids2, t).at
           A == TxOrder(tab, ids)
           B == TxOrder(later, ids2)
<1>1. TableOK(tab) /\ TableOK(later)
  BY DEF Extended
<1>2. /\ Ranked(a, Len(old), A) /\ Values(a) = TxOf(tab, ids)
      /\ \A i \in DOMAIN old : old[i].tx = a[i] /\ old[i].at = at1(a[i])
  BY <1>1, ItemsAreRanked
<1>3. /\ Ranked(b, Len(new), B) /\ Values(b) = TxOf(later, ids2)
      /\ \A i \in DOMAIN new : new[i].tx = b[i] /\ new[i].at = at2(b[i])
  BY <1>1, ItemsAreRanked
<1>4. /\ IsFiniteSet(ids) /\ \A i \in ids : tab[i].at \in Int /\ tab[i].id \in DOMAIN TextRank
      /\ IsFiniteSet(ids2) /\ \A i \in ids2 : later[i].at \in Int /\ later[i].id \in DOMAIN TextRank
  BY <1>1, FS_Subset DEF TableOK
<1>5. \A tx \in TxOf(tab, ids) :
        /\ tx \in DOMAIN TextRank /\ at1(tx) \in Int
        /\ \E i \in ids : tab[i].id = tx /\ tab[i].at = at1(tx)
  <2> HIDE DEF A, B, a, b, here, kept
  <2> QED
    BY ONLY <1>4, ItemFields
<1>6. \A tx \in TxOf(later, ids2) :
        /\ at2(tx) \in Int /\ \A i \in ids2 : later[i].id = tx => at2(tx) <= later[i].at
  <2> HIDE DEF A, B, a, b, here, kept
  <2> QED
    BY ONLY <1>4, ItemFields
<1>7. Names(q, old) = Values(a) /\ Names(q, new) = Values(b)
  BY DEF Names, Values, NameList
<1> HIDE DEF at1, at2, A, B
<1>8. here = TxOf(tab, ids) \cap TxOf(later, ids2)
  BY <1>2, <1>3, <1>7 DEF Here
<1>9. ASSUME NEW t \in here
      PROVE  at1(t) \in Int /\ at2(t) \in Int /\ at2(t) <= at1(t) /\ TextRank[t] \in Int
  <2>1. PICK i \in ids : tab[i].id = t /\ tab[i].at = at1(t)
    BY <1>5, <1>8
  <2>2. i \in ids2 /\ later[i] = tab[i]
    BY <1>8, <2>1 DEF Extended
  <2>3. at2(t) <= at1(t)
    BY <1>6, <1>8, <2>1, <2>2
  <2>4. TextRank[t] \in Int
    BY <1>5, <1>8, TextRankAssumption
  <2> QED
    BY <1>5, <1>6, <1>8, <2>3, <2>4
<1>10. ASSUME NEW t \in kept
       PROVE  t \in here /\ at1(t) = at2(t)
  <2>1. t \in here /\ t \notin Forward(q, old, new)
    OBVIOUS
  <2>2. PICK i \in DOMAIN old : a[i] = t
    BY <1>2, <1>8, <2>1 DEF Values, NameList
  <2>3. PICK j \in DOMAIN new : b[j] = t
    BY <1>3, <1>8, <2>1 DEF Values, NameList
  <2>4. ~(at2(t) < at1(t))
    BY <1>2, <1>3, <2>1, <2>2, <2>3 DEF Forward, ByItem
  <2> QED
    BY <1>9, <2>1, <2>4
<1> HIDE DEF a, b, here, kept
<1>11. ASSUME NEW y \in here, NEW x \in kept, <<y, x>> \in A
       PROVE  <<y, x>> \in B
  <2>1. at1(y) < at1(x) \/ (at1(y) = at1(x) /\ TextRank[y] < TextRank[x])
    BY <1>11 DEF A, TxOrder, at1
  <2>2. at2(y) < at2(x) \/ (at2(y) = at2(x) /\ TextRank[y] < TextRank[x])
    BY <1>9, <1>10, <2>1
  <2>3. x \in TxOf(later, ids2) /\ y \in TxOf(later, ids2)
    BY <1>8, <1>10
  <2> QED
    BY <2>2, <2>3 DEF B, TxOrder, at2
<1>12. InStep(a, b, here, kept)
  BY <1>2, <1>3, <1>11, RankedInStep
<1> QED
  BY <1>12 DEF a, b, here, kept

(* Rows of an orphan stay its rows as long as it is one.                     *)
LEMMA OrphanRowsStay ==
  ASSUME NEW tab, NEW later, Extended(tab, later), NEW w, NEW i \in OrphanRows(tab, w),
         tab[i].id \in TxOf(later, OrphanRows(later, w))
  PROVE  i \in OrphanRows(later, w)
<1>1. i \in OfSource(later, "processor") /\ later[i] = tab[i]
  BY DEF Extended, OrphanRows, OfSource
<1>2. tab[i].id \notin TxOf(later, OfSource(later, "merchant_order_system"))
  BY DEF TxOf, OrphanRows
<1> QED
  BY <1>1, <1>2 DEF OrphanRows

(* And rows of a ghost stay its rows.                                        *)
LEMMA GhostRowsStay ==
  ASSUME NEW tab, NEW later, Extended(tab, later), NEW w, NEW i \in GhostRows(tab, w),
         tab[i].id \in TxOf(later, GhostRows(later, w))
  PROVE  i \in GhostRows(later, w)
<1>1. i \in OfSource(later, "merchant_order_system") /\ later[i] = tab[i]
  BY DEF Extended, GhostRows, OfSource
<1>2. ProcDenies(later, tab[i].id)
  BY DEF TxOf, GhostRows
<1> QED
  BY <1>1, <1>2 DEF GhostRows

(* Duplicate groups and rows in limbo stay, in their order.                  *)
LEMMA GroupsStay ==
  ASSUME NEW tab, NEW later, Extended(tab, later), NEW w
  PROVE  DuplicateKeys(tab, w) \subseteq DuplicateKeys(later, w)
<1> SUFFICES ASSUME NEW k \in DuplicateKeys(tab, w) PROVE k \in DuplicateKeys(later, w)
  OBVIOUS
<1>1. PICK i \in Ids(tab) : InWindow(w, tab[i].at) /\ k = KeyOf(tab, i)
  BY DEF DuplicateKeys
<1>2. i \in Ids(later) /\ InWindow(w, later[i].at) /\ k = KeyOf(later, i)
  BY <1>1 DEF Extended, KeyOf
<1>3. Cardinality(GroupRows(tab, k)) <= Cardinality(GroupRows(later, k))
  BY GroupGrows DEF Extended, TableOK
<1>4. Cardinality(GroupRows(tab, k)) \in Nat /\ Cardinality(GroupRows(later, k)) \in Nat
  BY GroupFinite DEF Extended, TableOK
<1>5. Cardinality(GroupRows(tab, k)) > 1
  BY DEF DuplicateKeys
<1>6. Cardinality(GroupRows(later, k)) > 1
  BY <1>3, <1>4, <1>5
<1> QED
  BY <1>2, <1>6 DEF DuplicateKeys

(* A row in limbo stays there, whatever comes and however time passes.       *)
LEMMA LimboRowsStay ==
  ASSUME NEW tab, NEW later, Extended(tab, later), NEW w, NEW t \in Int, NEW u \in Int, t <= u
  PROVE  LimboRows(tab, w, t) \subseteq LimboRows(later, w, u)
<1> SUFFICES ASSUME NEW i \in LimboRows(tab, w, t) PROVE i \in LimboRows(later, w, u)
  OBVIOUS
<1>1. /\ i \in OfSource(tab, "processor") /\ tab[i].status = "pending"
      /\ tab[i].method \in {"pix", "boleto"} /\ tab[i].at < Cutoff(tab[i].method, t)
      /\ InWindow(w, tab[i].at)
  BY DEF LimboRows
<1>2. i \in OfSource(later, "processor") /\ later[i] = tab[i] /\ tab[i].at \in Int
  BY <1>1 DEF Extended, OfSource, TableOK
<1>3. tab[i].at < Cutoff(tab[i].method, u)
  <2> DEFINE at == tab[i].at
  <2>1. at \in Int /\ at < Cutoff(tab[i].method, t)
    BY <1>1, <1>2
  <2> HIDE DEF at
  <2>2. at < Cutoff(tab[i].method, u)
    BY <2>1, ThresholdsAssumption DEF Cutoff
  <2> QED
    BY <2>2 DEF at
<1> QED
  BY <1>1, <1>2, <1>3 DEF LimboRows
(* No list has items overtake others, but those that move forward.           *)
LEMMA ListInStep ==
  ASSUME NEW tab, NEW later, Extended(tab, later), NEW t \in Int, NEW u \in Int, t <= u,
         NEW q \in Queries,
         NEW old, old = ListOf(q, tab, t), NEW new, new = ListOf(q, later, u)
  PROVE  /\ InStep(NameList(q, old), NameList(q, new),
                   Here(q, old, new), Here(q, old, new) \ Forward(q, old, new))
         /\ OnlyGrows(q) => Names(q, old) \subseteq Names(q, new) /\ Forward(q, old, new) = {}
<1> DEFINE w == q.win
           a == NameList(q, old)
           b == NameList(q, new)
           here == Here(q, old, new)
           forward == Forward(q, old, new)
<1>1. TableOK(tab) /\ TableOK(later)
  BY DEF Extended
<1>2. Names(q, old) = Values(a) /\ Names(q, new) = Values(b)
  BY DEF Names, Values, NameList
<1>3. CASE q.type = "orphaned"
  <2>1. ByItem(q) /\ ~OnlyGrows(q)
    BY <1>3 DEF ByItem, OnlyGrows
  <2>2. old = ItemList(tab, OrphanRows(tab, w)) /\ new = ItemList(later, OrphanRows(later, w))
    BY <1>3 DEF ListOf, OrphanList
  <2>3. OrphanRows(tab, w) \in SUBSET Ids(tab) /\ OrphanRows(later, w) \in SUBSET Ids(later)
    BY DEF OrphanRows, OfSource
  <2>4. \A i \in OrphanRows(tab, w) :
          tab[i].id \in TxOf(later, OrphanRows(later, w)) => i \in OrphanRows(later, w)
    BY OrphanRowsStay
  <2> HIDE DEF w
  <2> QED
    BY <2>1, <2>2, <2>3, <2>4, ItemsInStep
<1>4. CASE q.type = "ghost"
  <2>1. ByItem(q) /\ ~OnlyGrows(q)
    BY <1>4 DEF ByItem, OnlyGrows
  <2>2. old = ItemList(tab, GhostRows(tab, w)) /\ new = ItemList(later, GhostRows(later, w))
    BY <1>4 DEF ListOf, GhostList
  <2>3. GhostRows(tab, w) \in SUBSET Ids(tab) /\ GhostRows(later, w) \in SUBSET Ids(later)
    BY DEF GhostRows, OfSource
  <2>4. \A i \in GhostRows(tab, w) :
          tab[i].id \in TxOf(later, GhostRows(later, w)) => i \in GhostRows(later, w)
    BY GhostRowsStay
  <2> HIDE DEF w
  <2> QED
    BY <2>1, <2>2, <2>3, <2>4, ItemsInStep
<1>5. CASE q.type = "duplicate"
  <2> DEFINE A == KeyOrder(DuplicateKeys(tab, w))
             B == KeyOrder(DuplicateKeys(later, w))
  <2>1. old = GroupList(tab, w) /\ new = GroupList(later, w)
    BY <1>5 DEF ListOf
  <2>2. /\ Ranked(a, Len(old), A) /\ Values(a) = DuplicateKeys(tab, w)
        /\ Ranked(b, Len(new), B) /\ Values(b) = DuplicateKeys(later, w)
    BY <1>1, <1>5, <2>1, GroupsAreRanked
  <2>3. DuplicateKeys(tab, w) \subseteq DuplicateKeys(later, w)
    BY GroupsStay
  <2>4. \A y \in here, x \in here \ forward : <<y, x>> \in A => <<y, x>> \in B
    BY <1>2, <2>2, <2>3 DEF Here, KeyOrder
  <2>5. forward = {}
    BY <1>5 DEF Forward
  <2> HIDE DEF A, B, a, b, here, forward
  <2>6. InStep(a, b, here, here \ forward)
    BY <2>2, <2>4, RankedInStep
  <2> QED
    BY <1>2, <2>2, <2>3, <2>5, <2>6 DEF a, b, here, forward
<1>6. CASE q.type = "pending_limbo"
  <2> DEFINE A == TimeOrder(tab, LimboRows(tab, w, t))
             B == TimeOrder(later, LimboRows(later, w, u))
  <2>1. old = LimboList(tab, w, t) /\ new = LimboList(later, w, u)
    BY <1>6 DEF ListOf
  <2>2. /\ Ranked(a, Len(old), A) /\ Values(a) = LimboRows(tab, w, t)
        /\ Ranked(b, Len(new), B) /\ Values(b) = LimboRows(later, w, u)
    BY <1>1, <1>6, <2>1, LimboIsRanked
  <2>3. LimboRows(tab, w, t) \subseteq LimboRows(later, w, u)
    BY LimboRowsStay
  <2>4. \A i \in LimboRows(tab, w, t) : later[i] = tab[i]
    BY DEF LimboRows, OfSource, Extended
  <2>5. \A y \in here, x \in here \ forward : <<y, x>> \in A => <<y, x>> \in B
    BY <2>3, <2>4 DEF TimeOrder
  <2>6. forward = {}
    BY <1>6 DEF Forward
  <2> HIDE DEF A, B, a, b, here, forward
  <2>7. InStep(a, b, here, here \ forward)
    BY <2>2, <2>5, RankedInStep
  <2> QED
    BY <1>2, <2>2, <2>3, <2>6, <2>7 DEF a, b, here, forward
<1>7. q.type \in Types
  BY DEF Queries
<1> QED
  BY <1>3, <1>4, <1>5, <1>6, <1>7 DEF Types

(* The accounts after a change of the table.                                 *)
Gone(q, old, new) == Cardinality(Names(q, old) \ Here(q, old, new))

Come(q, old, new) == Cardinality(Names(q, new) \ Here(q, old, new))

Ahead(q, old, new) == Cardinality(Forward(q, old, new))

ChangeAccounted(q, old, new, o, began, before, seen) ==
  LET a == NameList(q, old)
      b == NameList(q, new)
  IN  /\ Gone(q, old, new) \in Nat /\ Come(q, old, new) \in Nat /\ Ahead(q, old, new) \in Nat
      /\ Cardinality(Lost(began, before \cup Forward(q, old, new), seen, b, o))
           <= Cardinality(Lost(began, before, seen, a, o)) + Gone(q, old, new)
      /\ Cardinality(Again(seen, b, o))
           <= Cardinality(Again(seen, a, o)) + (Come(q, old, new) + Ahead(q, old, new))
      /\ Cardinality(Again(seen, a, o)) \in Nat /\ Cardinality(Again(seen, b, o)) \in Nat
      /\ OnlyGrows(q) => Gone(q, old, new) = 0 /\ Forward(q, old, new) = {}

LEMMA ChangeKeepsAccounts ==
  ASSUME NEW tab, NEW later, Extended(tab, later), NEW t \in Int, NEW u \in Int, t <= u,
         NEW q \in Queries,
         NEW old, old = ListOf(q, tab, t), NEW new, new = ListOf(q, later, u),
         NEW o \in Nat, NEW began, IsFiniteSet(began), NEW before, NEW seen
  PROVE  ChangeAccounted(q, old, new, o, began, before, seen)
<1> DEFINE a == NameList(q, old)
           b == NameList(q, new)
           here == Here(q, old, new)
           forward == Forward(q, old, new)
<1>1. TableOK(tab) /\ TableOK(later)
  BY DEF Extended
<1>2. /\ NoRepeats(a, Len(old)) /\ Names(q, old) = Values(a)
      /\ NoRepeats(b, Len(new)) /\ Names(q, new) = Values(b)
  BY <1>1, ListNamesOnce
<1>3. /\ InStep(a, b, here, here \ forward)
      /\ OnlyGrows(q) => Names(q, old) \subseteq Names(q, new) /\ forward = {}
  BY ListInStep
<1>4. here = Values(a) \cap Values(b)
  BY <1>2 DEF Here
<1>5. forward \in SUBSET here
  BY DEF Forward
<1> HIDE DEF a, b, here, forward
<1>6. IsFiniteSet(Values(a)) /\ IsFiniteSet(Values(b)) /\ After(a, o) \in SUBSET Values(a)
      /\ After(b, o) \in SUBSET Values(b)
  BY <1>2, FirstOnes
<1>7. /\ IsFiniteSet(Values(a) \ here) /\ IsFiniteSet(Values(b) \ here) /\ IsFiniteSet(forward)
      /\ IsFiniteSet(Again(seen, a, o)) /\ IsFiniteSet(Again(seen, b, o))
  <2>1. /\ Values(a) \ here \in SUBSET Values(a) /\ Values(b) \ here \in SUBSET Values(b)
        /\ forward \in SUBSET Values(a)
        /\ Again(seen, a, o) \in SUBSET Values(a) /\ Again(seen, b, o) \in SUBSET Values(b)
    BY <1>4, <1>5, <1>6 DEF Again
  <2> QED
    BY <1>6, <2>1, FS_Subset
<1>8. Cardinality(Lost(began, before \cup forward, seen, b, o))
        <= Cardinality(Lost(began, before, seen, a, o)) + Cardinality(Values(a) \ here)
  BY <1>2, <1>3, <1>4, LostInStep
<1>9. Cardinality(Again(seen, b, o))
        <= Cardinality(Again(seen, a, o)) + (Cardinality(Values(b) \ here) + Cardinality(forward))
  BY <1>2, <1>3, <1>4, <1>5, AgainInStep
<1>10. OnlyGrows(q) => Cardinality(Values(a) \ here) = 0
  <2>1. OnlyGrows(q) => Values(a) \ here = {}
    BY <1>2, <1>3, <1>4
  <2> QED
    BY <2>1, FS_EmptySet
<1> QED
  BY <1>2, <1>3, <1>7, <1>8, <1>9, <1>10, FS_CardinalityType
     DEF ChangeAccounted, Gone, Come, Ahead, a, b, here, forward
-----------------------------------------------------------------------------
(* The invariant. *)

(* Before the client begins, nothing is owed.                                *)
LEMMA PagingInitInv == PagingInit => PagingInv
<1> SUFFICES ASSUME PagingInit PROVE PagingInv
  OBVIOUS
<1>1. /\ DatasetInit /\ query = Idle /\ offset = 0 /\ shown = <<>> /\ finished = FALSE
      /\ start = <<>> /\ arrivals = 0 /\ departures = 0 /\ moved = {}
  BY DEF PagingInit
<1>2. DatasetTypeOK
  BY <1>1, InstantsAssumption DEF DatasetInit, DatasetTypeOK
<1>3. PagingTypeOK
  <2>1. <<>> \in Seq(Elements)
    OBVIOUS
  <2>2. shown \in Seq(Elements) /\ start \in Seq(Elements)
    BY <1>1, <2>1
  <2>3. offset \in Nat /\ arrivals \in Nat /\ departures \in Nat /\ finished \in BOOLEAN
    BY <1>1
  <2> QED
    BY <1>1, <1>2, <2>2, <2>3 DEF PagingTypeOK
<1>4. RepeatsAreExplained
  <2>1. Seen = {}
    BY <1>1 DEF Seen, Names
  <2> QED
    BY <1>1, <2>1, FS_EmptySet DEF RepeatsAreExplained
<1> QED
  BY <1>1, <1>3, <1>4 DEF PagingInv, NotBegun, GrowingStays, LostAreExplained, AgainAreExplained,
                          SkipsAreExplained

(* The table and the clock, in a state of the client.                        *)
LEMMA PagedTable ==
  ASSUME DatasetTypeOK
  PROVE  TableOK(table) /\ now \in Int
BY StoredRows, InstantsAssumption DEF DatasetTypeOK

(* The first page: nothing is lost yet, and nothing seen twice.              *)
LEMMA FirstPageKeepsInv ==
  ASSUME PagingInv, FirstPage
  PROVE  PagingInv'
<1>1. PICK type \in Types, win \in PageWindows, arg \in LimitArgs :
        LET q == [type |-> type, win |-> win, limit |-> LimitOf(arg)]
        IN  query' = q /\ start' = ListOf(q, table, now) /\ Read(q, 0)
  BY DEF FirstPage
<1> DEFINE q == [type |-> type, win |-> win, limit |-> LimitOf(arg)]
           limit == q.limit
           list == ListOf(q, table, now)
           a == NameList(q, list)
           page == Page(list, limit, 0)
<1>2. /\ query' = q /\ start' = list /\ shown' = shown \o page /\ offset' = 0 + limit
      /\ finished' = (limit = 0 \/ Len(page) < limit)
  BY <1>1 DEF Read
<1>3. query = Idle /\ UNCHANGED <<table, now, arrivals, departures, moved>>
  BY DEF FirstPage
<1>4. limit \in Nat
  BY LimitsAssumption DEF LimitOf
<1>5. q \in Queries /\ q # Idle
  <2>1. q \in Queries
    BY <1>4 DEF Queries
  <2>2. q.type # "none" /\ Idle.type = "none"
    BY DEF Types, Idle
  <2> QED
    BY <2>1, <2>2
<1>6. /\ DatasetTypeOK /\ shown = <<>> /\ arrivals = 0 /\ departures = 0 /\ moved = {}
  BY <1>3 DEF PagingInv, PagingTypeOK, NotBegun
<1>7. TableOK(table)
  BY <1>6, PagedTable
<1> HIDE DEF q
<1>8. list \in Seq(Elements) /\ NoRepeats(a, Len(list)) /\ Names(q, list) = Values(a)
  BY <1>5, <1>7, ListNamesOnce
<1> HIDE DEF list
<1>9. /\ IsFiniteSet(Values(a)) /\ Cardinality(Values(a)) = Len(list) /\ Len(list) \in Nat
      /\ After(a, 0) = Values(a)
  <2>1. IsFiniteSet(Values(a)) /\ Cardinality(Values(a)) = Len(list) /\ Len(list) \in Nat
    BY <1>8, FirstOnes, 0 \in Nat DEF NoRepeats
  <2>2. After(a, 0) = Values(a)
    BY <1>8 DEF After, Values, NoRepeats
  <2> QED
    BY <2>1, <2>2
<1>10. /\ Seen' = Names(q, shown') /\ Skipped' = Names(q, list) \ Names(q, shown')
       /\ Names(query', start') = Names(q, list)
  BY <1>2 DEF Seen, Skipped
<1>11. Current' = a
  BY <1>2, <1>3 DEF Current, list
<1>12. DatasetTypeOK'
  BY <1>3, <1>6 DEF DatasetTypeOK
<1>13. NotBegun' /\ GrowingStays'
  BY <1>2, <1>3, <1>5, <1>6 DEF NotBegun, GrowingStays
<1> DEFINE TypesHold == offset' \in Nat /\ finished' \in BOOLEAN /\ shown' \in Seq(Elements)
<1>14. TypesHold => PagingTypeOK'
  BY <1>2, <1>3, <1>5, <1>6, <1>8, <1>12 DEF PagingTypeOK
<1>15. CASE limit = 0
  <2>1. page = list
    BY <1>15 DEF Page
  <2>2. shown' = list /\ finished' = TRUE /\ offset' = 0
    <3>1. <<>> \o list = list
      BY <1>8
    <3>2. shown' = <<>> \o list
      BY <1>2, <1>6, <2>1
    <3> HIDE DEF limit, page
    <3>3. finished' = TRUE
      BY <1>2, <1>15, Zenon
    <3>4. offset' = 0
      BY ONLY <1>2, <1>15
    <3> QED
      BY <3>1, <3>2, <3>3, <3>4
  <2>3. Skipped' = {}
    BY <1>10, <2>2
  <2>4. SkipsAreExplained'
    <3>1. (Skipped \ moved)' = {}
      BY <2>3
    <3>2. Cardinality((Skipped \ moved)') = 0
      BY <3>1, FS_EmptySet
    <3>3. departures' = 0
      BY <1>3, <1>6
    <3>4. Cardinality((Skipped \ moved)') <= departures'
      BY <3>2, <3>3
    <3> QED
      BY <2>3, <3>4 DEF SkipsAreExplained
  <2>5. RepeatsAreExplained'
    <3>1. Len(shown') - Cardinality(Seen') <= arrivals'
      BY <1>3, <1>6, <1>8, <1>9, <1>10, <2>2
    <3> QED
      BY <3>1 DEF RepeatsAreExplained
  <2>6. LostAreExplained' /\ AgainAreExplained'
    BY <2>2 DEF LostAreExplained, AgainAreExplained
  <2>7. TypesHold
    BY <1>8, <2>2
  <2> QED
    BY <1>13, <1>14, <2>4, <2>5, <2>6, <2>7 DEF PagingInv
<1>16. CASE limit # 0
  <2> DEFINE new == Names(q, shown')
             began == Names(q, list)
             o == 0 + limit
  <2>1. limit > 0 /\ o \in Nat
    BY <1>4, <1>16
  <2>2. <<>> \in Seq(Elements) /\ Names(q, <<>>) = {} /\ shown' = <<>> \o page
    BY <1>2, <1>6 DEF Names
  <2> HIDE DEF page
  <2>3. /\ shown' \in Seq(Elements)
        /\ Lost(began, {}, new, a, o) \subseteq Lost(began, {}, {}, a, 0)
        /\ Len(page) < limit => (began \ new) \ {} = Lost(began, {}, new, a, o)
        /\ Len(shown') - Cardinality(new) + Cardinality(Again(new, a, o))
             = Len(<<>>) - Cardinality({}) + Cardinality(Again({}, a, 0))
        /\ Cardinality(Again(new, a, o)) \in Nat
    <3> HIDE DEF a, new, began
    <3> DEFINE later == shown'
               from == 0
               out == {}
               none == <<>>
    <3>1. /\ a = NameList(q, list) /\ new = Names(q, later) /\ page = Page(list, limit, from)
          /\ later = none \o Page(list, limit, from)
          /\ from \in Nat /\ none \in Seq(Elements) /\ o = from + limit
      BY <2>2 DEF a, new, page
    <3> HIDE DEF limit, later, from, o, out, none
    <3>2. later \in Seq(Elements) /\ AccountsKept(q, none, later, page, a, from, limit, began, out)
      BY <1>4, <1>8, <2>1, <3>1, PageKeepsAccounts
    <3> QED
      BY <2>2, <3>1, <3>2 DEF AccountsKept, later, from, out, none
  <2>4. Lost(began, {}, {}, a, 0) = {} /\ Again({}, a, 0) = {}
    BY <1>8, <1>9 DEF Lost, Again
  <2>5. Lost(began, {}, new, a, o) = {}
    BY <2>3, <2>4
  <2>6. Len(shown') - Cardinality(new) + Cardinality(Again(new, a, o)) = 0
    <3>1. Len(<<>>) = 0 /\ Cardinality({}) = 0
      BY FS_EmptySet
    <3> DEFINE rest == Len(shown') - Cardinality(new) + Cardinality(Again(new, a, o))
    <3> HIDE DEF rest
    <3>2. rest = Len(<<>>) - Cardinality({}) + Cardinality({})
      BY <2>3, <2>4 DEF rest
    <3>3. rest = 0
      BY <3>1, <3>2
    <3> QED
      BY <3>3 DEF rest
  <2>7. /\ Len(shown') \in Nat /\ Cardinality(new) \in Nat
    BY <2>3, NamesFinite
  <2> HIDE DEF a, new, began, o, limit
  <2>8. SkipsAreExplained'
    <3> SUFFICES ASSUME finished' PROVE Skipped' = {} /\ Cardinality((Skipped \ moved)') <= departures'
      BY DEF SkipsAreExplained
    <3>1. Len(page) < limit
      BY <1>2, <1>16
    <3>2. Skipped' = {}
      BY <1>10, <2>3, <2>5, <3>1 DEF new, began
    <3> QED
      BY <1>3, <1>6, <3>2, FS_EmptySet
  <2>9. RepeatsAreExplained'
    <3>1. Len(shown') - Cardinality(new) <= 0
      BY <2>3, <2>6, <2>7
    <3> QED
      BY <1>3, <1>6, <1>10, <3>1 DEF RepeatsAreExplained, new
  <2>10. LostAreExplained'
    <3>1. Lost(Names(query', start'), moved', Seen', Current', offset') = {}
      BY <1>2, <1>3, <1>6, <1>10, <1>11, <2>5 DEF new, began, o
    <3>2. Cardinality(Lost(Names(query', start'), moved', Seen', Current', offset')) <= departures'
      BY <1>3, <1>6, <3>1, FS_EmptySet
    <3>3. query'.limit > 0
      BY <1>2, <2>1 DEF limit
    <3> QED
      BY <3>2, <3>3 DEF LostAreExplained
  <2>11. AgainAreExplained'
    <3>1. Len(shown') - Cardinality(Seen') + Cardinality(Again(Seen', Current', offset')) <= arrivals'
      BY <1>2, <1>3, <1>6, <1>10, <1>11, <2>6 DEF new, o
    <3> QED
      BY <3>1 DEF AgainAreExplained
  <2>12. TypesHold
    BY <1>2, <2>1, <2>3 DEF o
  <2> QED
    BY <1>13, <1>14, <2>8, <2>9, <2>10, <2>11, <2>12 DEF PagingInv
<1> QED
  BY <1>15, <1>16
(* A further page moves no account.                                          *)
LEMMA NextPageKeepsInv ==
  ASSUME PagingInv, NextPage
  PROVE  PagingInv'
<1> DEFINE limit == query.limit
           list == ListOf(query, table, now)
           a == NameList(query, list)
           page == Page(list, limit, offset)
           began == Names(query, start)
           new == Names(query, shown')
           o == offset + limit
<1>1. /\ query # Idle /\ ~finished
      /\ shown' = shown \o page /\ offset' = o
      /\ finished' = (limit = 0 \/ Len(page) < limit)
      /\ UNCHANGED <<table, now, query, start, arrivals, departures, moved>>
  BY DEF NextPage, Read
<1>2. /\ DatasetTypeOK /\ query \in Queries /\ offset \in Nat
      /\ shown \in Seq(Elements) /\ arrivals \in Nat /\ departures \in Nat
  BY <1>1 DEF PagingInv, PagingTypeOK
<1>3. limit \in Nat /\ limit > 0
  BY <1>1, <1>2 DEF PagingInv, LostAreExplained, Queries
<1>4. list \in Seq(Elements) /\ NoRepeats(a, Len(list))
  BY <1>2, ListNamesOnce, PagedTable
<1>5. a = Current
  BY DEF Current
<1> HIDE DEF list, limit
<1>6. shown' \in Seq(Elements) /\ AccountsKept(query, shown, shown', page, a, offset, limit, began, moved)
  <2> HIDE DEF a, began
  <2>1. a = NameList(query, list)
    BY DEF a
  <2> QED
    BY <1>1, <1>2, <1>3, <1>4, <2>1, PageKeepsAccounts
<1> HIDE DEF a, page
<1>7. /\ Lost(began, moved, new, a, o) \subseteq Lost(began, moved, Seen, a, offset)
      /\ Len(page) < limit => (began \ new) \ moved = Lost(began, moved, new, a, o)
      /\ Len(shown') - Cardinality(new) + Cardinality(Again(new, a, o))
           = Len(shown) - Cardinality(Seen) + Cardinality(Again(Seen, a, offset))
      /\ Cardinality(Again(new, a, o)) \in Nat
  BY <1>6 DEF AccountsKept, Seen
<1>8. /\ Seen' = new /\ Skipped' = began \ new /\ Names(query', start') = began
  BY <1>1 DEF Seen, Skipped
<1>9. Current' = a
  BY <1>1, <1>5 DEF Current
<1>10. Cardinality(Lost(began, moved, new, a, o)) <= departures
  <2> DEFINE old == Lost(began, moved, Seen, a, offset)
             lost == Lost(began, moved, new, a, o)
  <2>1. Cardinality(old) <= departures
    BY <1>1, <1>5 DEF PagingInv, LostAreExplained
  <2>2. IsFiniteSet(old)
    <3>1. start \in Seq(Elements)
      BY DEF PagingInv, PagingTypeOK
    <3>2. IsFiniteSet(began) /\ old \in SUBSET began
      BY <3>1, NamesFinite DEF Lost
    <3> QED
      BY <3>2, FS_Subset
  <2>3. lost \in SUBSET old
    BY <1>7
  <2> HIDE DEF old, lost
  <2>4. IsFiniteSet(lost) /\ Cardinality(lost) <= Cardinality(old)
    BY <2>2, <2>3, FS_Subset
  <2>5. Cardinality(lost) <= departures
    BY <1>2, <2>1, <2>2, <2>4, FS_CardinalityType
  <2> QED
    BY <2>5 DEF lost
<1>11. Len(shown') - Cardinality(new) + Cardinality(Again(new, a, o)) <= arrivals
  BY <1>1, <1>5, <1>7 DEF PagingInv, AgainAreExplained
<1> HIDE DEF new, began
<1>12. PagingTypeOK'
  <2>1. DatasetTypeOK'
    BY <1>1, <1>2 DEF DatasetTypeOK
  <2>2. offset' \in Nat /\ finished' \in BOOLEAN
    BY <1>1, <1>2, <1>3
  <2> HIDE DEF o
  <2>3. PagingTypeOK
    BY DEF PagingInv
  <2> QED
    BY <1>1, <1>6, <2>1, <2>2, <2>3 DEF PagingTypeOK
<1>13. NotBegun' /\ GrowingStays'
  BY <1>1 DEF PagingInv, NotBegun, GrowingStays
<1>14. SkipsAreExplained'
  <2> SUFFICES ASSUME finished'
               PROVE  /\ OnlyGrows(query) => Skipped' = {}
                      /\ Cardinality((Skipped \ moved)') <= departures'
    BY <1>1 DEF SkipsAreExplained, OnlyGrows
  <2> DEFINE lost == Lost(began, moved, new, a, o)
  <2>1. Len(page) < limit
    <3>1. limit # 0
      BY <1>3
    <3>2. finished' = (limit = 0 \/ Len(page) < limit)
      BY <1>1
    <3> QED
      BY <3>1, <3>2, Zenon
  <2>2. (began \ new) \ moved = lost
    BY <1>7, <2>1 DEF new, began
  <2>3. (Skipped \ moved)' = lost
    BY <1>1, <1>8, <2>2
  <2>4. OnlyGrows(query) => Skipped' = {}
    <3> SUFFICES ASSUME OnlyGrows(query) PROVE Skipped' = {}
      OBVIOUS
    <3>1. departures = 0 /\ moved = {}
      BY <1>1 DEF PagingInv, GrowingStays
    <3>2. IsFiniteSet(lost)
      <4>1. start \in Seq(Elements)
        BY DEF PagingInv, PagingTypeOK
      <4>2. IsFiniteSet(began) /\ lost \in SUBSET began
        BY <4>1, NamesFinite DEF Lost, began
      <4> QED
        BY <4>2, FS_Subset
    <3>3. Cardinality(lost) <= 0
      BY <1>10, <3>1
    <3> HIDE DEF lost
    <3>4. lost = {}
      BY <3>2, <3>3, FS_EmptySet, FS_CardinalityType
    <3> QED
      BY <1>8, <2>2, <3>1, <3>4
  <2>5. Cardinality((Skipped \ moved)') <= departures'
    BY <1>1, <1>10, <2>3
  <2> QED
    BY <2>4, <2>5
<1>15. RepeatsAreExplained'
  <2>1. Len(shown') \in Nat /\ Cardinality(new) \in Nat
    BY <1>6, NamesFinite DEF new
  <2>2. Len(shown') - Cardinality(new) <= arrivals
    BY <1>2, <1>7, <1>11, <2>1
  <2> QED
    BY <1>1, <1>8, <2>2 DEF RepeatsAreExplained
<1>16. LostAreExplained'
  <2>1. Cardinality(Lost(Names(query', start'), moved', Seen', Current', offset')) <= departures'
    BY <1>1, <1>8, <1>9, <1>10
  <2>2. query'.limit > 0
    BY <1>1, <1>3 DEF limit
  <2> QED
    BY <2>1, <2>2 DEF LostAreExplained
<1>17. AgainAreExplained'
  <2>1. Len(shown') - Cardinality(Seen') + Cardinality(Again(Seen', Current', offset')) <= arrivals'
    BY <1>1, <1>8, <1>9, <1>11
  <2> QED
    BY <2>1 DEF AgainAreExplained
<1> QED
  BY <1>12, <1>13, <1>14, <1>15, <1>16, <1>17 DEF PagingInv

(* A change of the list is paid for by what came and what left.              *)
LEMMA ChangeKeepsInv ==
  ASSUME PagingInv, Change
  PROVE  PagingInv'
<1>1. ~finished /\ DatasetNext /\ Watch /\ UNCHANGED <<query, offset, shown, finished, start>>
  BY DEF Change
<1>2. PagingTypeOK /\ DatasetTypeOK /\ arrivals \in Nat /\ departures \in Nat
  BY DEF PagingInv, PagingTypeOK
<1>3. [DatasetNext]_datasetVars
  BY <1>1
<1>4. DatasetTypeOK'
  BY <1>2, <1>3, DatasetStepTypes
<1>5. SkipsAreExplained'
  BY <1>1 DEF SkipsAreExplained
<1>6. Seen' = Seen
  BY <1>1 DEF Seen
<1>7. CASE query = Idle
  <2>1. UNCHANGED <<arrivals, departures, moved>>
    BY <1>1, <1>7 DEF Watch
  <2>2. PagingTypeOK'
    BY <1>1, <1>2, <1>4, <2>1 DEF PagingTypeOK
  <2>3. NotBegun' /\ GrowingStays' /\ LostAreExplained' /\ AgainAreExplained'
    BY <1>1, <1>7, <2>1 DEF PagingInv, NotBegun, GrowingStays, LostAreExplained, AgainAreExplained
  <2>4. RepeatsAreExplained'
    BY <1>1, <1>6, <2>1 DEF PagingInv, RepeatsAreExplained
  <2> QED
    BY <1>5, <2>2, <2>3, <2>4 DEF PagingInv
<1>8. CASE query # Idle
  <2> DEFINE old == ListOf(query, table, now)
             new == ListOf(query, table', now')
             a == NameList(query, old)
             b == NameList(query, new)
             forward == Forward(query, old, new)
             gone == Gone(query, old, new)
             come == Come(query, old, new)
             ahead == Ahead(query, old, new)
             began == Names(query, start)
  <2>1. query \in Queries /\ offset \in Nat /\ start \in Seq(Elements) /\ shown \in Seq(Elements)
    BY <1>2, <1>8 DEF PagingTypeOK
  <2>2. /\ arrivals' = arrivals + come + ahead
        /\ departures' = departures + gone
        /\ moved' = moved \cup forward
    BY <1>1, <1>8 DEF Watch, Here, Forward, Gone, Come, Ahead
  <2>3. Extended(table, table') /\ now \in Int /\ now' \in Int /\ now <= now'
    <3>1. TableOK(table)
      BY <1>2, PagedTable
    <3>2. TableOK(table')
      BY <1>4, StoredRows DEF DatasetTypeOK
    <3> QED
      BY <1>2, <1>3, <3>1, <3>2, DatasetGrows DEF Extended
  <2>4. IsFiniteSet(began)
    BY <2>1, NamesFinite
  <2>5. a = Current /\ b = Current'
    BY <1>1 DEF Current
  <2> HIDE DEF old, new
  <2>6. /\ gone \in Nat /\ come \in Nat /\ ahead \in Nat
        /\ Cardinality(Lost(began, moved \cup forward, Seen, b, offset))
             <= Cardinality(Lost(began, moved, Seen, a, offset)) + gone
        /\ Cardinality(Again(Seen, b, offset)) <= Cardinality(Again(Seen, a, offset)) + (come + ahead)
        /\ Cardinality(Again(Seen, a, offset)) \in Nat /\ Cardinality(Again(Seen, b, offset)) \in Nat
        /\ OnlyGrows(query) => gone = 0 /\ forward = {}
    <3>1. old = ListOf(query, table, now) /\ new = ListOf(query, table', now')
      BY DEF old, new
    <3> HIDE DEF began
    <3>2. ChangeAccounted(query, old, new, offset, began, moved, Seen)
      BY <2>1, <2>3, <2>4, <3>1, ChangeKeepsAccounts
    <3> QED
      BY <3>2 DEF ChangeAccounted
  <2>7. Cardinality(Lost(began, moved, Seen, a, offset)) \in Nat
        /\ Cardinality(Lost(began, moved \cup forward, Seen, b, offset)) \in Nat
    <3>1. /\ Lost(began, moved, Seen, a, offset) \in SUBSET began
          /\ Lost(began, moved \cup forward, Seen, b, offset) \in SUBSET began
      BY DEF Lost
    <3> QED
      BY <2>4, <3>1, FS_Subset, FS_CardinalityType
  <2> HIDE DEF a, b, gone, come, ahead, forward, began
  <2>8. arrivals' \in Nat /\ departures' \in Nat /\ arrivals <= arrivals'
    BY <1>2, <2>2, <2>6
  <2>9. PagingTypeOK'
    BY <1>1, <1>2, <1>4, <2>8 DEF PagingTypeOK
  <2>10. NotBegun'
    BY <1>1, <1>8 DEF NotBegun
  <2>11. GrowingStays'
    <3> SUFFICES ASSUME OnlyGrows(query) PROVE departures' = 0 /\ moved' = {}
      BY <1>1 DEF GrowingStays
    <3>1. departures = 0 /\ moved = {}
      BY <1>8 DEF PagingInv, GrowingStays
    <3> QED
      BY <2>2, <2>6, <3>1
  <2>12. LostAreExplained'
    <3>1. query.limit > 0 /\ Cardinality(Lost(began, moved, Seen, a, offset)) <= departures
      BY <1>1, <1>8, <2>5 DEF PagingInv, LostAreExplained, began
    <3>2. Cardinality(Lost(began, moved \cup forward, Seen, b, offset)) <= departures'
      BY <1>2, <2>2, <2>6, <2>7, <3>1
    <3>3. Names(query', start') = began
      BY <1>1 DEF began
    <3>4. Cardinality(Lost(Names(query', start'), moved', Seen', Current', offset')) <= departures'
      BY <1>1, <1>6, <2>2, <2>5, <3>2, <3>3
    <3> QED
      BY <1>1, <3>1, <3>4 DEF LostAreExplained
  <2>13. Len(shown) \in Nat /\ Cardinality(Seen) \in Nat
    BY <2>1, NamesFinite DEF Seen
  <2>14. AgainAreExplained'
    <3>1. Len(shown) - Cardinality(Seen) + Cardinality(Again(Seen, a, offset)) <= arrivals
      BY <1>1, <1>8, <2>5 DEF PagingInv, AgainAreExplained
    <3>2. Len(shown) - Cardinality(Seen) + Cardinality(Again(Seen, b, offset)) <= arrivals'
      BY <1>2, <2>2, <2>6, <2>13, <3>1
    <3>3. Len(shown') - Cardinality(Seen') + Cardinality(Again(Seen', Current', offset')) <= arrivals'
      BY <1>1, <1>6, <2>5, <3>2
    <3> QED
      BY <3>3 DEF AgainAreExplained
  <2>15. RepeatsAreExplained'
    <3>1. Len(shown) - Cardinality(Seen) <= arrivals
      BY DEF PagingInv, RepeatsAreExplained
    <3>2. Len(shown) - Cardinality(Seen) <= arrivals'
      BY <1>2, <2>8, <2>13, <3>1
    <3> QED
      BY <1>1, <1>6, <3>2 DEF RepeatsAreExplained
  <2> QED
    BY <1>5, <2>9, <2>10, <2>11, <2>12, <2>14, <2>15 DEF PagingInv
<1> QED
  BY <1>7, <1>8

(* Every step keeps the invariant.                                           *)
LEMMA PagingStepKeepsInv ==
  PagingInv /\ [PagingNext]_<<datasetVars, pagingVars>> => PagingInv'
<1> SUFFICES ASSUME PagingInv, [PagingNext]_<<datasetVars, pagingVars>> PROVE PagingInv'
  OBVIOUS
<1>1. CASE FirstPage
  BY <1>1, FirstPageKeepsInv
<1>2. CASE NextPage
  BY <1>2, NextPageKeepsInv
<1>3. CASE Change
  BY <1>3, ChangeKeepsInv
<1>4. CASE UNCHANGED <<datasetVars, pagingVars>>
  <2>1. UNCHANGED <<table, now, query, offset, shown, finished, start, arrivals, departures, moved>>
    BY <1>4 DEF datasetVars, pagingVars
  <2>2. PagingTypeOK' /\ NotBegun' /\ GrowingStays'
    BY <2>1 DEF PagingInv, PagingTypeOK, DatasetTypeOK, NotBegun, GrowingStays
  <2>3. Seen' = Seen /\ Skipped' = Skipped /\ Current' = Current
    BY <2>1 DEF Seen, Skipped, Current
  <2>4. LostAreExplained' /\ AgainAreExplained'
    BY <2>1, <2>3 DEF PagingInv, LostAreExplained, AgainAreExplained
  <2>5. SkipsAreExplained' /\ RepeatsAreExplained'
    BY <2>1, <2>3 DEF PagingInv, SkipsAreExplained, RepeatsAreExplained
  <2> QED
    BY <2>2, <2>4, <2>5 DEF PagingInv
<1> QED
  BY <1>1, <1>2, <1>3, <1>4 DEF PagingNext

(* While a client reads a list page by page, what it lost sight of is paid   *)
(* for by departures, what it saw and will see twice by arrivals.            *)
THEOREM PagingInvariant == PagingSpec => []PagingInv
BY PagingInitInv, PagingStepKeepsInv, PTL DEF PagingSpec

(* What was listed when the client began and its last page still has not     *)
(* shown: no duplicate group and no row in limbo, and of orphans and ghosts  *)
(* no more than were cleared meanwhile, but for those that moved forward.    *)
THEOREM SkipsExplained == PagingSpec => []SkipsAreExplained
<1>1. PagingInv => SkipsAreExplained
  BY DEF PagingInv
<1> QED
  BY <1>1, PagingInvariant, PTL

(* An item is shown twice only for another that came, or moved forward.      *)
THEOREM RepeatsExplained == PagingSpec => []RepeatsAreExplained
<1>1. PagingInv => RepeatsAreExplained
  BY DEF PagingInv
<1> QED
  BY <1>1, PagingInvariant, PTL
=============================================================================
