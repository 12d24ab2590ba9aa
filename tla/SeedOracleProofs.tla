-------------------------- MODULE SeedOracleProofs --------------------------
(***************************************************************************)
(* Theorems about the seed and its oracle, for any plan, any window, any    *)
(* lags and any order the rows are shuffled into.                           *)
(***************************************************************************)
EXTENDS SeedOracle, DetectionProofs, SequenceTheorems

(***************************************************************************)
(* The inductive invariant: what is known of the generated rows, in any     *)
(* order.                                                                   *)
(***************************************************************************)
SeedRows == [id : Range(Families) \X Nat, at : Int, method : PaymentMethods,
             status : Statuses, source : Sources]

\* The rows a transaction of a family has from each source.
FamilyRows(f, src) ==
  IF src = "processor"
  THEN IF f = "GHOST-NOPROC" THEN 0 ELSE IF f = "DUP-PROC" THEN 3 ELSE 1
  ELSE IF f \in {"ORPHAN", "LIMBO"} THEN 0 ELSE IF f = "DUP-MERCH" THEN 2 ELSE 1

FamilyStatuses(f, src) ==
  IF f = "HEALTHY" THEN {"approved", "declined", "pending"}
  ELSE IF f = "LIMBO" THEN {"pending"}
  ELSE IF f = "GHOST-BADPROC" /\ src = "processor" THEN {"failed", "declined"}
  ELSE {"approved"}

FitsFamily(f, row) ==
  /\ row.at \in WindowStart..WindowEnd
  /\ row.status \in FamilyStatuses(f, row.source)
  /\ f = "HEALTHY" /\ row.source = "processor" /\ row.status = "pending" => row.method = "credit_card"
  /\ f = "LIMBO" => row.method \in {"pix", "boleto"}

\* The merchant's approval of a healthy order has the processor's word, or waits for it.
HealthyTogether(p, m) ==
  /\ p.id = m.id /\ p.id[1] = "HEALTHY"
  /\ p.source = "processor" /\ m.source = "merchant_order_system"
  /\ m.status = "approved"
  => p.status \in {"approved", "pending"}

SeedTypeOK ==
  /\ made \in [Range(Families) -> Nat]
  /\ txs \in Seq(SeedRows)

RowsFit ==
  \A i \in Ids(txs) : txs[i].id[2] < made[txs[i].id[1]] /\ FitsFamily(txs[i].id[1], txs[i])

GroupsAreWhole ==
  \A f \in Range(Families), n \in Nat, src \in Sources :
    n < made[f] => Cardinality(GroupRows(txs, <<<<f, n>>, src>>)) = FamilyRows(f, src)

PairsAgree == \A i, j \in Ids(txs) : HealthyTogether(txs[i], txs[j])

SeedInv == SeedTypeOK /\ RowsFit /\ GroupsAreWhole /\ PairsAgree

-----------------------------------------------------------------------------
LEMMA FamilyNames ==
  Range(Families) = {"HEALTHY", "ORPHAN", "GHOST-NOPROC", "GHOST-BADPROC", "DUP-PROC", "DUP-MERCH", "LIMBO"}
BY DEF Families, Range

(* The seven families' turns give one transaction's rows each.               *)
Emission(f, rows) ==
  /\ rows \in Seq(SeedRows)
  /\ \A i \in DOMAIN rows : rows[i].id = Id(f) /\ FitsFamily(f, rows[i])
  /\ \A src \in Sources : Cardinality({i \in DOMAIN rows : rows[i].source = src}) = FamilyRows(f, src)
  /\ \A i, j \in DOMAIN rows : HealthyTogether(rows[i], rows[j])

(* The rows of a table to which others were appended.                        *)
Extends(tab2, tab, more, c) ==
  /\ c \in Nat /\ IsFiniteSet(Ids(tab)) /\ IsFiniteSet(Ids(more))
  /\ \A i \in Ids(tab) : i \in Ids(tab2) /\ tab2[i] = tab[i] /\ i <= c /\ i \in Nat
  /\ \A i \in Ids(more) : c + i \in Ids(tab2) /\ tab2[c + i] = more[i] /\ i \in Nat \ {0}
  /\ \A i \in Ids(tab2) : i \in Ids(tab) \/ (i - c \in Ids(more) /\ i = c + (i - c))

LEMMA AppendedTable ==
  ASSUME NEW R, NEW tab \in Seq(R), NEW more \in Seq(R), NEW c, c = Len(tab), NEW tab2, tab2 = tab \o more
  PROVE  tab2 \in Seq(R) /\ Extends(tab2, tab, more, c)
<1>1. /\ c \in Nat /\ tab2 \in Seq(R) /\ Len(more) \in Nat
      /\ Ids(tab) = 1..c /\ Ids(more) = 1..Len(more) /\ Ids(tab2) = 1..(c + Len(more))
      /\ \A i \in 1..(c + Len(more)) : tab2[i] = IF i <= c THEN tab[i] ELSE more[i - c]
  BY DEF Ids
<1>2. IsFiniteSet(1..c) /\ IsFiniteSet(1..Len(more))
  BY <1>1, FS_Interval
<1>3. ASSUME NEW i \in Ids(more)
      PROVE  c + i \in Ids(tab2) /\ tab2[c + i] = more[i] /\ i \in Nat \ {0}
  <2>1. i \in 1..Len(more) /\ i \in Nat \ {0}
    BY <1>1
  <2> DEFINE k == c + i
  <2>2. k \in 1..(c + Len(more)) /\ ~(k <= c) /\ k - c = i
    BY <1>1, <2>1
  <2> HIDE DEF k
  <2>3. tab2[k] = more[i]
    BY <1>1, <2>2
  <2> QED
    BY <1>1, <2>1, <2>2, <2>3 DEF k
<1>4. ASSUME NEW i \in Ids(tab)
      PROVE  i \in Ids(tab2) /\ tab2[i] = tab[i] /\ i <= c /\ i \in Nat
  <2>1. i \in 1..(c + Len(more)) /\ i <= c
    BY <1>1
  <2> QED
    BY <1>1, <2>1
<1>5. ASSUME NEW i \in Ids(tab2)
      PROVE  i \in Ids(tab) \/ (i - c \in Ids(more) /\ i = c + (i - c))
  BY <1>1
<1> QED
  BY <1>1, <1>2, <1>3, <1>4, <1>5 DEF Extends

(* A set of positions is as large further down the table.                    *)
Shifted(S, c) == {c + i : i \in S}

LEMMA ShiftedSize ==
  ASSUME NEW S, IsFiniteSet(S), S \subseteq Nat, NEW c \in Nat
  PROVE  Cardinality(Shifted(S, c)) = Cardinality(S)
<1> DEFINE f == [i \in S |-> c + i]
           T == Shifted(S, c)
<1>1. f \in [S -> T] /\ \A y \in T : \E i \in S : f[i] = y
  BY DEF Shifted
<1>2. \A i, j \in S : f[i] = f[j] => i = j
  OBVIOUS
<1>3. f \in Bijection(S, T)
  BY <1>1, <1>2 DEF Bijection, Injection, Surjection, IsInjective
<1> QED
  BY <1>3, FS_Bijection DEF ExistsBijection

(* A family's turn preserves the invariant, whichever the family.            *)
LEMMA EmissionKeepsInv ==
  ASSUME SeedInv, NEW f \in Range(Families), NEW rows, Emission(f, rows), Emit(f, rows)
  PROVE  SeedInv'
<1> DEFINE c == Len(txs)
           id == Id(f)
<1>0. /\ made \in [Range(Families) -> Nat] /\ txs \in Seq(SeedRows) /\ rows \in Seq(SeedRows)
      /\ txs' = txs \o rows /\ made' = [made EXCEPT ![f] = @ + 1]
      /\ id = <<f, made[f]>> /\ made[f] \in Nat
  BY DEF SeedInv, SeedTypeOK, Emission, Emit, Id
<1>1. /\ c \in Nat /\ txs' \in Seq(SeedRows) /\ IsFiniteSet(Ids(txs)) /\ IsFiniteSet(Ids(rows))
      /\ \A i \in Ids(txs) : i \in Ids(txs') /\ txs'[i] = txs[i] /\ i <= c /\ i \in Nat
      /\ \A i \in Ids(rows) : c + i \in Ids(txs') /\ txs'[c + i] = rows[i] /\ i \in Nat \ {0}
      /\ \A i \in Ids(txs') : i \in Ids(txs) \/ (i - c \in Ids(rows) /\ i = c + (i - c))
  <2>1. txs \in Seq(SeedRows) /\ rows \in Seq(SeedRows) /\ txs' = txs \o rows /\ c = Len(txs)
    BY <1>0
  <2>2. txs' \in Seq(SeedRows) /\ Extends(txs', txs, rows, c)
    BY <2>1, AppendedTable
  <2> QED
    BY <2>2 DEF Extends
<1>2. /\ made' \in [Range(Families) -> Nat]
      /\ made'[f] = made[f] + 1 /\ \A g \in Range(Families) : g # f => made'[g] = made[g]
  BY <1>0
<1>3. ASSUME NEW i \in Ids(txs)
      PROVE  /\ txs[i] \in SeedRows /\ txs[i].id \in Range(Families) \X Nat
             /\ txs[i].id[1] \in Range(Families) /\ txs[i].id[2] \in Nat
             /\ txs[i].id[2] < made[txs[i].id[1]] /\ FitsFamily(txs[i].id[1], txs[i])
             /\ txs[i].id # id
  <2>1. txs[i] \in SeedRows
    BY <1>0 DEF Ids
  <2>2. txs[i].id \in Range(Families) \X Nat
    BY <2>1 DEF SeedRows
  <2>3. txs[i].id[2] < made[txs[i].id[1]] /\ FitsFamily(txs[i].id[1], txs[i])
    BY DEF SeedInv, RowsFit
  <2> QED
    BY <1>0, <2>1, <2>2, <2>3
<1>4. ASSUME NEW i \in Ids(rows)
      PROVE  rows[i].id = id /\ FitsFamily(f, rows[i]) /\ rows[i].source \in Sources
  <2>1. rows[i] \in SeedRows
    BY <1>0 DEF Ids
  <2> QED
    BY <2>1 DEF Emission, SeedRows, Ids
<1>5. SeedTypeOK'
  BY <1>1, <1>2 DEF SeedTypeOK
<1> HIDE DEF c, id
<1>6. RowsFit'
  <2> SUFFICES ASSUME NEW i \in Ids(txs')
               PROVE  txs'[i].id[2] < made'[txs'[i].id[1]] /\ FitsFamily(txs'[i].id[1], txs'[i])
    BY DEF RowsFit, FitsFamily
  <2>1. CASE i \in Ids(txs)
    <3>1. made[txs[i].id[1]] \in Nat /\ made[txs[i].id[1]] <= made'[txs[i].id[1]]
      BY <1>0, <1>2, <1>3, <2>1
    <3> QED
      BY <1>1, <1>2, <1>3, <2>1, <3>1
  <2>2. CASE i - c \in Ids(rows) /\ i = c + (i - c)
    <3> DEFINE k == i - c
    <3>1. txs'[i] = rows[k] /\ k \in Ids(rows)
      BY <1>1, <2>2
    <3> HIDE DEF k
    <3> QED
      BY <1>0, <1>2, <1>4, <3>1
  <2> QED
    BY <1>1, <2>1, <2>2
<1>7. GroupsAreWhole'
  <2> SUFFICES ASSUME NEW g \in Range(Families), NEW n \in Nat, NEW src \in Sources, n < made'[g]
               PROVE  Cardinality(GroupRows(txs', <<<<g, n>>, src>>)) = FamilyRows(g, src)
    BY DEF GroupsAreWhole
  <2> DEFINE k == <<<<g, n>>, src>>
  <2>1. CASE <<g, n>> = id
    <3> DEFINE S == {i \in Ids(rows) : rows[i].source = src}
               T == Shifted(S, c)
    <3>1. GroupRows(txs', k) = T
      <4>1. ASSUME NEW i \in GroupRows(txs', k) PROVE i \in T
        <5>1. i \in Ids(txs') /\ txs'[i].id = id /\ txs'[i].source = src
          BY <2>1 DEF GroupRows, KeyOf
        <5>2. i \notin Ids(txs)
          BY <1>1, <1>3, <5>1
        <5> DEFINE m == i - c
        <5>3. m \in Ids(rows) /\ i = c + m
          BY <1>1, <5>1, <5>2
        <5>4. txs'[i] = rows[m]
          BY <1>1, <5>3
        <5> HIDE DEF m
        <5> QED
          BY <5>1, <5>3, <5>4 DEF Shifted
      <4>2. ASSUME NEW m \in S PROVE c + m \in GroupRows(txs', k)
        <5>1. c + m \in Ids(txs') /\ txs'[c + m] = rows[m] /\ rows[m].id = id /\ rows[m].source = src
          BY <1>1, <1>4
        <5> QED
          BY <2>1, <5>1 DEF GroupRows, KeyOf
      <4> QED
        BY <4>1, <4>2 DEF Shifted
    <3>2. IsFiniteSet(S) /\ S \subseteq Nat
      BY <1>1, FS_Subset
    <3>3. Cardinality(T) = Cardinality(S)
      BY <1>1, <3>2, ShiftedSize
    <3>4. Cardinality(S) = FamilyRows(f, src) /\ g = f
      BY <1>0, <2>1 DEF Emission, Ids
    <3> QED
      BY <3>1, <3>3, <3>4
  <2>2. CASE <<g, n>> # id
    <3>1. GroupRows(txs', k) = GroupRows(txs, k)
      <4>1. ASSUME NEW i \in GroupRows(txs', k) PROVE i \in GroupRows(txs, k)
        <5>1. i \in Ids(txs') /\ txs'[i].id = <<g, n>> /\ txs'[i].source = src
          BY DEF GroupRows, KeyOf
        <5> DEFINE m == i - c
        <5>2. ASSUME m \in Ids(rows), i = c + m PROVE FALSE
          BY <1>1, <1>4, <2>2, <5>1, <5>2
        <5>3. i \in Ids(txs) /\ txs'[i] = txs[i]
          BY <1>1, <5>1, <5>2
        <5> QED
          BY <5>1, <5>3 DEF GroupRows, KeyOf
      <4>2. ASSUME NEW i \in GroupRows(txs, k) PROVE i \in GroupRows(txs', k)
        BY <1>1 DEF GroupRows, KeyOf
      <4> QED
        BY <4>1, <4>2
    <3>2. n < made[g]
      BY <1>0, <1>2, <2>2
    <3>3. Cardinality(GroupRows(txs, k)) = FamilyRows(g, src)
      BY <3>2 DEF SeedInv, GroupsAreWhole
    <3> QED
      BY <3>1, <3>3
  <2> QED
    BY <2>1, <2>2
<1>8. PairsAgree'
  <2> SUFFICES ASSUME NEW i \in Ids(txs'), NEW j \in Ids(txs')
               PROVE  HealthyTogether(txs'[i], txs'[j])
    BY DEF PairsAgree, HealthyTogether
  <2> DEFINE m == i - c
             n == j - c
  <2>1. CASE i \in Ids(txs) /\ j \in Ids(txs)
    BY <1>1, <2>1 DEF SeedInv, PairsAgree
  <2>2. ASSUME i \in Ids(txs), n \in Ids(rows), j = c + n
        PROVE  txs'[i].id # txs'[j].id
    BY <1>1, <1>3, <1>4, <2>2
  <2>3. ASSUME j \in Ids(txs), m \in Ids(rows), i = c + m
        PROVE  txs'[i].id # txs'[j].id
    BY <1>1, <1>3, <1>4, <2>3
  <2>4. ASSUME m \in Ids(rows), i = c + m, n \in Ids(rows), j = c + n
        PROVE  HealthyTogether(txs'[i], txs'[j])
    <3>1. txs'[i] = rows[m] /\ txs'[j] = rows[n]
      BY <1>1, <2>4
    <3>2. HealthyTogether(rows[m], rows[n])
      BY <2>4 DEF Emission, Ids
    <3> QED
      BY <3>1, <3>2
  <2>5. txs'[i].id # txs'[j].id => HealthyTogether(txs'[i], txs'[j])
    BY DEF HealthyTogether
  <2> QED
    BY <1>1, <2>1, <2>2, <2>3, <2>4, <2>5
<1> QED
  BY <1>5, <1>6, <1>7, <1>8 DEF SeedInv
-----------------------------------------------------------------------------
(* What the families' turns give. *)

(* The clamps keep a time in the window.                                     *)
LEMMA ClampsStayIn ==
  ASSUME NEW at \in Int
  PROVE  /\ at >= WindowStart => AtMostEnd(at) \in WindowStart..WindowEnd
         /\ at <= WindowEnd => AtLeastStart(at) \in WindowStart..WindowEnd
<1>1. AtMostEnd(at) \in {at, WindowEnd} /\ AtMostEnd(at) <= WindowEnd
  <2>1. \E x \in {at, WindowEnd} : \A y \in {at, WindowEnd} : x <= y
    BY SeedWindowAssumption
  <2> QED
    BY <2>1 DEF AtMostEnd, Min
<1>2. AtLeastStart(at) \in {at, WindowStart} /\ AtLeastStart(at) >= WindowStart
  <2>1. \E x \in {at, WindowStart} : \A y \in {at, WindowStart} : x >= y
    BY SeedWindowAssumption
  <2> QED
    BY <2>1 DEF AtLeastStart, Max
<1> QED
  BY <1>1, <1>2, SeedWindowAssumption

(* A row is what its fields are.                                             *)
LEMMA RowFields ==
  ASSUME NEW id \in Range(Families) \X Nat, NEW at \in WindowStart..WindowEnd,
         NEW method \in PaymentMethods, NEW status \in Statuses, NEW source \in Sources
  PROVE  LET row == Row(id, at, method, status, source)
         IN  /\ row \in SeedRows
             /\ row.id = id /\ row.at = at /\ row.method = method
             /\ row.status = status /\ row.source = source
BY SeedWindowAssumption DEF Row, SeedRows

LEMMA OneRow ==
  ASSUME NEW f, NEW row \in SeedRows, row.id = Id(f), FitsFamily(f, row),
         \A src \in Sources : FamilyRows(f, src) = IF row.source = src THEN 1 ELSE 0
  PROVE  Emission(f, <<row>>)
<1> DEFINE rows == <<row>>
<1>1. rows \in Seq(SeedRows) /\ DOMAIN rows = {1} /\ rows[1] = row
  OBVIOUS
<1> HIDE DEF rows
<1>2. ASSUME NEW src \in Sources
      PROVE  Cardinality({i \in DOMAIN rows : rows[i].source = src}) = FamilyRows(f, src)
  <2> DEFINE T == {i \in DOMAIN rows : rows[i].source = src}
  <2>1. T = IF row.source = src THEN {1} ELSE {}
    BY <1>1
  <2> HIDE DEF T
  <2> QED
    BY <2>1, FS_Singleton, FS_EmptySet DEF T
<1>3. HealthyTogether(row, row)
  BY DEF HealthyTogether
<1> QED
  BY <1>1, <1>2, <1>3 DEF Emission, rows

LEMMA TwoRows ==
  ASSUME NEW f, NEW p \in SeedRows, NEW m \in SeedRows, p.id = Id(f), m.id = Id(f),
         p.source = "processor", m.source = "merchant_order_system",
         FitsFamily(f, p), FitsFamily(f, m), HealthyTogether(p, m),
         \A src \in Sources : FamilyRows(f, src) = 1
  PROVE  Emission(f, <<p, m>>)
<1> DEFINE rows == <<p, m>>
<1>1. rows \in Seq(SeedRows) /\ DOMAIN rows = {1, 2} /\ rows[1] = p /\ rows[2] = m
  <2>1. DOMAIN rows = 1..2 /\ 1..2 = {1, 2}
    OBVIOUS
  <2> QED
    BY <2>1
<1> HIDE DEF rows
<1>2. ASSUME NEW src \in Sources
      PROVE  Cardinality({i \in DOMAIN rows : rows[i].source = src}) = FamilyRows(f, src)
  <2> DEFINE T == {i \in DOMAIN rows : rows[i].source = src}
  <2>1. T = IF src = "processor" THEN {1} ELSE {2}
    BY <1>1 DEF Sources
  <2> HIDE DEF T
  <2>2. Cardinality(T) = 1
    BY <2>1, FS_Singleton
  <2> QED
    BY <2>2 DEF T
<1>3. \A i, j \in DOMAIN rows : HealthyTogether(rows[i], rows[j])
  BY <1>1 DEF HealthyTogether
<1> QED
  BY <1>1, <1>2, <1>3 DEF Emission, rows

(* A transaction of several approvals, none of them of a healthy order.      *)
LEMMA ManyRows ==
  ASSUME NEW f, f # "HEALTHY", NEW rows \in Seq(SeedRows), NEW np \in Nat, NEW nm \in Nat,
         Len(rows) = np + nm,
         \A i \in 1..(np + nm) : /\ rows[i].id = Id(f) /\ FitsFamily(f, rows[i])
                                 /\ rows[i].source = IF i <= np THEN "processor" ELSE "merchant_order_system",
         FamilyRows(f, "processor") = np, FamilyRows(f, "merchant_order_system") = nm
  PROVE  Emission(f, rows)
<1>1. DOMAIN rows = 1..(np + nm)
  OBVIOUS
<1>2. ASSUME NEW src \in Sources
      PROVE  Cardinality({i \in DOMAIN rows : rows[i].source = src}) = FamilyRows(f, src)
  <2> DEFINE T == {i \in DOMAIN rows : rows[i].source = src}
  <2>1. CASE src = "processor"
    <3>1. T = 1..np
      BY <1>1, <2>1
    <3>2. Cardinality(1..np) = np
      BY FS_Interval
    <3> HIDE DEF T
    <3> QED
      BY <2>1, <3>1, <3>2 DEF T
  <2>2. CASE src # "processor"
    <3>1. T = (np + 1)..(np + nm)
      BY <1>1, <2>2 DEF Sources
    <3> DEFINE a == np + 1  b == np + nm
    <3>2. a \in Int /\ b \in Int /\ (IF a > b THEN 0 ELSE b - a + 1) = nm
      OBVIOUS
    <3> HIDE DEF a, b
    <3>3. Cardinality(a..b) = nm
      BY <3>2, FS_Interval
    <3>4. src = "merchant_order_system" /\ T = a..b
      BY <2>2, <3>1 DEF Sources, a, b
    <3> HIDE DEF T
    <3> QED
      BY <3>3, <3>4 DEF T
  <2> QED
    BY <2>1, <2>2
<1>3. \A i, j \in DOMAIN rows : HealthyTogether(rows[i], rows[j])
  BY <1>1 DEF HealthyTogether, Id
<1>4. \A i \in DOMAIN rows : rows[i].id = Id(f) /\ FitsFamily(f, rows[i])
  BY <1>1
<1> QED
  BY <1>2, <1>3, <1>4 DEF Emission
(* A number of the window is one of its times, and so is a drawn one.        *)
LEMMA DrawnTimes ==
  ASSUME NEW at \in RandTimes
  PROVE  at \in Int /\ at >= WindowStart /\ at <= WindowEnd /\ at \in WindowStart..WindowEnd
BY SeedWindowAssumption DEF RandTimes

LEMMA NewId ==
  ASSUME SeedInv, NEW f \in Range(Families)
  PROVE  Id(f) \in Range(Families) \X Nat /\ Id(f)[1] = f
BY DEF SeedInv, SeedTypeOK, Id

LEMMA HealthyEmits ==
  ASSUME SeedInv, Healthy
  PROVE  \E f \in Range(Families) : \E rows : Emission(f, rows) /\ Emit(f, rows)
<1>1. PICK at \in RandTimes, lag \in 1..MaxLag, o \in Outcomes : \E m \in HealthyMethods(o) :
        Emit("HEALTHY", <<Processor(Id("HEALTHY"), at, m, o.proc),
                          Merchant(Id("HEALTHY"), AtMostEnd(at + lag), m, o.merch)>>)
  BY DEF Healthy
<1>2. PICK m \in HealthyMethods(o) :
        Emit("HEALTHY", <<Processor(Id("HEALTHY"), at, m, o.proc),
                          Merchant(Id("HEALTHY"), AtMostEnd(at + lag), m, o.merch)>>)
  BY <1>1
<1> DEFINE id == Id("HEALTHY")
           late == AtMostEnd(at + lag)
           proc == Processor(id, at, m, o.proc)
           merch == Merchant(id, late, m, o.merch)
<1>3. "HEALTHY" \in Range(Families) /\ id \in Range(Families) \X Nat
  BY FamilyNames, NewId
<1>4. at \in WindowStart..WindowEnd /\ late \in WindowStart..WindowEnd
  <2>1. at \in Int /\ at >= WindowStart /\ lag \in Int /\ lag >= 1
    BY DrawnTimes
  <2>2. at + lag \in Int /\ at + lag >= WindowStart
    BY <2>1, SeedWindowAssumption
  <2> QED
    BY <2>2, DrawnTimes, ClampsStayIn
<1>5. /\ m \in PaymentMethods
      /\ o.proc \in {"approved", "declined", "pending"} /\ o.merch \in {"approved", "declined", "pending"}
      /\ o.proc = "pending" => m = "credit_card"
      /\ o.merch = "approved" => o.proc \in {"approved", "pending"}
  BY DEF Outcomes, HealthyMethods, PaymentMethods
<1>6. o.proc \in Statuses /\ o.merch \in Statuses
  BY <1>5 DEF Statuses
<1> HIDE DEF id, late
<1>7. /\ proc \in SeedRows /\ proc.id = id /\ proc.at = at /\ proc.method = m
      /\ proc.status = o.proc /\ proc.source = "processor"
  BY <1>3, <1>4, <1>5, <1>6, RowFields DEF Processor, Sources
<1>8. /\ merch \in SeedRows /\ merch.id = id /\ merch.at = late /\ merch.method = m
      /\ merch.status = o.merch /\ merch.source = "merchant_order_system"
  BY <1>3, <1>4, <1>5, <1>6, RowFields DEF Merchant, Sources
<1> HIDE DEF proc, merch
<1>9. FitsFamily("HEALTHY", proc) /\ FitsFamily("HEALTHY", merch) /\ HealthyTogether(proc, merch)
  BY <1>4, <1>5, <1>7, <1>8 DEF FitsFamily, FamilyStatuses, HealthyTogether
<1>10. \A src \in Sources : FamilyRows("HEALTHY", src) = 1
  BY DEF FamilyRows, Sources
<1>11. Emission("HEALTHY", <<proc, merch>>)
  BY <1>7, <1>8, <1>9, <1>10, TwoRows DEF id
<1> QED
  BY <1>2, <1>3, <1>11 DEF proc, merch, id, late

LEMMA OrphanEmits ==
  ASSUME SeedInv, Orphan
  PROVE  \E f \in Range(Families) : \E rows : Emission(f, rows) /\ Emit(f, rows)
<1>1. PICK at \in RandTimes, m \in PaymentMethods :
        Emit("ORPHAN", <<Processor(Id("ORPHAN"), at, m, "approved")>>)
  BY DEF Orphan
<1> DEFINE id == Id("ORPHAN")
           row == Processor(id, at, m, "approved")
<1>2. "ORPHAN" \in Range(Families) /\ id \in Range(Families) \X Nat
  BY FamilyNames, NewId
<1>3. at \in WindowStart..WindowEnd
  BY DrawnTimes
<1> HIDE DEF id
<1>4. /\ row \in SeedRows /\ row.id = id /\ row.at = at
      /\ row.status = "approved" /\ row.source = "processor"
  BY <1>2, <1>3, RowFields DEF Processor, Sources, Statuses
<1> HIDE DEF row
<1>5. FitsFamily("ORPHAN", row)
  BY <1>3, <1>4 DEF FitsFamily, FamilyStatuses
<1>6. \A src \in Sources : FamilyRows("ORPHAN", src) = IF row.source = src THEN 1 ELSE 0
  BY <1>4 DEF FamilyRows, Sources
<1>7. Emission("ORPHAN", <<row>>)
  BY <1>4, <1>5, <1>6, OneRow DEF id
<1> QED
  BY <1>1, <1>2, <1>7 DEF row, id

LEMMA GhostNoProcEmits ==
  ASSUME SeedInv, GhostNoProc
  PROVE  \E f \in Range(Families) : \E rows : Emission(f, rows) /\ Emit(f, rows)
<1>1. PICK at \in RandTimes, m \in PaymentMethods :
        Emit("GHOST-NOPROC", <<Merchant(Id("GHOST-NOPROC"), at, m, "approved")>>)
  BY DEF GhostNoProc
<1> DEFINE id == Id("GHOST-NOPROC")
           row == Merchant(id, at, m, "approved")
<1>2. "GHOST-NOPROC" \in Range(Families) /\ id \in Range(Families) \X Nat
  BY FamilyNames, NewId
<1>3. at \in WindowStart..WindowEnd
  BY DrawnTimes
<1> HIDE DEF id
<1>4. /\ row \in SeedRows /\ row.id = id /\ row.at = at
      /\ row.status = "approved" /\ row.source = "merchant_order_system"
  BY <1>2, <1>3, RowFields DEF Merchant, Sources, Statuses
<1> HIDE DEF row
<1>5. FitsFamily("GHOST-NOPROC", row)
  BY <1>3, <1>4 DEF FitsFamily, FamilyStatuses
<1>6. \A src \in Sources : FamilyRows("GHOST-NOPROC", src) = IF row.source = src THEN 1 ELSE 0
  BY <1>4 DEF FamilyRows, Sources
<1>7. Emission("GHOST-NOPROC", <<row>>)
  BY <1>4, <1>5, <1>6, OneRow DEF id
<1> QED
  BY <1>1, <1>2, <1>7 DEF row, id

LEMMA LimboEmits ==
  ASSUME SeedInv, PendingLimbo
  PROVE  \E f \in Range(Families) : \E rows : Emission(f, rows) /\ Emit(f, rows)
<1> DEFINE id == Id("LIMBO")
           m == IF 2 * made["LIMBO"] < plan["LIMBO"] THEN "pix" ELSE "boleto"
<1>1. PICK at \in RandTimes : Emit("LIMBO", <<Processor(id, at, m, "pending")>>)
  BY DEF PendingLimbo
<1> DEFINE row == Processor(id, at, m, "pending")
<1>2. "LIMBO" \in Range(Families) /\ id \in Range(Families) \X Nat
  BY FamilyNames, NewId
<1>3. at \in WindowStart..WindowEnd
  BY DrawnTimes
<1>4. m \in {"pix", "boleto"} /\ m \in PaymentMethods
  BY DEF PaymentMethods
<1> HIDE DEF id, m
<1>5. /\ row \in SeedRows /\ row.id = id /\ row.at = at /\ row.method = m
      /\ row.status = "pending" /\ row.source = "processor"
  BY <1>2, <1>3, <1>4, RowFields DEF Processor, Sources, Statuses
<1> HIDE DEF row
<1>6. FitsFamily("LIMBO", row)
  BY <1>3, <1>4, <1>5 DEF FitsFamily, FamilyStatuses
<1>7. \A src \in Sources : FamilyRows("LIMBO", src) = IF row.source = src THEN 1 ELSE 0
  BY <1>5 DEF FamilyRows, Sources
<1>8. Emission("LIMBO", <<row>>)
  BY <1>5, <1>6, <1>7, OneRow DEF id
<1> QED
  BY <1>1, <1>2, <1>8 DEF row

LEMMA GhostBadProcEmits ==
  ASSUME SeedInv, GhostBadProc
  PROVE  \E f \in Range(Families) : \E rows : Emission(f, rows) /\ Emit(f, rows)
<1> DEFINE id == Id("GHOST-BADPROC")
           st == IF made["GHOST-BADPROC"] % 2 = 0 THEN "failed" ELSE "declined"
<1>1. PICK at \in RandTimes, m \in PaymentMethods :
        Emit("GHOST-BADPROC", <<Processor(id, AtLeastStart(at - GhostLead), m, st),
                                Merchant(id, at, m, "approved")>>)
  BY DEF GhostBadProc
<1> DEFINE early == AtLeastStart(at - GhostLead)
           proc == Processor(id, early, m, st)
           merch == Merchant(id, at, m, "approved")
<1>2. "GHOST-BADPROC" \in Range(Families) /\ id \in Range(Families) \X Nat
  BY FamilyNames, NewId
<1>3. at \in WindowStart..WindowEnd /\ early \in WindowStart..WindowEnd
  <2>1. at \in Int /\ at <= WindowEnd /\ GhostLead \in Nat
    BY DrawnTimes, SeedLagsAssumption
  <2>2. at - GhostLead \in Int /\ at - GhostLead <= WindowEnd
    BY <2>1, SeedWindowAssumption
  <2> QED
    BY <2>2, DrawnTimes, ClampsStayIn
<1>4. st \in {"failed", "declined"} /\ st \in Statuses
  BY DEF Statuses
<1> HIDE DEF id, early, st
<1>5. /\ proc \in SeedRows /\ proc.id = id /\ proc.at = early
      /\ proc.status = st /\ proc.source = "processor"
  BY <1>2, <1>3, <1>4, RowFields DEF Processor, Sources
<1>6. /\ merch \in SeedRows /\ merch.id = id /\ merch.at = at
      /\ merch.status = "approved" /\ merch.source = "merchant_order_system"
  BY <1>2, <1>3, RowFields DEF Merchant, Sources, Statuses
<1> HIDE DEF proc, merch
<1>7. FitsFamily("GHOST-BADPROC", proc) /\ FitsFamily("GHOST-BADPROC", merch)
  BY <1>3, <1>4, <1>5, <1>6 DEF FitsFamily, FamilyStatuses
<1>8. HealthyTogether(proc, merch)
  <2>1. proc.id[1] = "GHOST-BADPROC"
    BY <1>2, <1>5, NewId DEF id
  <2> QED
    BY <2>1 DEF HealthyTogether
<1>9. \A src \in Sources : FamilyRows("GHOST-BADPROC", src) = 1
  BY DEF FamilyRows, Sources
<1>10. Emission("GHOST-BADPROC", <<proc, merch>>)
  BY <1>5, <1>6, <1>7, <1>8, <1>9, TwoRows DEF id
<1> QED
  BY <1>1, <1>2, <1>10 DEF proc, merch, early

(* What two sequences one after the other are.                               *)
Concatenated(both, a, b) ==
  /\ Len(both) = Len(a) + Len(b)
  /\ \A i \in 1..(Len(a) + Len(b)) : both[i] = IF i <= Len(a) THEN a[i] ELSE b[i - Len(a)]

LEMMA TwoParts ==
  ASSUME NEW R, NEW a \in Seq(R), NEW b \in Seq(R)
  PROVE  Concatenated(a \o b, a, b)
BY DEF Concatenated

LEMMA DupLgEmits ==
  ASSUME SeedInv, DupLg
  PROVE  \E f \in Range(Families) : \E rows : Emission(f, rows) /\ Emit(f, rows)
<1> DEFINE id == Id("DUP-PROC")
<1>1. PICK at \in RandTimes, m \in PaymentMethods :
        Emit("DUP-PROC", [j \in 1..3 |-> Processor(id, AtMostEnd(at + j - 1), m, "approved")]
                           \o <<Merchant(id, AtMostEnd(at + DupLag), m, "approved")>>)
  BY DEF DupLg
<1> DEFINE Proc(j) == Processor(id, AtMostEnd(at + j - 1), m, "approved")
           procs == [j \in 1..3 |-> Proc(j)]
           merch == Merchant(id, AtMostEnd(at + DupLag), m, "approved")
           rows == procs \o <<merch>>
<1>2. "DUP-PROC" \in Range(Families) /\ id \in Range(Families) \X Nat
  BY FamilyNames, NewId
<1>3. at \in Int /\ at >= WindowStart
  BY DrawnTimes
<1> HIDE DEF id
<1>4. ASSUME NEW j \in 1..3
      PROVE  /\ Proc(j) \in SeedRows /\ Proc(j).id = id /\ Proc(j).source = "processor"
             /\ FitsFamily("DUP-PROC", Proc(j))
  <2> DEFINE late == AtMostEnd(at + j - 1)
             row == Processor(id, late, m, "approved")
  <2>1. late \in WindowStart..WindowEnd
    <3>1. at + j - 1 \in Int /\ at + j - 1 >= WindowStart
      BY <1>3, SeedWindowAssumption
    <3> QED
      BY <3>1, ClampsStayIn
  <2> HIDE DEF late
  <2>2. /\ row \in SeedRows /\ row.id = id /\ row.at = late
        /\ row.status = "approved" /\ row.source = "processor"
    BY <1>2, <2>1, RowFields DEF Processor, Sources, Statuses
  <2> HIDE DEF row
  <2>3. FitsFamily("DUP-PROC", row)
    BY <2>1, <2>2 DEF FitsFamily, FamilyStatuses
  <2> QED
    BY <2>2, <2>3 DEF row, late
<1>5. /\ merch \in SeedRows /\ merch.id = id /\ merch.source = "merchant_order_system"
      /\ FitsFamily("DUP-PROC", merch)
  <2> DEFINE late == AtMostEnd(at + DupLag)
  <2>1. late \in WindowStart..WindowEnd
    <3>1. at + DupLag \in Int /\ at + DupLag >= WindowStart
      BY <1>3, SeedWindowAssumption, SeedLagsAssumption
    <3> QED
      BY <3>1, ClampsStayIn
  <2> HIDE DEF late
  <2>2. /\ merch \in SeedRows /\ merch.id = id /\ merch.at = late
        /\ merch.status = "approved" /\ merch.source = "merchant_order_system"
    BY <1>2, <2>1, RowFields DEF Merchant, Sources, Statuses, late
  <2> HIDE DEF merch
  <2> QED
    BY <2>1, <2>2 DEF FitsFamily, FamilyStatuses
<1> HIDE DEF Proc, merch
<1>6. procs \in Seq(SeedRows) /\ Len(procs) = 3 /\ \A j \in 1..3 : procs[j] = Proc(j)
  BY <1>4
<1> HIDE DEF procs
<1>7. /\ rows \in Seq(SeedRows) /\ Len(rows) = 4
      /\ \A i \in 1..3 : rows[i] = Proc(i)
      /\ rows[4] = merch
  <2> DEFINE last == <<merch>>
  <2>1. last \in Seq(SeedRows) /\ Len(last) = 1 /\ last[1] = merch
    BY <1>5
  <2> HIDE DEF last
  <2>2. Concatenated(procs \o last, procs, last)
    BY <1>6, <2>1, TwoParts
  <2>3. /\ Len(procs \o last) = 4 /\ \A i \in 1..3 : (procs \o last)[i] = procs[i]
        /\ (procs \o last)[4] = last[1]
    <3>1. /\ 4 \in 1..4 /\ ~(4 <= 3) /\ 4 - 3 = 1 /\ 3 + 1 = 4
          /\ \A i \in 1..3 : i \in 1..4 /\ i <= 3
      OBVIOUS
    <3> QED
      BY <1>6, <2>1, <2>2, <3>1 DEF Concatenated
  <2>4. procs \o last \in Seq(SeedRows)
    BY <1>6, <2>1
  <2> QED
    BY <1>6, <2>1, <2>3, <2>4 DEF last
<1> HIDE DEF rows
<1>8. \A i \in 1..4 : /\ rows[i].id = id /\ FitsFamily("DUP-PROC", rows[i])
                      /\ rows[i].source = IF i <= 3 THEN "processor" ELSE "merchant_order_system"
  <2>1. \A i \in 1..4 : (i \in 1..3 /\ i <= 3) \/ (i = 4 /\ ~(i <= 3))
    OBVIOUS
  <2> QED
    BY <1>4, <1>5, <1>7, <2>1
<1>9. FamilyRows("DUP-PROC", "processor") = 3 /\ FamilyRows("DUP-PROC", "merchant_order_system") = 1
  BY DEF FamilyRows
<1>10. Emission("DUP-PROC", rows)
  <2>1. 3 + 1 = 4 /\ 3 \in Nat /\ 1 \in Nat
    OBVIOUS
  <2> QED
    BY <1>7, <1>8, <1>9, <2>1, ManyRows DEF id
<1> QED
  BY <1>1, <1>2, <1>10 DEF rows, procs, Proc, merch

LEMMA DupSmEmits ==
  ASSUME SeedInv, DupSm
  PROVE  \E f \in Range(Families) : \E rows : Emission(f, rows) /\ Emit(f, rows)
<1> DEFINE id == Id("DUP-MERCH")
<1>1. PICK at \in RandTimes, m \in PaymentMethods :
        Emit("DUP-MERCH", <<Processor(id, at, m, "approved")>>
                            \o [j \in 1..2 |-> Merchant(id, AtMostEnd(at + j), m, "approved")])
  BY DEF DupSm
<1> DEFINE Merch(j) == Merchant(id, AtMostEnd(at + j), m, "approved")
           merchs == [j \in 1..2 |-> Merch(j)]
           proc == Processor(id, at, m, "approved")
           rows == <<proc>> \o merchs
<1>2. "DUP-MERCH" \in Range(Families) /\ id \in Range(Families) \X Nat
  BY FamilyNames, NewId
<1>3. at \in Int /\ at >= WindowStart /\ at \in WindowStart..WindowEnd
  BY DrawnTimes
<1> HIDE DEF id
<1>4. ASSUME NEW j \in 1..2
      PROVE  /\ Merch(j) \in SeedRows /\ Merch(j).id = id /\ Merch(j).source = "merchant_order_system"
             /\ FitsFamily("DUP-MERCH", Merch(j))
  <2> DEFINE late == AtMostEnd(at + j)
             row == Merchant(id, late, m, "approved")
  <2>1. late \in WindowStart..WindowEnd
    <3>1. at + j \in Int /\ at + j >= WindowStart
      BY <1>3, SeedWindowAssumption
    <3> QED
      BY <3>1, ClampsStayIn
  <2> HIDE DEF late
  <2>2. /\ row \in SeedRows /\ row.id = id /\ row.at = late
        /\ row.status = "approved" /\ row.source = "merchant_order_system"
    BY <1>2, <2>1, RowFields DEF Merchant, Sources, Statuses
  <2> HIDE DEF row
  <2>3. FitsFamily("DUP-MERCH", row)
    BY <2>1, <2>2 DEF FitsFamily, FamilyStatuses
  <2> QED
    BY <2>2, <2>3 DEF row, late
<1>5. /\ proc \in SeedRows /\ proc.id = id /\ proc.source = "processor"
      /\ FitsFamily("DUP-MERCH", proc)
  <2>1. /\ proc \in SeedRows /\ proc.id = id /\ proc.at = at
        /\ proc.status = "approved" /\ proc.source = "processor"
    BY <1>2, <1>3, RowFields DEF Processor, Sources, Statuses
  <2> HIDE DEF proc
  <2> QED
    BY <1>3, <2>1 DEF FitsFamily, FamilyStatuses
<1> HIDE DEF Merch, proc
<1>6. merchs \in Seq(SeedRows) /\ Len(merchs) = 2 /\ \A j \in 1..2 : merchs[j] = Merch(j)
  BY <1>4
<1> HIDE DEF merchs
<1>7. /\ rows \in Seq(SeedRows) /\ Len(rows) = 3
      /\ rows[1] = proc /\ rows[2] = Merch(1) /\ rows[3] = Merch(2)
  <2> DEFINE first == <<proc>>
  <2>1. first \in Seq(SeedRows) /\ Len(first) = 1 /\ first[1] = proc
    BY <1>5
  <2> HIDE DEF first
  <2>2. Concatenated(first \o merchs, first, merchs)
    BY <1>6, <2>1, TwoParts
  <2>3. /\ Len(first \o merchs) = 3 /\ (first \o merchs)[1] = first[1]
        /\ (first \o merchs)[2] = merchs[1] /\ (first \o merchs)[3] = merchs[2]
    <3>1. /\ 2 \in 1..3 /\ ~(2 <= 1) /\ 2 - 1 = 1 /\ 3 \in 1..3 /\ ~(3 <= 1) /\ 3 - 1 = 2
          /\ 1 \in 1..3 /\ 1 <= 1 /\ 1 + 2 = 3
      OBVIOUS
    <3> QED
      BY <1>6, <2>1, <2>2, <3>1 DEF Concatenated
  <2>4. first \o merchs \in Seq(SeedRows)
    BY <1>6, <2>1
  <2> QED
    BY <1>6, <2>1, <2>3, <2>4 DEF first
<1> HIDE DEF rows
<1>8. \A i \in 1..3 : /\ rows[i].id = id /\ FitsFamily("DUP-MERCH", rows[i])
                      /\ rows[i].source = IF i <= 1 THEN "processor" ELSE "merchant_order_system"
  <2>1. \A i \in 1..3 : (i = 1 /\ i <= 1) \/ (i = 2 /\ ~(i <= 1)) \/ (i = 3 /\ ~(i <= 1))
    OBVIOUS
  <2>2. 1 \in 1..2 /\ 2 \in 1..2
    OBVIOUS
  <2> QED
    BY <1>4, <1>5, <1>7, <2>1, <2>2
<1>9. FamilyRows("DUP-MERCH", "processor") = 1 /\ FamilyRows("DUP-MERCH", "merchant_order_system") = 2
  BY DEF FamilyRows
<1>10. Emission("DUP-MERCH", rows)
  <2>1. 1 + 2 = 3 /\ 1 \in Nat /\ 2 \in Nat
    OBVIOUS
  <2> QED
    BY <1>7, <1>8, <1>9, <2>1, ManyRows DEF id
<1> QED
  BY <1>1, <1>2, <1>10 DEF rows, merchs, Merch, proc
-----------------------------------------------------------------------------
(* A transposition of two rows leaves every group its rows.                  *)
LEMMA ShuffleKeepsInv ==
  ASSUME SeedInv, Shuffle
  PROVE  SeedInv'
<1> DEFINE ids == Ids(txs)
<1>1. PICK i \in ids, j \in ids : i < j /\ txs' = [txs EXCEPT ![i] = txs[j], ![j] = txs[i]]
  BY DEF Shuffle, Ids
<1> DEFINE from == [x \in ids |-> IF x = i THEN j ELSE IF x = j THEN i ELSE x]
<1>2. made' = made /\ made \in [Range(Families) -> Nat] /\ txs \in Seq(SeedRows)
  BY DEF Shuffle, SeedInv, SeedTypeOK
<1>3. /\ Ids(txs') = ids /\ ids = 1..Len(txs) /\ Len(txs) \in Nat
      /\ \A x \in ids : from[x] \in ids /\ txs'[x] = txs[from[x]]
  BY <1>1, <1>2 DEF Ids
<1>4. IsFiniteSet(ids) /\ from \in Bijection(ids, ids)
  <2>1. from \in [ids -> ids] /\ (\A x, y \in ids : from[x] = from[y] => x = y)
    OBVIOUS
  <2>2. \A y \in ids : \E x \in ids : from[x] = y
    <3> TAKE y \in ids
    <3>1. from[from[y]] = y
      OBVIOUS
    <3> QED
      BY <1>3, <3>1
  <2>3. IsFiniteSet(ids)
    BY <1>3, FS_Interval
  <2> QED
    BY <2>1, <2>2, <2>3 DEF Bijection, Injection, Surjection, IsInjective
<1>5. SeedTypeOK'
  <2>1. txs' \in Seq(SeedRows)
    BY <1>1, <1>2 DEF Ids
  <2> QED
    BY <1>2, <2>1 DEF SeedTypeOK
<1> HIDE DEF ids, from
<1>6. RowsFit'
  <2>1. \A x \in ids : txs[x].id[2] < made[txs[x].id[1]] /\ FitsFamily(txs[x].id[1], txs[x])
    BY DEF SeedInv, RowsFit, ids
  <2>2. \A x \in ids : txs'[x].id[2] < made'[txs'[x].id[1]] /\ FitsFamily(txs'[x].id[1], txs'[x])
    BY <1>2, <1>3, <2>1
  <2> QED
    BY <1>3, <2>2 DEF RowsFit, FitsFamily
<1>7. GroupsAreWhole'
  <2> SUFFICES ASSUME NEW f \in Range(Families), NEW n \in Nat, NEW src \in Sources, n < made[f]
               PROVE  Cardinality(GroupRows(txs', <<<<f, n>>, src>>)) = FamilyRows(f, src)
    BY <1>2 DEF GroupsAreWhole
  <2> DEFINE k == <<<<f, n>>, src>>
             some == GroupRows(txs, k)
             same == GroupRows(txs', k)
  <2>1. Cardinality(some) = FamilyRows(f, src)
    BY DEF SeedInv, GroupsAreWhole
  <2> HIDE DEF k
  <2>2. some \subseteq ids /\ same = {x \in ids : from[x] \in some}
    BY <1>3 DEF GroupRows, KeyOf, ids
  <2> HIDE DEF some, same
  <2>3. Cardinality(same) = Cardinality(some)
    BY <1>4, <2>2, SameSize
  <2> QED
    BY <2>1, <2>3 DEF same, k
<1>8. PairsAgree'
  <2>1. \A x, y \in ids : HealthyTogether(txs[x], txs[y])
    BY DEF SeedInv, PairsAgree, ids
  <2>2. \A x, y \in ids : HealthyTogether(txs'[x], txs'[y])
    BY <1>3, <2>1
  <2> QED
    BY <1>3, <2>2 DEF PairsAgree, HealthyTogether
<1> QED
  BY <1>5, <1>6, <1>7, <1>8 DEF SeedInv

LEMMA SeedInitInv == SeedInit => SeedInv
<1> SUFFICES ASSUME SeedInit PROVE SeedInv
  OBVIOUS
<1>1. txs = <<>> /\ made = [f \in Range(Families) |-> 0]
  BY DEF SeedInit
<1>2. txs \in Seq(SeedRows) /\ Ids(txs) = {} /\ \A f \in Range(Families) : made[f] = 0
  BY <1>1 DEF Ids
<1> QED
  BY <1>1, <1>2 DEF SeedInv, SeedTypeOK, RowsFit, GroupsAreWhole, PairsAgree

LEMMA SeedStepKeepsInv == SeedInv /\ [SeedNext]_seedVars => SeedInv'
<1> SUFFICES ASSUME SeedInv, [SeedNext]_seedVars PROVE SeedInv'
  OBVIOUS
<1>1. ASSUME \E f \in Range(Families) : \E rows : Emission(f, rows) /\ Emit(f, rows)
      PROVE  SeedInv'
  BY <1>1, EmissionKeepsInv
<1>2. CASE Healthy
  BY <1>1, <1>2, HealthyEmits
<1>3. CASE Orphan
  BY <1>1, <1>3, OrphanEmits
<1>4. CASE GhostNoProc
  BY <1>1, <1>4, GhostNoProcEmits
<1>5. CASE GhostBadProc
  BY <1>1, <1>5, GhostBadProcEmits
<1>6. CASE DupLg
  BY <1>1, <1>6, DupLgEmits
<1>7. CASE DupSm
  BY <1>1, <1>7, DupSmEmits
<1>8. CASE PendingLimbo
  BY <1>1, <1>8, LimboEmits
<1>9. CASE Shuffle
  BY <1>9, ShuffleKeepsInv
<1>10. CASE UNCHANGED seedVars
  <2>1. made' = made /\ txs' = txs
    BY <1>10 DEF seedVars
  <2>2. SeedTypeOK' /\ PairsAgree'
    BY <2>1 DEF SeedInv, SeedTypeOK, PairsAgree
  <2>3. RowsFit' /\ GroupsAreWhole'
    BY <2>1 DEF SeedInv, RowsFit, GroupsAreWhole
  <2> QED
    BY <2>2, <2>3 DEF SeedInv
<1> QED
  BY <1>2, <1>3, <1>4, <1>5, <1>6, <1>7, <1>8, <1>9, <1>10 DEF SeedNext

(* Whatever was drawn and however the rows were shuffled, each of them fits  *)
(* its family and each transaction has all its rows (generate).              *)
THEOREM SeedInvariant == SeedSpec => []SeedInv
<1>1. SeedInit => SeedInv
  BY SeedInitInv
<1>2. SeedInv /\ [SeedNext]_seedVars => SeedInv'
  BY SeedStepKeepsInv
<1> QED
  BY <1>1, <1>2, PTL DEF SeedSpec
-----------------------------------------------------------------------------
(* What the queries find in the generated rows. *)

(* The rows of the seed, one by one.                                         *)
LEMMA SeedRow ==
  ASSUME SeedInv, NEW i \in Ids(txs)
  PROVE  /\ i \in Nat /\ i <= Len(txs)
         /\ txs[i].id[1] \in Range(Families) /\ txs[i].id[2] \in Nat
         /\ txs[i].id = <<txs[i].id[1], txs[i].id[2]>>
         /\ txs[i].id[2] < made[txs[i].id[1]]
         /\ txs[i].source \in Sources /\ txs[i].method \in PaymentMethods
         /\ FitsFamily(txs[i].id[1], txs[i])
         /\ txs[i].at \in Int /\ WindowStart <= txs[i].at /\ txs[i].at <= WindowEnd
         /\ InWindow(SeedWindow, txs[i].at)
<1>1. txs[i] \in SeedRows /\ i \in Nat /\ i <= Len(txs)
  BY DEF SeedInv, SeedTypeOK, Ids
<1>2. /\ txs[i].id \in Range(Families) \X Nat /\ txs[i].source \in Sources
      /\ txs[i].method \in PaymentMethods /\ txs[i].at \in Int
  BY <1>1 DEF SeedRows
<1>3. txs[i].id[2] < made[txs[i].id[1]] /\ FitsFamily(txs[i].id[1], txs[i])
  BY DEF SeedInv, RowsFit
<1>4. WindowStart <= txs[i].at /\ txs[i].at <= WindowEnd
  BY <1>3, SeedWindowAssumption DEF FitsFamily
<1>5. InWindow(SeedWindow, txs[i].at)
  BY <1>4 DEF InWindow, SeedWindow
<1> QED
  BY <1>1, <1>2, <1>3, <1>4, <1>5

LEMMA SeedIsFinite ==
  ASSUME SeedInv
  PROVE  IsFiniteSet(Ids(txs)) /\ Ids(txs) = 1..Len(txs) /\ Len(txs) \in Nat
<1>1. Ids(txs) = 1..Len(txs) /\ Len(txs) \in Nat
  BY DEF SeedInv, SeedTypeOK, Ids
<1> QED
  BY <1>1, FS_Interval

(* A generated transaction has rows from a source if its family says so.     *)
LEMMA SeedGroup ==
  ASSUME SeedInv, NEW f \in Range(Families), NEW n \in Nat, n < made[f], NEW src \in Sources
  PROVE  (\E i \in OfSource(txs, src) : txs[i].id = <<f, n>>) <=> FamilyRows(f, src) # 0
<1> DEFINE rows == GroupRows(txs, <<<<f, n>>, src>>)
<1>1. Cardinality(rows) = FamilyRows(f, src)
  BY DEF SeedInv, GroupsAreWhole
<1>2. IsFiniteSet(rows)
  BY SeedIsFinite, GroupFinite
<1>3. rows = {i \in OfSource(txs, src) : txs[i].id = <<f, n>>}
  BY DEF GroupRows, KeyOf, OfSource
<1> HIDE DEF rows
<1>4. rows # {} <=> Cardinality(rows) # 0
  BY <1>2, FS_EmptySet
<1> QED
  BY <1>1, <1>3, <1>4

(* The processor has a latest word on every transaction it knows.            *)
LEMMA SeedLatest ==
  ASSUME SeedInv, NEW p \in OfSource(txs, "processor")
  PROVE  \E i \in Ids(txs) : txs[i].id = txs[p].id /\ ProcLatest(txs, i)
<1> DEFINE S == {i \in OfSource(txs, "processor") : txs[i].id = txs[p].id}
           D == {WindowEnd - txs[i].at : i \in S}
<1>1. S \subseteq Ids(txs) /\ p \in S /\ \A i \in S : txs[i].source = "processor" /\ txs[i].id = txs[p].id
  BY DEF OfSource
<1>2. \A i \in S : /\ i \in Nat /\ i <= Len(txs) /\ Len(txs) - i \in Nat
                   /\ txs[i].at \in Int /\ WindowEnd - txs[i].at \in Nat
  BY <1>1, SeedRow, SeedIsFinite, SeedWindowAssumption
<1>3. \E i \in S : \A j \in S : txs[j].at <= txs[i].at
  <2>1. D \subseteq Nat /\ D # {}
    BY <1>1, <1>2
  <2> HIDE DEF D
  <2>2. PICK d \in D : \A e \in D : d <= e
    BY <2>1, LeastNumber
  <2> USE DEF D
  <2>3. PICK i \in S : d = WindowEnd - txs[i].at
    OBVIOUS
  <2>4. ASSUME NEW j \in S PROVE txs[j].at <= txs[i].at
    <3>1. d <= WindowEnd - txs[j].at
      BY <2>2
    <3> DEFINE a == txs[i].at
               b == txs[j].at
    <3>2. a \in Int /\ b \in Int /\ d = WindowEnd - a /\ d <= WindowEnd - b
      BY <1>2, <2>3, <3>1
    <3> HIDE DEF a, b
    <3>3. b <= a
      BY <3>2, SeedWindowAssumption
    <3> QED
      BY <3>3 DEF a, b
  <2> QED
    BY <2>4
<1>4. PICK i0 \in S : \A j \in S : txs[j].at <= txs[i0].at
  BY <1>3
<1> DEFINE T == {i \in S : txs[i].at = txs[i0].at}
           E == {Len(txs) - i : i \in T}
<1>5. E \subseteq Nat /\ E # {}
  <2>1. i0 \in T /\ T \subseteq S
    OBVIOUS
  <2> HIDE DEF S, T
  <2> QED
    BY <1>2, <2>1
<1>6. PICK d \in E : \A e \in E : d <= e
  <2> HIDE DEF E
  <2> QED
    BY <1>5, LeastNumber
<1>7. PICK i \in T : d = Len(txs) - i
  OBVIOUS
<1>8. \A j \in T : j <= i
  <2> TAKE j \in T
  <2>1. d <= Len(txs) - j
    BY <1>6
  <2>2. i \in S /\ j \in S
    OBVIOUS
  <2> HIDE DEF S, T, E
  <2> QED
    BY <1>2, <1>7, <2>1, <2>2, SeedIsFinite
<1>9. ASSUME NEW j \in S
      PROVE  txs[j].at < txs[i].at \/ (txs[j].at = txs[i].at /\ j <= i)
  <2>1. txs[j].at <= txs[i].at /\ txs[i].at = txs[i0].at
    BY <1>4
  <2>2. i \in S /\ (txs[j].at = txs[i].at => j <= i)
    BY <1>8, <2>1
  <2> DEFINE a == txs[i].at
             b == txs[j].at
  <2>3. a \in Int /\ b \in Int /\ b <= a /\ (b = a => j <= i)
    BY <1>2, <2>1, <2>2
  <2> HIDE DEF a, b
  <2>4. b < a \/ (b = a /\ j <= i)
    BY <2>3
  <2> QED
    BY <2>4 DEF a, b
<1>10. i \in Ids(txs) /\ txs[i].source = "processor" /\ txs[i].id = txs[p].id
  BY <1>1
<1> QED
  BY <1>9, <1>10 DEF ProcLatest
\* The transactions of a family that were generated.
Made(f) == {<<f, n>> : n \in 0..(made[f] - 1)}

LEMMA MadeOnes ==
  ASSUME SeedInv, NEW f \in Range(Families)
  PROVE  /\ made[f] \in Nat
         /\ \A n \in Nat : n < made[f] <=> n \in 0..(made[f] - 1)
         /\ \A x \in Made(f) : \E n \in Nat : n < made[f] /\ x = <<f, n>>
         /\ \A n \in Nat : n < made[f] => <<f, n>> \in Made(f)
<1>1. made[f] \in Nat
  BY DEF SeedInv, SeedTypeOK
<1>2. \A n \in Nat : n < made[f] <=> n \in 0..(made[f] - 1)
  BY <1>1
<1> QED
  BY <1>1, <1>2 DEF Made

(* The transaction of a row is one that was generated.                       *)
LEMMA SeedRowIsMade ==
  ASSUME SeedInv, NEW i \in Ids(txs)
  PROVE  txs[i].id \in Made(txs[i].id[1])
<1> DEFINE f == txs[i].id[1]
           n == txs[i].id[2]
<1>1. f \in Range(Families) /\ n \in Nat /\ n < made[f] /\ txs[i].id = <<f, n>>
  BY SeedRow
<1> HIDE DEF f, n
<1>2. <<f, n>> \in Made(f)
  BY <1>1, MadeOnes
<1> QED
  BY <1>1, <1>2 DEF f

(* Which families have merchant rows, and which have rows of the processor.  *)
LEMMA WhoKnows ==
  ASSUME SeedInv, NEW f \in Range(Families), NEW x \in Made(f)
  PROVE  /\ (\E i \in OfSource(txs, "merchant_order_system") : txs[i].id = x) <=> f \notin {"ORPHAN", "LIMBO"}
         /\ (\E i \in OfSource(txs, "processor") : txs[i].id = x) <=> f # "GHOST-NOPROC"
<1>1. PICK n \in Nat : n < made[f] /\ x = <<f, n>>
  BY MadeOnes
<1>2. /\ FamilyRows(f, "merchant_order_system") # 0 <=> f \notin {"ORPHAN", "LIMBO"}
      /\ FamilyRows(f, "processor") # 0 <=> f # "GHOST-NOPROC"
  BY DEF FamilyRows
<1>3. "processor" \in Sources /\ "merchant_order_system" \in Sources
  BY DEF Sources
<1> QED
  BY <1>1, <1>2, <1>3, SeedGroup

LEMMA OrphansFound ==
  ASSUME SeedInv
  PROVE  Orphaned(txs, SeedWindow) = Made("ORPHAN")
<1> DEFINE f(i) == txs[i].id[1]
<1>0. "ORPHAN" \in Range(Families)
  BY FamilyNames
<1>1. ASSUME NEW x \in Orphaned(txs, SeedWindow)
      PROVE  x \in Made("ORPHAN")
  <2>1. PICK i \in OfSource(txs, "processor") :
          /\ txs[i].status = "approved" /\ x = txs[i].id
          /\ ~\E j \in OfSource(txs, "merchant_order_system") : txs[j].id = x
    BY <1>1 DEF Orphaned, OrphanRows, TxOf
  <2>2. i \in Ids(txs)
    BY DEF OfSource
  <2>3. f(i) \in Range(Families) /\ x \in Made(f(i)) /\ FitsFamily(f(i), txs[i])
    BY <2>1, <2>2, SeedRow, SeedRowIsMade
  <2>4. f(i) \in {"ORPHAN", "LIMBO"}
    BY <2>1, <2>3, WhoKnows
  <2>5. f(i) # "LIMBO"
    BY <2>1, <2>3 DEF FitsFamily, FamilyStatuses
  <2>6. f(i) = "ORPHAN"
    BY <2>4, <2>5
  <2> QED
    BY <2>3, <2>6
<1>2. ASSUME NEW x \in Made("ORPHAN")
      PROVE  x \in Orphaned(txs, SeedWindow)
  <2>1. PICK n \in Nat : x = <<"ORPHAN", n>>
    BY <1>0, <1>2, MadeOnes
  <2>2. PICK i \in OfSource(txs, "processor") : txs[i].id = x
    BY <1>0, <1>2, WhoKnows
  <2>3. ~\E j \in OfSource(txs, "merchant_order_system") : txs[j].id = x
    BY <1>0, <1>2, WhoKnows
  <2>4. i \in Ids(txs) /\ txs[i].id[1] = "ORPHAN"
    BY <2>1, <2>2 DEF OfSource
  <2>5. txs[i].status = "approved" /\ InWindow(SeedWindow, txs[i].at)
    BY <2>4, SeedRow DEF FitsFamily, FamilyStatuses
  <2>6. i \in OrphanRows(txs, SeedWindow)
    BY <2>2, <2>3, <2>5 DEF OrphanRows, TxOf
  <2> QED
    BY <2>2, <2>6 DEF Orphaned, TxOf
<1> QED
  BY <1>1, <1>2

LEMMA GhostsFound ==
  ASSUME SeedInv
  PROVE  Ghosts(txs, SeedWindow) = Made("GHOST-NOPROC") \cup Made("GHOST-BADPROC")
<1>0. "GHOST-NOPROC" \in Range(Families) /\ "GHOST-BADPROC" \in Range(Families)
  BY FamilyNames
<1>1. ASSUME NEW x \in Ghosts(txs, SeedWindow)
      PROVE  x \in Made("GHOST-NOPROC") \cup Made("GHOST-BADPROC")
  <2>1. PICK i \in OfSource(txs, "merchant_order_system") :
          txs[i].status = "approved" /\ ProcDenies(txs, txs[i].id) /\ x = txs[i].id
    BY <1>1 DEF Ghosts, GhostRows, TxOf
  <2> DEFINE f == txs[i].id[1]
  <2>2. i \in Ids(txs) /\ txs[i].source = "merchant_order_system"
    BY DEF OfSource
  <2>3. f \in Range(Families) /\ x \in Made(f)
    BY <2>1, <2>2, SeedRow, SeedRowIsMade
  <2>4. f \notin {"ORPHAN", "LIMBO"}
    BY <2>1, <2>3, WhoKnows
  <2> SUFFICES ASSUME f # "GHOST-NOPROC", f # "GHOST-BADPROC" PROVE FALSE
    BY <2>3
  <2>5. PICK p \in OfSource(txs, "processor") : txs[p].id = x
    BY <2>3, WhoKnows
  <2>6. PICK k \in Ids(txs) : txs[k].id = x /\ ProcLatest(txs, k)
    BY <2>5, SeedLatest
  <2>7. txs[k].status \in {"declined", "failed"} /\ txs[k].source = "processor" /\ txs[k].id[1] = f
    BY <2>1, <2>6 DEF ProcDenies, ProcLatest
  <2>8. txs[k].status \in FamilyStatuses(f, "processor")
    BY <2>6, <2>7, SeedRow DEF FitsFamily
  <2>9. f = "HEALTHY"
    BY <2>4, <2>7, <2>8 DEF FamilyStatuses
  <2>10. txs[k].status \in {"approved", "pending"}
    BY <2>1, <2>2, <2>6, <2>7, <2>9 DEF SeedInv, PairsAgree, HealthyTogether
  <2> QED
    BY <2>7, <2>10
<1>2. ASSUME NEW f \in {"GHOST-NOPROC", "GHOST-BADPROC"}, NEW x \in Made(f)
      PROVE  x \in Ghosts(txs, SeedWindow)
  <2>0. f \in Range(Families)
    BY <1>0
  <2>1. PICK n \in Nat : x = <<f, n>>
    BY <2>0, MadeOnes
  <2>2. PICK i \in OfSource(txs, "merchant_order_system") : txs[i].id = x
    BY <2>0, WhoKnows
  <2>3. i \in Ids(txs) /\ txs[i].source = "merchant_order_system" /\ txs[i].id[1] = f
    BY <2>1, <2>2 DEF OfSource
  <2>4. txs[i].status = "approved" /\ InWindow(SeedWindow, txs[i].at)
    BY <2>3, SeedRow DEF FitsFamily, FamilyStatuses
  <2>5. ProcDenies(txs, x)
    <3> SUFFICES ASSUME NEW k \in Ids(txs), txs[k].id = x, ProcLatest(txs, k)
                 PROVE  txs[k].status \in {"declined", "failed"}
      BY DEF ProcDenies
    <3>1. k \in OfSource(txs, "processor") /\ txs[k].source = "processor" /\ txs[k].id[1] = f
      BY <2>1 DEF ProcLatest, OfSource
    <3>2. f = "GHOST-BADPROC"
      BY <2>0, <3>1, WhoKnows
    <3>3. txs[k].status \in FamilyStatuses(f, "processor")
      BY <3>1, SeedRow DEF FitsFamily
    <3> QED
      BY <3>2, <3>3 DEF FamilyStatuses
  <2>6. i \in GhostRows(txs, SeedWindow)
    BY <2>2, <2>4, <2>5 DEF GhostRows
  <2> QED
    BY <2>2, <2>6 DEF Ghosts, TxOf
<1> QED
  BY <1>1, <1>2

KeysOfSource(src, S) == {<<tx, src>> : tx \in S}

\* The keys of the duplicate groups the seed is to have.
MadeGroups ==
  KeysOfSource("processor", Made("DUP-PROC")) \cup KeysOfSource("merchant_order_system", Made("DUP-MERCH"))

LEMMA GroupsFound ==
  ASSUME SeedInv
  PROVE  /\ DuplicateKeys(txs, SeedWindow) = MadeGroups
         /\ \A tx \in Made("DUP-PROC") : Cardinality(GroupRows(txs, <<tx, "processor">>)) = 3
         /\ \A tx \in Made("DUP-MERCH") : Cardinality(GroupRows(txs, <<tx, "merchant_order_system">>)) = 2
<1>0. /\ "DUP-PROC" \in Range(Families) /\ "DUP-MERCH" \in Range(Families)
      /\ "processor" \in Sources /\ "merchant_order_system" \in Sources
  BY FamilyNames DEF Sources
<1>1. ASSUME NEW f \in Range(Families), NEW tx \in Made(f), NEW src \in Sources
      PROVE  Cardinality(GroupRows(txs, <<tx, src>>)) = FamilyRows(f, src)
  <2>1. PICK n \in Nat : n < made[f] /\ tx = <<f, n>>
    BY MadeOnes
  <2> QED
    BY <2>1 DEF SeedInv, GroupsAreWhole
<1>2. \A tx \in Made("DUP-PROC") : Cardinality(GroupRows(txs, <<tx, "processor">>)) = 3
  BY <1>0, <1>1 DEF FamilyRows
<1>3. \A tx \in Made("DUP-MERCH") : Cardinality(GroupRows(txs, <<tx, "merchant_order_system">>)) = 2
  BY <1>0, <1>1 DEF FamilyRows
<1>4. ASSUME NEW k \in DuplicateKeys(txs, SeedWindow)
      PROVE  k \in MadeGroups
  <2>1. PICK i \in Ids(txs) : k = <<txs[i].id, txs[i].source>> /\ Cardinality(GroupRows(txs, k)) > 1
    BY DEF DuplicateKeys, KeyOf
  <2> DEFINE f == txs[i].id[1]
             tx == txs[i].id
             src == txs[i].source
  <2>2. f \in Range(Families) /\ tx \in Made(f) /\ src \in Sources
    BY SeedRow, SeedRowIsMade
  <2> HIDE DEF f, tx, src
  <2>3. FamilyRows(f, src) > 1
    BY <1>1, <2>1, <2>2 DEF tx, src
  <2>4. \/ f = "DUP-PROC" /\ src = "processor"
        \/ f = "DUP-MERCH" /\ src = "merchant_order_system"
    BY <2>2, <2>3 DEF FamilyRows, Sources
  <2>5. k = <<tx, src>>
    BY <2>1 DEF tx, src
  <2> QED
    BY <2>2, <2>4, <2>5 DEF MadeGroups, KeysOfSource
<1>5. ASSUME NEW k \in MadeGroups
      PROVE  k \in DuplicateKeys(txs, SeedWindow)
  <2>1. PICK f, tx, src : /\ f \in Range(Families) /\ src \in Sources /\ tx \in Made(f)
                          /\ k = <<tx, src>> /\ FamilyRows(f, src) > 1
    BY <1>0 DEF MadeGroups, KeysOfSource, FamilyRows
  <2>2. Cardinality(GroupRows(txs, k)) > 1
    BY <1>1, <2>1
  <2>3. PICK n \in Nat : n < made[f] /\ tx = <<f, n>>
    BY <2>1, MadeOnes
  <2>4. PICK i \in OfSource(txs, src) : txs[i].id = tx
    <3>1. FamilyRows(f, src) # 0
      BY <2>1
    <3> QED
      BY <2>1, <2>3, <3>1, SeedGroup
  <2>5. i \in Ids(txs) /\ KeyOf(txs, i) = k
    BY <2>1, <2>4 DEF OfSource, KeyOf
  <2>6. InWindow(SeedWindow, txs[i].at)
    BY <2>5, SeedRow
  <2> QED
    BY <2>2, <2>5, <2>6 DEF DuplicateKeys
<1> QED
  BY <1>2, <1>3, <1>4, <1>5

LEMMA LimboFound ==
  ASSUME SeedInv
  PROVE  /\ TxOf(txs, LimboRows(txs, SeedWindow, BaseNow)) = Made("LIMBO")
         /\ \A i, j \in LimboRows(txs, SeedWindow, BaseNow) : txs[i].id = txs[j].id => i = j
<1> DEFINE limbo == LimboRows(txs, SeedWindow, BaseNow)
<1>0. "LIMBO" \in Range(Families) /\ "processor" \in Sources
  BY FamilyNames DEF Sources
<1>1. limbo = {i \in OfSource(txs, "processor") : txs[i].id[1] = "LIMBO"}
  <2>1. ASSUME NEW i \in limbo PROVE i \in OfSource(txs, "processor") /\ txs[i].id[1] = "LIMBO"
    <3>1. /\ i \in OfSource(txs, "processor") /\ i \in Ids(txs) /\ txs[i].source = "processor"
          /\ txs[i].status = "pending" /\ txs[i].method \in {"pix", "boleto"}
      BY DEF LimboRows, OfSource
    <3>2. FitsFamily(txs[i].id[1], txs[i])
      BY <3>1, SeedRow
    <3>3. txs[i].id[1] = "HEALTHY" \/ txs[i].id[1] = "LIMBO"
      BY <3>1, <3>2 DEF FitsFamily, FamilyStatuses
    <3>4. txs[i].id[1] # "HEALTHY"
      BY <3>1, <3>2 DEF FitsFamily
    <3> QED
      BY <3>1, <3>3, <3>4
  <2>2. ASSUME NEW i \in OfSource(txs, "processor"), txs[i].id[1] = "LIMBO"
        PROVE  i \in limbo
    <3>1. i \in Ids(txs)
      BY DEF OfSource
    <3>2. FitsFamily("LIMBO", txs[i]) /\ txs[i].at \in Int /\ txs[i].at <= WindowEnd
          /\ InWindow(SeedWindow, txs[i].at)
      BY <2>2, <3>1, SeedRow
    <3>3. txs[i].status = "pending" /\ txs[i].method \in {"pix", "boleto"}
      BY <3>2 DEF FitsFamily, FamilyStatuses
    <3>4. txs[i].at < Cutoff(txs[i].method, BaseNow)
      <4> DEFINE at == txs[i].at
                 end == Cutoff(txs[i].method, BaseNow)
      <4>1. end \in Int /\ WindowEnd < end
        BY <3>3, SeedWindowAssumption, ThresholdsAssumption DEF Cutoff
      <4>2. at \in Int /\ at <= WindowEnd
        BY <3>2
      <4> HIDE DEF at, end
      <4>3. at < end
        BY <4>1, <4>2, SeedWindowAssumption
      <4> QED
        BY <4>3 DEF at, end
    <3> QED
      BY <3>2, <3>3, <3>4 DEF LimboRows
  <2> QED
    BY <2>1, <2>2
<1> HIDE DEF limbo
<1>2. TxOf(txs, limbo) = Made("LIMBO")
  <2>1. ASSUME NEW i \in limbo PROVE txs[i].id \in Made("LIMBO")
    BY <1>1, SeedRowIsMade DEF OfSource
  <2>2. ASSUME NEW x \in Made("LIMBO") PROVE \E i \in limbo : txs[i].id = x
    <3>1. PICK n \in Nat : x = <<"LIMBO", n>>
      BY <1>0, MadeOnes
    <3>2. PICK i \in OfSource(txs, "processor") : txs[i].id = x
      BY <1>0, WhoKnows
    <3> QED
      BY <1>1, <3>1, <3>2
  <2> QED
    BY <2>1, <2>2 DEF TxOf
<1>3. ASSUME NEW i \in limbo, NEW j \in limbo, txs[i].id = txs[j].id
      PROVE  i = j
  <2> DEFINE tx == txs[i].id
             rows == GroupRows(txs, <<tx, "processor">>)
  <2>1. /\ i \in Ids(txs) /\ txs[i].source = "processor" /\ tx \in Made("LIMBO")
        /\ j \in Ids(txs) /\ txs[j].source = "processor"
    BY <1>1, SeedRowIsMade DEF OfSource
  <2>2. i \in rows /\ j \in rows
    BY <1>3, <2>1 DEF GroupRows, KeyOf
  <2>3. PICK n \in Nat : n < made["LIMBO"] /\ tx = <<"LIMBO", n>>
    BY <1>0, <2>1, MadeOnes
  <2>4. Cardinality(rows) = 1
    BY <1>0, <2>3 DEF SeedInv, GroupsAreWhole, FamilyRows
  <2>5. IsFiniteSet(rows)
    BY SeedIsFinite, GroupFinite
  <2> HIDE DEF rows
  <2>6. \E y : rows = {y}
    BY <2>4, <2>5, FS_Singleton
  <2> QED
    BY <2>2, <2>6
<1> QED
  BY <1>2, <1>3 DEF limbo
-----------------------------------------------------------------------------
(* How many they are. *)

(* A set is as large as one its elements name one by one.                    *)
LEMMA NamedSize ==
  ASSUME NEW S, IsFiniteSet(S), NEW T, NEW f \in [S -> T],
         \A x, y \in S : f[x] = f[y] => x = y, \A t \in T : \E x \in S : f[x] = t
  PROVE  IsFiniteSet(T) /\ Cardinality(T) = Cardinality(S)
<1>1. f \in Bijection(S, T)
  BY DEF Bijection, Injection, Surjection, IsInjective
<1> QED
  BY <1>1, FS_Bijection DEF ExistsBijection

LEMMA MadeSize ==
  ASSUME SeedInv, NEW f \in Range(Families)
  PROVE  IsFiniteSet(Made(f)) /\ Cardinality(Made(f)) = made[f]
<1> DEFINE top == made[f] - 1
           S == 0..top
           T == Made(f)
           name == [n \in S |-> <<f, n>>]
<1>1. made[f] \in Nat
  BY MadeOnes
<1>2. IsFiniteSet(S) /\ Cardinality(S) = made[f]
  <2>1. 0 \in Int /\ top \in Int /\ (IF 0 > top THEN 0 ELSE top - 0 + 1) = made[f]
    BY <1>1
  <2> HIDE DEF top
  <2> QED
    BY <2>1, FS_Interval
<1>3. T = {<<f, n>> : n \in S}
  BY DEF Made
<1> HIDE DEF S, T
<1>4. /\ name \in [S -> T]
      /\ \A x, y \in S : name[x] = name[y] => x = y
      /\ \A t \in T : \E x \in S : name[x] = t
  BY <1>3
<1> HIDE DEF name
<1>5. IsFiniteSet(T) /\ Cardinality(T) = Cardinality(S)
  BY <1>2, <1>4, NamedSize
<1> QED
  BY <1>2, <1>5 DEF T

(* The transactions of two families are different ones.                      *)
LEMMA FamiliesApart ==
  ASSUME SeedInv, NEW f \in Range(Families), NEW g \in Range(Families), f # g
  PROVE  /\ Made(f) \cap Made(g) = {}
         /\ IsFiniteSet(Made(f) \cup Made(g))
         /\ Cardinality(Made(f) \cup Made(g)) = made[f] + made[g]
<1>1. Made(f) \cap Made(g) = {}
  BY DEF Made
<1>2. /\ IsFiniteSet(Made(f)) /\ Cardinality(Made(f)) = made[f] /\ made[f] \in Nat
      /\ IsFiniteSet(Made(g)) /\ Cardinality(Made(g)) = made[g] /\ made[g] \in Nat
  BY MadeSize, MadeOnes
<1> DEFINE A == Made(f)
           B == Made(g)
<1> HIDE DEF A, B
<1>3. IsFiniteSet(A \cup B) /\ Cardinality(A \cup B) = Cardinality(A) + Cardinality(B) - Cardinality(A \cap B)
  BY <1>2, FS_Union DEF A, B
<1>4. A \cap B = {} /\ Cardinality(A \cap B) = 0
  BY <1>1, FS_EmptySet DEF A, B
<1>5. Cardinality(A) = made[f] /\ Cardinality(B) = made[g]
  BY <1>2 DEF A, B
<1>6. Cardinality(A \cup B) = made[f] + made[g]
  BY <1>2, <1>3, <1>4, <1>5
<1> QED
  BY <1>1, <1>3, <1>6 DEF A, B

(* Equal terms add up to their number times one of them.                     *)
LEMMA SumOfEqual ==
  ASSUME NEW S, NEW f, NEW sum, IsTotal(sum, f, S), NEW c \in Nat,
         NEW t \in SUBSET S, \A x \in t : f[x] = c
  PROVE  sum[t] = Cardinality(t) * c
<1> DEFINE P == {n \in Nat : \A s \in SUBSET t : Cardinality(s) = n => sum[s] = n * c}
<1>1. ASSUME NEW s \in SUBSET t
      PROVE  /\ Cardinality(s) \in Nat /\ (Cardinality(s) = 0 <=> s = {})
             /\ s # {} => /\ First(s) \in s /\ s \ {First(s)} \in SUBSET t
                          /\ Cardinality(s \ {First(s)}) = Cardinality(s) - 1
                          /\ sum[s] = c + sum[s \ {First(s)}]
             /\ s = {} => sum[s] = 0
  <2>1. IsFiniteSet(S) /\ s \in SUBSET S
    BY DEF IsTotal
  <2>2. /\ Cardinality(s) \in Nat /\ (Cardinality(s) = 0 <=> s = {})
        /\ s # {} => /\ First(s) \in s /\ s \ {First(s)} \in SUBSET S
                     /\ Cardinality(s \ {First(s)}) = Cardinality(s) - 1
    BY <2>1, RestIsSmaller
  <2>3. sum[s] = IF s = {} THEN 0 ELSE f[First(s)] + sum[s \ {First(s)}]
    BY <2>1 DEF IsTotal, AddsUp
  <2>4. s # {} => f[First(s)] = c
    BY <2>2
  <2> QED
    BY <2>2, <2>3, <2>4
<1>2. 0 \in P
  <2>1. 0 * c = 0
    OBVIOUS
  <2> QED
    BY <1>1, <2>1
<1>3. ASSUME NEW n \in Nat, n \in P
      PROVE  n + 1 \in P
  <2> SUFFICES ASSUME NEW s \in SUBSET t, Cardinality(s) = n + 1
               PROVE  sum[s] = (n + 1) * c
    OBVIOUS
  <2> DEFINE rest == s \ {First(s)}
  <2>1. rest \in SUBSET t /\ Cardinality(rest) = n /\ sum[s] = c + sum[rest]
    <3>1. Cardinality(s) # 0 /\ Cardinality(s) - 1 = n
      OBVIOUS
    <3> QED
      BY <1>1, <3>1
  <2>2. sum[rest] = n * c
    BY <1>3, <2>1
  <2>3. (n + 1) * c = c + n * c
    OBVIOUS
  <2> QED
    BY <2>1, <2>2, <2>3
<1> HIDE DEF P
<1>4. Cardinality(t) \in P
  BY <1>1, <1>2, <1>3, SetInduction
<1> QED
  BY <1>4 DEF P

(* The keys of one source's groups are as many as the transactions.          *)
LEMMA SizeOfKeys ==
  ASSUME NEW S, IsFiniteSet(S), NEW src
  PROVE  IsFiniteSet(KeysOfSource(src, S)) /\ Cardinality(KeysOfSource(src, S)) = Cardinality(S)
<1> DEFINE K == KeysOfSource(src, S)
           name == [tx \in S |-> <<tx, src>>]
<1>1. /\ name \in [S -> K]
      /\ \A x, y \in S : name[x] = name[y] => x = y
      /\ \A t \in K : \E x \in S : name[x] = t
  BY DEF KeysOfSource
<1> HIDE DEF name, K
<1>2. IsFiniteSet(K) /\ Cardinality(K) = Cardinality(S)
  BY <1>1, NamedSize
<1> QED
  BY <1>2 DEF K

LEMMA GroupsCount ==
  ASSUME SeedInv
  PROVE  LET keys == DuplicateKeys(txs, SeedWindow)
         IN  /\ Cardinality(keys) = made["DUP-PROC"] + made["DUP-MERCH"]
             /\ ExtraOf(txs, keys) = made["DUP-PROC"] * 2 + made["DUP-MERCH"] * 1
<1> DEFINE large == KeysOfSource("processor", Made("DUP-PROC"))
           small == KeysOfSource("merchant_order_system", Made("DUP-MERCH"))
           keys == DuplicateKeys(txs, SeedWindow)
           a == made["DUP-PROC"]
           b == made["DUP-MERCH"]
<1>1. "DUP-PROC" \in Range(Families) /\ "DUP-MERCH" \in Range(Families)
  BY FamilyNames
<1>2. /\ a \in Nat /\ IsFiniteSet(Made("DUP-PROC")) /\ Cardinality(Made("DUP-PROC")) = a
      /\ b \in Nat /\ IsFiniteSet(Made("DUP-MERCH")) /\ Cardinality(Made("DUP-MERCH")) = b
  BY <1>1, MadeSize, MadeOnes
<1>3. IsFiniteSet(large) /\ Cardinality(large) = a
  BY <1>2, SizeOfKeys
<1>4. IsFiniteSet(small) /\ Cardinality(small) = b
  BY <1>2, SizeOfKeys
<1>5. keys = large \cup small /\ large \cap small = {}
  BY GroupsFound DEF MadeGroups, KeysOfSource
<1>6. /\ \A k \in large : Cardinality(GroupRows(txs, k)) = 3
      /\ \A k \in small : Cardinality(GroupRows(txs, k)) = 2
  BY GroupsFound DEF KeysOfSource
<1> HIDE DEF a, b, large, small, keys
<1>7. IsFiniteSet(keys) /\ Cardinality(keys) = a + b
  <2>1. IsFiniteSet(large \cup small)
        /\ Cardinality(large \cup small) = Cardinality(large) + Cardinality(small) - Cardinality(large \cap small)
    BY <1>3, <1>4, FS_Union
  <2>2. Cardinality(large \cap small) = 0
    BY <1>5, FS_EmptySet
  <2> QED
    BY <1>2, <1>3, <1>4, <1>5, <2>1, <2>2
<1>8. \A k \in keys : Cardinality(GroupRows(txs, k)) \in Nat \ {0}
  BY <1>5, <1>6
<1> DEFINE f == [k \in keys |-> Cardinality(GroupRows(txs, k)) - 1]
<1>9. PICK sum \in [SUBSET keys -> Nat] : AddsUp(sum, f, keys) /\ ExtraOf(txs, keys) = sum[keys]
  BY <1>7, <1>8, ExtraAddsUp
<1>10. f \in [keys -> Nat]
  BY <1>8
<1>11. large \in SUBSET keys /\ small \in SUBSET keys
       /\ (\A k \in large : f[k] = 2) /\ (\A k \in small : f[k] = 1)
  BY <1>5, <1>6
<1> HIDE DEF f
<1>12. IsTotal(sum, f, keys)
  BY <1>7, <1>9, <1>10 DEF IsTotal
<1>13. sum[large] = a * 2
  BY <1>3, <1>11, <1>12, SumOfEqual
<1>14. sum[small] = b * 1
  BY <1>4, <1>11, <1>12, SumOfEqual
<1>15. sum[keys] = sum[large] + sum[small]
  <2>1. Additive(sum, keys)
    BY <1>7, <1>9, <1>10, SumIsAdditive
  <2> QED
    BY <1>5, <1>11, <2>1 DEF Additive
<1> QED
  BY <1>7, <1>9, <1>13, <1>14, <1>15 DEF keys, a, b

(* Where generation has come to its end, the oracle's plan is what was made. *)
LEMMA AllIsMade ==
  ASSUME SeedInv, Generated
  PROVE  /\ \A f \in Range(Families) \ {"HEALTHY"} : made[f] = plan[f] /\ Made(f) = Numbered(f)
         /\ {"ORPHAN", "GHOST-NOPROC", "GHOST-BADPROC", "DUP-PROC", "DUP-MERCH", "LIMBO"}
              = Range(Families) \ {"HEALTHY"}
<1>1. \A f \in Range(Families) \ {"HEALTHY"} : made[f] = plan[f]
  BY DEF Generated, Wanted
<1>2. \A f \in Range(Families) \ {"HEALTHY"} : Made(f) = Numbered(f)
  BY <1>1 DEF Made, Numbered
<1> QED
  BY <1>1, <1>2, FamilyNames

LEMMA SeedIDs == SeedInv => OracleIDs
<1> SUFFICES ASSUME SeedInv, Generated
             PROVE  /\ Orphaned(txs, SeedWindow) = ExpectedIDs.orphaned
                    /\ Ghosts(txs, SeedWindow) = ExpectedIDs.ghost
                    /\ {k[1] : k \in DuplicateKeys(txs, SeedWindow)} = ExpectedIDs.groups
                    /\ TxOf(txs, LimboRows(txs, SeedWindow, BaseNow)) = ExpectedIDs.limbo
  BY DEF OracleIDs
<1>1. /\ Made("ORPHAN") = ExpectedIDs.orphaned
      /\ Made("GHOST-NOPROC") \cup Made("GHOST-BADPROC") = ExpectedIDs.ghost
      /\ Made("DUP-PROC") \cup Made("DUP-MERCH") = ExpectedIDs.groups
      /\ Made("LIMBO") = ExpectedIDs.limbo
  BY AllIsMade DEF ExpectedIDs
<1>2. {k[1] : k \in MadeGroups} = Made("DUP-PROC") \cup Made("DUP-MERCH")
  <2>1. \A tx, src : <<tx, src>>[1] = tx
    OBVIOUS
  <2>2. ASSUME NEW k \in MadeGroups
        PROVE  k[1] \in Made("DUP-PROC") \cup Made("DUP-MERCH")
    BY <2>1 DEF MadeGroups, KeysOfSource
  <2>3. ASSUME NEW tx \in Made("DUP-PROC") \cup Made("DUP-MERCH")
        PROVE  \E k \in MadeGroups : k[1] = tx
    <3>1. <<tx, "processor">> \in MadeGroups \/ <<tx, "merchant_order_system">> \in MadeGroups
      BY DEF MadeGroups, KeysOfSource
    <3> QED
      BY <2>1, <3>1
  <2> QED
    BY <2>2, <2>3
<1> QED
  BY <1>1, <1>2, OrphansFound, GhostsFound, GroupsFound, LimboFound

(* The lists of anomalies name exactly the transactions buildExpectedIDs     *)
(* names, for any plan and any draws.                                        *)
THEOREM OracleNamesAnomalies == SeedSpec => []OracleIDs
BY SeedInvariant, SeedIDs, PTL

LEMMA SeedCounts == SeedInv => OracleCounts
<1> SUFFICES ASSUME SeedInv, Generated
             PROVE  /\ Counts(txs, SeedWindow, BaseNow) = ExpectedCounts
                    /\ Score(Counts(txs, SeedWindow, BaseNow)) = ExpectedScore
  BY DEF OracleCounts
<1> DEFINE found == Counts(txs, SeedWindow, BaseNow)
<1>1. /\ "ORPHAN" \in Range(Families) /\ "LIMBO" \in Range(Families)
      /\ "GHOST-NOPROC" \in Range(Families) /\ "GHOST-BADPROC" \in Range(Families)
      /\ "DUP-PROC" \in Range(Families) /\ "DUP-MERCH" \in Range(Families)
  BY FamilyNames
<1>2. IsFiniteSet(Ids(txs)) /\ Ids(txs) = 1..Len(txs) /\ Len(txs) \in Nat
  BY SeedIsFinite
<1>3. Cardinality(Orphaned(txs, SeedWindow)) = plan["ORPHAN"]
  BY <1>1, OrphansFound, MadeSize, AllIsMade
<1>4. Cardinality(Ghosts(txs, SeedWindow)) = plan["GHOST-NOPROC"] + plan["GHOST-BADPROC"]
  <2>1. Cardinality(Made("GHOST-NOPROC") \cup Made("GHOST-BADPROC"))
          = made["GHOST-NOPROC"] + made["GHOST-BADPROC"]
    BY <1>1, FamiliesApart
  <2> QED
    BY <2>1, GhostsFound, AllIsMade
<1>5. /\ Cardinality(DuplicateKeys(txs, SeedWindow)) = plan["DUP-PROC"] + plan["DUP-MERCH"]
      /\ ExtraOf(txs, DuplicateKeys(txs, SeedWindow)) = DupExtra(plan)
  BY GroupsCount, AllIsMade DEF DupExtra
<1>6. Cardinality(LimboRows(txs, SeedWindow, BaseNow)) = plan["LIMBO"]
  <2> DEFINE limbo == LimboRows(txs, SeedWindow, BaseNow)
             T == Made("LIMBO")
             name == [i \in limbo |-> txs[i].id]
  <2>1. IsFiniteSet(limbo)
    BY <1>2, FindingsFinite
  <2>2. TxOf(txs, limbo) = T /\ \A i, j \in limbo : txs[i].id = txs[j].id => i = j
    BY LimboFound
  <2> HIDE DEF limbo, T
  <2>3. /\ name \in [limbo -> T]
        /\ \A i, j \in limbo : name[i] = name[j] => i = j
        /\ \A t \in T : \E i \in limbo : name[i] = t
    BY <2>2 DEF TxOf
  <2> HIDE DEF name
  <2>4. Cardinality(T) = Cardinality(limbo)
    BY <2>1, <2>3, NamedSize
  <2> QED
    BY <1>1, <2>4, MadeSize, AllIsMade DEF limbo, T
<1>7. Cardinality(RowsInWindow(txs, SeedWindow)) = Len(txs)
  <2>1. RowsInWindow(txs, SeedWindow) = Ids(txs)
    BY SeedRow DEF RowsInWindow
  <2>2. Cardinality(1..Len(txs)) = Len(txs)
    <3> DEFINE n == Len(txs)
    <3>1. 1 \in Int /\ n \in Int /\ (IF 1 > n THEN 0 ELSE n - 1 + 1) = n
      BY <1>2
    <3> HIDE DEF n
    <3>2. Cardinality(1..n) = n
      BY <3>1, FS_Interval
    <3> QED
      BY <3>2 DEF n
  <2> QED
    BY <1>2, <2>1, <2>2
<1>8. UniqueIn(txs, SeedWindow)
        = {txs[i].id : i \in {j \in DOMAIN txs : InWindow(SeedWindow, txs[j].at)}}
  BY DEF UniqueIn, TxOf, RowsInWindow, Ids
<1>9. found = ExpectedCounts
  BY <1>3, <1>4, <1>5, <1>6, <1>7, <1>8 DEF Counts, ExpectedCounts, ExtraOf
<1>10. Score(ExpectedCounts) = ExpectedScore
  BY DEF Score, ExpectedScore, ExpectedCounts
<1> QED
  BY <1>9, <1>10

(* The oracle's counts and its score, computed from the constants alone, are *)
(* what the queries find in the rows, for any plan and any draws.            *)
THEOREM OracleCountsAnomalies == SeedSpec => []OracleCounts
BY SeedInvariant, SeedCounts, PTL
=============================================================================
