--------------------------- MODULE TimeTextProofs ---------------------------
(***************************************************************************)
(* Theorems about the stored text of timestamps, for a calendar of any size *)
(* (so for the four digits of the year and nine of the fraction too), any   *)
(* timestamps and any rows.                                                 *)
(***************************************************************************)
EXTENDS TimeText, NaturalsInduction, WellFoundedInduction, TLAPS

(* Division with a remainder. *)
LEMMA Division ==
  ASSUME NEW t \in Int, NEW q \in Nat \ {0}
  PROVE  /\ t \div q \in Int /\ t % q \in Int
         /\ t = q * (t \div q) + (t % q) /\ 0 <= t % q /\ t % q < q
OBVIOUS

LEMMA Spaced ==
  ASSUME NEW a \in Int, NEW b \in Int, NEW q \in Nat \ {0}, a < b
  PROVE  q * a + q <= q * b
OBVIOUS

LEMMA DivisionIsUnique ==
  ASSUME NEW t \in Int, NEW q \in Nat \ {0}, NEW d \in Int, NEW r \in Int,
         t = q * d + r, 0 <= r, r < q
  PROVE  t \div q = d /\ t % q = r
BY Division, Spaced

LEMMA DivideTwice ==
  ASSUME NEW t \in Int, NEW q \in Nat \ {0}, NEW b \in Nat \ {0}
  PROVE  (t \div q) \div b = t \div (q * b)
<1> DEFINE u == t \div q
<1>1. u \in Int /\ t % q \in Int /\ t = q * u + (t % q) /\ 0 <= t % q /\ t % q < q
  BY Division
<1>2. u \div b \in Int /\ u % b \in Int /\ u = b * (u \div b) + (u % b) /\ 0 <= u % b /\ u % b < b
  BY Division, <1>1
<1> HIDE DEF u
<1> DEFINE d == u \div b
           r == q * (u % b) + (t % q)
<1>3. t = (q * b) * d + r
  <2>1. \A e, m \in Int : q * (b * e + m) = (q * b) * e + q * m
    OBVIOUS
  <2>2. q * u = (q * b) * d + q * (u % b)
    BY <1>2, <2>1
  <2>3. q * u \in Int /\ (q * b) * d \in Int /\ q * (u % b) \in Int
    BY <1>1, <1>2
  <2> HIDE DEF d
  <2> QED
    BY <1>1, <2>2, <2>3
<1>4. 0 <= r /\ r < q * b /\ r \in Int
  BY <1>1, <1>2, Spaced
<1>5. q * b \in Nat \ {0}
  OBVIOUS
<1> QED
  BY <1>2, <1>3, <1>4, <1>5, DivisionIsUnique DEF u

LEMMA DivisionKeepsOrder ==
  ASSUME NEW s \in Int, NEW t \in Int, NEW q \in Nat \ {0}, s <= t
  PROVE  s \div q <= t \div q
BY Division, Spaced

-----------------------------------------------------------------------------
(* A set of numbers has a least one, and induction, for a set. *)
LEMMA LeastNumber ==
  ASSUME NEW S, S \subseteq Nat, S # {}
  PROVE  \E i \in S : \A j \in S : i <= j
<1>1. PICK i \in S : \A j \in S : <<j, i>> \notin OpToRel(<, Nat)
  BY NatLessThanWellFounded, WFMin
<1>2. \A j \in S : ~(j < i)
  BY <1>1 DEF OpToRel
<1> QED
  BY <1>2

LEMMA SetInduction ==
  ASSUME NEW P, 0 \in P, \A n \in Nat : n \in P => n + 1 \in P
  PROVE  Nat \subseteq P
<1> SUFFICES ASSUME Nat \ P # {} PROVE FALSE
  OBVIOUS
<1>1. PICK n \in Nat \ P : \A m \in Nat \ P : n <= m
  BY LeastNumber
<1>2. n # 0 /\ n - 1 \in Nat /\ ~(n <= n - 1) /\ n - 1 + 1 = n
  OBVIOUS
<1> QED
  BY <1>1, <1>2

-----------------------------------------------------------------------------
(* power is a recursive function on the natural numbers; that there is one   *)
(* is what has to be shown.                                                  *)
PowerUpto(f, n) ==
  f = [i \in 0..n |-> IF i = 0 THEN 1 ELSE Base * f[i - 1]]

LEMMA PowersUpto ==
  ASSUME NEW n \in Nat
  PROVE  \E f : PowerUpto(f, n)
<1> DEFINE P == {m \in Nat : \E f : PowerUpto(f, m)}
<1>1. 0 \in P
  <2> DEFINE f == [i \in 0..0 |-> 1]
  <2>1. PowerUpto(f, 0)
    BY DEF PowerUpto
  <2> QED
    BY <2>1
<1>2. ASSUME NEW m \in Nat, m \in P PROVE m + 1 \in P
  <2>1. PICK f : PowerUpto(f, m)
    BY <1>2
  <2> DEFINE g == [i \in 0..(m + 1) |-> IF i = m + 1 THEN Base * f[m] ELSE f[i]]
  <2>2. \A i \in 0..m : g[i] = f[i] /\ f[i] = IF i = 0 THEN 1 ELSE Base * f[i - 1]
    <3>1. \A i \in 0..m : f[i] = IF i = 0 THEN 1 ELSE Base * f[i - 1]
      BY <2>1 DEF PowerUpto
    <3> QED
      BY <3>1
  <2>3. \A i \in 0..(m + 1) : g[i] = IF i = 0 THEN 1 ELSE Base * g[i - 1]
    <3> SUFFICES ASSUME NEW i \in 0..(m + 1)
                 PROVE  g[i] = IF i = 0 THEN 1 ELSE Base * g[i - 1]
      OBVIOUS
    <3>1. CASE i = m + 1
      BY <3>1, <2>2
    <3>2. CASE i = 0
      <4>1. 0 \in 0..m /\ 0 # m + 1
        OBVIOUS
      <4>2. f[0] = 1 /\ g[0] = f[0]
        BY <2>2, <4>1
      <4> QED
        BY <3>2, <4>2
    <3>3. CASE i \in 1..m
      <4>1. i \in 0..m /\ i - 1 \in 0..m /\ i # 0
        BY <3>3
      <4> HIDE DEF g
      <4> QED
        BY <4>1, <2>2
    <3> QED
      BY <3>1, <3>2, <3>3
  <2>4. PowerUpto(g, m + 1)
    <3>1. g = [i \in 0..(m + 1) |-> g[i]]
      OBVIOUS
    <3> HIDE DEF g
    <3> QED
      BY <2>3, <3>1 DEF PowerUpto
  <2> HIDE DEF g
  <2> QED
    BY <2>4
<1> HIDE DEF P
<1>3. Nat \subseteq P
  BY <1>1, <1>2, SetInduction
<1> QED
  BY <1>3 DEF P

LEMMA PowersAgree ==
  ASSUME NEW m \in Nat, NEW n \in Nat, m <= n, NEW f, NEW g, PowerUpto(f, m), PowerUpto(g, n)
  PROVE  f[m] = g[m]
<1> DEFINE P == {i \in Nat : i <= m => f[i] = g[i]}
<1>1. 0 \in P
  BY DEF PowerUpto
<1>2. ASSUME NEW i \in Nat, i \in P PROVE i + 1 \in P
  <2> SUFFICES ASSUME i + 1 <= m PROVE f[i + 1] = g[i + 1]
    OBVIOUS
  <2>1. i + 1 \in 0..m /\ i + 1 \in 0..n /\ i + 1 # 0 /\ i + 1 - 1 = i
    OBVIOUS
  <2>2. f[i + 1] = Base * f[i]
    BY <2>1 DEF PowerUpto
  <2>3. g[i + 1] = Base * g[i]
    BY <2>1 DEF PowerUpto
  <2> QED
    BY <1>2, <2>2, <2>3
<1> HIDE DEF P
<1>3. Nat \subseteq P
  BY <1>1, <1>2, SetInduction
<1> QED
  BY <1>3 DEF P

LEMMA PowerIsDefined ==
  power = [n \in Nat |-> IF n = 0 THEN 1 ELSE Base * power[n - 1]]
<1> DEFINE upto(n) == CHOOSE f : PowerUpto(f, n)
           p == [n \in Nat |-> upto(n)[n]]
           IsPower(f) == f = [n \in Nat |-> IF n = 0 THEN 1 ELSE Base * f[n - 1]]
<1>1. \A n \in Nat : PowerUpto(upto(n), n)
  BY PowersUpto
<1> HIDE DEF upto
<1>2. ASSUME NEW n \in Nat
      PROVE  p[n] = IF n = 0 THEN 1 ELSE Base * p[n - 1]
  <2>1. CASE n = 0
    <3>1. PowerUpto(upto(0), 0)
      BY <1>1
    <3>2. upto(0)[0] = 1
      BY <3>1 DEF PowerUpto
    <3> QED
      BY <2>1, <3>2
  <2>2. CASE n # 0
    <3>1. n - 1 \in Nat /\ n - 1 <= n /\ n \in 0..n
      BY <2>2
    <3>2. PowerUpto(upto(n), n) /\ PowerUpto(upto(n - 1), n - 1)
      BY <1>1, <3>1
    <3>3. upto(n)[n] = Base * upto(n)[n - 1]
      BY <2>2, <3>1, <3>2 DEF PowerUpto
    <3>4. upto(n - 1)[n - 1] = upto(n)[n - 1]
      BY <3>1, <3>2, PowersAgree
    <3> QED
      BY <2>2, <3>1, <3>3, <3>4
  <2> QED
    BY <2>1, <2>2
<1>3. IsPower(p)
  <2>1. p = [n \in Nat |-> p[n]]
    OBVIOUS
  <2> HIDE DEF p
  <2> QED
    BY <1>2, <2>1
<1> HIDE DEF p
<1>4. IsPower(CHOOSE f : IsPower(f))
  BY <1>3
<1>5. power = CHOOSE f : IsPower(f)
  BY DEF power
<1> QED
  BY <1>4, <1>5

LEMMA PowerSteps ==
  /\ Power(0) = 1
  /\ \A n \in Nat : Power(n) \in Nat \ {0} /\ Power(n + 1) = Power(n) * Base
<1>1. power[0] = 1
  BY PowerIsDefined
<1>2. \A n \in Nat : power[n + 1] = Base * power[n]
  <2> SUFFICES ASSUME NEW n \in Nat PROVE power[n + 1] = Base * power[n]
    OBVIOUS
  <2>1. n + 1 \in Nat /\ n + 1 # 0 /\ n + 1 - 1 = n
    OBVIOUS
  <2> QED
    BY <2>1, PowerIsDefined
<1>3. Base \in Nat \ {0}
  BY CalendarAssumption
<1> DEFINE P == {n \in Nat : power[n] \in Nat \ {0}}
<1>4. 0 \in P
  BY <1>1
<1>5. ASSUME NEW n \in Nat, n \in P PROVE n + 1 \in P
  BY <1>2, <1>3, <1>5
<1> HIDE DEF P
<1>6. Nat \subseteq P
  BY <1>4, <1>5, SetInduction
<1>7. \A n \in Nat : power[n] \in Nat \ {0}
  BY <1>6 DEF P
<1>8. \A n \in Nat : Base * power[n] = power[n] * Base
  BY <1>3, <1>7
<1> QED
  BY <1>1, <1>2, <1>7, <1>8 DEF Power

LEMMA PowerAdds ==
  ASSUME NEW m \in Nat, NEW n \in Nat
  PROVE  Power(m + n) = Power(m) * Power(n)
<1> DEFINE P == {i \in Nat : Power(m + i) = Power(m) * Power(i)}
<1>0. Base \in Nat
  BY CalendarAssumption
<1>1. 0 \in P
  BY PowerSteps
<1>2. ASSUME NEW i \in Nat, i \in P PROVE i + 1 \in P
  <2>1. m + i \in Nat /\ m + (i + 1) = (m + i) + 1
    OBVIOUS
  <2>2. Power(m + (i + 1)) = Power(m + i) * Base
    BY <2>1, PowerSteps
  <2>3. Power(m + i) = Power(m) * Power(i) /\ Power(i + 1) = Power(i) * Base
    BY <1>2, PowerSteps
  <2>4. Power(m) \in Int /\ Power(i) \in Int
    BY PowerSteps
  <2>5. \A a, b, c \in Int : (a * b) * c = a * (b * c)
    OBVIOUS
  <2> QED
    BY <1>0, <2>2, <2>3, <2>4, <2>5
<1> HIDE DEF P
<1>3. Nat \subseteq P
  BY <1>1, <1>2, SetInduction
<1> QED
  BY <1>3 DEF P

-----------------------------------------------------------------------------
(* The digits of an instant.  Front(t, p) is the number its first p digits   *)
(* spell: those of the year, then the second's, then the fraction's.         *)
Places == YearWidth + 1 + FracWidth

Front(t, p) == t \div Power(Places - p)

Years == 0..(Power(YearWidth) - 1)

LEMMA Widths ==
  /\ Base \in Nat \ {0, 1} /\ YearWidth \in Nat \ {0} /\ FracWidth \in Nat \ {0}
  /\ Places \in Nat \ {0} /\ Places = YearWidth + FracWidth + 1
  /\ \A n \in Nat : Power(n) \in Nat \ {0}
BY CalendarAssumption, PowerSteps DEF Places

LEMMA FrontType ==
  ASSUME NEW t \in Int, NEW p \in 0..Places
  PROVE  Front(t, p) \in Int
<1>1. Places - p \in Nat
  BY Widths
<1>2. Power(Places - p) \in Nat \ {0}
  BY <1>1, Widths
<1> QED
  BY <1>2, Division DEF Front

(* A digit more. *)
LEMMA FrontSteps ==
  ASSUME NEW t \in Int, NEW p \in 1..Places
  PROVE  Front(t, p) = Front(t, p - 1) * Base + (Front(t, p) % Base)
<1> DEFINE n == Places - p
<1>1. n \in Nat /\ Places - (p - 1) = n + 1
  BY Widths
<1>2. Power(n) \in Nat \ {0} /\ Power(n + 1) = Power(n) * Base /\ Base \in Nat \ {0}
  BY <1>1, PowerSteps, Widths
<1>3. Front(t, p - 1) = Front(t, p) \div Base
  BY <1>1, <1>2, DivideTwice DEF Front
<1>4. Front(t, p) \in Int
  BY FrontType
<1>5. /\ Front(t, p) \div Base \in Int /\ Front(t, p) % Base \in Int
      /\ Front(t, p) = Base * (Front(t, p) \div Base) + (Front(t, p) % Base)
  BY <1>2, <1>4, Division
<1>6. Base * (Front(t, p) \div Base) = (Front(t, p) \div Base) * Base
  BY <1>2, <1>5
<1> QED
  BY <1>3, <1>5, <1>6

LEMMA DivideByOne ==
  ASSUME NEW t \in Int
  PROVE  t \div 1 = t /\ t % 1 = 0
BY DivisionIsUnique

LEMMA SmallQuotient ==
  ASSUME NEW q \in Nat \ {0}, NEW t \in 0..(q - 1)
  PROVE  t \div q = 0 /\ t % q = t
BY DivisionIsUnique

(* No digit and all of them. *)
LEMMA FrontEnds ==
  ASSUME NEW t \in Int, YearOf(t) \in Years
  PROVE  Front(t, 0) = 0 /\ Front(t, Places) = t
<1> DEFINE y == YearOf(t)
           q == Power(FracWidth + 1)
<1>1. q \in Nat \ {0} /\ Power(YearWidth) \in Nat \ {0} /\ Power(Places) = Power(YearWidth) * q
  <2>1. FracWidth + 1 \in Nat /\ YearWidth \in Nat /\ Places = YearWidth + (FracWidth + 1)
    BY Widths
  <2> QED
    BY <2>1, Widths, PowerAdds
<1>2. y = t \div q
  BY DEF YearOf
<1>3. t \div Power(Places) = y \div Power(YearWidth)
  <2>1. q * Power(YearWidth) = Power(Places)
    BY <1>1
  <2> HIDE DEF q, y
  <2> QED
    BY <1>1, <1>2, <2>1, DivideTwice
<1>4. y \in 0..(Power(YearWidth) - 1)
  BY DEF Years
<1>5. y \div Power(YearWidth) = 0
  <2> HIDE DEF y
  <2> QED
    BY <1>1, <1>4, SmallQuotient
<1>6. Places - 0 = Places /\ Places - Places = 0
  BY Widths
<1>7. t \div Power(0) = t
  BY PowerSteps, DivideByOne
<1> HIDE DEF y
<1> QED
  BY <1>3, <1>5, <1>6, <1>7 DEF Front

LEMMA FrontsAreOrdered ==
  ASSUME NEW s \in Int, NEW t \in Int, s <= t, NEW p \in 0..Places
  PROVE  Front(s, p) <= Front(t, p)
<1>1. Places - p \in Nat
  BY Widths
<1>2. Power(Places - p) \in Nat \ {0}
  BY <1>1, Widths
<1> QED
  BY <1>2, DivisionKeepsOrder DEF Front

(* Of two instants the earlier has, at the first digit they differ in, the   *)
(* smaller one.                                                              *)
LEMMA FirstDifference ==
  ASSUME NEW s \in Int, NEW t \in Int, YearOf(s) \in Years, YearOf(t) \in Years, s < t
  PROVE  \E p \in 1..Places :
           /\ Front(s, p) % Base < Front(t, p) % Base
           /\ \A j \in 1..(p - 1) : Front(s, j) % Base = Front(t, j) % Base
<1> DEFINE D == {p \in 1..Places : Front(s, p) # Front(t, p)}
<1>1. Places \in Nat /\ Places \in 1..Places /\ 1..Places \subseteq Nat
  BY Widths
<1>2. D # {} /\ D \subseteq Nat
  <2>1. Front(s, Places) = s /\ Front(t, Places) = t
    BY FrontEnds
  <2> QED
    BY <1>1, <2>1
<1>3. PICK p \in D : \A j \in D : p <= j
  BY <1>2, LeastNumber
<1>4. p \in 1..Places /\ Front(s, p) # Front(t, p) /\ p \in 0..Places /\ p - 1 \in 0..Places
  BY <1>1, <1>3
<1>5. \A j \in 0..(p - 1) : Front(s, j) = Front(t, j)
  <2> SUFFICES ASSUME NEW j \in 0..(p - 1) PROVE Front(s, j) = Front(t, j)
    OBVIOUS
  <2>1. CASE j = 0
    BY <2>1, FrontEnds
  <2>2. CASE j # 0
    <3>1. j \in 1..Places /\ ~(p <= j)
      BY <1>1, <1>4, <2>2
    <3> QED
      BY <1>3, <3>1
  <2> QED
    BY <2>1, <2>2
<1> HIDE DEF D
<1>6. Front(s, p) < Front(t, p)
  <2>1. Front(s, p) <= Front(t, p)
    BY <1>4, FrontsAreOrdered
  <2>2. Front(s, p) \in Int /\ Front(t, p) \in Int
    BY <1>4, FrontType
  <2> QED
    BY <1>4, <2>1, <2>2
<1>7. Front(s, p) % Base < Front(t, p) % Base
  <2>1. Front(s, p - 1) = Front(t, p - 1)
    BY <1>4, <1>5
  <2>2. Front(s, p) = Front(s, p - 1) * Base + (Front(s, p) % Base)
    BY <1>4, FrontSteps
  <2>3. Front(t, p) = Front(t, p - 1) * Base + (Front(t, p) % Base)
    BY <1>4, FrontSteps
  <2>4. /\ Front(s, p) \in Int /\ Front(t, p) \in Int /\ Front(s, p - 1) \in Int
        /\ Base \in Nat \ {0}
    BY <1>4, FrontType, Widths
  <2>5. Front(s, p) % Base \in Int /\ Front(t, p) % Base \in Int /\ Front(s, p - 1) * Base \in Int
    BY <2>4, Division
  <2> QED
    BY <1>6, <2>1, <2>2, <2>3, <2>5
<1>8. \A j \in 1..(p - 1) : Front(s, j) % Base = Front(t, j) % Base
  <2>1. \A j \in 1..(p - 1) : j \in 0..(p - 1)
    BY <1>4
  <2> QED
    BY <1>5, <2>1
<1> QED
  BY <1>4, <1>7, <1>8

-----------------------------------------------------------------------------
(* formatTime writes these digits, with marks at fixed places between them. *)
TextOf(s, t) ==
  /\ s \in Seq(Int) /\ Len(s) = YearWidth + FracWidth + 4
  /\ \A i \in 1..YearWidth : s[i] = Digit(Front(t, i) % Base)
  /\ s[YearWidth + 1] = Minus
  /\ s[YearWidth + 2] = Digit(Front(t, YearWidth + 1) % Base)
  /\ s[YearWidth + 3] = Dot
  /\ \A i \in 1..FracWidth : s[YearWidth + 3 + i] = Digit(Front(t, YearWidth + 1 + i) % Base)
  /\ s[YearWidth + FracWidth + 4] = Zulu

LEMMA Concatenation ==
  ASSUME NEW a \in Seq(Int), NEW b \in Seq(Int)
  PROVE  /\ a \o b \in Seq(Int) /\ Len(a \o b) = Len(a) + Len(b)
         /\ \A i \in 1..Len(a) : (a \o b)[i] = a[i]
         /\ \A i \in 1..Len(b) : (a \o b)[Len(a) + i] = b[i]
OBVIOUS

LEMMA DigitsType ==
  ASSUME NEW n \in Int, NEW width \in Nat
  PROVE  /\ Digits(n, width) \in Seq(Int) /\ Len(Digits(n, width)) = width
         /\ \A i \in 1..width : Digits(n, width)[i] = Digit((n \div Power(width - i)) % Base)
<1>1. \A i \in 1..width : Digit((n \div Power(width - i)) % Base) \in Int
  <2> SUFFICES ASSUME NEW i \in 1..width
               PROVE  Digit((n \div Power(width - i)) % Base) \in Int
    OBVIOUS
  <2>1. width - i \in Nat
    OBVIOUS
  <2>2. Power(width - i) \in Nat \ {0} /\ Base \in Nat \ {0}
    BY <2>1, Widths
  <2>3. n \div Power(width - i) \in Int
    BY <2>2, Division
  <2>4. (n \div Power(width - i)) % Base \in Int
    BY <2>2, <2>3, Division
  <2> QED
    BY <2>4 DEF Digit
<1> DEFINE e(i) == Digit((n \div Power(width - i)) % Base)
<1>2. Digits(n, width) = [i \in 1..width |-> e(i)]
  BY DEF Digits
<1> HIDE DEF e
<1>3. \A i \in 1..width : e(i) \in Int
  BY <1>1 DEF e
<1> QED
  BY <1>2, <1>3 DEF e

(* The digits of the year, the second and the fraction are those of Front.   *)
LEMMA YearDigits ==
  ASSUME NEW t \in Int, NEW i \in 1..YearWidth
  PROVE  YearOf(t) \div Power(YearWidth - i) = Front(t, i)
<1>1. /\ YearWidth - i \in Nat /\ FracWidth + 1 \in Nat
      /\ Places - i = (FracWidth + 1) + (YearWidth - i)
  BY Widths
<1>2. /\ Power(YearWidth - i) \in Nat \ {0} /\ Power(FracWidth + 1) \in Nat \ {0}
      /\ Power(Places - i) = Power(FracWidth + 1) * Power(YearWidth - i)
  BY <1>1, Widths, PowerAdds
<1> QED
  BY <1>2, DivideTwice DEF YearOf, Front

LEMMA SecondDigit ==
  ASSUME NEW t \in Int
  PROVE  /\ Second(t) = Front(t, YearWidth + 1) % Base
         /\ (Second(t) \div Power(0)) % Base = Second(t)
         /\ Second(t) \in 0..(Base - 1)
<1>1. YearWidth + 1 \in 0..Places /\ Places - (YearWidth + 1) = FracWidth /\ Base \in Nat \ {0}
  BY Widths
<1>2. Second(t) = Front(t, YearWidth + 1) % Base
  BY <1>1 DEF Second, Front
<1>3. Front(t, YearWidth + 1) \in Int
  BY <1>1, FrontType
<1>4. Second(t) \in 0..(Base - 1)
  BY <1>1, <1>2, <1>3, Division
<1>5. Second(t) \div Power(0) = Second(t)
  BY <1>4, PowerSteps, DivideByOne
<1>6. Second(t) % Base = Second(t)
  BY <1>1, <1>4, SmallQuotient
<1> QED
  BY <1>2, <1>4, <1>5, <1>6

LEMMA FractionDigits ==
  ASSUME NEW t \in Int, NEW i \in 1..FracWidth
  PROVE  (Fraction(t) \div Power(FracWidth - i)) % Base = Front(t, YearWidth + 1 + i) % Base
<1> DEFINE q == Power(FracWidth - i)
           c == t \div Power(FracWidth)
           f == t % Power(FracWidth)
           e == f \div q
           r == f % q
           k == Power(i - 1)
<1>1. /\ FracWidth - i \in Nat /\ i - 1 \in Nat /\ i - 1 + 1 = i /\ i \in Nat
      /\ FracWidth = (FracWidth - i) + i /\ FracWidth \in Nat
      /\ Places - (YearWidth + 1 + i) = FracWidth - i /\ Base \in Nat \ {0}
  BY Widths
<1>2. /\ q \in Nat \ {0} /\ k \in Nat \ {0} /\ Power(i) = k * Base
      /\ Power(FracWidth) = q * (k * Base)
      /\ Power(FracWidth) \in Nat \ {0}
  <2>1. Power(i) = k * Base /\ Power(i) \in Nat \ {0}
    BY <1>1, PowerSteps
  <2>2. Power((FracWidth - i) + i) = q * Power(i)
    BY <1>1, PowerAdds
  <2> QED
    BY <1>1, <2>1, <2>2, PowerSteps
<1>3. c \in Int /\ f \in Int /\ t = Power(FracWidth) * c + f
  BY <1>2, Division
<1> HIDE DEF q, k, c, f
<1>4. e \in Int /\ r \in Int /\ f = q * e + r /\ 0 <= r /\ r < q
  BY <1>2, <1>3, Division
<1> HIDE DEF e, r
<1>5. t = q * ((k * Base) * c + e) + r
  <2>1. k * Base \in Int /\ (k * Base) * c \in Int
    BY <1>1, <1>2, <1>3
  <2>2. \A a, b, d \in Int : q * (a * b + d) = (q * a) * b + q * d
    BY <1>2
  <2>3. q * ((k * Base) * c + e) = (q * (k * Base)) * c + q * e
    <3> DEFINE a == k * Base
    <3>1. a \in Int
      BY <2>1
    <3> HIDE DEF a
    <3>2. q * (a * c + e) = (q * a) * c + q * e
      BY <1>3, <1>4, <2>2, <3>1
    <3> QED
      BY <3>2 DEF a
  <2>4. (q * (k * Base)) * c \in Int /\ q * e \in Int
    BY <1>2, <1>3, <1>4, <2>1
  <2> QED
    BY <1>2, <1>3, <1>4, <2>3, <2>4
<1>6. (k * Base) * c + e = Base * (k * c) + e /\ k * c \in Int /\ (k * Base) * c \in Int
  BY <1>1, <1>2, <1>3
<1>7. t \div q = Base * (k * c) + e
  <2>1. (k * Base) * c + e \in Int
    BY <1>4, <1>6
  <2>2. t \div q = (k * Base) * c + e
    BY <1>2, <1>4, <1>5, <2>1, DivisionIsUnique
  <2> QED
    BY <1>6, <2>2
<1>8. (Base * (k * c) + e) % Base = e % Base
  <2> DEFINE d == e \div Base
             m == e % Base
  <2>1. d \in Int /\ m \in Int /\ e = Base * d + m /\ 0 <= m /\ m < Base
    BY <1>1, <1>4, Division
  <2> HIDE DEF d, m
  <2>2. Base * (k * c) + e = Base * (k * c + d) + m
    <3>1. \A a, b \in Int : Base * (a + b) = Base * a + Base * b
      BY <1>1
    <3>2. Base * (k * c + d) = Base * (k * c) + Base * d
      BY <1>6, <2>1, <3>1
    <3>3. Base * (k * c) \in Int /\ Base * d \in Int
      BY <1>1, <1>6, <2>1
    <3> QED
      BY <2>1, <3>2, <3>3
  <2>3. k * c + d \in Int /\ Base * (k * c) + e \in Int
    BY <1>1, <1>4, <1>6, <2>1
  <2>4. (Base * (k * c) + e) % Base = m
    BY <1>1, <2>1, <2>2, <2>3, DivisionIsUnique
  <2> QED
    BY <2>4 DEF m
<1>9. Front(t, YearWidth + 1 + i) = t \div q
  BY <1>1 DEF Front, q
<1>10. Fraction(t) \div Power(FracWidth - i) = e
  BY DEF Fraction, e, f, q
<1> QED
  BY <1>7, <1>8, <1>9, <1>10

LEMMA TextIsDigits ==
  ASSUME NEW ts, UTC(ts) \in Int, YearOf(UTC(ts)) \in Years
  PROVE  TextOf(formatTime(ts), UTC(ts))
<1> DEFINE t == UTC(ts)
           y == YearOf(t)
           year == Digits(y, YearWidth)
           second == Digits(Second(t), 1)
           digits == Digits(Fraction(t), FracWidth)
           frac == <<Dot>> \o digits
           s1 == year \o <<Minus>>
           s2 == s1 \o second
           s3 == s2 \o frac
           s4 == s3 \o <<Zulu>>
<1>0. t \in Int /\ y \in Int /\ Second(t) \in Int /\ Fraction(t) \in Int /\ YearWidth \in Nat \ {0} /\ FracWidth \in Nat \ {0}
  <2>1. Power(FracWidth) \in Nat \ {0} /\ YearWidth \in Nat \ {0} /\ FracWidth \in Nat \ {0} /\ Base \in Nat \ {0}
    BY Widths
  <2>2. Fraction(t) \in Int
    BY <2>1, Division DEF Fraction
  <2>3. Second(t) \in 0..(Base - 1)
    BY SecondDigit
  <2>4. y \in 0..(Power(YearWidth) - 1) /\ Power(YearWidth) \in Nat
    BY Widths DEF Years
  <2> HIDE DEF t, y
  <2> QED
    BY <2>1, <2>2, <2>3, <2>4 DEF t
<1>1. formatTime(ts) = s4
  <2>1. y >= 0 /\ y < Power(YearWidth)
    <3>1. y \in 0..(Power(YearWidth) - 1) /\ Power(YearWidth) \in Nat
      BY Widths DEF Years
    <3> HIDE DEF y
    <3> QED
      BY <3>1
  <2> HIDE DEF y
  <2>2. YearText(y) = year
    BY <1>0, <2>1 DEF YearText
  <2> QED
    BY <2>2 DEF formatTime, Text, FractionText, y
<1>2. /\ <<Minus>> \in Seq(Int) /\ <<Dot>> \in Seq(Int) /\ <<Zulu>> \in Seq(Int)
      /\ Len(<<Minus>>) = 1 /\ Len(<<Dot>>) = 1 /\ Len(<<Zulu>>) = 1
      /\ <<Minus>>[1] = Minus /\ <<Dot>>[1] = Dot /\ <<Zulu>>[1] = Zulu
  BY DEF Minus, Dot, Zulu
<1> HIDE DEF t, y
<1>3. /\ year \in Seq(Int) /\ Len(year) = YearWidth
      /\ \A i \in 1..YearWidth : year[i] = Digit(Front(t, i) % Base)
  <2>1. /\ year \in Seq(Int) /\ Len(year) = YearWidth
        /\ \A i \in 1..YearWidth : year[i] = Digit((y \div Power(YearWidth - i)) % Base)
    BY <1>0, DigitsType
  <2>2. \A i \in 1..YearWidth : y \div Power(YearWidth - i) = Front(t, i)
    BY <1>0, YearDigits DEF y
  <2> QED
    BY <2>1, <2>2
<1>4. /\ second \in Seq(Int) /\ Len(second) = 1
      /\ second[1] = Digit(Front(t, YearWidth + 1) % Base)
  <2>1. /\ second \in Seq(Int) /\ Len(second) = 1
        /\ \A i \in 1..1 : second[i] = Digit((Second(t) \div Power(1 - i)) % Base)
    BY <1>0, DigitsType
  <2>2. second[1] = Digit((Second(t) \div Power(0)) % Base)
    BY <2>1
  <2> QED
    BY <1>0, <2>1, <2>2, SecondDigit
<1>5. /\ digits \in Seq(Int) /\ Len(digits) = FracWidth
      /\ \A i \in 1..FracWidth : digits[i] = Digit(Front(t, YearWidth + 1 + i) % Base)
  <2>1. /\ digits \in Seq(Int) /\ Len(digits) = FracWidth
        /\ \A i \in 1..FracWidth : digits[i] = Digit((Fraction(t) \div Power(FracWidth - i)) % Base)
    BY <1>0, DigitsType
  <2> QED
    BY <1>0, <2>1, FractionDigits
<1> HIDE DEF year, second, digits
<1>6. /\ frac \in Seq(Int) /\ Len(frac) = FracWidth + 1 /\ frac[1] = Dot
      /\ \A i \in 1..FracWidth : frac[i + 1] = digits[i]
  <2>1. /\ frac \in Seq(Int) /\ Len(frac) = 1 + FracWidth
        /\ \A i \in 1..1 : frac[i] = <<Dot>>[i]
        /\ \A i \in 1..FracWidth : frac[1 + i] = digits[i]
    BY <1>2, <1>5, Concatenation
  <2> HIDE DEF frac
  <2> QED
    BY <1>0, <1>2, <2>1
<1> HIDE DEF frac
<1>7. /\ s1 \in Seq(Int) /\ Len(s1) = YearWidth + 1 /\ s1[YearWidth + 1] = Minus
      /\ \A i \in 1..YearWidth : s1[i] = year[i]
  <2>1. /\ s1 \in Seq(Int) /\ Len(s1) = YearWidth + 1
        /\ \A i \in 1..YearWidth : s1[i] = year[i]
        /\ \A i \in 1..1 : s1[YearWidth + i] = <<Minus>>[i]
    BY <1>2, <1>3, Concatenation
  <2> HIDE DEF s1
  <2> QED
    BY <1>0, <1>2, <2>1
<1> HIDE DEF s1
<1>8. /\ s2 \in Seq(Int) /\ Len(s2) = YearWidth + 2 /\ s2[YearWidth + 2] = second[1]
      /\ \A i \in 1..(YearWidth + 1) : s2[i] = s1[i]
  <2>1. /\ s2 \in Seq(Int) /\ Len(s2) = YearWidth + 1 + 1
        /\ \A i \in 1..(YearWidth + 1) : s2[i] = s1[i]
        /\ \A i \in 1..1 : s2[YearWidth + 1 + i] = second[i]
    <3>1. /\ s2 \in Seq(Int) /\ Len(s2) = Len(s1) + Len(second)
          /\ \A i \in 1..Len(s1) : s2[i] = s1[i]
          /\ \A i \in 1..Len(second) : s2[Len(s1) + i] = second[i]
      BY <1>7, <1>4, Concatenation
    <3>2. Len(s1) = YearWidth + 1 /\ Len(second) = 1
      BY <1>7, <1>4
    <3> HIDE DEF s2
    <3> QED
      BY <3>1, <3>2
  <2>2. 1 \in 1..1 /\ YearWidth + 1 + 1 = YearWidth + 2
    BY <1>0
  <2> HIDE DEF s2
  <2> QED
    BY <1>0, <2>1, <2>2
<1> HIDE DEF s2
<1>9. /\ s3 \in Seq(Int) /\ Len(s3) = YearWidth + FracWidth + 3
      /\ \A i \in 1..(YearWidth + 2) : s3[i] = s2[i]
      /\ \A i \in 1..(FracWidth + 1) : s3[YearWidth + 2 + i] = frac[i]
  <2>1. /\ s3 \in Seq(Int) /\ Len(s3) = YearWidth + 2 + (FracWidth + 1)
        /\ \A i \in 1..(YearWidth + 2) : s3[i] = s2[i]
        /\ \A i \in 1..(FracWidth + 1) : s3[YearWidth + 2 + i] = frac[i]
    <3>1. /\ s3 \in Seq(Int) /\ Len(s3) = Len(s2) + Len(frac)
          /\ \A i \in 1..Len(s2) : s3[i] = s2[i]
          /\ \A i \in 1..Len(frac) : s3[Len(s2) + i] = frac[i]
      BY <1>8, <1>6, Concatenation
    <3>2. Len(s2) = YearWidth + 2 /\ Len(frac) = FracWidth + 1
      BY <1>8, <1>6
    <3> HIDE DEF s3
    <3> QED
      BY <3>1, <3>2
  <2>2. YearWidth + 2 + (FracWidth + 1) = YearWidth + FracWidth + 3
    BY <1>0
  <2> HIDE DEF s3
  <2> QED
    BY <2>1, <2>2
<1> HIDE DEF s3
<1>10. /\ s4 \in Seq(Int) /\ Len(s4) = YearWidth + FracWidth + 4
       /\ \A i \in 1..(YearWidth + FracWidth + 3) : s4[i] = s3[i]
       /\ s4[YearWidth + FracWidth + 4] = Zulu
  <2>1. /\ s4 \in Seq(Int) /\ Len(s4) = YearWidth + FracWidth + 3 + 1
        /\ \A i \in 1..(YearWidth + FracWidth + 3) : s4[i] = s3[i]
        /\ \A i \in 1..1 : s4[YearWidth + FracWidth + 3 + i] = <<Zulu>>[i]
    BY <1>9, <1>2, Concatenation
  <2>2. 1 \in 1..1 /\ YearWidth + FracWidth + 3 + 1 = YearWidth + FracWidth + 4
    BY <1>0
  <2> HIDE DEF s4
  <2> QED
    BY <1>2, <2>1, <2>2
<1> HIDE DEF s4
<1>11. \A i \in 1..(YearWidth + 1) : s4[i] = s1[i]
  <2> SUFFICES ASSUME NEW i \in 1..(YearWidth + 1) PROVE s4[i] = s1[i]
    OBVIOUS
  <2>1. i \in 1..(YearWidth + 2) /\ i \in 1..(YearWidth + FracWidth + 3)
    BY <1>0
  <2> QED
    BY <1>8, <1>9, <1>10, <2>1
<1>12. \A i \in 1..YearWidth : s4[i] = Digit(Front(t, i) % Base)
  <2> SUFFICES ASSUME NEW i \in 1..YearWidth PROVE s4[i] = Digit(Front(t, i) % Base)
    OBVIOUS
  <2>1. i \in 1..(YearWidth + 1)
    BY <1>0
  <2> QED
    BY <1>3, <1>7, <1>11, <2>1
<1>13. s4[YearWidth + 1] = Minus
  <2>1. YearWidth + 1 \in 1..(YearWidth + 1)
    BY <1>0
  <2> QED
    BY <1>7, <1>11, <2>1
<1>14. s4[YearWidth + 2] = Digit(Front(t, YearWidth + 1) % Base)
  <2>1. YearWidth + 2 \in 1..(YearWidth + 2) /\ YearWidth + 2 \in 1..(YearWidth + FracWidth + 3)
    BY <1>0
  <2> QED
    BY <1>4, <1>8, <1>9, <1>10, <2>1
<1>15. \A i \in 1..(FracWidth + 1) : s4[YearWidth + 2 + i] = frac[i]
  <2> SUFFICES ASSUME NEW i \in 1..(FracWidth + 1) PROVE s4[YearWidth + 2 + i] = frac[i]
    OBVIOUS
  <2>1. YearWidth + 2 + i \in 1..(YearWidth + FracWidth + 3)
    BY <1>0
  <2>2. s3[YearWidth + 2 + i] = frac[i]
    BY <1>9
  <2> QED
    BY <1>10, <2>1, <2>2
<1>16. s4[YearWidth + 3] = Dot
  <2>1. 1 \in 1..(FracWidth + 1) /\ YearWidth + 2 + 1 = YearWidth + 3
    BY <1>0
  <2> QED
    BY <1>6, <1>15, <2>1
<1>17. \A i \in 1..FracWidth : s4[YearWidth + 3 + i] = Digit(Front(t, YearWidth + 1 + i) % Base)
  <2> SUFFICES ASSUME NEW i \in 1..FracWidth
               PROVE  s4[YearWidth + 3 + i] = Digit(Front(t, YearWidth + 1 + i) % Base)
    OBVIOUS
  <2>1. i + 1 \in 1..(FracWidth + 1) /\ YearWidth + 2 + (i + 1) = YearWidth + 3 + i
    BY <1>0
  <2> QED
    BY <1>5, <1>6, <1>15, <2>1
<1>18. TextOf(s4, t)
  BY <1>10, <1>12, <1>13, <1>14, <1>16, <1>17 DEF TextOf
<1> QED
  BY <1>1, <1>18 DEF t

-----------------------------------------------------------------------------
(* Reading the digits gives the instant back. *)

(* read of NumberOf is a recursive function: any function that satisfies its *)
(* equation is the one it denotes.                                           *)
LEMMA ReadsNumber ==
  ASSUME NEW text \in Seq(Int), NEW f,
         f = [i \in 0..Len(text) |-> IF i = 0 THEN 0 ELSE f[i - 1] * Base + Value(text[i])]
  PROVE  NumberOf(text) = f[Len(text)]
<1> DEFINE Reads(h) == h = [i \in 0..Len(text) |-> IF i = 0 THEN 0 ELSE h[i - 1] * Base + Value(text[i])]
           g == CHOOSE h : Reads(h)
           P == {i \in Nat : i <= Len(text) => f[i] = g[i]}
<1>1. Reads(g)
  <2>1. Reads(f)
    OBVIOUS
  <2> HIDE DEF Reads
  <2> QED
    BY <2>1
<1>2. NumberOf(text) = g[Len(text)]
  BY DEF NumberOf
<1>3. Len(text) \in Nat
  OBVIOUS
<1> HIDE DEF g
<1>4. 0 \in P
  <2>1. g[0] = 0 /\ f[0] = 0
    BY <1>1, <1>3
  <2> QED
    BY <2>1
<1>5. ASSUME NEW i \in Nat, i \in P PROVE i + 1 \in P
  <2> SUFFICES ASSUME i + 1 <= Len(text) PROVE f[i + 1] = g[i + 1]
    OBVIOUS
  <2>1. i + 1 \in 0..Len(text) /\ i + 1 # 0 /\ i + 1 - 1 = i /\ f[i] = g[i]
    BY <1>3, <1>5
  <2>2. f[i + 1] = f[i] * Base + Value(text[i + 1])
    BY <2>1
  <2>3. g[i + 1] = g[i] * Base + Value(text[i + 1])
    BY <1>1, <2>1
  <2> QED
    BY <2>1, <2>2, <2>3
<1> HIDE DEF P
<1>6. Nat \subseteq P
  BY <1>4, <1>5, SetInduction
<1> QED
  BY <1>2, <1>3, <1>6 DEF P

(* Digits that continue those of an instant after its first p.               *)
LEMMA ReadsDigits ==
  ASSUME NEW t \in Int, NEW text \in Seq(Int), NEW p \in Nat, p + Len(text) <= Places,
         \A i \in 1..Len(text) : text[i] = Digit(Front(t, p + i) % Base)
  PROVE  NumberOf(text) = Front(t, p + Len(text)) - Front(t, p) * Power(Len(text))
<1> DEFINE e(i) == Front(t, p + i) - Front(t, p) * Power(i)
           f == [i \in 0..Len(text) |-> e(i)]
<1>1. Len(text) \in Nat /\ Places \in Nat /\ Base \in Nat \ {0}
  BY Widths
<1>2. \A i \in 0..Len(text) : i \in Nat /\ p + i \in 0..Places /\ Front(t, p + i) \in Int /\ Power(i) \in Nat \ {0}
  <2> SUFFICES ASSUME NEW i \in 0..Len(text)
               PROVE  i \in Nat /\ p + i \in 0..Places /\ Front(t, p + i) \in Int /\ Power(i) \in Nat \ {0}
    OBVIOUS
  <2>1. i \in Nat /\ p + i \in 0..Places
    BY <1>1
  <2> QED
    BY <2>1, FrontType, PowerSteps
<1>3. Front(t, p) \in Int
  BY <1>1, FrontType
<1>4. e(0) = 0
  BY <1>3, PowerSteps
<1>5. ASSUME NEW i \in 1..Len(text)
      PROVE  e(i) = e(i - 1) * Base + Value(text[i])
  <2> DEFINE a == Front(t, p)
             b == Front(t, p + (i - 1))
             d == Front(t, p + i) % Base
             q == Power(i - 1)
  <2>1. i - 1 \in 0..Len(text) /\ i \in 0..Len(text) /\ i - 1 \in Nat /\ i - 1 + 1 = i /\ p + i \in 1..Places /\ p + (i - 1) = p + i - 1
    BY <1>1
  <2>2. Front(t, p + i) = b * Base + d
    BY <2>1, FrontSteps
  <2>3. Power(i) = q * Base
    BY <2>1, PowerSteps
  <2>4. a \in Int /\ b \in Int /\ q \in Int /\ d \in Int
    <3>1. a \in Int /\ b \in Int /\ q \in Int
      BY <1>2, <1>3, <2>1
    <3>2. Front(t, p + i) \in Int
      BY <1>2, <2>1
    <3>3. d \in Int
      BY <1>1, <3>2, Division
    <3> QED
      BY <3>1, <3>3
  <2>5. Value(text[i]) = d
    <3>1. text[i] = Digit(d)
      OBVIOUS
    <3> HIDE DEF d
    <3> QED
      BY <2>4, <3>1 DEF Value, Digit
  <2>6. e(i) = (b * Base + d) - a * (q * Base) /\ e(i - 1) = b - a * q
    BY <2>2, <2>3
  <2> HIDE DEF a, b, d, q, e
  <2>7. (b - a * q) * Base = b * Base - a * (q * Base)
    <3>1. a * q \in Int /\ (a * q) * Base = a * (q * Base)
      BY <1>1, <2>4
    <3>2. \A m \in Int : (b - m) * Base = b * Base - m * Base
      BY <1>1, <2>4
    <3>3. (b - a * q) * Base = b * Base - (a * q) * Base
      BY <3>1, <3>2
    <3> QED
      BY <3>1, <3>3
  <2>8. b * Base \in Int /\ a * (q * Base) \in Int
    BY <1>1, <2>4
  <2> QED
    BY <2>4, <2>5, <2>6, <2>7, <2>8
<1>6. f = [i \in 0..Len(text) |-> IF i = 0 THEN 0 ELSE f[i - 1] * Base + Value(text[i])]
  <2> HIDE DEF e
  <2>1. ASSUME NEW i \in 0..Len(text)
        PROVE  f[i] = IF i = 0 THEN 0 ELSE f[i - 1] * Base + Value(text[i])
    <3>1. CASE i = 0
      BY <3>1, <1>1, <1>4
    <3>2. CASE i # 0
      <4>1. i \in 1..Len(text) /\ i - 1 \in 0..Len(text)
        BY <1>1, <3>2
      <4>2. f[i] = e(i) /\ f[i - 1] = e(i - 1)
        BY <4>1
      <4> HIDE DEF f
      <4> QED
        BY <1>5, <3>2, <4>1, <4>2
    <3> QED
      BY <3>1, <3>2
  <2>2. f = [i \in 0..Len(text) |-> f[i]]
    OBVIOUS
  <2> HIDE DEF f
  <2> QED
    BY <2>1, <2>2
<1>7. f[Len(text)] = e(Len(text))
  BY <1>1
<1> HIDE DEF f, e
<1>8. NumberOf(text) = f[Len(text)]
  BY <1>6, ReadsNumber
<1> QED
  BY <1>7, <1>8 DEF e

LEMMA SubSeqElements ==
  ASSUME NEW s \in Seq(Int), NEW m \in 1..(Len(s) + 1), NEW n \in (m - 1)..Len(s)
  PROVE  /\ SubSeq(s, m, n) \in Seq(Int) /\ Len(SubSeq(s, m, n)) = n - m + 1
         /\ \A i \in 1..(n - m + 1) : SubSeq(s, m, n)[i] = s[m - 1 + i]
OBVIOUS

LEMMA DigitIsDigit ==
  ASSUME NEW t \in Int, NEW p \in 0..Places
  PROVE  /\ Front(t, p) % Base \in Int /\ IsDigit(Digit(Front(t, p) % Base))
         /\ Value(Digit(Front(t, p) % Base)) = Front(t, p) % Base
<1> DEFINE d == Front(t, p) % Base
<1>1. d \in 0..(Base - 1)
  <2>1. Front(t, p) \in Int /\ Base \in Nat \ {0}
    BY FrontType, Widths
  <2> QED
    BY <2>1, Division
<1> HIDE DEF d
<1>2. d \in Int /\ Value(Digit(d)) = d
  BY <1>1, Widths DEF Value, Digit
<1>3. IsDigit(Digit(d))
  BY <1>1 DEF IsDigit
<1> QED
  BY <1>2, <1>3 DEF d

LEMMA TextReadsBack ==
  ASSUME NEW t \in Int, YearOf(t) \in Years, NEW s, TextOf(s, t)
  PROVE  parseTime(s) = t
<1> DEFINE W == YearWidth
           F == FracWidth
           year == SubSeq(s, 1, W)
           frac == SubSeq(s, W + 4, Len(s) - 1)
<1>1. /\ W \in Nat \ {0} /\ F \in Nat \ {0} /\ Places = W + F + 1 /\ Base \in Nat \ {0}
      /\ Places \in Nat
  BY Widths
<1>2. /\ s \in Seq(Int) /\ Len(s) = W + F + 4
      /\ \A i \in 1..W : s[i] = Digit(Front(t, i) % Base)
      /\ s[W + 1] = Minus
      /\ s[W + 2] = Digit(Front(t, W + 1) % Base)
      /\ s[W + 3] = Dot
      /\ \A i \in 1..F : s[W + 3 + i] = Digit(Front(t, W + 1 + i) % Base)
      /\ s[Len(s)] = Zulu
  BY DEF TextOf
<1>3. /\ year \in Seq(Int) /\ Len(year) = W
      /\ \A i \in 1..W : year[i] = Digit(Front(t, i) % Base)
  <2>1. 1 \in 1..(Len(s) + 1) /\ W \in (1 - 1)..Len(s) /\ W - 1 + 1 = W
    BY <1>1, <1>2
  <2>2. /\ year \in Seq(Int) /\ Len(year) = W - 1 + 1
        /\ \A i \in 1..(W - 1 + 1) : year[i] = s[1 - 1 + i]
    BY <1>2, <2>1, SubSeqElements
  <2>3. \A i \in 1..W : 1 - 1 + i = i
    BY <1>1
  <2> QED
    BY <1>2, <2>1, <2>2, <2>3
<1>4. /\ frac \in Seq(Int) /\ Len(frac) = F
      /\ \A i \in 1..F : frac[i] = Digit(Front(t, W + 1 + i) % Base)
  <2>1. /\ W + 4 \in 1..(Len(s) + 1) /\ Len(s) - 1 \in (W + 4 - 1)..Len(s)
        /\ Len(s) - 1 - (W + 4) + 1 = F
    BY <1>1, <1>2
  <2>2. /\ frac \in Seq(Int) /\ Len(frac) = Len(s) - 1 - (W + 4) + 1
        /\ \A i \in 1..(Len(s) - 1 - (W + 4) + 1) : frac[i] = s[((W + 4) - 1) + i]
    <3> DEFINE m == W + 4
               n == Len(s) - 1
    <3>1. m \in 1..(Len(s) + 1) /\ n \in (m - 1)..Len(s)
      BY <1>1, <1>2
    <3> HIDE DEF m, n
    <3>2. /\ SubSeq(s, m, n) \in Seq(Int) /\ Len(SubSeq(s, m, n)) = n - m + 1
          /\ \A i \in 1..(n - m + 1) : SubSeq(s, m, n)[i] = s[m - 1 + i]
      BY <1>2, <3>1, SubSeqElements
    <3> QED
      BY <3>2 DEF m, n, frac
  <2>3. \A i \in 1..F : ((W + 4) - 1) + i = W + 3 + i
    BY <1>1
  <2> QED
    BY <1>2, <2>1, <2>2, <2>3
<1> HIDE DEF year, frac
<1>5. NumberOf(year) = Front(t, W)
  <2>1. \A i \in 1..Len(year) : year[i] = Digit(Front(t, 0 + i) % Base)
    BY <1>1, <1>3
  <2>2. NumberOf(year) = Front(t, 0 + Len(year)) - Front(t, 0) * Power(Len(year))
    <3>1. 0 \in Nat /\ 0 + Len(year) <= Places
      BY <1>1, <1>3
    <3> QED
      BY <1>3, <2>1, <3>1, ReadsDigits
  <2>3. Front(t, 0) = 0 /\ Front(t, W) \in Int /\ Power(W) \in Nat
    <3>1. W \in 0..Places
      BY <1>1
    <3> QED
      BY <1>1, <3>1, FrontEnds, FrontType, PowerSteps
  <2> QED
    BY <1>1, <1>3, <2>2, <2>3
<1>6. NumberOf(frac) = t - Front(t, W + 1) * Power(F)
  <2>1. \A i \in 1..Len(frac) : frac[i] = Digit(Front(t, (W + 1) + i) % Base)
    BY <1>4
  <2>2. W + 1 \in Nat /\ (W + 1) + Len(frac) <= Places /\ (W + 1) + F = Places
    BY <1>1, <1>4
  <2>3. NumberOf(frac) = Front(t, (W + 1) + Len(frac)) - Front(t, W + 1) * Power(Len(frac))
    BY <1>4, <2>1, <2>2, ReadsDigits
  <2> QED
    BY <1>4, <2>2, <2>3, FrontEnds
<1>7. NumberOf(year) * Base + Value(s[W + 2]) = Front(t, W + 1)
  <2>1. W + 1 \in 1..Places /\ W + 1 \in 0..Places /\ W + 1 - 1 = W
    BY <1>1
  <2>2. Value(s[W + 2]) = Front(t, W + 1) % Base
    BY <1>2, <2>1, DigitIsDigit
  <2>3. Front(t, W + 1) = Front(t, W) * Base + (Front(t, W + 1) % Base)
    <3> DEFINE p == W + 1
    <3>1. p \in 1..Places /\ p - 1 = W
      BY <1>1, <2>1
    <3> HIDE DEF p
    <3>2. Front(t, p) = Front(t, p - 1) * Base + (Front(t, p) % Base)
      BY <3>1, FrontSteps
    <3> QED
      BY <3>1, <3>2 DEF p
  <2> QED
    BY <1>5, <2>2, <2>3
<1>8. /\ Len(s) > W + 4 /\ Len(s) > W + 3
      /\ \A i \in 1..W : IsDigit(s[i])
      /\ IsDigit(s[W + 2])
      /\ \A i \in DOMAIN frac : IsDigit(frac[i])
  <2>1. Len(s) > W + 4 /\ Len(s) > W + 3
    BY <1>1, <1>2
  <2>2. \A i \in 1..W : IsDigit(s[i])
    <3> SUFFICES ASSUME NEW i \in 1..W PROVE IsDigit(s[i])
      OBVIOUS
    <3>1. i \in 0..Places
      BY <1>1
    <3> QED
      BY <1>2, <3>1, DigitIsDigit
  <2>3. IsDigit(s[W + 2])
    <3>1. W + 1 \in 0..Places
      BY <1>1
    <3> QED
      BY <1>2, <3>1, DigitIsDigit
  <2>4. \A i \in DOMAIN frac : IsDigit(frac[i])
    <3> SUFFICES ASSUME NEW i \in DOMAIN frac PROVE IsDigit(frac[i])
      OBVIOUS
    <3>1. i \in 1..F
      BY <1>4
    <3>2. W + 1 + i \in 0..Places
      BY <1>1, <3>1
    <3> QED
      BY <1>4, <3>1, <3>2, DigitIsDigit
  <2> QED
    BY <2>1, <2>2, <2>3, <2>4
<1>9. parseTime(s) = (NumberOf(year) * Base + Value(s[W + 2])) * Power(F) + NumberOf(frac) * Power(F - Len(frac))
  BY <1>2, <1>8 DEF parseTime, year, frac
<1>10. F - Len(frac) = 0 /\ Power(0) = 1
  BY <1>1, <1>4, PowerSteps
<1>11. Front(t, W + 1) * Power(F) \in Int
  <2>1. W + 1 \in 0..Places
    BY <1>1
  <2> QED
    BY <1>1, <2>1, FrontType, PowerSteps
<1>12. parseTime(s) = Front(t, W + 1) * Power(F) + (t - Front(t, W + 1) * Power(F)) * 1
  BY <1>6, <1>7, <1>9, <1>10
<1> QED
  BY <1>11, <1>12

-----------------------------------------------------------------------------
(* Byte order is time order. *)
LEMMA TextsOfOneLength ==
  ASSUME NEW s, NEW t, NEW x, NEW y, TextOf(x, s), TextOf(y, t)
  PROVE  TextLE(x, y) <=>
           \/ \E i \in 1..Len(x) : x[i] < y[i] /\ \A j \in 1..(i - 1) : x[j] = y[j]
           \/ \A j \in 1..Len(x) : x[j] = y[j]
<1>1. Len(x) \in Nat /\ Len(y) = Len(x)
  BY Widths DEF TextOf
<1> DEFINE n == CHOOSE k \in {Len(x), Len(y)} : k <= Len(x) /\ k <= Len(y)
<1>2. n = Len(x)
  BY <1>1
<1> HIDE DEF n
<1> QED
  BY <1>2 DEF TextLE, n

\* Where the digit of a place stands in the text.
At(p) == IF p <= YearWidth THEN p ELSE IF p = YearWidth + 1 THEN p + 1 ELSE p + 2

LEMMA DigitsStand ==
  ASSUME NEW t, NEW s, TextOf(s, t), NEW p \in 1..Places
  PROVE  At(p) \in 1..Len(s) /\ s[At(p)] = Digit(Front(t, p) % Base)
<1>1. /\ YearWidth \in Nat \ {0} /\ FracWidth \in Nat \ {0} /\ Places = YearWidth + FracWidth + 1
  BY Widths
<1>2. Len(s) = YearWidth + FracWidth + 4
  BY DEF TextOf
<1>3. CASE p <= YearWidth
  <2>1. At(p) = p /\ p \in 1..YearWidth
    BY <1>1, <1>3 DEF At
  <2> QED
    BY <1>1, <1>2, <2>1 DEF TextOf
<1>4. CASE p = YearWidth + 1
  <2>1. At(p) = YearWidth + 2
    BY <1>1, <1>4 DEF At
  <2> QED
    BY <1>1, <1>2, <1>4, <2>1 DEF TextOf
<1>5. CASE p > YearWidth + 1
  <2> DEFINE i == p - (YearWidth + 1)
  <2>1. i \in 1..FracWidth /\ At(p) = YearWidth + 3 + i /\ YearWidth + 1 + i = p
    BY <1>1, <1>5 DEF At
  <2> HIDE DEF i
  <2>2. s[YearWidth + 3 + i] = Digit(Front(t, YearWidth + 1 + i) % Base)
    BY <2>1 DEF TextOf
  <2> QED
    BY <1>1, <1>2, <2>1, <2>2
<1> QED
  BY <1>1, <1>3, <1>4, <1>5

\* A character of a text is a mark, or the digit of a place.
LEMMA MarkOrDigit ==
  ASSUME NEW j \in 1..(YearWidth + FracWidth + 4)
  PROVE  \/ j \in {YearWidth + 1, YearWidth + 3, YearWidth + FracWidth + 4}
         \/ \E p \in 1..Places : At(p) = j
<1>1. /\ YearWidth \in Nat \ {0} /\ FracWidth \in Nat \ {0} /\ Places = YearWidth + FracWidth + 1
  BY Widths
<1>2. CASE j <= YearWidth
  <2>1. j \in 1..Places /\ At(j) = j
    BY <1>1, <1>2 DEF At
  <2> QED
    BY <2>1
<1>3. CASE j = YearWidth + 2
  <2>1. YearWidth + 1 \in 1..Places /\ At(YearWidth + 1) = j
    BY <1>1, <1>3 DEF At
  <2> QED
    BY <2>1
<1>4. CASE j > YearWidth + 3 /\ j < YearWidth + FracWidth + 4
  <2>1. j - 2 \in 1..Places /\ At(j - 2) = j
    BY <1>1, <1>4 DEF At
  <2> QED
    BY <2>1
<1> QED
  BY <1>1, <1>2, <1>3, <1>4

LEMMA PlacesAreOrdered ==
  ASSUME NEW p \in 1..Places, NEW q \in 1..Places, At(p) < At(q)
  PROVE  p < q
BY Widths DEF At

LEMMA EarlierReadsSmaller ==
  ASSUME NEW s \in Int, NEW t \in Int, YearOf(s) \in Years, YearOf(t) \in Years, s < t,
         NEW x, NEW y, TextOf(x, s), TextOf(y, t)
  PROVE  TextLE(x, y) /\ ~TextLE(y, x)
<1>1. PICK p \in 1..Places :
        /\ Front(s, p) % Base < Front(t, p) % Base
        /\ \A j \in 1..(p - 1) : Front(s, j) % Base = Front(t, j) % Base
  BY FirstDifference
<1>2. /\ Len(x) = YearWidth + FracWidth + 4 /\ Len(y) = Len(x) /\ Len(x) \in Nat /\ Places \in Nat
      /\ x \in Seq(Int) /\ y \in Seq(Int)
  BY Widths DEF TextOf
<1> DEFINE i == At(p)
<1>3. i \in 1..Len(x) /\ x[i] < y[i]
  <2>1. i \in 1..Len(x) /\ x[i] = Digit(Front(s, p) % Base) /\ y[i] = Digit(Front(t, p) % Base)
    BY DigitsStand
  <2>2. p \in 0..Places
    BY <1>2
  <2>3. Front(s, p) % Base \in Int /\ Front(t, p) % Base \in Int
    BY <2>2, DigitIsDigit
  <2> QED
    BY <1>1, <2>1, <2>3 DEF Digit
<1>4. \A j \in 1..(i - 1) : x[j] = y[j]
  <2> SUFFICES ASSUME NEW j \in 1..(i - 1) PROVE x[j] = y[j]
    OBVIOUS
  <2>1. j \in 1..(YearWidth + FracWidth + 4) /\ j < At(p)
    <3>1. i \in 1..Len(x) /\ Len(x) \in Nat
      BY <1>2, <1>3
    <3>2. j \in 1..(i - 1) /\ i = At(p)
      OBVIOUS
    <3> HIDE DEF i
    <3>3. j \in 1..Len(x) /\ j < i
      BY <3>1, <3>2
    <3> QED
      BY <1>2, <3>2, <3>3
  <2>2. CASE j \in {YearWidth + 1, YearWidth + 3, YearWidth + FracWidth + 4}
    BY <2>2 DEF TextOf
  <2>3. CASE \E q \in 1..Places : At(q) = j
    <3>1. PICK q \in 1..Places : At(q) = j
      BY <2>3
    <3>2. q < p
      BY <2>1, <3>1, PlacesAreOrdered
    <3>3. q \in 1..(p - 1)
      BY <1>2, <3>2
    <3> QED
      BY <1>1, <3>1, <3>3, DigitsStand
  <2> QED
    BY <2>1, <2>2, <2>3, MarkOrDigit
<1> HIDE DEF i
<1>5. TextLE(x, y)
  BY <1>3, <1>4, TextsOfOneLength
<1>6. \A j \in 1..Len(x) : x[j] \in Int /\ y[j] \in Int
  BY <1>2
<1>7. ~TextLE(y, x)
  <2>1. SUFFICES ASSUME \/ \E k \in 1..Len(x) : y[k] < x[k] /\ \A j \in 1..(k - 1) : y[j] = x[j]
                        \/ \A j \in 1..Len(x) : y[j] = x[j]
                 PROVE  FALSE
    <3>1. TextLE(y, x) <=>
            \/ \E k \in 1..Len(y) : y[k] < x[k] /\ \A j \in 1..(k - 1) : y[j] = x[j]
            \/ \A j \in 1..Len(y) : y[j] = x[j]
      BY TextsOfOneLength
    <3>2. Len(y) = Len(x)
      BY <1>2
    <3> QED
      BY <3>1, <3>2
  <2>2. CASE \A j \in 1..Len(x) : y[j] = x[j]
    BY <1>3, <1>6, <2>2
  <2>3. CASE \E k \in 1..Len(x) : y[k] < x[k] /\ \A j \in 1..(k - 1) : y[j] = x[j]
    <3>1. PICK k \in 1..Len(x) : y[k] < x[k] /\ \A j \in 1..(k - 1) : y[j] = x[j]
      BY <2>3
    <3>2. i \in Int /\ k \in Int /\ x[i] # y[i] /\ x[k] # y[k] /\ ~(x[k] < y[k])
      BY <1>3, <1>6, <3>1
    <3>3. ~(i < k)
      BY <1>3, <3>1, <3>2
    <3>4. ~(k < i)
      BY <1>4, <3>1, <3>2
    <3> QED
      BY <1>3, <3>2, <3>3, <3>4
  <2> QED
    BY <2>1, <2>2, <2>3
<1> QED
  BY <1>5, <1>7

-----------------------------------------------------------------------------
(* The rows of the table are timestamps the decoder accepted. *)
Accepted == {ts \in [local : Locals, offset : Offsets] : Decodes(ts)}

StoredAccepted == stored \subseteq Accepted

LEMMA OnlyAcceptedStored == TimeSpec => []StoredAccepted
<1>1. TimeInit => StoredAccepted
  BY DEF TimeInit, StoredAccepted
<1>2. StoredAccepted /\ [TimeNext]_stored => StoredAccepted'
  BY DEF TimeNext, StoreRow, StoredAccepted, Accepted
<1> QED
  BY <1>1, <1>2, PTL DEF TimeSpec

(* No offset carries a timestamp's year out of the years that are written    *)
(* with YearWidth digits.  Without this the text does not sort like the time *)
(* (TextSortsLikeTime fails).                                                *)
InnerYears == \A ts \in Accepted : YearOf(UTC(ts)) \in Years

LEMMA AcceptedTimes ==
  ASSUME InnerYears, NEW ts \in Accepted
  PROVE  UTC(ts) \in Int /\ YearOf(UTC(ts)) \in Years /\ TextOf(formatTime(ts), UTC(ts))
<1>1. Power(FracWidth) \in Nat \ {0}
  BY Widths
<1>2. ts.local \in Int /\ ts.offset \in Int
  BY CalendarAssumption DEF Accepted
<1>3. UTC(ts) \in Int
  BY <1>1, <1>2 DEF UTC
<1> QED
  BY <1>3, TextIsDigits DEF InnerYears

LEMMA TextLikeTime ==
  ASSUME InnerYears, NEW r \in Accepted, NEW s \in Accepted
  PROVE  TextLE(formatTime(r), formatTime(s)) <=> UTC(r) <= UTC(s)
<1>1. /\ UTC(r) \in Int /\ YearOf(UTC(r)) \in Years /\ TextOf(formatTime(r), UTC(r))
      /\ UTC(s) \in Int /\ YearOf(UTC(s)) \in Years /\ TextOf(formatTime(s), UTC(s))
  BY AcceptedTimes
<1>2. CASE UTC(r) < UTC(s)
  BY <1>1, <1>2, EarlierReadsSmaller
<1>3. CASE UTC(s) < UTC(r)
  BY <1>1, <1>3, EarlierReadsSmaller
<1>4. CASE UTC(r) = UTC(s)
  <2>1. formatTime(r) = formatTime(s)
    BY <1>4 DEF formatTime
  <2>2. TextLE(formatTime(r), formatTime(s))
    BY <1>1, <2>1, TextsOfOneLength
  <2> QED
    BY <1>1, <1>4, <2>2
<1> QED
  BY <1>1, <1>2, <1>3, <1>4

LEMMA TextReadsLikeTime ==
  ASSUME InnerYears, NEW ts \in Accepted
  PROVE  parseTime(formatTime(ts)) = UTC(ts) /\ UTC(ts) \in Int
BY AcceptedTimes, TextReadsBack

LEMMA WindowsGoByTime ==
  ASSUME InnerYears, NEW w \in [from : Ends, to : Ends], NEW ts \in Accepted
  PROVE  InTextWindow(w, ts) <=> InTime(w, ts)
<1>1. w.from # NoBound => w.from \in Accepted
  BY DEF Ends, Accepted
<1>2. w.to # NoBound => w.to \in Accepted
  BY DEF Ends, Accepted
<1> QED
  BY <1>1, <1>2, TextLikeTime DEF InTextWindow, InTime

LEMMA RowsGoByTime == InnerYears /\ StoredAccepted => QueriesGoByTime
<1> SUFFICES ASSUME InnerYears, StoredAccepted PROVE QueriesGoByTime
  OBVIOUS
<1>1. \A ts \in stored : ts \in Accepted
  BY DEF StoredAccepted
<1>2. ASSUME NEW w \in [from : Ends, to : Ends]
      PROVE  List(stored, w) = {UTC(ts) : ts \in {r \in stored : InTime(w, r)}}
  <2>1. {r \in stored : InTextWindow(w, r)} = {r \in stored : InTime(w, r)}
    BY <1>1, WindowsGoByTime
  <2> DEFINE inside == {r \in stored : InTime(w, r)}
             found == {parseTime(formatTime(ts)) : ts \in inside}
  <2>2. \A ts \in inside : parseTime(formatTime(ts)) = UTC(ts) /\ UTC(ts) \in Int
    BY <1>1, TextReadsLikeTime
  <2> HIDE DEF inside
  <2>3. found = {UTC(ts) : ts \in inside}
    BY <2>2
  <2>4. Unreadable \notin found
    BY <2>2, UnreadableAssumption
  <2>5. List(stored, w) = IF Unreadable \in found THEN Unreadable ELSE found
    BY <2>1 DEF List, inside
  <2> QED
    BY <2>3, <2>4, <2>5 DEF inside
<1>3. Latest(stored) = {ts \in stored : \A other \in stored : UTC(other) <= UTC(ts)}
  BY <1>1, TextLikeTime DEF Latest
<1> QED
  BY <1>2, <1>3 DEF QueriesGoByTime

(* Whatever rows are stored, of years that keep their digits in UTC: lists,  *)
(* windows and the latest row go by the instant although the database only   *)
(* compares text, and each instant is read back as it was sent (formatTime,  *)
(* windowClause, parseTime).                                                 *)
THEOREM TextGoesByTime ==
  ASSUME InnerYears
  PROVE  TimeSpec => []QueriesGoByTime
<1>1. StoredAccepted => QueriesGoByTime
  BY RowsGoByTime
<1> QED
  BY <1>1, OnlyAcceptedStored, PTL
=============================================================================
