------------------------------ MODULE TimeText ------------------------------
(***************************************************************************)
(* occurred_at as the store keeps it (internal/repository/sqlite/sqlite.go):*)
(* a client's RFC 3339 timestamp is decoded, written as UTC text, compared   *)
(* as text by every query, and read back as an instant.                     *)
(*                                                                          *)
(* The calendar is scaled down: digits are of base Base, a year has          *)
(* YearWidth of them (four in the code) and one digit's worth of seconds,    *)
(* which stands for everything from the month to the second; a second has    *)
(* FracWidth digits of fraction (nine).  Instants are integers, counted in   *)
(* the last of those digits; a text is a sequence of character codes.        *)
(***************************************************************************)
EXTENDS Integers, Sequences, FiniteSets

CONSTANTS Base, YearWidth, FracWidth,
          Locals,      \* the local times clients send
          Offsets,     \* the UTC offsets they send with them, in seconds
          NoBound,     \* a nil Window.From or Window.To
          Unreadable,  \* parseTime fails
          MaxStored    \* bound: rows in the table

ASSUME CalendarAssumption ==
  /\ Base \in Nat \ {0, 1} /\ YearWidth \in Nat \ {0} /\ FracWidth \in Nat \ {0}
  /\ Locals \subseteq Int /\ Offsets \subseteq Int

ASSUME UnreadableAssumption == Unreadable \notin Int

VARIABLE stored     \* the timestamps of the rows of the table

power[n \in Nat] == IF n = 0 THEN 1 ELSE Base * power[n - 1]

Power(n) == power[n]

UTC(ts) == ts.local - ts.offset * Power(FracWidth)

YearOf(t) == t \div Power(FracWidth + 1)
Second(t) == (t \div Power(FracWidth)) % Base
Fraction(t) == t % Power(FracWidth)

\* What encoding/json accepts: the local year has YearWidth digits.
Decodes(ts) == YearOf(ts.local) \in 0..(Power(YearWidth) - 1)

-----------------------------------------------------------------------------
Minus == 45
Dot == 46
Zulu == 90
Digit(d) == 48 + d
IsDigit(ch) == ch \in {Digit(d) : d \in 0..(Base - 1)}

Value(ch) == ch - Digit(0)

Digits(n, width) == [i \in 1..width |-> Digit((n \div Power(width - i)) % Base)]

\* time.Format pads a year to four digits, takes more if it needs them, and has a sign for one below 0.
YearText(y) ==
  IF y < 0 THEN <<Minus>> \o Digits(-y, YearWidth)
  ELSE Digits(y, IF y < Power(YearWidth) THEN YearWidth ELSE YearWidth + 1)

Text(t, frac) == YearText(YearOf(t)) \o <<Minus>> \o Digits(Second(t), 1) \o frac \o <<Zulu>>

FractionText(t) == <<Dot>> \o Digits(Fraction(t), FracWidth)

\* Mutant of formatTime: the layout of RFC3339Nano, which trims zeros.
formatTimeTrimmed(ts) ==
  LET t == UTC(ts)
      f == Fraction(t)
      trimmed == {n \in 1..FracWidth : f % Power(FracWidth - n) = 0}
      width == CHOOSE n \in trimmed : \A m \in trimmed : n <= m
  IN  Text(t, IF f = 0 THEN <<>> ELSE SubSeq(FractionText(t), 1, width + 1))

formatTime(ts) == Text(UTC(ts), FractionText(UTC(ts)))

NumberOf(text) ==
  LET read[i \in 0..Len(text)] == IF i = 0 THEN 0 ELSE read[i - 1] * Base + Value(text[i])
  IN  read[Len(text)]

\* parseTime: a year of exactly YearWidth digits; RFC3339Nano, the second layout, takes any fraction or none.
parseTime(text) ==
  LET frac == SubSeq(text, YearWidth + 4, Len(text) - 1)
  IN  IF /\ Len(text) = YearWidth + 3 \/ Len(text) > YearWidth + 4
         /\ \A i \in 1..YearWidth : IsDigit(text[i])
         /\ text[YearWidth + 1] = Minus /\ IsDigit(text[YearWidth + 2])
         /\ text[Len(text)] = Zulu
         /\ Len(text) > YearWidth + 3 => text[YearWidth + 3] = Dot /\ \A i \in DOMAIN frac : IsDigit(frac[i])
      THEN (NumberOf(SubSeq(text, 1, YearWidth)) * Base + Value(text[YearWidth + 2])) * Power(FracWidth)
             + NumberOf(frac) * Power(FracWidth - Len(frac))
      ELSE Unreadable

\* SQLite compares TEXT byte by byte.
TextLE(s, u) ==
  LET n == CHOOSE k \in {Len(s), Len(u)} : k <= Len(s) /\ k <= Len(u)
  IN  \/ \E i \in 1..n : s[i] < u[i] /\ \A j \in 1..(i - 1) : s[j] = u[j]
      \/ Len(s) = n /\ \A j \in 1..n : s[j] = u[j]

-----------------------------------------------------------------------------
TimeInit == stored = {}

\* An INSERT, of a row whose timestamp the decoder accepted.
StoreRow(ts) ==
  /\ Decodes(ts) /\ Cardinality(stored) < MaxStored
  /\ stored' = stored \cup {ts}

TimeNext == \E ts \in [local : Locals, offset : Offsets] : StoreRow(ts)

TimeSpec == TimeInit /\ [][TimeNext]_stored

\* windowClause over the text column; the ends are formatted like the rows.
InTextWindow(w, ts) ==
  /\ w.from # NoBound => TextLE(formatTime(w.from), formatTime(ts))
  /\ w.to # NoBound => TextLE(formatTime(ts), formatTime(w.to))

\* A list of the rows in a window: one row that cannot be read fails the whole of it.
List(rows, w) ==
  LET found == {parseTime(formatTime(ts)) : ts \in {r \in rows : InTextWindow(w, r)}}
  IN  IF Unreadable \in found THEN Unreadable ELSE found

Latest(rows) == {ts \in rows : \A other \in rows : TextLE(formatTime(other), formatTime(ts))}

-----------------------------------------------------------------------------
Ends == {NoBound} \cup {ts \in [local : Locals, offset : Offsets] : Decodes(ts)}

InTime(w, ts) ==
  /\ w.from # NoBound => UTC(w.from) <= UTC(ts)
  /\ w.to # NoBound => UTC(ts) <= UTC(w.to)

(* Comparing the text is comparing the instants: a list has exactly the rows *)
(* that occurred in its window, whatever offsets the client wrote them with, *)
(* each comes back as the instant it was sent as, and the row proc_latest    *)
(* takes (ORDER BY occurred_at DESC) is the last one in time (formatTime,    *)
(* windowClause, parseTime).                                                 *)
QueriesGoByTime ==
  /\ \A w \in [from : Ends, to : Ends] :
       List(stored, w) = {UTC(ts) : ts \in {r \in stored : InTime(w, r)}}
  /\ Latest(stored) = {ts \in stored : \A other \in stored : UTC(other) <= UTC(ts)}

(* sqlite.go:18-20, ARCHITECTURE.md: the text sorts like the time.  Stated   *)
(* for every timestamp the decoder accepts.                                  *)
TextSortsLikeTime ==
  \A r, s \in stored : TextLE(formatTime(r), formatTime(s)) <=> UTC(r) <= UTC(s)
=============================================================================
