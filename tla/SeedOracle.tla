----------------------------- MODULE SeedOracle -----------------------------
(***************************************************************************)
(* The seed's generator and its oracle (test/seed): generate appends one     *)
(* family of rows after another with random times, methods and outcomes and  *)
(* shuffles them; buildExpected says, from the constants alone, what the     *)
(* anomaly queries must find in them.                                        *)
(*                                                                          *)
(* The numbers of transactions per family are constants of the program; the  *)
(* model takes every plan in Plans, so that small ones can be checked.  The  *)
(* amount, the currency and the processor of a row are left out: no query    *)
(* that is compared here looks at them.                                      *)
(***************************************************************************)
EXTENDS Detection, SequencesExt

CONSTANTS Plans,         \* the constants NumOrphaned, ... and the --total asked for
          MinTotal,      \* 500, the least --total
          WindowStart, WindowEnd, BaseNow,
          MaxLag,        \* 120 s: how much later the merchant's row of a healthy pair may be
          GhostLead,     \* 30 s: how much earlier the denial of a ghost order is
          DupLag,        \* 10 s: how much later the merchant's row of DUP-PROC is
          MaxSwaps       \* bound: transpositions of the final shuffle

ASSUME SeedWindowAssumption ==
  /\ WindowStart \in Int /\ WindowEnd \in Int /\ WindowStart < WindowEnd
  /\ BaseNow \in Int /\ WindowEnd < Cutoff("pix", BaseNow) /\ WindowEnd < Cutoff("boleto", BaseNow)

ASSUME SeedLagsAssumption == GhostLead \in Nat /\ DupLag \in Nat

VARIABLES plan,    \* one of Plans
          made,    \* how many transactions of each family were generated
          txs,     \* the rows, in the order they will be posted
          swaps

seedVars == <<plan, made, txs, swaps>>

Families == <<"HEALTHY", "ORPHAN", "GHOST-NOPROC", "GHOST-BADPROC", "DUP-PROC", "DUP-MERCH", "LIMBO">>

AnomalyRows(p) ==
  p["ORPHAN"] + p["GHOST-NOPROC"] + 2 * p["GHOST-BADPROC"]
    + 4 * p["DUP-PROC"] + 3 * p["DUP-MERCH"] + p["LIMBO"]

Total(p) == Max({p.total, MinTotal})

HealthyPairs(p) == Max({1, (Total(p) - AnomalyRows(p) + 1) \div 2})

Wanted(f) == IF f = "HEALTHY" THEN HealthyPairs(plan) ELSE plan[f]

SeedInit ==
  /\ plan \in Plans
  /\ made = [f \in Range(Families) |-> 0]
  /\ txs = <<>>
  /\ swaps = 0

-----------------------------------------------------------------------------
\* randTimeIn: Int63n excludes the window's end.
RandTimes == WindowStart..(WindowEnd - 1)

\* Mutant of AtMostEnd: no clamp, the row may fall behind the window.
NoClamp(at) == at

AtMostEnd(at) == Min({at, WindowEnd})

AtLeastStart(at) == Max({at, WindowStart})

Row(id, at, method, status, source) ==
  [id |-> id, at |-> at, method |-> method, status |-> status, source |-> source]

Processor(id, at, method, status) == Row(id, at, method, status, "processor")

Merchant(id, at, method, status) == Row(id, at, method, status, "merchant_order_system")

\* The family's turn: all families before it are complete.
Turn(f) ==
  /\ made[f] < Wanted(f)
  /\ \A i, j \in DOMAIN Families : Families[j] = f /\ i < j => made[Families[i]] = Wanted(Families[i])

Emit(f, rows) ==
  /\ Turn(f)
  /\ txs' = txs \o rows
  /\ made' = [made EXCEPT ![f] = @ + 1]
  /\ UNCHANGED <<plan, swaps>>

Id(f) == <<f, made[f]>>

\* healthyPairOutcomes, without the weights.
Outcomes ==
  {[proc |-> "approved", merch |-> "approved", forceCC |-> FALSE],
   [proc |-> "approved", merch |-> "declined", forceCC |-> FALSE],
   [proc |-> "declined", merch |-> "declined", forceCC |-> FALSE],
   [proc |-> "declined", merch |-> "pending",  forceCC |-> FALSE],
   [proc |-> "pending",  merch |-> "approved", forceCC |-> TRUE]}

\* Mutant of HealthyMethods: forceCC is forgotten.
HealthyMethodsAny(o) == PaymentMethods

HealthyMethods(o) == IF o.forceCC THEN {"credit_card"} ELSE PaymentMethods

Healthy ==
  \E at \in RandTimes, lag \in 1..MaxLag, o \in Outcomes : \E m \in HealthyMethods(o) :
    Emit("HEALTHY", <<Processor(Id("HEALTHY"), at, m, o.proc),
                      Merchant(Id("HEALTHY"), AtMostEnd(at + lag), m, o.merch)>>)

Orphan ==
  \E at \in RandTimes, m \in PaymentMethods :
    Emit("ORPHAN", <<Processor(Id("ORPHAN"), at, m, "approved")>>)

GhostNoProc ==
  \E at \in RandTimes, m \in PaymentMethods :
    Emit("GHOST-NOPROC", <<Merchant(Id("GHOST-NOPROC"), at, m, "approved")>>)

GhostBadProc ==
  \E at \in RandTimes, m \in PaymentMethods :
    LET id == Id("GHOST-BADPROC")
        st == IF made["GHOST-BADPROC"] % 2 = 0 THEN "failed" ELSE "declined"
    IN  Emit("GHOST-BADPROC", <<Processor(id, AtLeastStart(at - GhostLead), m, st),
                                Merchant(id, at, m, "approved")>>)

DupLg ==
  \E at \in RandTimes, m \in PaymentMethods :
    LET id == Id("DUP-PROC")
    IN  Emit("DUP-PROC", [j \in 1..3 |-> Processor(id, AtMostEnd(at + j - 1), m, "approved")]
                           \o <<Merchant(id, AtMostEnd(at + DupLag), m, "approved")>>)

DupSm ==
  \E at \in RandTimes, m \in PaymentMethods :
    LET id == Id("DUP-MERCH")
    IN  Emit("DUP-MERCH", <<Processor(id, at, m, "approved")>>
                            \o [j \in 1..2 |-> Merchant(id, AtMostEnd(at + j), m, "approved")])

\* The first half are pix, the others boleto (PixLimboCount, BoletoLimboCount).
PendingLimbo ==
  \E at \in RandTimes :
    Emit("LIMBO", <<Processor(Id("LIMBO"), at,
                              IF 2 * made["LIMBO"] < plan["LIMBO"] THEN "pix" ELSE "boleto", "pending")>>)

Generated == \A f \in Range(Families) : made[f] = Wanted(f)

\* rng.Shuffle, a transposition at a time.
Shuffle ==
  /\ Generated /\ swaps < MaxSwaps
  /\ \E i, j \in DOMAIN txs :
       i < j /\ txs' = [txs EXCEPT ![i] = txs[j], ![j] = txs[i]]
  /\ swaps' = swaps + 1
  /\ UNCHANGED <<plan, made>>

SeedNext ==
  Healthy \/ Orphan \/ GhostNoProc \/ GhostBadProc \/ DupLg \/ DupSm \/ PendingLimbo \/ Shuffle

SeedSpec == SeedInit /\ [][SeedNext]_seedVars

-----------------------------------------------------------------------------
SeedWindow == [from |-> WindowStart, to |-> WindowEnd]

DupExtra(p) == p["DUP-PROC"] * (3 - 1) + p["DUP-MERCH"] * (2 - 1)

\* buildExpected: only the unique ids and the total are counted from the rows.
ExpectedCounts ==
  [orphaned |-> plan["ORPHAN"],
   ghost    |-> plan["GHOST-NOPROC"] + plan["GHOST-BADPROC"],
   groups   |-> plan["DUP-PROC"] + plan["DUP-MERCH"],
   extra    |-> DupExtra(plan),
   limbo    |-> plan["LIMBO"],
   unique   |-> Cardinality({txs[i].id : i \in {j \in DOMAIN txs : InWindow(SeedWindow, txs[j].at)}}),
   total    |-> Len(txs)]

ExpectedScore ==
  LET unique    == ExpectedCounts.unique
      anomalies == ExpectedCounts.orphaned + ExpectedCounts.ghost + DupExtra(plan) + ExpectedCounts.limbo
  IN  IF unique = 0 THEN <<1, 1>>
      ELSE IF anomalies > unique THEN <<0, 1>>
      ELSE <<unique - anomalies, unique>>

Numbered(f) == {<<f, n>> : n \in 0..(plan[f] - 1)}

\* buildExpectedIDs
ExpectedIDs ==
  [orphaned |-> Numbered("ORPHAN"),
   ghost    |-> Numbered("GHOST-NOPROC") \cup Numbered("GHOST-BADPROC"),
   groups   |-> Numbered("DUP-PROC") \cup Numbered("DUP-MERCH"),
   limbo    |-> Numbered("LIMBO")]

(* The oracle's numbers are what the queries and the score find in the       *)
(* generated rows, whatever was drawn and however they were shuffled: no     *)
(* healthy pair is an anomaly, no anomaly is one of two kinds, and every row  *)
(* lies in the window (generate, buildExpected).                             *)
OracleCounts ==
  Generated =>
    LET found == Counts(txs, SeedWindow, BaseNow)
    IN  found = ExpectedCounts /\ Score(found) = ExpectedScore

(* "Exactly these IDs and no others": each list of anomalies names the       *)
(* transactions buildExpectedIDs names.                                      *)
OracleIDs ==
  Generated =>
    /\ Orphaned(txs, SeedWindow) = ExpectedIDs.orphaned
    /\ Ghosts(txs, SeedWindow) = ExpectedIDs.ghost
    /\ {k[1] : k \in DuplicateKeys(txs, SeedWindow)} = ExpectedIDs.groups
    /\ TxOf(txs, LimboRows(txs, SeedWindow, BaseNow)) = ExpectedIDs.limbo
=============================================================================
