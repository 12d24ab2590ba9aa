------------------------------- MODULE Alerts -------------------------------
(***************************************************************************)
(* GET /v1/alerts over a growing dataset: the process loads its             *)
(* configuration once, refuses to run with a bad one, and evaluates three   *)
(* rules on the counts and the health score of a window.                    *)
(***************************************************************************)
EXTENDS Dataset, Config

CONSTANT Environments   \* the environments the process may be started in

ASSUME EnvironmentsAssumption ==
  /\ Environments \subseteq [Settings -> Int \cup {Unset, Garbage, NaN}]
  /\ {Unset, Garbage, NaN} \cap Int = {}
  /\ Default \in [Settings -> Int]

\* run: the configurations a process serves with; it exits with 1 if Load fails.
Served == {Loaded(env) : env \in {e \in Environments : LoadError(e) = ""}}

-----------------------------------------------------------------------------
\* FindPendingLimbo with the thresholds the process was configured with.
LimboUnder(c, tab, w, at) ==
  {i \in OfSource(tab, "processor") :
     /\ tab[i].status = "pending"
     /\ InWindow(w, tab[i].at)
     /\ \/ tab[i].method = "pix" /\ tab[i].at < at - c["PIX_PENDING_THRESHOLD"]
        \/ tab[i].method = "boleto" /\ tab[i].at < at - c["BOLETO_PENDING_THRESHOLD"]}

\* CountsByWindow for the process: of the counts, only limbo depends on its configuration.
Configured(c, counts, tab, w, at) ==
  [counts EXCEPT !.limbo = Cardinality(LimboUnder(c, tab, w, at))]

\* AlertsService.Evaluate, on the counts of the window.
Triggered(c, counts) ==
  LET score == Score(counts)
  IN  {rule \in {"orphaned", "ghost", "score"} :
         CASE rule = "orphaned" -> counts.orphaned > c["ALERT_ORPHANED_THRESHOLD"]
           [] rule = "ghost"    -> counts.ghost > c["ALERT_GHOST_THRESHOLD"]
           [] rule = "score"    ->
                /\ c["ALERT_HEALTH_MIN"] # NaN
                /\ score[1] * 100 < c["ALERT_HEALTH_MIN"] * score[2]}

Anomalies(counts) == counts.orphaned + counts.ghost + counts.groups + counts.limbo

(* A window without anomalies never alerts, under any configuration the      *)
(* process accepts and for any share of the dataset, the empty one included; *)
(* and with ALERT_HEALTH_MIN at 1 every window with an anomaly of any kind   *)
(* does, though limbo and duplicates have no rule of their own (Evaluate,    *)
(* computeScore, Config.validate).                                           *)
AlertsFollowAnomalies ==
  \A w \in Windows :
    LET found == Counts(table, w, now)
    IN  \A c \in Served :
          LET counts == Configured(c, found, table, w, now)
          IN  IF Anomalies(counts) = 0 THEN Triggered(c, counts) = {}
              ELSE c["ALERT_HEALTH_MIN"] = 100 => "score" \in Triggered(c, counts)

\* A step brought the merchant row an orphaned approval lacked, a processor row of a
\* ghost order, a transaction the window did not know.
MerchantAnswered(w) ==
  \E i \in Ids(table') \ Ids(table) :
    table'[i].source = "merchant_order_system" /\ table'[i].id \in Orphaned(table, w)

ProcessorAnswered(w) ==
  \E i \in Ids(table') \ Ids(table) :
    table'[i].source = "processor" /\ table'[i].id \in Ghosts(table, w)

Diluted(w) == UniqueIn(table', w) # UniqueIn(table, w)

(* While a process runs, an alert on orphaned approvals goes away only       *)
(* because a merchant row came for one of them, one on ghost orders only     *)
(* because the processor came to another status.  The score rule has a third *)
(* way out, and only that one: it divides by the window's transactions, so   *)
(* a new transaction can silence it while every anomaly stands.  Neither     *)
(* time nor another row of a known transaction does (Evaluate, computeScore). *)
Answered ==
  \A w \in Windows :
    \A before \in {Counts(table, w, now)}, after \in {Counts(table', w, now')}, c \in Served :
      LET silenced == Triggered(c, Configured(c, before, table, w, now))
                        \ Triggered(c, Configured(c, after, table', w, now'))
      IN  /\ "orphaned" \in silenced => MerchantAnswered(w)
          /\ "ghost" \in silenced => ProcessorAnswered(w)
          /\ "score" \in silenced =>
               MerchantAnswered(w) \/ ProcessorAnswered(w) \/ Diluted(w)

AlertsNeedAnAnswer == [][Answered]_datasetVars
=============================================================================
