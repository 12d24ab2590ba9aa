------------------------------- MODULE Domain -------------------------------
(***************************************************************************)
(* The transaction record (internal/domain): what the ingest service        *)
(* accepts, and what the transactions table accepts.                        *)
(*                                                                          *)
(* A transaction is a record with the fields id, at, amount, currency,      *)
(* method, status, source and processor.  Text is abstracted to what the    *)
(* code tells apart: "" stands for every blank id or processor, "unknown"   *)
(* for every value outside an enumeration, at = 0 for Go's zero time.       *)
(***************************************************************************)
EXTENDS Integers

PaymentMethods == {"credit_card", "pix", "boleto"}
Statuses == {"approved", "declined", "pending", "failed", "refunded", "chargedback"}
Sources == {"processor", "merchant_order_system"}
CurrencyBRL == "BRL"

ZeroTime == 0

(***************************************************************************)
(* Transaction.Validate returns the first rule that fails, in this order;   *)
(* "" is the nil error.                                                     *)
(***************************************************************************)
\* Mutant of Rules: amounts are not checked.
RulesAnyAmount(t) == <<
  <<"transaction_id", t.id # "">>,
  <<"occurred_at",    t.at # ZeroTime>>,
  <<"amount_cents",   TRUE>>,
  <<"currency",       t.currency = CurrencyBRL>>,
  <<"payment_method", t.method \in PaymentMethods>>,
  <<"status",         t.status \in Statuses>>,
  <<"source",         t.source \in Sources>>,
  <<"processor",      t.processor # "">> >>

Rules(t) == <<
  <<"transaction_id", t.id # "">>,
  <<"occurred_at",    t.at # ZeroTime>>,
  <<"amount_cents",   t.amount > 0>>,
  <<"currency",       t.currency = CurrencyBRL>>,
  <<"payment_method", t.method \in PaymentMethods>>,
  <<"status",         t.status \in Statuses>>,
  <<"source",         t.source \in Sources>>,
  <<"processor",      t.processor # "">> >>

Failing(t) == {i \in 1..8 : ~Rules(t)[i][2]}

Validate(t) ==
  IF Failing(t) = {} THEN ""
  ELSE Rules(t)[CHOOSE i \in Failing(t) : \A j \in Failing(t) : i <= j][1]

Valid(t) == Validate(t) = ""

(***************************************************************************)
(* The CHECK constraints of schema.sql.  A row that breaks one fails its    *)
(* INSERT, and with it the whole batch.                                     *)
(***************************************************************************)
SchemaAccepts(t) ==
  /\ t.amount > 0
  /\ t.method \in PaymentMethods
  /\ t.status \in Statuses
  /\ t.source \in Sources
=============================================================================
