---------------------------- MODULE MCAcceptance ----------------------------
(* Small instances of Acceptance for TLC: two earlier runs, and the target's. *)
EXTENDS Acceptance

MCSize == [r \in Batches |-> 2]
=============================================================================
