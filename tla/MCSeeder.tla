------------------------------ MODULE MCSeeder ------------------------------
(* Small instances of Seeder for TLC. *)
EXTENDS Seeder

MCSize == [r \in Batches |-> 2]
=============================================================================
