----------------------------- MODULE MCTimeText -----------------------------
(* Small instances of TimeText for TLC: two digits of two, four years. *)
EXTENDS TimeText

(* Across the end of the year 1: no UTC year leaves 0..3 with these offsets. *)
MCInnerYears == 10..19

(* The last second of the last year and the first of the first.              *)
MCEdges == {0, 3, 16, 28, 31}

MCOffsets == {-1, 0, 1}
=============================================================================
