---------------------------- MODULE MCSeedOracle ----------------------------
(* Small instances of SeedOracle for TLC. *)
EXTENDS SeedOracle

Kinds == Range(Families) \ {"HEALTHY"}

MCPlan(fs, n, total) ==
  [f \in Kinds \cup {"total"} |-> IF f = "total" THEN total ELSE IF f \in fs THEN n ELSE 0]

(* Two transactions of one family, or one of each of two, beside one healthy *)
(* pair, and two healthy pairs alone, with a total below the minimum.        *)
MCPlans ==
  {MCPlan({f}, 2, 3) : f \in Kinds} \cup {MCPlan({"ORPHAN", f}, 1, 4) : f \in Kinds \ {"ORPHAN"}}
    \cup {MCPlan({"DUP-PROC", "DUP-MERCH"}, 1, 9), MCPlan({"GHOST-BADPROC", "LIMBO"}, 1, 5),
          MCPlan({}, 0, 2)}
=============================================================================
