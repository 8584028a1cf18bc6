--------------------------- MODULE MCEntitlements ---------------------------
(* A fan with three coins beside a legacy import: what is bought for coins,   *)
(* memberships with their deliveries, memberships while an import runs, and   *)
(* an import alone with three runs.                                           *)
EXTENDS LegacyImport

Groups == {{"content"}, {"orders"}, {"orders", "calendar"}, {"import"}, {"orders", "import"}}
Runs == [g \in Groups |-> CASE g = {"import"} -> 3 [] "import" \in g -> 2 [] OTHER -> 0]
Calls == [g \in Groups |-> CASE "content" \in g -> 3 [] "calendar" \in g -> 2 [] OTHER -> 1]
Tries == [g \in Groups |-> IF g = {"orders"} THEN 2 ELSE 1]
=============================================================================
