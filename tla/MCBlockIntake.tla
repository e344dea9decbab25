---------------------------- MODULE MCBlockIntake ----------------------------
(* Branch a with the checkpoint a2; a fork f whose first block is heavier    *)
(* than a2 and whose second, heavier yet, contradicts the checkpoint, so that*)
(* validateHeader refuses it; x3, which no replay accepts, found out only    *)
(* when x4 makes its chain heavier than a3.                                  *)
EXTENDS BlockIntake

MCBlock == {"g", "a1", "a2", "a3", "f1", "f2", "x3", "x4"}

MCParent == [b \in MCBlock \ {"g"} |->
    CASE b \in {"a1", "f1"} -> "g"
      [] b = "a2" -> "a1"
      [] b \in {"a3", "x3"} -> "a2"
      [] b = "f2" -> "f1"
      [] b = "x4" -> "x3"]

MCHeight == [b \in MCBlock |->
    CASE b = "g" -> 0 [] b \in {"a1", "f1"} -> 1 [] b \in {"a2", "f2"} -> 2
      [] b \in {"a3", "x3"} -> 3 [] b = "x4" -> 4]

MCWeight == [b \in MCBlock |->
    CASE b = "g" -> 1 [] b \in {"a1"} -> 2 [] b = "a2" -> 4 [] b = "f1" -> 5
      [] b = "x3" -> 5 [] b = "a3" -> 6 [] b = "x4" -> 8 [] b = "f2" -> 9]

MCKind == [b \in MCBlock |-> IF b = "x3" THEN "state" ELSE "valid"]

MCStampAhead == [b \in MCBlock |-> IF b = "a2" THEN 1 ELSE 0]

MCCheckpoints == {"a2"}
MCNoReplies == {}
MCReplies == {<<"g", "f2">>, <<"a1", "x4">>}
=============================================================================
