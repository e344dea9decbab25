------------------------------- MODULE MCSync -------------------------------
(* Node A has block a1, B the heavier branch b; B may meanwhile be moved to   *)
(* branch c, whose second block is the first that outweighs b.  A reply holds *)
(* three headers or two blocks, and a locator one dense entry.                *)
EXTENDS Sync

MCBlock == {"g", "a1", "b1", "b2", "b3", "c1", "c2"}

MCParent == [b \in MCBlock \ {"g"} |->
    CASE b = "b2" -> "b1" [] b = "b3" -> "b2" [] b = "c2" -> "c1" [] OTHER -> "g"]

MCHeight == [b \in MCBlock |->
    CASE b = "g" -> 0 [] b \in {"a1", "b1", "c1"} -> 1 [] b = "b3" -> 3 [] OTHER -> 2]

MCWeight == [b \in MCBlock |->
    CASE b = "g" -> 1 [] b = "a1" -> 2 [] b \in {"b1", "c1"} -> 3
      [] b = "b2" -> 4 [] b = "b3" -> 5 [] b = "c2" -> 6]

MCNode == {"A", "B"}
MCEdges == {{"A", "B"}}
MCStartTip == [n \in MCNode |-> IF n = "A" THEN "a1" ELSE "b3"]
MCArrivals == {<<"B", "c1">>, <<"B", "c2">>}

(* A deep fork of equal difficulty: A's c2 weighs as much as B's b2, all that *)
(* one reply brings.                                                          *)
MCForkWeight == [b \in MCBlock |-> MCHeight[b] + 1]
MCForkTip == [n \in MCNode |-> IF n = "A" THEN "c2" ELSE "b3"]
MCNoArrivals == {}
=============================================================================
