------------------------------ MODULE MCMempool ------------------------------
(* Thirteen transactions over six outpoints and four slots: replacements of  *)
(* one and of two others, one that would displace three, ties in fee, one     *)
(* below the minimum fee and one coinbase-style.                              *)
EXTENDS Mempool

MCPending == {"a", "b", "c", "c2", "d", "e", "e2", "f", "ab", "cd", "abc", "low", "coinbase"}

MCSpends == [t \in MCPending |->
    CASE t = "a" -> {1}
      [] t = "b" -> {2}
      [] t \in {"c", "c2"} -> {3}
      [] t = "d" -> {4}
      [] t \in {"e", "e2", "low"} -> {5}
      [] t = "f" -> {6}
      [] t = "ab" -> {1, 2}
      [] t = "cd" -> {3, 4}
      [] t = "abc" -> {1, 2, 3}
      [] t = "coinbase" -> {}]

MCFee == [t \in MCPending |->
    CASE t \in {"a", "c", "d", "f"} -> 3
      [] t = "b" -> 2
      [] t \in {"c2", "e2"} -> 4
      [] t = "e" -> 6
      [] t = "ab" -> 7
      [] t = "cd" -> 5
      [] t = "abc" -> 12
      [] t = "low" -> 1
      [] t = "coinbase" -> 5]
=============================================================================
