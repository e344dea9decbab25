----------------------------- MODULE MCNetwork -----------------------------
(* B is configured with A and with X, whose rules differ, and has one slot:   *)
(* X is dialled again and again.  A learns B's address from the handshake and *)
(* may dial it back.                                                          *)
EXTENDS Network

MCNode == {"A", "B", "X"}
MCAddress == {"a", "b", "x"}
MCListen == [n \in MCNode |-> CASE n = "A" -> "a" [] n = "B" -> "b" [] n = "X" -> "x"]
MCHost == [a \in MCAddress |-> CASE a = "a" -> "A" [] a = "b" -> "B" [] a = "x" -> "X"]
MCRules == [n \in MCNode |-> IF n = "X" THEN 2 ELSE 1]
MCPeers == [n \in MCNode |-> IF n = "B" THEN {"a", "x"} ELSE {}]
MCMaxOutbound == [n \in MCNode |-> 1]
MCMaxSockets == MCMaxOutbound
=============================================================================
