--------------------------- MODULE MCChainAdoption ---------------------------
(* A small block tree for ChainAdoption: a three-block branch a; a two-block  *)
(* branch b that is shorter but heavier and repeats a transaction of a at     *)
(* the same height; a block c2 that spends an immature coinbase; a branch d   *)
(* that leaves a after a2 and is heaviest in the end.  a3 repeats the         *)
(* coinbase of a2, which is unspent, and d4 spends it.                        *)
EXTENDS ChainAdoption

MCBlock == {"g", "a1", "a2", "a3", "b1", "b2", "c2", "d3", "d4"}

MCParent == [b \in MCBlock \ {"g"} |->
    CASE b \in {"a1", "b1"} -> "g"
      [] b \in {"a2", "c2"} -> "a1"
      [] b \in {"a3", "d3"} -> "a2"
      [] b = "b2" -> "b1"
      [] b = "d4" -> "d3"]

MCHeight == [b \in MCBlock |->
    CASE b = "g" -> 0
      [] b \in {"a1", "b1"} -> 1
      [] b \in {"a2", "b2", "c2"} -> 2
      [] b \in {"a3", "d3"} -> 3
      [] b = "d4" -> 4]

MCWeight == [b \in MCBlock |->
    CASE b = "g" -> 1
      [] b \in {"a1", "b1"} -> 2
      [] b = "a2" -> 3
      [] b = "a3" -> 4
      [] b = "d3" -> 5
      [] b = "b2" -> 6
      [] b = "c2" -> 7
      [] b = "d4" -> 8]

(* Transactions: a coinbase per block, named after it (but a3 repeats a2's);  *)
(* pay spends genesis and is in both a1 and b1; chain spends pay in the same  *)
(* block b1; rec and rec2 carry the same record; early spends the coinbase of *)
(* its own block; use spends the coinbase of a2.                              *)
MCTxs == [b \in MCBlock |->
    CASE b = "a1" -> <<"a1", "pay">>
      [] b = "a2" -> <<"a2", "rec">>
      [] b = "a3" -> <<"a2", "rec2">>
      [] b = "b1" -> <<"b1", "pay", "chain">>
      [] b = "b2" -> <<"b2", "rec2">>
      [] b = "c2" -> <<"c2", "early">>
      [] b = "d4" -> <<"d4", "use">>
      [] OTHER -> <<b>>]

MCTx == (MCBlock \ {"a3"}) \cup {"pay", "chain", "rec", "rec2", "early", "use"}

MCTxIn == [t \in MCTx |->
    CASE t = "pay" -> {<<"g", 0>>}
      [] t = "chain" -> {<<"pay", 0>>}
      [] t = "rec" -> {<<"pay", 1>>, <<"a1", 0>>}
      [] t = "rec2" -> {<<"g", 1>>}
      [] t = "early" -> {<<"c2", 0>>}
      [] t = "use" -> {<<"a2", 0>>}
      [] OTHER -> {}]

MCTxOut == [t \in MCTx |-> IF t \in {"g", "pay"} THEN {<<t, 0>>, <<t, 1>>} ELSE {<<t, 0>>}]

MCCoinbase == UNION {MCTxOut[t] : t \in MCBlock \cap MCTx}

MCSound == [t \in MCTx |-> TRUE]

MCOutAddr == [o \in UNION {MCTxOut[t] : t \in MCTx} |->
    IF o[1] = "pay" /\ o[2] = 1 THEN "Y" ELSE "X"]

MCData == [t \in MCTx |-> IF t \in {"rec", "rec2"} THEN "doc" ELSE None]

MCLegacyCanon == [h \in 0..2 |-> CASE h = 0 -> "g" [] h = 1 -> "a1" [] h = 2 -> "a2"]

(* The reference replay, by recursion over the chain and the transactions.  *)
MCReplay[bk \in MCBlock \X (0..3)] ==
    LET b == bk[1]
        k == bk[2]
    IN  IF k = 0
        THEN IF b = "g" THEN [ok |-> TRUE, coins |-> Empty]
             ELSE MCReplay[<<MCParent[b], Len(MCTxs[MCParent[b]])>>]
        ELSE LET before == MCReplay[<<b, k - 1>>]
             IN  IF before.ok /\ k <= Len(MCTxs[b])
                    /\ ValidateTransaction(before.coins, MCTxs[b][k], MCHeight[b])
                 THEN [ok |-> TRUE,
                       coins |-> ApplyTransaction(before.coins, MCTxs[b][k], MCHeight[b])]
                 ELSE [ok |-> FALSE, coins |-> Empty]

MCUtxoAt == [b \in MCBlock |-> [k \in 0..Len(MCTxs[b]) |-> MCReplay[<<b, k>>]]]

MCFullDepth == {0}
MCAllDepths == {Disabled, 0, 1, 2}

MCAnyPhase == Phases \ {"down"}
MCNotReconciling == MCAnyPhase \ {"address index", "forget address index"}
=============================================================================
