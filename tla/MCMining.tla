------------------------------ MODULE MCMining ------------------------------
(* Peers' branches a and b from genesis overtake one another: a2, b2, a3.     *)
(* pay is mined in a1, bump (same input) in b2, child (spends pay) and side   *)
(* in a2; cb spends the coinbase of a1.  The node mines on any of these       *)
(* blocks, not on top of a block of its own.                                  *)
EXTENDS Mining

MCTree == <<"g", "a1", "a2", "a3", "b1", "b2">>
MCSpending == <<"pay", "bump", "child", "cb", "side">>

(* Blocks are numbers, for TLC: 1..6 the tree, then, on each of these, one    *)
(* for each pair of places in MCSpending (0 for none).                        *)
MCBlock == 1..(6 + 6 * 36)
MCOwn == 7..(6 + 6 * 36)
MCGenesis == 1

MCBase(b) == IF b <= 6 THEN b ELSE (b - 7) \div 36 + 1
MCPlaces(b) == {((b - 7) % 36) \div 6, (b - 7) % 6} \ {0}

MCPlace == [t \in Range(MCSpending) |-> CHOOSE i \in 1..5 : MCSpending[i] = t]
MCMined(b, S) ==
    LET places == {MCPlace[t] : t \in S} \cup {0}
    IN  7 + 36 * (b - 1) + Max(places) + 6 * (IF Cardinality(S) = 2 THEN Min(places \ {0}) ELSE 0)

MCParent == [b \in MCBlock \ {1} |-> IF b > 6 THEN MCBase(b) ELSE <<0, 1, 2, 3, 1, 5>>[b]]
MCHeight == [b \in MCBlock |-> <<0, 1, 2, 3, 1, 2>>[MCBase(b)] + IF b > 6 THEN 1 ELSE 0]
MCWeight == [b \in MCBlock |-> <<1, 2, 3, 6, 2, 5>>[MCBase(b)] + IF b > 6 THEN 1 ELSE 0]

MCFee == [t \in Range(MCTree) \cup Range(MCSpending) \cup {"own"} |->
    CASE t = "bump" -> 3 [] t = "side" -> 2 [] OTHER -> 1]

MCTxs == [b \in MCBlock |->
    IF b > 6
    THEN <<"own">> \o SetToSortSeq({MCSpending[i] : i \in MCPlaces(b)}, LAMBDA x, y : MCFee[x] > MCFee[y])
    ELSE <<MCTree[b]>> \o CASE MCTree[b] = "a1" -> <<"pay">>
                            [] MCTree[b] = "a2" -> <<"child", "side">>
                            [] MCTree[b] = "b2" -> <<"bump">>
                            [] OTHER -> <<>>]

MCTx == DOMAIN MCFee

MCTxIn == [t \in MCTx |->
    CASE t \in {"pay", "bump"} -> {<<"g", 0>>}
      [] t = "child" -> {<<"pay", 0>>}
      [] t = "cb" -> {<<"a1", 0>>}
      [] t = "side" -> {<<"g", 1>>}
      [] OTHER -> {}]

MCTxOut == [t \in MCTx |-> IF t = "g" THEN {<<t, 0>>, <<t, 1>>} ELSE {<<t, 0>>}]

MCCoinbase == UNION {MCTxOut[t] : t \in Range(MCTree) \cup {"own"}}
MCSound == [t \in MCTx |-> TRUE]

(* The coinbase amount takes one more digit as soon as there are fees.        *)
MCSize == [t \in MCTx |-> IF t = "side" THEN 3 ELSE 2]
MCBaseSize == [f \in 0..12 |-> IF f = 0 THEN 10 ELSE 11]

(* The reference replay, by recursion over the chain and the transactions.  *)
MCReplay[bk \in MCBlock \X (0..3)] ==
    LET b == bk[1]
        k == bk[2]
    IN  IF k = 0
        THEN IF b = MCGenesis THEN [ok |-> TRUE, coins |-> Empty]
             ELSE MCReplay[<<MCParent[b], Len(MCTxs[MCParent[b]])>>]
        ELSE LET before == MCReplay[<<b, k - 1>>]
             IN  IF before.ok /\ k <= Len(MCTxs[b])
                    /\ ValidateTransaction(before.coins, MCTxs[b][k], MCHeight[b])
                 THEN [ok |-> TRUE,
                       coins |-> ApplyTransaction(before.coins, MCTxs[b][k], MCHeight[b])]
                 ELSE [ok |-> FALSE, coins |-> Empty]

MCUtxoAt == [b \in MCBlock |-> [k \in 0..Len(MCTxs[b]) |-> MCReplay[<<b, k>>]]]
=============================================================================
