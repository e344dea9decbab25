--------------------------- MODULE MCLightWallet ---------------------------
(* Blocks every two units of time on a, a fork from its second block that     *)
(* comes faster (b) and one from genesis that comes slower (c).  The wallet   *)
(* may meet any stage of them, a header with the wrong target, and a node on  *)
(* another genesis.                                                           *)
EXTENDS LightWallet, SequencesExt

MCGenesis == [time |-> 0, target |-> 7, txs |-> <<"g">>]

(* The chain with these gaps between blocks, and these transactions.          *)
MCGrown(gaps, txs) ==
    FoldLeft(LAMBDA c, i : Append(c, [time |-> Last(c).time + gaps[i],
                                      target |-> ExpectedTargetFor(c), txs |-> txs[i]]),
             <<MCGenesis>>, [i \in DOMAIN gaps |-> i])

MCa == MCGrown(<<2, 2, 2, 2, 2>>, <<<<"a1">>, <<"a2", "x">>, <<"a3">>, <<"a4", "y", "z">>, <<"a5">>>>)
MCb == MCGrown(<<2, 2, 1, 1>>, <<<<"a1">>, <<"a2", "x">>, <<"b3", "z">>, <<"b4", "u", "v", "w", "y">>>>)
MCc == MCGrown(<<4, 4, 4>>, <<<<"c1">>, <<"c2">>, <<"c3", "x">>>>)
MCWrong == [MCa EXCEPT ![4].target = @ + 1]
MCForeign == <<[MCGenesis EXCEPT !.txs = <<"f">>]>> \o Tail(MCc)

MCServed ==
    {SubSeq(MCa, 1, n) : n \in 1..6} \cup {SubSeq(MCb, 1, n) : n \in 4..5}
        \cup {SubSeq(MCc, 1, n) : n \in 3..4} \cup {MCWrong, MCForeign}

MCTx == {"x", "y"}
=============================================================================
