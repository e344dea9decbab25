---------------------------- MODULE HeaviestChain ----------------------------
(***************************************************************************)
(* What chain adoption promises: the node follows one valid chain at a     *)
(* time and leaves it only for a strictly heavier valid one; the coins a   *)
(* reader sees are always those of the whole chain it follows, never of a  *)
(* chain half left or half entered.                                        *)
(***************************************************************************)
CONSTANTS
    Block, Genesis, None,
    HeavierThan(_, _),  \* fork choice: strictly more cumulative work
    Valid(_),           \* every transaction of the chain validates in order
    Shows(_, _)         \* coins are the unspent outputs after a chain

VARIABLES best, coins

vars == <<best, coins>>

Init == best = None /\ Shows(coins, None)

Begin ==
    /\ best = None
    /\ best' = Genesis
    /\ Shows(coins', Genesis)

Follow(b) ==
    /\ best' = b
    /\ best # None /\ HeavierThan(b, best) /\ Valid(b)
    /\ Shows(coins', b)

Next == Begin \/ \E b \in Block : Follow(b)

Spec == Init /\ [][Next]_vars
=============================================================================
