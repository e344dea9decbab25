----------------------------- MODULE MCPayments -----------------------------
(* The anchor key has two coins, the wallet one.  The reward of the network   *)
(* is 0 from the second era, height 3, on.                                    *)
EXTENDS Payments

CONSTANTS r1, r2
MCRecords == {r1, r2}
MCSymmetry == Permutations(MCRecords)

MCCoin(a, n) == [address |-> a, amount |-> n]
MCAllocation == <<MCCoin(Op, 4), MCCoin(Op, 3), MCCoin(Me, 6)>>

MCSchedule(initial, interval, tail) ==
    [initialReward |-> initial, halvingInterval |-> interval, tailEmission |-> tail]
MCPolicy == MCSchedule(1, 3, 0)
MCSchedules == {s \in {MCSchedule(i, n, t) : i \in {0, 1, 5, 8}, n \in 0..4, t \in {0, 2, 9}} :
                    s.halvingInterval = 0 => s.tailEmission <= s.initialReward}
=============================================================================
