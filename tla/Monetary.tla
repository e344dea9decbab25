------------------------------ MODULE Monetary ------------------------------
(***************************************************************************)
(* The emission schedule (consensus/monetary.ts).  A policy is a record    *)
(* [initialReward, halvingInterval, tailEmission]; the closed forms are    *)
(* compared with the sum block by block in Payments.                       *)
(***************************************************************************)
EXTENDS Integers, FiniteSetsExt

Undefined == -1

EraOf(height, policy) ==
    IF policy.halvingInterval > 0 THEN height \div policy.halvingInterval ELSE 0

RewardInEra(era, policy) == Max({policy.initialReward \div 2^era, policy.tailEmission})

BlockRewardAt(height, policy) == RewardInEra(EraOf(height, policy), policy)

(* A definition used by nothing else (the first is FirstOfEraFromGenesis) is *)
(* a faulty variant, for mutation, of the one that follows it.               *)
FirstOfEraFromGenesis(era, policy) == era * policy.halvingInterval
FirstOfEra(era, policy) == Max({1, era * policy.halvingInterval})
LastOfEra(era, policy) == (era + 1) * policy.halvingInterval - 1

CumulativeEmission(tipHeight, policy) ==
    IF policy.halvingInterval = 0 THEN policy.initialReward * tipHeight
    ELSE MapThenSumSet(
            LAMBDA era : RewardInEra(era, policy)
                * Max({0, Min({tipHeight, LastOfEra(era, policy)}) - FirstOfEra(era, policy) + 1}),
            0..EraOf(tipHeight, policy))

(* Emission stops with the first era whose reward is 0.                      *)
MaxSupply(policy, genesisAllocation) ==
    IF policy.halvingInterval = 0 \/ policy.tailEmission > 0 THEN Undefined
    ELSE genesisAllocation + MapThenSumSet(
            LAMBDA era : RewardInEra(era, policy)
                * (policy.halvingInterval - IF era = 0 THEN 1 ELSE 0),
            {era \in 0..policy.initialReward : RewardInEra(era, policy) > 0})

NextHalvingHeight(height, policy) ==
    LET next == (EraOf(height, policy) + 1) * policy.halvingInterval
    IN  IF policy.halvingInterval > 0
           /\ BlockRewardAt(next, policy) < BlockRewardAt(Max({1, height}), policy)
        THEN next ELSE Undefined
=============================================================================
