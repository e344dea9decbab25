---------------------------- MODULE HeaderRules ----------------------------
(***************************************************************************)
(* What a chain of headers must satisfy under proof of work: the retarget  *)
(* rule (consensus/difficulty.ts), the order of timestamps, the weight     *)
(* (consensus/forkChoice.ts); and the merkle tree a header commits to      *)
(* (crypto/merkle.ts).                                                     *)
(*                                                                         *)
(* A chain is the sequence of its headers from genesis, chain[1], and the  *)
(* hash of a header is taken to be the chain that ends in it: hashes are   *)
(* free of collisions.  A header is [time, target, txs]; what it commits   *)
(* to is MerkleRoot(txs).                                                  *)
(***************************************************************************)
EXTENDS Integers, Sequences, FiniteSetsExt

CONSTANTS
    BlockTime,      \* targetBlockTimeMs
    Interval,       \* difficultyRetargetInterval
    Factor,         \* maxDifficultyAdjustmentFactor
    MaxTarget       \* MAX_TARGET

(* nextTarget throws when the first period has no gap: Interval 1 will not   *)
(* do.                                                                       *)
ASSUME RulesAssumption ==
    {BlockTime, Interval, Factor, MaxTarget} \subseteq Nat \ {0} /\ Interval > 1

(* The header with this hash, and its previousHash.                          *)
HeaderOf(hash) == hash[Len(hash)]
PreviousHash(hash) == SubSeq(hash, 1, Len(hash) - 1)

-----------------------------------------------------------------------------
(* Difficulty. *)

PRECISION == 1000000

Rounded(a, b) == (2 * a + b) \div (2 * b)

Clamp(x, low, high) == Min({high, Max({low, x})})

(* The timespan is clamped, then the target scaled by a fixed-point factor.  *)
RetargetDifficulty(current, actual, expected) ==
    LET scaledTime == Clamp(actual * PRECISION, Rounded(expected * PRECISION, Factor),
                            expected * Factor * PRECISION)
    IN  Clamp((current * (scaledTime \div expected)) \div PRECISION, 1, MaxTarget)

RetargetWindow(nextHeight) ==
    LET startHeight == Max({0, nextHeight - Interval - 1})
    IN  [startHeight |-> startHeight, gaps |-> nextHeight - 1 - startHeight]

(* The header `gaps` before the end of the chain starts the period.          *)
NextTarget(chain, gaps) ==
    RetargetDifficulty(HeaderOf(chain).target,
                       HeaderOf(chain).time - chain[Len(chain) - gaps].time, gaps * BlockTime)

(* The node's rule for the block after a chain: back from the parent along   *)
(* its own ancestry.  Its height is Len(chain).                              *)
ExpectedTargetFor(chain) ==
    IF Len(chain) % Interval # 0 THEN HeaderOf(chain).target
    ELSE NextTarget(chain, RetargetWindow(Len(chain)).gaps)

WorkForTarget(target) == (MaxTarget + 1) \div (target + 1)

ChainWork(chain) ==
    LET work[i \in 0..Len(chain)] ==
            IF i = 0 THEN 0 ELSE work[i - 1] + WorkForTarget(chain[i].target)
    IN  work[Len(chain)]

IsBetterChain(candidate, current) == candidate > current

(* The header rules of validateHeader that a header-only client can check,   *)
(* for a header on a parent; the seal is part of the hash.                   *)
ValidateHeader(header, parent, expectedTarget, latest) ==
    /\ header.target = expectedTarget
    /\ header.time > parent.time
    /\ header.time <= latest

-----------------------------------------------------------------------------
(* Merkle trees.  A leaf is <<txId>>, an inner node the pair of its children *)
(* (sha256 of their concatenation).                                          *)

Hash(left, right) == <<left, right>>

(* The node at place i, or the last one again when the level is odd.         *)
OrLast(level, i) == level[Min({i, Len(level)})]

NextLevel(level) ==
    [i \in 1..((Len(level) + 1) \div 2) |-> Hash(level[2 * i - 1], OrLast(level, 2 * i))]

(* The levels from the leaves up to the root; k counts from 0.               *)
Level(leaves, k) ==
    LET up[i \in 0..k] == IF i = 0 THEN leaves ELSE NextLevel(up[i - 1])
    IN  up[k]

Depth(leaves) ==
    CHOOSE d \in 0..Len(leaves) :
        /\ Len(Level(leaves, d)) = 1
        /\ \A e \in 0..(d - 1) : Len(Level(leaves, e)) > 1

Leaves(txs) == [i \in DOMAIN txs |-> <<txs[i]>>]

MerkleRoot(txs) == Level(Leaves(txs), Depth(Leaves(txs)))[1]

(* On the way up from place i (from 0), the place on level k; its sibling is *)
(* on the right of an even place.                                            *)
Place(i, k) ==
    LET up[j \in 0..k] == IF j = 0 THEN i ELSE up[j - 1] \div 2
    IN  up[k]

Sibling(level, i) == IF i % 2 = 0 THEN OrLast(level, i + 2) ELSE level[i]

MerkleProof(txs, i) ==
    [k \in 1..Depth(Leaves(txs)) |->
        [hash |-> Sibling(Level(Leaves(txs), k - 1), Place(i, k - 1)),
         position |-> IF Place(i, k - 1) % 2 = 0 THEN "right" ELSE "left"]]

VerifyMerkleProof(leaf, proof, root) ==
    LET current[k \in 0..Len(proof)] ==
            IF k = 0 THEN leaf
            ELSE IF proof[k].position = "right" THEN Hash(current[k - 1], proof[k].hash)
            ELSE Hash(proof[k].hash, current[k - 1])
    IN  current[Len(proof)] = root
=============================================================================
