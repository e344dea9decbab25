----------------------------- MODULE Authority -----------------------------
(***************************************************************************)
(* Proof of authority (consensus/engine.ts, PoaEngine): an ordered set of  *)
(* signers, each with a node of its own, takes turns.  A chain is the      *)
(* sequence of the signers of its blocks, and a block the chain it ends.   *)
(*                                                                         *)
(* Every block that was sealed reaches every node, in any order; how its   *)
(* ancestors are fetched is the subject of Sync.                           *)
(***************************************************************************)
EXTENDS Integers, Sequences, SequencesExt, FiniteSets

CONSTANTS
    N,              \* the number of authorities, 0 .. N - 1 in turn order
    MaxHeight       \* bound on the length of a chain

ASSUME AuthorityAssumption == N \in Nat \ {0}

VARIABLES
    tip,            \* each signer's node's chain
    sealed          \* the blocks produced so far

vars == <<tip, sealed>>

Signer == 0..(N - 1)

-----------------------------------------------------------------------------
(* PoaEngine.  A definition used by nothing else (the first is               *)
(* ShortWindow) is a faulty variant, for mutation, of the one that follows.  *)

ShortWindow == (N - 1) \div 2
LongWindow == N \div 2 + 1
RecentSignerWindow == N \div 2

InTurnAuthority(height) == height % N

(* recentSignersFor: fewer near genesis, which has no signer.                *)
RecentSigners(chain) == {chain[i] : i \in (DOMAIN chain) \ (1..(Len(chain) - RecentSignerWindow))}

VerifySeal(chain, signer) == signer \in Signer /\ signer \notin RecentSigners(chain)

(* blockWork: 2 (POA_IN_TURN_WORK) for a scheduled block, 1 for any other.   *)
ChainWork(chain) ==
    Len(chain) + Cardinality({h \in DOMAIN chain : chain[h] = InTurnAuthority(h)})

IsBetterChain(candidate, current) == ChainWork(candidate) > ChainWork(current)

-----------------------------------------------------------------------------
Init == tip = [n \in Signer |-> <<>>] /\ sealed = {}

(* mineBlock: the seal is checked like a peer's before the block is adopted. *)
Seal(n) ==
    /\ Len(tip[n]) < MaxHeight
    /\ VerifySeal(tip[n], n)
    /\ tip' = [tip EXCEPT ![n] = Append(@, n)]
    /\ sealed' = sealed \cup {Append(tip[n], n)}

Adopt(n, block) ==
    /\ VerifySeal(Front(block), Last(block)) /\ IsBetterChain(block, tip[n])
    /\ tip' = [tip EXCEPT ![n] = block]
    /\ UNCHANGED sealed

Receive(n) == \E block \in sealed : Adopt(n, block)

Next == \E n \in Signer : Seal(n) \/ Receive(n)

Spec == Init /\ [][Next]_vars

-----------------------------------------------------------------------------
(* Properties *)

(* A minority cannot extend a chain on its own: any floor(n/2)+1 consecutive *)
(* blocks of an adopted chain have as many different signers, so a majority  *)
(* of the authorities stands behind each of them (verifySeal,                *)
(* recentSignersFor), whichever forks the node came through.                 *)
MajorityBehind ==
    \A n \in Signer : \A i, j \in DOMAIN tip[n] :
        i < j /\ j <= i + N \div 2 => tip[n][i] # tip[n][j]

(* ... and every majority can: on each node's chain one of them is free to   *)
(* sign, so authorities that agree on a tip never all have to wait (R20:     *)
(* "liveness needs a majority").                                             *)
MajorityCanSign ==
    \A n \in Signer : \A m \in SUBSET Signer :
        2 * Cardinality(m) > N => \E a \in m : VerifySeal(tip[n], a)
=============================================================================
