--------------------------- MODULE AuthorityProofs ---------------------------
(* Proofs about module Authority, for every number of authorities and chains *)
(* of every length.                                                          *)
EXTENDS Authority, FiniteSetTheorems, TLAPS

(* A leaf goes to the SMT solver with this limit, unless it names Zenon.     *)
USE SMTT(30)

(* Within a window of floor(n/2)+1 blocks no authority has signed twice.     *)
Spaced(chain) ==
    \A i, j \in DOMAIN chain : i < j /\ j <= i + N \div 2 => chain[i] # chain[j]

(* The inductive invariant: a node may adopt any block that was sealed, so   *)
(* the blocks on their way have to be spaced as well as the tips.            *)
AuthorityInv ==
    /\ tip \in [Signer -> Seq(Signer)] /\ sealed \in SUBSET Seq(Signer)
    /\ \A n \in Signer : Spaced(tip[n])
    /\ \A block \in sealed : Spaced(block)

-----------------------------------------------------------------------------
(* The window as a number.                                                   *)
LEMMA Window == N \div 2 \in Nat /\ 2 * (N \div 2) <= N
  BY AuthorityAssumption

(* A block whose seal verifies keeps its chain spaced.                       *)
LEMMA SealKeepsSpacing ==
    ASSUME NEW chain \in Seq(Signer), Spaced(chain), NEW s, VerifySeal(chain, s)
    PROVE  Append(chain, s) \in Seq(Signer) /\ Spaced(Append(chain, s))
<1> DEFINE longer == Append(chain, s)
<1>1. s \in Signer /\ longer \in Seq(Signer)
  BY DEF VerifySeal
<1>2. /\ DOMAIN chain = 1..Len(chain) /\ DOMAIN longer = 1..(Len(chain) + 1)
      /\ longer[Len(chain) + 1] = s
      /\ \A i \in 1..Len(chain) : longer[i] = chain[i]
  BY <1>1
<1>3. Len(chain) \in Nat
  OBVIOUS
<1>4. ASSUME NEW i \in 1..Len(chain), Len(chain) + 1 <= i + N \div 2
      PROVE  chain[i] # s
  <2>1. i \in (DOMAIN chain) \ (1..(Len(chain) - RecentSignerWindow))
    BY <1>2, <1>3, <1>4, Window DEF RecentSignerWindow
  <2>2. chain[i] \in RecentSigners(chain)
    BY <2>1 DEF RecentSigners
  <2> QED
    BY <2>2 DEF VerifySeal
<1>5. Spaced(longer)
  <2> SUFFICES ASSUME NEW i \in 1..(Len(chain) + 1), NEW j \in 1..(Len(chain) + 1),
                      i < j, j <= i + N \div 2
               PROVE  longer[i] # longer[j]
    BY <1>2 DEF Spaced
  <2>1. i \in 1..Len(chain)
    BY <1>3
  <2>2. CASE j = Len(chain) + 1
    BY <2>1, <2>2, <1>2, <1>4
  <2>3. CASE j # Len(chain) + 1
    <3>1. j \in 1..Len(chain)
      BY <2>3, <1>3
    <3> QED
      BY <3>1, <2>1, <1>2 DEF Spaced
  <2> QED
    BY <2>2, <2>3
<1> QED
  BY <1>1, <1>5

(* At most floor(n/2) authorities have signed too recently.                  *)
LEMMA FewRecentSigners ==
    ASSUME NEW chain \in Seq(Signer)
    PROVE  /\ IsFiniteSet(RecentSigners(chain))
           /\ Cardinality(RecentSigners(chain)) <= N \div 2
<1> DEFINE W == N \div 2
           recent == (DOMAIN chain) \ (1..(Len(chain) - W))
           f == [i \in recent |-> chain[i]]
<1>1. W \in Nat /\ Len(chain) \in Nat /\ DOMAIN chain = 1..Len(chain)
  BY Window
<1>2. RecentSigners(chain) = {chain[i] : i \in recent}
  BY DEF RecentSigners, RecentSignerWindow
<1> DEFINE slots == (Len(chain) - W + 1)..Len(chain)
<1> HIDE DEF W
<1>3. recent \subseteq slots
  BY <1>1
<1>4. IsFiniteSet(slots) /\ Cardinality(slots) = W
  <2>1. Len(chain) - W + 1 \in Int /\ Len(chain) \in Int
    BY <1>1
  <2>2. /\ IsFiniteSet(slots)
        /\ Cardinality(slots) = IF Len(chain) - W + 1 > Len(chain) THEN 0
                                ELSE Len(chain) - (Len(chain) - W + 1) + 1
    BY <2>1, FS_Interval
  <2> QED
    BY <2>2, <1>1
<1> HIDE DEF slots
<1>5. IsFiniteSet(recent) /\ Cardinality(recent) <= W
  BY <1>3, <1>4, FS_Subset
<1>6. f \in Surjection(recent, {chain[i] : i \in recent})
  BY DEF Surjection
<1> HIDE DEF f, recent
<1>7. /\ IsFiniteSet({chain[i] : i \in recent})
      /\ Cardinality({chain[i] : i \in recent}) <= Cardinality(recent)
  BY <1>5, <1>6, FS_Surjection
<1>8. Cardinality(recent) \in Nat /\ Cardinality({chain[i] : i \in recent}) \in Nat
  BY <1>5, <1>7, FS_CardinalityType
<1> QED
  BY <1>1, <1>2, <1>5, <1>7, <1>8 DEF W

-----------------------------------------------------------------------------
(* AuthorityInv is inductive: sealing and adopting both keep it.             *)
THEOREM AuthorityInvariant == Spec => []AuthorityInv
<1>1. Init => AuthorityInv
  BY DEF Init, AuthorityInv, Spaced
<1>2. AuthorityInv /\ [Next]_vars => AuthorityInv'
  <2> SUFFICES ASSUME AuthorityInv, [Next]_vars PROVE AuthorityInv'
    OBVIOUS
  <2> USE DEF AuthorityInv
  <2>1. ASSUME NEW n \in Signer, Seal(n) PROVE AuthorityInv'
    <3> DEFINE block == Append(tip[n], n)
    <3>1. block \in Seq(Signer) /\ Spaced(block)
      BY <2>1, SealKeepsSpacing DEF Seal
    <3>2. tip' = [tip EXCEPT ![n] = block] /\ sealed' = sealed \cup {block}
      BY <2>1 DEF Seal
    <3> HIDE DEF block
    <3> QED
      BY <3>1, <3>2
  <2>2. ASSUME NEW n \in Signer, NEW block \in sealed, Adopt(n, block) PROVE AuthorityInv'
    <3>1. tip' = [tip EXCEPT ![n] = block] /\ sealed' = sealed
      BY <2>2 DEF Adopt
    <3> QED
      BY <3>1
  <2>3. CASE UNCHANGED vars
    BY <2>3 DEF vars
  <2> QED
    BY <2>1, <2>2, <2>3 DEF Next, Receive
<1> QED
  BY <1>1, <1>2, PTL DEF Spec

(* Every floor(n/2)+1 consecutive blocks of an adopted chain have different  *)
(* signers (recentSignersFor, verifySeal): no minority extends a chain on    *)
(* its own, however many authorities there are.                              *)
THEOREM NoMinorityChain == Spec => []MajorityBehind
<1>1. AuthorityInv => MajorityBehind
  BY DEF AuthorityInv, Spaced, MajorityBehind
<1> QED
  BY <1>1, AuthorityInvariant, PTL

(* Every majority holds an authority whose seal verifies on a given node's   *)
(* chain: the window of recentSignerWindow never locks a majority out.       *)
THEOREM MajorityNeverStuck == Spec => []MajorityCanSign
<1>1. AuthorityInv => MajorityCanSign
  <2> SUFFICES ASSUME AuthorityInv, NEW n \in Signer, NEW m \in SUBSET Signer,
                      2 * Cardinality(m) > N
               PROVE  \E a \in m : VerifySeal(tip[n], a)
    BY DEF MajorityCanSign
  <2> DEFINE recent == RecentSigners(tip[n])
  <2>1. IsFiniteSet(recent) /\ Cardinality(recent) <= N \div 2
    BY FewRecentSigners DEF AuthorityInv
  <2>2. Cardinality(recent) \in Nat
    BY <2>1, FS_CardinalityType
  <2> HIDE DEF recent
  <2>3. ASSUME m \subseteq recent PROVE FALSE
    <3>1. Cardinality(m) <= Cardinality(recent) /\ IsFiniteSet(m)
      BY <2>1, <2>3, FS_Subset
    <3>2. Cardinality(m) \in Nat
      BY <3>1, FS_CardinalityType
    <3> QED
      BY <3>1, <3>2, <2>1, <2>2, Window, AuthorityAssumption
  <2>4. PICK a \in m : a \notin recent
    BY <2>3
  <2> QED
    BY <2>4 DEF VerifySeal, recent
<1> QED
  BY <1>1, AuthorityInvariant, PTL
=============================================================================
