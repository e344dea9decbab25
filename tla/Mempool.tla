------------------------------- MODULE Mempool -------------------------------
(***************************************************************************)
(* The pending transactions of a node (mempool/mempool.ts): admission with *)
(* replace-by-fee and a capacity, and removal.  Every caller of            *)
(* addTransaction holds the chain lock, so an admission is one step; what  *)
(* it asks of the UTXO set is its argument `valid`.                        *)
(***************************************************************************)
EXTENDS Integers, FiniteSets, FiniteSetsExt

CONSTANTS
    Pending,            \* the transactions that may be submitted
    Spends,             \* the outpoints each one spends
    Fee,
    MaxSize,            \* maxSize
    MinFee,             \* minFee
    MaxReplacements     \* policy.maxReplacements

ASSUME MempoolAssumption ==
    /\ DOMAIN Spends = Pending
    /\ Fee \in [Pending -> Int]
    /\ MaxSize \in Nat \ {0} /\ MinFee \in Nat \ {0} /\ MaxReplacements \in Nat

VARIABLES
    transactions,       \* the pending transactions
    claimedOutpoints    \* outpoint -> the pending transaction that spends it

poolVars == <<transactions, claimedOutpoints>>

(* A pool as a value: adoptBlock makes several changes to it in one step. *)
pool == [txs |-> transactions, claims |-> claimedOutpoints]

NoClaim == [o \in {} |-> {}]
EmptyPool == [txs |-> {}, claims |-> NoClaim]

-----------------------------------------------------------------------------
(* A definition used by nothing else (the first is ConflictsOfOneInput) is a *)
(* faulty variant, for mutation, of the definition that follows it.          *)

(* remove: a claim goes only if it still belongs to the removed transaction. *)
Remove(p, gone) ==
    LET freed == {o \in DOMAIN p.claims :
                    p.claims[o] \in gone \cap p.txs /\ o \in Spends[p.claims[o]]}
    IN  [txs |-> p.txs \ gone,
         claims |-> [o \in DOMAIN p.claims \ freed |-> p.claims[o]]]

Insert(p, t) ==
    [txs |-> p.txs \cup {t},
     claims |-> [o \in DOMAIN p.claims \cup Spends[t] |->
                    IF o \in Spends[t] THEN t ELSE p.claims[o]]]

ConflictsOfOneInput(p, t) ==
    LET hit == Spends[t] \cap DOMAIN p.claims
    IN  IF hit = {} THEN {} ELSE {p.claims[CHOOSE o \in hit : TRUE]}
ConflictsIgnored(p, t) == {}
Conflicts(p, t) == {p.claims[o] : o \in Spends[t] \cap DOMAIN p.claims}

TotalFee(S) == MapThenSumSet(LAMBDA t : Fee[t], S)

(* Replace-by-fee: a transaction pays for everything it displaces, and more. *)
PaysForEach(p, t) ==
    /\ Cardinality(Conflicts(p, t)) <= MaxReplacements
    /\ \A c \in Conflicts(p, t) : Fee[t] >= Fee[c] + MinFee
PaysForConflicts(p, t) ==
    /\ Cardinality(Conflicts(p, t)) <= MaxReplacements
    /\ Conflicts(p, t) # {} => Fee[t] >= TotalFee(Conflicts(p, t)) + MinFee

Admissible(p, t, valid) ==
    /\ t \notin p.txs
    /\ Spends[t] # {}
    /\ Fee[t] >= MinFee
    /\ PaysForConflicts(p, t)
    /\ valid

(* Which of several lowest fees goes depends on insertion order: any may.    *)
LowestFee(S) == {x \in S : \A y \in S : Fee[x] <= Fee[y]}

Full(p) == Cardinality(p.txs) >= MaxSize

MakesRoom(low, t) == Fee[low] < Fee[t]

(* What addTransaction may leave behind, given the pool without the          *)
(* transactions it displaces.                                                *)
Place(p, t) ==
    IF ~Full(p) THEN {Insert(p, t)}
    ELSE {IF MakesRoom(low, t) THEN Insert(Remove(p, {low}), t) ELSE p : low \in LowestFee(p.txs)}

AddEvictingFirst(p, t, valid) ==
    IF Admissible(p, t, TRUE)
    THEN IF valid THEN Place(Remove(p, Conflicts(p, t)), t) ELSE {Remove(p, Conflicts(p, t))}
    ELSE {p}
AddTransaction(p, t, valid) ==
    IF Admissible(p, t, valid) THEN Place(Remove(p, Conflicts(p, t)), t) ELSE {p}

-----------------------------------------------------------------------------
Becomes(p) == transactions' = p.txs /\ claimedOutpoints' = p.claims

Init == transactions = {} /\ claimedOutpoints = NoClaim

Submit(t, valid) == \E p \in AddTransaction(pool, t, valid) : Becomes(p)

(* A block with some of the pending transactions was adopted. *)
Drop(gone) == Becomes(Remove(pool, gone))

Next ==
    \/ \E t \in Pending, valid \in BOOLEAN : Submit(t, valid)
    \/ \E t \in Pending : Drop({t})

Spec == Init /\ [][Next]_poolVars

-----------------------------------------------------------------------------
(* Properties *)

(* Types; a claimant is pending, as the `!` of addTransaction takes for       *)
(* granted when it looks a conflict up.                                       *)
PoolTypeOK ==
    /\ transactions \subseteq Pending
    /\ claimedOutpoints \in [DOMAIN claimedOutpoints -> transactions]

(* The claims are exactly the inputs of the pending transactions, each held  *)
(* by the one that spends it: no outpoint is spent by two pending            *)
(* transactions, and none stays claimed after its spender left (which would  *)
(* make the node's own anchors avoid the coin for good), whatever            *)
(* replacements and evictions came before.                                   *)
ClaimsExact ==
    /\ DOMAIN claimedOutpoints = UNION {Spends[t] : t \in transactions}
    /\ \A t \in transactions : \A o \in Spends[t] : claimedOutpoints[o] = t

(* At most maxSize transactions are pending. *)
WithinCapacity == IsFiniteSet(transactions) /\ Cardinality(transactions) <= MaxSize

(* A transaction that is refused costs nobody their slot, also when it is    *)
(* found invalid, or the pool full, after its conflicts were determined.     *)
RefusalIsFree ==
    [][\A t \in Pending, valid \in BOOLEAN :
        Submit(t, valid) /\ t \notin transactions' => UNCHANGED poolVars]_poolVars

(* Every admission strictly raises the fees pending in total: neither a      *)
(* replacement of several transactions nor an eviction is a free relay.      *)
FeesRise ==
    [][\A t \in Pending, valid \in BOOLEAN :
        Submit(t, valid) /\ t \notin transactions /\ t \in transactions' =>
            TotalFee(transactions') > TotalFee(transactions)]_poolVars
=============================================================================
