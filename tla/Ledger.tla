------------------------------- MODULE Ledger -------------------------------
(***************************************************************************)
(* Blocks, transactions and the UTXO set (state/utxoSet.ts).  The tree of  *)
(* blocks is a constant: hashes, signatures, amounts and addresses are     *)
(* abstracted to what chain adoption tells apart.                          *)
(***************************************************************************)
EXTENDS Integers, Sequences

CONSTANTS
    Block,          \* every block that passes validateBlock, plus genesis
    Genesis,
    Parent,         \* header.previousHash, for every block but genesis
    Height,         \* header.height
    Weight,         \* cumulative work of the chain ending in a block
    Txs,            \* block.transactions
    Tx,
    TxIn,           \* outpoints a transaction spends; {} for a coinbase
    TxOut,          \* outpoints it creates
    Sound,          \* structure, owner keys, signatures and amounts check out
    Coinbase,       \* the outpoints created by coinbase transactions
    Maturity,       \* consensus.coinbaseMaturity
    UtxoAt,         \* reference: coins after k transactions of a block
    None

-----------------------------------------------------------------------------
(* Maps: every sublevel is a partial function from keys to values. *)

Empty == [x \in {} |-> None]
Put(f, K, v) == [k \in DOMAIN f \cup K |-> IF k \in K THEN v ELSE f[k]]
Del(f, K) == [k \in DOMAIN f \ K |-> f[k]]

(* A definition used by nothing else (the first is UndoTransactionNoRestore) *)
(* is a faulty variant, for mutation, of the definition that follows it.     *)

(* One transaction against the UTXO set, which maps an unspent outpoint to *)
(* the height of the block that created it.                                *)

ValidateTransaction(u, t, h) ==
    /\ Sound[t]
    /\ \A o \in TxIn[t] : o \in DOMAIN u /\ (o \in Coinbase => h >= u[o] + Maturity)

ApplyTransaction(u, t, h) == Put(Del(u, TxIn[t]), TxOut[t], h)

TxUndo(u, t) == [spent |-> [o \in TxIn[t] |-> u[o]], created |-> TxOut[t]]

UndoTransactionNoRestore(u, r) == Del(u, r.created)
UndoTransactionNoRemove(u, r) ==
    [o \in DOMAIN u \cup DOMAIN r.spent |->
        IF o \in DOMAIN r.spent THEN r.spent[o] ELSE u[o]]
UndoTransaction(u, r) ==
    [o \in (DOMAIN u \ r.created) \cup DOMAIN r.spent |->
        IF o \in DOMAIN r.spent THEN r.spent[o] ELSE u[o]]

TxsOf(b) == {Txs[b][i] : i \in 1..Len(Txs[b])}

(* The chain of a block. *)
Chain[b \in Block] == IF b = Genesis THEN {b} ELSE {b} \cup Chain[Parent[b]]

(* The coins after the whole of block b, and before its first transaction. *)
Coins(b) == UtxoAt[b][Len(Txs[b])]
CoinsBefore(b) == IF b = Genesis THEN [ok |-> TRUE, coins |-> Empty] ELSE Coins(Parent[b])

ASSUME TreeAssumption ==
    /\ Genesis \in Block /\ None \notin Block
    /\ Parent \in [Block \ {Genesis} -> Block]
    /\ Height \in [Block -> Nat] /\ Height[Genesis] = 0
    /\ Weight \in [Block -> Nat]
    /\ \A b \in Block \ {Genesis} :
        Height[b] = Height[Parent[b]] + 1 /\ Weight[b] > Weight[Parent[b]]
    /\ Txs \in [Block -> Seq(Tx)]
    /\ \A b \in Block : Len(Txs[b]) >= 1       \* validateBlock wants a coinbase

(* UtxoAt[b][k] is a replay of the chain of b from genesis up to the k-th   *)
(* transaction of b: whether every transaction validated, and the coins.    *)
ASSUME ReplayAssumption ==
    \A b \in Block :
        /\ UtxoAt[b][0] = CoinsBefore(b)
        /\ \A k \in 1..Len(Txs[b]) :
            LET before == UtxoAt[b][k - 1]
            IN  UtxoAt[b][k] =
                    IF before.ok /\ ValidateTransaction(before.coins, Txs[b][k], Height[b])
                    THEN [ok |-> TRUE, coins |-> ApplyTransaction(before.coins, Txs[b][k], Height[b])]
                    ELSE [ok |-> FALSE, coins |-> Empty]

ASSUME GenesisAssumption ==
    Len(Txs[Genesis]) = 1 /\ TxIn[Txs[Genesis][1]] = {} /\ Sound[Txs[Genesis][1]]

-----------------------------------------------------------------------------
(* An id is the hash of a transaction.  Nothing makes two coinbases differ:   *)
(* validateBlock compares ids within a block only and leaves the coinbase's   *)
(* time alone, so a block may repeat a coinbase of its chain, and put its     *)
(* outpoints again while they are unspent.                                    *)

Recreated ==
    UNION {UNION {TxOut[Txs[b][k]] \cap DOMAIN UtxoAt[b][k - 1].coins :
                  k \in {n \in 1..Len(Txs[b]) : UtxoAt[b][n].ok}} : b \in Block}

Repeated == {t \in Tx : \E b \in Block : \E c \in Chain[b] \ {b} : t \in TxsOf(b) \cap TxsOf(c)}

(* The coins u are r, except that outpoints created twice may be missing.     *)
Agrees(u, r) ==
    /\ DOMAIN u \subseteq DOMAIN r /\ \A o \in DOMAIN u : u[o] = r[o]
    /\ DOMAIN r \ DOMAIN u \subseteq Recreated
=============================================================================
