---------------------------- MODULE NodeMempool ----------------------------
(***************************************************************************)
(* The mempool of a node whose chain moves: admission against the current  *)
(* coins (submitTransaction, the NEW_TX handler) and what adoptBlock does  *)
(* to the pending transactions once its batch is committed.  That adoption *)
(* moves the tip atomically to a heavier valid chain is HeaviestChain, the *)
(* abstraction that ChainAdoption implements.  Mining adds who submits and *)
(* adopts.  No block repeats a coinbase that is unspent, so the coins are  *)
(* those of the chain (UtxoIsReplay in ChainAdoption has the exception).   *)
(***************************************************************************)
EXTENDS Ledger, SequencesExt

CONSTANTS Fee, MaxSize, MinFee, MaxReplacements

ASSUME NothingRecreated == Recreated = {}

VARIABLES tip, transactions, claimedOutpoints

poolVars == <<transactions, claimedOutpoints>>
vars == <<tip, poolVars>>

MP == INSTANCE Mempool WITH Pending <- Tx, Spends <- TxIn

-----------------------------------------------------------------------------
(* A definition used by nothing else (the first is PurgeIncluded) is a       *)
(* faulty variant, for mutation, of the definition that follows it.          *)

SpendingHeight(b) == Height[b] + 1

Connects(b, t) == ValidateTransaction(Coins(b).coins, t, SpendingHeight(b))

(* planReorg's two lists, as sets. *)
Connected(from, to) == Chain[to] \ Chain[from]
Disconnected(from, to) == Chain[from] \ Chain[to]

Included(blks) == UNION {TxsOf(b) : b \in blks}

(* The mined transactions leave, and whatever spends an outpoint they spent. *)
PurgeIncluded(p, included) == MP!Remove(p, included)
Purge(p, included) ==
    LET spent == UNION {TxIn[t] : t \in included}
    IN  MP!Remove(p, included \cup {t \in p.txs : TxIn[t] \cap spent # {}})

(* The abandoned transactions the new chain lacks, in the order they are     *)
(* submitted again: tip first, in block order.                               *)
AbandonedTxs(from, to) ==
    LET tipFirst == SetToSortSeq(Disconnected(from, to), LAMBDA x, y : Height[x] > Height[y])
        all == FlattenSeq([i \in 1..Len(tipFirst) |-> Txs[tipFirst[i]]])
    IN  SelectSeq(all, LAMBDA t : TxIn[t] # {} /\ t \notin Included(Connected(from, to)))

ResubmitNone(p, txs, b) == {p}
Resubmit(p, txs, b) ==
    FoldLeft(LAMBDA ps, t : UNION {MP!AddTransaction(q, t, Connects(b, t)) : q \in ps}, {p}, txs)

-----------------------------------------------------------------------------
PoolInit == tip = Genesis /\ MP!Init

Submit(t) == MP!Submit(t, Connects(tip, t)) /\ UNCHANGED tip

AdoptBlock(b) ==
    /\ Coins(b).ok /\ tip' = b
    /\ \E p \in Resubmit(Purge(MP!pool, Included(Connected(tip, b))), AbandonedTxs(tip, b), b) :
        MP!Becomes(p)

(* Nothing of the mempool is on disk. *)
Forget == MP!Becomes(MP!EmptyPool) /\ UNCHANGED tip

-----------------------------------------------------------------------------
(* Properties *)

(* docs/L1-NODE-ENGINE.md says that "adopted blocks purge invalidated mempool *)
(* transactions": whatever is pending connects to the tip.                    *)
PoolConnects == \A t \in transactions : Connects(tip, t)

(* As long as the chain only grows, what was admitted stays minable: every   *)
(* pending transaction still validates on top of the new tip (adoptBlock     *)
(* purges what the new blocks made invalid).                                 *)
ExtensionKeepsPoolValid ==
    [][PoolConnects /\ Disconnected(tip, tip') = {} => PoolConnects']_vars

(* Transactions of abandoned blocks that the new chain lacks and still       *)
(* accepts are pending after a reorg, unless the pool is full.               *)
AbandonedReturn ==
    [][\A t \in Included(Disconnected(tip, tip')) \ Included(Chain[tip']) :
        TxIn[t] # {} /\ Fee[t] >= MinFee /\ Connects(tip', t) =>
            t \in transactions' \/ Cardinality(transactions') >= MaxSize]_vars
=============================================================================
