---------------------------- MODULE ChainAdoption ----------------------------
(***************************************************************************)
(* How the node makes a block the canonical tip (Node.adoptBlock and what  *)
(* it calls), and how it comes back after a crash (Node.start).            *)
(*                                                                         *)
(* On disk: the block store, undo records, height index, tip, UTXO set,    *)
(* transaction index, anchor index and address index, each a LevelDB       *)
(* sublevel.  In memory: the UTXO staging area and the batch of ops that   *)
(* adoptBlock collects, modelled together as `batch`: the contents the     *)
(* sublevels will have once the batch commits.  Everything between two     *)
(* chain-lock acquisitions is sequential, but every step can be the last   *)
(* one before a crash.                                                     *)
(*                                                                         *)
(* Blocks, transactions and coins are those of module Ledger.              *)
(***************************************************************************)
EXTENDS Ledger, FiniteSets

CONSTANTS
    OutAddr,        \* the address an outpoint pays
    Data,           \* the record a transaction carries, or None
    Depths,         \* address index depths a node may be started with
    Crashes,        \* the phases in which the process may die (when idle it may always stop)
    LegacyCanon     \* the chain of a database that predates undo records

VARIABLES
    blocks, undo, canon, tip, utxo, txIndex, anchors, addrIndex, meta, \* on disk
    phase,          \* what the holder of the chain lock is doing
    job,            \* its local variables
    batch,          \* UTXO staging and collected ops
    depth           \* this run's address index depth

disk == <<blocks, undo, canon, tip, utxo, txIndex, anchors, addrIndex, meta>>
vars == <<disk, phase, job, batch, depth>>

-----------------------------------------------------------------------------
Disabled == -1      \* --no-addrindex

(* A definition used by nothing else (the first is StagedBaseKept) is a     *)
(* faulty variant, for mutation, of the definition that follows it.         *)

(* Index entries.  The key leaves the block hash out: two fork blocks of    *)
(* one height that carry the same transaction share it.                     *)

AnchorKeys(b) == {<<Data[t], Height[b], t>> : t \in {x \in TxsOf(b) : Data[x] # None}}

(* addressActivityOf: outputs by the transaction, inputs by what it spent. *)
AddressKeys(b, spent) ==
    UNION {{<<OutAddr[o], Height[b], Txs[b][i]>> : o \in TxOut[Txs[b][i]] \cup spent[i]} :
           i \in 1..Len(Txs[b])}

UndoAddressKeys(b, rec) ==
    AddressKeys(b, [i \in 1..Len(Txs[b]) |->
                        IF i \in DOMAIN rec THEN DOMAIN rec[i].spent ELSE {}])

(* canonicalBlockWithUndo reads the disk, not the batch. *)
StoredUndo(b) == IF b \in DOMAIN undo THEN undo[b] ELSE <<>>
CanonicalAddressKeys(h) ==
    IF h \in DOMAIN canon THEN UndoAddressKeys(canon[h], StoredUndo(canon[h])) ELSE {}

-----------------------------------------------------------------------------
(* Node.start *)

NoJob == [head |-> None, a |-> None, b |-> None, conn |-> Empty, disc |-> Empty,
          h |-> 0, k |-> 0, rec |-> <<>>, replay |-> FALSE]

NoBatch == [open |-> FALSE, utxo |-> Empty, undo |-> Empty, canon |-> Empty,
            txIndex |-> Empty, anchors |-> Empty, addrIndex |-> Empty]

Init ==
    /\ blocks = {} /\ undo = Empty /\ canon = Empty /\ tip = None /\ utxo = Empty
    /\ txIndex = Empty /\ anchors = Empty /\ addrIndex = Empty
    /\ meta = [txBuilt |-> FALSE, addrBuilt |-> FALSE, addrDepth |-> None]
    /\ phase = "down" /\ job = NoJob /\ batch = NoBatch /\ depth = Disabled

(* A database written before undo records and indexes existed. *)
LegacyInit ==
    LET top == LegacyCanon[Cardinality(DOMAIN LegacyCanon) - 1]
    IN  /\ blocks = {LegacyCanon[h] : h \in DOMAIN LegacyCanon}
        /\ canon = LegacyCanon /\ tip = top /\ utxo = Coins(top).coins
        /\ undo = Empty /\ txIndex = Empty /\ anchors = Empty /\ addrIndex = Empty
        /\ meta = [txBuilt |-> FALSE, addrBuilt |-> FALSE, addrDepth |-> None]
        /\ phase = "down" /\ job = NoJob /\ batch = NoBatch /\ depth = Disabled

Start(d) ==
    /\ phase = "down"
    /\ depth' = d
    /\ phase' = IF tip = None THEN "genesis coins" ELSE "tx index"
    /\ UNCHANGED <<disk, job, batch>>

(* First start: separate writes, not one batch (the header index, which    *)
(* putHeader fills here, is in module BlockIntake).                        *)
GenesisCoins ==
    /\ phase = "genesis coins"
    /\ utxo' = ApplyTransaction(utxo, Txs[Genesis][1], 0)
    /\ phase' = "genesis block"
    /\ UNCHANGED <<blocks, undo, canon, tip, txIndex, anchors, addrIndex, meta, job, batch, depth>>

GenesisBlock ==
    /\ phase = "genesis block"
    /\ blocks' = blocks \cup {Genesis}
    /\ phase' = "genesis height"
    /\ UNCHANGED <<undo, canon, tip, utxo, txIndex, anchors, addrIndex, meta, job, batch, depth>>

GenesisHeight ==
    /\ phase = "genesis height"
    /\ canon' = Put(canon, {0}, Genesis)
    /\ phase' = "genesis tip"
    /\ UNCHANGED <<blocks, undo, tip, utxo, txIndex, anchors, addrIndex, meta, job, batch, depth>>

GenesisTip ==
    /\ phase = "genesis tip"
    /\ tip' = Genesis
    /\ phase' = "tx index"
    /\ UNCHANGED <<blocks, undo, canon, utxo, txIndex, anchors, addrIndex, meta, job, batch, depth>>

BackfillTxIndex ==
    LET indexed == UNION {TxsOf(canon[h]) : h \in DOMAIN canon}
        at(t) == canon[CHOOSE h \in DOMAIN canon :
                          /\ t \in TxsOf(canon[h])
                          /\ \A g \in DOMAIN canon : t \in TxsOf(canon[g]) => g <= h]
    IN  /\ phase = "tx index"
        /\ txIndex' = IF meta.txBuilt THEN txIndex
                      ELSE [t \in DOMAIN txIndex \cup indexed |->
                               IF t \in indexed THEN at(t) ELSE txIndex[t]]
        /\ meta' = [meta EXCEPT !.txBuilt = TRUE]
        /\ phase' = "address index"
        /\ UNCHANGED <<blocks, undo, canon, tip, utxo, anchors, addrIndex, job, batch, depth>>

-----------------------------------------------------------------------------
(* Node.reconcileAddressIndex: bring the stored index in line with `depth`. *)

Floor(d) == IF d = 0 \/ Height[tip] < d THEN 0 ELSE Height[tip] - d + 1

StoredDepth == IF meta.addrDepth = None THEN 0 ELSE meta.addrDepth

Tighter == depth # 0 /\ (StoredDepth = 0 \/ depth < StoredDepth)

(* backfillAddressIndex finds what was spent through the transaction index. *)
BackfilledAddressIndex(from, to) ==
    LET located(o) == \E t \in DOMAIN txIndex : o \in TxOut[t]
        keys(b) == AddressKeys(b, [i \in 1..Len(Txs[b]) |-> {o \in TxIn[Txs[b][i]] : located(o)}])
        new == UNION {keys(canon[h]) : h \in from..to}
    IN  [e \in DOMAIN addrIndex \cup new |-> IF e \in new THEN canon[e[2]] ELSE addrIndex[e]]

Reconciled ==
    /\ phase' = "idle"
    /\ UNCHANGED <<blocks, undo, canon, tip, utxo, txIndex, anchors, job, batch, depth>>

ReconcileNothing ==
    /\ phase = "address index"
    /\ IF depth = Disabled THEN ~meta.addrBuilt ELSE meta.addrBuilt /\ StoredDepth = depth
    /\ Reconciled
    /\ UNCHANGED <<addrIndex, meta>>

ReconcileBuild ==
    /\ phase = "address index" /\ depth # Disabled /\ ~meta.addrBuilt
    /\ addrIndex' = BackfilledAddressIndex(Floor(depth), Height[tip])
    /\ meta' = [meta EXCEPT !.addrBuilt = TRUE, !.addrDepth = depth]
    /\ Reconciled

ReconcileLoosen ==
    /\ phase = "address index" /\ depth # Disabled /\ meta.addrBuilt
    /\ StoredDepth # depth /\ ~Tighter
    /\ addrIndex' = BackfilledAddressIndex(Floor(depth), Floor(StoredDepth) - 1)
    /\ meta' = [meta EXCEPT !.addrDepth = depth]
    /\ Reconciled

(* sweepAddressIndexBelow commits its deletes in bounded batches. *)
SweepBatch ==
    /\ phase = "address index" /\ depth # Disabled /\ meta.addrBuilt
    /\ StoredDepth # depth /\ Tighter
    /\ \E K \in SUBSET {e \in DOMAIN addrIndex : e[2] < Floor(depth)} \ {{}} :
        addrIndex' = Del(addrIndex, K)
    /\ UNCHANGED <<blocks, undo, canon, tip, utxo, txIndex, anchors, meta, phase, job, batch, depth>>

ReconcileTighten ==
    /\ phase = "address index" /\ depth # Disabled /\ meta.addrBuilt
    /\ StoredDepth # depth /\ Tighter
    /\ \A e \in DOMAIN addrIndex : e[2] >= Floor(depth)
    /\ meta' = [meta EXCEPT !.addrDepth = depth]
    /\ Reconciled
    /\ UNCHANGED addrIndex

(* dropAddressIndex: clear the entries, then the markers. *)
DropAddressIndex ==
    /\ phase = "address index" /\ depth = Disabled /\ meta.addrBuilt
    /\ addrIndex' = Empty
    /\ phase' = "forget address index"
    /\ UNCHANGED <<blocks, undo, canon, tip, utxo, txIndex, anchors, meta, job, batch, depth>>

ForgetAddressIndex ==
    /\ phase = "forget address index"
    /\ meta' = [meta EXCEPT !.addrBuilt = FALSE, !.addrDepth = None]
    /\ Reconciled
    /\ UNCHANGED addrIndex

-----------------------------------------------------------------------------
(* Node.adoptBlock: open the staging area, plan, disconnect, connect, commit. *)

(* What reads fall through to: the stored coins, or nothing in a replay.    *)
StagedBaseKept(clearBase) == utxo
StagedBase(clearBase) == IF clearBase THEN Empty ELSE utxo

BeginAdoption(b) ==
    /\ phase' = "plan"
    /\ job' = [NoJob EXCEPT !.head = b, !.a = b, !.b = tip]
    /\ batch' = [open |-> TRUE, utxo |-> StagedBase(FALSE), undo |-> undo, canon |-> canon,
                 txIndex |-> txIndex, anchors |-> anchors, addrIndex |-> addrIndex]

(* discardStaging and leaving the lock, also after an error. *)
Release == phase' = "idle" /\ job' = NoJob /\ batch' = NoBatch

IsBetterOrEqual(b) == Weight[b] >= Weight[tip]
IsBetterChain(b) == Weight[b] > Weight[tip]

ParentStored(b) == b # Genesis /\ Parent[b] \in blocks

(* The end of handleIncomingBlock for a block that passed validateBlock and *)
(* whose parent is stored: store it, adopt it if its chain is heavier.      *)
Receive(b) ==
    /\ phase = "idle" /\ ~batch.open
    /\ ParentStored(b)
    /\ blocks' = blocks \cup {b}
    /\ IF IsBetterChain(b) THEN BeginAdoption(b) ELSE UNCHANGED <<phase, job, batch>>
    /\ UNCHANGED <<undo, canon, tip, utxo, txIndex, anchors, addrIndex, meta, depth>>

(* The end of mineBlockSerialized: adopted only if the tip is its parent.   *)
(* The block itself is stored by the adoption batch.                        *)
Mine(b) ==
    /\ phase = "idle" /\ ~batch.open
    /\ b \notin blocks /\ b # Genesis /\ Parent[b] = tip
    /\ BeginAdoption(b)
    /\ UNCHANGED <<disk, depth>>

(* planReorg: walk both chains back to where they meet.                     *)
PlanConnect ==
    /\ phase = "plan" /\ Height[job.a] > Height[job.b]
    /\ job' = [job EXCEPT !.conn = Put(@, {Height[job.a]}, job.a), !.a = Parent[@]]
    /\ UNCHANGED <<disk, phase, batch, depth>>

PlanDisconnect ==
    /\ phase = "plan" /\ Height[job.b] > Height[job.a]
    /\ job' = [job EXCEPT !.disc = Put(@, {Height[job.b]}, job.b), !.b = Parent[@]]
    /\ UNCHANGED <<disk, phase, batch, depth>>

PlanBoth ==
    /\ phase = "plan" /\ Height[job.a] = Height[job.b] /\ job.a # job.b
    /\ job' = [job EXCEPT !.conn = Put(@, {Height[job.a]}, job.a), !.a = Parent[@],
                          !.disc = Put(@, {Height[job.b]}, job.b), !.b = Parent[@]]
    /\ UNCHANGED <<disk, phase, batch, depth>>

(* The fork point is found.  A block to disconnect without an undo record   *)
(* (an old database) makes adoptBlock replay the whole chain instead.       *)
PlanDone ==
    /\ phase = "plan" /\ job.a = job.b
    /\ IF \A h \in DOMAIN job.disc : job.disc[h] \in DOMAIN undo
       THEN /\ phase' = "disconnect"
            /\ job' = [job EXCEPT !.h = Height[tip], !.k = Len(Txs[tip])]
            /\ UNCHANGED batch
       ELSE /\ phase' = "collect"
            /\ job' = [job EXCEPT !.a = job.head, !.conn = Empty, !.disc = Empty, !.replay = TRUE]
            /\ batch' = [batch EXCEPT !.utxo = StagedBase(TRUE)]
    /\ UNCHANGED <<disk, depth>>

(* disconnectBlock, tip first: reverse one transaction, last one first ...  *)
UndoTx ==
    LET b == job.disc[job.h]
    IN  /\ phase = "disconnect" /\ job.h > Height[job.a] /\ job.k > 0
        /\ batch' = [batch EXCEPT !.utxo = UndoTransaction(@, undo[b][job.k])]
        /\ job' = [job EXCEPT !.k = @ - 1]
        /\ UNCHANGED <<disk, phase, depth>>

(* ... then the block's index entries; the block it had pushed out of the   *)
(* address window comes back.                                               *)
RemoveTxLocations(f, b) == Del(f, TxsOf(b))

RemoveAnchors(f, b) == Del(f, AnchorKeys(b))

DisconnectBlock ==
    LET b == job.disc[job.h]
        own == UndoAddressKeys(b, undo[b])
        back == IF depth > 0 THEN CanonicalAddressKeys(job.h - depth) ELSE {}
    IN  /\ phase = "disconnect" /\ job.h > Height[job.a] /\ job.k = 0
        /\ batch' = [batch EXCEPT
              !.undo = Del(@, {b}),
              !.txIndex = RemoveTxLocations(@, b),
              !.anchors = RemoveAnchors(@, b),
              !.addrIndex = IF depth = Disabled THEN @
                            ELSE [e \in (DOMAIN @ \ own) \cup back |->
                                     IF e \in back THEN canon[e[2]] ELSE @[e]]]
        /\ job' = [job EXCEPT !.h = @ - 1, !.k = Len(Txs[Parent[b]])]
        /\ UNCHANGED <<disk, phase, depth>>

DisconnectDone ==
    /\ phase = "disconnect" /\ job.h = Height[job.a]
    /\ phase' = "connect"
    /\ job' = [job EXCEPT !.h = @ + 1, !.k = 0]
    /\ UNCHANGED <<disk, batch, depth>>

(* replayChainTo: collect the chain from genesis to the head. *)
Collect ==
    /\ phase = "collect"
    /\ IF job.a = Genesis
       THEN /\ job' = [job EXCEPT !.conn = Put(@, {0}, Genesis), !.h = 0, !.k = 0]
            /\ phase' = "connect"
       ELSE /\ job' = [job EXCEPT !.conn = Put(@, {Height[job.a]}, job.a), !.a = Parent[@]]
            /\ UNCHANGED phase
    /\ UNCHANGED <<disk, batch, depth>>

(* connectBlock, fork first: apply one transaction to the staged coins ...  *)
PushUndoFirst(rec, r) == <<r>> \o rec
PushUndo(rec, r) == Append(rec, r)

ConnectTx ==
    LET b == job.conn[job.h]
        t == Txs[b][job.k + 1]
    IN  /\ phase = "connect" /\ job.h <= Height[job.head] /\ job.k < Len(Txs[b])
        /\ ValidateTransaction(batch.utxo, t, job.h)
        /\ batch' = [batch EXCEPT !.utxo = ApplyTransaction(@, t, job.h)]
        /\ job' = [job EXCEPT !.k = @ + 1, !.rec = PushUndo(@, TxUndo(batch.utxo, t))]
        /\ UNCHANGED <<disk, phase, depth>>

(* ... or find it invalid: ChainReplayError, the staging is discarded ...   *)
ConnectRetries ==
    /\ phase = "connect" /\ job.h <= Height[job.head] /\ job.k < Len(Txs[job.conn[job.h]])
    /\ UNCHANGED vars
ConnectFails ==
    LET b == job.conn[job.h]
    IN  /\ phase = "connect" /\ job.h <= Height[job.head] /\ job.k < Len(Txs[b])
        /\ ~ValidateTransaction(batch.utxo, Txs[b][job.k + 1], job.h)
        /\ Release
        /\ UNCHANGED <<disk, depth>>

(* ... then collect its undo record, index entries and height.  The block   *)
(* that leaves the address window may itself have been connected in this    *)
(* batch.                                                                   *)
LeavingKeysOnDisk(h) == CanonicalAddressKeys(h)
LeavingKeys(h) ==
    IF h \in DOMAIN job.conn
    THEN UndoAddressKeys(job.conn[h], batch.undo[job.conn[h]])
    ELSE CanonicalAddressKeys(h)

PutUndoUnlessReplay(f, b, rec) == IF job.replay THEN f ELSE Put(f, {b}, rec)
PutUndo(f, b, rec) == Put(f, {b}, rec)

ConnectBlock ==
    LET b == job.conn[job.h]
        own == UndoAddressKeys(b, job.rec)
        gone == IF depth > 0 THEN LeavingKeys(job.h - depth) ELSE {}
    IN  /\ phase = "connect" /\ job.h <= Height[job.head] /\ job.k = Len(Txs[b])
        /\ batch' = [batch EXCEPT
              !.undo = PutUndo(@, b, job.rec),
              !.txIndex = Put(@, TxsOf(b), b),
              !.anchors = Put(@, AnchorKeys(b), b),
              !.addrIndex = IF depth = Disabled THEN @ ELSE Del(Put(@, own, b), gone),
              !.canon = Put(@, {job.h}, b)]
        /\ job' = [job EXCEPT !.h = @ + 1, !.k = 0, !.rec = <<>>]
        /\ UNCHANGED <<disk, phase, depth>>

ClearCanonicalOffByOne(f, keepUpTo, clearUpTo) == Del(f, (keepUpTo + 2)..clearUpTo)
ClearCanonicalHashesAbove(f, keepUpTo, clearUpTo) == Del(f, (keepUpTo + 1)..clearUpTo)

(* One LevelDB batch: all of it or, if the write fails, none of it. *)
Commit ==
    /\ phase = "connect" /\ job.h > Height[job.head]
    /\ blocks' = blocks \cup {job.head}
    /\ undo' = batch.undo
    /\ canon' = ClearCanonicalHashesAbove(batch.canon, Height[job.head], Height[tip])
    /\ tip' = job.head
    /\ utxo' = batch.utxo
    /\ txIndex' = batch.txIndex /\ anchors' = batch.anchors /\ addrIndex' = batch.addrIndex
    /\ Release
    /\ UNCHANGED <<meta, depth>>

CommitFails ==
    /\ phase = "connect" /\ job.h > Height[job.head]
    /\ Release
    /\ UNCHANGED <<disk, depth>>

(* The process dies, or is stopped while it holds no lock. *)
Crash ==
    /\ phase \in {"idle"} \cup Crashes
    /\ phase' = "down" /\ job' = NoJob /\ batch' = NoBatch
    /\ UNCHANGED <<disk, depth>>

Environment == \/ \E d \in Depths : Start(d)
               \/ \E b \in Block : Receive(b) \/ Mine(b)
               \/ CommitFails
               \/ Crash

Boot == \/ GenesisCoins \/ GenesisBlock \/ GenesisHeight \/ GenesisTip
        \/ BackfillTxIndex
        \/ ReconcileNothing \/ ReconcileBuild \/ ReconcileLoosen
        \/ SweepBatch \/ ReconcileTighten
        \/ DropAddressIndex \/ ForgetAddressIndex

Adopt == \/ PlanConnect \/ PlanDisconnect \/ PlanBoth \/ PlanDone
         \/ UndoTx \/ DisconnectBlock \/ DisconnectDone
         \/ Collect
         \/ ConnectTx \/ ConnectFails \/ ConnectBlock
         \/ Commit

Next == Environment \/ Boot \/ Adopt

Spec == Init /\ [][Next]_vars

LegacySpec == LegacyInit /\ [][Next]_vars

(* Every awaited database call returns, so whoever holds the chain lock     *)
(* goes on until it releases it.                                            *)
FairSpec == Spec /\ WF_vars(Boot \/ Adopt)

-----------------------------------------------------------------------------
(* Properties *)

Phases == {"down", "genesis coins", "genesis block", "genesis height", "genesis tip",
           "tx index", "address index", "forget address index", "idle",
           "plan", "disconnect", "collect", "connect"}

AdoptPhases == {"plan", "disconnect", "collect", "connect"}

(* Types, and when the staging area is open: exactly while adoptBlock runs, *)
(* or the next beginStaging would throw "staging already in progress".      *)
TypeOK ==
    /\ blocks \subseteq Block
    /\ DOMAIN undo \subseteq Block
    /\ DOMAIN canon \subseteq Nat /\ \A h \in DOMAIN canon : canon[h] \in Block
    /\ tip \in Block \cup {None}
    /\ phase \in Phases
    /\ job.head \in Block \cup {None}
    /\ batch.open = (phase \in AdoptPhases)
    /\ phase \in AdoptPhases => job.head \in Block /\ tip \in Block

OnChain == {canon[h] : h \in DOMAIN canon}

(* The persisted UTXO set is at every moment, crashes included, what a      *)
(* replay of the canonical chain from genesis gives (adoptBlock commits the *)
(* coins and the tip in one batch, undo records reverse exactly).  Only an  *)
(* outpoint that some block creates a second time while it is unspent may   *)
(* be missing: applyTransaction overwrites it and undoTransaction deletes   *)
(* it.  Nothing is ever there that the replay does not have.                *)
UtxoIsReplay == tip # None => Coins(tip).ok /\ Agrees(utxo, Coins(tip).coins)

(* The height index is the ancestry of the tip: no gap, no stale height     *)
(* above a tip that became lower, no mixture of two forks                   *)
(* (setCanonicalHashAtHeightOp, clearCanonicalHashesAboveOps).              *)
CanonIsAncestry ==
    tip # None =>
        /\ DOMAIN canon = 0..Height[tip] /\ canon[Height[tip]] = tip
        /\ canon[0] = Genesis
        /\ \A h \in 1..Height[tip] : Height[canon[h]] = h /\ canon[h - 1] = Parent[canon[h]]

(* A stored block's ancestors are stored, so planReorg never meets a        *)
(* missing ancestor and getIndexedHeader never fails for a known parent.    *)
AncestryStored ==
    /\ \A b \in blocks \ {Genesis} : Parent[b] \in blocks
    /\ tip # None => tip \in blocks

ExactUndo(b) == [k \in 1..Len(Txs[b]) |-> TxUndo(UtxoAt[b][k - 1].coins, Txs[b][k])]

(* Undo records exist for exactly the canonical blocks above genesis and    *)
(* hold what connecting them spent, so the replay fallback is never taken   *)
(* on a database this code wrote.                                           *)
UndoExact ==
    tip # None =>
        /\ DOMAIN undo = OnChain \ {Genesis}
        /\ \A b \in DOMAIN undo : undo[b] = ExactUndo(b)

(* Once built, the transaction index maps exactly the canonical             *)
(* transactions to a canonical block that holds them: it follows reorgs,    *)
(* also when both forks hold the same transaction.  A transaction that a    *)
(* chain repeats may be missing: disconnecting one block removes it.        *)
TxIndexExact ==
    meta.txBuilt =>
        /\ DOMAIN txIndex \subseteq UNION {TxsOf(b) : b \in OnChain}
        /\ UNION {TxsOf(b) : b \in OnChain} \ Repeated \subseteq DOMAIN txIndex
        /\ \A t \in DOMAIN txIndex : txIndex[t] \in OnChain /\ t \in TxsOf(txIndex[t])

(* The anchor index lists exactly the canonical transactions that carry a   *)
(* record, under the block that holds them.                                 *)
AnchorsExact ==
    anchors = [e \in UNION {AnchorKeys(b) : b \in OnChain} |-> canon[e[2]]]

(* Once the node is up, the address index covers exactly the last `depth`   *)
(* canonical blocks (all of them for 0), through reorgs that move the       *)
(* window down and up and through restarts.  An entry for spending an       *)
(* output of a transaction that a chain repeats may be missing, as it is    *)
(* built through the transaction index.                                     *)
AddressWindowExact ==
    (phase \in {"idle"} \cup AdoptPhases /\ depth # Disabled) =>
        LET keys(b, T) ==
                AddressKeys(b, [i \in 1..Len(Txs[b]) |->
                                   {o \in TxIn[Txs[b][i]] : \E t \in T : o \in TxOut[t]}])
            window(T) == UNION {keys(canon[h], T) : h \in Floor(depth)..Height[tip]}
        IN  /\ window(Tx \ Repeated) \subseteq DOMAIN addrIndex /\ DOMAIN addrIndex \subseteq window(Tx)
            /\ \A e \in DOMAIN addrIndex : addrIndex[e] = canon[e[2]]

(* All three secondary indexes describe the canonical chain, and nothing     *)
(* else, after every reorg, crash and restart (connectBlock,                 *)
(* disconnectBlock, reconcileAddressIndex).                                  *)
IndexesExact == TxIndexExact /\ AnchorsExact /\ AddressWindowExact

(* Seen from disk, adoption is one atomic step to a strictly heavier valid  *)
(* chain: nothing a crash or a failed commit interrupts is ever visible.    *)
(* The coins of that chain are as in UtxoIsReplay.                          *)
HC == INSTANCE HeaviestChain WITH
        best <- tip,
        coins <- IF tip = None THEN Empty ELSE utxo,
        HeavierThan <- LAMBDA b, c : Weight[b] > Weight[c],
        Valid <- LAMBDA b : Coins(b).ok,
        Shows <- LAMBDA u, b : IF b = None THEN u = Empty ELSE Agrees(u, Coins(b).coins)

FollowsHeaviest == HC!Spec

(* The next transaction of the block being connected spends a coin that the *)
(* chain has, but that is gone since another block had repeated it.         *)
SpendsLostCoin ==
    \E o \in TxIn[Txs[job.conn[job.h]][job.k + 1]] \ DOMAIN batch.utxo : o \in Recreated

(* A heavier valid chain is not refused: adoptBlock gives a block up as     *)
(* invalid (ChainReplayError) only if its chain really does not replay from *)
(* genesis, whatever was disconnected before, or if it spends a coin that   *)
(* undoTransaction has deleted (see UtxoIsReplay).                          *)
RefusesOnlyInvalid == [][ConnectFails => ~Coins(job.head).ok \/ SpendsLostCoin]_vars

(* Whatever it is interrupted by, an adoption or a start-up that is not     *)
(* killed ends and releases the chain lock.                                 *)
LockReleased == (phase # "down") ~> (phase \in {"idle", "down"})

(* A replay writes every missing undo record, so it happens once: from then *)
(* on every canonical block above genesis has one.                          *)
UndoComplete == tip # None /\ OnChain \ {Genesis} \subseteq DOMAIN undo

FallbackIsOneTime ==
    [][(UndoComplete \/ (job.replay /\ tip' # tip)) => UndoComplete']_vars
=============================================================================
