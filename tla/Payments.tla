------------------------------ MODULE Payments ------------------------------
(***************************************************************************)
(* Coins with their amounts: how a wallet and the node's anchor service    *)
(* build transactions (wallet/txBuilder.ts; cli/wallet.ts send, anchor and *)
(* bump; node.ts anchorRecord), what becomes of them while blocks arrive   *)
(* and leave, and the supply the node reports (getSupply).                 *)
(*                                                                         *)
(* A wallet command is several requests to the node, and the chain moves   *)
(* in between.  anchorRecord and adoptBlock run under the chain lock: one  *)
(* step each.  The claims of the mempool are the inputs of what is pending *)
(* (ClaimsExact of Mempool).                                               *)
(***************************************************************************)
EXTENDS Monetary, Sequences, SequencesExt, FiniteSets

CONSTANTS
    Allocation,         \* the genesis outputs, a sequence of [address, amount]
    Policy,             \* the emission schedule of the network
    Schedules,          \* the schedules whose closed forms are checked
    Maturity,           \* coinbaseMaturity
    MinFee, MaxSize, MaxReplacements,   \* of the mempool
    CoinPool, MaxSplit, \* ANCHOR_COIN_POOL, ANCHOR_MAX_SPLIT
    Records,            \* the data to be anchored
    Amounts, Fees, Recipients,          \* what a command may be asked for
    Shortfalls,         \* how much less than it may a peer's coinbase pays
    MaxHeight, MaxTxs, MaxReorg,        \* bounds
    MaxEvents,          \* bounds commands, reorgs, restarts and odd coinbases together
    EmissionHeights     \* how far the emission is compared with the sum

ASSUME PaymentsAssumption ==
    /\ Maturity \in Nat /\ MaxReplacements \in Nat /\ {MinFee, MaxSize} \subseteq Nat \ {0}
    /\ Shortfalls \subseteq Nat
    /\ {CoinPool, MaxSplit} \subseteq Nat \ {0}
    /\ Fees \subseteq Nat /\ Amounts \subseteq Nat \ {0}
    (* With a constant reward, cumulativeEmission takes the initial one.     *)
    /\ \A p \in {Policy} \cup Schedules : p.halvingInterval = 0 => p.tailEmission <= p.initialReward

VARIABLES
    chain,      \* the blocks above genesis, each with its undo record
    coins,      \* the UTXO set
    pool,       \* the pending transactions
    relayed,    \* every transaction that was broadcast: some peer may have it
    cmd,        \* the wallet command that runs, or NoCmd
    txs,        \* how many transactions were made: the next id, and the clock
    events,
    forgotten,  \* history: records whose anchor left pool and chain
    overwritten \* history: a coinbase was put in the place of its unspent twin

ledger == <<chain, coins, overwritten>>
vars == <<ledger, pool, relayed, cmd, txs, events, forgotten>>

(* The keys: of the anchor service, of the wallet (which also mines here),   *)
(* and of everyone else.                                                     *)
Op == "op"
Me == "me"
Others == "others"

NoCmd == [kind |-> "none"]
NoTx == [id |-> -1]
NoData == "no data"

-----------------------------------------------------------------------------
(* The ledger *)

Sum(outputs) == FoldLeft(LAMBDA s, o : s + o.amount, 0, outputs)
Value(S) == MapThenSumSet(LAMBDA c : c.amount, S)
FeesOf(S) == MapThenSumSet(LAMBDA t : t.fee, S)

Outpoint(c) == <<c.tx, c.index>>
Outpoints(S) == {Outpoint(c) : c \in S}

Created(id, outputs, height, coinbase) ==
    {[tx |-> id, index |-> i, address |-> outputs[i].address, amount |-> outputs[i].amount,
      height |-> height, isCoinbase |-> coinbase] : i \in DOMAIN outputs}

(* The genesis allocation is a coinbase of height 0.                         *)
GenesisCoins == Created(<<0>>, Allocation, 0, TRUE)

(* A chain and its coins as a value: a reorganisation makes several.         *)
Now == [blocks |-> chain, coins |-> coins]
NextHeight(L) == Len(L.blocks) + 1
Height == Len(chain)
Confirmed == UNION {chain[h].txs : h \in DOMAIN chain}

InputsOf(t, utxos) == {c \in utxos : Outpoint(c) \in t.inputs}

(* validateTransactionStructure *)
WellFormed(t) == t.outputs # <<>> /\ \A i \in DOMAIN t.outputs : t.outputs[i].amount > 0

(* validateTransaction for the next block.                                   *)
Connects(t, L) ==
    LET inputs == InputsOf(t, L.coins)
    IN  /\ WellFormed(t)
        /\ Outpoints(inputs) = t.inputs
        /\ \A c \in inputs :
            /\ c.isCoinbase => NextHeight(L) >= c.height + Maturity
            /\ c.address = t.key
        /\ Value(inputs) >= Sum(t.outputs) + t.fee

(* A block's coinbase may pay the reward and the fees ...                    *)
CoinbaseAmount(L, S) == BlockRewardAt(NextHeight(L), Policy) + FeesOf(S)

(* ... which is what buildBlockTemplate claims, at the time of the block ... *)
TemplateCoinbase(L, S, miner) ==
    [miner |-> miner, amount |-> CoinbaseAmount(L, S), time |-> NextHeight(L)]

(* ... while a peer's may pay less, and have any time.  Its id is a hash of  *)
(* its content, so it may be that of an earlier coinbase; any other time is  *)
(* like the block's own.                                                     *)
OddCoinbases(L, S) ==
    {cb \in {[miner |-> Others, amount |-> CoinbaseAmount(L, S) - u, time |-> h] :
                u \in Shortfalls, h \in 1..NextHeight(L)} :
        IF cb.time = NextHeight(L) THEN cb.amount < CoinbaseAmount(L, S)
        ELSE \E h \in DOMAIN L.blocks : L.blocks[h].coinbase = cb}

(* validateBlock.  A coinbase must pay something, as every transaction: when *)
(* emission has ended a block without fees is not valid.  The transactions   *)
(* connect to the chain, and no two conflict.                                *)
Minable(L, S, coinbase) ==
    /\ coinbase.amount \in 1..CoinbaseAmount(L, S)
    /\ \A t \in S : Connects(t, L)
    /\ \A t, u \in S : t # u => t.inputs \cap u.inputs = {}

CoinsOf(block, height) ==
    LET cb == block.coinbase
    IN  Created(<<cb.miner, cb.amount, cb.time>>, <<[address |-> cb.miner, amount |-> cb.amount]>>,
                height, TRUE)
        \cup UNION {Created(<<t.id>>, t.outputs, height, FALSE) : t \in block.txs}

(* connectBlock: spent coins go, an output with the outpoint of a coin takes *)
(* its place.  A block is kept with its undo record, the spent coins.        *)
Extend(L, S, coinbase) ==
    LET spent == UNION {InputsOf(t, L.coins) : t \in S}
        block == [txs |-> S, coinbase |-> coinbase, spent |-> spent]
        created == CoinsOf(block, NextHeight(L))
    IN  [blocks |-> Append(L.blocks, block),
         coins |-> {c \in L.coins \ spent : Outpoint(c) \notin Outpoints(created)} \cup created]

(* undoTransaction: the created outpoints are deleted, the spent coins come  *)
(* back; what an output took the place of does not.                          *)
Disconnect(L) ==
    LET block == Last(L.blocks)
        created == CoinsOf(block, Len(L.blocks))
    IN  [blocks |-> Front(L.blocks),
         coins |-> {c \in L.coins : Outpoint(c) \notin Outpoints(created)} \cup block.spent]

-----------------------------------------------------------------------------
(* The mempool: replace-by-fee, capacity, and what adoptBlock does to it.    *)

Conflicts(p, t) == {q \in p : q.inputs \cap t.inputs # {}}

LowestFee(p) == {q \in p : \A r \in p : q.fee <= r.fee}

(* The pools that addTransaction may leave behind: of several lowest fees    *)
(* the first inserted goes, here any.                                        *)
Add(p, t, L) ==
    LET conflicts == Conflicts(p, t)
        rest == p \ conflicts
    IN  IF \/ t \in p \/ t.fee < MinFee
           \/ Cardinality(conflicts) > MaxReplacements
           \/ conflicts # {} /\ t.fee < FeesOf(conflicts) + MinFee
           \/ ~Connects(t, L)
        THEN {p}
        ELSE IF Cardinality(rest) < MaxSize THEN {rest \cup {t}}
        ELSE {IF low.fee < t.fee THEN (rest \ {low}) \cup {t} ELSE rest : low \in LowestFee(rest)}

Purge(p, included) ==
    LET spent == UNION {t.inputs : t \in included}
    IN  {t \in p \ included : t.inputs \cap spent = {}}

(* The transactions of the abandoned blocks come back, tip first and in the  *)
(* order they have in their block, here any.                                 *)
AddAll(ps, S, L) ==
    UNION {FoldLeft(LAMBDA qs, t : UNION {Add(q, t, L) : q \in qs}, ps, order) :
           order \in SetToSeqs(S)}

Resubmit(p, abandoned, included, L) ==
    FoldLeft(LAMBDA ps, b : AddAll(ps, b.txs \ included, L), {p}, Reverse(abandoned))

-----------------------------------------------------------------------------
(* Building transactions (wallet/txBuilder.ts).  A definition used by        *)
(* nothing else (the first is ChangeWithoutRemainder) is a faulty variant,   *)
(* for mutation, of the one that follows it.                                 *)

IsMature(c, tipHeight) == c.isCoinbase => c.height + Maturity <= tipHeight + 1

(* Largest first until the target is covered; {} when it cannot be.  Ties go *)
(* by outpoint, which is a hash: here by age.                                *)
LargerFirst(a, b) ==
    \/ a.amount > b.amount
    \/ a.amount = b.amount /\ a.height < b.height
    \/ a.amount = b.amount /\ a.height = b.height /\ a.index < b.index

SelectCoins(spendable, target) ==
    LET sorted == SetToSortSeq(spendable, LargerFirst)
        first(n) == {sorted[i] : i \in 1..n}
        enough == {n \in DOMAIN sorted : Value(first(n)) >= target}
    IN  IF enough = {} THEN {} ELSE first(Min(enough))

Change(address, change, split) ==
    LET pieces == Min({Max({1, split}), change})
    IN  [i \in 1..pieces |->
            [address |-> address,
             amount |-> IF i = pieces THEN change - (change \div pieces) * (pieces - 1)
                        ELSE change \div pieces]]

BuildSigned(key, unspent, tipHeight, payments, minChange, fee, data, split) ==
    LET required == Sum(payments) + fee
        chosen == SelectCoins({c \in unspent : IsMature(c, tipHeight)}, required + minChange)
    IN  IF chosen = {} THEN NoTx
        ELSE [id |-> txs + 1, key |-> key, inputs |-> {Outpoint(c) : c \in chosen},
              outputs |-> payments \o Change(key, Value(chosen) - required, split),
              fee |-> fee, data |-> data, replaces |-> txs + 1]

BuildTransaction(unspent, tipHeight, to, amount, fee) ==
    BuildSigned(Me, unspent, tipHeight, <<[address |-> to, amount |-> amount]>>, 0, fee, NoData, 1)

BuildAnchorTransaction(key, unspent, tipHeight, fee, data, split) ==
    BuildSigned(key, unspent, tipHeight, <<>>, 1, fee, data, split)

(* The output of its own that is last pays the extra fee, and goes when      *)
(* nothing of it remains.                                                    *)
ChangeIndexFirst(t) == IF t.outputs = <<>> THEN 0 ELSE 1
ChangeIndex(t) == Max({0} \cup {i \in DOMAIN t.outputs : t.outputs[i].address = t.key})

BumpFee(t, newFee) ==
    LET change == ChangeIndex(t)
        extra == newFee - t.fee
        outputs == SelectSeq(
            [i \in DOMAIN t.outputs |->
                IF i = change THEN [t.outputs[i] EXCEPT !.amount = @ - extra] ELSE t.outputs[i]],
            LAMBDA o : o.amount > 0)
    IN  IF change = 0 \/ extra <= 0 \/ t.key # Me THEN NoTx
        ELSE IF t.outputs[change].amount < extra \/ outputs = <<>> THEN NoTx
        ELSE [t EXCEPT !.id = txs + 1, !.outputs = outputs, !.fee = newFee]

-----------------------------------------------------------------------------
Init ==
    /\ chain = <<>> /\ coins = GenesisCoins /\ overwritten = FALSE
    /\ pool = {} /\ relayed = {} /\ cmd = NoCmd
    /\ txs = 0 /\ events = 0 /\ forgotten = {}

Event == events < MaxEvents /\ events' = events + 1

(* History: the node's anchors that are neither pending nor confirmed now.   *)
Forgets ==
    LET kept == pool' \cup Confirmed'
        gone == {t \in (pool \cup Confirmed) \ kept : t.key = Op}
    IN  forgotten' = forgotten \cup {t.data : t \in gone}

(* A transaction is submitted and, when it was admitted, relayed.            *)
Submit(t) ==
    /\ txs' = t.id
    /\ pool' \in Add(pool, t, Now)
    /\ relayed' = relayed \cup ({t} \cap pool')
    /\ Forgets

-----------------------------------------------------------------------------
(* The anchor service *)

AnchoredIn(S, d) == {t \in S : t.data = d}

PendingNever(d) == {}
PendingAnchors(d) == {t \in AnchoredIn(pool, d) : t.key = Op}

FreeOrClaimed == {c \in coins : c.address = Op}
Free == {c \in coins : c.address = Op /\ \A t \in pool : Outpoint(c) \notin t.inputs}

Split(free) == Min({MaxSplit, Max({1, CoinPool - (Cardinality(free) - 1)})})

Anchor(d) ==
    BuildAnchorTransaction(Op, Free, Height, MinFee, d, Split(Free))

(* anchorRecord.  A record that is confirmed or pending is reported as such, *)
(* and without free coins the request is refused: nothing changes.  Nor does *)
(* anything but the clock when the mempool refuses the transaction.          *)
AnchorRecord(d) ==
    /\ txs < MaxTxs /\ UNCHANGED <<ledger, cmd, events>>
    /\ AnchoredIn(Confirmed, d) = {} /\ PendingAnchors(d) = {}
    /\ \E t \in {Anchor(d)} : t # NoTx /\ Submit(t)

-----------------------------------------------------------------------------
(* Wallet commands: the requests for the tip and for the coins run at the    *)
(* same time (Promise.all) and are answered in either order.                 *)

Starts(c) ==
    /\ cmd = NoCmd /\ txs < MaxTxs /\ cmd' = c /\ Event
    /\ UNCHANGED <<ledger, pool, relayed, txs, forgotten>>

Send(to, amount, fee) ==
    Starts([kind |-> "send", to |-> to, amount |-> amount, fee |-> fee, data |-> NoData,
            tipHeight |-> Undefined, unspent |-> <<>>])

AnchorCommand(d) ==
    Starts([kind |-> "anchor", to |-> Me, amount |-> 1, fee |-> MinFee, data |-> d,
            tipHeight |-> Undefined, unspent |-> <<>>])

(* getMempool: the transaction to be replaced comes from the node.           *)
Bump(t, newFee) ==
    /\ newFee > t.fee
    /\ Starts([kind |-> "bump", original |-> t, fee |-> newFee])

Asking == cmd.kind \in {"send", "anchor"}

GetInfo ==
    /\ Asking /\ cmd.tipHeight = Undefined
    /\ cmd' = [cmd EXCEPT !.tipHeight = Height]
    /\ UNCHANGED <<ledger, pool, relayed, txs, events, forgotten>>

ListUnspent ==
    /\ Asking /\ cmd.unspent = <<>>
    /\ cmd' = [cmd EXCEPT !.unspent = <<{c \in coins : c.address = Me}>>]
    /\ UNCHANGED <<ledger, pool, relayed, txs, events, forgotten>>

Answered == IF Asking THEN cmd.tipHeight # Undefined /\ cmd.unspent # <<>> ELSE cmd # NoCmd

Built ==
    CASE cmd.kind = "send" ->
            BuildTransaction(cmd.unspent[1], cmd.tipHeight, cmd.to, cmd.amount, cmd.fee)
      [] cmd.kind = "anchor" ->
            BuildAnchorTransaction(Me, cmd.unspent[1], cmd.tipHeight, cmd.fee, cmd.data, 1)
      [] OTHER -> BumpFee(cmd.original, cmd.fee)

(* sendRawTransaction; the command fails if there is nothing to send.        *)
Finish ==
    /\ Answered /\ cmd' = NoCmd /\ UNCHANGED <<ledger, events>>
    /\ \E t \in {Built} : IF t = NoTx THEN UNCHANGED <<pool, relayed, txs, forgotten>>
                           ELSE txs < MaxTxs /\ Submit(t)

-----------------------------------------------------------------------------
(* Blocks *)

(* The chain gets a block on top of L.                                       *)
Connected(L, S, coinbase, abandoned) ==
    /\ Minable(L, S, coinbase)
    /\ \E new \in {Extend(L, S, coinbase)} :
        /\ chain' = new.blocks /\ coins' = new.coins
        /\ pool' \in Resubmit(Purge(pool, S), abandoned, S, new)
        /\ LET created == CoinsOf(Last(new.blocks), 0)
           IN  overwritten' = (overwritten \/ Outpoints(created) \cap Outpoints(L.coins) # {})
    /\ Forgets /\ UNCHANGED <<relayed, cmd, txs>>

(* This node's block has what is pending, a peer's what was relayed to it.   *)
Mine ==
    /\ Height < MaxHeight
    /\ Connected(Now, pool, TemplateCoinbase(Now, pool, Me), <<>>) /\ UNCHANGED events

PeersBlock ==
    /\ Height < MaxHeight
    /\ \E S \in SUBSET relayed :
       \/ Connected(Now, S, TemplateCoinbase(Now, S, Others), <<>>) /\ UNCHANGED events
       \/ \E cb \in OddCoinbases(Now, S) : Connected(Now, S, cb, <<>>) /\ Event

(* A branch that is one block longer takes the place of the last n blocks;   *)
(* its own last block has transactions.                                      *)
Back(n) == FoldLeft(LAMBDA L, i : Disconnect(L), Now, [i \in 1..n |-> i])
EmptyBlocks(fork, n) ==
    FoldLeft(LAMBDA L, i : Extend(L, {}, TemplateCoinbase(L, {}, Others)), fork, [i \in 1..n |-> i])

Reorg(n) ==
    /\ n <= Height /\ Height < MaxHeight /\ Event
    /\ \A h \in (Height - n + 1)..Height : BlockRewardAt(h, Policy) > 0
    /\ \E L \in {EmptyBlocks(Back(n), n)}, S \in SUBSET relayed :
        Connected(L, S, TemplateCoinbase(L, S, Others), SubSeq(chain, Height - n + 1, Height))

(* The mempool is not on disk.                                               *)
Restart ==
    /\ Event /\ pool' = {}
    /\ UNCHANGED <<ledger, relayed, cmd, txs>> /\ Forgets

-----------------------------------------------------------------------------
GetSupply ==
    LET genesis == Sum(Allocation)
    IN  [circulating |-> genesis + CumulativeEmission(Height, Policy),
         maxSupply |-> MaxSupply(Policy, genesis)]

-----------------------------------------------------------------------------
Next ==
    \/ \E to \in Recipients, amount \in Amounts, fee \in Fees : Send(to, amount, fee)
    \/ \E d \in Records : AnchorRecord(d) \/ AnchorCommand(d)
    \/ \E t \in pool, fee \in Fees : Bump(t, fee)
    \/ GetInfo \/ ListUnspent \/ Finish
    \/ Mine \/ PeersBlock \/ (\E n \in 1..MaxReorg : Reorg(n))
    \/ Restart

Spec == Init /\ [][Next]_vars

-----------------------------------------------------------------------------
(* Properties *)

ClaimsAll(h) == chain[h].coinbase.amount = BlockRewardAt(h, Policy) + FeesOf(chain[h].txs)


(* The closed forms of the emission schedule are right, also at the borders  *)
(* of eras: cumulativeEmission is the sum of the rewards of all heights,     *)
(* maxSupply what it comes to in the end, and nextHalvingHeight the first    *)
(* height above with another reward, none only if the reward stays for good. *)
(* (This does not depend on the state: the initial one is enough.)           *)
EmissionExact ==
    Init => \A p \in Schedules :
        LET sum[h \in 0..EmissionHeights] == IF h = 0 THEN 0 ELSE sum[h - 1] + BlockRewardAt(h, p)
            changes(h) ==
                {k \in (h + 1)..EmissionHeights : BlockRewardAt(k, p) # BlockRewardAt(h, p)}
        IN  /\ \A h \in 0..EmissionHeights : CumulativeEmission(h, p) = sum[h]
            /\ MaxSupply(p, 0) # Undefined => MaxSupply(p, 0) = sum[EmissionHeights]
            /\ \A h \in 1..(EmissionHeights \div 2) :
                NextHalvingHeight(h, p) = IF changes(h) = {} THEN Undefined ELSE Min(changes(h))

AnchorsOf(d) == {t \in AnchoredIn(Confirmed, d) : t.key = Op}

(* The node pays for a record once, however often the request is repeated    *)
(* and whoever mines it, over reorgs as well, as long as the anchor did not  *)
(* leave the pool without being mined (a restart, an eviction from the full  *)
(* pool, or a reorg after which it could not be submitted again).            *)
PaidOnceUnlessForgotten == \A d \in Records \ forgotten : Cardinality(AnchorsOf(d)) <= 1

(* Coin selection skips the coins of pending transactions, and its idea of   *)
(* maturity is validateTransaction's: an anchor that could be built never    *)
(* costs a pending transaction its place, and the mempool refuses it, since  *)
(* it pays the minimum fee, exactly when it is full.                         *)
AnchorAdmitted ==
    [][\A d \in Records :
        AnchorRecord(d) =>
            IF Cardinality(pool) < MaxSize
            THEN pool \subseteq pool' /\ \E t \in pool' : t.data = d /\ t.key = Op
            ELSE pool' = pool]_vars

Paid(t) == {o \in {<<i, t.outputs[i]>> : i \in DOMAIN t.outputs} : o[2].address # t.key}

(* A payment and its replacements by `bump` are one payment: at most one of  *)
(* them is ever on the chain, and each pays the recipient the amount that    *)
(* was asked for; only the sender's change shrinks.                          *)
BumpKeepsPayment ==
    \A t \in Confirmed, u \in relayed :
        t.replaces = u.replaces => (u \in Confirmed => t = u) /\ Paid(t) = Paid(u)
=============================================================================
