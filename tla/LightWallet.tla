---------------------------- MODULE LightWallet ----------------------------
(***************************************************************************)
(* The wallet's `sync`, `verify` and `find-anchor` commands                *)
(* (cli/wallet.ts): a header chain kept in a file (wallet/headerStore.ts)  *)
(* is brought up to date with a node (wallet/spv.ts, syncHeaders), and a   *)
(* transaction's inclusion is checked against it.                          *)
(*                                                                         *)
(* Every request to the node is a step.  The node may have moved to        *)
(* another chain before the next one, and the wallet does not trust it: it *)
(* may be on another genesis, serve headers that break the rules, answer   *)
(* with the proof of another transaction than the one asked for, or pass   *)
(* that off as the proof.                                                  *)
(***************************************************************************)
EXTENDS HeaderRules, Functions

CONSTANTS
    Genesis,        \* the header whose hash is params.genesisHash
    Served,         \* the header chains a node may be on
    Tx,             \* the transactions the commands and the answers are about
    PageSize,
    MaxFutureDrift,
    MaxSafeInteger, \* Number.MAX_SAFE_INTEGER
    MaxNow, MaxMoves, MaxCommands   \* bounds

ASSUME WalletAssumption ==
    /\ {PageSize, MaxFutureDrift, MaxNow, MaxMoves, MaxCommands} \subseteq Nat /\ PageSize > 0
    /\ MaxSafeInteger \in Nat /\ MaxNow <= MaxSafeInteger
    /\ Genesis.time \in Nat /\ Genesis.target \in 1..MaxTarget
    /\ \A c \in Served :
        /\ c # <<>> /\ c \in Seq(Range(c))
        /\ \A h \in Range(c) :
            h.time \in Nat /\ h.target \in Nat /\ h.txs \in Seq(Range(h.txs))

VARIABLES
    now,
    served,         \* the node's canonical chain
    store,          \* the header file: a chain, << >> when there is none
    phase,          \* of the command: "idle", or the request that is next
    stored,         \* the chain it loaded
    probe,          \* syncHeaders' mismatch, step and match
    tail,           \* the headers fetched so far, each as its own chain
    asked,          \* the transaction to be found, and whether the answer's id is compared
    proof,          \* the node's answer, an inclusion proof, or NoProof
    result,         \* of the last command
    moved,          \* history: the node has moved since that command began
    moves, commands

client == <<store, phase, stored, probe, tail, asked, proof, result, commands>>
vars == <<now, served, client, moved, moves>>

NoProbe == [mismatch |-> 0, step |-> 0, match |-> -1]
NoQuestion == [tx |-> <<>>, compared |-> FALSE]
NoProof == [tx |-> <<>>, chain |-> <<>>, siblings |-> <<>>]
NoResult == [status |-> "none", tx |-> <<>>, height |-> 0]

(* A header by its hash, the chain that ends in it; its height.              *)
HeaderAt(chain, height) == SubSeq(chain, 1, height + 1)
HeightOf(hash) == Len(hash) - 1

-----------------------------------------------------------------------------
(* The rules.  A definition used by nothing else (the first is               *)
(* VerifyFromSecond) is a faulty variant, for mutation, of the one that      *)
(* follows it.                                                               *)

(* Mirrors the node's expectedTargetFor, by height instead of by ancestry.   *)
ExpectedTarget(hash) ==
    LET height == HeightOf(hash)
        start == RetargetWindow(height).startHeight
    IN  IF height % Interval # 0 THEN hash[height].target
        ELSE NextTarget(PreviousHash(hash), height - 1 - start)

HeaderValid(hash, latest) ==
    ValidateHeader(HeaderOf(hash), hash[HeightOf(hash)], ExpectedTarget(hash), latest)

VerifyFromSecond(prefix, additions, latest) ==
    \A i \in 2..Len(additions) :
        PreviousHash(additions[i]) = additions[i - 1] /\ HeaderValid(additions[i], latest)
VerifyFrom(prefix, additions, latest) ==
    \A i \in DOMAIN additions :
        /\ PreviousHash(additions[i]) = (IF i = 1 THEN prefix ELSE additions[i - 1])
        /\ HeaderValid(additions[i], latest)

VerifyHeaderChain(headers, latest) ==
    headers # <<>> /\ headers[1] = <<Genesis>> /\ VerifyFrom(<<Genesis>>, Tail(headers), latest)

AllHeaders(chain) == [i \in DOMAIN chain |-> SubSeq(chain, 1, i)]

(* loadVerifiedHeaders takes the largest number for the time it is now.      *)
Latest == now + MaxFutureDrift
LoadsAt(chain, latest) == VerifyHeaderChain(AllHeaders(chain), latest)
Loads(chain) == LoadsAt(chain, MaxSafeInteger + MaxFutureDrift)

-----------------------------------------------------------------------------
(* The node: getHeaders and getTransactionProof (node/node.ts).              *)

GetHeaders(from, count) ==
    [i \in 1..Max({0, Min({count, Len(served) - from})}) |-> HeaderAt(served, from + i - 1)]

AgreesAt(height) == GetHeaders(height, 1) = <<HeaderAt(stored, height)>>

Places(t) ==
    UNION {{<<h, i>> : i \in {j \in DOMAIN served[h + 1].txs : served[h + 1].txs[j] = t}} :
           h \in 0..(Len(served) - 1)}

(* The path of v, in an answer that says it is of u.                         *)
TransactionProof(u, v) ==
    LET at == CHOOSE x \in Places(v) : TRUE
    IN  [tx |-> <<u>>, chain |-> HeaderAt(served, at[1]),
         siblings |-> MerkleProof(served[at[1] + 1].txs, at[2] - 1)]

(* A reorg, or the next request goes to another node.                        *)
NodeMoves ==
    /\ moves < MaxMoves /\ moves' = moves + 1
    /\ \E c \in Served \ {served} : served' = c
    /\ moved' = TRUE
    /\ UNCHANGED <<now, client>>

Tick ==
    /\ now < MaxNow /\ now' = now + 1
    /\ UNCHANGED <<served, client, moved, moves>>

-----------------------------------------------------------------------------
(* The wallet *)

Init ==
    /\ now = 0 /\ served \in Served /\ store \in {<<>>} \cup Served
    /\ phase = "idle" /\ stored = <<>> /\ probe = NoProbe /\ tail = <<>>
    /\ asked = NoQuestion /\ proof = NoProof /\ result = NoResult
    /\ moved = FALSE /\ moves = 0 /\ commands = 0

(* The command ends with a status; what it had in memory is gone.            *)
EndWith(r) ==
    /\ phase' = "idle" /\ result' = r
    /\ stored' = <<>> /\ probe' = NoProbe /\ tail' = <<>>
    /\ asked' = NoQuestion /\ proof' = NoProof

Fail == EndWith([NoResult EXCEPT !.status = "failed"]) /\ UNCHANGED store

GoesOn(p) == phase' = p /\ UNCHANGED <<store, asked, proof, result>>

Sync ==
    /\ phase = "idle" /\ commands < MaxCommands /\ commands' = commands + 1
    /\ phase' = "info" /\ moved' = FALSE /\ result' = NoResult
    /\ UNCHANGED <<now, served, moves, store, stored, probe, tail, asked, proof>>

(* The proof of t is asked for before the headers are synced; the node       *)
(* answers with the path of v as one of u, both t unless it is at fault.     *)
AskProof(t, u, v, compared) ==
    /\ phase = "idle" /\ commands < MaxCommands /\ commands' = commands + 1
    /\ moved' = FALSE
    /\ IF Places(v) = {} THEN Fail
       ELSE /\ phase' = "info" /\ result' = NoResult
            /\ asked' = [tx |-> <<t>>, compared |-> compared]
            /\ proof' = TransactionProof(u, v)
            /\ UNCHANGED <<store, stored, probe, tail>>
    /\ UNCHANGED <<now, served, moves>>

(* verify takes the answer as it is; find-anchor, which looked the record's  *)
(* transaction up in a block the node sent, compares the ids.                *)
Verify(t, u, v) == AskProof(t, u, v, FALSE)
FindAnchor(t, u, v) == AskProof(t, u, v, TRUE)

(* getInfo, then the file is loaded, or ignored when it fails verification.  *)
Info ==
    /\ phase = "info"
    /\ IF served[1] # Genesis THEN Fail
       ELSE /\ stored' = (IF Loads(store) THEN store ELSE <<>>)
            /\ GoesOn(IF Loads(store) THEN "tail" ELSE "fetch")
            /\ UNCHANGED <<probe, tail>>

(* verifyInclusion against the header of the verified chain at the height.   *)
IncludedSomewhere(chain) ==
    /\ HeightOf(proof.chain) < Len(chain)
    /\ VerifyMerkleProof(proof.tx, proof.siblings, MerkleRoot(HeaderOf(proof.chain).txs))
Included(chain) ==
    /\ HeightOf(proof.chain) < Len(chain)
    /\ proof.chain = HeaderAt(chain, HeightOf(proof.chain))
    /\ VerifyMerkleProof(proof.tx, proof.siblings, MerkleRoot(HeaderOf(proof.chain).txs))

AnswersNot == asked.compared /\ proof.tx # asked.tx

(* The chain that syncHeaders returns, and what the command does with it: it *)
(* prints the transaction it was asked for and the block of the proof.       *)
Return(chain, status) ==
    EndWith([status |-> IF proof = NoProof THEN status
                        ELSE IF Included(chain) /\ ~AnswersNot THEN "confirmed" ELSE "failed",
             tx |-> asked.tx, height |-> Len(proof.chain)])

StoredTip == Len(stored) - 1

(* A fork below the stored tip replaces it only with strictly more work.     *)
TooLightNever(forkHeight, chain) == FALSE
TooLight(forkHeight, chain) ==
    forkHeight < StoredTip /\ ~IsBetterChain(ChainWork(chain), ChainWork(stored))

Conclude(forkHeight, headers) ==
    LET prefix == HeaderAt(stored, forkHeight)
        chain == IF headers = <<>> THEN prefix ELSE headers[Len(headers)]
        valid == IF stored = <<>> THEN VerifyHeaderChain(headers, Latest)
                 ELSE VerifyFrom(prefix, headers, Latest)
    IN  IF ~valid THEN Fail
        ELSE IF stored # <<>> /\ TooLight(forkHeight, chain)
        THEN Return(stored, "refused") /\ UNCHANGED store
        ELSE Return(chain, "synced") /\ store' = chain

(* Fast path: the next header builds on the stored tip.                      *)
AskTail ==
    /\ phase = "tail"
    /\ \E page \in {GetHeaders(Len(stored), PageSize)} :
        IF page = <<>> THEN GoesOn("tip") /\ UNCHANGED <<stored, probe, tail>>
        ELSE IF PreviousHash(page[1]) = stored THEN Conclude(StoredTip, page)
        ELSE /\ GoesOn("back") /\ probe' = [NoProbe EXCEPT !.mismatch = StoredTip, !.step = 1]
             /\ UNCHANGED <<stored, tail>>

AskTip ==
    /\ phase = "tip"
    /\ IF AgreesAt(StoredTip) THEN Conclude(StoredTip, <<>>)
       ELSE /\ GoesOn("back") /\ probe' = [NoProbe EXCEPT !.mismatch = StoredTip, !.step = 1]
            /\ UNCHANGED <<stored, tail>>

(* Exponential back-off to a height both agree on ...                        *)
BackOff ==
    /\ phase = "back" /\ probe.mismatch - probe.step >= 0
    /\ \E h \in {probe.mismatch - probe.step} :
        IF AgreesAt(h)
        THEN GoesOn("search") /\ probe' = [probe EXCEPT !.match = h]
        ELSE GoesOn("back") /\ probe' = [probe EXCEPT !.mismatch = h, !.step = 2 * @]
    /\ UNCHANGED <<stored, tail>>

(* ... or the genesis at least ...                                           *)
AskGenesis ==
    /\ phase = "back" /\ probe.mismatch - probe.step < 0
    /\ IF AgreesAt(0)
       THEN /\ GoesOn("search") /\ probe' = [probe EXCEPT !.match = 0]
            /\ UNCHANGED <<stored, tail>>
       ELSE Fail

(* ... then binary search for the highest one.                               *)
Middle == (probe.match + probe.mismatch) \div 2

SearchOn ==
    /\ phase = "search" /\ probe.mismatch - probe.match > 1
    /\ probe' = (IF AgreesAt(Middle) THEN [probe EXCEPT !.match = Middle]
                 ELSE [probe EXCEPT !.mismatch = Middle])
    /\ GoesOn("search") /\ UNCHANGED <<stored, tail>>

(* fetchFrom: page after page, until a short one.                            *)
NextFromMatch == Max({0, probe.match + Len(tail)})
NextFrom == probe.match + 1 + Len(tail)

Fetch ==
    /\ phase = "fetch" \/ (phase = "search" /\ probe.mismatch - probe.match <= 1)
    /\ \E page \in {GetHeaders(NextFrom, PageSize)} :
        IF Len(page) < PageSize THEN Conclude(probe.match, tail \o page)
        ELSE GoesOn("fetch") /\ tail' = tail \o page /\ UNCHANGED <<stored, probe>>

(* The process is killed.  The file is replaced by a rename: old or new.     *)
Kill ==
    /\ phase # "idle" /\ EndWith(NoResult)
    /\ UNCHANGED <<now, served, moved, moves, commands, store>>

Request == Info \/ AskTail \/ AskTip \/ BackOff \/ AskGenesis \/ SearchOn \/ Fetch

Step == Request /\ UNCHANGED <<now, served, moved, moves, commands>>

Next ==
    \/ NodeMoves \/ Tick \/ Sync \/ Step \/ Kill
    \/ \E t \in Tx, u \in Tx, v \in Tx : Verify(t, u, v) \/ FindAnchor(t, u, v)

Spec == Init /\ [][Next]_vars

-----------------------------------------------------------------------------
(* Properties *)

OnTime(chain) == \A i \in 2..Len(chain) : chain[i].time = chain[i - 1].time + BlockTime

(* After a command the file holds a chain that obeys the node's rules header *)
(* by header, so the next command loads it, whatever mixture of chains the   *)
(* pages came from (verifyFrom, loadVerifiedHeaders).  If its blocks came    *)
(* exactly on time the target never changed, in the first period as in the   *)
(* others (retargetWindow).                                                  *)
StoreSound ==
    result.status \in {"synced", "confirmed"} =>
        /\ store[1] = Genesis /\ Loads(store)
        /\ \A h \in 1..(Len(store) - 1) : store[h + 1].target = ExpectedTargetFor(HeaderAt(store, h - 1))
        /\ OnTime(store) => \A i \in DOMAIN store : store[i].target = Genesis.target

(* A verified chain is never exchanged for one with less work, nor a fork    *)
(* for one with as much (syncHeaders: "strictly more work").                 *)
WorkNeverLost ==
    [][store' # store /\ Loads(store) =>
        ChainWork(store') > ChainWork(store)]_vars

Ends == phase # "idle" /\ phase' = "idle" /\ result'.status # "none"
OnServed == ~moved /\ LoadsAt(served, Latest)
Answered == \E t \in Tx : Places(t) # {} /\ asked.tx = <<t>> /\ proof = TransactionProof(t, t)

(* Against a node that stays on one valid chain, a command brings the file   *)
(* up to date, a page at least, or finds that chain no better: back-off and  *)
(* binary search end at the fork.                                            *)
SyncSettles ==
    [][Ends /\ OnServed =>
            \/ store' = served
            \/ /\ Len(store') = Len(store) + PageSize /\ Len(store') <= Len(served)
               /\ store' = SubSeq(served, 1, Len(store'))
            \/ store' = store /\ ChainWork(served) <= ChainWork(store)]_vars

(* Behind what `verify` and `find-anchor` call confirmed is a transaction of *)
(* a block of the verified chain, at the height they print, whichever chains *)
(* the proof and the headers came from; of find-anchor it is the one asked   *)
(* for, of verify only if the node answered for that one (the ids are not    *)
(* compared).  And what the node proves of its chain, as it was asked to, is *)
(* confirmed once the wallet holds that chain, wherever the transaction is   *)
(* in its block (verifyInclusion, merkleProof).                              *)
VerifyExact ==
    [][/\ result'.status = "confirmed" /\ result' # result =>
            /\ \E u \in Tx : proof.tx = <<u>> /\ u \in Range(store'[result'.height].txs)
            /\ asked.compared => result'.tx = proof.tx
       /\ Ends /\ OnServed /\ Answered /\ store' = served =>
            result'.status = "confirmed"]_vars
=============================================================================
