------------------------------- MODULE Mining -------------------------------
(***************************************************************************)
(* Block production beside everything else that moves the chain: mineBlock *)
(* (node/node.ts), the miner and its worker thread (consensus/miner.ts,    *)
(* powWorker.ts), the mempool and the adoption of peers' blocks.           *)
(*                                                                         *)
(* What runs under the chain lock is one step.  The search runs outside    *)
(* it, in a thread that polls the abort flag now and then; a nonce may be  *)
(* found before the flag is seen, and the chain may move before the        *)
(* solution is adopted.                                                    *)
(***************************************************************************)
EXTENDS NodeMempool

CONSTANTS
    Own,            \* the blocks this node may mine
    Mined(_, _),    \* the one of them on a parent with a set of transactions
    Size,           \* bytes of a transaction in a block, with its comma
    BaseSize,       \* bytes of the block with its coinbase alone, by the fees
    MaxBytes, MaxTransactions,
    MaxAttempts,    \* MAX_MINING_ATTEMPTS
    MaxCalls,       \* bound on mineBlock calls that wait
    MaxCrashes      \* bound on crashes of the worker

VARIABLES
    calls,          \* mineBlock calls not yet begun (miningLock)
    phase,          \* of the call that runs: "none", "template", "searching", "found"
    attempt,
    template,       \* [parent, txs], txs by descending fee
    aborted,        \* miningAbort has been fired for this search
    worker,         \* "idle", "running", or its reply: "found", "aborted"
    stopped,
    crashes,
    reorged         \* history: some adoption abandoned a block

miner == <<calls, phase, attempt, template, aborted, worker, stopped, crashes>>
mvars == <<vars, miner, reorged>>

PeersBlocks == Block \ Own
Solution == Mined(template.parent, ToSet(template.txs))

-----------------------------------------------------------------------------
(* buildBlockTemplate.  A definition used by nothing else (the first is      *)
(* Unmeasured) is a faulty variant, for mutation, of the one that follows.   *)

Total(f, txs) == FoldLeft(LAMBDA s, t : s + f[t], 0, txs)

Measure(txs) == BaseSize[Total(Fee, txs)] + Total(Size, txs)

(* getTransactionsByFee: equal fees in any order.                            *)
ByFee(txs) == {s \in SetToSeqs(txs) : \A i, j \in DOMAIN s : i < j => Fee[s[i]] >= Fee[s[j]]}

(* Greedily within the limits, measured with a coinbase without fees ...     *)
Select(txs) ==
    FoldLeft(LAMBDA s, t :
                IF Len(s) + 1 >= MaxTransactions
                   \/ BaseSize[0] + Total(Size, s) + Size[t] > MaxBytes
                THEN s ELSE Append(s, t), <<>>, txs)

(* ... then from the end until the block with its real coinbase fits.        *)
Unmeasured(txs) == txs
Fitting(txs) ==
    LET fits == {k \in 1..Len(txs) : Measure(SubSeq(txs, 1, k)) <= MaxBytes}
    IN  SubSeq(txs, 1, Max({0} \cup fits))

-----------------------------------------------------------------------------
Idle == [parent |-> None, txs |-> <<>>]

Init ==
    /\ PoolInit /\ reorged = FALSE
    /\ calls = 0 /\ phase = "none" /\ attempt = 0 /\ template = Idle
    /\ aborted = FALSE /\ worker = "idle" /\ stopped = FALSE /\ crashes = 0

MineBlock ==
    /\ ~stopped /\ calls < MaxCalls /\ calls' = calls + 1
    /\ UNCHANGED <<vars, phase, attempt, template, aborted, worker, stopped, crashes, reorged>>

(* The call that runs goes on to p, with its template gone; "none" ends it.  *)
Proceed(p, n) == phase' = p /\ attempt' = n /\ template' = Idle /\ aborted' = FALSE

EndCall == Proceed("none", 0)

NextAttempt == IF attempt < MaxAttempts THEN Proceed("template", attempt + 1) ELSE EndCall

Begin ==
    /\ phase = "none" /\ calls > 0 /\ calls' = calls - 1
    /\ Proceed("template", 1)
    /\ UNCHANGED <<vars, worker, stopped, crashes, reorged>>

(* A template, and the search for its proof of work, which a closed miner    *)
(* refuses.  No adoption comes between the two: miningAbort is set before    *)
(* the next holder of the chain lock runs.                                   *)
Search ==
    /\ phase = "template" /\ ~stopped /\ tip \notin Own     \* bound: one own block
    /\ \E txs \in ByFee(transactions) :
        template' = [parent |-> tip, txs |-> Fitting(Select(txs))]
    /\ phase' = "searching" /\ aborted' = FALSE /\ worker' = "running"
    /\ UNCHANGED <<vars, calls, attempt, stopped, crashes, reorged>>

SearchRefused ==
    /\ phase = "template" /\ stopped /\ EndCall
    /\ UNCHANGED <<vars, calls, worker, stopped, crashes, reorged>>

(* powWorker.ts *)
WorkerReplies(reply) ==
    /\ worker = "running" /\ worker' = reply
    /\ UNCHANGED <<vars, calls, phase, attempt, template, aborted, stopped, crashes, reorged>>

Find == WorkerReplies("found")

SeesNothing == FALSE
SeesAbort == aborted

Abandon == SeesAbort /\ WorkerReplies("aborted")

(* onError: the call fails, the next search starts a new worker.             *)
WorkerCrash ==
    /\ worker = "running" /\ crashes < MaxCrashes
    /\ crashes' = crashes + 1 /\ worker' = "idle" /\ EndCall
    /\ UNCHANGED <<vars, calls, stopped, reorged>>

(* onMessage: the reply settles the search; from here on nothing aborts it.  *)
Reply ==
    /\ worker \in {"found", "aborted"} /\ worker' = "idle"
    /\ IF worker = "found"
       THEN phase' = "found" /\ aborted' = FALSE /\ UNCHANGED <<attempt, template>>
       ELSE NextAttempt
    /\ UNCHANGED <<vars, calls, stopped, crashes, reorged>>

(* Under the lock again: adopt the solution if it still extends the tip.     *)
StillTip == tip = template.parent

AdoptSolution ==
    /\ phase = "found" /\ StillTip /\ AdoptBlock(Solution) /\ EndCall
    /\ UNCHANGED <<calls, worker, stopped, crashes, reorged>>

SolutionFails ==
    /\ phase = "found" /\ StillTip /\ ~Coins(Solution).ok /\ EndCall
    /\ UNCHANGED <<vars, calls, worker, stopped, crashes, reorged>>

(* The database of a stopped node is closed sooner or later.                 *)
SolutionLost ==
    /\ phase = "found" /\ stopped /\ EndCall
    /\ UNCHANGED <<vars, calls, worker, stopped, crashes, reorged>>

SolutionStale ==
    /\ phase = "found" /\ ~StillTip /\ NextAttempt
    /\ UNCHANGED <<vars, calls, worker, stopped, crashes, reorged>>

(* A peer's block becomes the tip, and the search in progress is aborted.    *)
AbortSearch == aborted' = (phase = "searching")

AdoptPeers(b) ==
    /\ ~stopped
    /\ Weight[b] > Weight[tip] /\ AdoptBlock(b) /\ AbortSearch
    /\ reorged' = (reorged \/ Disconnected(tip, b) # {})
    /\ UNCHANGED <<calls, phase, attempt, template, worker, stopped, crashes>>

SubmitTransaction(t) == ~stopped /\ Submit(t) /\ UNCHANGED <<miner, reorged>>

(* WorkerMiner.close rejects the search in progress, then ends the worker.   *)
CloseWhenIdle == UNCHANGED <<worker, phase, attempt, template, aborted>>
CloseMiner ==
    /\ worker' = "idle"
    /\ IF phase = "searching" THEN EndCall ELSE UNCHANGED <<phase, attempt, template, aborted>>

(* Node.stop *)
Stop ==
    /\ ~stopped /\ stopped' = TRUE /\ CloseMiner
    /\ UNCHANGED <<vars, calls, crashes, reorged>>

Restart ==
    /\ stopped /\ phase = "none" /\ stopped' = FALSE /\ calls' = 0 /\ Forget
    /\ UNCHANGED <<phase, attempt, template, aborted, worker, crashes, reorged>>

-----------------------------------------------------------------------------
Settle == Abandon \/ Reply \/ SearchRefused \/ SolutionLost

Next ==
    \/ MineBlock \/ Begin \/ Search \/ Settle
    \/ AdoptSolution \/ SolutionFails \/ SolutionStale
    \/ Find \/ WorkerCrash \/ Stop \/ Restart
    \/ \E t \in Tx : SubmitTransaction(t)
    \/ \E b \in PeersBlocks : AdoptPeers(b)

(* The worker polls the flag and its promise, or that of a stopped node,     *)
(* settles; no search has to succeed.                                        *)
Spec == Init /\ [][Next]_mvars /\ WF_mvars(Settle)

-----------------------------------------------------------------------------
(* Properties *)

(* A search on a parent that is no longer the tip is told to stop and does: *)
(* no adoption slips in unnoticed between template and search (mineBlock,   *)
(* adoptBlock, and the worker that polls the flag).                         *)
StaleSearchEnds == (phase = "searching" /\ template.parent # tip) ~> phase # "searching"

(* A mining call ends once the node is stopped, also one that searches or    *)
(* has a solution (Node.stop, WorkerMiner.close).                            *)
StopEndsMining == stopped ~> (phase = "none" \/ ~stopped)

(* A template respects the consensus limits, although transactions are       *)
(* chosen before the length of the coinbase amount is known.                 *)
TemplateFits ==
    phase # "none" => Measure(template.txs) <= MaxBytes /\ Len(template.txs) + 1 <= MaxTransactions

(* What is mined on the tip is adopted: as long as no block was abandoned,   *)
(* a template on the tip is a valid block whatever was submitted, replaced,  *)
(* mined by others or purged since (the search never is for nothing).        *)
TemplateValid ==
    phase \in {"searching", "found"} /\ StillTip /\ ~reorged => Coins(Solution).ok
=============================================================================
