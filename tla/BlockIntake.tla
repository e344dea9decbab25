----------------------------- MODULE BlockIntake -----------------------------
(***************************************************************************)
(* What a node does with the blocks and headers its peers send             *)
(* (Node.handleIncomingBlock, rejectBlock, queueOrphan, resolveOrphansOf,  *)
(* handleHeaders): which it stores, queues as orphans, refuses, forgets,   *)
(* and which senders it penalizes.  Everything runs under the chain lock.  *)
(* Adopting a block is one write, as ChainAdoption shows, but the block and *)
(* its header are written before it, so a kill or a failing write comes    *)
(* between them: disjuncts Killed and CommitFails of the handler.          *)
(*                                                                         *)
(* resolveOrphansOf calls handleIncomingBlock for each waiting block, which*)
(* may resolve further ones first: `todo` is what is left on that call     *)
(* stack, innermost call first.                                            *)
(*                                                                         *)
(* Whether transactions fail is a constant of a block: no chain here       *)
(* spends a coin that undoing a repeated coinbase has made the node lose   *)
(* (SpendsLostCoin in ChainAdoption).                                      *)
(***************************************************************************)
EXTENDS Integers, Sequences, FiniteSets

CONSTANTS
    Block, Genesis, Parent, Height, Weight,
    Kind,           \* "valid", or what is wrong: "header", "body", "state" (only a replay tells)
    Stamp,          \* the first clock reading at which a timestamp is not too far ahead
    Checkpoints,    \* the blocks of consensus.checkpoints
    Peer,
    Honest,         \* peers that run the same rules and forward only what they accepted
    HeaderReplies,  \* pairs <<from, to>>: HEADERS messages with the blocks above from up to to
    MaxOrphans,     \* MAX_ORPHANS
    MaxClock,       \* bound on the clock
    Failures        \* what may cut an adoption short: "commit", "kill"

ASSUME IntakeAssumption ==
    /\ Genesis \in Block /\ Parent \in [Block \ {Genesis} -> Block]
    /\ Height \in [Block -> Nat] /\ Weight \in [Block -> Nat]
    /\ \A b \in Block \ {Genesis} :
        Height[b] = Height[Parent[b]] + 1 /\ Weight[b] > Weight[Parent[b]]
    /\ Kind \in [Block -> {"valid", "header", "body", "state"}] /\ Kind[Genesis] = "valid"
    /\ Checkpoints \subseteq Block /\ HeaderReplies \subseteq Block \X Block
    /\ Honest \subseteq Peer /\ MaxOrphans \in Nat \ {0}

VARIABLES
    stored, headers, tip,               \* on disk
    processed, invalid, blameless,      \* the hash sets of class Node
    waiting,        \* orphansByMissingParent: groups [parent, list], oldest first
    orphanHashes,
    todo,
    penalized,      \* <<peer, "block" or "header">>: PENALTY_INVALID_BLOCK since the start
    clock,
    commitFailed,   \* history: since the start the database has refused an adoption batch
    interrupted     \* history: stored blocks heavier than the tip whose adoption was cut short

disk == <<stored, headers, tip>>
memory == <<processed, invalid, blameless, waiting, orphanHashes, todo, penalized>>
history == <<commitFailed, interrupted>>
vars == <<disk, memory, clock, history>>

-----------------------------------------------------------------------------
(* A definition used by nothing else (the first is ConflictsNever) is a faulty   *)
(* variant, for mutation, of the definition that follows it.                 *)

Chain[b \in Block] == IF b = Genesis THEN {b} ELSE {b} \cup Chain[Parent[b]]

ChainValid(b) == \A x \in Chain[b] : Kind[x] = "valid"

Entries == UNION {{g.list[i] : i \in 1..Len(g.list)} : g \in {waiting[i] : i \in 1..Len(waiting)}}
WaitingBlocks == {e.block : e \in Entries}

(* The entries queued behind b, directly or behind another one queued.       *)
Behind(b) ==
    {e \in Entries : /\ b \in Chain[e.block] \ {e.block}
                     /\ \A x \in Chain[e.block] \ (Chain[b] \cup {e.block}) : x \in WaitingBlocks}

(* refreshVerifiedCheckpoint runs at start and after every adoption.         *)
VerifiedHeight ==
    LET reached == {Height[c] : c \in Checkpoints \cap Chain[tip]} \cup {-1}
    IN  CHOOSE h \in reached : \A k \in reached : k <= h

ConflictsNever(b) == FALSE
ConflictsWithVerifiedCheckpoint(b) == Height[b] <= VerifiedHeight /\ b \notin Chain[tip]

CheckpointDiffers(b) == \E c \in Checkpoints : Height[c] = Height[b] /\ c # b

TooFarAhead(b) == Stamp[b] > clock

(* validateHeader and validateBlock: checks in the order of the code.        *)
HeaderVerdict(b) ==
    CASE Kind[b] = "header" -> "invalid"
      [] Kind[b] # "header" /\ TooFarAhead(b) -> "future"
      [] Kind[b] # "header" /\ ~TooFarAhead(b) /\ CheckpointDiffers(b) -> "invalid"
      [] OTHER -> "valid"
BlockVerdict(b) ==
    IF HeaderVerdict(b) = "valid" /\ Kind[b] = "body" THEN "invalid" ELSE HeaderVerdict(b)

IsLongerChain(b) == Height[b] > Height[tip]
IsBetterChain(b) == Weight[b] > Weight[tip]

-----------------------------------------------------------------------------
Init ==
    /\ stored = {Genesis} /\ headers = {Genesis} /\ tip = Genesis
    /\ processed = {} /\ invalid = {} /\ blameless = {}
    /\ waiting = <<>> /\ orphanHashes = {} /\ todo = <<>>
    /\ penalized = {} /\ clock = 0 /\ commitFailed = FALSE /\ interrupted = {}

(* Marked as invalid; the branch a block is on is not marked with it.        *)
Marked(b, doomed) == doomed

(* The queue without the groups that wait for one of these blocks.           *)
Without(queue, parents) ==
    LET kept[i \in 0..Len(queue)] ==
            IF i = 0 THEN <<>>
            ELSE IF queue[i].parent \in parents THEN kept[i - 1]
            ELSE Append(kept[i - 1], queue[i])
    IN  kept[Len(queue)]

(* rejectBlock, with everything queued behind the block.  `hashes` is        *)
(* orphanHashes without the block itself.                                    *)
Reject(b, p, blame, hashes) ==
    LET doomed == {b} \cup {e.block : e \in Behind(b)}
    IN  /\ invalid' = invalid \cup Marked(b, doomed)
        /\ processed' = processed \cup doomed
        /\ blameless' = IF blame THEN blameless ELSE blameless \cup doomed
        /\ penalized' = IF blame
                        THEN penalized \cup ({p} \cup {e.from : e \in Behind(b)}) \X {"block"}
                        ELSE penalized
        /\ waiting' = Without(waiting, doomed)
        /\ orphanHashes' = hashes \ {e.block : e \in Behind(b)}

(* queueOrphan: over the limit, the oldest group goes.                       *)
OverLimit(hashes) == Cardinality(hashes) > MaxOrphans

ForgetNone(hashes, group) == hashes
Forget(hashes, group) == hashes \ {group.list[i].block : i \in 1..Len(group.list)}

QueueOrphan(b, p, hashes) ==
    LET entry == [block |-> b, from |-> p]
        hasGroup == \E i \in 1..Len(waiting) : waiting[i].parent = Parent[b]
        queue == IF hasGroup
                 THEN [i \in 1..Len(waiting) |->
                        IF waiting[i].parent = Parent[b]
                        THEN [waiting[i] EXCEPT !.list = Append(@, entry)] ELSE waiting[i]]
                 ELSE Append(waiting, [parent |-> Parent[b], list |-> <<entry>>])
        drop == OverLimit(hashes \cup {b})
    IN  IF b \in hashes
        THEN waiting' = waiting /\ orphanHashes' = hashes
        ELSE /\ waiting' = IF drop THEN Tail(queue) ELSE queue
             /\ orphanHashes' = IF drop THEN Forget(hashes \cup {b}, Head(queue))
                                ELSE hashes \cup {b}

(* resolveOrphansOf: take the group that waited for b off the queue.         *)
Resolve(b, rest) ==
    LET at == {i \in 1..Len(waiting) : waiting[i].parent = b}
    IN  /\ waiting' = Without(waiting, {b})
        /\ todo' = IF at = {} THEN rest ELSE waiting[CHOOSE i \in at : TRUE].list \o rest

-----------------------------------------------------------------------------
(* handleIncomingBlock(b) from peer p, one disjunct per way out; `rest` is   *)
(* what the callers still have to do.                                        *)

AlreadyEvaluated(b, rest, hashes) ==
    /\ b \in processed \cup invalid
    /\ todo' = rest /\ orphanHashes' = hashes
    /\ UNCHANGED <<disk, processed, invalid, blameless, waiting, penalized>>

BlameAlways(b) == TRUE
BlameOfParent(b) == Parent[b] \notin blameless

BuildsOnInvalid(b, p, rest, hashes) ==
    /\ b \notin processed \cup invalid /\ Parent[b] \in invalid
    /\ Reject(b, p, BlameOfParent(b), hashes)
    /\ todo' = rest
    /\ UNCHANGED disk

ParentMissing(b, p, rest, hashes) ==
    /\ b \notin processed \cup invalid
    /\ Parent[b] \notin invalid /\ Parent[b] \notin stored
    /\ QueueOrphan(b, p, hashes)
    /\ todo' = rest
    /\ UNCHANGED <<disk, processed, invalid, blameless, penalized>>

Judged(b) ==
    b \notin processed \cup invalid /\ Parent[b] \notin invalid /\ Parent[b] \in stored

Refused(b, p, rest, hashes) ==
    /\ Judged(b)
    /\ ConflictsWithVerifiedCheckpoint(b) \/ BlockVerdict(b) # "valid"
    /\ Reject(b, p, ConflictsWithVerifiedCheckpoint(b) \/ BlockVerdict(b) # "future", hashes)
    /\ todo' = rest
    /\ UNCHANGED disk

Accepted(b) == Judged(b) /\ ~ConflictsWithVerifiedCheckpoint(b) /\ BlockVerdict(b) = "valid"

(* getIndexedHeader(parent) first writes the headers a kill kept from being  *)
(* written; then putBlock and putHeader.                                     *)
Store(b) == stored' = stored \cup {b} /\ headers' = headers \cup Chain[b]

(* Stored, not heavier than the tip; or heavier and adopted.                 *)
ResolveIfAdopted(b, rest) ==
    IF IsBetterChain(b) THEN Resolve(b, rest) ELSE todo' = rest /\ UNCHANGED waiting
ResolveOrphansOf(b, rest) == Resolve(b, rest)

Connect(b, rest, hashes) ==
    /\ Accepted(b) /\ (IsBetterChain(b) => ChainValid(b))
    /\ Store(b)
    /\ processed' = processed \cup {b}
    /\ tip' = IF IsBetterChain(b) THEN b ELSE tip
    /\ ResolveOrphansOf(b, rest)
    /\ orphanHashes' = hashes
    /\ interrupted' = {x \in interrupted \ {b} : Weight[x] > Weight[tip']}
    /\ UNCHANGED <<invalid, blameless, penalized, commitFailed>>

(* Heavier, but a transaction fails against the coins: ChainReplayError.     *)
ReplayFails(b, p, rest, hashes) ==
    /\ Accepted(b) /\ IsBetterChain(b) /\ ~ChainValid(b)
    /\ Store(b) /\ UNCHANGED tip
    /\ Reject(b, p, TRUE, hashes)
    /\ todo' = rest
    /\ interrupted' = interrupted \ {b} /\ UNCHANGED commitFailed

(* Heavier, but the batch is refused: the error leaves every caller.         *)
CommitFails(b, hashes) ==
    /\ "commit" \in Failures
    /\ Accepted(b) /\ IsBetterChain(b) /\ ChainValid(b)
    /\ Store(b) /\ UNCHANGED tip
    /\ todo' = <<>> /\ orphanHashes' = hashes
    /\ commitFailed' = TRUE /\ interrupted' = interrupted \cup {b}
    /\ UNCHANGED <<processed, invalid, blameless, waiting, penalized>>

(* Nothing class Node keeps in these fields is on disk.                      *)
MemoryLost ==
    /\ processed' = {} /\ invalid' = {} /\ blameless' = {}
    /\ waiting' = <<>> /\ orphanHashes' = {} /\ todo' = <<>> /\ penalized' = {}
    /\ commitFailed' = FALSE

(* Killed after putBlock, before putHeader or before the adoption batch, and *)
(* started again: start() does not look at stored blocks off the canonical   *)
(* chain.                                                                    *)
Killed(b) ==
    /\ "kill" \in Failures
    /\ Accepted(b)
    /\ stored' = stored \cup {b} /\ UNCHANGED tip
    /\ headers' \in {headers \cup Chain[Parent[b]], headers \cup Chain[b]}
    /\ interrupted' = IF IsBetterChain(b) THEN interrupted \cup {b} ELSE interrupted
    /\ MemoryLost

HandleIncomingBlock(b, p, rest, hashes) ==
    \/ /\ \/ AlreadyEvaluated(b, rest, hashes)
          \/ BuildsOnInvalid(b, p, rest, hashes)
          \/ ParentMissing(b, p, rest, hashes)
          \/ Refused(b, p, rest, hashes)
       /\ UNCHANGED history
    \/ Connect(b, rest, hashes)
    \/ ReplayFails(b, p, rest, hashes)
    \/ CommitFails(b, hashes)
    \/ Killed(b)

-----------------------------------------------------------------------------
(* What an honest peer forwards: blocks of a valid chain that agrees with    *)
(* the checkpoints, though by its clock, which may be ahead of ours.         *)
Forwards(p, b) ==
    p \in Honest => ChainValid(b) /\ \A c \in Checkpoints : b \in Chain[c] \/ c \in Chain[b]

NewBlock(b, p) ==
    /\ todo = <<>> /\ b # Genesis /\ Forwards(p, b)
    /\ HandleIncomingBlock(b, p, <<>>, orphanHashes)
    /\ UNCHANGED clock

NextOrphan ==
    /\ todo # <<>>
    /\ LET e == Head(todo)
       IN  HandleIncomingBlock(e.block, e.from, Tail(todo), orphanHashes \ {e.block})
    /\ UNCHANGED clock

(* handleHeaders: index headers up to the first that is refused (a kill      *)
(* among them leaves what a shorter message would).  The parent of the first *)
(* is indexed by getIndexedHeader when only its block is stored.             *)
HeaderRefused(x) ==
    \/ x \in invalid \/ Parent[x] \in invalid
    \/ ConflictsWithVerifiedCheckpoint(x)
    \/ HeaderVerdict(x) # "valid"
HeaderBlamed(x) ==
    \/ x \in invalid \/ Parent[x] \in invalid
    \/ ConflictsWithVerifiedCheckpoint(x)
    \/ HeaderVerdict(x) = "invalid"

Headers(from, to, p) ==
    LET new == (Chain[to] \ Chain[from]) \ headers
        bad == {x \in new : HeaderRefused(x)}
        first == CHOOSE x \in bad : \A y \in bad : Height[x] <= Height[y]
    IN  /\ todo = <<>> /\ from \in headers \cup stored /\ Forwards(p, to)
        /\ headers' = headers \cup Chain[from] \cup {x \in new : \A y \in bad : Height[x] < Height[y]}
        /\ penalized' = IF bad # {} /\ HeaderBlamed(first)
                        THEN penalized \cup {<<p, "header">>} ELSE penalized
        /\ UNCHANGED <<stored, tip, processed, invalid, blameless, waiting, orphanHashes, todo, clock,
                       history>>

Tick == clock < MaxClock /\ clock' = clock + 1 /\ UNCHANGED <<disk, memory, history>>

(* The process is killed or stopped between two handlers, or between two     *)
(* orphans, and started again.                                               *)
Restart == MemoryLost /\ UNCHANGED <<disk, clock, interrupted>>

Next ==
    \/ \E b \in Block, p \in Peer : NewBlock(b, p)
    \/ NextOrphan
    \/ \E r \in HeaderReplies, p \in Peer : Headers(r[1], r[2], p)
    \/ Tick
    \/ Restart

Spec == Init /\ [][Next]_vars

-----------------------------------------------------------------------------
(* Properties *)

(* The orphan pool stays within MAX_ORPHANS, and orphanHashes holds exactly  *)
(* the blocks that are queued or on the call stack: a hash that stayed       *)
(* behind would use up the limit and keep its block from being queued again. *)
(* Only a failed commit, whose error ends the loop of resolveOrphansOf,      *)
(* leaves hashes behind, until the next start.                               *)
OrphanPoolSound ==
    /\ Cardinality(orphanHashes) <= MaxOrphans
    /\ ~commitFailed => orphanHashes = WaitingBlocks \cup {todo[i].block : i \in 1..Len(todo)}

(* No orphan keeps waiting for a block that has arrived: once its parent is  *)
(* stored it is evaluated, once its parent is refused it is refused.  Only a *)
(* failed commit skips resolveOrphansOf, until the next start.               *)
NoOrphanLeftBehind ==
    todo = <<>> /\ ~commitFailed =>
        \A b \in WaitingBlocks : Parent[b] \notin stored \cup invalid

(* A stored block that heads a heavier valid chain than the tip, in whatever *)
(* order blocks and orphans came and through restarts, is one whose own      *)
(* adoption was cut short, by a refused commit or by a kill between putBlock *)
(* and the commit, and was not taken up again since: that takes the block    *)
(* itself a second time, or one built on it.                                 *)
HeaviestAdopted ==
    \A b \in stored : Weight[b] > Weight[tip] /\ ChainValid(b) => b \in interrupted

FailsAgain(b) ==
    \E x \in Chain[b] :
        BlockVerdict(x) # "valid" \/ Kind[x] = "state" \/ ConflictsWithVerifiedCheckpoint(x)

(* A block is in invalidBlockHashes only if re-validating it, or one of its  *)
(* ancestors, would fail again.                                              *)
InvalidFailsAgain == \A b \in invalid : FailsAgain(b)

(* A peer that forwards only what an honest node accepts is never penalized  *)
(* for a block, whatever others sent and however far its clock is ahead, and *)
(* for a header only when a block was refused for its timestamp before       *)
(* (handleHeaders does not ask blamelessInvalidHashes).                      *)
HonestPenalizedOnlyForSkew ==
    \A q \in penalized : q[1] \in Honest => q[2] = "header" /\ blameless # {}

(* Once a checkpoint is on the canonical chain no reorg removes it, also not *)
(* a heavier fork that was stored before the checkpoint was reached.         *)
CheckpointFinal == [][\A c \in Checkpoints : c \in Chain[tip] => c \in Chain[tip']]_vars
=============================================================================
