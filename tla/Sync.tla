-------------------------------- MODULE Sync --------------------------------
(***************************************************************************)
(* How connected nodes bring one another's chains up to date: locators,    *)
(* GET_HEADERS / HEADERS, GET_BLOCKS / NEW_BLOCK / INV_BLOCKS with capped  *)
(* replies, orphans, relaying (the sync part of node/node.ts).             *)
(*                                                                         *)
(* The frames of a link come in order.  NEW_BLOCK, HEADERS and INV_BLOCKS  *)
(* are handled under the chain lock, first come first served; GET_BLOCKS   *)
(* and GET_HEADERS are not: they overtake frames that still wait for the   *)
(* lock, and read the chain height by height, one awaited read each, while *)
(* the lock holder may move it.  Every block here is valid (what is        *)
(* refused, and the bounds of the orphan pool, are in BlockIntake), and    *)
(* adopting one is one step (ChainAdoption).                               *)
(***************************************************************************)
EXTENDS Integers, Sequences, SequencesExt, FiniteSets, FiniteSetsExt

CONSTANTS
    Block, Genesis, Parent, Height, Weight, None,
    Node,
    Edges,          \* who is connected with whom, as sets of two nodes
    StartTip,       \* each node's chain at first
    Arrivals,       \* <<n, b>>: blocks n may find, or get from peers not modelled here
    MaxBlocks,      \* maxBlocksPerResponse
    MaxHeaders,     \* maxHeadersPerResponse
    Dense,          \* locator entries before the gaps start to double (10)
    MaxServing,     \* bound on the replies a node puts together at a time
    MaxFaults       \* bound on lost connections and refused adoption batches

ASSUME SyncAssumption ==
    /\ Genesis \in Block /\ Parent \in [Block \ {Genesis} -> Block]
    /\ \A b \in Block \ {Genesis} :
        Height[b] = Height[Parent[b]] + 1 /\ Weight[b] > Weight[Parent[b]]
    /\ MaxBlocks \in Nat \ {0} /\ MaxHeaders \in Nat \ {0} /\ Dense \in Nat \ {0}

VARIABLES
    stored, headers, tip,   \* per node, on disk
    waiting,        \* orphans, oldest first: [block, from]
    stack,          \* orphans that resolveOrphansOf has still to evaluate
    serving,        \* replies being put together
    wire,           \* frames in flight or waiting for the lock, per directed link
    up,             \* the edges that are up
    banned,         \* banned[n]: the peers n has banned
    drops, failures

chain == <<stored, headers, tip, waiting>>
vars == <<chain, stack, serving, wire, up, banned, drops, failures>>

-----------------------------------------------------------------------------
(* A definition used by nothing else (the first is EndQuietly) is a      *)
(* faulty variant, for mutation, of the definition that follows it.          *)

Chain[b \in Block] == IF b = Genesis THEN {b} ELSE {b} \cup Chain[Parent[b]]

(* getCanonicalHashAtHeight *)
At(t, h) == CHOOSE b \in Chain[t] : Height[b] = h

(* buildLocator at tip t: Dense hashes, then doubling gaps, then genesis.    *)
Offset(k) == IF k < Dense THEN k ELSE Dense - 3 + 2 ^ (k - Dense + 2)
Locator(t) ==
    {b \in Chain[t] : b = Genesis \/ \E k \in 0..Height[t] : Height[b] = Height[t] - Offset(k)}

(* highestSharedHeight, by a node with tip t: the entries come tip first,    *)
(* after the hash the request continues from, if any.                        *)
SharedHeight(t, m) ==
    IF m.first \in Chain[t] THEN Height[m.first]
    ELSE Max({0} \cup {Height[b] : b \in Locator(m.at) \cap Chain[t]})

-----------------------------------------------------------------------------
(* Frames *)

GetHeaders(t, first) == [type |-> "GET_HEADERS", at |-> t, first |-> first]
GetBlocks(t) == [type |-> "GET_BLOCKS", at |-> t, first |-> None]
HeadersOf(hs) == [type |-> "HEADERS", list |-> hs]
InvBlocks(b) == [type |-> "INV_BLOCKS", block |-> b]
NewBlock(b) == [type |-> "NEW_BLOCK", block |-> b]

Send(w, n, p, ms) == IF {n, p} \in up THEN [w EXCEPT ![<<n, p>>] = @ \o ms] ELSE w

Broadcast(w, n, not, m) ==
    [l \in DOMAIN w |-> IF l[1] = n /\ l[2] # not /\ {n, l[2]} \in up THEN Append(w[l], m) ELSE w[l]]

Unlocked == {"GET_HEADERS", "GET_BLOCKS"}

Cap(type) == IF type = "GET_HEADERS" THEN MaxHeaders ELSE MaxBlocks

-----------------------------------------------------------------------------
Links == {l \in Node \X Node : {l[1], l[2]} \in Edges}

(* The links have just been made: "peer:connected" asks for headers.         *)
Init ==
    /\ stored = [n \in Node |-> Chain[StartTip[n]]] /\ headers = stored
    /\ tip = StartTip
    /\ waiting = [n \in Node |-> <<>>]
    /\ stack = [n \in Node |-> <<>>] /\ serving = [n \in Node |-> <<>>]
    /\ up = Edges
    /\ wire = [l \in Links |-> <<GetHeaders(tip[l[1]], None)>>]
    /\ banned = [n \in Node |-> {}] /\ drops = 0 /\ failures = 0

-----------------------------------------------------------------------------
(* Replies, outside the chain lock: find the start, then read each height.   *)

Request(l, k) ==
    LET n == l[2]
        m == wire[l][k]
    IN  /\ m.type \in Unlocked /\ Len(serving[n]) < MaxServing
        /\ \A j \in 1..(k - 1) : wire[l][j].type \notin Unlocked
        /\ wire' = [wire EXCEPT ![l] = RemoveAt(@, k)]
        /\ serving' = [serving EXCEPT ![n] = Append(@,
                [m |-> m, to |-> l[1], top |-> Height[tip[n]], h |-> None, end |-> 0, list |-> <<>>])]
        /\ UNCHANGED <<chain, stack, up, banned, drops, failures>>

(* A reply is complete as soon as its last read returns: headers go out     *)
(* together, and a capped block reply still reads where the rest starts.    *)
Complete(job) == job.h > job.end /\ (job.m.type = "GET_HEADERS" \/ job.end >= job.top)

Continue(n, i, next, w) ==
    \E job \in {next}, frames \in {w} :
        /\ serving' = [serving EXCEPT ![n] =
                        IF Complete(job) THEN RemoveAt(@, i) ELSE ReplaceAt(@, i, job)]
        /\ wire' = IF Complete(job) /\ job.m.type = "GET_HEADERS"
                   THEN Send(frames, n, job.to, <<HeadersOf(job.list)>>) ELSE frames
        /\ UNCHANGED <<chain, stack, up, banned, drops, failures>>

Locate(n, i) ==
    LET job == serving[n][i]
        start == SharedHeight(tip[n], job.m)
    IN  /\ job.h = None
        /\ Continue(n, i, [job EXCEPT !.h = start + 1,
                                      !.end = Min({job.top, start + Cap(job.m.type)})], wire)

Reading(n, i, type) ==
    LET job == serving[n][i]
    IN  job.m.type = type /\ job.h # None /\ job.h <= job.end

ReadBlock(n, i) ==
    LET job == serving[n][i]
        found == IF job.h <= Height[tip[n]] THEN <<NewBlock(At(tip[n], job.h))>> ELSE <<>>
    IN  /\ Reading(n, i, "GET_BLOCKS")
        /\ Continue(n, i, [job EXCEPT !.h = @ + 1], Send(wire, n, job.to, found))

ReadHeader(n, i) ==
    LET job == serving[n][i]
    IN  /\ Reading(n, i, "GET_HEADERS")
        /\ Continue(n, i, IF job.h <= Height[tip[n]]
                          THEN [job EXCEPT !.h = @ + 1, !.list = Append(@, At(tip[n], job.h))]
                          ELSE [job EXCEPT !.h = job.end + 1], wire)

(* "Tell the requester where the rest starts." *)
EndQuietly(n, job) == <<>>
TellRest(n, job) ==
    IF job.end + 1 <= Height[tip[n]] THEN <<InvBlocks(At(tip[n], job.end + 1))>> ELSE <<>>

ReadRest(n, i) ==
    LET job == serving[n][i]
    IN  /\ job.m.type = "GET_BLOCKS" /\ job.h # None /\ job.h > job.end
        /\ Continue(n, i, [job EXCEPT !.top = job.end], Send(wire, n, job.to, TellRest(n, job)))

-----------------------------------------------------------------------------
(* Under the chain lock: the first frame of a link l, handled by l[2].       *)

IsBetterChain(n, b) == Weight[b] > Weight[tip[n]]

Locked(l, type) == stack[l[2]] = <<>> /\ wire[l] # <<>> /\ Head(wire[l]).type = type

Taken(l) == [wire EXCEPT ![l] = Tail(@)]

(* handleIncomingBlock.  Without its parent the block waits, and its sender  *)
(* is asked for headers ...                                                  *)
HandleOrphan(l) ==
    LET b == Head(wire[l]).block
        n == l[2]
    IN  /\ Locked(l, "NEW_BLOCK") /\ b # Genesis /\ Parent[b] \notin stored[n]
        /\ waiting' = [waiting EXCEPT ![n] =
                IF \E o \in ToSet(@) : o.block = b THEN @ ELSE Append(@, [block |-> b, from |-> l[1]])]
        /\ wire' = Send(Taken(l), n, l[1], <<GetHeaders(tip[n], None)>>)
        /\ UNCHANGED <<stored, headers, tip, stack, serving, up, banned, drops, failures>>

(* ... with it, it is stored, adopted and relayed if its chain is heavier,   *)
(* and what waited for it is evaluated next, under the same lock.  A block   *)
(* processed before is skipped by the code; here it is evaluated again to no *)
(* effect, as it is not heavier than the tip and nothing waits for it.       *)
Store(n, b) ==
    /\ b # Genesis /\ Parent[b] \in stored[n]
    /\ stored' = [stored EXCEPT ![n] = @ \cup {b}]
    /\ headers' = [headers EXCEPT ![n] = @ \cup {b}]

Resolved(n, b) == SelectSeq(waiting[n], LAMBDA o : Parent[o.block] = b)

Evaluate(n, b, from, w, rest) ==
    /\ Store(n, b)
    /\ tip' = [tip EXCEPT ![n] = IF IsBetterChain(n, b) THEN b ELSE @]
    /\ wire' = IF IsBetterChain(n, b) THEN Broadcast(w, n, from, NewBlock(b)) ELSE w
    /\ stack' = [stack EXCEPT ![n] = Resolved(n, b) \o rest]
    /\ waiting' = [waiting EXCEPT ![n] = SelectSeq(@, LAMBDA o : Parent[o.block] # b)]
    /\ UNCHANGED <<serving, up, banned, drops, failures>>

HandleBlock(l) ==
    /\ Locked(l, "NEW_BLOCK")
    /\ \E b \in {Head(wire[l]).block}, w \in {Taken(l)} : Evaluate(l[2], b, l[1], w, <<>>)

NextOrphan(n) ==
    /\ stack[n] # <<>>
    /\ \E o \in {Head(stack[n])} : Evaluate(n, o.block, o.from, wire, Tail(stack[n]))

(* The batch is refused: the block stays stored, what waited for it or is    *)
(* still on the stack is not evaluated.                                      *)
Refuse(n, b) ==
    /\ drops + failures < MaxFaults /\ failures' = failures + 1
    /\ IsBetterChain(n, b) /\ Store(n, b)
    /\ stack' = [stack EXCEPT ![n] = <<>>]
    /\ UNCHANGED <<tip, waiting, serving, up, banned, drops>>

CommitFails(l) ==
    \/ Locked(l, "NEW_BLOCK") /\ Refuse(l[2], Head(wire[l]).block) /\ wire' = Taken(l)
    \/ stack[l[2]] # <<>> /\ Refuse(l[2], Head(stack[l[2]]).block) /\ UNCHANGED wire

(* handleHeaders: index what links up.  Bodies are asked for when the last   *)
(* header is heavier and not stored, more headers after a full reply.        *)
BodiesWanted(n, last) == Weight[last] > Weight[tip[n]] /\ last \notin stored[n]

FullReply(hs) == Len(hs) >= MaxHeaders

Connected(n, hs) == hs # <<>> /\ Parent[hs[1]] \in headers[n]

Unlinked(n, hs) == {i \in 2..Len(hs) : hs[i] \notin headers[n] /\ Parent[hs[i]] # hs[i - 1]}

AskAgain(l) ==
    /\ Locked(l, "HEADERS") /\ ~Connected(l[2], Head(wire[l]).list)
    /\ wire' = Send(Taken(l), l[2], l[1], <<GetHeaders(tip[l[2]], None)>>)
    /\ UNCHANGED <<chain, stack, serving, up, banned, drops, failures>>
IgnoreHeaders(l) ==
    /\ Locked(l, "HEADERS") /\ ~Connected(l[2], Head(wire[l]).list)
    /\ wire' = Taken(l)
    /\ UNCHANGED <<chain, stack, serving, up, banned, drops, failures>>

HandleHeaders(l) ==
    LET hs == Head(wire[l]).list
        n == l[2]
        last == hs[Len(hs)]
        bodies == IF BodiesWanted(n, last) THEN <<GetBlocks(tip[n])>> ELSE <<>>
        more == IF FullReply(hs) THEN <<GetHeaders(tip[n], last)>> ELSE <<>>
    IN  /\ Locked(l, "HEADERS") /\ Connected(n, hs) /\ Unlinked(n, hs) = {}
        /\ headers' = [headers EXCEPT ![n] = @ \cup ToSet(hs)]
        /\ wire' = Send(Taken(l), n, l[1], bodies \o more)
        /\ UNCHANGED <<stored, tip, waiting, stack, serving, up, banned, drops, failures>>

(* A header that does not continue the one before it: 100 points, a ban.     *)
BanForHeaders(l) ==
    LET hs == Head(wire[l]).list
        n == l[2]
    IN  /\ Locked(l, "HEADERS") /\ Connected(n, hs) /\ Unlinked(n, hs) # {}
        /\ headers' = [headers EXCEPT ![n] = @ \cup ToSet(SubSeq(hs, 1, Min(Unlinked(n, hs)) - 1))]
        /\ banned' = [banned EXCEPT ![n] = @ \cup {l[1]}]
        /\ up' = up \ {{n, l[1]}}
        /\ wire' = [wire EXCEPT ![l] = <<>>, ![<<n, l[1]>>] = <<>>]
        /\ UNCHANGED <<stored, tip, waiting, stack, serving, drops, failures>>

(* INV_BLOCKS: ask again unless the block has come in the meantime.          *)
HandleInv(l) ==
    LET n == l[2]
    IN  /\ Locked(l, "INV_BLOCKS")
        /\ wire' = Send(Taken(l), n, l[1],
                        IF Head(wire[l]).block \in stored[n] THEN <<>> ELSE <<GetBlocks(tip[n])>>)
        /\ UNCHANGED <<chain, stack, serving, up, banned, drops, failures>>

-----------------------------------------------------------------------------
(* A block of n's own, or from a peer that is not modelled.                  *)
Arrival(n, b) ==
    /\ <<n, b>> \in Arrivals /\ stack[n] = <<>> /\ b \notin stored[n]
    /\ Evaluate(n, b, None, wire, <<>>)

(* A connection breaks; frames in flight are lost.                           *)
Disconnect(e) ==
    /\ drops + failures < MaxFaults /\ e \in up
    /\ up' = up \ {e} /\ drops' = drops + 1
    /\ wire' = [l \in Links |-> IF {l[1], l[2]} = e THEN <<>> ELSE wire[l]]
    /\ UNCHANGED <<chain, stack, serving, banned, failures>>

(* maintainPeers dials again, unless one side has banned the other.          *)
Connect(e) ==
    /\ e \notin up /\ \A n \in e : banned[n] \cap e = {}
    /\ up' = up \cup {e}
    /\ wire' = [l \in Links |->
                IF {l[1], l[2]} = e THEN <<GetHeaders(tip[l[1]], None)>> ELSE wire[l]]
    /\ UNCHANGED <<chain, stack, serving, banned, drops, failures>>

Serve(n) ==
    \E i \in 1..Len(serving[n]) :
        Locate(n, i) \/ ReadBlock(n, i) \/ ReadHeader(n, i) \/ ReadRest(n, i)

Receive(l) ==
    \/ \E k \in 1..Len(wire[l]) : Request(l, k)
    \/ HandleOrphan(l) \/ HandleBlock(l)
    \/ IgnoreHeaders(l) \/ HandleHeaders(l) \/ BanForHeaders(l)
    \/ HandleInv(l)

System ==
    \/ \E n \in Node : Serve(n) \/ NextOrphan(n)
    \/ \E l \in Links : Receive(l)
    \/ \E e \in Edges : Connect(e)

Next ==
    \/ System
    \/ \E l \in Links : CommitFails(l)
    \/ \E a \in Arrivals : Arrival(a[1], a[2])
    \/ \E e \in Edges : Disconnect(e)

(* As long as a frame of a link can be taken, a promise can settle or the    *)
(* maintenance timer can dial, something of that happens; no further block   *)
(* has to arrive.                                                            *)
Spec == Init /\ [][Next]_vars /\ WF_vars(System)

-----------------------------------------------------------------------------
(* Properties *)

Idle == /\ \A l \in Links : wire[l] = <<>>
        /\ \A n \in Node : stack[n] = <<>> /\ serving[n] = <<>>

Behind(n, p) == Weight[tip[p]] > Weight[tip[n]]

(* Catching up works: of two nodes that stay connected neither stays behind  *)
(* the other for good, however blocks, headers, requests and reorganisations *)
(* interleave, unless it has the other's tip and failed to commit it.        *)
CatchesUp ==
    \A l \in Links :
        (<>[]({l[1], l[2]} \in up)) =>
            <>[](Behind(l[1], l[2]) => failures > 0 /\ tip[l[2]] \in stored[l[1]])

(* The exchange ends: once nobody finds blocks any more no frame is left in  *)
(* flight, no request repeats itself.                                        *)
FallsSilent == <>[]Idle
=============================================================================
