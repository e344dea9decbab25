------------------------------ MODULE Network ------------------------------
(***************************************************************************)
(* Who is connected with whom: sockets, handshakes, connection slots, bans *)
(* (network/p2pServer.ts, reputation.ts, peer.ts), the address book        *)
(* (addressBook.ts), and the dialling of node/node.ts.                     *)
(*                                                                         *)
(* A socket has two ends, that of the dialling node ("out") and that of    *)
(* the listening one ("in"); frames reach an end in the order sent, and a  *)
(* closing end still gets what is on its way.  Time is counted in          *)
(* maintenance ticks.  A node has one IP address.                          *)
(***************************************************************************)
EXTENDS Integers, Sequences, FiniteSets, FiniteSetsExt, Functions, Folds

CONSTANTS
    Node, Address, None,
    Listen,         \* the address each node advertises
    Host,           \* the node that answers at an address, or None
    Rules,          \* network, genesis and rules hash of each node
    Peers,          \* --peers of each node
    MaxInbound, MaxOutbound,    \* connection slots, the latter per node
    MaxPerIp,       \* maxInboundPerIp; MaxInbound where that is 0, no limit
    MaxSize, MaxFailures, BaseBackoff, MaxBackoff,  \* of the address book
    FailureCap,     \* failures are counted up to this, where the backoff is at its maximum
    MaxDials,       \* maxDialsPerTick
    Threshold, BanTicks, Points,    \* ban threshold and duration, penalties
    MaxSockets,     \* bounds on the sockets each node has dialled that still exist
    MaxFrames,      \* bound on frames in flight on a link when a tick sends more
    MaxFaults       \* bound on faults: failed dials, timeouts, lost sockets, stops, penalties

ASSUME NetworkAssumption ==
    /\ Listen \in [Node -> Address] /\ Host \in [Address -> Node \cup {None}]
    /\ \A n \in Node : Host[Listen[n]] = n
    /\ IsFiniteSet(Node) /\ None \notin Node
    /\ {MaxInbound, MaxPerIp, MaxDials} \subseteq Nat
    /\ {MaxOutbound, MaxSockets} \subseteq [Node -> Nat]
    /\ MaxFailures \in Nat \ {0} /\ BaseBackoff \in Nat \ {0} /\ MaxSize \in Nat
    /\ FailureCap >= MaxFailures /\ BaseBackoff * 2 ^ (FailureCap - 1) >= MaxBackoff

VARIABLES
    up, sock,
    book,           \* records, most recently seen first
    saved,          \* the book on disk
    dialling,       \* dialsInFlight
    startup,        \* configured peers main.ts has still to dial
    bans,           \* ticks left of each ban, by node id or address
    scores, faults

mem == <<book, saved, dialling, startup, bans, scores>>
vars == <<up, sock, mem, faults>>

Slot == UNION {{n} \X (1..MaxSockets[n]) : n \in Node}
Side == {"out", "in"}
Ends == Slot \X Side
Other(e) == IF e = "out" THEN "in" ELSE "out"

NodeAt(sk, i, e) == IF e = "out" THEN i[1] ELSE Host[sk[i].addr]

-----------------------------------------------------------------------------
(* AddressBook.  A definition used by nothing else (the first is ShutQuietly) *)
(* is a faulty variant, for mutation, of the one that follows it.             *)

Addresses(bk) == {r.addr : r \in Range(bk)}

Without(bk, a) == SelectSeq(bk, LAMBDA r : r.addr # a)

RecordOf(bk, a) == CHOOSE r \in Range(bk) : r.addr = a

Add(bk, a, anchor) ==
    IF a \in Addresses(bk)
    THEN <<[RecordOf(bk, a) EXCEPT !.anchor = @ \/ anchor]>> \o Without(bk, a)
    ELSE IF ~anchor /\ Len(bk) >= MaxSize THEN bk
    ELSE <<[addr |-> a, anchor |-> anchor, failures |-> 0, wait |-> 0]>> \o bk

(* One address after the other.                                              *)
AddAll(bk, as) ==
    MapThenFoldSet(LAMBDA a, b : Add(b, a, FALSE), bk, LAMBDA j : as[j], Max, DOMAIN as)

(* ... up to the first address that no longer fits.                          *)
AddUntilFull(bk, as) ==
    LET refused == {j \in DOMAIN as : as[j] \notin Addresses(AddAll(bk, SubSeq(as, 1, j)))}
    IN  AddAll(bk, SubSeq(as, 1, Min({Len(as) + 1} \cup refused) - 1))

MarkSuccess(bk, a) ==
    IF a \notin Addresses(bk) THEN bk
    ELSE <<[RecordOf(bk, a) EXCEPT !.failures = 0, !.wait = 0]>> \o Without(bk, a)

Failed(r) ==
    [r EXCEPT !.failures = Min({@ + 1, FailureCap}), !.wait = Min({BaseBackoff * 2 ^ r.failures, MaxBackoff})]

Dropped(r) == ~r.anchor /\ r.failures + 1 >= MaxFailures

MarkFailure(bk, a) ==
    LET rest == SelectSeq(bk, LAMBDA r : ~(r.addr = a /\ Dropped(r)))
    IN  [j \in DOMAIN rest |-> IF rest[j].addr = a THEN Failed(rest[j]) ELSE rest[j]]

Candidates(bk, exclude, limit) ==
    LET due == SelectSeq(bk, LAMBDA r : r.addr \notin exclude /\ r.wait = 0)
        sorted == SelectSeq(due, LAMBDA r : r.anchor) \o SelectSeq(due, LAMBDA r : ~r.anchor)
    IN  [j \in {k \in 1..limit : k <= Len(sorted)} |-> sorted[j].addr]

-----------------------------------------------------------------------------
(* Sockets.  An end is in the server's map of peers while it is "connecting" *)
(* or "registered", and also while it is "closing" because of a ban; it is   *)
(* no longer when it is "forgotten" (closing) or "closed".                   *)

End(state, frames) == [state |-> state, remote |-> None, inbox |-> frames]

Handshake(n) == [type |-> "HANDSHAKE", node |-> n]
GetPeers == [type |-> "GET_PEERS"]
PeersOf(as) == [type |-> "PEERS", list |-> as]
Close == [type |-> "CLOSE"]

InMap(k, e) == k[e].state \in {"connecting", "registered", "closing"}

Registered(sk, n, e) == {i \in Slot : sk[i] # None /\ NodeAt(sk, i, e) = n /\ InMap(sk[i], e)}

(* The ends of n whose peer is known to be one of ms.                        *)
IsLink(sk, n, i, e, ms) ==
    sk[i] # None /\ sk[i][e].remote \in ms /\ InMap(sk[i], e) /\ NodeAt(sk, i, e) = n

LinksTo(sk, n, m) == {x \in Ends : IsLink(sk, n, x[1], x[2], {m})}

PeerIds(sk, n) == {sk[x[1]][x[2]].remote : x \in {x \in Ends : IsLink(sk, n, x[1], x[2], Node)}}

(* The elements of S in some order.                                          *)
Listed(S) == CHOOSE s \in [1..Cardinality(S) -> S] : IsInjective(s)

KnownAddresses(sk, n) == {Listen[m] : m \in PeerIds(sk, n)}

OutboundRoom(sk, n) == MaxOutbound[n] - Cardinality(Registered(sk, n, "out"))

Put(k, e, f) == IF k[e].state = "closed" THEN k ELSE [k EXCEPT ![e].inbox = Append(@, f)]

(* Closing an end tells the other, once.                                     *)
ShutQuietly(k, e, state) == [k EXCEPT ![e] = IF state = "closed" THEN End(state, <<>>) ELSE [@ EXCEPT !.state = state]]
Shut(k, e, state) ==
    LET told == IF k[e].state = "registered" THEN Put(k, Other(e), Close) ELSE k
    IN  [told EXCEPT ![e] = IF state = "closed" THEN End(state, <<>>) ELSE [@ EXCEPT !.state = state]]

Settle(k) == IF k["out"].state = "closed" /\ k["in"].state = "closed" THEN None ELSE k

(* A frame from n on its links to the nodes ms.                              *)
Send(sk, n, ms, f) ==
    [i \in Slot |->
        IF \E e \in Side : IsLink(sk, n, i, e, ms) /\ sk[i][e].state = "registered"
        THEN Put(sk[i], Other(CHOOSE e \in Side : IsLink(sk, n, i, e, ms)), f) ELSE sk[i]]

-----------------------------------------------------------------------------
(* Dialling *)

Banned(n, key) == bans[n][key] > 0

Free(sk, n) == {i \in Slot : i[1] = n /\ sk[i] = None}

FailBanned(n, bk, as) ==
    MapThenFoldSet(LAMBDA a, b : IF Banned(n, a) THEN MarkFailure(b, a) ELSE b,
                   bk, LAMBDA j : as[j], Max, DOMAIN as)

(* P2PServer.connect starts for each address of as; one that is banned fails *)
(* at once.                                                                  *)
Dial(n, as, sk, bk) ==
    \E ok \in {{a \in Address : a \in Range(as) /\ ~Banned(n, a)}} :
    \E slotOf \in Injection(ok, Free(sk, n)) :
        /\ sock' = [i \in Slot |->
                IF \A a \in ok : slotOf[a] # i THEN sk[i]
                ELSE [addr |-> CHOOSE a \in ok : slotOf[a] = i,
                      out |-> End("connecting", <<>>), in |-> End("closed", <<>>)]]
        /\ dialling' = [dialling EXCEPT ![n] = @ \cup ok]
        /\ book' = [book EXCEPT ![n] = FailBanned(n, bk, as)]
        /\ saved' = IF ok = Range(as) THEN saved ELSE [saved EXCEPT ![n] = book'[n]]

DialCandidates(n, sk, bk) ==
    \E as \in {Candidates(bk, KnownAddresses(sk, n) \cup dialling[n] \cup {Listen[n]},
                          Min({OutboundRoom(sk, n), MaxDials}))} : Dial(n, as, sk, bk)

Init ==
    /\ up = [n \in Node |-> TRUE] /\ sock = [i \in Slot |-> None]
    /\ book = [n \in Node |-> <<>>] /\ saved = book
    /\ dialling = [n \in Node |-> {}] /\ startup = Peers
    /\ bans = [n \in Node |-> [x \in Node \cup Address |-> 0]]
    /\ scores = [n \in Node |-> [m \in Node |-> 0]] /\ faults = 0

Fault == faults < MaxFaults /\ faults' = faults + 1

(* Node.connectToPeer: an anchor of the book, dialled whatever the backoff.  *)
(* main.ts waits for one dial before the next, here they may overlap.        *)
ConnectToPeer(n, a) ==
    LET bk == Add(book[n], a, TRUE)
    IN  /\ up[n] /\ a \in startup[n] /\ startup' = [startup EXCEPT ![n] = @ \ {a}]
        /\ \/ a \notin dialling[n] /\ OutboundRoom(sock, n) > 0 /\ Dial(n, <<a>>, sock, bk)
           \/ /\ a \notin dialling[n] /\ OutboundRoom(sock, n) = 0
              /\ book' = [book EXCEPT ![n] = MarkFailure(bk, a)]
              /\ saved' = [saved EXCEPT ![n] = book'[n]]
              /\ UNCHANGED <<sock, dialling>>
           \/ /\ a \in dialling[n]
              /\ book' = [book EXCEPT ![n] = bk] /\ UNCHANGED <<saved, sock, dialling>>
        /\ UNCHANGED <<up, bans, scores, faults>>

StillInFlight(n, a) == dialling[n]
Finished(n, a) == dialling[n] \ {a}

(* A dial ends: the outcome goes into the book and the book to disk.         *)
DialEnds(i, k, bk) ==
    LET n == i[1]
    IN  /\ sock' = [sock EXCEPT ![i] = k]
        /\ dialling' = [dialling EXCEPT ![n] = Finished(n, sock[i].addr)]
        /\ book' = [book EXCEPT ![n] = bk] /\ saved' = [saved EXCEPT ![n] = bk]
        /\ UNCHANGED <<up, startup, bans, scores>>

Connecting(i) == sock[i] # None /\ sock[i]["out"].state = "connecting"

(* The socket opens.  The listening side takes it if it has a slot; both     *)
(* announce themselves at once.                                              *)
Accepts(m, n) ==
    /\ Cardinality(Registered(sock, m, "in")) < MaxInbound
    /\ Cardinality({i \in Registered(sock, m, "in") : i[1] = n}) < MaxPerIp

AnnounceLate(i) == <<>>
Announce(i) == <<Handshake(i[1])>>

Open(i) ==
    LET m == Host[sock[i].addr]
        accepted == Accepts(m, i[1])
    IN  /\ Connecting(i) /\ m # None /\ up[m]
        /\ DialEnds(i, [sock[i] EXCEPT
                !["out"] = End("registered", IF accepted THEN <<Handshake(m)>> ELSE <<Close>>),
                !["in"] = IF accepted THEN End("registered", Announce(i)) ELSE @],
                    MarkSuccess(book[i[1]], sock[i].addr))
        /\ UNCHANGED faults

DialFails(i) ==
    /\ Connecting(i)
    /\ \/ (Host[sock[i].addr] = None \/ ~up[Host[sock[i].addr]]) /\ UNCHANGED faults
       \/ Fault
    /\ DialEnds(i, None, MarkFailure(book[i[1]], sock[i].addr))

-----------------------------------------------------------------------------
(* Frames.  Received(i, e, type): the first frame at end e, and what remains.*)

Live(i) == sock[i] # None /\ ~Connecting(i)

Received(i, e, types) ==
    Live(i) /\ sock[i][e].inbox # <<>> /\ Head(sock[i][e].inbox).type \in types

Taken(i, e) == [sock[i] EXCEPT ![e].inbox = Tail(@)]

Replace(i, k) == sock' = [sock EXCEPT ![i] = Settle(k)]

Compatible(n, m) == Rules[n] = Rules[m] /\ ~Banned(n, m)

NeverRedundant(n, m) == FALSE
Redundant(n, m) == LinksTo(sock, n, m) # {}

(* HANDSHAKE from ourselves, from a peer we cannot or will not talk to, or   *)
(* from one we already have a link to: the end is forgotten and closed.      *)
RefuseHandshake(i, e) ==
    LET n == NodeAt(sock, i, e)
        m == Head(sock[i][e].inbox).node
    IN  /\ Received(i, e, {"HANDSHAKE"})
        /\ \/ (n = m \/ (Compatible(n, m) /\ Redundant(n, m))) /\ Replace(i, Shut(Taken(i, e), e, "forgotten"))
           \/ /\ n # m /\ ~Compatible(n, m)
              /\ Replace(i, Shut([Taken(i, e) EXCEPT ![e].remote = m], e, "forgotten"))
        /\ UNCHANGED <<up, mem, faults>>

(* Any other is accepted, and the node asks the new peer for its peers.      *)
AcceptHandshake(i, e) ==
    LET n == NodeAt(sock, i, e)
        m == Head(sock[i][e].inbox).node
        k == [Taken(i, e) EXCEPT ![e].remote = m]
    IN  /\ Received(i, e, {"HANDSHAKE"}) /\ n # m /\ Compatible(n, m) /\ ~Redundant(n, m)
        /\ Replace(i, IF k[e].state = "registered" THEN Put(k, Other(e), GetPeers) ELSE k)
        /\ UNCHANGED <<up, mem, faults>>

(* Anything else before the handshake: "message before handshake".           *)
DropUnknown(i, e) ==
    /\ Received(i, e, {"GET_PEERS", "PEERS"}) /\ sock[i][e].remote = None
    /\ Replace(i, Shut(Taken(i, e), e, "forgotten"))
    /\ UNCHANGED <<up, mem, faults>>

HandleGetPeers(i, e) ==
    LET n == NodeAt(sock, i, e)
        m == sock[i][e].remote
        list == Listed(KnownAddresses(sock, n) \ {Listen[m]})
    IN  /\ Received(i, e, {"GET_PEERS"}) /\ m # None
        /\ \E sk \in {[sock EXCEPT ![i] = Taken(i, e)]}, f \in {PeersOf(list)} :
                sock' = Send(sk, n, {m}, f)
        /\ UNCHANGED <<up, mem, faults>>

(* handleDiscoveredPeers *)
HandlePeers(i, e) ==
    LET n == NodeAt(sock, i, e)
        list == SelectSeq(Head(sock[i][e].inbox).list, LAMBDA a : a # Listen[n])
    IN  /\ Received(i, e, {"PEERS"}) /\ sock[i][e].remote # None
        /\ \E sk \in {[sock EXCEPT ![i] = Taken(i, e)]}, bk \in {AddUntilFull(book[n], list)} :
                DialCandidates(n, sk, bk)
        /\ UNCHANGED <<up, startup, bans, scores, faults>>

(* The socket is closed from the other side, or our close is answered.       *)
HandleClose(i, e) ==
    /\ Received(i, e, {"CLOSE"})
    /\ Replace(i, Shut(Taken(i, e), e, "closed"))
    /\ UNCHANGED <<up, mem, faults>>

-----------------------------------------------------------------------------
(* Node.maintainPeers *)
Tick(n) ==
    LET waited == [j \in DOMAIN book[n] |-> [book[n][j] EXCEPT !.wait = Max({0, @ - 1})]]
    IN  /\ up[n]
        /\ \A i \in Slot, e \in Side : IsLink(sock, n, i, e, Node) =>
                \A d \in Side : Len(sock[i][d].inbox) < MaxFrames
        /\ \E sk \in {Send(sock, n, PeerIds(sock, n), GetPeers)},
              bk \in {AddAll(waited, Listed(KnownAddresses(sock, n)))} : DialCandidates(n, sk, bk)
        /\ bans' = [bans EXCEPT ![n] = [x \in DOMAIN @ |-> Max({0, @[x] - 1})]]
        /\ scores' = [scores EXCEPT ![n] = [m \in Node |-> IF bans[n][m] = 1 THEN 0 ELSE @[m]]]
        /\ UNCHANGED <<up, startup, faults>>

(* ReputationTracker.penalize: the score crosses the threshold.              *)
Crossed(n, m, p) == ~Banned(n, m) /\ scores[n][m] + p >= Threshold

(* P2PServer.penalize *)
Penalize(n, m, p) ==
    LET crossed == Crossed(n, m, p)
    IN  /\ Fault /\ m \in PeerIds(sock, n)
        /\ scores' = IF Banned(n, m) THEN scores ELSE [scores EXCEPT ![n][m] = @ + p]
        /\ bans' = IF crossed THEN [bans EXCEPT ![n][m] = BanTicks, ![n][Listen[m]] = BanTicks]
                   ELSE bans
        /\ sock' = [i \in Slot |->
                IF crossed /\ \E e \in Side : IsLink(sock, n, i, e, {m})
                THEN Shut(sock[i], CHOOSE e \in Side : IsLink(sock, n, i, e, {m}), "closing")
                ELSE sock[i]]
        /\ UNCHANGED <<up, book, saved, dialling, startup>>

HandshakeTimeout(i, e) ==
    /\ Fault /\ Live(i) /\ sock[i][e].state = "registered" /\ sock[i][e].remote = None
    /\ Replace(i, Shut(sock[i], e, "forgotten"))
    /\ UNCHANGED <<up, mem>>

SocketLost(i) ==
    /\ Fault /\ Live(i) /\ sock' = [sock EXCEPT ![i] = None]
    /\ UNCHANGED <<up, mem>>

(* The process ends; Node.stop saves the book, a crash does not.             *)
Down(n, i) ==
    LET out == IF i[1] = n THEN Shut(sock[i], "out", "closed") ELSE sock[i]
    IN  Settle(IF Live(i) /\ Host[sock[i].addr] = n THEN Shut(out, "in", "closed") ELSE out)

Halt(n) ==
    /\ Fault /\ up[n] /\ up' = [up EXCEPT ![n] = FALSE]
    /\ sock' = [i \in Slot |-> IF sock[i] = None THEN None ELSE Down(n, i)]
    /\ saved' \in {saved, [saved EXCEPT ![n] = book[n]]}
    /\ book' = [book EXCEPT ![n] = <<>>] /\ dialling' = [dialling EXCEPT ![n] = {}]
    /\ startup' = [startup EXCEPT ![n] = {}]
    /\ bans' = [bans EXCEPT ![n] = [x \in DOMAIN @ |-> 0]]
    /\ scores' = [scores EXCEPT ![n] = [m \in Node |-> 0]]

(* Node.start, then main.ts with the configured peers.                       *)
Start(n) ==
    /\ ~up[n] /\ up' = [up EXCEPT ![n] = TRUE]
    /\ book' = [book EXCEPT ![n] = saved[n]]
    /\ startup' = [startup EXCEPT ![n] = Peers[n]]
    /\ UNCHANGED <<sock, saved, dialling, bans, scores, faults>>

-----------------------------------------------------------------------------
Deliver(i, e) ==
    \/ RefuseHandshake(i, e) \/ AcceptHandshake(i, e) \/ DropUnknown(i, e)
    \/ HandleGetPeers(i, e) \/ HandlePeers(i, e) \/ HandleClose(i, e)

Transport(i) == Open(i) \/ DialFails(i) \/ \E e \in Side : Deliver(i, e)

Startup == \E n \in Node : Start(n) \/ \E a \in Address : ConnectToPeer(n, a)

Next ==
    \/ Startup
    \/ \E n \in Node : Tick(n) \/ Halt(n)
    \/ \E i \in Slot : Transport(i) \/ SocketLost(i) \/ \E e \in Side : HandshakeTimeout(i, e)
    \/ \E n, m \in Node, p \in Points : Penalize(n, m, p)

(* A dial ends, a frame is delivered, the maintenance timer fires, main.ts   *)
(* goes on and a stopped node is started again.                              *)
Spec ==
    /\ Init /\ [][Next]_vars
    /\ (\A i \in Slot : WF_vars(Transport(i))) /\ WF_vars(Startup)
    /\ \A n \in Node : WF_vars(Tick(n))

-----------------------------------------------------------------------------
(* Properties *)

(* Connections stay within their limits however dials, handshakes and        *)
(* reconnections race: one link to a peer (registerPeer collapses redundant  *)
(* ones), and inbound, inbound per IP and outbound sockets, handshaked or    *)
(* not, within their slots.                                                  *)
ConnectionsBounded ==
    \A n \in Node :
        /\ \A m \in Node : Cardinality(LinksTo(sock, n, m)) <= 1
        /\ Cardinality(Registered(sock, n, "in")) <= MaxInbound
        /\ Cardinality(Registered(sock, n, "out")) <= MaxOutbound[n]
        /\ \A m \in Node : Cardinality({i \in Registered(sock, n, "in") : i[1] = m}) <= MaxPerIp

(* The first frame an end gets is the handshake: a node's requests cannot    *)
(* reach a peer before its HANDSHAKE and be dropped (P2PServer.connect).     *)
HandshakeFirst ==
    \A i \in Slot, e \in Side :
        Live(i) /\ sock[i][e].state = "registered" /\ sock[i][e].remote = None /\ sock[i][e].inbox # <<>>
            => Head(sock[i][e].inbox).type \in {"HANDSHAKE", "CLOSE"}

(* With nothing in flight, the two ends of a socket agree: each has the      *)
(* other as its peer.  No half-open link is left behind by a refusal, a      *)
(* timeout, a ban or a stop.                                                 *)
LinksMutual ==
    \A i \in Slot :
        Live(i) /\ (\A e \in Side : sock[i][e].inbox = <<>>) =>
            \A e \in Side : sock[i][e].state = "registered"
                            /\ sock[i][e].remote = NodeAt(sock, i, Other(e))

Between(n, m) == {i \in Slot : Live(i) /\ {n, m} = {NodeAt(sock, i, e) : e \in Side}}

(* The sockets of n to or from others than m.                                *)
Elsewhere(n, m, e) == {i \in Registered(sock, n, e) : NodeAt(sock, i, Other(e)) # m}

(* No two sockets between n and m, a slot for m at n, and for n at m.        *)
Undisturbed(n, m) ==
    /\ Cardinality(Between(n, m)) <= 1
    /\ Cardinality(Elsewhere(n, m, "out")) < MaxOutbound[n]
    /\ Cardinality(Elsewhere(m, n, "in")) < MaxInbound

(* A node stays connected with a configured peer of the same rules, or is    *)
(* connected again after faults, bans and restarts, as dialCandidates does   *)
(* not forget it, unless for ever again one of three things happens: dials   *)
(* between the two overlap (each side then may keep another of the two       *)
(* sockets), other peers hold all outbound slots of the node (an anchor      *)
(* that refuses the handshake is dialled first at every tick), or all        *)
(* inbound slots of the peer.  The configured peers fit into one tick.       *)
KeepsConnected ==
    \A p \in {q \in Node \X Node : /\ Listen[q[2]] \in Peers[q[1]] /\ Rules[q[1]] = Rules[q[2]]
                                   /\ Cardinality(Peers[q[1]]) <= MaxDials} :
        <>[]Undisturbed(p[1], p[2]) => <>[](LinksTo(sock, p[1], p[2]) # {})
=============================================================================
