---------------------------- MODULE NetworkProofs ----------------------------
(* Proofs about module Network, for every set of nodes, addresses, limits    *)
(* and rules: no node ever has more connections than its slots, the first    *)
(* frame is the handshake, and the two ends of a quiet socket agree.         *)
EXTENDS SocketProofs

(* A leaf goes to the SMT solver with this limit, unless it names Zenon.     *)
USE SMTT(30)

-----------------------------------------------------------------------------
(* The actions, one after the other.                                         *)

LEMMA ConnectStep ==
    ASSUME NEW n \in Node, NEW x \in Address, NetworkInv, ConnectToPeer(n, x)
    PROVE  NetworkInv'
<1>1. NetOK(sock)
  BY DEF NetworkInv
<1>2. CASE UNCHANGED sock
  BY <1>1, <1>2 DEF NetworkInv
<1>3. CASE OutboundRoom(sock, n) > 0 /\ \E bk : Dial(n, <<x>>, sock, bk)
  <2>1. DOMAIN <<x>> = 1..1
    OBVIOUS
  <2>2. IsFiniteSet(1..1) /\ Cardinality(1..1) = 1
    <3>1. 1 \in Int
      OBVIOUS
    <3>2. IsFiniteSet(1..1) /\ Cardinality(1..1) = IF 1 > 1 THEN 0 ELSE 1 - 1 + 1
      BY <3>1, FS_Interval, Zenon
    <3> QED
      BY <3>2
  <2>3. OutboundRoom(sock, n) \in Int
    <3>1. Cardinality(Registered(sock, n, "out")) \in Nat
      BY IsRegistered, Fewer
    <3>2. MaxOutbound[n] \in Nat
      BY NetworkAssumption
    <3> QED
      BY <3>1, <3>2 DEF OutboundRoom
  <2>4. IsFiniteSet(DOMAIN <<x>>) /\ Cardinality(DOMAIN <<x>>) <= OutboundRoom(sock, n)
    BY <1>3, <2>1, <2>2, <2>3
  <2> QED
    BY <1>1, <1>3, <2>4, DialStep
<1>4. UNCHANGED sock \/ (OutboundRoom(sock, n) > 0 /\ \E bk : Dial(n, <<x>>, sock, bk))
  BY Zenon DEF ConnectToPeer
<1> QED
  BY <1>2, <1>3, <1>4

(* The sockets as the invariant has them.                                    *)
LEMMA InvFacts ==
    ASSUME NetworkInv
    PROVE  /\ NetOK(sock) /\ DOMAIN sock = Slot
           /\ \A i \in Slot : sock[i] # None => SocketOK(sock[i], i)
           /\ \A i \in Slot : Live(i) => sock[i] # None /\ Sound(sock[i], i)
           /\ \A i \in Slot : Connecting(i) => sock[i] # None /\ sock[i] \in Socket /\ Fresh(sock[i])
<1>1. NetOK(sock) /\ DOMAIN sock = Slot /\ \A i \in Slot : sock[i] # None => SocketOK(sock[i], i)
  BY DEF NetworkInv, NetOK, SocketsOK
<1>2. ASSUME NEW i \in Slot, Live(i) PROVE sock[i] # None /\ Sound(sock[i], i)
  <2>1. sock[i] # None /\ sock[i]["out"].state # "connecting"
    BY <1>2 DEF Live, Connecting
  <2>2. ~Fresh(sock[i])
    BY <2>1 DEF Fresh, End
  <2> QED
    BY <1>1, <2>1, <2>2 DEF SocketOK
<1>3. ASSUME NEW i \in Slot, Connecting(i)
      PROVE  sock[i] # None /\ sock[i] \in Socket /\ Fresh(sock[i])
  <2>1. sock[i] # None /\ sock[i]["out"].state = "connecting"
    BY <1>3 DEF Connecting
  <2>2. ~Sound(sock[i], i)
    BY <2>1 DEF Sound, Basic, Side
  <2> QED
    BY <1>1, <2>1, <2>2 DEF SocketOK
<1> QED
  BY <1>1, <1>2, <1>3

LEMMA RemovedStep ==
    ASSUME NEW i \in Slot, NetworkInv, sock' = [sock EXCEPT ![i] = None]
    PROVE  NetworkInv'
<1>1. NetOK(sock) /\ DOMAIN sock = Slot /\ \A j \in Slot : sock[j] # None => SocketOK(sock[j], j)
  BY InvFacts
<1>2. DOMAIN sock' = Slot /\ \A j \in Slot : sock'[j] # None => sock'[j] = sock[j]
  BY <1>1
<1>3. NetOK(sock')
  BY <1>1, <1>2, Shrunk, Zenon
<1> QED
  BY <1>3 DEF NetworkInv

(* An end is closed, after the socket has become k.                          *)
LEMMA ShutStep ==
    ASSUME NEW i \in Slot, NEW e \in Side, NEW k, NEW st \in {"forgotten", "closed"},
           NetworkInv, sock[i] # None, k.addr = sock[i].addr,
           k[Other(e)].state = sock[i][Other(e)].state, k[Other(e)].remote = sock[i][Other(e)].remote,
           Basic(k, i), Greeted(k, Other(e)), Told(k, Other(e)),
           st # "closed" => Told(k, e) /\ k[e].state # "closed",
           Replace(i, Shut(k, e, st))
    PROVE  NetworkInv'
<1> DEFINE p == Shut(k, e, st)
<1>1. Sound(p, i)
  BY ShutSound
<1>2. k \in Socket /\ st \in State
  BY Zenon DEF Basic, State
<1>3. p.addr = k.addr /\ p[e].state = st /\ p[Other(e)].state = k[Other(e)].state
      /\ p[Other(e)].remote = k[Other(e)].remote
  BY <1>2, ShutFacts, Zenon
<1>4. Side = {e, Other(e)}
  BY Sides, Zenon
<1> HIDE DEF p
<1>5. ~InMap(p, e)
  BY <1>3, Zenon DEF InMap
<1>6. \A c \in Side : InMap(p, c) => InMap(sock[i], c) /\ p[c].remote \in {None, sock[i][c].remote}
  BY <1>3, <1>4, <1>5, Zenon DEF InMap
<1>7. Replace(i, p) /\ p.addr = sock[i].addr
  BY <1>3 DEF p
<1> QED
  BY <1>1, <1>6, <1>7, Replaced, Zenon

LEMMA DialFailsStep ==
    ASSUME NEW i \in Slot, NetworkInv, DialFails(i)
    PROVE  NetworkInv'
<1>1. sock' = [sock EXCEPT ![i] = None]
  BY Zenon DEF DialFails, DialEnds
<1> QED
  BY <1>1, RemovedStep, Zenon

(* The end that has received a frame.                                        *)
LEMMA ReceivedFacts ==
    ASSUME NEW i \in Slot, NEW e \in Side, NEW types, NetworkInv, Received(i, e, types)
    PROVE  /\ sock[i] # None /\ Sound(sock[i], i) /\ sock[i] \in Socket
           /\ sock[i][e].inbox # <<>> /\ Head(sock[i][e].inbox).type \in types
           /\ NodeAt(sock, i, e) = At(sock[i], i, e) /\ NodeAt(sock, i, e) \in Node
<1>1. Live(i) /\ sock[i][e].inbox # <<>> /\ Head(sock[i][e].inbox).type \in types
  BY Zenon DEF Received
<1>2. sock[i] # None /\ Sound(sock[i], i)
  BY <1>1, InvFacts, Zenon
<1>3. sock[i] \in Socket /\ Host[sock[i].addr] \in Node
  BY <1>2, Zenon DEF Sound, Basic
<1>4. NodeAt(sock, i, e) = At(sock[i], i, e) /\ NodeAt(sock, i, e) \in Node
  BY <1>3, SlotNode DEF NodeAt, At
<1> QED
  BY <1>1, <1>2, <1>3, <1>4, Zenon

LEMMA RefuseStep ==
    ASSUME NEW i \in Slot, NEW e \in Side, NetworkInv, RefuseHandshake(i, e)
    PROVE  NetworkInv'
<1> DEFINE k == Taken(i, e)
           d == Other(e)
           m == Head(sock[i][e].inbox).node
           q == [k EXCEPT ![e].remote = m]
<1>1. /\ Received(i, e, {"HANDSHAKE"})
      /\ Replace(i, Shut(k, e, "forgotten")) \/ Replace(i, Shut(q, e, "forgotten"))
  BY Zenon DEF RefuseHandshake
<1>2. /\ sock[i] # None /\ Sound(sock[i], i) /\ sock[i] \in Socket /\ sock[i][e].inbox # <<>>
      /\ Head(sock[i][e].inbox).type = "HANDSHAKE"
  <2>1. /\ sock[i] # None /\ Sound(sock[i], i) /\ sock[i] \in Socket /\ sock[i][e].inbox # <<>>
        /\ Head(sock[i][e].inbox).type \in {"HANDSHAKE"}
    BY <1>1, ReceivedFacts, Zenon
  <2> QED
    BY <2>1, Zenon
<1>3. /\ Basic(k, i) /\ k[e].state # "closed" /\ Greeted(k, d) /\ Told(k, d) /\ Told(k, e)
      /\ m = At(sock[i], i, d) /\ m \in Node
  BY <1>2, TakenBasic
<1>4. k.addr = sock[i].addr /\ k[d] = sock[i][d]
  BY <1>2, TakenFacts, Zenon
<1>5. CASE Replace(i, Shut(k, e, "forgotten"))
  <2> HIDE DEF k
  <2> QED
    BY <1>2, <1>3, <1>4, <1>5, ShutStep, Zenon
<1>6. CASE Replace(i, Shut(q, e, "forgotten"))
  <2>1. m = At(k, i, d)
    BY <1>3, <1>4 DEF At
  <2> HIDE DEF k, m
  <2>2. Sound(q, i) /\ q.addr = k.addr /\ q[d] = k[d] /\ q[e].state = k[e].state
    BY <1>3, <2>1, RemoteNoted
  <2> HIDE DEF q, d
  <2>3. Basic(q, i) /\ Greeted(q, d) /\ Told(q, d) /\ Told(q, e) /\ q[e].state # "closed"
    BY <1>3, <2>2, Sides DEF Sound, d
  <2>4. q.addr = sock[i].addr /\ q[d].state = sock[i][d].state /\ q[d].remote = sock[i][d].remote
    BY <1>4, <2>2, Zenon
  <2> QED
    BY <1>2, <1>6, <2>3, <2>4, ShutStep, Zenon DEF d
<1> QED
  BY <1>1, <1>5, <1>6, Zenon

LEMMA DropStep ==
    ASSUME NEW i \in Slot, NEW e \in Side, NetworkInv, DropUnknown(i, e)
    PROVE  NetworkInv'
<1> DEFINE k == Taken(i, e)
           d == Other(e)
<1>1. Received(i, e, {"GET_PEERS", "PEERS"}) /\ Replace(i, Shut(k, e, "forgotten"))
  BY Zenon DEF DropUnknown
<1>2. /\ sock[i] # None /\ Sound(sock[i], i) /\ sock[i] \in Socket /\ sock[i][e].inbox # <<>>
      /\ Head(sock[i][e].inbox).type # "CLOSE"
  BY <1>1, ReceivedFacts
<1>3. Basic(k, i) /\ k[e].state # "closed" /\ Greeted(k, d) /\ Told(k, d) /\ Told(k, e)
  BY <1>2, TakenBasic, Zenon
<1>4. k.addr = sock[i].addr /\ k[d] = sock[i][d]
  BY <1>2, TakenFacts, Zenon
<1> HIDE DEF k
<1> QED
  BY <1>1, <1>2, <1>3, <1>4, ShutStep

LEMMA CloseStep ==
    ASSUME NEW i \in Slot, NEW e \in Side, NetworkInv, HandleClose(i, e)
    PROVE  NetworkInv'
<1> DEFINE k == Taken(i, e)
           d == Other(e)
<1>1. Received(i, e, {"CLOSE"}) /\ Replace(i, Shut(k, e, "closed"))
  BY Zenon DEF HandleClose
<1>2. sock[i] # None /\ Sound(sock[i], i) /\ sock[i] \in Socket /\ sock[i][e].inbox # <<>>
  BY <1>1, ReceivedFacts, Zenon
<1>3. Basic(k, i) /\ Greeted(k, d) /\ Told(k, d)
  BY <1>2, TakenBasic, Zenon
<1>4. k.addr = sock[i].addr /\ k[d] = sock[i][d]
  BY <1>2, TakenFacts, Zenon
<1> HIDE DEF k
<1> QED
  BY <1>1, <1>2, <1>3, <1>4, ShutStep

LEMMA TimeoutStep ==
    ASSUME NEW i \in Slot, NEW e \in Side, NetworkInv, HandshakeTimeout(i, e)
    PROVE  NetworkInv'
<1> DEFINE k == sock[i]
           d == Other(e)
<1>1. Live(i) /\ k[e].state = "registered" /\ Replace(i, Shut(k, e, "forgotten"))
  BY Zenon DEF HandshakeTimeout
<1>2. k # None /\ Sound(k, i)
  BY <1>1, InvFacts
<1>3. Basic(k, i) /\ Greeted(k, d) /\ Told(k, d) /\ Told(k, e)
  BY <1>2, Sides DEF Sound
<1> QED
  BY <1>1, <1>2, <1>3, ShutStep, Zenon

(* A new socket: each end hears of the other first, or of its refusal.       *)
LEMMA OpenedSound ==
    ASSUME NEW i \in Slot, NEW s \in Socket, Fresh(s), Host[s.addr] \in Node, NEW accepted \in BOOLEAN
    PROVE  LET m == Host[s.addr]
               o == End("registered", IF accepted THEN <<Handshake(m)>> ELSE <<Close>>)
               c == IF accepted THEN End("registered", Announce(i)) ELSE s["in"]
               k == WithEnd(WithEnd(s, "out", o), "in", c)
           IN  /\ SocketOK(k, i) /\ k.addr = s.addr
               /\ k["out"].remote = None /\ k["in"].remote = None
               /\ ~accepted => k["in"].state = "closed"
<1> DEFINE x == s.addr
           m == Host[x]
           so == IF accepted THEN <<Handshake(m)>> ELSE <<Close>>
           si == IF accepted THEN <<Handshake(i[1])>> ELSE <<>>
           ti == IF accepted THEN "registered" ELSE "closed"
           o == End("registered", so)
           c == End(ti, si)
           r == WithEnd(s, "out", o)
           k == WithEnd(r, "in", c)
<1>0. c = IF accepted THEN End("registered", Announce(i)) ELSE s["in"]
  BY DEF Fresh, Announce
<1>1. i[1] \in Node /\ Handshake(m) \in Frame /\ Handshake(i[1]) \in Frame /\ Close \in Frame
  BY SlotNode, FrameTypes, Zenon
<1>2. /\ Handshake(m).type = "HANDSHAKE" /\ Handshake(m).node = m /\ Close.type = "CLOSE"
      /\ Handshake(i[1]).type = "HANDSHAKE" /\ Handshake(i[1]).node = i[1]
  BY <1>1, FrameTypes
<1>3. so \in Seq(Frame) /\ si \in Seq(Frame) /\ so # <<>> /\ Len(so) = 1 /\ Head(so) = so[1]
  BY <1>1
<1>4. /\ accepted => so[1] = Handshake(m) /\ si # <<>> /\ Len(si) = 1 /\ si[1] = Handshake(i[1])
                     /\ Head(si) = Handshake(i[1]) /\ ti = "registered"
      /\ ~accepted => so[1] = Close /\ si = <<>> /\ ti = "closed"
  OBVIOUS
<1>5. "registered" \in State /\ ti \in State
  BY DEF State
<1> HIDE DEF so, si, ti, m
<1>6. /\ End("registered", so) \in EndType /\ End(ti, si) \in EndType
  BY <1>3, <1>5, NewEnd, Zenon
<1>7. k \in Socket /\ k.addr = x /\ k["out"] = End("registered", so) /\ k["in"] = End(ti, si)
  <2>1. Other("out") = "in" /\ Other("in") = "out" /\ "out" \in Side /\ "in" \in Side
    BY DEF Other, Side
  <2> HIDE DEF o, c, r
  <2>2. o \in EndType /\ c \in EndType
    BY <1>6, Zenon DEF o, c
  <2>3. r \in Socket /\ r.addr = s.addr /\ r["out"] = o /\ r["in"] = s["in"]
    BY <2>1, <2>2, EndReplaced DEF r
  <2>4. k \in Socket /\ k.addr = r.addr /\ k["in"] = c /\ k[Other("in")] = r[Other("in")]
    BY <2>1, <2>2, <2>3, EndReplaced, ZenonT(30)
  <2> HIDE DEF k
  <2> QED
    BY <2>1, <2>3, <2>4, Zenon DEF o, c
<1> HIDE DEF k
<1>8. /\ k["out"].state = "registered" /\ k["out"].remote = None /\ k["out"].inbox = so
      /\ k["in"].state = ti /\ k["in"].remote = None /\ k["in"].inbox = si
  BY <1>7 DEF End
<1>9. Other("out") = "in" /\ Other("in") = "out" /\ "out" \in Side /\ "in" \in Side
      /\ At(k, i, "out") = i[1] /\ At(k, i, "in") = m
  BY <1>7, Zenon DEF Other, Side, At, m
<1>10. Truthful(k, i, "out")
  <2>1. \A j \in 1..Len(so) : so[j].type = "HANDSHAKE" => so[j].node = m
    BY <1>2, <1>3, <1>4
  <2> QED
    BY <1>8, <1>9, <2>1, Zenon DEF Truthful
<1>11. Truthful(k, i, "in")
  <2>1. \A j \in 1..Len(si) : si[j].type = "HANDSHAKE" => si[j].node = i[1]
    BY <1>2, <1>4
  <2> QED
    BY <1>8, <1>9, <2>1, Zenon DEF Truthful
<1>12. Closed(k, "out") /\ Closed(k, "in")
  BY <1>4, <1>7, <1>8 DEF Closed
<1>13. Greeted(k, "out") /\ Greeted(k, "in")
  BY <1>2, <1>3, <1>4, <1>8, Zenon DEF Greeted
<1>14. Told(k, "out") /\ Told(k, "in")
  BY <1>2, <1>3, <1>4, <1>8, <1>9 DEF Told, HasClose
<1>15. k["out"].state # "connecting" /\ k["in"].state # "connecting"
  BY <1>4, <1>8, Zenon
<1>16. Sound(k, i)
  BY <1>7, <1>10, <1>11, <1>12, <1>13, <1>14, <1>15, Zenon DEF Sound, Basic, Side, m
<1>17. SocketOK(k, i)
  BY <1>8, <1>9, <1>16 DEF SocketOK
<1> QED
  BY <1>0, <1>4, <1>7, <1>8, <1>17, Zenon DEF k, r, o, so, m

LEMMA OpenStep ==
    ASSUME NEW i \in Slot, NetworkInv, Open(i)
    PROVE  NetworkInv'
<1> DEFINE x == sock[i].addr
           m == Host[x]
           accepted == Accepts(m, i[1])
           o == End("registered", IF accepted THEN <<Handshake(m)>> ELSE <<Close>>)
           c == IF accepted THEN End("registered", Announce(i)) ELSE sock[i]["in"]
           k == WithEnd(WithEnd(sock[i], "out", o), "in", c)
           k0 == [sock[i] EXCEPT
                    !["out"] = End("registered", IF accepted THEN <<Handshake(m)>> ELSE <<Close>>),
                    !["in"] = IF accepted THEN End("registered", Announce(i)) ELSE @]
<1>1. Connecting(i) /\ m # None /\ sock' = [sock EXCEPT ![i] = k0]
  BY DEF Open, DialEnds
<1>2. sock[i] # None /\ sock[i] \in Socket /\ Fresh(sock[i]) /\ DOMAIN sock = Slot /\ NetOK(sock)
  BY <1>1, InvFacts, Zenon
<1>3. k0 = k
  <2> DEFINE r == WithEnd(sock[i], "out", o)
  <2>1. "in" # "out" /\ r["in"] = sock[i]["in"]
    BY <1>2, Zenon DEF WithEnd, Socket
  <2>2. k0 = [r EXCEPT !["in"] = IF accepted THEN End("registered", Announce(i)) ELSE r["in"]]
    BY Zenon DEF WithEnd
  <2> HIDE DEF r, accepted
  <2> QED
    BY <2>1, <2>2 DEF r, WithEnd
<1>4. x \in Address /\ m \in Node
  <2>1. x \in Address
    BY <1>2, Zenon DEF Socket
  <2> QED
    BY <1>1, <2>1, NetworkAssumption
<1>5. DOMAIN sock' = Slot /\ sock'[i] = k /\ \A j \in Slot : j # i => sock'[j] = sock[j]
  BY <1>1, <1>2, <1>3
<1>6. accepted \in BOOLEAN
  BY DEF Accepts
<1>7. /\ SocketOK(k, i) /\ k.addr = x /\ k["out"].remote = None /\ k["in"].remote = None
      /\ ~accepted => k["in"].state = "closed"
  <2> HIDE DEF accepted
  <2> QED
    BY <1>2, <1>4, <1>6, OpenedSound, ZenonT(30)
<1>8. InMap(sock[i], "out")
  BY <1>2 DEF Fresh, End, InMap
<1>9. accepted => /\ Cardinality(Registered(sock, m, "in")) < MaxInbound
                  /\ Cardinality({j \in Registered(sock, m, "in") : j[1] = i[1]}) < MaxPerIp
  BY Zenon DEF Accepts
<1> HIDE DEF accepted, k, k0
<1>10. SocketsOK(sock')
  BY <1>2, <1>5, <1>7, Zenon DEF SocketsOK, NetOK
<1>11. OneLink(sock')
  <2>1. OneLink(sock)
    BY <1>2, Zenon DEF NetOK
  <2>2. ASSUME NEW j \in Slot, sock'[j] # None, NEW e \in Side, InMap(sock'[j], e),
               sock'[j][e].remote # None
        PROVE  /\ sock[j] # None /\ sock[j].addr = sock'[j].addr
               /\ InMap(sock[j], e) /\ sock[j][e].remote = sock'[j][e].remote
    <3>1. j # i
      BY <1>5, <1>7, <2>2 DEF Side
    <3>2. sock'[j] = sock[j]
      BY <1>5, <3>1
    <3> QED
      BY <2>2, <3>2, Zenon
  <2> QED
    BY <2>1, <2>2, LinksKept
<1>12. OutboundOK(sock')
  <2>1. \A j \in Slot : Kept(sock, sock', j, "out")
    BY <1>2, <1>5, <1>7, <1>8 DEF Kept
  <2>2. OutboundOK(sock)
    BY <1>2 DEF NetOK
  <2> QED
    BY <2>1, <2>2, OutboundKept, Zenon
<1>13. InboundOK(sock')
  <2>1. InboundOK(sock)
    BY <1>2 DEF NetOK
  <2>2. \A j \in Slot : j # i => Kept(sock, sock', j, "in")
    BY <1>5 DEF Kept
  <2>3. ~accepted => Kept(sock, sock', i, "in")
    BY <1>5, <1>7 DEF Kept, InMap
  <2>4. Host[sock'[i].addr] = m
    BY <1>5, <1>7, Zenon
  <2>5. \A j \in Slot : Kept(sock, sock', j, "in")
          \/ /\ j = i /\ Host[sock'[i].addr] \in Node
             /\ LET S == Registered(sock, Host[sock'[i].addr], "in")
                IN  /\ Cardinality(S) < MaxInbound
                    /\ Cardinality({q \in S : q[1] = i[1]}) < MaxPerIp
    BY <1>4, <1>9, <2>2, <2>3, <2>4
  <2> QED
    BY <2>1, <2>5, InboundKept
<1>14. NetOK(sock')
  BY <1>5, <1>10, <1>11, <1>12, <1>13 DEF NetOK
<1> QED
  BY <1>14, Zenon DEF NetworkInv

(* The first frame of a known peer is taken.                                 *)
LEMMA TakenOK ==
    ASSUME NEW i \in Slot, NEW e \in Side, NEW types, NetworkInv, Received(i, e, types),
           "CLOSE" \notin types, sock[i][e].remote # None
    PROVE  NetOK([sock EXCEPT ![i] = Taken(i, e)])
<1> DEFINE k == Taken(i, e)
           d == Other(e)
           b == [sock EXCEPT ![i] = k]
<1>1. /\ sock[i] # None /\ Sound(sock[i], i) /\ sock[i] \in Socket /\ sock[i][e].inbox # <<>>
      /\ Head(sock[i][e].inbox).type # "CLOSE"
  BY ReceivedFacts
<1>2. Basic(k, i) /\ k[e].state # "closed" /\ Greeted(k, d) /\ Told(k, d) /\ Told(k, e)
  BY <1>1, TakenBasic, Zenon
<1>3. /\ k.addr = sock[i].addr /\ k[d] = sock[i][d]
      /\ k[e].state = sock[i][e].state /\ k[e].remote = sock[i][e].remote
  BY <1>1, TakenFacts
<1>4. Side = {e, d}
  BY Sides, Zenon
<1> HIDE DEF k, d
<1>5. Greeted(k, e)
  BY <1>3, Zenon DEF Greeted
<1>6. SocketOK(k, i)
  BY <1>2, <1>4, <1>5, Zenon DEF SocketOK, Sound
<1>7. NetOK(sock) /\ DOMAIN sock = Slot /\ \A j \in Slot : sock[j] # None => SocketOK(sock[j], j)
  BY InvFacts
<1>8. DOMAIN b = Slot /\ b[i] = k /\ \A j \in Slot : j # i => b[j] = sock[j]
  BY <1>7, Zenon
<1> HIDE DEF b
<1>9. \A c \in Side : InMap(k, c) => InMap(sock[i], c) /\ k[c].remote \in {None, sock[i][c].remote}
  BY <1>3, <1>4 DEF InMap
<1>10. ASSUME NEW j \in Slot, b[j] # None
       PROVE  /\ sock[j] # None /\ SocketOK(b[j], j) /\ b[j].addr = sock[j].addr
              /\ \A c \in Side : InMap(b[j], c) =>
                    InMap(sock[j], c) /\ b[j][c].remote \in {None, sock[j][c].remote}
  <2>1. CASE j = i
    BY <1>1, <1>3, <1>6, <1>8, <1>9, <2>1, Zenon
  <2>2. CASE j # i
    <3>1. b[j] = sock[j]
      BY <1>8, <2>2
    <3> QED
      BY <1>7, <1>10, <3>1
  <2> QED
    BY <2>1, <2>2, Zenon
<1>11. NetOK(b)
  BY <1>7, <1>8, <1>10, Shrunk, Zenon
<1> QED
  BY <1>11, Zenon DEF b, k

LEMMA KnownAreAddresses ==
    ASSUME NEW sk, NEW n
    PROVE  KnownAddresses(sk, n) \subseteq Address
<1>1. \A m \in PeerIds(sk, n) : m \in Node
  BY DEF PeerIds, IsLink
<1>2. \A m \in Node : Listen[m] \in Address
  BY NetworkAssumption
<1> QED
  BY <1>1, <1>2, Zenon DEF KnownAddresses

LEMMA GetPeersStep ==
    ASSUME NEW i \in Slot, NEW e \in Side, NetworkInv, HandleGetPeers(i, e)
    PROVE  NetworkInv'
<1> DEFINE n == NodeAt(sock, i, e)
           m == sock[i][e].remote
           A == KnownAddresses(sock, n) \ {Listen[m]}
           sk == [sock EXCEPT ![i] = Taken(i, e)]
           f == PeersOf(Listed(A))
<1>1. Received(i, e, {"GET_PEERS"}) /\ m # None /\ sock' = Send(sk, n, {m}, f)
  BY Zenon DEF HandleGetPeers
<1>2. NetOK(sk)
  BY <1>1, TakenOK, Zenon
<1>3. A \in SUBSET Address
  BY KnownAreAddresses
<1> HIDE DEF A, sk
<1>4. Listed(A) \in Lists
  BY <1>3 DEF Lists
<1>5. f \in Frame /\ f.type = "PEERS"
  BY <1>4, FrameTypes
<1> HIDE DEF f, n, m
<1>6. NetOK(sock')
  BY <1>1, <1>2, <1>5, Sent
<1> QED
  BY <1>6 DEF NetworkInv

LEMMA PeersStep ==
    ASSUME NEW i \in Slot, NEW e \in Side, NetworkInv, HandlePeers(i, e)
    PROVE  NetworkInv'
<1> DEFINE n == NodeAt(sock, i, e)
           sk == [sock EXCEPT ![i] = Taken(i, e)]
<1>1. /\ Received(i, e, {"PEERS"}) /\ sock[i][e].remote # None
      /\ \E bk : DialCandidates(n, sk, bk)
  BY Zenon DEF HandlePeers
<1>2. NetOK(sk)
  BY <1>1, TakenOK, Zenon
<1>3. n \in Node
  BY <1>1, ReceivedFacts
<1> HIDE DEF n, sk
<1> QED
  BY <1>1, <1>2, <1>3, CandidatesStep

LEMMA TickStep ==
    ASSUME NEW n \in Node, NetworkInv, Tick(n)
    PROVE  NetworkInv'
<1> DEFINE sk == Send(sock, n, PeerIds(sock, n), GetPeers)
<1>1. \E bk : DialCandidates(n, sk, bk)
  BY Zenon DEF Tick
<1>2. NetOK(sk)
  BY FrameTypes, InvFacts, Sent
<1> HIDE DEF sk
<1> QED
  BY <1>1, <1>2, CandidatesStep

LEMMA LostStep ==
    ASSUME NEW i \in Slot, NetworkInv, SocketLost(i)
    PROVE  NetworkInv'
<1>1. sock' = [sock EXCEPT ![i] = None]
  BY DEF SocketLost
<1> QED
  BY <1>1, RemovedStep, Zenon

(* A ban closes the link to the peer, which stays in the map until then.     *)
LEMMA PenalizeStep ==
    ASSUME NEW n \in Node, NEW m \in Node, NEW q \in Points, NetworkInv, Penalize(n, m, q)
    PROVE  NetworkInv'
<1> DEFINE Links(i, e) == IsLink(sock, n, i, e, {m})
           c(i) == CHOOSE e \in Side : Links(i, e)
           Hit(i) == Crossed(n, m, q) /\ \E e \in Side : Links(i, e)
<1>1. /\ DOMAIN sock' = Slot
      /\ \A i \in Slot : sock'[i] = IF Hit(i) THEN Shut(sock[i], c(i), "closing") ELSE sock[i]
  BY DEF Penalize
<1>2. NetOK(sock) /\ \A i \in Slot : sock[i] # None => SocketOK(sock[i], i)
  BY InvFacts, Zenon
<1>3. \A i \in Slot : Hit(i) => /\ c(i) \in Side /\ sock[i] # None
                               /\ sock[i][c(i)].remote = m /\ InMap(sock[i], c(i))
  <2> TAKE i \in Slot
  <2>1. Hit(i) => c(i) \in Side /\ Links(i, c(i))
    BY Zenon
  <2> QED
    BY <2>1, Zenon DEF IsLink
<1> HIDE DEF c, Hit
<1>4. ASSUME NEW i \in Slot, sock'[i] # None
      PROVE  /\ sock[i] # None /\ SocketOK(sock'[i], i) /\ sock'[i].addr = sock[i].addr
             /\ \A e \in Side : InMap(sock'[i], e) =>
                    InMap(sock[i], e) /\ sock'[i][e].remote \in {None, sock[i][e].remote}
  <2>1. CASE ~Hit(i)
    <3>1. sock'[i] = sock[i]
      BY <1>1, <2>1, Zenon
    <3> QED
      BY <1>2, <1>4, <3>1, Zenon
  <2>2. CASE Hit(i)
    <3> DEFINE k == sock[i]
               e == c(i)
               d == Other(e)
               p == Shut(k, e, "closing")
    <3>1. /\ sock'[i] = p /\ e \in Side /\ k # None /\ k[e].remote = m /\ InMap(k, e)
          /\ SocketOK(k, i)
      BY <1>1, <1>2, <1>3, <2>2, Zenon
    <3>2. d \in Side /\ Side = {e, d}
      BY <3>1, Sides, Zenon
    <3> HIDE DEF d, e
    <3>3. ~Fresh(k)
      <4>1. Fresh(k) => k["out"].remote = None /\ k["in"].remote = None
        BY DEF Fresh, End
      <4> QED
        BY <3>1, <4>1, NetworkAssumption, Zenon DEF Side
    <3>4. Sound(k, i)
      BY <3>1, <3>3, Zenon DEF SocketOK
    <3>5. Basic(k, i) /\ Greeted(k, d) /\ Told(k, d) /\ Told(k, e) /\ k \in Socket
      BY <3>1, <3>2, <3>4, Zenon DEF Sound, Basic
    <3>6. k[e].state # "closed" /\ "closing" \in State
      BY <3>1, Zenon DEF InMap, State
    <3>7. Sound(p, i)
      BY <3>1, <3>5, <3>6, ShutSound DEF d
    <3> HIDE DEF k
    <3>8. /\ p.addr = k.addr /\ p[e].state = "closing" /\ p[e].remote = k[e].remote
          /\ p[d].state = k[d].state /\ p[d].remote = k[d].remote
      <4>1. d = Other(e) /\ k \in Socket /\ e \in Side /\ "closing" \in State /\ "closing" # "closed"
        BY <3>1, <3>5, <3>6, Zenon DEF d
      <4> QED
        BY <4>1, ShutFacts, Zenon
    <3> HIDE DEF p
    <3>9. SocketOK(p, i)
      BY <3>1, <3>7, <3>8, Zenon DEF SocketOK
    <3>10. \A x \in Side : InMap(p, x) => InMap(k, x) /\ p[x].remote \in {None, k[x].remote}
      BY <3>1, <3>2, <3>8 DEF InMap
    <3> QED
      BY <3>1, <3>8, <3>9, <3>10, Zenon DEF k
  <2> QED
    BY <2>1, <2>2, Zenon
<1>5. NetOK(sock')
  BY <1>1, <1>2, <1>4, Shrunk, Zenon
<1> QED
  BY <1>5, Zenon DEF NetworkInv

(* A peer is accepted where there is no link to it yet.                      *)
LEMMA AcceptStep ==
    ASSUME NEW i \in Slot, NEW e \in Side, NetworkInv, AcceptHandshake(i, e)
    PROVE  NetworkInv'
<1> DEFINE n == NodeAt(sock, i, e)
           m == Head(sock[i][e].inbox).node
           d == Other(e)
           t == Taken(i, e)
           k == [t EXCEPT ![e].remote = m]
           p == IF k[e].state = "registered" THEN Put(k, d, GetPeers) ELSE k
<1>1. Received(i, e, {"HANDSHAKE"}) /\ LinksTo(sock, n, m) = {} /\ Replace(i, p)
  BY Zenon DEF AcceptHandshake, Redundant
<1>2. /\ sock[i] # None /\ Sound(sock[i], i) /\ sock[i] \in Socket /\ sock[i][e].inbox # <<>>
      /\ Head(sock[i][e].inbox).type = "HANDSHAKE" /\ n = At(sock[i], i, e) /\ n \in Node
  BY <1>1, ReceivedFacts, Zenon
<1>3. /\ Basic(t, i) /\ t[e].state # "closed" /\ Greeted(t, d) /\ Told(t, d) /\ Told(t, e)
      /\ m = At(sock[i], i, d) /\ m \in Node
  BY <1>2, TakenBasic, Zenon
<1>4. t.addr = sock[i].addr /\ t[d] = sock[i][d] /\ t[e].state = sock[i][e].state
  BY <1>2, TakenFacts
<1>5. d \in Side /\ Other(d) = e /\ d # e /\ Side = {e, d}
  BY Sides, Zenon
<1>6. m = At(t, i, d)
  BY <1>3, <1>4 DEF At
<1> HIDE DEF t, m, n
<1>7. /\ Sound(k, i) /\ k.addr = t.addr /\ k[d] = t[d]
      /\ k[e].state = t[e].state /\ k[e].remote = m
  BY <1>3, <1>6, RemoteNoted
<1> HIDE DEF k, d
<1>8. /\ Sound(p, i) /\ p.addr = k.addr
      /\ \A c \in Side : p[c].state = k[c].state /\ p[c].remote = k[c].remote
  <2>1. CASE k[e].state = "registered"
    <3> DEFINE r == Put(k, d, GetPeers)
    <3>1. GetPeers \in Frame /\ GetPeers.type # "HANDSHAKE" /\ k \in Socket
      BY <1>7, FrameTypes, Zenon DEF Sound, Basic
    <3>2. Sound(r, i) /\ \A c \in Side : r[c].state = k[c].state
      BY <1>5, <1>7, <3>1, PutSound
    <3>3. r.addr = k.addr /\ r[e] = k[e] /\ r[d].remote = k[d].remote
      BY <1>5, <3>1, PutFacts, Zenon
    <3> HIDE DEF r
    <3>4. \A c \in Side : r[c].remote = k[c].remote
      BY <1>5, <3>3, Zenon
    <3> QED
      BY <2>1, <3>2, <3>3, <3>4, Zenon DEF r
  <2>2. CASE k[e].state # "registered"
    BY <1>7, <2>2, Zenon
  <2> QED
    BY <2>1, <2>2, Zenon
<1> HIDE DEF p
<1>9. Settle(p) = p /\ SocketOK(p, i)
  <2>1. p[e].state # "closed"
    BY <1>3, <1>7, <1>8, Zenon
  <2> QED
    BY <1>8, <2>1, Zenon DEF Settle, SocketOK, Side
<1>10. /\ p.addr = sock[i].addr /\ p[e].remote = m /\ p[d].remote = sock[i][d].remote
       /\ \A c \in Side : p[c].state = sock[i][c].state
  BY <1>4, <1>5, <1>7, <1>8, Zenon
<1>11. NetOK(sock) /\ DOMAIN sock = Slot /\ \A j \in Slot : sock[j] # None => SocketOK(sock[j], j)
  BY InvFacts, Zenon
<1>12. DOMAIN sock' = Slot /\ sock'[i] = p /\ \A j \in Slot : j # i => sock'[j] = sock[j]
  BY <1>1, <1>9, <1>11, Zenon DEF Replace
<1>13. SocketsOK(sock')
  BY <1>9, <1>11, <1>12, Zenon DEF SocketsOK
<1>14. \A c \in Side, j \in Slot : Kept(sock, sock', j, c)
  BY <1>2, <1>10, <1>12 DEF Kept, InMap
<1>15. "in" \in Side /\ "out" \in Side
  BY DEF Side
<1>16. InboundOK(sock')
  <2>1. InboundOK(sock)
    BY <1>11 DEF NetOK
  <2> QED
    BY <1>14, <1>15, <2>1, InboundKept
<1>17. OutboundOK(sock')
  <2>1. OutboundOK(sock)
    BY <1>11, Zenon DEF NetOK
  <2> QED
    BY <1>14, <1>15, <2>1, OutboundKept, Zenon
<1>18. ASSUME NEW a \in Node, NEW b \in Node, NEW x \in LinksTo(sock', a, b)
       PROVE  x \in LinksTo(sock, a, b) \/ (x = <<i, e>> /\ a = n /\ b = m)
  <2>1. PICK j \in Slot, c \in Side : x = <<j, c>>
    BY IsLinkTo
  <2>2. sock'[j] # None /\ sock'[j][c].remote = b /\ InMap(sock'[j], c) /\ At(sock'[j], j, c) = a
    BY <2>1, IsLinkTo
  <2>3. CASE j # i
    <3>1. sock'[j] = sock[j]
      BY <1>12, <2>3, Zenon
    <3>2. sock[j] # None /\ sock[j][c].remote = b /\ InMap(sock[j], c) /\ At(sock[j], j, c) = a
      BY <2>2, <3>1, Zenon
    <3> QED
      BY <2>1, <3>2, IsLinkTo, Zenon
  <2>4. CASE j = i /\ c = e
    <3>1. b = m
      BY <1>10, <1>12, <2>2, <2>4, Zenon
    <3>2. a = n
      BY <1>2, <1>10, <1>12, <2>2, <2>4, Zenon DEF At
    <3> QED
      BY <2>1, <2>4, <3>1, <3>2, Zenon
  <2>5. CASE j = i /\ c = d
    <3>1. sock[i][d].remote = b /\ InMap(sock[i], d)
      BY <1>5, <1>10, <1>12, <2>2, <2>5, Zenon DEF InMap
    <3>2. At(sock[i], i, d) = a
      BY <1>10, <1>12, <2>2, <2>5, Zenon DEF At
    <3> QED
      BY <1>2, <2>1, <2>5, <3>1, <3>2, IsLinkTo, Zenon
  <2> QED
    BY <1>5, <2>3, <2>4, <2>5, Zenon
<1>19. OneLink(sock')
  <2> SUFFICES ASSUME NEW a \in Node, NEW b \in Node, NEW x \in LinksTo(sock', a, b),
                      NEW y \in LinksTo(sock', a, b)
               PROVE  x = y
    BY Zenon DEF OneLink
  <2>1. x \in LinksTo(sock, a, b) \/ (x = <<i, e>> /\ a = n /\ b = m)
    BY <1>18, Zenon
  <2>2. y \in LinksTo(sock, a, b) \/ (y = <<i, e>> /\ a = n /\ b = m)
    BY <1>18
  <2>3. x \in LinksTo(sock, a, b) /\ y \in LinksTo(sock, a, b) => x = y
    BY <1>11, Zenon DEF NetOK, OneLink
  <2> QED
    BY <1>1, <2>1, <2>2, <2>3
<1>20. NetOK(sock')
  BY <1>12, <1>13, <1>16, <1>17, <1>19, Zenon DEF NetOK
<1> QED
  BY <1>20 DEF NetworkInv

(* An end shut for good, if it is that of the node that stops.               *)
LEMMA DownSound ==
    ASSUME NEW k, NEW i, NEW e \in Side, Sound(k, i)
    PROVE  /\ Sound(Shut(k, e, "closed"), i) /\ Shut(k, e, "closed").addr = k.addr
           /\ \A c \in Side : InMap(Shut(k, e, "closed"), c) =>
                InMap(k, c) /\ Shut(k, e, "closed")[c].remote = k[c].remote
<1> DEFINE p == Shut(k, e, "closed")
           d == Other(e)
<1>1. Basic(k, i) /\ Greeted(k, d) /\ Told(k, d) /\ k \in Socket /\ "closed" \in State
  BY Sides, Zenon DEF Sound, Basic, State
<1>2. Sound(p, i)
  BY <1>1, ShutSound
<1>3. /\ p.addr = k.addr /\ p[e].state = "closed"
      /\ p[d].state = k[d].state /\ p[d].remote = k[d].remote
  BY <1>1, ShutFacts, Zenon
<1>4. Side = {e, d}
  BY Sides
<1> HIDE DEF p, d
<1>5. \A c \in Side : InMap(p, c) => InMap(k, c) /\ p[c].remote = k[c].remote
  BY <1>3, <1>4 DEF InMap
<1> QED
  BY <1>2, <1>3, <1>5, Zenon DEF p

LEMMA HaltStep ==
    ASSUME NEW n \in Node, NetworkInv, Halt(n)
    PROVE  NetworkInv'
<1>1. /\ DOMAIN sock' = Slot
      /\ \A i \in Slot : sock'[i] = IF sock[i] = None THEN None ELSE Down(n, i)
  BY DEF Halt
<1>2. NetOK(sock) /\ \A i \in Slot : sock[i] # None => SocketOK(sock[i], i)
  BY InvFacts
<1>3. ASSUME NEW i \in Slot, sock'[i] # None
      PROVE  /\ sock[i] # None /\ SocketOK(sock'[i], i) /\ sock'[i].addr = sock[i].addr
             /\ \A e \in Side : InMap(sock'[i], e) =>
                    InMap(sock[i], e) /\ sock'[i][e].remote \in {None, sock[i][e].remote}
  <2> DEFINE k == sock[i]
             o == IF i[1] = n THEN Shut(k, "out", "closed") ELSE k
             p == IF Live(i) /\ Host[k.addr] = n THEN Shut(o, "in", "closed") ELSE o
  <2>1. k # None /\ sock'[i] = Settle(p) /\ SocketOK(k, i)
    BY <1>1, <1>2, <1>3 DEF Down
  <2>2. "in" \in Side /\ "out" \in Side /\ Other("out") = "in"
    BY Zenon DEF Side, Other
  <2>3. CASE Live(i)
    <3>1. Sound(k, i)
      BY <2>3, InvFacts
    <3>2. /\ Sound(o, i) /\ o.addr = k.addr
          /\ \A e \in Side : InMap(o, e) => InMap(k, e) /\ o[e].remote = k[e].remote
      <4>1. CASE i[1] = n
        BY <2>2, <3>1, <4>1, DownSound, Zenon
      <4>2. CASE i[1] # n
        BY <3>1, <4>2
      <4> QED
        BY <4>1, <4>2, Zenon
    <3> HIDE DEF o
    <3>3. /\ Sound(p, i) /\ p.addr = o.addr
          /\ \A e \in Side : InMap(p, e) => InMap(o, e) /\ p[e].remote = o[e].remote
      <4>1. CASE Live(i) /\ Host[k.addr] = n
        BY <2>2, <3>2, <4>1, DownSound, Zenon
      <4>2. CASE ~(Live(i) /\ Host[k.addr] = n)
        BY <3>2, <4>2, Zenon
      <4> QED
        BY <4>1, <4>2, Zenon
    <3> HIDE DEF p
    <3>4. sock'[i] = p /\ SocketOK(p, i)
      BY <1>3, <2>1, <3>3 DEF Settle, SocketOK, Side
    <3> QED
      BY <2>1, <3>2, <3>3, <3>4
  <2>4. CASE ~Live(i)
    <3>1. p = o /\ Connecting(i)
      BY <2>1, <2>4 DEF Live
    <3>2. k \in Socket /\ Fresh(k)
      BY <3>1, InvFacts, Zenon
    <3>3. k["in"].state = "closed"
      <4> HIDE DEF k, o, p
      <4>1. k["in"] = End("closed", <<>>)
        BY <3>2, Zenon DEF Fresh
      <4> QED
        BY ONLY <4>1, SMTT(30) DEF End
    <3>4. i[1] # n
      <4>1. SUFFICES ASSUME i[1] = n PROVE FALSE
        BY Zenon
      <4>2. o = Shut(k, "out", "closed") /\ "closed" \in State
        BY <4>1, Zenon DEF State
      <4> HIDE DEF o
      <4>3. o["out"].state = "closed" /\ o["in"].state = "closed"
        <5> HIDE DEF k, p
        <5> QED
          BY <2>2, <3>2, <3>3, <4>2, ShutFacts, SMTT(30)
      <4> QED
        BY <1>3, <2>1, <3>1, <4>3, Zenon DEF Settle
    <3>5. o = k
      BY <3>4
    <3>6. sock'[i] = k
      BY <1>3, <2>1, <3>1, <3>5, Zenon DEF Settle
    <3> QED
      BY <2>1, <3>6, Zenon
  <2> QED
    BY <2>3, <2>4, Zenon
<1>4. NetOK(sock')
  BY <1>1, <1>2, <1>3, Shrunk, Zenon
<1> QED
  BY <1>4 DEF NetworkInv

-----------------------------------------------------------------------------
(* The invariant, and what it says.                                          *)

LEMMA NetworkInit ==
    ASSUME Init
    PROVE  NetworkInv
<1>1. DOMAIN sock = Slot /\ \A i \in Slot : sock[i] = None
  BY DEF Init
<1>2. \A n \in Node, e \in Side : Registered(sock, n, e) = {}
  BY <1>1, Zenon DEF Registered
<1>3. \A n, m \in Node : LinksTo(sock, n, m) = {}
  BY <1>1 DEF LinksTo, IsLink, Ends
<1>4. Cardinality({}) = 0
  BY FS_EmptySet, Zenon
<1>5. SocketsOK(sock) /\ OneLink(sock)
  BY <1>1, <1>3, Zenon DEF SocketsOK, OneLink
<1>6. InboundOK(sock)
  <2> SUFFICES ASSUME NEW n \in Node
               PROVE  /\ Cardinality(Registered(sock, n, "in")) <= MaxInbound
                      /\ \A m \in Node :
                            Cardinality({i \in Registered(sock, n, "in") : i[1] = m}) <= MaxPerIp
    BY Zenon DEF InboundOK
  <2>1. Registered(sock, n, "in") = {} /\ MaxInbound \in Nat /\ MaxPerIp \in Nat
    BY <1>2, NetworkAssumption DEF Side
  <2>2. \A m \in Node : {i \in Registered(sock, n, "in") : i[1] = m} = {}
    BY <2>1, Zenon
  <2> QED
    BY <1>4, <2>1, <2>2
<1>7. OutboundOK(sock)
  <2>1. \A n \in Node : Registered(sock, n, "out") = {} /\ MaxOutbound[n] \in Nat
    BY <1>2, NetworkAssumption, Zenon DEF Side
  <2> QED
    BY <1>4, <2>1 DEF OutboundOK
<1> QED
  BY <1>1, <1>5, <1>6, <1>7 DEF NetworkInv, NetOK

LEMMA NetworkStep ==
    ASSUME NetworkInv, [Next]_vars
    PROVE  NetworkInv'
<1>1. CASE UNCHANGED sock
  BY <1>1, Zenon DEF NetworkInv
<1>2. ASSUME NEW n \in Node, Start(n) PROVE NetworkInv'
  BY <1>1, <1>2, Zenon DEF Start
<1>3. ASSUME NEW i \in Slot, NEW e \in Side, Deliver(i, e) PROVE NetworkInv'
  BY <1>3, RefuseStep, AcceptStep, DropStep, GetPeersStep, PeersStep, CloseStep DEF Deliver
<1>4. ASSUME NEW i \in Slot, Transport(i) PROVE NetworkInv'
  BY <1>3, <1>4, OpenStep, DialFailsStep, Zenon DEF Transport
<1>5. CASE Startup
  BY <1>2, <1>5, ConnectStep DEF Startup
<1>6. ASSUME NEW n \in Node, Tick(n) \/ Halt(n) PROVE NetworkInv'
  BY <1>6, TickStep, HaltStep, Zenon
<1>7. ASSUME NEW i \in Slot, SocketLost(i) \/ \E e \in Side : HandshakeTimeout(i, e)
      PROVE  NetworkInv'
  BY <1>7, LostStep, TimeoutStep, Zenon
<1>8. ASSUME NEW n \in Node, NEW m \in Node, NEW p \in Points, Penalize(n, m, p) PROVE NetworkInv'
  BY <1>8, PenalizeStep
<1>9. CASE UNCHANGED vars
  BY <1>1, <1>9 DEF vars
<1> QED
  BY <1>4, <1>5, <1>6, <1>7, <1>8, <1>9 DEF Next

(* However dials, handshakes, closes, bans, lost sockets and restarts        *)
(* interleave, the sockets stay as NetworkInv has them.                      *)
THEOREM NetworkInvariant == Spec => []NetworkInv
<1>1. Init => NetworkInv
  BY NetworkInit
<1>2. NetworkInv /\ [Next]_vars => NetworkInv'
  BY NetworkStep, Zenon
<1> QED
  BY <1>1, <1>2, PTL DEF Spec

LEMMA Bounded ==
    ASSUME NetworkInv
    PROVE  ConnectionsBounded
<1>1. OneLink(sock) /\ InboundOK(sock) /\ OutboundOK(sock)
  BY Zenon DEF NetworkInv, NetOK
<1>2. ASSUME NEW n \in Node, NEW m \in Node PROVE Cardinality(LinksTo(sock, n, m)) <= 1
  <2> DEFINE L == LinksTo(sock, n, m)
  <2>1. \A x, y \in L : x = y
    BY <1>1 DEF OneLink
  <2> HIDE DEF L
  <2>2. L = {} \/ \E x : L = {x}
    BY <2>1
  <2>3. Cardinality({}) = 0 /\ \A x : Cardinality({x}) = 1
    BY FS_EmptySet, FS_Singleton, Zenon
  <2>4. Cardinality(L) <= 1
    BY <2>2, <2>3
  <2> QED
    BY <2>4 DEF L
<1> QED
  BY <1>1, <1>2 DEF ConnectionsBounded, InboundOK, OutboundOK

(* No node ever has two links to one peer, or more inbound, per-IP or        *)
(* outbound connections than slots (P2PServer.registerPeer, the checks of    *)
(* the listening socket, outboundRoom of the dialling node).                 *)
THEOREM SlotsRespected == Spec => []ConnectionsBounded
<1>1. NetworkInv => ConnectionsBounded
  BY Bounded
<1> QED
  BY <1>1, NetworkInvariant, PTL

(* The first frame an end gets is the peer's HANDSHAKE, or the close of a    *)
(* socket that was refused.                                                  *)
THEOREM HandshakeComesFirst == Spec => []HandshakeFirst
<1>1. ASSUME NetworkInv PROVE HandshakeFirst
  <2>1. \A i \in Slot : Live(i) => Sound(sock[i], i)
    BY <1>1, InvFacts, Zenon
  <2> QED
    BY <2>1, Zenon DEF HandshakeFirst, Sound, Greeted
<1> QED
  BY <1>1, NetworkInvariant, PTL

LEMMA Mutual ==
    ASSUME NetworkInv, NEW i \in Slot, Live(i), \A e \in Side : sock[i][e].inbox = <<>>, NEW e \in Side
    PROVE  sock[i][e].state = "registered" /\ sock[i][e].remote = NodeAt(sock, i, Other(e))
<1> DEFINE k == sock[i]
           d == Other(e)
<1>1. Sound(k, i) /\ k # None /\ SocketOK(k, i) /\ ~Fresh(k)
  <2>1. Sound(k, i) /\ k # None /\ SocketOK(k, i)
    BY InvFacts, Zenon
  <2> QED
    BY <2>1 DEF Fresh, End, Live, Connecting
<1>2. d \in Side /\ Other(d) = e /\ Side = {e, d}
  BY Sides, Zenon
<1>3. ~HasClose(k[e].inbox) /\ ~HasClose(k[d].inbox) /\ k[e].inbox = <<>>
  BY <1>2 DEF HasClose
<1>4. Told(k, e) /\ Told(k, d) /\ Greeted(k, e) /\ Truthful(k, i, e)
  BY <1>1, <1>2, Zenon DEF Sound, Basic
<1>5. \E c \in Side : k[c].state # "closed"
  BY <1>1, Zenon DEF SocketOK
<1> HIDE DEF k
<1>6. k[e].state = "registered"
  <2>1. k[e].state # "registered" => k[d].state = "closed"
    BY <1>2, <1>3, <1>4, Zenon DEF Told
  <2>2. k[d].state = "closed" => k[e].state = "closed"
    BY <1>3, <1>4, Zenon DEF Told
  <2> QED
    BY <1>2, <1>5, <2>1, <2>2, Zenon
<1>7. k[e].remote # None
  BY <1>3, <1>4, <1>6, Zenon DEF Greeted
<1>8. k[e].remote = At(k, i, d)
  BY <1>4, <1>7, Zenon DEF Truthful
<1>9. NodeAt(sock, i, d) = At(k, i, d)
  BY Zenon DEF NodeAt, At, k
<1> QED
  BY <1>6, <1>8, <1>9, Zenon DEF k

(* With nothing in flight on it, a socket is registered at both ends and     *)
(* each end has the other's node as its peer: a refusal, a timeout, a ban    *)
(* and a stop all reach the other side.                                      *)
THEOREM EndsAgree == Spec => []LinksMutual
<1>1. NetworkInv => LinksMutual
  BY Mutual DEF LinksMutual
<1> QED
  BY <1>1, NetworkInvariant, PTL
=============================================================================
