---------------------------- MODULE SocketProofs ----------------------------
(* The inductive invariant of module Network and the lemmas its proof rests  *)
(* on: what the operations on a socket leave true of its two ends, and how   *)
(* connections are counted.                                                  *)
EXTENDS Network, FiniteSetTheorems, TLAPS

(* A leaf goes to the SMT solver with this limit, unless it names Zenon.     *)
USE SMTT(30)

-----------------------------------------------------------------------------
(* Below what is below a limit.                                              *)
LEMMA AtMost ==
    ASSUME NEW x \in Nat, NEW y \in Nat, NEW z \in Nat, x <= y, y <= z
    PROVE  x <= z
  OBVIOUS

-----------------------------------------------------------------------------
(* The inductive invariant.                                                  *)

Lists == {Listed(A) : A \in SUBSET Address}

Frame ==
    [type : {"HANDSHAKE"}, node : Node] \cup [type : {"GET_PEERS", "CLOSE"}]
        \cup [type : {"PEERS"}, list : Lists]

State == {"connecting", "registered", "forgotten", "closing", "closed"}

EndType == [state : State, remote : Node \cup {None}, inbox : Seq(Frame)]

Socket == [addr : Address, out : EndType, in : EndType]

(* The node at end e of the socket k in slot i.                              *)
At(k, i, e) == IF e = "out" THEN i[1] ELSE Host[k.addr]

(* A handshake on its way to end e is that of the node at the other end, and *)
(* so is the peer the end has accepted.                                      *)
Truthful(k, i, e) ==
    LET m == At(k, i, Other(e))
    IN  /\ k[e].remote \in {None, m}
        /\ \A j \in 1..Len(k[e].inbox) :
            k[e].inbox[j].type = "HANDSHAKE" => k[e].inbox[j].node = m

(* A registered end that does not know its peer yet will hear of it next.    *)
Greeted(k, e) ==
    k[e].state = "registered" /\ k[e].remote = None =>
        k[e].inbox # <<>> /\ Head(k[e].inbox).type \in {"HANDSHAKE", "CLOSE"}

HasClose(s) == \E j \in 1..Len(s) : s[j].type = "CLOSE"

(* An end that left the map, or is about to, has told the other.             *)
Told(k, e) ==
    k[Other(e)].state # "registered" => k[e].state = "closed" \/ HasClose(k[e].inbox)

Fresh(k) == k["out"] = End("connecting", <<>>) /\ k["in"] = End("closed", <<>>)

Closed(k, e) == k[e].state = "closed" => k[e] = End("closed", <<>>)

(* Of an open socket.                                                        *)
Basic(k, i) ==
    /\ k \in Socket /\ Host[k.addr] \in Node
    /\ \A e \in Side : k[e].state # "connecting" /\ Closed(k, e) /\ Truthful(k, i, e)

Sound(k, i) == Basic(k, i) /\ \A e \in Side : Greeted(k, e) /\ Told(k, e)

SocketOK(k, i) ==
    \/ k \in Socket /\ Fresh(k)
    \/ Sound(k, i) /\ \E e \in Side : k[e].state # "closed"

(* Of the sockets sk.                                                        *)
SocketsOK(sk) == \A i \in Slot : sk[i] # None => SocketOK(sk[i], i)

OneLink(sk) == \A n, m \in Node : \A x, y \in LinksTo(sk, n, m) : x = y

InboundOK(sk) ==
    \A n \in Node :
        /\ Cardinality(Registered(sk, n, "in")) <= MaxInbound
        /\ \A m \in Node : Cardinality({i \in Registered(sk, n, "in") : i[1] = m}) <= MaxPerIp

OutboundOK(sk) == \A n \in Node : Cardinality(Registered(sk, n, "out")) <= MaxOutbound[n]

NetOK(sk) == DOMAIN sk = Slot /\ SocketsOK(sk) /\ OneLink(sk) /\ InboundOK(sk) /\ OutboundOK(sk)

NetworkInv == NetOK(sock)

-----------------------------------------------------------------------------
(* Frames in an inbox.                                                       *)

LEMMA FrameTypes ==
    /\ GetPeers \in Frame /\ GetPeers.type = "GET_PEERS" /\ Close \in Frame /\ Close.type = "CLOSE"
    /\ \A n \in Node : Handshake(n) \in Frame /\ Handshake(n).type = "HANDSHAKE" /\ Handshake(n).node = n
    /\ \A l \in Lists : PeersOf(l) \in Frame /\ PeersOf(l).type = "PEERS"
    /\ \A f \in Frame : f.type = "HANDSHAKE" => f.node \in Node
  BY DEF GetPeers, Close, Handshake, PeersOf, Frame

LEMMA Appended ==
    ASSUME NEW s \in Seq(Frame), NEW f \in Frame
    PROVE  /\ Append(s, f) \in Seq(Frame) /\ Append(s, f) # <<>>
           /\ s # <<>> => Head(Append(s, f)) = Head(s)
           /\ HasClose(s) \/ f.type = "CLOSE" => HasClose(Append(s, f))
           /\ \A j \in 1..Len(Append(s, f)) :
                Append(s, f)[j] = f \/ (j \in 1..Len(s) /\ Append(s, f)[j] = s[j])
<1> DEFINE a == Append(s, f)
<1>1. /\ a \in Seq(Frame) /\ Len(a) = Len(s) + 1 /\ Len(s) \in Nat /\ a # <<>>
      /\ \A j \in 1..Len(s) : a[j] = s[j]
      /\ a[Len(s) + 1] = f
  OBVIOUS
<1>2. s # <<>> => Head(a) = Head(s)
  OBVIOUS
<1> HIDE DEF a
<1>3. Len(s) + 1 \in 1..Len(a) /\ \A j \in 1..Len(s) : j \in 1..Len(a)
  BY <1>1
<1>4. HasClose(s) \/ f.type = "CLOSE" => HasClose(a)
  BY <1>1, <1>3 DEF HasClose
<1>5. \A j \in 1..Len(a) : j \in 1..Len(s) \/ j = Len(s) + 1
  BY <1>1
<1>6. \A j \in 1..Len(a) : a[j] = f \/ (j \in 1..Len(s) /\ a[j] = s[j])
  BY <1>1, <1>5
<1> QED
  BY <1>1, <1>2, <1>4, <1>6 DEF a

LEMMA TakenFrame ==
    ASSUME NEW s \in Seq(Frame), s # <<>>
    PROVE  /\ Tail(s) \in Seq(Frame) /\ Head(s) \in Frame /\ 1 \in 1..Len(s) /\ Head(s) = s[1]
           /\ HasClose(s) /\ Head(s).type # "CLOSE" => HasClose(Tail(s))
           /\ \A j \in 1..Len(Tail(s)) : j + 1 \in 1..Len(s) /\ Tail(s)[j] = s[j + 1]
<1>1. /\ Tail(s) \in Seq(Frame) /\ Len(Tail(s)) = Len(s) - 1 /\ Len(s) \in Nat /\ Len(s) >= 1
      /\ \A j \in 1..Len(Tail(s)) : j + 1 \in 1..Len(s) /\ Tail(s)[j] = s[j + 1]
      /\ Head(s) \in Frame /\ Head(s) = s[1] /\ 1 \in 1..Len(s)
  OBVIOUS
<1>2. ASSUME HasClose(s), Head(s).type # "CLOSE" PROVE HasClose(Tail(s))
  <2>1. PICK j \in 1..Len(s) : s[j].type = "CLOSE"
    BY <1>2 DEF HasClose
  <2>2. j # 1
    BY <1>1, <1>2, <2>1
  <2>3. j - 1 \in 1..Len(Tail(s)) /\ (j - 1) + 1 = j
    BY <1>1, <2>2
  <2> QED
    BY <1>1, <2>1, <2>3 DEF HasClose
<1> QED
  BY <1>1, <1>2

-----------------------------------------------------------------------------
(* What the operations on a socket change.                                   *)

LEMMA Sides ==
    ASSUME NEW e \in Side
    PROVE  Other(e) \in Side /\ Other(Other(e)) = e /\ Other(e) # e /\ Side = {e, Other(e)}
  BY DEF Side, Other

LEMMA EndOf ==
    ASSUME NEW k \in Socket, NEW e \in Side
    PROVE  /\ k[e] \in EndType /\ k[e].state \in State /\ k[e].remote \in Node \cup {None}
           /\ k[e].inbox \in Seq(Frame)
<1>1. k[e] \in EndType
  BY DEF Socket, Side
<1> QED
  BY <1>1 DEF EndType

LEMMA NewEnd ==
    ASSUME NEW st \in State, NEW s \in Seq(Frame)
    PROVE  End(st, s) \in EndType
  BY DEF End, EndType

(* One end of a socket replaced, one field of an end replaced.               *)
WithEnd(k, e, x) == [k EXCEPT ![e] = x]
WithInbox(x, s) == [x EXCEPT !.inbox = s]
WithState(x, st) == [x EXCEPT !.state = st]
WithRemote(x, m) == [x EXCEPT !.remote = m]

LEMMA EndReplaced ==
    ASSUME NEW k \in Socket, NEW e \in Side, NEW x \in EndType
    PROVE  /\ WithEnd(k, e, x) \in Socket /\ WithEnd(k, e, x).addr = k.addr
           /\ WithEnd(k, e, x)[e] = x /\ WithEnd(k, e, x)[Other(e)] = k[Other(e)]
  BY DEF Socket, Side, Other, WithEnd

LEMMA InboxReplaced ==
    ASSUME NEW x \in EndType, NEW s \in Seq(Frame)
    PROVE  /\ WithInbox(x, s) \in EndType /\ WithInbox(x, s).inbox = s
           /\ WithInbox(x, s).state = x.state /\ WithInbox(x, s).remote = x.remote
<1>1. WithInbox(x, s) = [state |-> x.state, remote |-> x.remote, inbox |-> s]
  BY DEF EndType, WithInbox
<1>2. x.state \in State /\ x.remote \in Node \cup {None}
  BY DEF EndType
<1> QED
  BY <1>1, <1>2 DEF EndType

LEMMA StateReplaced ==
    ASSUME NEW x \in EndType, NEW st \in State
    PROVE  /\ WithState(x, st) \in EndType /\ WithState(x, st).state = st
           /\ WithState(x, st).inbox = x.inbox /\ WithState(x, st).remote = x.remote
<1>1. WithState(x, st) = [state |-> st, remote |-> x.remote, inbox |-> x.inbox]
  BY DEF EndType, WithState
<1>2. x.inbox \in Seq(Frame) /\ x.remote \in Node \cup {None}
  BY DEF EndType
<1> QED
  BY <1>1, <1>2 DEF EndType

LEMMA RemoteReplaced ==
    ASSUME NEW x \in EndType, NEW m \in Node
    PROVE  /\ WithRemote(x, m) \in EndType /\ WithRemote(x, m).remote = m
           /\ WithRemote(x, m).inbox = x.inbox /\ WithRemote(x, m).state = x.state
<1>1. WithRemote(x, m) = [state |-> x.state, remote |-> m, inbox |-> x.inbox]
  BY DEF EndType, WithRemote
<1>2. x.inbox \in Seq(Frame) /\ x.state \in State
  BY Zenon DEF EndType
<1> QED
  BY <1>1, <1>2 DEF EndType

LEMMA PutFacts ==
    ASSUME NEW k \in Socket, NEW e \in Side, NEW f \in Frame
    PROVE  LET p == Put(k, e, f)
           IN  /\ p \in Socket /\ p.addr = k.addr /\ p[Other(e)] = k[Other(e)]
               /\ p[e].state = k[e].state /\ p[e].remote = k[e].remote
               /\ k[e].state = "closed" => p[e] = k[e]
               /\ k[e].state # "closed" => p[e].inbox = Append(k[e].inbox, f)
<1> DEFINE p == Put(k, e, f)
           s == Append(k[e].inbox, f)
           x == WithInbox(k[e], s)
<1>1. CASE k[e].state = "closed"
  BY <1>1, Zenon DEF Put
<1>2. CASE k[e].state # "closed"
  <2>1. p = WithEnd(k, e, x)
    BY <1>2 DEF Put, WithEnd, WithInbox
  <2>2. s \in Seq(Frame) /\ k[e] \in EndType
    BY EndOf
  <2> HIDE DEF s
  <2>3. x \in EndType /\ x.state = k[e].state /\ x.remote = k[e].remote /\ x.inbox = s
    BY <2>2, InboxReplaced
  <2> HIDE DEF x
  <2>4. p \in Socket /\ p.addr = k.addr /\ p[e] = x /\ p[Other(e)] = k[Other(e)]
    BY <2>1, <2>3, EndReplaced
  <2> HIDE DEF p
  <2> QED
    BY <1>2, <2>3, <2>4 DEF p, s
<1> QED
  BY <1>1, <1>2

LEMMA ShutFacts ==
    ASSUME NEW k \in Socket, NEW e \in Side, NEW st \in State
    PROVE  LET p == Shut(k, e, st)
               d == Other(e)
           IN  /\ p \in Socket /\ p.addr = k.addr /\ p[e].state = st
               /\ st = "closed" => p[e] = End("closed", <<>>)
               /\ st # "closed" => p[e].remote = k[e].remote /\ p[e].inbox = k[e].inbox
               /\ p[d].state = k[d].state /\ p[d].remote = k[d].remote
               /\ k[e].state # "registered" \/ k[d].state = "closed" => p[d] = k[d]
               /\ k[e].state = "registered" /\ k[d].state # "closed" =>
                    p[d].inbox = Append(k[d].inbox, Close)
<1> DEFINE p == Shut(k, e, st)
           d == Other(e)
           told == IF k[e].state = "registered" THEN Put(k, d, Close) ELSE k
           x == IF st = "closed" THEN End(st, <<>>) ELSE WithState(told[e], st)
<1>1. p = WithEnd(told, e, x)
  BY DEF Shut, WithEnd, WithState
<1>2. d \in Side /\ Other(d) = e /\ Close \in Frame
  BY Sides, FrameTypes
<1>3. /\ told \in Socket /\ told.addr = k.addr /\ told[e] = k[e]
      /\ told[d].state = k[d].state /\ told[d].remote = k[d].remote
      /\ k[e].state # "registered" \/ k[d].state = "closed" => told[d] = k[d]
      /\ k[e].state = "registered" /\ k[d].state # "closed" => told[d].inbox = Append(k[d].inbox, Close)
  <2> HIDE DEF d
  <2>1. CASE k[e].state = "registered"
    BY <1>2, <2>1, PutFacts
  <2>2. CASE k[e].state # "registered"
    BY <2>2, Zenon
  <2> QED
    BY <2>1, <2>2, Zenon
<1> HIDE DEF told
<1>4. /\ x \in EndType /\ x.state = st
      /\ st = "closed" => x = End("closed", <<>>)
      /\ st # "closed" => x.remote = k[e].remote /\ x.inbox = k[e].inbox
  <2>1. CASE st = "closed"
    <3>1. x = End(st, <<>>) /\ <<>> \in Seq(Frame)
      BY <2>1
    <3> QED
      BY <2>1, <3>1, NewEnd, Zenon DEF End
  <2>2. CASE st # "closed"
    <3>1. k[e] \in EndType /\ x = WithState(k[e], st)
      BY <1>3, <2>2, EndOf, Zenon
    <3> QED
      BY <2>2, <3>1, StateReplaced
  <2> QED
    BY <2>1, <2>2
<1> HIDE DEF x
<1>5. /\ p \in Socket /\ p.addr = told.addr /\ p[e] = x /\ p[d] = told[d]
  BY <1>1, <1>3, <1>4, EndReplaced
<1> HIDE DEF p, d
<1> QED
  BY <1>3, <1>4, <1>5 DEF p, d

-----------------------------------------------------------------------------
(* The operations keep what an open socket has to satisfy.                   *)

LEMMA PutSound ==
    ASSUME NEW k, NEW i, NEW e \in Side, NEW f \in Frame, f.type # "HANDSHAKE", Sound(k, i)
    PROVE  /\ Sound(Put(k, e, f), i)
           /\ \A d \in Side : Put(k, e, f)[d].state = k[d].state
<1> DEFINE p == Put(k, e, f)
           d == Other(e)
<1>1. /\ k \in Socket /\ Host[k.addr] \in Node
      /\ \A c \in Side : /\ k[c].state # "connecting" /\ Closed(k, c) /\ Truthful(k, i, c)
                         /\ Greeted(k, c) /\ Told(k, c)
  BY DEF Sound, Basic
<1>2. d \in Side /\ Other(d) = e /\ d # e /\ Side = {e, d}
  BY Sides, Zenon
<1>3. /\ p \in Socket /\ p.addr = k.addr /\ p[d] = k[d]
      /\ p[e].state = k[e].state /\ p[e].remote = k[e].remote
      /\ k[e].state = "closed" => p[e] = k[e]
      /\ k[e].state # "closed" => p[e].inbox = Append(k[e].inbox, f)
  BY <1>1, PutFacts, Zenon
<1> HIDE DEF p, d
<1>4. \A c \in Side : At(p, i, c) = At(k, i, c)
  BY <1>3 DEF At
<1>5. k[e].inbox \in Seq(Frame)
  BY <1>1, EndOf, Zenon
<1>6. Closed(p, e) /\ Closed(p, d)
  BY <1>1, <1>2, <1>3, Zenon DEF Closed
<1>7. Truthful(p, i, d)
  BY <1>1, <1>2, <1>3, <1>4 DEF Truthful
<1>8. Truthful(p, i, e)
  <2>1. CASE k[e].state = "closed"
    BY <1>1, <1>2, <1>3, <1>4, <2>1, Zenon DEF Truthful, d
  <2>2. CASE k[e].state # "closed"
    <3> DEFINE m == At(k, i, d)
    <3>1. /\ k[e].remote \in {None, m}
          /\ \A j \in 1..Len(k[e].inbox) : k[e].inbox[j].type = "HANDSHAKE" => k[e].inbox[j].node = m
      BY <1>1 DEF Truthful, d
    <3>2. \A j \in 1..Len(p[e].inbox) :
            p[e].inbox[j] = f \/ (j \in 1..Len(k[e].inbox) /\ p[e].inbox[j] = k[e].inbox[j])
      <4> DEFINE q == p[e].inbox
                 s == k[e].inbox
      <4>1. q = Append(s, f) /\ s \in Seq(Frame)
        BY <1>3, <1>5, <2>2
      <4> HIDE DEF q, s
      <4>2. \A j \in 1..Len(q) : q[j] = f \/ (j \in 1..Len(s) /\ q[j] = s[j])
        BY <4>1, Appended
      <4> QED
        BY <4>2, Zenon DEF q, s
    <3>3. \A j \in 1..Len(p[e].inbox) : p[e].inbox[j].type = "HANDSHAKE" => p[e].inbox[j].node = m
      BY <3>1, <3>2, Zenon
    <3> QED
      BY <1>2, <1>3, <1>4, <3>1, <3>3, Zenon DEF Truthful, d
  <2> QED
    BY <2>1, <2>2, Zenon
<1>9. Greeted(p, e) /\ Greeted(p, d)
  <2>1. Greeted(p, d)
    BY <1>1, <1>2, <1>3 DEF Greeted
  <2>2. Greeted(p, e)
    BY <1>1, <1>3, <1>5, Appended, Zenon DEF Greeted
  <2> QED
    BY <2>1, <2>2
<1>10. Told(p, e) /\ Told(p, d)
  <2>1. Told(p, d)
    BY <1>1, <1>2, <1>3, Zenon DEF Told
  <2>2. Told(p, e)
    <3>1. Told(k, e)
      BY <1>1
    <3> QED
      BY <1>3, <1>5, <3>1, Appended, Zenon DEF Told, d
  <2> QED
    BY <2>1, <2>2
<1>11. \A c \in Side : p[c].state = k[c].state
  BY <1>2, <1>3, Zenon
<1>12. Sound(p, i)
  BY <1>1, <1>2, <1>3, <1>6, <1>7, <1>8, <1>9, <1>10, <1>11 DEF Sound, Basic
<1> QED
  BY <1>11, <1>12 DEF p

(* Closing end e, which has just lost its first frame perhaps.               *)
LEMMA ShutSound ==
    ASSUME NEW k, NEW i, NEW e \in Side, NEW st \in {"forgotten", "closing", "closed"},
           Basic(k, i), Greeted(k, Other(e)), Told(k, Other(e)),
           st # "closed" => Told(k, e) /\ k[e].state # "closed"
    PROVE  Sound(Shut(k, e, st), i)
<1> DEFINE p == Shut(k, e, st)
           d == Other(e)
<1>1. /\ k \in Socket /\ Host[k.addr] \in Node
      /\ \A c \in Side : k[c].state # "connecting" /\ Closed(k, c) /\ Truthful(k, i, c)
  BY DEF Basic
<1>2. d \in Side /\ Other(d) = e /\ d # e /\ Side = {e, d}
  BY Sides, Zenon
<1>3. /\ p \in Socket /\ p.addr = k.addr /\ p[e].state = st
      /\ st = "closed" => p[e] = End("closed", <<>>)
      /\ st # "closed" => p[e].remote = k[e].remote /\ p[e].inbox = k[e].inbox
      /\ p[d].state = k[d].state /\ p[d].remote = k[d].remote
      /\ k[e].state # "registered" \/ k[d].state = "closed" => p[d] = k[d]
      /\ k[e].state = "registered" /\ k[d].state # "closed" =>
            p[d].inbox = Append(k[d].inbox, Close)
  <2>1. st \in State
    BY DEF State
  <2> QED
    BY <1>1, <2>1, ShutFacts
<1>4. Greeted(k, d) /\ Told(k, d) /\ (st # "closed" => Told(k, e))
  BY Zenon
<1>5. Close \in Frame /\ Close.type = "CLOSE" /\ k[d].inbox \in Seq(Frame)
  BY <1>1, <1>2, FrameTypes, EndOf, Zenon
<1> HIDE DEF p, d
<1>6. At(p, i, e) = At(k, i, e) /\ At(p, i, d) = At(k, i, d)
  BY <1>3, Zenon DEF At
<1>7. Closed(p, e) /\ Closed(p, d)
  BY <1>1, <1>2, <1>3, Zenon DEF Closed
<1>8. Truthful(p, i, e)
  <2>1. Truthful(k, i, e)
    BY <1>1
  <2>2. CASE st = "closed"
    <3>1. p[e].remote = None /\ p[e].inbox = <<>>
      BY <1>3, <2>2 DEF End
    <3> QED
      BY <3>1 DEF Truthful
  <2>3. CASE st # "closed"
    BY <1>2, <1>3, <1>6, <2>1, <2>3, Zenon DEF Truthful, d
  <2> QED
    BY <2>2, <2>3, Zenon
<1>9. Truthful(p, i, d)
  <2> DEFINE m == At(k, i, e)
  <2>1. /\ k[d].remote \in {None, m}
        /\ \A j \in 1..Len(k[d].inbox) : k[d].inbox[j].type = "HANDSHAKE" => k[d].inbox[j].node = m
    BY <1>1, <1>2 DEF Truthful
  <2>2. CASE k[e].state = "registered" /\ k[d].state # "closed"
    <3>1. \A j \in 1..Len(p[d].inbox) :
            p[d].inbox[j] = Close \/ (j \in 1..Len(k[d].inbox) /\ p[d].inbox[j] = k[d].inbox[j])
      <4> DEFINE s == k[d].inbox
      <4>1. p[d].inbox = Append(s, Close) /\ s \in Seq(Frame)
        BY <1>3, <1>5, <2>2, Zenon
      <4> HIDE DEF s
      <4>2. \A j \in 1..Len(Append(s, Close)) :
                Append(s, Close)[j] = Close \/ (j \in 1..Len(s) /\ Append(s, Close)[j] = s[j])
        BY <1>5, <4>1, Appended
      <4> QED
        BY <4>1, <4>2, Zenon DEF s
    <3>2. \A j \in 1..Len(p[d].inbox) : p[d].inbox[j].type = "HANDSHAKE" => p[d].inbox[j].node = m
      BY <1>5, <2>1, <3>1, Zenon
    <3> QED
      BY <1>2, <1>3, <1>6, <2>1, <3>2, Zenon DEF Truthful
  <2>3. CASE ~(k[e].state = "registered" /\ k[d].state # "closed")
    <3>1. p[d] = k[d]
      BY <1>3, <2>3
    <3> QED
      BY <1>2, <1>6, <2>1, <3>1, Zenon DEF Truthful
  <2> QED
    BY <2>2, <2>3, Zenon
<1>10. Greeted(p, e) /\ Greeted(p, d)
  <2>1. Greeted(p, e)
    BY <1>3, Zenon DEF Greeted
  <2>2. Greeted(p, d)
    BY <1>3, <1>4, <1>5, Appended, SMTT(30) DEF Greeted
  <2> QED
    BY <2>1, <2>2, Zenon
<1>11. Told(p, e)
  BY <1>3, <1>4, Zenon DEF Told, d
<1>12. Told(p, d)
  <2>1. CASE k[e].state = "registered" /\ k[d].state # "closed"
    <3>1. HasClose(p[d].inbox)
      BY <1>3, <1>5, <2>1, Appended, Zenon
    <3> QED
      BY <3>1 DEF Told
  <2>2. CASE k[d].state = "closed"
    BY <1>3, <2>2, Zenon DEF Told
  <2>3. CASE k[e].state # "registered"
    <3>1. p[d] = k[d]
      BY <1>3, <2>3, Zenon
    <3> QED
      BY <1>2, <1>4, <2>3, <3>1, Zenon DEF Told
  <2> QED
    BY <2>1, <2>2, <2>3, Zenon
<1>13. p[e].state # "connecting" /\ p[d].state # "connecting"
  BY <1>1, <1>2, <1>3
<1>14. Sound(p, i)
  BY <1>1, <1>2, <1>3, <1>7, <1>8, <1>9, <1>10, <1>11, <1>12, <1>13, Zenon DEF Sound, Basic
<1> QED
  BY <1>14, Zenon DEF p

-----------------------------------------------------------------------------
(* The first frame is taken.                                                 *)

LEMMA TakenFacts ==
    ASSUME NEW i \in Slot, NEW e \in Side, sock[i] \in Socket, sock[i][e].inbox # <<>>
    PROVE  LET k == sock[i]
               p == Taken(i, e)
           IN  /\ p \in Socket /\ p.addr = k.addr /\ p[Other(e)] = k[Other(e)]
               /\ p[e].state = k[e].state /\ p[e].remote = k[e].remote
               /\ p[e].inbox = Tail(k[e].inbox)
<1> DEFINE k == sock[i]
           s == Tail(k[e].inbox)
           x == WithInbox(k[e], s)
           p == Taken(i, e)
<1>1. p = WithEnd(k, e, x)
  BY DEF Taken, WithEnd, WithInbox
<1>2. s \in Seq(Frame) /\ k[e] \in EndType
  BY EndOf, TakenFrame, Zenon
<1> HIDE DEF s
<1>3. x \in EndType /\ x.state = k[e].state /\ x.remote = k[e].remote /\ x.inbox = s
  BY <1>2, InboxReplaced, Zenon
<1> HIDE DEF x, p
<1>4. p \in Socket /\ p.addr = k.addr /\ p[e] = x /\ p[Other(e)] = k[Other(e)]
  BY <1>1, <1>3, EndReplaced
<1> QED
  BY <1>3, <1>4 DEF p, s

LEMMA TakenBasic ==
    ASSUME NEW i \in Slot, NEW e \in Side, Sound(sock[i], i), sock[i][e].inbox # <<>>
    PROVE  LET p == Taken(i, e)
               d == Other(e)
               h == Head(sock[i][e].inbox)
           IN  /\ Basic(p, i) /\ p[e].state # "closed"
               /\ Greeted(p, d) /\ Told(p, d)
               /\ h.type # "CLOSE" => Told(p, e)
               /\ h \in Frame
               /\ h.type = "HANDSHAKE" => h.node = At(sock[i], i, d) /\ h.node \in Node
<1> DEFINE k == sock[i]
           p == Taken(i, e)
           d == Other(e)
           h == Head(k[e].inbox)
<1>1. /\ k \in Socket /\ Host[k.addr] \in Node
      /\ \A c \in Side : /\ k[c].state # "connecting" /\ Closed(k, c) /\ Truthful(k, i, c)
                         /\ Greeted(k, c) /\ Told(k, c)
  BY DEF Sound, Basic
<1>2. d \in Side /\ Other(d) = e /\ d # e /\ Side = {e, d}
  BY Sides, Zenon
<1>3. /\ p \in Socket /\ p.addr = k.addr /\ p[d] = k[d]
      /\ p[e].state = k[e].state /\ p[e].remote = k[e].remote
      /\ p[e].inbox = Tail(k[e].inbox)
  BY <1>1, TakenFacts, Zenon
<1>4. k[e].inbox \in Seq(Frame) /\ k[e].inbox # <<>>
  BY <1>1, EndOf
<1>5. /\ h \in Frame /\ 1 \in 1..Len(k[e].inbox) /\ h = k[e].inbox[1]
      /\ HasClose(k[e].inbox) /\ h.type # "CLOSE" => HasClose(p[e].inbox)
      /\ \A j \in 1..Len(p[e].inbox) :
            j + 1 \in 1..Len(k[e].inbox) /\ p[e].inbox[j] = k[e].inbox[j + 1]
  <2> DEFINE s == k[e].inbox
  <2>1. s \in Seq(Frame) /\ s # <<>> /\ h = Head(s) /\ p[e].inbox = Tail(s)
    BY <1>3, <1>4
  <2> HIDE DEF s, p, h
  <2>2. /\ h \in Frame /\ 1 \in 1..Len(s) /\ h = s[1]
        /\ HasClose(s) /\ h.type # "CLOSE" => HasClose(Tail(s))
        /\ \A j \in 1..Len(Tail(s)) : j + 1 \in 1..Len(s) /\ Tail(s)[j] = s[j + 1]
    BY <2>1, TakenFrame, Zenon
  <2> QED
    BY <2>1, <2>2, Zenon DEF s
<1> HIDE DEF k, p, d, h
<1>6. k[e].state # "closed"
  <2>1. k[e] # End("closed", <<>>)
    BY <1>4 DEF End
  <2> QED
    BY <1>1, <2>1 DEF Closed
<1>7. At(p, i, e) = At(k, i, e) /\ At(p, i, d) = At(k, i, d)
  BY <1>3, Zenon DEF At
<1>8. /\ k[e].remote \in {None, At(k, i, d)}
      /\ \A j \in 1..Len(k[e].inbox) :
            k[e].inbox[j].type = "HANDSHAKE" => k[e].inbox[j].node = At(k, i, d)
  BY <1>1, Zenon DEF Truthful, d
<1>9. Truthful(p, i, e)
  BY <1>3, <1>5, <1>7, <1>8 DEF Truthful, d
<1>10. Truthful(p, i, d)
  BY <1>1, <1>2, <1>3, <1>7, Zenon DEF Truthful
<1>11. Closed(p, e) /\ Closed(p, d)
  BY <1>1, <1>2, <1>3, <1>6, Zenon DEF Closed
<1>12. Basic(p, i)
  BY <1>1, <1>2, <1>3, <1>9, <1>10, <1>11, Zenon DEF Basic
<1>13. Greeted(p, d) /\ Told(p, d)
  BY <1>1, <1>2, <1>3, Zenon DEF Greeted, Told
<1>14. h.type # "CLOSE" => Told(p, e)
  BY <1>1, <1>3, <1>5, <1>6, Zenon DEF Told, d
<1>15. h.type = "HANDSHAKE" => h.node = At(k, i, d) /\ h.node \in Node
  BY <1>5, <1>8, FrameTypes
<1> QED
  BY <1>3, <1>5, <1>6, <1>12, <1>13, <1>14, <1>15, Zenon DEF k, p, d, h

(* ... and the peer it announces is noted.                                   *)
LEMMA RemoteNoted ==
    ASSUME NEW i, NEW k, NEW e \in Side, NEW m \in Node,
           Basic(k, i), k[e].state # "closed", m = At(k, i, Other(e)),
           Greeted(k, Other(e)), Told(k, Other(e)), Told(k, e)
    PROVE  LET p == [k EXCEPT ![e].remote = m]
           IN  /\ Sound(p, i) /\ p.addr = k.addr /\ p[Other(e)] = k[Other(e)]
               /\ p[e].state = k[e].state /\ p[e].remote = m
<1> DEFINE p == [k EXCEPT ![e].remote = m]
           d == Other(e)
           x == WithRemote(k[e], m)
<1>1. p = WithEnd(k, e, x)
  BY Zenon DEF WithEnd, WithRemote
<1>2. k \in Socket /\ k[e] \in EndType
  BY EndOf, Zenon DEF Basic
<1>3. x \in EndType /\ x.remote = m /\ x.inbox = k[e].inbox /\ x.state = k[e].state
  BY <1>2, RemoteReplaced
<1>4. d \in Side /\ Other(d) = e /\ d # e /\ Side = {e, d}
  BY Sides, Zenon
<1> HIDE DEF x, p
<1>5. p \in Socket /\ p.addr = k.addr /\ p[e] = x /\ p[d] = k[d]
  BY <1>1, <1>2, <1>3, EndReplaced
<1>6. /\ Host[k.addr] \in Node
      /\ \A c \in Side : k[c].state # "connecting" /\ Closed(k, c) /\ Truthful(k, i, c)
  BY Zenon DEF Basic
<1>7. Greeted(k, d) /\ Told(k, d) /\ Told(k, e) /\ k[e].state # "closed" /\ m = At(k, i, d)
  BY Zenon
<1> HIDE DEF d
<1>8. At(p, i, e) = At(k, i, e) /\ At(p, i, d) = At(k, i, d)
  BY <1>5, Zenon DEF At
<1>9. Truthful(p, i, e)
  BY <1>3, <1>5, <1>6, <1>7, <1>8, Zenon DEF Truthful, d
<1>10. Truthful(p, i, d)
  BY <1>4, <1>5, <1>6, <1>8, Zenon DEF Truthful
<1>11. Closed(p, e) /\ Closed(p, d)
  BY <1>3, <1>4, <1>5, <1>6, <1>7, Zenon DEF Closed
<1>12. Basic(p, i)
  BY <1>3, <1>4, <1>5, <1>6, <1>9, <1>10, <1>11 DEF Basic
<1>13. Greeted(p, d) /\ Told(p, d) /\ Told(p, e)
  BY <1>3, <1>4, <1>5, <1>7, Zenon DEF Greeted, Told, d
<1>14. Greeted(p, e)
  BY <1>3, <1>5, NetworkAssumption, Zenon DEF Greeted
<1>15. Sound(p, i)
  BY <1>4, <1>12, <1>13, <1>14 DEF Sound
<1> QED
  BY <1>3, <1>5, <1>15 DEF p, d

-----------------------------------------------------------------------------
(* Counting.                                                                 *)

LEMMA SlotFinite == IsFiniteSet(Slot)
<1> DEFINE Of(n) == {n} \X (1..MaxSockets[n])
           Parts == {Of(n) : n \in Node}
<1>1. \A n \in Node : IsFiniteSet(Of(n))
  <2> TAKE n \in Node
  <2>1. MaxSockets[n] \in Nat
    BY NetworkAssumption
  <2> DEFINE N == {n}
             I == 1..MaxSockets[n]
  <2>2. IsFiniteSet(N) /\ IsFiniteSet(I)
    <3>1. 1 \in Int /\ MaxSockets[n] \in Int
      BY <2>1
    <3>2. IsFiniteSet(I)
      BY <3>1, FS_Interval
    <3> QED
      BY <3>2, FS_Singleton, Zenon
  <2> HIDE DEF N, I
  <2>3. IsFiniteSet(N \X I)
    BY <2>2, FS_Product, Zenon
  <2> QED
    BY <2>3 DEF N, I
<1>2. IsFiniteSet(Parts)
  <2>1. IsFiniteSet(Node)
    BY NetworkAssumption
  <2> DEFINE f == [n \in Node |-> Of(n)]
  <2> HIDE DEF Of
  <2>2. f \in [Node -> Parts] /\ \A t \in Parts : \E n \in Node : f[n] = t
    BY Zenon
  <2>3. f \in Surjection(Node, Parts)
    BY <2>2 DEF Surjection
  <2> HIDE DEF f, Parts
  <2> QED
    BY <2>1, <2>3, FS_Surjection
<1>3. \A P \in Parts : IsFiniteSet(P)
  BY <1>1
<1>4. IsFiniteSet(UNION Parts)
  BY <1>2, <1>3, FS_UNION, Zenon
<1> QED
  BY <1>4 DEF Slot

LEMMA SlotNode ==
    ASSUME NEW i \in Slot
    PROVE  i[1] \in Node
  BY DEF Slot

LEMMA Fewer ==
    ASSUME NEW S, NEW T \in SUBSET Slot, S \subseteq T
    PROVE  IsFiniteSet(S) /\ Cardinality(S) \in Nat /\ Cardinality(T) \in Nat
           /\ Cardinality(S) <= Cardinality(T)
<1>1. IsFiniteSet(T)
  BY SlotFinite, FS_Subset, Zenon
<1> QED
  BY <1>1, FS_Subset, FS_CardinalityType

LEMMA IsRegistered ==
    ASSUME NEW sk, NEW n, NEW e
    PROVE  /\ Registered(sk, n, e) \in SUBSET Slot
           /\ \A i \in Slot : i \in Registered(sk, n, e) <=>
                sk[i] # None /\ At(sk[i], i, e) = n /\ InMap(sk[i], e)
  BY Zenon DEF Registered, NodeAt, At

LEMMA IsLinkTo ==
    ASSUME NEW sk, NEW n, NEW m
    PROVE  /\ LinksTo(sk, n, m) \in SUBSET Ends
           /\ \A i \in Slot, e \in Side : <<i, e>> \in LinksTo(sk, n, m) <=>
                sk[i] # None /\ sk[i][e].remote = m /\ InMap(sk[i], e) /\ At(sk[i], i, e) = n
           /\ \A x \in LinksTo(sk, n, m) : \E i \in Slot, e \in Side : x = <<i, e>>
  BY DEF LinksTo, IsLink, NodeAt, At, Ends

(* An end on side e that is in the map of b is in that of a, for the same    *)
(* address.                                                                  *)
Kept(a, b, i, e) ==
    b[i] # None /\ InMap(b[i], e) => a[i] # None /\ b[i].addr = a[i].addr /\ InMap(a[i], e)

LEMMA RegisteredKept ==
    ASSUME NEW a, NEW b, NEW n, NEW e, NEW i \in Registered(b, n, e), Kept(a, b, i, e)
    PROVE  i \in Registered(a, n, e)
<1>1. i \in Slot /\ b[i] # None /\ At(b[i], i, e) = n /\ InMap(b[i], e)
  BY IsRegistered
<1>2. a[i] # None /\ b[i].addr = a[i].addr /\ InMap(a[i], e)
  BY <1>1, Zenon DEF Kept
<1>3. At(a[i], i, e) = n
  BY <1>1, <1>2 DEF At
<1> QED
  BY <1>1, <1>2, <1>3, IsRegistered

(* One more where there is room for it.                                      *)
LEMMA OneMore ==
    ASSUME NEW S, NEW T \in SUBSET Slot, NEW i \in Slot, NEW B \in Nat,
           \/ S \subseteq T /\ Cardinality(T) <= B
           \/ S \subseteq T \cup {i} /\ Cardinality(T) < B
    PROVE  Cardinality(S) <= B
<1> DEFINE U == T \cup {i}
<1>1. IsFiniteSet(T) /\ Cardinality(T) \in Nat
  BY Fewer, Zenon
<1>2. Cardinality(U) <= Cardinality(T) + 1
  BY <1>1, FS_AddElement
<1>3. U \in SUBSET Slot
  OBVIOUS
<1>4. S \subseteq U
  BY Zenon
<1> HIDE DEF U
<1>5. Cardinality(S) \in Nat /\ Cardinality(U) \in Nat /\ Cardinality(S) <= Cardinality(U)
  BY <1>3, <1>4, Fewer, Zenon
<1>6. CASE S \subseteq T /\ Cardinality(T) <= B
  <2>1. Cardinality(S) <= Cardinality(T)
    BY <1>6, Fewer, Zenon
  <2> QED
    BY <1>1, <1>5, <1>6, <2>1
<1>7. CASE S \subseteq T \cup {i} /\ Cardinality(T) < B
  BY <1>1, <1>2, <1>5, <1>7
<1> QED
  BY <1>6, <1>7

(* At most one new inbound connection, that of slot i, accepted by m.        *)
LEMMA InboundKept ==
    ASSUME NEW a, NEW b, NEW i \in Slot, InboundOK(a),
           \A j \in Slot : Kept(a, b, j, "in")
                \/ /\ j = i /\ Host[b[i].addr] \in Node
                   /\ LET S == Registered(a, Host[b[i].addr], "in")
                      IN  /\ Cardinality(S) < MaxInbound
                          /\ Cardinality({k \in S : k[1] = i[1]}) < MaxPerIp
    PROVE  InboundOK(b)
<1> SUFFICES ASSUME NEW n \in Node
             PROVE  /\ Cardinality(Registered(b, n, "in")) <= MaxInbound
                    /\ \A m \in Node :
                        Cardinality({k \in Registered(b, n, "in") : k[1] = m}) <= MaxPerIp
  BY Zenon DEF InboundOK
<1> DEFINE S == Registered(b, n, "in")
           T == Registered(a, n, "in")
           Of(R, m) == {k \in R : k[1] = m}
<1>1. /\ Cardinality(T) <= MaxInbound /\ \A m \in Node : Cardinality(Of(T, m)) <= MaxPerIp
      /\ MaxInbound \in Nat /\ MaxPerIp \in Nat
  BY NetworkAssumption, Zenon DEF InboundOK
<1>2. S \in SUBSET Slot /\ T \in SUBSET Slot
  BY IsRegistered
<1>3. \A j \in S : j # i => j \in T
  BY <1>2, RegisteredKept, Zenon
<1>4. CASE i \notin S \/ Kept(a, b, i, "in")
  <2>1. S \subseteq T
    BY <1>3, <1>4, RegisteredKept, Zenon
  <2> HIDE DEF S, T
  <2>2. Cardinality(S) <= MaxInbound
    BY <1>1, <1>2, <2>1, OneMore, Zenon
  <2>3. ASSUME NEW m \in Node PROVE Cardinality(Of(S, m)) <= MaxPerIp
    <3>1. Of(S, m) \subseteq Of(T, m) /\ Of(T, m) \in SUBSET Slot /\ Cardinality(Of(T, m)) <= MaxPerIp
      BY <1>1, <1>2, <2>1, Zenon
    <3> HIDE DEF Of
    <3> QED
      BY <1>1, <3>1, OneMore, Zenon
  <2> QED
    BY <2>2, <2>3, Zenon DEF S
<1>5. CASE i \in S /\ ~Kept(a, b, i, "in")
  <2>1. n = Host[b[i].addr]
    <3>1. At(b[i], i, "in") = n
      BY <1>5, IsRegistered
    <3> QED
      BY <3>1, Zenon DEF At
  <2>2. Cardinality(T) < MaxInbound /\ Cardinality(Of(T, i[1])) < MaxPerIp
    BY <1>5, <2>1, Zenon
  <2>3. S \subseteq T \cup {i}
    BY <1>3, Zenon
  <2> HIDE DEF S, T
  <2>4. Cardinality(S) <= MaxInbound
    BY <1>1, <1>2, <2>2, <2>3, OneMore, Zenon
  <2>5. ASSUME NEW m \in Node PROVE Cardinality(Of(S, m)) <= MaxPerIp
    <3>1. Of(T, m) \in SUBSET Slot /\ Cardinality(Of(T, m)) <= MaxPerIp
      BY <1>1, <1>2, Zenon
    <3>2. \/ Of(S, m) \subseteq Of(T, m)
          \/ Of(S, m) \subseteq Of(T, m) \cup {i} /\ Cardinality(Of(T, m)) < MaxPerIp
      <4>1. CASE m = i[1]
        BY <2>2, <2>3, <4>1, Zenon
      <4>2. CASE m # i[1]
        BY <2>3, <4>2
      <4> QED
        BY <4>1, <4>2, Zenon
    <3> HIDE DEF Of
    <3> QED
      BY <1>1, <3>1, <3>2, OneMore, Zenon
  <2> QED
    BY <2>4, <2>5 DEF S
<1> QED
  BY <1>4, <1>5, Zenon

LEMMA OutboundKept ==
    ASSUME NEW a, NEW b, OutboundOK(a), \A j \in Slot : Kept(a, b, j, "out")
    PROVE  OutboundOK(b)
<1> SUFFICES ASSUME NEW n \in Node PROVE Cardinality(Registered(b, n, "out")) <= MaxOutbound[n]
  BY Zenon DEF OutboundOK
<1> DEFINE S == Registered(b, n, "out")
           T == Registered(a, n, "out")
<1>1. Cardinality(T) <= MaxOutbound[n] /\ MaxOutbound[n] \in Nat
  BY NetworkAssumption DEF OutboundOK
<1>2. S \in SUBSET Slot /\ T \in SUBSET Slot
  BY IsRegistered
<1>3. S \subseteq T
  BY <1>2, RegisteredKept
<1> HIDE DEF S, T
<1>4. Cardinality(S) <= Cardinality(T) /\ Cardinality(S) \in Nat /\ Cardinality(T) \in Nat
  BY <1>2, <1>3, Fewer
<1>5. Cardinality(S) <= MaxOutbound[n]
  BY <1>1, <1>4, AtMost, Zenon
<1> QED
  BY <1>5 DEF S

(* No end learns who its peer is.                                            *)
LEMMA LinksKept ==
    ASSUME NEW a, NEW b, OneLink(a),
           \A i \in Slot : b[i] # None =>
                \A e \in Side : InMap(b[i], e) /\ b[i][e].remote # None =>
                    /\ a[i] # None /\ a[i].addr = b[i].addr
                    /\ InMap(a[i], e) /\ a[i][e].remote = b[i][e].remote
    PROVE  OneLink(b)
<1>1. ASSUME NEW n \in Node, NEW m \in Node, NEW x \in LinksTo(b, n, m) PROVE x \in LinksTo(a, n, m)
  <2>1. PICK i \in Slot, e \in Side : x = <<i, e>>
    BY IsLinkTo
  <2>2. b[i] # None /\ b[i][e].remote = m /\ InMap(b[i], e) /\ At(b[i], i, e) = n
    BY <2>1, IsLinkTo
  <2>3. a[i] # None /\ a[i].addr = b[i].addr /\ InMap(a[i], e) /\ a[i][e].remote = m
    BY <2>2, NetworkAssumption, Zenon
  <2>4. At(a[i], i, e) = n
    BY <2>2, <2>3, Zenon DEF At
  <2> QED
    BY <2>1, <2>3, <2>4, IsLinkTo, Zenon
<1> QED
  BY <1>1 DEF OneLink

-----------------------------------------------------------------------------
(* Steps in which sockets only lose.                                         *)

LEMMA Shrunk ==
    ASSUME NEW a, NEW b, NetOK(a), DOMAIN b = Slot,
           \A i \in Slot : b[i] # None =>
                /\ a[i] # None /\ SocketOK(b[i], i) /\ b[i].addr = a[i].addr
                /\ \A e \in Side : InMap(b[i], e) =>
                        InMap(a[i], e) /\ b[i][e].remote \in {None, a[i][e].remote}
    PROVE  NetOK(b)
<1>1. SocketsOK(b)
  BY Zenon DEF SocketsOK
<1>2. OneLink(b)
  <2>1. OneLink(a)
    BY Zenon DEF NetOK
  <2> QED
    BY <2>1, LinksKept
<1>3. \A e \in Side, i \in Slot : Kept(a, b, i, e)
  BY Zenon DEF Kept
<1>4. "in" \in Side /\ "out" \in Side
  BY Zenon DEF Side
<1>5. OutboundOK(b)
  <2>1. OutboundOK(a)
    BY Zenon DEF NetOK
  <2> QED
    BY <1>3, <1>4, <2>1, OutboundKept, Zenon
<1>6. InboundOK(b)
  <2>1. InboundOK(a)
    BY Zenon DEF NetOK
  <2>2. CASE Slot = {}
    <3>1. \A n \in Node : Registered(b, n, "in") = Registered(a, n, "in")
      BY <2>2 DEF Registered
    <3> QED
      BY <2>1, <3>1, Zenon DEF InboundOK
  <2>3. CASE Slot # {}
    BY <1>3, <1>4, <2>1, <2>3, InboundKept, Zenon
  <2> QED
    BY <2>2, <2>3, Zenon
<1> QED
  BY <1>1, <1>2, <1>5, <1>6, Zenon DEF NetOK

LEMMA Replaced ==
    ASSUME NEW i \in Slot, NEW k, NetworkInv, Sound(k, i), sock[i] # None, k.addr = sock[i].addr,
           \A e \in Side : InMap(k, e) =>
                InMap(sock[i], e) /\ k[e].remote \in {None, sock[i][e].remote},
           Replace(i, k)
    PROVE  NetworkInv'
<1>1. Settle(k) # None => Settle(k) = k /\ SocketOK(k, i)
  BY Zenon DEF Settle, SocketOK, Side
<1>2. DOMAIN sock = Slot /\ NetOK(sock) /\ \A j \in Slot : sock[j] # None => SocketOK(sock[j], j)
  BY Zenon DEF NetworkInv, NetOK, SocketsOK
<1>3. DOMAIN sock' = Slot /\ sock'[i] = Settle(k) /\ \A j \in Slot : j # i => sock'[j] = sock[j]
  BY <1>2 DEF Replace
<1>4. ASSUME NEW j \in Slot, sock'[j] # None
      PROVE  /\ sock[j] # None /\ SocketOK(sock'[j], j) /\ sock'[j].addr = sock[j].addr
             /\ \A e \in Side : InMap(sock'[j], e) =>
                    InMap(sock[j], e) /\ sock'[j][e].remote \in {None, sock[j][e].remote}
  <2>1. CASE j = i
    <3>1. sock'[j] = k /\ SocketOK(k, i)
      BY <1>1, <1>3, <1>4, <2>1, Zenon
    <3> QED
      BY <2>1, <3>1, Zenon
  <2>2. CASE j # i
    <3>1. sock'[j] = sock[j]
      BY <1>3, <2>2
    <3> QED
      BY <1>2, <1>4, <3>1, Zenon
  <2> QED
    BY <2>1, <2>2, Zenon
<1>5. NetOK(sock')
  BY <1>2, <1>3, <1>4, Shrunk, Zenon
<1> QED
  BY <1>5, Zenon DEF NetworkInv

LEMMA Sent ==
    ASSUME NEW a, NEW n, NEW ms, NEW f \in Frame, f.type # "HANDSHAKE", NetOK(a)
    PROVE  NetOK(Send(a, n, ms, f))
<1> DEFINE b == Send(a, n, ms, f)
           To(i) == \E e \in Side : IsLink(a, n, i, e, ms) /\ a[i][e].state = "registered"
           d(i) == Other(CHOOSE e \in Side : IsLink(a, n, i, e, ms))
<1>1. /\ DOMAIN b = Slot
      /\ \A i \in Slot : b[i] = IF To(i) THEN Put(a[i], d(i), f) ELSE a[i]
  BY DEF Send
<1>2. \A i \in Slot : a[i] # None => SocketOK(a[i], i)
  BY Zenon DEF NetOK, SocketsOK
<1>3. \A i \in Slot : To(i) => a[i] # None /\ d(i) \in Side
                               /\ \E e \in Side : a[i][e].state = "registered"
  <2>1. ASSUME NEW i \in Slot, To(i) PROVE d(i) \in Side
    <3>1. \E e \in Side : IsLink(a, n, i, e, ms)
      BY <2>1
    <3>2. (CHOOSE e \in Side : IsLink(a, n, i, e, ms)) \in Side
      BY <3>1
    <3> QED
      BY <3>2, Sides, Zenon
  <2> QED
    BY <2>1 DEF IsLink
<1> HIDE DEF b, To, d
<1>4. ASSUME NEW i \in Slot, b[i] # None
      PROVE  /\ a[i] # None /\ SocketOK(b[i], i) /\ b[i].addr = a[i].addr
             /\ \A e \in Side : InMap(b[i], e) =>
                    InMap(a[i], e) /\ b[i][e].remote \in {None, a[i][e].remote}
  <2>1. CASE ~To(i)
    <3>1. b[i] = a[i]
      BY <1>1, <2>1
    <3> QED
      BY <1>2, <1>4, <3>1, Zenon
  <2>2. CASE To(i)
    <3> DEFINE k == a[i]
               p == Put(k, d(i), f)
    <3>1. b[i] = p /\ k # None /\ d(i) \in Side /\ SocketOK(k, i)
          /\ \E e \in Side : k[e].state = "registered"
      BY <1>1, <1>2, <1>3, <2>2, Zenon
    <3>2. ~Fresh(k)
      BY <3>1 DEF Fresh, End, Side
    <3>3. Sound(k, i) /\ \E e \in Side : k[e].state # "closed"
      BY <3>1, <3>2 DEF SocketOK
    <3>4. Sound(p, i) /\ \A e \in Side : p[e].state = k[e].state
      BY <3>1, <3>3, PutSound, ZenonT(30)
    <3>5. k \in Socket
      BY <3>3, Zenon DEF Sound, Basic
    <3>6. p.addr = k.addr /\ p[Other(d(i))] = k[Other(d(i))] /\ p[d(i)].remote = k[d(i)].remote
      BY <3>1, <3>5, PutFacts, Zenon
    <3>7. Side = {d(i), Other(d(i))}
      BY <3>1, Sides, Zenon
    <3> HIDE DEF p
    <3>8. \A e \in Side : p[e].remote = k[e].remote
      BY <3>6, <3>7, Zenon
    <3>9. SocketOK(p, i)
      BY <3>3, <3>4, Zenon DEF SocketOK
    <3> QED
      BY <3>1, <3>4, <3>6, <3>8, <3>9, Zenon DEF InMap
  <2> QED
    BY <2>1, <2>2, Zenon
<1>5. NetOK(b)
  BY <1>1, <1>4, Shrunk, Zenon
<1> QED
  BY <1>5, Zenon DEF b

-----------------------------------------------------------------------------
(* Dials take free slots, no more than there is room for.                    *)

Dialled(sk, ok, slotOf) ==
    [i \in Slot |->
        IF \A a \in ok : slotOf[a] # i THEN sk[i]
        ELSE [addr |-> CHOOSE a \in ok : slotOf[a] = i,
              out |-> End("connecting", <<>>), in |-> End("closed", <<>>)]]

LEMMA DialledOK ==
    ASSUME NEW a, NEW n \in Node, NEW ok \in SUBSET Address, NEW slotOf \in Injection(ok, Free(a, n)),
           NetOK(a), IsFiniteSet(ok), Cardinality(ok) <= OutboundRoom(a, n)
    PROVE  NetOK(Dialled(a, ok, slotOf))
<1> DEFINE b == Dialled(a, ok, slotOf)
           R == {slotOf[x] : x \in ok}
<1>1. slotOf \in [ok -> Free(a, n)]
  BY DEF Injection
<1>2. R \subseteq Slot /\ \A i \in R : i[1] = n /\ a[i] = None
  BY <1>1, Zenon DEF Free
<1>3. DOMAIN b = Slot /\ \A i \in Slot : i \notin R => b[i] = a[i]
  BY Zenon DEF Dialled
<1>4. ASSUME NEW i \in R
      PROVE  \E x \in Address : b[i] = [addr |-> x, out |-> End("connecting", <<>>),
                                        in |-> End("closed", <<>>)]
  <2> DEFINE x == CHOOSE x \in ok : slotOf[x] = i
  <2>1. i \in Slot /\ \E z \in ok : slotOf[z] = i
    BY <1>2, Zenon
  <2>2. x \in Address
    BY <2>1
  <2>3. b[i] = [addr |-> x, out |-> End("connecting", <<>>), in |-> End("closed", <<>>)]
    BY <2>1, Zenon DEF Dialled
  <2> QED
    BY <2>2, <2>3, Zenon
<1>5. IsFiniteSet(R) /\ Cardinality(R) <= Cardinality(ok)
  <2>1. slotOf \in Surjection(ok, R)
    BY <1>1, Zenon DEF Surjection
  <2> HIDE DEF R
  <2> QED
    BY <2>1, FS_Surjection
<1> HIDE DEF b, R
<1>6. ASSUME NEW i \in R
      PROVE  /\ b[i] \in Socket /\ Fresh(b[i])
             /\ ~InMap(b[i], "in") /\ b[i]["out"].remote = None /\ b[i]["in"].remote = None
  <2>1. PICK x \in Address : b[i] = [addr |-> x, out |-> End("connecting", <<>>),
                                     in |-> End("closed", <<>>)]
    BY <1>4
  <2>2. End("connecting", <<>>) \in EndType /\ End("closed", <<>>) \in EndType
    <3>1. <<>> \in Seq(Frame) /\ "connecting" \in State /\ "closed" \in State
      BY DEF State
    <3> QED
      BY <3>1, NewEnd, Zenon
  <2>3. b[i] \in Socket
    BY <2>1, <2>2 DEF Socket
  <2>4. Fresh(b[i])
    BY <2>1 DEF Fresh
  <2>5. ~InMap(b[i], "in") /\ b[i]["out"].remote = None /\ b[i]["in"].remote = None
    BY <2>4 DEF Fresh, InMap, End
  <2> QED
    BY <2>3, <2>4, <2>5, Zenon
<1>7. SocketsOK(b)
  BY <1>3, <1>6, Zenon DEF SocketsOK, SocketOK, NetOK
<1>8. OneLink(b)
  <2>1. OneLink(a)
    BY Zenon DEF NetOK
  <2>2. ASSUME NEW i \in Slot, b[i] # None, NEW e \in Side, InMap(b[i], e), b[i][e].remote # None
        PROVE  /\ a[i] # None /\ a[i].addr = b[i].addr
               /\ InMap(a[i], e) /\ a[i][e].remote = b[i][e].remote
    <3>1. i \notin R
      BY <1>6, <2>2, Zenon DEF Side
    <3>2. b[i] = a[i]
      BY <1>3, <3>1, Zenon
    <3> QED
      BY <2>2, <3>2
  <2> QED
    BY <2>1, <2>2, LinksKept, ZenonT(30)
<1>9. InboundOK(b)
  <2>1. InboundOK(a)
    BY Zenon DEF NetOK
  <2>2. \A i \in Slot : Kept(a, b, i, "in")
    BY <1>3, <1>6, Zenon DEF Kept
  <2>3. CASE Slot = {}
    <3>1. \A m \in Node : Registered(b, m, "in") = Registered(a, m, "in")
      BY <2>3 DEF Registered
    <3> QED
      BY <2>1, <3>1, Zenon DEF InboundOK
  <2>4. CASE Slot # {}
    BY <2>1, <2>2, <2>4, InboundKept, Zenon
  <2> QED
    BY <2>3, <2>4, Zenon
<1>10. OutboundOK(b)
  <2> SUFFICES ASSUME NEW m \in Node PROVE Cardinality(Registered(b, m, "out")) <= MaxOutbound[m]
    BY Zenon DEF OutboundOK
  <2> DEFINE S == Registered(b, m, "out")
             T == Registered(a, m, "out")
             A == T \cup R
  <2>1. Cardinality(T) <= MaxOutbound[m] /\ MaxOutbound[m] \in Nat
    BY NetworkAssumption DEF OutboundOK, NetOK
  <2>2. S \in SUBSET Slot /\ T \in SUBSET Slot
    BY IsRegistered, Zenon
  <2>3. \A i \in S : i \notin R => i \in T
    BY <1>3, <2>2, IsRegistered
  <2>4. \A i \in S : i \in R => m = n
    <3> TAKE i \in S
    <3>1. i \in Slot /\ i \in Registered(b, m, "out")
      BY <2>2, Zenon
    <3>2. At(b[i], i, "out") = m
      BY <3>1, IsRegistered
    <3> QED
      BY <1>2, <3>2, Zenon DEF At
  <2>5. IsFiniteSet(T) /\ Cardinality(T) \in Nat
    BY <2>2, Fewer, Zenon
  <2>6. m = n => Cardinality(R) <= MaxOutbound[m] - Cardinality(T)
    <3>1. Cardinality(ok) <= MaxOutbound[n] - Cardinality(Registered(a, n, "out"))
      BY Zenon DEF OutboundRoom
    <3>2. Cardinality(ok) \in Nat /\ Cardinality(R) \in Nat
      BY <1>5, FS_CardinalityType, Zenon
    <3> HIDE DEF T
    <3> QED
      BY <1>5, <2>1, <2>5, <3>1, <3>2 DEF T
  <2> HIDE DEF S, T
  <2>7. CASE m = n
    <3>1. A \in SUBSET Slot /\ S \subseteq A
      BY <1>2, <2>2, <2>3, Zenon
    <3>2. Cardinality(A) = Cardinality(T) + Cardinality(R) - Cardinality(T \cap R)
      BY <1>5, <2>5, FS_Union
    <3>3. Cardinality(T \cap R) \in Nat /\ Cardinality(R) \in Nat
      BY <1>2, <1>5, FS_Intersection, FS_CardinalityType, Zenon
    <3> HIDE DEF A
    <3>4. Cardinality(S) <= Cardinality(A) /\ Cardinality(S) \in Nat /\ Cardinality(A) \in Nat
      BY <3>1, Fewer, Zenon
    <3>5. Cardinality(S) <= MaxOutbound[m]
      BY <2>1, <2>5, <2>6, <2>7, <3>2, <3>3, <3>4
    <3> QED
      BY <3>5, Zenon DEF S
  <2>8. CASE m # n
    <3>1. S \subseteq T
      BY <2>3, <2>4, <2>8, Zenon
    <3>2. Cardinality(S) <= Cardinality(T) /\ Cardinality(S) \in Nat
      BY <2>2, <3>1, Fewer, Zenon
    <3>3. Cardinality(S) <= MaxOutbound[m]
      BY <2>1, <2>5, <3>2
    <3> QED
      BY <3>3 DEF S
  <2> QED
    BY <2>7, <2>8, Zenon
<1>11. NetOK(b)
  BY <1>3, <1>7, <1>8, <1>9, <1>10 DEF NetOK
<1> QED
  BY <1>11, Zenon DEF b

(* What is dialled comes from the list, hence is no longer than it.          *)
LEMMA DialStep ==
    ASSUME NEW a, NEW n \in Node, NEW as, NEW bk, NetOK(a), Dial(n, as, a, bk),
           IsFiniteSet(DOMAIN as), Cardinality(DOMAIN as) <= OutboundRoom(a, n)
    PROVE  NetworkInv'
<1> DEFINE ok == {x \in Address : x \in Range(as) /\ ~Banned(n, x)}
<1>1. PICK slotOf \in Injection(ok, Free(a, n)) : sock' = Dialled(a, ok, slotOf)
  <2>1. \E o \in {ok} : \E slotOf \in Injection(o, Free(a, n)) : sock' = Dialled(a, o, slotOf)
    BY ZenonT(30) DEF Dial, Dialled
  <2> HIDE DEF ok
  <2> QED
    BY <2>1
<1>2. ok \in SUBSET Address /\ ok \subseteq Range(as)
  BY Zenon
<1> HIDE DEF ok
<1>3. IsFiniteSet(Range(as)) /\ Cardinality(Range(as)) <= Cardinality(DOMAIN as)
  <2> DEFINE f == [x \in DOMAIN as |-> as[x]]
  <2>1. f \in Surjection(DOMAIN as, Range(as))
    BY Zenon DEF Surjection, Range
  <2> HIDE DEF f
  <2> QED
    BY <2>1, FS_Surjection, Zenon
<1>4. IsFiniteSet(ok) /\ Cardinality(ok) <= Cardinality(Range(as))
  BY <1>2, <1>3, FS_Subset, Zenon
<1>5. OutboundRoom(a, n) \in Int
  <2>1. Cardinality(Registered(a, n, "out")) \in Nat
    BY IsRegistered, Fewer, Zenon
  <2>2. MaxOutbound[n] \in Nat
    BY NetworkAssumption, Zenon
  <2> QED
    BY <2>1, <2>2 DEF OutboundRoom
<1>6. Cardinality(ok) <= OutboundRoom(a, n)
  <2> DEFINE c == Cardinality(ok)
             r == Cardinality(Range(as))
             l == Cardinality(DOMAIN as)
             room == OutboundRoom(a, n)
  <2>1. c \in Nat /\ r \in Nat /\ l \in Nat /\ room \in Int
    BY <1>3, <1>4, <1>5, FS_CardinalityType, Zenon
  <2>2. c <= r /\ r <= l /\ l <= room
    BY <1>3, <1>4, Zenon
  <2> HIDE DEF c, r, l, room
  <2>3. c <= room
    BY <2>1, <2>2
  <2> QED
    BY <2>3 DEF c, room
<1>7. NetOK(sock')
  BY <1>1, <1>2, <1>4, <1>6, DialledOK
<1> QED
  BY <1>7, Zenon DEF NetworkInv

LEMMA CandidatesFit ==
    ASSUME NEW bk, NEW exclude, NEW limit \in Int
    PROVE  DOMAIN Candidates(bk, exclude, limit) \subseteq 1..limit
  BY Zenon DEF Candidates

LEMMA CandidatesStep ==
    ASSUME NEW a, NEW n \in Node, NEW bk, NetOK(a), DialCandidates(n, a, bk)
    PROVE  NetworkInv'
<1> DEFINE room == OutboundRoom(a, n)
           limit == Min({room, MaxDials})
           as == Candidates(bk, KnownAddresses(a, n) \cup dialling[n] \cup {Listen[n]}, limit)
<1>1. Dial(n, as, a, bk)
  BY Zenon DEF DialCandidates
<1>2. room \in Nat
  <2>1. Cardinality(Registered(a, n, "out")) \in Nat
    BY IsRegistered, Fewer, Zenon
  <2>2. MaxOutbound[n] \in Nat /\ Cardinality(Registered(a, n, "out")) <= MaxOutbound[n]
    BY NetworkAssumption, Zenon DEF NetOK, OutboundOK
  <2> QED
    BY <2>1, <2>2 DEF OutboundRoom
<1> HIDE DEF room
<1>3. limit \in Nat /\ limit <= room
  <2>1. MaxDials \in Nat
    BY NetworkAssumption
  <2>2. \E x \in {room, MaxDials} : \A y \in {room, MaxDials} : x <= y
    BY <1>2, <2>1
  <2>3. limit \in {room, MaxDials} /\ \A y \in {room, MaxDials} : limit <= y
    BY <2>2 DEF Min
  <2> QED
    BY <1>2, <2>1, <2>3, Zenon
<1> HIDE DEF limit
<1>4. DOMAIN as \subseteq 1..limit
  <2>1. limit \in Int
    BY <1>3
  <2> QED
    BY <2>1, CandidatesFit, Zenon
<1> HIDE DEF as
<1>5. IsFiniteSet(1..limit) /\ Cardinality(1..limit) <= limit
  <2>1. 1 \in Int /\ limit \in Int
    BY <1>3
  <2>2. IsFiniteSet(1..limit) /\ Cardinality(1..limit) = IF 1 > limit THEN 0 ELSE limit - 1 + 1
    BY <2>1, FS_Interval
  <2> QED
    BY <1>3, <2>2
<1> DEFINE D == DOMAIN as
<1>6. /\ IsFiniteSet(D) /\ Cardinality(D) <= Cardinality(1..limit)
      /\ Cardinality(D) \in Nat /\ Cardinality(1..limit) \in Nat
  BY <1>4, <1>5, FS_Subset, FS_CardinalityType, Zenon
<1>7. Cardinality(D) <= room
  <2> HIDE DEF D
  <2> QED
    BY <1>2, <1>3, <1>5, <1>6
<1> QED
  BY <1>1, <1>6, <1>7, DialStep, Zenon DEF room
=============================================================================
