------------------------ MODULE ControlChannelProofs ------------------------
(***************************************************************************)
(* The invariants of ControlChannel for any number of clients, connections *)
(* and queue pairs: the handshake runs in lock-step, a port serves one     *)
(* channel, closing frees it, and ports that are connected to each other   *)
(* have the same rings.                                                    *)
(***************************************************************************)
EXTENDS ControlChannel, SequenceTheorems, TLAPS

-----------------------------------------------------------------------------
(* Types                                                                   *)

RingIds    == [type : {"S2M", "M2S"}, index : Nat]
FromClient == {InitMsg(p) : p \in Clients} \cup {AddRegionMsg, ConnectMsg, Disconnect}
                \cup {AddRing(r) : r \in RingIds}
FromServer == {HelloMsg, AckMsg, ConnectedMsg, Disconnect}
Msgs       == FromClient \cup FromServer

PortRec == [cc : 0 .. MaxConns, tx : Seq(RingIds), rx : Seq(RingIds),
            region : {"none", "fd", "mapped"}, quit : BOOLEAN, failed : BOOLEAN]
ChanRec == [state : {"none", "open", "closed"}, bound : BOOLEAN,
            isConnected : BOOLEAN, msgQueue : Seq(FromClient)]

Typed ==
  /\ proc \in [Procs -> {"up", "dead", "panic"}]
  /\ port \in [Procs -> PortRec]
  /\ owner \in Seq(Clients) /\ Len(owner) <= MaxConns
  /\ backlog \in Seq(Conns)
  /\ cc \in [Conns -> [Sides -> ChanRec]]
  /\ net \in [Conns -> [Sides -> Seq(Msgs)]]

-----------------------------------------------------------------------------
(* The inductive invariant                                                 *)

Up(p)     == proc[p] = "up"
Made      == 1 .. Len(owner)    \* connections made so far
QueueOf(c) == cc[c]["client"].msgQueue

\* The type of the next message at an end of c, and the next one at the server's.
Kind(c, s) == IF net[c][s] = <<>> THEN "nothing" ELSE Head(net[c][s]).type
Word(c)    == Head(net[c]["server"])

Calm    == {"nothing", "Disconnect"}
Setup   == {"AddRegion", "AddRing", "Connect"}

\* Connections are made, accepted and closed in this order.
Opened ==
  /\ \A c \in Conns \ Made, s \in Sides :
       cc[c][s] = NoChannel /\ net[c][s] = <<>>
  /\ \A i \in DOMAIN backlog :
       backlog[i] \in Made /\ cc[backlog[i]]["server"] = NoChannel
  /\ \A i, j \in DOMAIN backlog : backlog[i] = backlog[j] => i = j
  /\ \A c \in Made : cc[c]["client"].state # "none" /\ cc[c]["client"].bound
  /\ \A c \in Made : cc[c]["server"].state = "none" =>
       /\ cc[c]["server"] = NoChannel /\ ~cc[c]["client"].isConnected
       /\ net[c]["client"] = <<>> /\ Kind(c, "server") \in Calm

\* What is under way: nothing at an end that has closed, Disconnect from an end
\* that has closed, and at most one other message.
Wire ==
  /\ \A c \in Conns, s \in Sides :
       cc[c][s].state = "closed" => net[c][s] = <<>>
  /\ \A c \in Conns, s \in Sides : \A i \in DOMAIN net[c][s] :
       /\ net[c][s][i] = Disconnect => cc[c][Peer(s)].state = "closed"
       /\ i # 1 => net[c][s][i] = Disconnect
  /\ \A c \in Conns : Kind(c, "client") \in Calm \/ Kind(c, "server") \in Calm
  /\ \A c \in Conns :
       /\ Kind(c, "client") \in {"Hello", "Ack", "Connected"} \cup Calm
       /\ Kind(c, "server") \in {"Init"} \cup Setup \cup Calm

\* A port and its channel refer to each other.
Linked ==
  /\ \A p \in Procs : port[p].cc # 0 =>
       /\ port[p].cc \in Made
       /\ p # Server => owner[port[p].cc] = p
       /\ p = Server => cc[port[p].cc]["server"].bound
  /\ \A c \in Made, s \in Sides :
       Up(Proc(c, s)) /\ Open(c, s) /\ cc[c][s].bound => port[Proc(c, s)].cc = c
  /\ \A c \in Made :
       Kind(c, "client") = "Ack" \/ Kind(c, "server") \in Setup
         => cc[c]["server"].bound
  /\ \A c \in Made : cc[c]["server"].isConnected => cc[c]["server"].bound
  /\ \A c \in Made :
       Kind(c, "client") = "Connected" \/ cc[c]["client"].isConnected
         => cc[c]["server"].isConnected

\* The messages of the handshake follow each other in this order.
Follows(n, a, b) ==
  \/ a = AddRegionMsg /\ b = AddRing([type |-> "S2M", index |-> 0])
  \/ \E t \in {"S2M", "M2S"}, i \in 0 .. (n - 2) :
       /\ a = AddRing([type |-> t, index |-> i])
       /\ b = AddRing([type |-> t, index |-> i + 1])
  \/ /\ a = AddRing([type |-> "S2M", index |-> n - 1])
     /\ b = AddRing([type |-> "M2S", index |-> 0])
  \/ a = AddRing([type |-> "M2S", index |-> n - 1]) /\ b = ConnectMsg

\* q is what is left of a handshake for n queue pairs.
Rest(n, q) ==
  /\ \A i \in 1 .. (Len(q) - 1) : Follows(n, q[i], q[i + 1])
  /\ q # <<>> => q[Len(q)] = ConnectMsg

\* While a message of the handshake or its Ack is under way the client's queue
\* continues behind it.
Queued ==
  \A c \in Made :
    /\ Rest(RunPairs(owner[c]), QueueOf(c))
    /\ Open(c, "client") /\ Up(Server) =>
         /\ Kind(c, "client") = "Ack" => QueueOf(c) # <<>>
         /\ Kind(c, "server") = "Init" =>
              QueueOf(c) # <<>> /\ QueueOf(c)[1] = AddRegionMsg
         /\ Kind(c, "server") \in {"AddRegion", "AddRing"} =>
              /\ QueueOf(c) # <<>>
              /\ Follows(RunPairs(owner[c]), Word(c), QueueOf(c)[1])

\* A server port with these rings is ready for message m of the handshake.
Expects(n, p, m) ==
  \/ m = AddRegionMsg /\ p.rx = <<>> /\ p.tx = <<>>
  \/ \E i \in 0 .. (n - 1) :
       /\ m = AddRing([type |-> "S2M", index |-> i])
       /\ p.rx = Rings("S2M", i) /\ p.tx = <<>>
  \/ \E i \in 0 .. (n - 1) :
       /\ m = AddRing([type |-> "M2S", index |-> i])
       /\ p.rx = Rings("S2M", n) /\ p.tx = Rings("M2S", i)
  \/ m = ConnectMsg /\ p.rx = Rings("S2M", n) /\ p.tx = Rings("M2S", n)

\* The server's port has the rings of the messages handled so far, and all of
\* them once it is connected.
ServerRings ==
  \A c \in Made :
    /\ Up(Server) /\ Open(c, "server") /\ Kind(c, "server") \in Setup =>
         Expects(RunPairs(owner[c]), port[Server], Word(c))
    /\ Up(Server) /\ Open(c, "server") /\ Kind(c, "client") = "Ack" =>
         Expects(RunPairs(owner[c]), port[Server], QueueOf(c)[1])
    /\ port[Server].cc = c /\ cc[c]["server"].isConnected =>
         /\ port[Server].region = "mapped"
         /\ port[Server].rx = Rings("S2M", RunPairs(owner[c]))
         /\ port[Server].tx = Rings("M2S", RunPairs(owner[c]))

\* The client's port has none of its rings before Hello and all of them after.
ClientRings ==
  /\ \A p \in Clients : port[p].region # "fd"
  /\ \A p \in Procs : port[p].cc = 0 => port[p].tx = <<>> /\ port[p].rx = <<>>
  /\ \A c \in Made : port[owner[c]].cc = c =>
       /\ cc[c]["server"].state = "none" \/ Kind(c, "client") = "Hello" =>
            port[owner[c]].tx = <<>> /\ port[owner[c]].rx = <<>>
       /\ (\/ Kind(c, "client") \in {"Ack", "Connected"}
           \/ Kind(c, "server") \notin Calm \/ cc[c]["client"].isConnected) =>
            /\ port[owner[c]].region = "mapped"
            /\ port[owner[c]].tx = Rings("S2M", RunPairs(owner[c]))
            /\ port[owner[c]].rx = Rings("M2S", RunPairs(owner[c]))

\* What CloseFrees says, for connections that exist.
Freed ==
  \A c \in Made, s \in Sides :
    Up(Proc(c, s)) /\ port[Proc(c, s)].cc = c /\ cc[c][s].state = "closed" =>
      port[Proc(c, s)].failed \/ port[Proc(c, s)].region = "fd"

IInv ==
  Typed /\ Opened /\ Wire /\ Linked /\ Queued /\ ServerRings /\ ClientRings /\ Freed

-----------------------------------------------------------------------------
(* Messages and sequences                                                  *)

\* The type tells the messages apart.
LEMMA MsgTypes ==
  /\ AckMsg.type = "Ack" /\ HelloMsg.type = "Hello"
  /\ AddRegionMsg.type = "AddRegion" /\ ConnectMsg.type = "Connect"
  /\ ConnectedMsg.type = "Connected" /\ Disconnect.type = "Disconnect"
  /\ \A p : InitMsg(p).type = "Init"
  /\ \A r : AddRing(r).type = "AddRing" /\ AddRing(r).ring = r
BY DEF AckMsg, HelloMsg, AddRegionMsg, ConnectMsg, ConnectedMsg, Disconnect, InitMsg,
   AddRing, Msg

\* A message is known by its type, but for the content of Init and AddRing.
LEMMA ByType ==
  ASSUME NEW m \in Msgs
  PROVE  /\ m.type = "Ack" <=> m = AckMsg
         /\ m.type = "Hello" <=> m = HelloMsg
         /\ m.type = "AddRegion" <=> m = AddRegionMsg
         /\ m.type = "Connect" <=> m = ConnectMsg
         /\ m.type = "Connected" <=> m = ConnectedMsg
         /\ m.type = "Disconnect" <=> m = Disconnect
         /\ m.type = "AddRing" => m.ring \in RingIds /\ m = AddRing(m.ring)
         /\ m.type \in {"Ack", "Hello", "AddRegion", "Connect", "Connected",
                       "Disconnect", "AddRing", "Init"}
<1>1. CASE m \in FromServer
  BY <1>1, MsgTypes DEF FromServer
<1>2. CASE m \in {AddRegionMsg, ConnectMsg, Disconnect}
  BY <1>2, MsgTypes
<1>3. CASE \E p \in Clients : m = InitMsg(p)
  BY <1>3, MsgTypes
<1>4. CASE \E r \in RingIds : m = AddRing(r)
  BY <1>4, MsgTypes
<1> QED BY <1>1, <1>2, <1>3, <1>4 DEF Msgs, FromClient

\* The rings are numbered from 0, and appending the next one extends them.
LEMMA RingsType ==
  ASSUME NEW n \in Nat, NEW type \in {"S2M", "M2S"}
  PROVE  /\ Rings(type, n) \in Seq(RingIds) /\ Len(Rings(type, n)) = n
         /\ \A i \in 1 .. n : Rings(type, n)[i] = [type |-> type, index |-> i - 1]
         /\ Rings(type, 0) = <<>>
         /\ Append(Rings(type, n), [type |-> type, index |-> n]) = Rings(type, n + 1)
<1>1. \A k \in Nat : Rings(type, k) \in Seq(RingIds) /\ Len(Rings(type, k)) = k
  BY DEF Rings, RingIds
<1>2. \A k \in Nat : \A i \in 1 .. k :
        Rings(type, k)[i] = [type |-> type, index |-> i - 1]
  BY DEF Rings
<1>3. Rings(type, 0) = <<>>
  BY <1>1
<1>4. Append(Rings(type, n), [type |-> type, index |-> n]) = Rings(type, n + 1)
  <2> DEFINE r == Rings(type, n)
             e == [type |-> type, index |-> n]
             b == Rings(type, n + 1)
  <2>1. /\ r \in Seq(RingIds) /\ Len(r) = n /\ e \in RingIds
        /\ b \in Seq(RingIds) /\ Len(b) = n + 1
    BY <1>1 DEF RingIds
  <2>2. /\ \A i \in 1 .. n : r[i] = b[i]
        /\ b[n + 1] = e
    <3>1. \A i \in 1 .. n : r[i] = [type |-> type, index |-> i - 1]
      BY <1>2
    <3>2. \A i \in 1 .. (n + 1) : b[i] = [type |-> type, index |-> i - 1]
      BY <1>2, n + 1 \in Nat
    <3>3. b[n + 1] = [type |-> type, index |-> (n + 1) - 1] /\ (n + 1) - 1 = n
      BY <3>2, n + 1 \in 1 .. (n + 1)
    <3>4. \A i \in 1 .. n : i \in 1 .. (n + 1)
      OBVIOUS
    <3> HIDE DEF r, b
    <3> QED BY <3>1, <3>2, <3>3, <3>4
  <2> HIDE DEF r, e, b
  <2>3. Append(r, e) \in Seq(RingIds) /\ Len(Append(r, e)) = n + 1
    BY <2>1
  <2>4. \A i \in 1 .. (n + 1) : Append(r, e)[i] = b[i]
    BY <2>1, <2>2
  <2>5. Append(r, e) = b
    BY <2>1, <2>3, <2>4, SeqEqual
  <2> QED BY <2>5 DEF r, e, b
<1> QED BY <1>1, <1>2, <1>3, <1>4

\* At least one queue pair is asked for.
LEMMA PairsType ==
  ASSUME NEW p \in Clients
  PROVE  RunPairs(p) \in Nat \ {0}
BY ControlAssumption DEF RunPairs, Min16, Procs

\* What parseMsg enqueues when Hello arrives is the handshake from its beginning.
LEMMA HandshakeRest ==
  ASSUME NEW n \in Nat \ {0}
  PROVE  /\ Handshake(n) \in Seq(FromClient) /\ Handshake(n) # <<>>
         /\ Handshake(n)[1] = AddRegionMsg /\ Rest(n, Handshake(n))
<1> DEFINE x == Rings("S2M", n)
           y == Rings("M2S", n)
           rings == x \o y
           mid == [i \in 1 .. 2 * n |-> AddRing(rings[i])]
           h == Handshake(n)
           S(i) == AddRing([type |-> "S2M", index |-> i])
           M(i) == AddRing([type |-> "M2S", index |-> i])
<1>1. /\ x \in Seq(RingIds) /\ Len(x) = n /\ y \in Seq(RingIds) /\ Len(y) = n
      /\ \A i \in 1 .. n : x[i] = [type |-> "S2M", index |-> i - 1]
      /\ \A i \in 1 .. n : y[i] = [type |-> "M2S", index |-> i - 1]
  BY RingsType
<1>2. /\ rings \in Seq(RingIds) /\ Len(rings) = 2 * n
      /\ \A i \in 1 .. n : rings[i] = x[i]
      /\ \A i \in (n + 1) .. (2 * n) : rings[i] = y[i - n]
  <2> HIDE DEF x, y
  <2>1. /\ rings \in Seq(RingIds) /\ Len(rings) = n + n
        /\ \A i \in 1 .. (n + n) : rings[i] = IF i <= n THEN x[i] ELSE y[i - n]
    <3>1. /\ rings \in Seq(RingIds) /\ Len(rings) = Len(x) + Len(y)
          /\ \A i \in 1 .. Len(x) + Len(y) :
               rings[i] = IF i <= Len(x) THEN x[i] ELSE y[i - Len(x)]
      BY <1>1, ConcatProperties
    <3> HIDE DEF rings
    <3> QED BY <1>1, <3>1
  <2> HIDE DEF rings
  <2> QED BY <2>1
<1>3. /\ mid \in Seq(FromClient) /\ Len(mid) = 2 * n
      /\ \A i \in 1 .. n : mid[i] = S(i - 1)
      /\ \A i \in (n + 1) .. (2 * n) : mid[i] = M(i - n - 1)
  <2> HIDE DEF x, y, rings
  <2>1. \A i \in 1 .. 2 * n : rings[i] \in RingIds
    BY <1>2
  <2>2. \A i \in 1 .. 2 * n : AddRing(rings[i]) \in FromClient
    BY <2>1 DEF FromClient
  <2>3. mid \in Seq(FromClient) /\ Len(mid) = 2 * n
    BY <2>2
  <2>4. \A i \in 1 .. n : i \in 1 .. 2 * n
    OBVIOUS
  <2>5. \A i \in (n + 1) .. (2 * n) : i \in 1 .. 2 * n /\ i - n \in 1 .. n
    OBVIOUS
  <2> QED BY <1>1, <1>2, <2>3, <2>4, <2>5
<1>4. h = <<AddRegionMsg>> \o mid \o <<ConnectMsg>>
  BY DEF Handshake
<1>5. /\ h \in Seq(FromClient) /\ Len(h) = 2 * n + 2
      /\ h[1] = AddRegionMsg /\ h[2 * n + 2] = ConnectMsg
      /\ \A i \in 2 .. (2 * n + 1) : h[i] = mid[i - 1]
  <2> HIDE DEF mid, h
  <2>1. AddRegionMsg \in FromClient /\ ConnectMsg \in FromClient
    BY DEF FromClient
  <2>2. /\ <<AddRegionMsg>> \in Seq(FromClient) /\ Len(<<AddRegionMsg>>) = 1
        /\ <<ConnectMsg>> \in Seq(FromClient) /\ Len(<<ConnectMsg>>) = 1
        /\ <<AddRegionMsg>>[1] = AddRegionMsg /\ <<ConnectMsg>>[1] = ConnectMsg
    BY <2>1
  <2> DEFINE g == <<AddRegionMsg>> \o mid
  <2>3. /\ g \in Seq(FromClient) /\ Len(g) = 1 + 2 * n
        /\ \A i \in 1 .. (1 + 2 * n) :
             g[i] = IF i <= 1 THEN <<AddRegionMsg>>[i] ELSE mid[i - 1]
    BY <1>3, <2>2, ConcatProperties
  <2>4. h = g \o <<ConnectMsg>>
    BY <1>4
  <2> HIDE DEF g
  <2>5. /\ h \in Seq(FromClient) /\ Len(h) = (1 + 2 * n) + 1
        /\ \A i \in 1 .. ((1 + 2 * n) + 1) :
             h[i] = IF i <= 1 + 2 * n THEN g[i] ELSE <<ConnectMsg>>[i - (1 + 2 * n)]
    BY <2>2, <2>3, <2>4, ConcatProperties
  <2>6. h[1] = AddRegionMsg /\ h[2 * n + 2] = ConnectMsg
    <3>1. /\ 1 \in 1 .. (1 + 2 * n) /\ 1 \in 1 .. ((1 + 2 * n) + 1)
          /\ 1 <= 1 + 2 * n /\ 1 <= 1
      OBVIOUS
    <3>5. h[1] = g[1]
      BY <2>5, <3>1
    <3>2. h[1] = g[1] /\ g[1] = <<AddRegionMsg>>[1]
      BY <2>3, <3>1, <3>5, Zenon
    <3>3. /\ 2 * n + 2 \in 1 .. ((1 + 2 * n) + 1) /\ ~(2 * n + 2 <= 1 + 2 * n)
          /\ 2 * n + 2 - (1 + 2 * n) = 1
      OBVIOUS
    <3>4. h[2 * n + 2] = <<ConnectMsg>>[1]
      BY <2>5, <3>3
    <3> QED BY <2>2, <3>2, <3>4
  <2>7. \A i \in 2 .. (2 * n + 1) : h[i] = mid[i - 1]
    BY <2>3, <2>5
  <2> QED BY <2>5, <2>6, <2>7
<1>6. /\ \A i \in 2 .. (n + 1) : h[i] = S(i - 2)
      /\ \A i \in (n + 2) .. (2 * n + 1) : h[i] = M(i - n - 2)
  <2> HIDE DEF h, mid, S, M
  <2>1. ASSUME NEW i \in 2 .. (n + 1) PROVE h[i] = S(i - 2)
    <3>1. h[i] = mid[i - 1] /\ i - 1 \in 1 .. n /\ (i - 1) - 1 = i - 2
      BY <1>5
    <3> QED BY <1>3, <3>1
  <2>2. ASSUME NEW i \in (n + 2) .. (2 * n + 1) PROVE h[i] = M(i - n - 2)
    <3>1. /\ h[i] = mid[i - 1] /\ i - 1 \in (n + 1) .. (2 * n)
          /\ (i - 1) - n - 1 = i - n - 2
      BY <1>5
    <3> QED BY <1>3, <3>1
  <2> QED BY <2>1, <2>2
<1>7. ASSUME NEW i \in 1 .. (2 * n + 1) PROVE Follows(n, h[i], h[i + 1])
  <2> HIDE DEF h
  <2>1. CASE i = 1
    <3>1. h[2] = S(0)
      BY <1>6
    <3> QED BY <1>5, <2>1, <3>1 DEF Follows
  <2>2. CASE i \in 2 .. n
    <3>1. /\ h[i] = S(i - 2) /\ h[i + 1] = S((i - 2) + 1) /\ i - 2 \in 0 .. (n - 2)
      BY <1>6, <2>2
    <3> QED BY <3>1 DEF Follows
  <2>3. CASE i = n + 1
    <3>1. h[i] = S(n - 1) /\ h[i + 1] = M(0)
      BY <1>6, <2>3
    <3> QED BY <3>1 DEF Follows
  <2>4. CASE i \in (n + 2) .. (2 * n)
    <3>1. /\ h[i] = M(i - n - 2) /\ h[i + 1] = M((i - n - 2) + 1)
          /\ i - n - 2 \in 0 .. (n - 2)
      BY <1>6, <2>4
    <3> QED BY <3>1 DEF Follows
  <2>5. CASE i = 2 * n + 1
    <3>1. h[i] = M(n - 1) /\ h[i + 1] = ConnectMsg
      BY <1>5, <1>6, <2>5
    <3> QED BY <3>1 DEF Follows
  <2> QED BY <2>1, <2>2, <2>3, <2>4, <2>5
<1> HIDE DEF h
<1>8. Rest(n, h) /\ h # <<>>
  <2>1. Len(h) - 1 = 2 * n + 1
    BY <1>5
  <2> QED BY <1>5, <1>7, <2>1 DEF Rest
<1> QED BY <1>5, <1>8 DEF h

\* Taking the first message leaves a rest, which is empty only behind Connect.
LEMMA RestTail ==
  ASSUME NEW n \in Nat \ {0}, NEW q \in Seq(FromClient), q # <<>>, Rest(n, q)
  PROVE  /\ Tail(q) \in Seq(FromClient) /\ Rest(n, Tail(q)) /\ Head(q) = q[1]
         /\ q[1] \in FromClient
         /\ q[1] # ConnectMsg => Tail(q) # <<>> /\ Follows(n, q[1], Tail(q)[1])
<1>1. /\ Tail(q) \in Seq(FromClient) /\ Len(q) \in Nat \ {0} /\ Len(Tail(q)) = Len(q) - 1
      /\ \A i \in 1 .. (Len(q) - 1) : Tail(q)[i] = q[i + 1]
      /\ Head(q) = q[1] /\ q[1] \in FromClient
  OBVIOUS
<1>2. \A i \in 1 .. (Len(Tail(q)) - 1) : Follows(n, Tail(q)[i], Tail(q)[i + 1])
  <2> SUFFICES ASSUME NEW i \in 1 .. (Len(Tail(q)) - 1)
               PROVE  Follows(n, Tail(q)[i], Tail(q)[i + 1])
    OBVIOUS
  <2>1. /\ Tail(q)[i] = q[i + 1] /\ Tail(q)[i + 1] = q[(i + 1) + 1]
        /\ i + 1 \in 1 .. (Len(q) - 1)
    BY <1>1
  <2> QED BY <2>1 DEF Rest
<1>3. Tail(q) # <<>> => Tail(q)[Len(Tail(q))] = ConnectMsg
  BY <1>1 DEF Rest
<1>4. ASSUME q[1] # ConnectMsg
      PROVE  Tail(q) # <<>> /\ Follows(n, q[1], Tail(q)[1])
  <2>1. Len(q) # 1
    BY <1>1, <1>4 DEF Rest
  <2>2. 1 \in 1 .. (Len(q) - 1) /\ Len(Tail(q)) # 0
    BY <1>1, <2>1
  <2>3. Tail(q) # <<>> /\ Tail(q)[1] = q[1 + 1]
    <3>1. Tail(q)[1] = q[1 + 1]
      BY <1>1, <2>2
    <3>2. Len(<<>>) = 0
      OBVIOUS
    <3> HIDE <1>1
    <3> QED BY <2>2, <3>1, <3>2
  <2> QED BY <2>2, <2>3 DEF Rest
<1> QED BY <1>1, <1>2, <1>3, <1>4 DEF Rest

-----------------------------------------------------------------------------
(* Initial states                                                          *)

\* Before the first connection there is nothing to violate the invariant.
LEMMA InvInit == Init => IInv
<1> SUFFICES ASSUME Init PROVE IInv
  OBVIOUS
<1> USE DEF Init
<1>1. NoPort \in PortRec /\ NoChannel \in ChanRec
  BY ControlAssumption DEF NoPort, NoChannel, PortRec, ChanRec
<1>2. Typed
  BY <1>1, ControlAssumption DEF Typed
<1>3. Made = {}
  BY DEF Made
<1>4. \A c \in Conns, s \in Sides : Kind(c, s) = "nothing"
  BY DEF Kind
<1>5. \A c \in Conns, s \in Sides : cc[c][s].state = "none"
  BY DEF NoChannel
<1>6. Opened /\ Wire
  BY <1>3, <1>4, <1>5 DEF Opened, Wire, Calm, Sides
<1>7. \A p \in Procs : port[p] = NoPort
  OBVIOUS
<1>8. Linked /\ Queued /\ ServerRings /\ ClientRings /\ Freed
  BY <1>3, <1>7 DEF Linked, Queued, ServerRings, ClientRings, Freed, NoPort, Procs
<1> QED BY <1>2, <1>6, <1>8 DEF IInv

-----------------------------------------------------------------------------
(* The shapes of steps                                                     *)

\* Ends of connections and their processes.
LEMMA Ends ==
  ASSUME Typed, NEW c \in Made, NEW s \in Sides
  PROVE  /\ c \in Conns /\ owner[c] \in Clients /\ owner[c] # Server
         /\ Proc(c, s) \in Procs /\ (Proc(c, s) = Server <=> s = "server")
         /\ Proc(c, s) = IF s = "server" THEN Server ELSE owner[c]
         /\ Peer(s) \in Sides /\ Peer(s) # s /\ Peer(Peer(s)) = s
         /\ Sides = {"client", "server"}
<1>1. c \in Conns /\ owner[c] \in Clients
  BY ControlAssumption DEF Typed, Made, Conns
<1> QED BY <1>1, ControlAssumption DEF Sides, Peer, Proc, Procs

\* What is under way after an exchange of messages.
LEMMA ExchangeNet ==
  ASSUME Typed, NEW c \in Conns, NEW s \in Sides, NEW n, NEW out, Exchange(c, s, n, out)
  PROVE  \A d \in Conns, t \in Sides :
           net'[d][t] = IF d # c THEN net[d][t]
                        ELSE IF t = s THEN SubSeq(net[c][s], n + 1, Len(net[c][s]))
                        ELSE IF cc[c][t].state = "closed" THEN net[c][t]
                        ELSE net[c][t] \o out
<1>1. Peer(s) \in Sides /\ Peer(s) # s /\ \A t \in Sides : t # s => t = Peer(s)
  BY DEF Sides, Peer
<1> QED BY <1>1 DEF Exchange, Typed

\* The handler of (c, s) took its message, left the channel as chan and the port
\* as p, and sent out, one message or none.
Took(c, s, chan, p, out) ==
  /\ c \in Made /\ s \in Sides /\ Open(c, s) /\ Up(Server) /\ Up(owner[c])
  /\ net[c][s] # <<>> /\ Kind(c, s) \notin Calm
  /\ UNCHANGED <<proc, owner, backlog>>
  /\ \A d \in Conns, t \in Sides :
       cc'[d][t] = IF d = c /\ t = s THEN chan ELSE cc[d][t]
  /\ \A x \in Procs : port'[x] = IF x = Proc(c, s) THEN p ELSE port[x]
  /\ \A d \in Conns, t \in Sides :
       net'[d][t] = IF d # c THEN net[d][t]
                    ELSE IF t = s THEN Tail(net[c][s])
                    ELSE IF cc[c][t].state = "closed" THEN <<>> ELSE out

\* The next message at either end, and what is behind it.
LEMMA Heads ==
  ASSUME Typed, NEW c \in Conns, NEW s \in Sides
  PROVE  /\ net[c][s] \in Seq(Msgs)
         /\ net[c][s] # <<>> =>
              /\ 1 \in DOMAIN net[c][s] /\ Head(net[c][s]) = net[c][s][1]
              /\ Head(net[c][s]) \in Msgs /\ Kind(c, s) = net[c][s][1].type
              /\ Tail(net[c][s]) = SubSeq(net[c][s], 2, Len(net[c][s]))
         /\ net[c][s] = <<>> => Kind(c, s) = "nothing"
<1>1. net[c][s] \in Seq(Msgs)
  BY DEF Typed
<1>2. net[c][s] # <<>> => Tail(net[c][s]) = SubSeq(net[c][s], 2, Len(net[c][s]))
  BY <1>1, TailIsSubSeq
<1> QED BY <1>1, <1>2 DEF Kind

\* Behind a message of the handshake nothing is under way to the peer.
LEMMA PeerHearsNothing ==
  ASSUME Typed, Wire, NEW c \in Conns, NEW s \in Sides, Open(c, s),
         Kind(c, s) \notin Calm
  PROVE  net[c][Peer(s)] = <<>>
<1> DEFINE t == Peer(s)
<1>1. t \in Sides /\ Peer(t) = s /\ {s, t} = {"client", "server"}
  BY DEF Peer, Sides
<1>2. Kind(c, t) \in Calm
  BY <1>1 DEF Wire
<1>3. Kind(c, t) # "Disconnect"
  <2> SUFFICES ASSUME Kind(c, t) = "Disconnect" PROVE FALSE
    OBVIOUS
  <2>1. 1 \in DOMAIN net[c][t] /\ net[c][t][1] \in Msgs /\ net[c][t][1].type = "Disconnect"
    BY <1>1, Heads
  <2>2. net[c][t][1] = Disconnect
    BY <2>1, ByType
  <2> QED BY <1>1, <2>1, <2>2 DEF Wire, Open
<1>4. net[c][t] # <<>> => Kind(c, t) # "nothing"
  <2> SUFFICES ASSUME net[c][t] # <<>> PROVE Kind(c, t) # "nothing"
    OBVIOUS
  <2>1. net[c][t][1] \in Msgs /\ Kind(c, t) = net[c][t][1].type
    BY <1>1, Heads
  <2> QED BY <2>1, ByType
<1> QED BY <1>2, <1>3, <1>4 DEF Calm

\* A handler that ends well.
LEMMA DoneTook ==
  ASSUME Typed, Wire, NEW c \in Conns, NEW s \in Sides, NEW type, NEW chan, NEW p,
         NEW out \in Seq(Msgs), type \notin Calm, Receives(c, s, type),
         Done(c, s, chan, p, out), UNCHANGED <<owner, backlog>>
  PROVE  Took(c, s, chan, p, out) /\ Kind(c, s) = type
<1>1. c \in Made
  BY DEF Receives, Made, Conns, Typed
<1>2. /\ Open(c, s) /\ Kind(c, s) = type /\ net[c][s] # <<>>
      /\ Up(Server) /\ Up(owner[c])
  BY <1>1, Ends DEF Receives, Kind, Up, Proc, Peer
<1>3. net[c][Peer(s)] = <<>>
  BY <1>2, PeerHearsNothing
<1>4. \A d \in Conns, t \in Sides :
       net'[d][t] = IF d # c THEN net[d][t]
                    ELSE IF t = s THEN SubSeq(net[c][s], 1 + 1, Len(net[c][s]))
                    ELSE IF cc[c][t].state = "closed" THEN net[c][t]
                    ELSE net[c][t] \o out
  BY ExchangeNet DEF Done
<1>5. <<>> \o out = out
  BY ConcatEmptySeq
<1>6. \A t \in Sides : t # s => net[c][t] = <<>>
  BY <1>3 DEF Sides, Peer
<1>7. \A d \in Conns, t \in Sides :
       net'[d][t] = IF d # c THEN net[d][t]
                    ELSE IF t = s THEN Tail(net[c][s])
                    ELSE IF cc[c][t].state = "closed" THEN <<>> ELSE out
  <2>1. SubSeq(net[c][s], 1 + 1, Len(net[c][s])) = Tail(net[c][s])
    BY <1>2, Heads, 1 + 1 = 2
  <2> QED BY <1>4, <1>5, <1>6, <2>1
<1>8. \A d \in Conns, t \in Sides :
       cc'[d][t] = IF d = c /\ t = s THEN chan ELSE cc[d][t]
  BY DEF Done, Typed
<1>9. \A x \in Procs : port'[x] = IF x = Proc(c, s) THEN p ELSE port[x]
  BY DEF Done, Typed
<1> QED BY <1>1, <1>2, <1>7, <1>8, <1>9 DEF Took, Done

\* Messages stay messages when they are exchanged.
LEMMA ExchangeTyped ==
  ASSUME Typed, NEW c \in Conns, NEW s \in Sides, NEW n \in Nat,
         NEW out \in Seq(Msgs), Exchange(c, s, n, out)
  PROVE  net' \in [Conns -> [Sides -> Seq(Msgs)]]
<1>1. Peer(s) \in Sides /\ Peer(s) # s
  BY DEF Sides, Peer
<1>2. \A d \in Conns, t \in Sides : net[d][t] \in Seq(Msgs)
  BY DEF Typed
<1>3. SubSeq(net[c][s], n + 1, Len(net[c][s])) \in Seq(Msgs)
  <2> DEFINE q == net[c][s]
  <2>1. q \in Seq(Msgs)
    BY <1>2
  <2> HIDE DEF q
  <2>2. \A i \in (n + 1) .. Len(q) : q[i] \in Msgs
    BY <2>1
  <2>3. SubSeq(q, n + 1, Len(q)) \in Seq(Msgs)
    BY <2>1, <2>2, SubSeqProperties
  <2> QED BY <2>3 DEF q
<1>4. net[c][Peer(s)] \o out \in Seq(Msgs)
  BY <1>1, <1>2, ConcatProperties
<1> DEFINE a == SubSeq(net[c][s], n + 1, Len(net[c][s]))
           b == IF cc[c][Peer(s)].state = "closed" THEN net[c][Peer(s)]
                ELSE net[c][Peer(s)] \o out
<1>5. a \in Seq(Msgs) /\ b \in Seq(Msgs)
  BY <1>1, <1>2, <1>3, <1>4
<1>6. net' = [net EXCEPT ![c][s] = a, ![c][Peer(s)] = b]
  BY <1>1 DEF Exchange, Typed
<1> HIDE DEF a, b
<1> QED BY <1>1, <1>5, <1>6 DEF Typed

\* A handler that ends well keeps the types.
LEMMA DoneTyped ==
  ASSUME Typed, NEW c \in Conns, NEW s \in Sides, c \in Made, NEW chan \in ChanRec,
         NEW p \in PortRec, NEW out \in Seq(Msgs), Done(c, s, chan, p, out),
         UNCHANGED <<owner, backlog>>
  PROVE  Typed'
<1>1. net' \in [Conns -> [Sides -> Seq(Msgs)]]
  BY ExchangeTyped DEF Done
<1>2. cc' \in [Conns -> [Sides -> ChanRec]]
  BY DEF Done, Typed
<1>3. port' \in [Procs -> PortRec]
  BY Ends DEF Done, Typed
<1> QED BY <1>1, <1>2, <1>3 DEF Done, Typed

\* The next messages after a handler: nothing but Disconnect where it took one,
\* the one it sent at the other end, and elsewhere as before.
LEMMA TookKinds ==
  ASSUME Typed, Wire, NEW c \in Conns, NEW s \in Sides, NEW chan, NEW p,
         NEW out \in Seq(Msgs), Took(c, s, chan, p, out)
  PROVE  /\ \A d \in Conns, t \in Sides : d # c => Kind(d, t)' = Kind(d, t)
         /\ \A d \in Conns : d # c => Word(d)' = Word(d)
         /\ Kind(c, s)' \in Calm
         /\ Kind(c, Peer(s))' = IF cc[c][Peer(s)].state = "closed" \/ out = <<>>
                               THEN "nothing" ELSE Head(out).type
         /\ s = "client" /\ cc[c]["server"].state # "closed" => Word(c)' = Head(out)
         /\ Peer(s) \in Sides /\ Peer(s) # s
<1>1. Peer(s) \in Sides /\ Peer(s) # s /\ (s = "client" => Peer(s) = "server")
  BY DEF Peer, Sides
<1>2. \A d \in Conns, t \in Sides : d # c => net'[d][t] = net[d][t]
  BY DEF Took
<1>3. net'[c][s] = Tail(net[c][s])
  BY DEF Took
<1>4. net'[c][Peer(s)] = IF cc[c][Peer(s)].state = "closed" THEN <<>> ELSE out
  BY <1>1 DEF Took
<1>5. Kind(c, s)' \in Calm
  <2>1. CASE Tail(net[c][s]) = <<>>
    BY <1>3, <2>1 DEF Kind, Calm
  <2>2. CASE Tail(net[c][s]) # <<>>
    <3> DEFINE q == net[c][s]
    <3>1. q \in Seq(Msgs) /\ q # <<>>
      BY Heads DEF Took
    <3>2. Head(Tail(q)) = q[2] /\ 2 \in DOMAIN q
      <4> HIDE DEF q
      <4> QED BY <2>2, <3>1 DEF q
    <3>3. q[2] = Disconnect
      BY <3>2 DEF Wire
    <3> QED BY <1>3, <2>2, <3>2, <3>3, MsgTypes DEF Kind, Calm
  <2> QED BY <2>1, <2>2
<1>6. Sides = {"client", "server"}
  BY DEF Sides
<1> QED BY <1>1, <1>2, <1>4, <1>5, <1>6 DEF Kind, Word

\* The end that sends out may send these.
Allowed(s) ==
  IF s = "client" THEN {"Init"} \cup Setup ELSE {"Hello", "Ack", "Connected"}

\* A handler that ends well takes part in an accepted connection.
LEMMA TookAccepted ==
  ASSUME Typed, Opened, NEW c \in Conns, NEW s \in Sides, NEW chan, NEW p, NEW out,
         Took(c, s, chan, p, out)
  PROVE  c \in Made /\ cc[c]["server"].state # "none"
BY DEF Took, Opened, Sides, Open, Kind, Calm

\* ... and leaves the order of accepting and closing alone.
LEMMA TookOpened ==
  ASSUME Typed, Opened, Wire, NEW c \in Conns, NEW s \in Sides, NEW chan \in ChanRec,
         NEW p, NEW out \in Seq(Msgs), Took(c, s, chan, p, out), chan.state = "open",
         s = "client" => chan.bound
  PROVE  Opened'
<1>1. UNCHANGED <<owner, backlog>> /\ c \in Made /\ Made' = Made
  BY DEF Took, Made
<1>2. cc[c]["server"].state # "none" /\ cc'[c]["server"].state # "none"
  <2>1. cc[c]["server"].state # "none"
    BY TookAccepted
  <2>2. cc'[c]["server"] = IF s = "server" THEN chan ELSE cc[c]["server"]
    BY DEF Took, Sides
  <2> QED BY <2>1, <2>2
<1>3. \A d \in Conns, t \in Sides : d # c => cc'[d][t] = cc[d][t] /\ net'[d][t] = net[d][t]
  BY DEF Took
<1>4. \A d \in Conns, t \in Sides : d # c => Kind(d, t)' = Kind(d, t)
  BY TookKinds
<1>5. \A i \in DOMAIN backlog : backlog[i] \in Made /\ backlog[i] # c
  BY <1>2 DEF Opened, NoChannel
<1>6. Made \subseteq Conns /\ "client" \in Sides /\ "server" \in Sides
  BY ControlAssumption DEF Made, Conns, Sides, Typed
<1>7. cc'[c]["client"].state # "none" /\ cc'[c]["client"].bound
  BY <1>1, <1>6 DEF Took, Opened
<1> QED BY <1>1, <1>2, <1>3, <1>4, <1>5, <1>6, <1>7 DEF Opened

\* ... and keeps the connection in lock-step.
LEMMA TookWire ==
  ASSUME Typed, Wire, NEW c \in Conns, NEW s \in Sides, NEW chan \in ChanRec,
         NEW p, NEW out \in Seq(Msgs), Took(c, s, chan, p, out), chan.state = "open",
         out # <<>> => Len(out) = 1 /\ Head(out).type \in Allowed(s)
  PROVE  Wire'
<1>1. Peer(s) \in Sides /\ Peer(s) # s /\ Peer(Peer(s)) = s
      /\ \A t \in Sides : t = s \/ t = Peer(s)
  BY DEF Peer, Sides
<1>2. \A d \in Conns, t \in Sides : cc'[d][t].state = cc[d][t].state
  BY DEF Took, Open
<1>3. \A d \in Conns, t \in Sides : d # c => net'[d][t] = net[d][t]
  BY DEF Took
<1>4. /\ net'[c][s] = Tail(net[c][s])
      /\ net'[c][Peer(s)] = IF cc[c][Peer(s)].state = "closed" THEN <<>> ELSE out
  BY <1>1 DEF Took
<1>5. \A d \in Conns, t \in Sides :
        cc'[d][t].state = "closed" => net'[d][t] = <<>>
  BY <1>1, <1>2, <1>3, <1>4 DEF Wire, Took, Open
<1>6. \A i \in DOMAIN net'[c][s] : net'[c][s][i] = Disconnect /\ cc[c][Peer(s)].state = "closed"
  <2> DEFINE q == net[c][s]
  <2>1. q \in Seq(Msgs) /\ q # <<>>
    BY Heads DEF Took
  <2>2. \A i \in DOMAIN Tail(q) : Tail(q)[i] = q[i + 1] /\ i + 1 \in DOMAIN q /\ i + 1 # 1
    <3> HIDE DEF q
    <3> QED BY <2>1
  <2> QED BY <1>4, <2>2 DEF Wire
<1>7. \A i \in DOMAIN net'[c][Peer(s)] : i = 1 /\ net'[c][Peer(s)][i] # Disconnect
  <2>1. out # <<>> => out[1] # Disconnect /\ DOMAIN out = {1}
    BY MsgTypes DEF Allowed, Setup
  <2> QED BY <1>4, <2>1
<1>8. \A d \in Conns, t \in Sides : \A i \in DOMAIN net'[d][t] :
        /\ net'[d][t][i] = Disconnect => cc'[d][Peer(t)].state = "closed"
        /\ i # 1 => net'[d][t][i] = Disconnect
  <2> SUFFICES ASSUME NEW d \in Conns, NEW t \in Sides, NEW i \in DOMAIN net'[d][t]
               PROVE  /\ net'[d][t][i] = Disconnect => cc'[d][Peer(t)].state = "closed"
                      /\ i # 1 => net'[d][t][i] = Disconnect
    OBVIOUS
  <2>1. Peer(t) \in Sides
    BY DEF Peer, Sides
  <2>2. CASE d # c
    BY <1>2, <1>3, <2>1, <2>2 DEF Wire
  <2>3. CASE d = c /\ t = s
    BY <1>1, <1>2, <1>6, <2>3
  <2>4. CASE d = c /\ t = Peer(s)
    BY <1>7, <2>4
  <2> QED BY <1>1, <2>2, <2>3, <2>4
<1>9. \A d \in Conns :
        /\ Kind(d, "client")' \in Calm \/ Kind(d, "server")' \in Calm
        /\ Kind(d, "client")' \in {"Hello", "Ack", "Connected"} \cup Calm
        /\ Kind(d, "server")' \in {"Init"} \cup Setup \cup Calm
  <2> SUFFICES ASSUME NEW d \in Conns
               PROVE  /\ Kind(d, "client")' \in Calm \/ Kind(d, "server")' \in Calm
                      /\ Kind(d, "client")' \in {"Hello", "Ack", "Connected"} \cup Calm
                      /\ Kind(d, "server")' \in {"Init"} \cup Setup \cup Calm
    OBVIOUS
  <2>1. CASE d # c
    BY <2>1, TookKinds DEF Wire, Sides
  <2>2. CASE d = c /\ s = "client"
    BY <2>2, TookKinds DEF Allowed, Peer, Calm
  <2>3. CASE d = c /\ s = "server"
    BY <2>3, TookKinds DEF Allowed, Peer, Calm
  <2> QED BY <2>1, <2>2, <2>3 DEF Sides
<1> QED BY <1>5, <1>8, <1>9 DEF Wire

\* The rings of a client port after Hello, and of a server port after Connect.
ClientFull(n, p) ==
  p.region = "mapped" /\ p.tx = Rings("S2M", n) /\ p.rx = Rings("M2S", n)
ServerFull(n, p) ==
  p.region = "mapped" /\ p.rx = Rings("S2M", n) /\ p.tx = Rings("M2S", n)

\* What a handler must leave behind for the invariant.
Proper(c, s, chan, p, out) ==
  LET n == RunPairs(owner[c]) IN
  /\ chan.state = "open" /\ chan.bound /\ p.cc = c /\ port[Proc(c, s)].cc \in {0, c}
  /\ out # <<>> => Len(out) = 1 /\ Head(out).type \in Allowed(s)
  /\ s = "client" =>
       /\ ClientFull(n, p) /\ Rest(n, chan.msgQueue)
       /\ chan.isConnected => cc[c]["server"].isConnected
       /\ out # <<>> =>
            /\ Head(out).type = "Init" =>
                 chan.msgQueue # <<>> /\ chan.msgQueue[1] = AddRegionMsg
            /\ Head(out).type \in {"AddRegion", "AddRing"} =>
                 chan.msgQueue # <<>> /\ Follows(n, Head(out), chan.msgQueue[1])
            /\ Head(out).type \in Setup =>
                 /\ cc[c]["server"].bound
                 /\ Open(c, "server") => Expects(n, port[Server], Head(out))
  /\ s = "server" =>
       /\ cc[c]["server"].isConnected => chan.isConnected
       /\ chan.isConnected => ServerFull(n, p)
       /\ out # <<>> =>
            /\ Head(out).type # "Hello"
            /\ Head(out).type = "Connected" => chan.isConnected
            /\ Head(out).type = "Ack" =>
                 /\ Kind(c, "server") \in {"Init", "AddRegion", "AddRing"}
                 /\ Open(c, "client") => Expects(n, p, QueueOf(c)[1])

\* A proper handler keeps ports and channels referring to each other.
LEMMA TookLinked ==
  ASSUME Typed, Opened, Wire, Linked, Freed, NEW c \in Conns, NEW s \in Sides,
         NEW chan \in ChanRec, NEW p \in PortRec, NEW out \in Seq(Msgs),
         Took(c, s, chan, p, out), Proper(c, s, chan, p, out)
  PROVE  Linked' /\ Freed'
<1>1. c \in Made /\ UNCHANGED <<owner, proc>> /\ Made' = Made /\ Made \subseteq Conns
  BY ControlAssumption DEF Took, Made, Conns, Typed
<1>2. \A d \in Conns, t \in Sides :
        cc'[d][t] = IF d = c /\ t = s THEN chan ELSE cc[d][t]
  BY DEF Took
<1>3. \A x \in Procs : port'[x] = IF x = Proc(c, s) THEN p ELSE port[x]
  BY DEF Took
<1>4. chan.state = "open" /\ chan.bound /\ p.cc = c /\ port[Proc(c, s)].cc \in {0, c}
  BY DEF Proper
<1>5. \A d \in Made, t \in Sides :
        /\ Proc(d, t) \in Procs /\ (Proc(d, t) = Server <=> t = "server")
        /\ Proc(d, t) = IF t = "server" THEN Server ELSE owner[d]
        /\ Proc(d, t)' = Proc(d, t) /\ d # 0
  BY <1>1, Ends DEF Proc, Conns
<1>6. Sides = {"client", "server"} /\ Server \in Procs
  BY DEF Sides, Procs
<1>7. \A x \in Procs : port'[x].cc # 0 =>
        /\ port'[x].cc \in Made
        /\ x # Server => owner[port'[x].cc] = x
        /\ x = Server => cc'[port'[x].cc]["server"].bound
  BY <1>1, <1>2, <1>3, <1>4, <1>5, <1>6 DEF Linked
<1>8. \A d \in Made, t \in Sides :
        proc[Proc(d, t)] = "up" /\ cc'[d][t].state = "open" /\ cc'[d][t].bound
          => port'[Proc(d, t)].cc = d
  BY <1>1, <1>2, <1>3, <1>4, <1>5, <1>6 DEF Linked, Up, Open
<1>9. \A d \in Made :
        Kind(d, "client")' = "Ack" \/ Kind(d, "server")' \in Setup
          => cc'[d]["server"].bound
  <2> SUFFICES ASSUME NEW d \in Made,
                      Kind(d, "client")' = "Ack" \/ Kind(d, "server")' \in Setup
               PROVE  cc'[d]["server"].bound
    OBVIOUS
  <2>1. CASE d # c
    BY <1>1, <1>2, <1>6, <2>1, TookKinds DEF Linked
  <2>2. CASE d = c /\ s = "server"
    BY <1>1, <1>2, <1>4, <2>2
  <2>3. CASE d = c /\ s = "client"
    <3>1. cc'[c]["server"] = cc[c]["server"]
      BY <1>2, <1>6, <2>3
    <3>2. Kind(c, "client")' \in Calm
      BY <2>3, TookKinds
    <3>3. Kind(c, "server")' \in Setup => out # <<>> /\ Head(out).type \in Setup
      BY <2>3, TookKinds DEF Peer, Setup
    <3> QED BY <2>3, <3>1, <3>2, <3>3 DEF Proper, Calm
  <2> QED BY <1>6, <2>1, <2>2, <2>3
<1>10. \A d \in Made : cc'[d]["server"].isConnected => cc'[d]["server"].bound
  BY <1>1, <1>2, <1>4, <1>6 DEF Linked
<1>11. \A d \in Made :
        Kind(d, "client")' = "Connected" \/ cc'[d]["client"].isConnected
          => cc'[d]["server"].isConnected
  <2> SUFFICES ASSUME NEW d \in Made,
                 Kind(d, "client")' = "Connected" \/ cc'[d]["client"].isConnected
               PROVE  cc'[d]["server"].isConnected
    OBVIOUS
  <2>1. CASE d # c
    BY <1>1, <1>2, <1>6, <2>1, TookKinds DEF Linked
  <2>2. CASE d = c /\ s = "server"
    <3>1. cc'[c]["server"] = chan /\ cc'[c]["client"] = cc[c]["client"]
      BY <1>2, <1>6, <2>2
    <3>2. Kind(c, "client")' = "Connected" => out # <<>> /\ Head(out).type = "Connected"
      BY <2>2, TookKinds DEF Peer
    <3> QED BY <1>1, <2>2, <3>1, <3>2 DEF Proper, Linked
  <2>3. CASE d = c /\ s = "client"
    <3>1. cc'[c]["server"] = cc[c]["server"] /\ cc'[c]["client"] = chan
      BY <1>2, <1>6, <2>3
    <3>2. Kind(c, "client")' \in Calm
      BY <2>3, TookKinds
    <3> QED BY <2>3, <3>1, <3>2 DEF Proper, Calm
  <2> QED BY <1>6, <2>1, <2>2, <2>3
<1>12. Linked'
  BY <1>1, <1>5, <1>7, <1>8, <1>9, <1>10, <1>11 DEF Linked, Up, Open
<1>13. Freed'
  <2> SUFFICES ASSUME NEW d \in Made, NEW t \in Sides, proc[Proc(d, t)] = "up",
                      port'[Proc(d, t)].cc = d, cc'[d][t].state = "closed"
               PROVE  port'[Proc(d, t)].failed \/ port'[Proc(d, t)].region = "fd"
    BY <1>1, <1>5 DEF Freed, Up
  <2>1. d # c \/ t # s
    BY <1>1, <1>2, <1>4
  <2>2. Proc(d, t) # Proc(c, s)
    BY <1>1, <1>3, <1>4, <1>5, <1>6, <2>1
  <2>3. port'[Proc(d, t)] = port[Proc(d, t)] /\ cc'[d][t] = cc[d][t]
    BY <1>1, <1>2, <1>3, <1>5, <2>1, <2>2
  <2> QED BY <2>3 DEF Freed, Up
<1> QED BY <1>12, <1>13

\* A proper handler leaves queue and rings where the next message expects them.
LEMMA TookRings ==
  ASSUME Typed, Opened, Wire, Linked, Queued, ServerRings, ClientRings,
         NEW c \in Conns, NEW s \in Sides,
         NEW chan \in ChanRec, NEW p \in PortRec, NEW out \in Seq(Msgs),
         Took(c, s, chan, p, out), Proper(c, s, chan, p, out)
  PROVE  Queued' /\ ServerRings' /\ ClientRings'
<1>1. c \in Made /\ UNCHANGED <<owner, proc>> /\ Made' = Made /\ Made \subseteq Conns
  BY ControlAssumption DEF Took, Made, Conns, Typed
<1>2. \A d \in Conns, t \in Sides :
        cc'[d][t] = IF d = c /\ t = s THEN chan ELSE cc[d][t]
  BY DEF Took
<1>3. \A x \in Procs : port'[x] = IF x = Proc(c, s) THEN p ELSE port[x]
  BY DEF Took
<1>4. /\ chan.state = "open" /\ chan.bound /\ p.cc = c /\ port[Proc(c, s)].cc \in {0, c}
      /\ Open(c, s) /\ Up(Server) /\ Up(owner[c])
  BY DEF Proper, Took
<1>5. \A d \in Made :
        owner[d] \in Clients /\ owner[d] \in Procs /\ owner[d] # Server /\ d # 0
  BY <1>1, Ends DEF Conns, Procs, Sides
<1>6. Sides = {"client", "server"} /\ Server \in Procs /\ Clients \subseteq Procs
  BY DEF Sides, Procs
<1>7. Proc(c, s) = IF s = "server" THEN Server ELSE owner[c]
  BY DEF Proc
<1>8. cc[c]["server"].state # "none"
  BY TookAccepted
<1> DEFINE n(d) == RunPairs(owner[d])
<1>q. Queued'
  <2> SUFFICES ASSUME NEW d \in Made
               PROVE  /\ Rest(n(d), cc'[d]["client"].msgQueue)
                      /\ cc'[d]["client"].state = "open" /\ Up(Server) =>
                         /\ Kind(d, "client")' = "Ack" => cc'[d]["client"].msgQueue # <<>>
                         /\ Kind(d, "server")' = "Init" =>
                              /\ cc'[d]["client"].msgQueue # <<>>
                              /\ cc'[d]["client"].msgQueue[1] = AddRegionMsg
                         /\ Kind(d, "server")' \in {"AddRegion", "AddRing"} =>
                              /\ cc'[d]["client"].msgQueue # <<>>
                              /\ Follows(n(d), Word(d)', cc'[d]["client"].msgQueue[1])
    BY <1>1 DEF Queued, QueueOf, Open, Up
  <2>1. CASE d # c
    BY <1>1, <1>2, <1>6, <2>1, TookKinds DEF Queued, QueueOf, Open
  <2>2. CASE d = c /\ s = "server"
    <3>1. cc'[c]["client"] = cc[c]["client"]
      BY <1>2, <1>6, <2>2
    <3>2. Kind(c, "server")' \in Calm
      BY <2>2, TookKinds
    <3>3. Kind(c, "client")' = "Ack" => Kind(c, "server") \in {"Init", "AddRegion", "AddRing"}
      BY <2>2, TookKinds DEF Proper, Peer
    <3> QED BY <1>1, <2>2, <3>1, <3>2, <3>3 DEF Queued, QueueOf, Open, Calm
  <2>3. CASE d = c /\ s = "client"
    <3>1. cc'[c]["client"] = chan
      BY <1>2, <1>6, <2>3
    <3>2. Kind(c, "client")' \in Calm
      BY <2>3, TookKinds
    <3>3. Kind(c, "server")' # "nothing" =>
            out # <<>> /\ Kind(c, "server")' = Head(out).type /\ Word(c)' = Head(out)
      BY <2>3, TookKinds DEF Peer
    <3> QED BY <2>3, <3>1, <3>2, <3>3 DEF Proper, Calm
  <2> QED BY <1>6, <2>1, <2>2, <2>3
<1>s. ServerRings'
  <2> SUFFICES ASSUME NEW d \in Made
               PROVE  /\ cc'[d]["server"].state = "open" /\ Kind(d, "server")' \in Setup =>
                           Expects(n(d), port'[Server], Word(d)')
                      /\ cc'[d]["server"].state = "open" /\ Kind(d, "client")' = "Ack" =>
                           Expects(n(d), port'[Server], cc'[d]["client"].msgQueue[1])
                      /\ port'[Server].cc = d /\ cc'[d]["server"].isConnected =>
                           ServerFull(n(d), port'[Server])
    BY <1>1 DEF ServerRings, ServerFull, QueueOf, Open, Up
  <2>1. CASE s = "client" /\ d # c
    <3>1. port'[Server] = port[Server] /\ UNCHANGED <<cc[d]["client"], cc[d]["server"]>>
      BY <1>1, <1>2, <1>3, <1>5, <1>6, <1>7, <2>1
    <3>2. /\ Kind(d, "client")' = Kind(d, "client") /\ Kind(d, "server")' = Kind(d, "server")
          /\ Word(d)' = Word(d)
      BY <1>1, <1>6, <2>1, TookKinds
    <3> QED BY <1>4, <3>1, <3>2 DEF ServerRings, ServerFull, QueueOf, Open
  <2>2. CASE s = "client" /\ d = c
    <3>1. port'[Server] = port[Server] /\ cc'[c]["server"] = cc[c]["server"]
      BY <1>1, <1>2, <1>3, <1>5, <1>6, <1>7, <2>2
    <3>2. Kind(c, "client")' \in Calm
      BY <2>2, TookKinds
    <3>3. Kind(c, "server")' \in Setup =>
            out # <<>> /\ Head(out).type \in Setup /\ Word(c)' = Head(out)
      BY <2>2, TookKinds DEF Peer, Setup
    <3>4. cc'[c]["server"].state = "open" /\ Kind(c, "server")' \in Setup =>
            Expects(n(c), port'[Server], Word(c)')
      BY <2>2, <3>1, <3>3 DEF Proper, Open
    <3>5. Kind(c, "client")' # "Ack"
      BY <3>2 DEF Calm
    <3>6. port'[Server].cc = c /\ cc'[c]["server"].isConnected =>
            ServerFull(n(c), port'[Server])
      BY <1>1, <3>1 DEF ServerRings, ServerFull
    <3> QED BY <2>2, <3>4, <3>5, <3>6
  <2>3. CASE s = "server" /\ d # c
    <3>1. port'[Server] = p /\ UNCHANGED <<cc[d]["client"], cc[d]["server"]>>
      BY <1>1, <1>2, <1>3, <1>6, <1>7, <2>3
    <3>2. cc[d]["server"].state = "open" /\ cc[d]["server"].bound => port[Server].cc = d
      BY <1>4, <1>6 DEF Linked, Proc, Open
    <3>3. ~(cc[d]["server"].state = "open" /\ cc[d]["server"].bound)
      BY <1>4, <1>5, <1>7, <2>3, <3>2
    <3>4. Kind(d, "client")' = Kind(d, "client") /\ Kind(d, "server")' = Kind(d, "server")
      BY <1>1, <1>6, <2>3, TookKinds
    <3>5. Kind(d, "client") = "Ack" \/ Kind(d, "server") \in Setup
            => cc[d]["server"].bound
      BY DEF Linked
    <3>6. port'[Server].cc # d
      BY <1>4, <2>3, <3>1
    <3> QED BY <3>1, <3>3, <3>4, <3>5, <3>6
  <2>4. CASE s = "server" /\ d = c
    <3>1. /\ port'[Server] = p /\ cc'[c]["server"] = chan
          /\ cc'[c]["client"] = cc[c]["client"]
      BY <1>1, <1>2, <1>3, <1>6, <1>7, <2>4
    <3>2. Kind(c, "server")' \in Calm
      BY <2>4, TookKinds
    <3>3. Kind(c, "client")' = "Ack" =>
            /\ out # <<>> /\ Head(out).type = "Ack"
            /\ cc[c]["client"].state # "closed"
      BY <2>4, TookKinds DEF Peer
    <3>4. cc[c]["client"].state # "closed" => Open(c, "client")
      BY <1>1, <1>6 DEF Opened, Open, Typed, ChanRec
    <3> QED BY <2>4, <3>1, <3>2, <3>3, <3>4 DEF Proper, QueueOf, Calm, Setup
  <2> QED BY <1>6, <2>1, <2>2, <2>3, <2>4
<1>c. ClientRings'
  <2>1. \A x \in Clients : port'[x].region # "fd"
    BY <1>3, <1>5, <1>6, <1>7, ControlAssumption DEF ClientRings, Proper, ClientFull
  <2>2. \A x \in Procs : port'[x].cc = 0 => port'[x].tx = <<>> /\ port'[x].rx = <<>>
    BY <1>1, <1>3, <1>4, <1>5 DEF ClientRings
  <2>3. ASSUME NEW d \in Made, port'[owner[d]].cc = d
        PROVE  /\ cc'[d]["server"].state = "none" \/ Kind(d, "client")' = "Hello" =>
                    port'[owner[d]].tx = <<>> /\ port'[owner[d]].rx = <<>>
               /\ (\/ Kind(d, "client")' \in {"Ack", "Connected"}
                   \/ Kind(d, "server")' \notin Calm \/ cc'[d]["client"].isConnected) =>
                    ClientFull(n(d), port'[owner[d]])
    <3>1. CASE d # c
      <4>1. port'[owner[d]] = port[owner[d]]
        BY <1>3, <1>4, <1>5, <2>3, <3>1
      <4>2. UNCHANGED <<cc[d]["client"], cc[d]["server"]>>
        BY <1>1, <1>2, <1>6, <3>1
      <4> QED BY <1>1, <1>6, <2>3, <3>1, <4>1, <4>2, TookKinds DEF ClientRings, ClientFull
    <3>2. CASE d = c /\ s = "client"
      <4>1. port'[owner[c]] = p /\ cc'[c]["server"] = cc[c]["server"]
        BY <1>1, <1>2, <1>3, <1>5, <1>6, <1>7, <3>2
      <4>2. Kind(c, "client")' \in Calm
        BY <3>2, TookKinds
      <4> QED BY <1>8, <3>2, <4>1, <4>2 DEF Proper, Calm
    <3>3. CASE d = c /\ s = "server"
      <4>1. /\ port'[owner[c]] = port[owner[c]] /\ cc'[c]["server"] = chan
            /\ cc'[c]["client"] = cc[c]["client"]
        BY <1>1, <1>2, <1>3, <1>5, <1>6, <1>7, <3>3
      <4>2. Kind(c, "client")' # "Hello"
        BY <3>3, TookKinds DEF Proper, Peer
      <4>3. Kind(c, "server") \notin Calm
        BY <3>3 DEF Took
      <4>4. ClientFull(n(c), port[owner[c]])
        BY <1>1, <2>3, <3>3, <4>1, <4>3 DEF ClientRings, ClientFull
      <4> QED BY <1>4, <3>3, <4>1, <4>2, <4>4
    <3> QED BY <1>6, <3>1, <3>2, <3>3
  <2> QED BY <1>1, <2>1, <2>2, <2>3 DEF ClientRings, ClientFull
<1> QED BY <1>q, <1>s, <1>c

\* A proper handler preserves the invariant.
LEMMA ProperInv ==
  ASSUME IInv, NEW c \in Conns, NEW s \in Sides, NEW type, NEW chan \in ChanRec,
         NEW p \in PortRec, NEW out \in Seq(Msgs), type \notin Calm,
         Receives(c, s, type), Done(c, s, chan, p, out), UNCHANGED <<owner, backlog>>,
         Proper(c, s, chan, p, out)
  PROVE  IInv'
<1>1. Typed /\ Opened /\ Wire /\ Linked /\ Queued /\ ServerRings /\ ClientRings /\ Freed
  BY DEF IInv
<1>2. Took(c, s, chan, p, out)
  BY <1>1, DoneTook
<1>3. c \in Made
  BY <1>2 DEF Took
<1>4. Typed'
  BY <1>1, <1>3, DoneTyped
<1>5. Opened' /\ Wire'
  BY <1>1, <1>2, TookOpened, TookWire DEF Proper
<1>6. Linked' /\ Freed'
  BY <1>1, <1>2, TookLinked
<1>7. Queued' /\ ServerRings' /\ ClientRings'
  BY <1>1, <1>2, TookRings
<1> QED BY <1>4, <1>5, <1>6, <1>7 DEF IInv

\* Where a handler that receives a message finds itself.
LEMMA ReceivesFacts ==
  ASSUME IInv, NEW c \in Conns, NEW s \in Sides, NEW type, Receives(c, s, type)
  PROVE  /\ c \in Made /\ Open(c, s) /\ Up(Server) /\ Up(owner[c])
         /\ net[c][s] # <<>> /\ Kind(c, s) = type /\ Head(net[c][s]) \in Msgs
         /\ Head(net[c][s]).type = type
         /\ cc[c][s] \in ChanRec /\ cc[c]["client"] \in ChanRec
         /\ port[Proc(c, s)] \in PortRec /\ port[Server] \in PortRec
         /\ (cc[c][s].bound => port[Proc(c, s)].cc = c)
         /\ cc[c]["client"].bound
         /\ owner[c] \in Clients /\ RunPairs(owner[c]) \in Nat \ {0}
         /\ c # 0 /\ c \in 0 .. MaxConns
<1> USE DEF IInv
<1>1. c \in Made
  BY DEF Receives, Made, Conns, Typed
<1>2. /\ Open(c, s) /\ Kind(c, s) = type /\ net[c][s] # <<>>
      /\ Up(Server) /\ Up(owner[c]) /\ Up(Proc(c, s))
      /\ Head(net[c][s]).type = type
  BY <1>1, Ends DEF Receives, Kind, Up, Proc, Peer
<1>3. cc[c][s] \in ChanRec /\ cc[c]["client"] \in ChanRec
  BY DEF Typed, Sides
<1>4. port[Proc(c, s)] \in PortRec /\ port[Server] \in PortRec
  BY <1>1, Ends DEF Typed, Procs
<1>5. Head(net[c][s]) \in Msgs
  BY <1>2, Heads
<1>6. owner[c] \in Clients /\ RunPairs(owner[c]) \in Nat \ {0}
  BY <1>1, Ends, PairsType
<1>7. c # 0 /\ c \in 0 .. MaxConns
  BY ControlAssumption DEF Conns
<1>8. cc[c][s].bound => port[Proc(c, s)].cc = c
  BY <1>1, <1>2 DEF Linked
<1>9. cc[c]["client"].bound
  BY <1>1 DEF Opened
<1> QED BY <1>1, <1>2, <1>3, <1>4, <1>5, <1>6, <1>7, <1>8, <1>9

\* Hello gives the client its rings and the whole handshake.
LEMMA HelloInv ==
  ASSUME IInv, NEW c \in Conns, HandleHello(c)
  PROVE  IInv'
<1> DEFINE n == RunPairs(owner[c])
           o == port[owner[c]]
           chan == [cc[c]["client"] EXCEPT !.msgQueue = Handshake(n)]
           p == [o EXCEPT !.region = "mapped", !.tx = @ \o Rings("S2M", n),
                          !.rx = @ \o Rings("M2S", n)]
           out == <<InitMsg(owner[c])>>
<1>0. "client" \in Sides /\ Proc(c, "client") = owner[c]
  BY DEF Sides, Proc
<1>1. Receives(c, "client", "Hello") /\ Done(c, "client", chan, p, out)
      /\ UNCHANGED <<owner, backlog>>
  BY DEF HandleHello
<1>2. /\ c \in Made /\ Kind(c, "client") = "Hello" /\ n \in Nat \ {0}
      /\ cc[c]["client"] \in ChanRec /\ Open(c, "client") /\ cc[c]["client"].bound
      /\ o \in PortRec /\ o.cc = c /\ owner[c] \in Clients
  BY <1>0, <1>1, ReceivesFacts
<1>3. o.tx = <<>> /\ o.rx = <<>>
  BY <1>2 DEF IInv, ClientRings
<1>4. /\ Rings("S2M", n) \in Seq(RingIds) /\ Rings("M2S", n) \in Seq(RingIds)
      /\ o.tx \o Rings("S2M", n) = Rings("S2M", n)
      /\ o.rx \o Rings("M2S", n) = Rings("M2S", n)
  <2>1. n \in Nat /\ "S2M" \in {"S2M", "M2S"} /\ "M2S" \in {"S2M", "M2S"}
    BY <1>2
  <2> HIDE DEF n
  <2>2. Rings("S2M", n) \in Seq(RingIds) /\ Rings("M2S", n) \in Seq(RingIds)
    BY <2>1, RingsType
  <2>3. /\ <<>> \o Rings("S2M", n) = Rings("S2M", n)
        /\ <<>> \o Rings("M2S", n) = Rings("M2S", n)
    BY <2>2, ConcatEmptySeq
  <2> QED BY <1>3, <2>2, <2>3, Zenon
<1>5. p \in PortRec /\ p.cc = c /\ ClientFull(n, p)
  BY <1>2, <1>4 DEF PortRec, ClientFull
<1>6. /\ Handshake(n) \in Seq(FromClient) /\ Handshake(n) # <<>>
      /\ Handshake(n)[1] = AddRegionMsg /\ Rest(n, Handshake(n))
  BY <1>2, HandshakeRest
<1>7. /\ chan \in ChanRec /\ chan.state = "open" /\ chan.bound
      /\ chan.msgQueue = Handshake(n)
      /\ chan.isConnected = cc[c]["client"].isConnected
  BY <1>2, <1>6 DEF ChanRec, Open
<1>8. InitMsg(owner[c]) \in Msgs
  BY <1>2 DEF Msgs, FromClient
<1>9. out \in Seq(Msgs) /\ Len(out) = 1 /\ Head(out).type = "Init"
  BY <1>8, MsgTypes
<1>10. chan.isConnected => cc[c]["server"].isConnected
  BY <1>2, <1>7 DEF IInv, Linked
<1> HIDE DEF chan, p, out
<1>11. Proper(c, "client", chan, p, out)
  BY <1>0, <1>2, <1>5, <1>6, <1>7, <1>9, <1>10 DEF Proper, Allowed, Setup
<1> QED BY <1>0, <1>1, <1>5, <1>7, <1>9, <1>11, ProperInv DEF Calm

\* Ack releases the message the server's port expects.
LEMMA AckInv ==
  ASSUME IInv, NEW c \in Conns, HandleAck(c)
  PROVE  IInv'
<1> DEFINE n == RunPairs(owner[c])
           q == cc[c]["client"].msgQueue
           p == port[owner[c]]
           chan == [cc[c]["client"] EXCEPT !.msgQueue = Tail(q)]
           out == <<Head(q)>>
<1>0. "client" \in Sides /\ Proc(c, "client") = owner[c]
  BY DEF Sides, Proc
<1>1. Receives(c, "client", "Ack") /\ Done(c, "client", chan, p, out)
      /\ UNCHANGED <<owner, backlog>>
  BY DEF HandleAck
<1>2. /\ c \in Made /\ Kind(c, "client") = "Ack" /\ n \in Nat \ {0} /\ Up(Server)
      /\ cc[c]["client"] \in ChanRec /\ Open(c, "client") /\ cc[c]["client"].bound
      /\ p \in PortRec /\ p.cc = c
  BY <1>0, <1>1, ReceivesFacts
<1>3. q \in Seq(FromClient) /\ q # <<>> /\ Rest(n, q)
  BY <1>2 DEF IInv, Queued, QueueOf, ChanRec
<1>4. /\ Tail(q) \in Seq(FromClient) /\ Rest(n, Tail(q)) /\ Head(q) = q[1]
      /\ Head(q) \in Msgs
      /\ q[1] # ConnectMsg => Tail(q) # <<>> /\ Follows(n, q[1], Tail(q)[1])
  BY <1>2, <1>3, RestTail DEF Msgs
<1>5. Head(q).type \in Setup
  <2>1. q[1] = ConnectMsg \/ q[1] = AddRegionMsg \/ \E r : q[1] = AddRing(r)
    <3> HIDE DEF q
    <3> QED BY <1>4 DEF Follows
  <2> QED BY <1>4, <2>1, MsgTypes DEF Setup
<1>6. Head(q).type \in {"AddRegion", "AddRing"} => Head(q) # ConnectMsg
  BY MsgTypes
<1>7. ClientFull(n, p)
  BY <1>2 DEF IInv, ClientRings, ClientFull
<1>8. /\ chan \in ChanRec /\ chan.state = "open" /\ chan.bound
      /\ chan.msgQueue = Tail(q) /\ chan.isConnected = cc[c]["client"].isConnected
  BY <1>2, <1>4 DEF ChanRec, Open
<1>9. out \in Seq(Msgs) /\ Len(out) = 1 /\ Head(out) = Head(q)
  BY <1>4
<1>10. chan.isConnected => cc[c]["server"].isConnected
  BY <1>2, <1>8 DEF IInv, Linked
<1>11. /\ cc[c]["server"].bound
       /\ Open(c, "server") => Expects(n, port[Server], Head(q))
  BY <1>2, <1>4 DEF IInv, Linked, ServerRings, QueueOf
<1> HIDE DEF chan, p, out, q
<1>12. Proper(c, "client", chan, p, out)
  BY <1>0, <1>2, <1>4, <1>5, <1>6, <1>7, <1>8, <1>9, <1>10, <1>11
     DEF Proper, Allowed, Setup, p
<1> QED BY <1>0, <1>1, <1>2, <1>8, <1>9, <1>12, ProperInv DEF Calm

\* Handling AddRing brings the server's port to what the next message expects.
LEMMA ExpectsNext ==
  ASSUME NEW n \in Nat \ {0}, NEW p \in PortRec, NEW r \in RingIds, NEW b,
         Expects(n, p, AddRing(r)), Follows(n, AddRing(r), b)
  PROVE  Expects(n, TakeOver(p, r), b)
<1>1. \A x : AddRing(r) = AddRing(x) => r = x
  BY MsgTypes
<1>2. AddRing(r) # AddRegionMsg /\ AddRing(r) # ConnectMsg
  BY MsgTypes
<1>5. \A t, i : AddRing(r) = AddRing([type |-> t, index |-> i]) =>
        r = [type |-> t, index |-> i] /\ r.type = t /\ r.index = i
  BY <1>1
<1>6. /\ \A i \in 0 .. (n - 1) : i \in Nat
      /\ "S2M" \in {"S2M", "M2S"} /\ "M2S" \in {"S2M", "M2S"} /\ n \in Nat
  OBVIOUS
<1>3. CASE r.type = "S2M"
  <2>1. PICK i \in 0 .. (n - 1) :
          r = [type |-> "S2M", index |-> i] /\ p.rx = Rings("S2M", i) /\ p.tx = <<>>
    <3>1. \A i \in 0 .. (n - 1) : AddRing(r) # AddRing([type |-> "M2S", index |-> i])
      <4> SUFFICES ASSUME NEW i \in 0 .. (n - 1),
                          AddRing(r) = AddRing([type |-> "M2S", index |-> i])
                   PROVE  FALSE
        OBVIOUS
      <4>1. r.type = "M2S"
        BY <1>5, Zenon
      <4> QED BY <1>3, <4>1
    <3>2. \E i \in 0 .. (n - 1) :
            /\ AddRing(r) = AddRing([type |-> "S2M", index |-> i])
            /\ p.rx = Rings("S2M", i) /\ p.tx = <<>>
      BY <1>2, <3>1, Zenon DEF Expects
    <3> QED BY <1>1, <3>2, Zenon
  <2>2. TakeOver(p, r).rx = Rings("S2M", i + 1) /\ TakeOver(p, r).tx = <<>>
    <3>1. TakeOver(p, r).rx = Append(p.rx, r) /\ TakeOver(p, r).tx = p.tx
      BY <1>3 DEF TakeOver, PortRec
    <3>2. Append(Rings("S2M", i), [type |-> "S2M", index |-> i]) = Rings("S2M", i + 1)
      BY <1>6, RingsType, Zenon
    <3> QED BY <2>1, <3>1, <3>2
  <2>3. CASE i < n - 1
    <3>1. b = AddRing([type |-> "S2M", index |-> i + 1])
      <4>1. i # n - 1
        BY <2>3
      <4> QED BY <1>1, <1>2, <2>1, <4>1 DEF Follows
    <3>2. i + 1 \in 0 .. (n - 1)
      BY <2>3
    <3> QED BY <2>2, <3>1, <3>2 DEF Expects
  <2>4. CASE i = n - 1
    <3>1. b = AddRing([type |-> "M2S", index |-> 0])
      <4>1. i \notin 0 .. (n - 2)
        BY <2>4
      <4> QED BY <1>1, <1>2, <2>1, <4>1 DEF Follows
    <3>2. i + 1 = n /\ 0 \in 0 .. (n - 1)
      BY <2>4
    <3>3. Rings("M2S", 0) = <<>>
      BY <1>6, RingsType, Zenon
    <3> QED BY <2>2, <3>1, <3>2, <3>3 DEF Expects
  <2> QED BY <2>3, <2>4
<1>4. CASE r.type = "M2S"
  <2>1. PICK i \in 0 .. (n - 1) :
          /\ r = [type |-> "M2S", index |-> i]
          /\ p.rx = Rings("S2M", n) /\ p.tx = Rings("M2S", i)
    <3>1. \A i \in 0 .. (n - 1) : AddRing(r) # AddRing([type |-> "S2M", index |-> i])
      <4> SUFFICES ASSUME NEW i \in 0 .. (n - 1),
                          AddRing(r) = AddRing([type |-> "S2M", index |-> i])
                   PROVE  FALSE
        OBVIOUS
      <4>1. r.type = "S2M"
        BY <1>5, Zenon
      <4> QED BY <1>4, <4>1
    <3>2. \E i \in 0 .. (n - 1) :
            /\ AddRing(r) = AddRing([type |-> "M2S", index |-> i])
            /\ p.rx = Rings("S2M", n) /\ p.tx = Rings("M2S", i)
      BY <1>2, <3>1, Zenon DEF Expects
    <3> QED BY <1>1, <3>2, Zenon
  <2>2. TakeOver(p, r).tx = Rings("M2S", i + 1) /\ TakeOver(p, r).rx = Rings("S2M", n)
    <3>1. TakeOver(p, r).tx = Append(p.tx, r) /\ TakeOver(p, r).rx = p.rx
      BY <1>4 DEF TakeOver, PortRec
    <3>2. Append(Rings("M2S", i), [type |-> "M2S", index |-> i]) = Rings("M2S", i + 1)
      BY <1>6, RingsType, Zenon
    <3> QED BY <2>1, <3>1, <3>2
  <2>3. CASE i < n - 1
    <3>1. b = AddRing([type |-> "M2S", index |-> i + 1])
      <4>1. i # n - 1
        BY <2>3
      <4> QED BY <1>1, <1>2, <2>1, <4>1 DEF Follows
    <3>2. i + 1 \in 0 .. (n - 1)
      BY <2>3
    <3> QED BY <2>2, <3>1, <3>2 DEF Expects
  <2>4. CASE i = n - 1
    <3>1. b = ConnectMsg
      <4>1. i \notin 0 .. (n - 2)
        BY <2>4
      <4> QED BY <1>1, <1>2, <2>1, <4>1 DEF Follows
    <3>2. i + 1 = n
      BY <2>4
    <3> QED BY <2>2, <3>1, <3>2 DEF Expects
  <2> QED BY <2>3, <2>4
<1> QED BY <1>3, <1>4 DEF RingIds

\* A port that expects a region or a ring does not have all rings yet.
LEMMA ExpectsPartial ==
  ASSUME NEW n \in Nat \ {0}, NEW p \in PortRec, NEW m, Expects(n, p, m),
         m # ConnectMsg
  PROVE  ~ServerFull(n, p)
<1> SUFFICES ASSUME ServerFull(n, p) PROVE FALSE
  OBVIOUS
<1>0. /\ \A i \in 0 .. (n - 1) : i \in Nat /\ i # n
      /\ "S2M" \in {"S2M", "M2S"} /\ "M2S" \in {"S2M", "M2S"} /\ n \in Nat
  OBVIOUS
<1>1. Len(p.rx) = n /\ Len(p.tx) = n
  BY <1>0, RingsType, Zenon DEF ServerFull
<1>2. \A i \in 0 .. (n - 1) : Len(Rings("S2M", i)) = i /\ Len(Rings("M2S", i)) = i
  BY <1>0, RingsType, Zenon
<1>3. p.rx # <<>>
  BY <1>1
<1> QED BY <1>0, <1>1, <1>2, <1>3, Zenon DEF Expects

\* Ack and Connected are what a server sends.
LEMMA ServerSends ==
  /\ <<AckMsg>> \in Seq(Msgs) /\ Len(<<AckMsg>>) = 1 /\ Head(<<AckMsg>>).type = "Ack"
  /\ <<ConnectedMsg>> \in Seq(Msgs) /\ Len(<<ConnectedMsg>>) = 1
  /\ Head(<<ConnectedMsg>>).type = "Connected"
  /\ <<AckMsg>> # <<>> /\ <<ConnectedMsg>> # <<>>
<1>1. AckMsg \in Msgs /\ ConnectedMsg \in Msgs
  BY DEF Msgs, FromServer
<1> QED BY <1>1, MsgTypes

\* Init gives the channel the server's port, which is free and has no rings.
LEMMA InitInv ==
  ASSUME IInv, NEW c \in Conns, Receives(c, "server", "Init"), port[Server].cc = 0,
         Done(c, "server", [cc[c]["server"] EXCEPT !.bound = TRUE],
              [port[Server] EXCEPT !.cc = c], <<AckMsg>>),
         UNCHANGED <<owner, backlog>>
  PROVE  IInv'
<1> DEFINE n == RunPairs(owner[c])
           o == port[Server]
           chan == [cc[c]["server"] EXCEPT !.bound = TRUE]
           p == [o EXCEPT !.cc = c]
           out == <<AckMsg>>
<1>0. "server" \in Sides /\ Proc(c, "server") = Server /\ Server \in Procs
  BY DEF Sides, Proc, Procs
<1>1. /\ c \in Made /\ Kind(c, "server") = "Init" /\ n \in Nat \ {0} /\ Up(Server)
      /\ cc[c]["server"] \in ChanRec /\ Open(c, "server") /\ o \in PortRec
      /\ (cc[c]["server"].bound => o.cc = c) /\ c # 0 /\ c \in 0 .. MaxConns
  BY <1>0, ReceivesFacts
<1>2. ~cc[c]["server"].isConnected
  BY <1>1 DEF IInv, Linked
<1>3. o.tx = <<>> /\ o.rx = <<>>
  BY <1>0 DEF IInv, ClientRings
<1>4. /\ chan \in ChanRec /\ chan.state = "open" /\ chan.bound /\ ~chan.isConnected
  BY <1>1, <1>2 DEF ChanRec, Open
<1>5. p \in PortRec /\ p.cc = c /\ p.tx = <<>> /\ p.rx = <<>>
  BY <1>1, <1>3 DEF PortRec
<1>6. Open(c, "client") => QueueOf(c)[1] = AddRegionMsg
  BY <1>1 DEF IInv, Queued
<1>7. Open(c, "client") => Expects(n, p, QueueOf(c)[1])
  BY <1>5, <1>6 DEF Expects
<1>8. out \in Seq(Msgs) /\ Len(out) = 1 /\ Head(out).type = "Ack" /\ out # <<>>
  BY ServerSends
<1>9. Done(c, "server", chan, p, out)
  OBVIOUS
<1> HIDE DEF chan, p, out
<1>10. Proper(c, "server", chan, p, out)
  BY <1>0, <1>1, <1>2, <1>4, <1>5, <1>7, <1>8 DEF Proper, Allowed
<1> QED BY <1>0, <1>4, <1>5, <1>8, <1>9, <1>10, ProperInv DEF Calm

\* The server's port while a message of the handshake is under way.
LEMMA SetupFacts ==
  ASSUME IInv, NEW c \in Conns, NEW type \in Setup, Receives(c, "server", type)
  PROVE  /\ cc[c]["server"].bound /\ port[Server].cc = c
         /\ Expects(RunPairs(owner[c]), port[Server], Word(c))
         /\ (type # "Connect" => ~cc[c]["server"].isConnected)
         /\ (type # "Connect" /\ Open(c, "client")) =>
              Follows(RunPairs(owner[c]), Word(c), QueueOf(c)[1])
         /\ Word(c) \in Msgs /\ Word(c).type = type
<1>0. "server" \in Sides /\ Proc(c, "server") = Server
  BY DEF Sides, Proc
<1>1. /\ c \in Made /\ Kind(c, "server") = type /\ Up(Server) /\ Open(c, "server")
      /\ RunPairs(owner[c]) \in Nat \ {0} /\ port[Server] \in PortRec
      /\ (cc[c]["server"].bound => port[Server].cc = c)
      /\ Word(c) \in Msgs /\ Word(c).type = type
  BY <1>0, ReceivesFacts DEF Word
<1>2. cc[c]["server"].bound
  BY <1>1 DEF IInv, Linked
<1>3. Expects(RunPairs(owner[c]), port[Server], Word(c))
  BY <1>1 DEF IInv, ServerRings
<1>4. type # "Connect" => ~cc[c]["server"].isConnected
  <2> SUFFICES ASSUME type # "Connect", cc[c]["server"].isConnected PROVE FALSE
    OBVIOUS
  <2>1. ServerFull(RunPairs(owner[c]), port[Server])
    BY <1>1, <1>2 DEF IInv, ServerRings, ServerFull
  <2>2. Word(c) # ConnectMsg
    BY <1>1, MsgTypes
  <2> QED BY <1>1, <1>3, <2>1, <2>2, ExpectsPartial
<1>5. (type # "Connect" /\ Open(c, "client")) =>
        Follows(RunPairs(owner[c]), Word(c), QueueOf(c)[1])
  BY <1>1 DEF IInv, Queued, Setup
<1> QED BY <1>1, <1>2, <1>3, <1>4, <1>5

\* AddRegion leaves the port without rings, as the first AddRing expects it.
LEMMA AddRegionInv ==
  ASSUME IInv, NEW c \in Conns, HandleAddRegion(c)
  PROVE  IInv'
<1> DEFINE n == RunPairs(owner[c])
           o == port[Server]
           chan == cc[c]["server"]
           p == [o EXCEPT !.region = "fd"]
           out == <<AckMsg>>
<1>0. "server" \in Sides /\ Proc(c, "server") = Server /\ "AddRegion" \in Setup
  BY DEF Sides, Proc, Setup
<1>1. /\ Receives(c, "server", "AddRegion") /\ Done(c, "server", chan, p, out)
      /\ UNCHANGED <<owner, backlog>>
  BY DEF HandleAddRegion
<1>2. /\ c \in Made /\ Kind(c, "server") = "AddRegion" /\ n \in Nat \ {0}
      /\ chan \in ChanRec /\ chan.state = "open" /\ o \in PortRec
  BY <1>0, <1>1, ReceivesFacts DEF Open
<1>3. /\ chan.bound /\ o.cc = c /\ Expects(n, o, Word(c)) /\ ~chan.isConnected
      /\ Open(c, "client") => Follows(n, Word(c), QueueOf(c)[1])
      /\ Word(c) \in Msgs /\ Word(c).type = "AddRegion"
  BY <1>0, <1>1, SetupFacts
<1>4. Word(c) = AddRegionMsg /\ Word(c) # ConnectMsg /\ \A r : Word(c) # AddRing(r)
  BY <1>3, ByType, MsgTypes
<1>5. o.rx = <<>> /\ o.tx = <<>>
  BY <1>3, <1>4, Zenon DEF Expects
<1>6. p \in PortRec /\ p.cc = c /\ p.tx = <<>> /\ p.rx = <<>>
  BY <1>2, <1>3, <1>5 DEF PortRec
<1>7. Open(c, "client") => QueueOf(c)[1] = AddRing([type |-> "S2M", index |-> 0])
  BY <1>3, <1>4, Zenon DEF Follows
<1>8. Open(c, "client") => Expects(n, p, QueueOf(c)[1])
  <2>1. 0 \in 0 .. (n - 1) /\ 0 \in Nat /\ "S2M" \in {"S2M", "M2S"}
    BY <1>2
  <2>2. Rings("S2M", 0) = <<>>
    BY <2>1, RingsType, Zenon
  <2> HIDE DEF p
  <2> QED BY <1>6, <1>7, <2>1, <2>2 DEF Expects
<1>9. out \in Seq(Msgs) /\ Len(out) = 1 /\ Head(out).type = "Ack" /\ out # <<>>
  BY ServerSends
<1> HIDE DEF chan, p, out
<1>10. Proper(c, "server", chan, p, out)
  BY <1>0, <1>2, <1>3, <1>6, <1>8, <1>9 DEF Proper, Allowed, chan
<1> QED BY <1>0, <1>1, <1>2, <1>6, <1>9, <1>10, ProperInv DEF Calm

\* AddRing appends the ring the handshake has come to.
LEMMA AddRingInv ==
  ASSUME IInv, NEW c \in Conns, Receives(c, "server", "AddRing"),
         Done(c, "server", cc[c]["server"], TakeOver(port[Server], Word(c).ring),
              <<AckMsg>>),
         UNCHANGED <<owner, backlog>>
  PROVE  IInv'
<1> DEFINE n == RunPairs(owner[c])
           o == port[Server]
           chan == cc[c]["server"]
           r == Word(c).ring
           p == TakeOver(o, r)
           out == <<AckMsg>>
<1>0. "server" \in Sides /\ Proc(c, "server") = Server /\ "AddRing" \in Setup
  BY DEF Sides, Proc, Setup
<1>2. /\ c \in Made /\ Kind(c, "server") = "AddRing" /\ n \in Nat \ {0}
      /\ chan \in ChanRec /\ chan.state = "open" /\ o \in PortRec
  BY <1>0, ReceivesFacts DEF Open
<1>3. /\ chan.bound /\ o.cc = c /\ Expects(n, o, Word(c)) /\ ~chan.isConnected
      /\ Open(c, "client") => Follows(n, Word(c), QueueOf(c)[1])
      /\ Word(c) \in Msgs /\ Word(c).type = "AddRing"
  BY <1>0, SetupFacts
<1>4. r \in RingIds /\ Word(c) = AddRing(r)
  BY <1>3, ByType
<1>5. p \in PortRec /\ p.cc = c
  <2>1. Append(o.rx, r) \in Seq(RingIds) /\ Append(o.tx, r) \in Seq(RingIds)
    BY <1>2, <1>4 DEF PortRec
  <2> HIDE DEF r
  <2> QED BY <1>2, <1>3, <2>1 DEF TakeOver, PortRec
<1>6. Open(c, "client") => Expects(n, p, QueueOf(c)[1])
  BY <1>2, <1>3, <1>4, ExpectsNext
<1>9. out \in Seq(Msgs) /\ Len(out) = 1 /\ Head(out).type = "Ack" /\ out # <<>>
  BY ServerSends
<1>7. Done(c, "server", chan, p, out)
  OBVIOUS
<1> HIDE DEF chan, p, out
<1>10. Proper(c, "server", chan, p, out)
  BY <1>0, <1>2, <1>3, <1>5, <1>6, <1>9 DEF Proper, Allowed, chan
<1> QED BY <1>0, <1>2, <1>5, <1>7, <1>9, <1>10, ProperInv DEF Calm

\* Connect finds all rings at the server.
LEMMA ConnectInv ==
  ASSUME IInv, NEW c \in Conns, Receives(c, "server", "Connect"),
         Done(c, "server", [cc[c]["server"] EXCEPT !.isConnected = TRUE],
              [port[Server] EXCEPT !.region = "mapped"], <<ConnectedMsg>>),
         UNCHANGED <<owner, backlog>>
  PROVE  IInv'
<1> DEFINE n == RunPairs(owner[c])
           o == port[Server]
           chan == [cc[c]["server"] EXCEPT !.isConnected = TRUE]
           p == [o EXCEPT !.region = "mapped"]
           out == <<ConnectedMsg>>
<1>0. "server" \in Sides /\ Proc(c, "server") = Server /\ "Connect" \in Setup
  BY DEF Sides, Proc, Setup
<1>2. /\ c \in Made /\ Kind(c, "server") = "Connect" /\ n \in Nat \ {0}
      /\ cc[c]["server"] \in ChanRec /\ Open(c, "server") /\ o \in PortRec
  BY <1>0, ReceivesFacts
<1>3. /\ cc[c]["server"].bound /\ o.cc = c /\ Expects(n, o, Word(c))
      /\ Word(c) \in Msgs /\ Word(c).type = "Connect"
  BY <1>0, SetupFacts
<1>4. Word(c) = ConnectMsg /\ Word(c) # AddRegionMsg /\ \A r : Word(c) # AddRing(r)
  BY <1>3, ByType, MsgTypes
<1>5. o.rx = Rings("S2M", n) /\ o.tx = Rings("M2S", n)
  BY <1>3, <1>4, Zenon DEF Expects
<1>6. /\ chan \in ChanRec /\ chan.state = "open" /\ chan.bound /\ chan.isConnected
  BY <1>2, <1>3 DEF ChanRec, Open
<1>7. p \in PortRec /\ p.cc = c /\ ServerFull(n, p)
  BY <1>2, <1>3, <1>5 DEF PortRec, ServerFull
<1>8. out \in Seq(Msgs) /\ Len(out) = 1 /\ Head(out).type = "Connected" /\ out # <<>>
  BY ServerSends
<1>9. Done(c, "server", chan, p, out)
  OBVIOUS
<1> HIDE DEF chan, p, out
<1>10. Proper(c, "server", chan, p, out)
  BY <1>0, <1>2, <1>3, <1>6, <1>7, <1>8 DEF Proper, Allowed
<1> QED BY <1>0, <1>6, <1>7, <1>8, <1>9, <1>10, ProperInv DEF Calm

\* Connected finds all rings at the client, and the server connected.
LEMMA ConnectedInv ==
  ASSUME IInv, NEW c \in Conns, Receives(c, "client", "Connected"),
         Done(c, "client", [cc[c]["client"] EXCEPT !.isConnected = TRUE],
              [port[owner[c]] EXCEPT !.region = "mapped"], <<>>),
         UNCHANGED <<owner, backlog>>
  PROVE  IInv'
<1> DEFINE n == RunPairs(owner[c])
           o == port[owner[c]]
           chan == [cc[c]["client"] EXCEPT !.isConnected = TRUE]
           p == [o EXCEPT !.region = "mapped"]
<1>0. "client" \in Sides /\ Proc(c, "client") = owner[c] /\ <<>> \in Seq(Msgs)
  BY DEF Sides, Proc
<1>2. /\ c \in Made /\ Kind(c, "client") = "Connected" /\ n \in Nat \ {0}
      /\ cc[c]["client"] \in ChanRec /\ Open(c, "client") /\ o \in PortRec
      /\ cc[c]["client"].bound /\ o.cc = c
  BY <1>0, ReceivesFacts
<1>3. cc[c]["server"].isConnected /\ Rest(n, cc[c]["client"].msgQueue)
  BY <1>2 DEF IInv, Linked, Queued, QueueOf
<1>4. ClientFull(n, o)
  BY <1>2 DEF IInv, ClientRings, ClientFull
<1>6. /\ chan \in ChanRec /\ chan.state = "open" /\ chan.bound /\ chan.isConnected
      /\ chan.msgQueue = cc[c]["client"].msgQueue
  BY <1>2 DEF ChanRec, Open
<1>7. p \in PortRec /\ p.cc = c /\ ClientFull(n, p)
  BY <1>2, <1>4 DEF PortRec, ClientFull
<1>9. Done(c, "client", chan, p, <<>>)
  OBVIOUS
<1> HIDE DEF chan, p
<1>10. Proper(c, "client", chan, p, <<>>)
  BY <1>0, <1>2, <1>3, <1>6, <1>7 DEF Proper
<1> QED BY <1>0, <1>6, <1>7, <1>9, <1>10, ProperInv DEF Calm

-----------------------------------------------------------------------------
(* Closing an end                                                          *)

\* What becomes of port o, in use by connection c, when its end is closed: it is
\* freed, or keeps its rings when DisconnectedFunc failed, or keeps the channel
\* when the region was not mapped yet.
Ended(c, o, p) ==
  \/ p.cc = 0 /\ p.tx = <<>> /\ p.rx = <<>> /\ p.region = "none"
  \/ /\ p.cc = c /\ p.failed /\ p.tx = o.tx /\ p.rx = o.rx
     /\ p.region \in {o.region, "mapped"}
  \/ /\ p.cc = c /\ p.region = "fd" /\ o.region = "fd"

\* The two ports a successful DisconnectedFunc can leave.
LEMMA EndedPorts ==
  ASSUME NEW p \in PortRec, NEW b \in BOOLEAN
  PROVE  /\ [p EXCEPT !.tx = <<>>, !.rx = <<>>, !.quit = b] \in PortRec
         /\ [p EXCEPT !.tx = <<>>, !.rx = <<>>, !.quit = b].cc = p.cc
         /\ [p EXCEPT !.tx = <<>>, !.rx = <<>>, !.quit = b].region = p.region
         /\ [NoPort EXCEPT !.quit = b] \in PortRec
         /\ [NoPort EXCEPT !.quit = b].cc = 0
         /\ [NoPort EXCEPT !.quit = b].tx = <<>>
         /\ [NoPort EXCEPT !.quit = b].rx = <<>>
         /\ [NoPort EXCEPT !.quit = b].region = "none"
<1>1. 0 \in 0 .. MaxConns
  BY ControlAssumption
<1>2. \A e \in Seq(RingIds) :
        /\ [p EXCEPT !.tx = e, !.rx = e, !.quit = b] \in PortRec
        /\ [p EXCEPT !.tx = e, !.rx = e, !.quit = b].cc = p.cc
        /\ [p EXCEPT !.tx = e, !.rx = e, !.quit = b].region = p.region
  BY DEF PortRec
<1>3. <<>> \in Seq(RingIds)
  OBVIOUS
<1>4. NoPort \in PortRec
  BY <1>1 DEF NoPort, PortRec
<1>5. /\ [NoPort EXCEPT !.quit = b] \in PortRec
      /\ [NoPort EXCEPT !.quit = b].cc = NoPort.cc
      /\ [NoPort EXCEPT !.quit = b].tx = NoPort.tx
      /\ [NoPort EXCEPT !.quit = b].rx = NoPort.rx
      /\ [NoPort EXCEPT !.quit = b].region = NoPort.region
  BY <1>4 DEF PortRec
<1>6. NoPort.cc = 0 /\ NoPort.tx = <<>> /\ NoPort.rx = <<>> /\ NoPort.region = "none"
  BY DEF NoPort
<1>7. /\ [p EXCEPT !.tx = <<>>, !.rx = <<>>, !.quit = b] \in PortRec
      /\ [p EXCEPT !.tx = <<>>, !.rx = <<>>, !.quit = b].cc = p.cc
      /\ [p EXCEPT !.tx = <<>>, !.rx = <<>>, !.quit = b].region = p.region
  BY <1>2, <1>3, Zenon
<1> QED BY <1>5, <1>6, <1>7, Zenon

\* port.disconnect of a port in use.
LEMMA DisconnectedEnds ==
  ASSUME NEW c, c # 0, NEW o \in PortRec, o.cc = c, NEW p \in PortRec,
         p \in {o, [o EXCEPT !.region = "mapped"]}, NEW r \in {"ok", "error"}
  PROVE  Disconnected(p, r) \in PortRec /\ Ended(c, o, Disconnected(p, r))
<1>0. /\ p.cc = c /\ p.tx = o.tx /\ p.rx = o.rx /\ p.region \in {o.region, "mapped"}
      /\ "ok" # "error"
  BY DEF PortRec
<1>1. CASE r = "error"
  <2>1. Disconnected(p, r) = [p EXCEPT !.failed = TRUE]
    BY <1>0, <1>1, Zenon DEF Disconnected
  <2>2. /\ [p EXCEPT !.failed = TRUE] \in PortRec
        /\ [p EXCEPT !.failed = TRUE].cc = p.cc /\ [p EXCEPT !.failed = TRUE].failed
        /\ [p EXCEPT !.failed = TRUE].tx = p.tx /\ [p EXCEPT !.failed = TRUE].rx = p.rx
        /\ [p EXCEPT !.failed = TRUE].region = p.region
    BY DEF PortRec
  <2> QED BY <1>0, <2>1, <2>2 DEF Ended
<1>2. CASE r = "ok" /\ p.region = "fd"
  <2> DEFINE x == [p EXCEPT !.tx = <<>>, !.rx = <<>>, !.quit = DefaultCallback]
  <2>1. Disconnected(p, r) = x
    BY <1>0, <1>2, Zenon DEF Disconnected
  <2>2. x \in PortRec /\ x.cc = p.cc /\ x.region = p.region
    BY EndedPorts, ControlAssumption
  <2>3. o.region = "fd"
    BY <1>0, <1>2
  <2> HIDE DEF x
  <2> QED BY <1>0, <1>2, <2>1, <2>2, <2>3 DEF Ended
<1>3. CASE r = "ok" /\ p.region # "fd"
  <2> DEFINE x == [NoPort EXCEPT !.quit = DefaultCallback]
  <2>1. Disconnected(p, r) = x
    BY <1>0, <1>3, Zenon DEF Disconnected
  <2>2. x \in PortRec /\ x.cc = 0 /\ x.tx = <<>> /\ x.rx = <<>> /\ x.region = "none"
    BY EndedPorts, ControlAssumption
  <2> HIDE DEF x
  <2> QED BY <2>1, <2>2 DEF Ended
<1> QED BY <1>1, <1>2, <1>3

\* What close sends.
Farewell == {<<>>, <<Disconnect>>}

\* A closed end reads nothing more; its peer, unless closed, is sent out.
Drained(c, s, out) ==
  \A d \in Conns, t \in Sides :
    net'[d][t] = IF d # c THEN net[d][t]
                 ELSE IF t = s THEN <<>>
                 ELSE IF cc[c][t].state = "closed" THEN net[c][t]
                 ELSE net[c][t] \o out

\* End s of connection c is closed, by whatever event.
Closes(c, s, out) ==
  LET q == Proc(c, s) IN
  /\ c \in Made /\ Open(c, s) /\ Up(q)
  /\ out \in Farewell
  /\ UNCHANGED <<owner, backlog>>
  /\ \A x \in Procs : proc'[x] = proc[x] \/ (x = q /\ proc'[x] = "panic")
  /\ \A d \in Conns, t \in Sides : (d # c \/ t # s) => cc'[d][t] = cc[d][t]
  /\ cc'[c][s].state = "closed" /\ cc'[c][s].bound = cc[c][s].bound
  /\ cc'[c][s].isConnected = cc[c][s].isConnected
  /\ cc'[c][s].msgQueue \in {cc[c][s].msgQueue, <<>>}
  /\ \A x \in Procs : x # q => port'[x] = port[x]
  /\ \/ port'[q] = port[q] /\ (cc[c][s].bound => proc'[q] = "panic")
     \/ cc[c][s].bound /\ Ended(c, port[q], port'[q])
  /\ Drained(c, s, out)

\* Closing takes messages away and adds nothing but Disconnect.
LEMMA ClosesKinds ==
  ASSUME Typed, NEW c \in Conns, NEW s \in Sides, NEW out, Closes(c, s, out)
  PROVE  /\ \A d \in Conns, t \in Sides : d # c => Kind(d, t)' = Kind(d, t)
         /\ \A d \in Conns : d # c => Word(d)' = Word(d)
         /\ Kind(c, s)' = "nothing"
         /\ \/ Kind(c, Peer(s))' = Kind(c, Peer(s))
            \/ Kind(c, Peer(s)) = "nothing" /\ Kind(c, Peer(s))' = "Disconnect"
         /\ (s = "client" /\ Kind(c, "server")' \notin Calm) => Word(c)' = Word(c)
         /\ Peer(s) \in Sides /\ Peer(s) # s
<1>1. Peer(s) \in Sides /\ Peer(s) # s /\ (s = "client" => Peer(s) = "server")
      /\ Sides = {"client", "server"}
  BY DEF Peer, Sides
<1>2. \A d \in Conns, t \in Sides : d # c => net'[d][t] = net[d][t]
  BY DEF Closes, Drained, Farewell
<1>3. net'[c][s] = <<>>
  BY DEF Closes, Drained, Farewell
<1> DEFINE q == net[c][Peer(s)]
<1>4. q \in Seq(Msgs) /\ Disconnect \in Msgs /\ Disconnect.type = "Disconnect"
  BY <1>1, MsgTypes DEF Typed, Msgs, FromServer
<1>5. net'[c][Peer(s)] = q \/ net'[c][Peer(s)] = q \o <<>>
        \/ net'[c][Peer(s)] = q \o <<Disconnect>>
  BY <1>1 DEF Closes, Drained, Farewell
<1>6. /\ q \o <<>> = q
      /\ q # <<>> => q \o <<Disconnect>> # <<>> /\ Head(q \o <<Disconnect>>) = Head(q)
      /\ q = <<>> => q \o <<Disconnect>> = <<Disconnect>>
  <2> HIDE DEF q
  <2>1. q \o <<>> = q /\ (q = <<>> => q \o <<Disconnect>> = <<Disconnect>>)
    <3>1. <<Disconnect>> \in Seq(Msgs)
      BY <1>4
    <3> QED BY <1>4, <3>1, ConcatEmptySeq, Zenon
  <2>2. ASSUME q # <<>>
        PROVE  q \o <<Disconnect>> # <<>> /\ Head(q \o <<Disconnect>>) = Head(q)
    <3>1. /\ q \o <<Disconnect>> \in Seq(Msgs) /\ Len(q \o <<Disconnect>>) = Len(q) + 1
          /\ \A i \in 1 .. (Len(q) + 1) :
               (q \o <<Disconnect>>)[i] = IF i <= Len(q) THEN q[i]
                                          ELSE <<Disconnect>>[i - Len(q)]
      <4>1. <<Disconnect>> \in Seq(Msgs) /\ Len(<<Disconnect>>) = 1
        BY <1>4
      <4> QED BY <1>4, <4>1, ConcatProperties
    <3>2. 1 \in 1 .. (Len(q) + 1) /\ 1 <= Len(q) /\ Len(q) \in Nat
      BY <1>4, <2>2
    <3> DEFINE z == q \o <<Disconnect>>
    <3> HIDE DEF z
    <3>3. z \in Seq(Msgs) /\ Len(z) = Len(q) + 1 /\ z[1] = q[1]
      BY <3>1, <3>2 DEF z
    <3>4. z # <<>> /\ Head(z) = Head(q)
      BY <1>4, <2>2, <3>2, <3>3
    <3> QED BY <3>4 DEF z
  <2> QED BY <2>1, <2>2
<1>7. /\ \/ net'[c][Peer(s)] = q
         \/ q = <<>> /\ net'[c][Peer(s)] = <<Disconnect>>
         \/ q # <<>> /\ net'[c][Peer(s)] # <<>> /\ Head(net'[c][Peer(s)]) = Head(q)
  BY <1>5, <1>6
<1>8. <<Disconnect>> # <<>> /\ Head(<<Disconnect>>) = Disconnect
  OBVIOUS
<1> HIDE DEF q
<1>9. \/ Kind(c, Peer(s))' = Kind(c, Peer(s))
      \/ Kind(c, Peer(s)) = "nothing" /\ Kind(c, Peer(s))' = "Disconnect"
  <2>1. /\ Kind(c, Peer(s)) = IF q = <<>> THEN "nothing" ELSE Head(q).type
        /\ Kind(c, Peer(s))' = IF net'[c][Peer(s)] = <<>> THEN "nothing"
                               ELSE Head(net'[c][Peer(s)]).type
    BY DEF Kind, q
  <2> QED BY <1>4, <1>7, <1>8, <2>1
<1>10. (s = "client" /\ Kind(c, "server")' \notin Calm) => Word(c)' = Word(c)
  BY <1>1, <1>4, <1>7, <1>8 DEF Kind, q, Word, Calm
<1>11. Kind(c, s)' = "nothing"
  BY <1>3 DEF Kind
<1> QED BY <1>1, <1>2, <1>9, <1>10, <1>11 DEF Kind, Word

\* Closing keeps the order of making, accepting and closing connections.
LEMMA ClosesOpened ==
  ASSUME Typed, Opened, Wire, NEW c \in Conns, NEW s \in Sides, NEW out,
         Closes(c, s, out)
  PROVE  Opened'
<1>1. UNCHANGED <<owner, backlog>> /\ c \in Made /\ Made' = Made
  BY DEF Closes, Made
<1>2. /\ \A d \in Conns, t \in Sides : d # c =>
           cc'[d][t] = cc[d][t] /\ net'[d][t] = net[d][t]
      /\ \A t \in Sides : t # s => cc'[c][t] = cc[c][t]
      /\ net'[c][s] = <<>>
      /\ cc'[c][s].state = "closed" /\ cc'[c][s].bound = cc[c][s].bound
      /\ cc'[c][s].isConnected = cc[c][s].isConnected /\ cc[c][s].state = "open"
  BY DEF Closes, Drained, Open
<1>3. Made \subseteq Conns /\ Sides = {"client", "server"}
  BY ControlAssumption DEF Made, Conns, Sides, Typed
<1>4. \A d \in Conns, t \in Sides : d # c => Kind(d, t)' = Kind(d, t)
  BY ClosesKinds
<1>5. \A i \in DOMAIN backlog :
        backlog'[i] \in Made /\ cc'[backlog'[i]]["server"] = NoChannel
  BY <1>1, <1>2, <1>3 DEF Opened, NoChannel
<1>6. \A d \in Made : cc'[d]["client"].state # "none" /\ cc'[d]["client"].bound
  BY <1>1, <1>2, <1>3 DEF Opened
<1>7. ASSUME NEW d \in Made, cc'[d]["server"].state = "none"
      PROVE  /\ cc'[d]["server"] = NoChannel /\ ~cc'[d]["client"].isConnected
             /\ net'[d]["client"] = <<>> /\ Kind(d, "server")' \in Calm
  <2>1. CASE d # c
    BY <1>2, <1>3, <1>4, <1>7, <2>1 DEF Opened
  <2>2. CASE d = c
    <3>1. s = "client"
      BY <1>2, <1>3, <1>7, <2>2
    <3>2. /\ cc'[c]["server"] = cc[c]["server"] /\ cc[c]["server"] = NoChannel
          /\ ~cc[c]["client"].isConnected /\ Kind(c, "server") \in Calm
      BY <1>1, <1>2, <1>3, <1>7, <2>2, <3>1 DEF Opened
    <3>3. Kind(c, "server")' \in Calm
      BY <3>1, <3>2, ClosesKinds DEF Peer, Calm
    <3> QED BY <1>2, <2>2, <3>1, <3>2, <3>3
  <2> QED BY <2>1, <2>2
<1>8. \A d \in Conns \ Made, t \in Sides : cc'[d][t] = NoChannel /\ net'[d][t] = <<>>
  BY <1>1, <1>2 DEF Opened
<1> QED BY <1>1, <1>5, <1>6, <1>7, <1>8 DEF Opened

\* Closing keeps the connection in lock-step.
LEMMA ClosesWire ==
  ASSUME Typed, Wire, NEW c \in Conns, NEW s \in Sides, NEW out, Closes(c, s, out)
  PROVE  Wire'
<1>1. Peer(s) \in Sides /\ Peer(s) # s /\ Peer(Peer(s)) = s
      /\ \A t \in Sides : t = s \/ t = Peer(s)
  BY DEF Peer, Sides
<1>2. /\ \A d \in Conns, t \in Sides : (d # c \/ t # s) => cc'[d][t] = cc[d][t]
      /\ cc'[c][s].state = "closed"
  BY DEF Closes
<1>3. \A d \in Conns, t \in Sides : d # c => net'[d][t] = net[d][t]
  BY DEF Closes, Drained, Farewell
<1>4. /\ net'[c][s] = <<>>
      /\ net'[c][Peer(s)] = IF cc[c][Peer(s)].state = "closed" THEN net[c][Peer(s)]
                            ELSE net[c][Peer(s)] \o out
      /\ out \in {<<>>, <<Disconnect>>}
  BY <1>1 DEF Closes, Drained, Farewell
<1>5. \A d \in Conns, t \in Sides :
        cc'[d][t].state = "closed" => net'[d][t] = <<>>
  BY <1>1, <1>2, <1>3, <1>4 DEF Wire
<1>6. \A i \in DOMAIN net'[c][Peer(s)] :
        i # 1 => net'[c][Peer(s)][i] = Disconnect
  <2> DEFINE q == net[c][Peer(s)]
             z == q \o out
  <2>1. q \in Seq(Msgs) /\ out \in Seq(Msgs)
    <3>1. Disconnect \in Msgs
      BY DEF Msgs, FromServer
    <3>2. <<Disconnect>> \in Seq(Msgs) /\ <<>> \in Seq(Msgs)
      BY <3>1
    <3>3. q \in Seq(Msgs)
      BY <1>1 DEF Typed
    <3> QED BY <1>4, <3>2, <3>3, Zenon
  <2>2. \A i \in DOMAIN q : i # 1 => q[i] = Disconnect
    BY <1>1 DEF Wire
  <2>3. /\ z \in Seq(Msgs) /\ Len(z) = Len(q) + Len(out)
        /\ \A i \in 1 .. Len(q) + Len(out) :
             z[i] = IF i <= Len(q) THEN q[i] ELSE out[i - Len(q)]
    <3> HIDE DEF q
    <3> QED BY <2>1, ConcatProperties
  <2>4. Len(q) \in Nat /\ Len(out) \in Nat /\ DOMAIN q = 1 .. Len(q)
        /\ \A j \in 1 .. Len(out) : out[j] = Disconnect
    <3> HIDE DEF q
    <3> QED BY <1>4, <2>1
  <2>5. DOMAIN z = 1 .. Len(q) + Len(out)
    <3> HIDE DEF z, q
    <3> QED BY <2>3
  <2>6. \A i \in DOMAIN z : i # 1 => z[i] = Disconnect
    <3> HIDE DEF z, q
    <3> SUFFICES ASSUME NEW i \in DOMAIN z, i # 1 PROVE z[i] = Disconnect
      OBVIOUS
    <3>1. CASE i <= Len(q)
      <4>1. i \in 1 .. Len(q) /\ i \in 1 .. Len(q) + Len(out)
        BY <2>4, <2>5, <3>1
      <4> QED BY <2>2, <2>3, <2>4, <3>1, <4>1
    <3>2. CASE ~(i <= Len(q))
      <4>1. i - Len(q) \in 1 .. Len(out) /\ i \in 1 .. Len(q) + Len(out)
        BY <2>4, <2>5, <3>2
      <4> QED BY <2>3, <2>4, <3>2, <4>1
    <3> QED BY <3>1, <3>2
  <2> QED BY <1>4, <2>2, <2>6
<1>7. \A d \in Conns, t \in Sides : \A i \in DOMAIN net'[d][t] :
        /\ net'[d][t][i] = Disconnect => cc'[d][Peer(t)].state = "closed"
        /\ i # 1 => net'[d][t][i] = Disconnect
  <2> SUFFICES ASSUME NEW d \in Conns, NEW t \in Sides, NEW i \in DOMAIN net'[d][t]
               PROVE  /\ net'[d][t][i] = Disconnect => cc'[d][Peer(t)].state = "closed"
                      /\ i # 1 => net'[d][t][i] = Disconnect
    OBVIOUS
  <2>1. Peer(t) \in Sides
    BY DEF Peer, Sides
  <2>2. CASE d # c
    BY <1>2, <1>3, <2>1, <2>2 DEF Wire
  <2>3. CASE d = c /\ t = s
    BY <1>4, <2>3
  <2>4. CASE d = c /\ t = Peer(s)
    BY <1>1, <1>2, <1>6, <2>4
  <2> QED BY <1>1, <2>2, <2>3, <2>4
<1>8. \A d \in Conns :
        /\ Kind(d, "client")' \in Calm \/ Kind(d, "server")' \in Calm
        /\ Kind(d, "client")' \in {"Hello", "Ack", "Connected"} \cup Calm
        /\ Kind(d, "server")' \in {"Init"} \cup Setup \cup Calm
  <2> SUFFICES ASSUME NEW d \in Conns
               PROVE  /\ Kind(d, "client")' \in Calm \/ Kind(d, "server")' \in Calm
                      /\ Kind(d, "client")' \in {"Hello", "Ack", "Connected"} \cup Calm
                      /\ Kind(d, "server")' \in {"Init"} \cup Setup \cup Calm
    OBVIOUS
  <2>1. CASE d # c
    BY <2>1, ClosesKinds DEF Wire, Sides
  <2>2. CASE d = c /\ s = "client"
    BY <2>2, ClosesKinds DEF Wire, Peer, Calm
  <2>3. CASE d = c /\ s = "server"
    BY <2>3, ClosesKinds DEF Wire, Peer, Calm
  <2> QED BY <2>1, <2>2, <2>3 DEF Sides
<1> QED BY <1>5, <1>7, <1>8 DEF Wire

\* What closing does to the ports: that of the closed end, if the end was using
\* it, and no other.
LEMMA ClosesPorts ==
  ASSUME Typed, Opened, Linked, NEW c \in Conns, NEW s \in Sides, NEW out,
         Closes(c, s, out)
  PROVE  /\ \A x \in Procs : port'[x] # port[x] =>
              x = Proc(c, s) /\ port[x].cc = c /\ Ended(c, port[x], port'[x])
         /\ \A x \in Procs : proc'[x] = "up" => proc[x] = "up"
         /\ (port[Proc(c, s)].cc = c /\ proc'[Proc(c, s)] = "up") =>
              Ended(c, port[Proc(c, s)], port'[Proc(c, s)])
<1>1. /\ Proc(c, s) \in Procs /\ c \in Made /\ Sides = {"client", "server"}
      /\ Proc(c, s) = IF s = "server" THEN Server ELSE owner[c]
      /\ owner[c] # Server /\ c # 0
  <2>1. c \in Made /\ c # 0
    BY DEF Closes, Conns
  <2>2. /\ Proc(c, s) \in Procs /\ Sides = {"client", "server"}
        /\ Proc(c, s) = IF s = "server" THEN Server ELSE owner[c]
        /\ owner[c] # Server
    BY <2>1, Ends, Zenon
  <2> QED BY <2>1, <2>2
<1>2. cc[c][s].bound => port[Proc(c, s)].cc = c
  BY <1>1 DEF Closes, Linked
<1>3. port[Proc(c, s)].cc = c => cc[c][s].bound
  <2>1. CASE s = "server"
    <3>1. Server \in Procs /\ Proc(c, s) = Server
      BY <1>1, <2>1
    <3>2. (port[Server].cc # 0) => cc[port[Server].cc]["server"].bound
      BY <3>1 DEF Linked
    <3> QED BY <1>1, <2>1, <3>1, <3>2
  <2>2. CASE s = "client"
    BY <1>1, <2>2 DEF Opened
  <2> QED BY <1>1, <2>1, <2>2
<1>4. \A x \in Procs : proc'[x] = "up" => proc[x] = "up"
  BY DEF Closes
<1>5. \A x \in Procs : port'[x] # port[x] =>
        x = Proc(c, s) /\ port[x].cc = c /\ Ended(c, port[x], port'[x])
  BY <1>1, <1>2 DEF Closes
<1>6. (port[Proc(c, s)].cc = c /\ proc'[Proc(c, s)] = "up") =>
        Ended(c, port[Proc(c, s)], port'[Proc(c, s)])
  BY <1>1, <1>3 DEF Closes
<1> QED BY <1>4, <1>5, <1>6

\* Closing keeps ports and channels referring to each other, and frees the port.
LEMMA ClosesLinked ==
  ASSUME Typed, Opened, Wire, Linked, Freed, NEW c \in Conns, NEW s \in Sides, NEW out,
         Closes(c, s, out)
  PROVE  Linked' /\ Freed'
<1>1. c \in Made /\ UNCHANGED owner /\ Made' = Made /\ Made \subseteq Conns
  BY ControlAssumption DEF Closes, Made, Conns, Typed
<1>2. /\ \A d \in Conns, t \in Sides : (d # c \/ t # s) => cc'[d][t] = cc[d][t]
      /\ cc'[c][s].state = "closed" /\ cc'[c][s].bound = cc[c][s].bound
      /\ cc'[c][s].isConnected = cc[c][s].isConnected
  BY DEF Closes
<1>3. \A d \in Conns, t \in Sides :
        /\ cc'[d][t].bound = cc[d][t].bound
        /\ cc'[d][t].isConnected = cc[d][t].isConnected
        /\ cc'[d][t].state = "open" => cc[d][t].state = "open" /\ (d # c \/ t # s)
  BY <1>2
<1>4. \A d \in Made, t \in Sides :
        /\ Proc(d, t) \in Procs /\ (Proc(d, t) = Server <=> t = "server")
        /\ Proc(d, t) = IF t = "server" THEN Server ELSE owner[d]
        /\ Proc(d, t)' = Proc(d, t) /\ d # 0
  BY <1>1, Ends DEF Proc, Conns
<1>5. Sides = {"client", "server"} /\ Server \in Procs
  BY DEF Sides, Procs
<1>6. \A x \in Procs : port'[x].cc = port[x].cc
                       \/ (x = Proc(c, s) /\ port[x].cc = c /\ port'[x].cc = 0)
  BY ClosesPorts DEF Ended
<1>7. \A x \in Procs : port'[x].cc # 0 =>
        /\ port'[x].cc \in Made
        /\ x # Server => owner[port'[x].cc] = x
        /\ x = Server => cc'[port'[x].cc]["server"].bound
  BY <1>1, <1>3, <1>5, <1>6 DEF Linked
<1>8. ASSUME NEW d \in Made, NEW t \in Sides, proc'[Proc(d, t)] = "up",
             cc'[d][t].state = "open", cc'[d][t].bound
      PROVE  port'[Proc(d, t)].cc = d
  <2>1. proc[Proc(d, t)] = "up"
    BY <1>4, <1>8, ClosesPorts
  <2>2. port[Proc(d, t)].cc = d
    BY <1>1, <1>3, <1>8, <2>1 DEF Linked, Up, Open
  <2>3. d # c \/ t # s
    BY <1>1, <1>3, <1>8
  <2>4. ~(Proc(d, t) = Proc(c, s) /\ d = c)
    BY <1>1, <1>4, <1>5, <2>3
  <2> QED BY <1>4, <1>6, <2>2, <2>4
<1>9. \A d \in Made :
        /\ Kind(d, "client")' = "Ack" => Kind(d, "client") = "Ack"
        /\ Kind(d, "client")' = "Connected" => Kind(d, "client") = "Connected"
        /\ Kind(d, "server")' \in Setup => Kind(d, "server") \in Setup
  <2> SUFFICES ASSUME NEW d \in Made
               PROVE  /\ Kind(d, "client")' = "Ack" => Kind(d, "client") = "Ack"
                      /\ Kind(d, "client")' = "Connected" =>
                           Kind(d, "client") = "Connected"
                      /\ Kind(d, "server")' \in Setup => Kind(d, "server") \in Setup
    OBVIOUS
  <2>1. CASE d # c
    BY <1>1, <1>5, <2>1, ClosesKinds
  <2>2. CASE d = c /\ s = "client"
    BY <2>2, ClosesKinds DEF Peer, Setup
  <2>3. CASE d = c /\ s = "server"
    BY <2>3, ClosesKinds DEF Peer, Setup
  <2> QED BY <1>5, <2>1, <2>2, <2>3
<1>10. \A d \in Made :
         /\ (Kind(d, "client")' = "Ack" \/ Kind(d, "server")' \in Setup)
              => cc'[d]["server"].bound
         /\ cc'[d]["server"].isConnected => cc'[d]["server"].bound
         /\ (Kind(d, "client")' = "Connected" \/ cc'[d]["client"].isConnected)
              => cc'[d]["server"].isConnected
  BY <1>1, <1>3, <1>5, <1>9 DEF Linked
<1>11. Linked'
  BY <1>1, <1>4, <1>7, <1>8, <1>10 DEF Linked, Up, Open
<1>12. Freed'
  <2> SUFFICES ASSUME NEW d \in Made, NEW t \in Sides, proc'[Proc(d, t)] = "up",
                      port'[Proc(d, t)].cc = d, cc'[d][t].state = "closed"
               PROVE  port'[Proc(d, t)].failed \/ port'[Proc(d, t)].region = "fd"
    BY <1>1, <1>4 DEF Freed, Up
  <2>1. port[Proc(d, t)].cc = d /\ proc[Proc(d, t)] = "up"
    BY <1>4, <1>6, ClosesPorts
  <2>2. CASE d = c /\ t = s
    BY <1>1, <1>4, <2>1, <2>2, ClosesPorts DEF Ended
  <2>3. CASE d # c \/ t # s
    <3>1. ~(Proc(d, t) = Proc(c, s) /\ d = c)
      BY <1>1, <1>4, <1>5, <2>3
    <3>2. port'[Proc(d, t)] = port[Proc(d, t)]
      BY <1>4, <2>1, <3>1, ClosesPorts
    <3>3. cc'[d][t] = cc[d][t]
      BY <1>1, <1>2, <2>3
    <3> QED BY <2>1, <3>2, <3>3 DEF Freed, Up
  <2> QED BY <2>2, <2>3
<1> QED BY <1>11, <1>12

\* Closing leaves queue and rings of the other connections alone.
LEMMA ClosesRings ==
  ASSUME Typed, Opened, Wire, Linked, Queued, ServerRings, ClientRings,
         NEW c \in Conns, NEW s \in Sides, NEW out, Closes(c, s, out)
  PROVE  Queued' /\ ServerRings' /\ ClientRings'
<1>1. c \in Made /\ UNCHANGED owner /\ Made' = Made /\ Made \subseteq Conns
  BY ControlAssumption DEF Closes, Made, Conns, Typed
<1>2. /\ \A d \in Conns, t \in Sides : (d # c \/ t # s) => cc'[d][t] = cc[d][t]
      /\ cc'[c][s].state = "closed" /\ cc'[c][s].bound = cc[c][s].bound
      /\ cc'[c][s].isConnected = cc[c][s].isConnected
      /\ cc'[c][s].msgQueue \in {cc[c][s].msgQueue, <<>>}
  BY DEF Closes
<1>3. \A d \in Made :
        owner[d] \in Clients /\ owner[d] \in Procs /\ owner[d] # Server /\ d # 0
  BY <1>1, Ends DEF Conns, Procs, Sides
<1>4. Sides = {"client", "server"} /\ Server \in Procs /\ Clients \subseteq Procs
  BY DEF Sides, Procs
<1>5. Proc(c, s) = IF s = "server" THEN Server ELSE owner[c]
  BY DEF Proc
<1>6. \A x \in Procs : port'[x] # port[x] =>
        x = Proc(c, s) /\ port[x].cc = c /\ Ended(c, port[x], port'[x])
  BY ClosesPorts
<1>7. proc'[Server] = "up" => proc[Server] = "up"
  BY <1>4, ClosesPorts
<1>8. \A d \in Made : d # c =>
        /\ cc'[d]["client"] = cc[d]["client"] /\ cc'[d]["server"] = cc[d]["server"]
        /\ Kind(d, "client")' = Kind(d, "client") /\ Kind(d, "server")' = Kind(d, "server")
        /\ Word(d)' = Word(d)
  BY <1>1, <1>2, <1>4, ClosesKinds
<1>9. s = "client" =>
        /\ cc'[c]["server"] = cc[c]["server"] /\ cc'[c]["client"].state = "closed"
        /\ cc'[c]["client"].isConnected = cc[c]["client"].isConnected
        /\ Kind(c, "client")' = "nothing"
        /\ Kind(c, "server")' \notin Calm =>
             Kind(c, "server")' = Kind(c, "server") /\ Word(c)' = Word(c)
  BY <1>2, <1>4, ClosesKinds DEF Peer, Calm
<1>10. s = "server" =>
        /\ cc'[c]["client"] = cc[c]["client"] /\ cc'[c]["server"].state = "closed"
        /\ cc'[c]["server"].isConnected = cc[c]["server"].isConnected
        /\ Kind(c, "server")' = "nothing"
        /\ Kind(c, "client")' \notin Calm => Kind(c, "client")' = Kind(c, "client")
  BY <1>2, <1>4, ClosesKinds DEF Peer, Calm
<1> DEFINE n(d) == RunPairs(owner[d])
<1>q. Queued'
  <2> SUFFICES ASSUME NEW d \in Made
               PROVE  /\ Rest(n(d), cc'[d]["client"].msgQueue)
                      /\ cc'[d]["client"].state = "open" /\ proc'[Server] = "up" =>
                         /\ Kind(d, "client")' = "Ack" => cc'[d]["client"].msgQueue # <<>>
                         /\ Kind(d, "server")' = "Init" =>
                              /\ cc'[d]["client"].msgQueue # <<>>
                              /\ cc'[d]["client"].msgQueue[1] = AddRegionMsg
                         /\ Kind(d, "server")' \in {"AddRegion", "AddRing"} =>
                              /\ cc'[d]["client"].msgQueue # <<>>
                              /\ Follows(n(d), Word(d)', cc'[d]["client"].msgQueue[1])
    BY <1>1 DEF Queued, QueueOf, Open, Up
  <2>1. CASE d # c
    BY <1>7, <1>8, <2>1 DEF Queued, QueueOf, Open, Up
  <2>2. CASE d = c /\ s = "server"
    BY <1>7, <1>10, <2>2 DEF Queued, QueueOf, Open, Up, Calm
  <2>3. CASE d = c /\ s = "client"
    <3>1. Rest(n(c), <<>>)
      BY DEF Rest
    <3>2. Rest(n(c), cc[c]["client"].msgQueue)
      BY <1>1 DEF Queued, QueueOf
    <3>3. cc'[c]["client"].msgQueue = cc[c]["client"].msgQueue
            \/ cc'[c]["client"].msgQueue = <<>>
      BY <1>2, <2>3
    <3> QED BY <1>9, <2>3, <3>1, <3>2, <3>3
  <2> QED BY <1>4, <2>1, <2>2, <2>3
<1>s. ServerRings'
  <2> SUFFICES ASSUME NEW d \in Made
               PROVE  /\ (/\ proc'[Server] = "up" /\ cc'[d]["server"].state = "open"
                          /\ Kind(d, "server")' \in Setup) =>
                           Expects(n(d), port'[Server], Word(d)')
                      /\ (/\ proc'[Server] = "up" /\ cc'[d]["server"].state = "open"
                          /\ Kind(d, "client")' = "Ack") =>
                           Expects(n(d), port'[Server], cc'[d]["client"].msgQueue[1])
                      /\ (port'[Server].cc = d /\ cc'[d]["server"].isConnected) =>
                           ServerFull(n(d), port'[Server])
    BY <1>1 DEF ServerRings, ServerFull, QueueOf, Open, Up
  <2>1. CASE d # c
    <3>1. port'[Server].cc = d => port'[Server] = port[Server]
      BY <1>3, <1>4, <1>6, <2>1 DEF Ended
    <3>2. port[Server].cc = d => port'[Server] = port[Server]
      BY <1>4, <1>6, <2>1
    <3>3. (/\ proc[Server] = "up" /\ cc[d]["server"].state = "open"
           /\ Kind(d, "client") = "Ack" \/ Kind(d, "server") \in Setup)
             => port[Server].cc = d
      BY <1>4 DEF Linked, Up, Open, Proc
    <3> QED BY <1>7, <1>8, <2>1, <3>1, <3>2, <3>3
            DEF ServerRings, ServerFull, QueueOf, Open, Up
  <2>2. CASE d = c /\ s = "server"
    <3>1. ASSUME port'[Server].cc = c, cc'[c]["server"].isConnected
          PROVE  ServerFull(n(c), port'[Server])
      <4>1. port[Server].cc = c
        BY <1>4, <1>6, <3>1
      <4>2. ServerFull(n(c), port[Server])
        BY <1>1, <1>10, <2>2, <3>1, <4>1 DEF ServerRings, ServerFull
      <4> QED BY <1>3, <1>4, <1>6, <2>2, <3>1, <4>2 DEF Ended, ServerFull
    <3> QED BY <1>10, <2>2, <3>1
  <2>3. CASE d = c /\ s = "client"
    <3>1. port'[Server] = port[Server]
      BY <1>1, <1>3, <1>4, <1>5, <1>6, <2>3
    <3>2. \A k \in Setup : k \notin Calm
      BY DEF Setup, Calm
    <3>3. Kind(c, "client")' # "Ack"
      BY <1>9, <2>3
    <3>4. Kind(c, "server")' \in Setup =>
            Kind(c, "server") \in Setup /\ Word(c)' = Word(c)
      BY <1>9, <2>3, <3>2
    <3> QED BY <1>7, <1>9, <2>3, <3>1, <3>3, <3>4
            DEF ServerRings, ServerFull, QueueOf, Open, Up
  <2> QED BY <1>4, <2>1, <2>2, <2>3
<1>c. ClientRings'
  <2>1. \A x \in Clients : port'[x].region # "fd"
    BY <1>4, <1>6 DEF ClientRings, Ended
  <2>2. \A x \in Procs : port'[x].cc = 0 => port'[x].tx = <<>> /\ port'[x].rx = <<>>
    BY <1>1, <1>3, <1>6 DEF ClientRings, Ended
  <2>3. ASSUME NEW d \in Made, port'[owner[d]].cc = d
        PROVE  /\ (cc'[d]["server"].state = "none" \/ Kind(d, "client")' = "Hello") =>
                    port'[owner[d]].tx = <<>> /\ port'[owner[d]].rx = <<>>
               /\ (\/ Kind(d, "client")' \in {"Ack", "Connected"}
                   \/ Kind(d, "server")' \notin Calm \/ cc'[d]["client"].isConnected) =>
                    ClientFull(n(d), port'[owner[d]])
    <3>1. CASE d # c
      <4>1. port'[owner[d]] = port[owner[d]]
        BY <1>3, <1>6, <2>3, <3>1 DEF Ended
      <4> QED BY <1>8, <2>3, <3>1, <4>1 DEF ClientRings, ClientFull
    <3>2. CASE d = c /\ s = "server"
      <4>1. port'[owner[c]] = port[owner[c]]
        BY <1>1, <1>3, <1>5, <1>6, <3>2
      <4>2. /\ Kind(c, "client")' = "Hello" => Kind(c, "client") = "Hello"
            /\ Kind(c, "client")' \in {"Ack", "Connected"} =>
                 Kind(c, "client") \in {"Ack", "Connected"}
            /\ Kind(c, "server")' \in Calm
        BY <1>10, <3>2 DEF Calm
      <4> QED BY <1>10, <2>3, <3>2, <4>1, <4>2 DEF ClientRings, ClientFull
    <3>3. CASE d = c /\ s = "client"
      <4>1. port[owner[c]].cc = c
        BY <1>1, <1>3, <1>6, <2>3, <3>3
      <4>2. port[owner[c]].region # "fd"
        BY <1>1, <1>3 DEF ClientRings
      <4>3. /\ port'[owner[c]].tx = port[owner[c]].tx
            /\ port'[owner[c]].rx = port[owner[c]].rx
            /\ port'[owner[c]].region \in {port[owner[c]].region, "mapped"}
        BY <1>1, <1>3, <1>6, <2>3, <3>3, <4>2 DEF Ended
      <4>4. /\ (cc[c]["server"].state = "none" \/ Kind(c, "client") = "Hello") =>
                 port[owner[c]].tx = <<>> /\ port[owner[c]].rx = <<>>
            /\ (\/ Kind(c, "client") \in {"Ack", "Connected"}
                \/ Kind(c, "server") \notin Calm \/ cc[c]["client"].isConnected) =>
                 ClientFull(n(c), port[owner[c]])
        BY <1>1, <4>1 DEF ClientRings, ClientFull
      <4>5. /\ Kind(c, "client")' = "nothing"
            /\ Kind(c, "server")' \notin Calm => Kind(c, "server") \notin Calm
        BY <1>9, <3>3
      <4> QED BY <1>9, <3>3, <4>3, <4>4, <4>5 DEF ClientFull
    <3> QED BY <1>4, <3>1, <3>2, <3>3
  <2> QED BY <1>1, <2>1, <2>2, <2>3 DEF ClientRings, ClientFull
<1> QED BY <1>q, <1>s, <1>c

\* Closing an end preserves the invariant.
LEMMA ClosesInv ==
  ASSUME IInv, Typed', NEW c \in Conns, NEW s \in Sides, NEW out, Closes(c, s, out)
  PROVE  IInv'
<1>1. Typed /\ Opened /\ Wire /\ Linked /\ Queued /\ ServerRings /\ ClientRings /\ Freed
  BY DEF IInv
<1>2. Opened' /\ Wire'
  BY <1>1, ClosesOpened, ClosesWire
<1>3. Linked' /\ Freed'
  BY <1>1, ClosesLinked
<1>4. Queued' /\ ServerRings' /\ ClientRings'
  BY <1>1, ClosesRings
<1> QED BY <1>2, <1>3, <1>4 DEF IInv

\* The channel record close leaves behind.
LEMMA ClosedChannel ==
  ASSUME NEW o \in ChanRec
  PROVE  /\ [o EXCEPT !.msgQueue = <<>>] \in ChanRec
         /\ [o EXCEPT !.msgQueue = <<>>].msgQueue = <<>>
         /\ [o EXCEPT !.msgQueue = <<>>].state = o.state
         /\ [o EXCEPT !.msgQueue = <<>>].bound = o.bound
         /\ [o EXCEPT !.msgQueue = <<>>].isConnected = o.isConnected
         /\ [o EXCEPT !.state = "closed"] \in ChanRec
         /\ [o EXCEPT !.state = "closed"].state = "closed"
         /\ [o EXCEPT !.state = "closed"].msgQueue = o.msgQueue
         /\ [o EXCEPT !.state = "closed"].bound = o.bound
         /\ [o EXCEPT !.state = "closed"].isConnected = o.isConnected
<1>1. \A e \in Seq(FromClient) :
         /\ [o EXCEPT !.msgQueue = e] \in ChanRec
         /\ [o EXCEPT !.msgQueue = e].msgQueue = e
         /\ [o EXCEPT !.msgQueue = e].state = o.state
         /\ [o EXCEPT !.msgQueue = e].bound = o.bound
         /\ [o EXCEPT !.msgQueue = e].isConnected = o.isConnected
  BY DEF ChanRec
<1>2. <<>> \in Seq(FromClient)
  OBVIOUS
<1>3. /\ [o EXCEPT !.state = "closed"] \in ChanRec
      /\ [o EXCEPT !.state = "closed"].state = "closed"
      /\ [o EXCEPT !.state = "closed"].msgQueue = o.msgQueue
      /\ [o EXCEPT !.state = "closed"].bound = o.bound
      /\ [o EXCEPT !.state = "closed"].isConnected = o.isConnected
  BY DEF ChanRec
<1> QED BY <1>1, <1>2, <1>3, Zenon

\* A closed end reads nothing more, its peer perhaps a Disconnect.
LEMMA ExchangeAll ==
  ASSUME Typed, NEW c \in Conns, NEW s \in Sides, NEW out \in Farewell,
         Exchange(c, s, Len(net[c][s]), out)
  PROVE  /\ net' \in [Conns -> [Sides -> Seq(Msgs)]]
         /\ Drained(c, s, out)
<1>1. out \in Seq(Msgs)
  <2>1. Disconnect \in Msgs
    BY DEF Msgs, FromServer
  <2>2. <<Disconnect>> \in Seq(Msgs) /\ <<>> \in Seq(Msgs)
    BY <2>1
  <2> QED BY <2>2, Zenon DEF Farewell
<1> DEFINE q == net[c][s]
<1>2. q \in Seq(Msgs)
  BY DEF Typed
<1>3. Len(q) \in Nat
  BY <1>2
<1>4. net' \in [Conns -> [Sides -> Seq(Msgs)]]
  BY <1>1, <1>3, ExchangeTyped
<1>5. SubSeq(q, Len(q) + 1, Len(q)) = <<>>
  <2> HIDE DEF q
  <2> QED BY <1>2, <1>3
<1>6. \A d \in Conns, t \in Sides :
        net'[d][t] = IF d # c THEN net[d][t]
                     ELSE IF t = s THEN SubSeq(q, Len(q) + 1, Len(q))
                     ELSE IF cc[c][t].state = "closed" THEN net[c][t]
                     ELSE net[c][t] \o out
  BY ExchangeNet
<1> QED BY <1>4, <1>5, <1>6, Zenon DEF Drained

\* Every way to close an end preserves the invariant.
LEMMA ShutInv ==
  ASSUME IInv, NEW c \in Conns, NEW s \in Sides, c \in Made, Open(c, s), Up(Proc(c, s)),
         NEW p \in PortRec,
         p = port[Proc(c, s)] \/ (/\ cc[c][s].bound
                                  /\ p = [port[Proc(c, s)] EXCEPT !.region = "mapped"]),
         NEW chan \in ChanRec,
         chan = cc[c][s] \/ chan = [cc[c][s] EXCEPT !.msgQueue = <<>>],
         NEW out \in Farewell,
         Exchange(c, s, Len(net[c][s]), out), Shut(c, s, p, chan),
         UNCHANGED <<owner, backlog>>
  PROVE  IInv'
<1> DEFINE q == Proc(c, s)
           o == port[q]
           last == [chan EXCEPT !.state = "closed"]
<1>0. Typed /\ Opened /\ Linked
  BY DEF IInv
<1>1. q \in Procs /\ o \in PortRec /\ cc[c][s] \in ChanRec /\ c # 0
  <2>1. q \in Procs
    BY <1>0, Ends
  <2> QED BY <1>0, <2>1 DEF Typed, Conns
<1>2. /\ last \in ChanRec /\ last.state = "closed" /\ last.bound = cc[c][s].bound
      /\ last.isConnected = cc[c][s].isConnected
      /\ last.msgQueue \in {cc[c][s].msgQueue, <<>>}
      /\ chan.bound = cc[c][s].bound
  <2>1. /\ chan.bound = cc[c][s].bound /\ chan.isConnected = cc[c][s].isConnected
        /\ chan.msgQueue \in {cc[c][s].msgQueue, <<>>}
    BY <1>1, ClosedChannel, ZenonT(40)
  <2>2. /\ last \in ChanRec /\ last.state = "closed" /\ last.bound = chan.bound
        /\ last.isConnected = chan.isConnected /\ last.msgQueue = chan.msgQueue
    BY ClosedChannel, Zenon
  <2> HIDE DEF last
  <2> QED BY <2>1, <2>2, Zenon
<1>3. cc' = [cc EXCEPT ![c][s] = last]
  BY DEF Shut
<1> HIDE DEF last
<1>4. /\ cc' \in [Conns -> [Sides -> ChanRec]] /\ cc'[c][s] = last
      /\ \A d \in Conns, t \in Sides : (d # c \/ t # s) => cc'[d][t] = cc[d][t]
  BY <1>0, <1>2, <1>3 DEF Typed
<1>5. net' \in [Conns -> [Sides -> Seq(Msgs)]] /\ Drained(c, s, out)
  BY <1>0, ExchangeAll, Zenon
<1>6. cc[c][s].bound => o.cc = c
  BY <1>0 DEF Linked
<1> DEFINE outcome == \/ port'[q] = o /\ (cc[c][s].bound => proc'[q] = "panic")
                      \/ cc[c][s].bound /\ Ended(c, o, port'[q])
           rest == /\ proc' \in [Procs -> {"up", "dead", "panic"}]
                   /\ port' \in [Procs -> PortRec]
                   /\ \A x \in Procs :
                        proc'[x] = proc[x] \/ (x = q /\ proc'[x] = "panic")
                   /\ \A x \in Procs : x # q => port'[x] = port[x]
<1>7. outcome /\ rest
  <2>1. CASE chan.bound /\ ClosesTwice(p)
    <3>1. proc' = [proc EXCEPT ![q] = "panic"] /\ UNCHANGED port
      BY <2>1 DEF Shut
    <3>2. rest /\ proc'[q] = "panic" /\ port'[q] = o
      BY <1>0, <1>1, <3>1 DEF Typed
    <3> HIDE DEF rest
    <3> QED BY <3>2
  <2>2. CASE ~(chan.bound /\ ClosesTwice(p))
    <3>1. PICK r \in IF DefaultCallback THEN {"ok"} ELSE Results :
            /\ port' = [port EXCEPT ![q] = IF chan.bound THEN Disconnected(p, r) ELSE p]
            /\ UNCHANGED proc
      BY <2>2, Zenon DEF Shut
    <3>2. r \in {"ok", "error"}
      BY ControlAssumption
    <3>3. CASE chan.bound
      <4>1. port' = [port EXCEPT ![q] = Disconnected(p, r)]
        BY <3>1, <3>3
      <4>2. o.cc = c /\ cc[c][s].bound
        BY <1>2, <1>6, <3>3
      <4>3. Disconnected(p, r) \in PortRec /\ Ended(c, o, Disconnected(p, r))
        <5>1. p \in {o, [o EXCEPT !.region = "mapped"]}
          BY Zenon
        <5> QED BY <1>1, <3>2, <4>2, <5>1, DisconnectedEnds, Zenon
      <4>4. rest /\ port'[q] = Disconnected(p, r)
        BY <1>0, <1>1, <3>1, <4>1, <4>3 DEF Typed
      <4> HIDE DEF rest
      <4> QED BY <4>2, <4>3, <4>4
    <3>4. CASE ~chan.bound
      <4>1. p = o /\ ~cc[c][s].bound
        BY <1>2, <3>4
      <4>2. port' = [port EXCEPT ![q] = o]
        BY <3>1, <3>4, <4>1
      <4>3. rest /\ port'[q] = o
        BY <1>0, <1>1, <3>1, <4>2 DEF Typed
      <4> HIDE DEF rest
      <4> QED BY <4>1, <4>3
    <3> QED BY <3>3, <3>4
  <2> QED BY <2>1, <2>2
<1>8. Typed'
  BY <1>0, <1>4, <1>5, <1>7 DEF Typed
<1>9. Closes(c, s, out)
  BY <1>2, <1>4, <1>5, <1>7 DEF Closes
<1> QED BY <1>8, <1>9, ClosesInv

\* The error exit of a handler, and Port.Disconnect.
LEMMA FailInv ==
  ASSUME IInv, NEW c \in Conns, NEW s \in Sides, c \in Made, Open(c, s), Up(Proc(c, s)),
         NEW p \in PortRec,
         p = port[Proc(c, s)] \/ (/\ cc[c][s].bound
                                  /\ p = [port[Proc(c, s)] EXCEPT !.region = "mapped"]),
         Fail(c, s, p), UNCHANGED <<owner, backlog>>
  PROVE  IInv'
<1> DEFINE chan == [cc[c][s] EXCEPT !.msgQueue = <<>>]
<1>1. cc[c][s] \in ChanRec
  BY DEF IInv, Typed
<1>2. chan \in ChanRec
  BY <1>1, ClosedChannel, Zenon
<1>3. <<Disconnect>> \in Farewell
  BY DEF Farewell
<1>4. Exchange(c, s, Len(net[c][s]), <<Disconnect>>) /\ Shut(c, s, p, chan)
  BY Zenon DEF Fail
<1>5. chan = cc[c][s] \/ chan = [cc[c][s] EXCEPT !.msgQueue = <<>>]
  BY Zenon
<1> HIDE DEF chan
<1> QED BY <1>2, <1>3, <1>4, <1>5, ShutInv, Zenon DEF chan

\* A Disconnect message, or the hang-up of the peer, while the end has a port.
LEMMA QuietShutInv ==
  ASSUME IInv, NEW c \in Conns, NEW s \in Sides, c \in Made, Open(c, s), Up(Proc(c, s)),
         Exchange(c, s, Len(net[c][s]), <<>>),
         Shut(c, s, port[Proc(c, s)], cc[c][s]), UNCHANGED <<owner, backlog>>
  PROVE  IInv'
<1>1. cc[c][s] \in ChanRec /\ port[Proc(c, s)] \in PortRec
  <2>1. Typed
    BY DEF IInv
  <2>2. Proc(c, s) \in Procs
    BY <2>1, Ends
  <2> QED BY <2>1, <2>2 DEF Typed
<1>2. <<>> \in Farewell
  BY DEF Farewell
<1>3. \A p, chan : p = port[Proc(c, s)] /\ chan = cc[c][s] =>
        (/\ p = port[Proc(c, s)] \/ (/\ cc[c][s].bound
                                     /\ p = [port[Proc(c, s)] EXCEPT !.region = "mapped"])
         /\ chan = cc[c][s] \/ chan = [cc[c][s] EXCEPT !.msgQueue = <<>>])
  BY Zenon
<1> QED BY <1>1, <1>2, <1>3, ShutInv, Zenon

\* A Disconnect message.
LEMMA DisconnectInv ==
  ASSUME IInv, NEW c \in Conns, NEW s \in Sides, HandleDisconnect(c, s)
  PROVE  IInv'
<1>1. c \in Made /\ Open(c, s) /\ Up(Proc(c, s))
  <2>1. Receives(c, s, "Disconnect")
    BY DEF HandleDisconnect
  <2>2. c \in Made /\ Open(c, s)
    BY <2>1, ReceivesFacts
  <2> QED BY <2>1, <2>2 DEF Receives, Up
<1> QED BY <1>1, QuietShutInv DEF HandleDisconnect

\* A hang-up, which ends the process when the end has no port yet.
LEMMA HupInv ==
  ASSUME IInv, NEW c \in Conns, NEW s \in Sides, HandleHup(c, s)
  PROVE  IInv'
<1>0. Typed
  BY DEF IInv
<1>1. c \in Made /\ Open(c, s) /\ Up(Proc(c, s))
  BY <1>0 DEF HandleHup, Made, Conns, Typed, Up
<1>2. Exchange(c, s, Len(net[c][s]), <<>>) /\ UNCHANGED <<owner, backlog>>
  BY DEF HandleHup
<1>3. CASE cc[c][s].bound
  <2>1. Shut(c, s, port[Proc(c, s)], cc[c][s])
    BY <1>3 DEF HandleHup
  <2> QED BY <1>1, <1>2, <2>1, QuietShutInv
<1>4. CASE ~cc[c][s].bound
  <2> DEFINE q == Proc(c, s)
             last == [cc[c][s] EXCEPT !.state = "closed"]
  <2>1. /\ proc' = [proc EXCEPT ![q] = "panic"] /\ UNCHANGED port
        /\ cc' = [cc EXCEPT ![c][s].state = "closed"]
    BY <1>4 DEF HandleHup
  <2>2. <<>> \in Farewell /\ q \in Procs /\ cc[c][s] \in ChanRec
    BY <1>0, <1>1, Ends DEF Farewell, Typed
  <2>3. /\ last \in ChanRec /\ last.state = "closed" /\ last.bound = cc[c][s].bound
        /\ last.isConnected = cc[c][s].isConnected
        /\ last.msgQueue = cc[c][s].msgQueue
    BY <2>2, ClosedChannel, Zenon
  <2>4. cc' = [cc EXCEPT ![c][s] = last]
    BY <1>0, <2>1 DEF Typed
  <2> HIDE DEF last
  <2>5. /\ cc' \in [Conns -> [Sides -> ChanRec]] /\ cc'[c][s] = last
        /\ \A d \in Conns, t \in Sides : (d # c \/ t # s) => cc'[d][t] = cc[d][t]
    BY <1>0, <2>3, <2>4 DEF Typed
  <2>6. net' \in [Conns -> [Sides -> Seq(Msgs)]] /\ Drained(c, s, <<>>)
    BY <1>0, <1>2, <2>2, ExchangeAll, Zenon
  <2>7. /\ proc' \in [Procs -> {"up", "dead", "panic"}]
        /\ \A x \in Procs : proc'[x] = proc[x] \/ (x = q /\ proc'[x] = "panic")
    BY <1>0, <2>1, <2>2 DEF Typed
  <2>8. Typed'
    BY <1>0, <1>2, <2>1, <2>5, <2>6, <2>7 DEF Typed
  <2>9. Closes(c, s, <<>>)
    BY <1>1, <1>2, <1>4, <2>1, <2>2, <2>3, <2>5, <2>6, <2>7 DEF Closes
  <2> QED BY <2>8, <2>9, ClosesInv
<1> QED BY <1>3, <1>4

-----------------------------------------------------------------------------
(* Making, accepting and abandoning a connection                           *)

\* The channel record addControlChannel makes.
LEMMA NewChannelType ==
  ASSUME NEW b \in BOOLEAN
  PROVE  /\ NewChannel(b) \in ChanRec /\ NewChannel(b).state = "open"
         /\ NewChannel(b).bound = b /\ NewChannel(b).isConnected = FALSE
         /\ NewChannel(b).msgQueue = <<>>
<1>1. \A o \in ChanRec :
        /\ [o EXCEPT !.state = "open", !.bound = b] \in ChanRec
        /\ [o EXCEPT !.state = "open", !.bound = b].state = "open"
        /\ [o EXCEPT !.state = "open", !.bound = b].bound = b
        /\ [o EXCEPT !.state = "open", !.bound = b].isConnected = o.isConnected
        /\ [o EXCEPT !.state = "open", !.bound = b].msgQueue = o.msgQueue
  BY DEF ChanRec
<1>2. NoChannel \in ChanRec /\ NoChannel.isConnected = FALSE /\ NoChannel.msgQueue = <<>>
  BY DEF NoChannel, ChanRec
<1> QED BY <1>1, <1>2, Zenon DEF NewChannel

\* RequestConnection makes a connection on a free port.
LEMMA RequestInv ==
  ASSUME IInv, NEW p \in Clients, RequestConnection(p)
  PROVE  IInv'
<1> DEFINE c == Len(owner) + 1
           new == NewChannel(TRUE)
<1>0. Typed /\ Opened /\ Wire /\ Linked /\ Queued /\ ServerRings /\ ClientRings /\ Freed
  BY DEF IInv
<1>1. /\ c \in Conns /\ c \notin Made /\ c # 0 /\ c \in 0 .. MaxConns
      /\ Made \subseteq Conns /\ Len(owner) \in Nat
  BY <1>0, ControlAssumption DEF RequestConnection, Typed, Conns, Made
<1>2. /\ Up(p) /\ port[p].cc = 0 /\ proc' = proc /\ net' = net
      /\ owner' = Append(owner, p) /\ backlog' = Append(backlog, c)
      /\ port' = [port EXCEPT ![p].cc = c] /\ cc' = [cc EXCEPT ![c]["client"] = new]
  BY DEF RequestConnection, Up
<1>3. /\ new \in ChanRec /\ new.state = "open" /\ new.bound /\ ~new.isConnected
      /\ new.msgQueue = <<>>
  <2>1. /\ new \in ChanRec /\ new.state = "open" /\ new.bound = TRUE
        /\ new.isConnected = FALSE /\ new.msgQueue = <<>>
    BY NewChannelType
  <2> HIDE DEF new
  <2> QED BY <2>1
<1>4. p \in Procs /\ p # Server /\ Server \in Procs /\ Clients \subseteq Procs
      /\ Sides = {"client", "server"}
  BY ControlAssumption DEF Procs, Sides
<1>5. /\ owner' \in Seq(Clients) /\ Len(owner') = c /\ owner'[c] = p
      /\ \A d \in Made : owner'[d] = owner[d]
  <2>1. owner \in Seq(Clients)
    BY <1>0 DEF Typed
  <2> QED BY <1>2, <2>1 DEF Made
<1>6. Made' = Made \cup {c} /\ \A d \in Made' : d # c => d \in Made
  BY <1>1, <1>5 DEF Made
<1> HIDE DEF new, c
<1>7. /\ cc' \in [Conns -> [Sides -> ChanRec]] /\ cc'[c]["client"] = new
      /\ \A d \in Conns : cc'[d]["server"] = cc[d]["server"]
      /\ \A d \in Conns : d # c => cc'[d]["client"] = cc[d]["client"]
  BY <1>0, <1>1, <1>2, <1>3, <1>4 DEF Typed
<1>8. /\ port' \in [Procs -> PortRec]
      /\ \A x \in Procs : x # p => port'[x] = port[x]
      /\ port'[p].cc = c /\ port'[p].tx = port[p].tx /\ port'[p].rx = port[p].rx
      /\ port'[p].region = port[p].region /\ port'[p].failed = port[p].failed
  <2>1. port[p] \in PortRec /\ port \in [Procs -> PortRec]
    BY <1>0, <1>4 DEF Typed
  <2>2. /\ [port[p] EXCEPT !.cc = c] \in PortRec /\ [port[p] EXCEPT !.cc = c].cc = c
        /\ [port[p] EXCEPT !.cc = c].tx = port[p].tx
        /\ [port[p] EXCEPT !.cc = c].rx = port[p].rx
        /\ [port[p] EXCEPT !.cc = c].region = port[p].region
        /\ [port[p] EXCEPT !.cc = c].failed = port[p].failed
    BY <1>1, <2>1 DEF PortRec
  <2>3. port' = [port EXCEPT ![p] = [port[p] EXCEPT !.cc = c]]
    BY <1>2, <1>4, <2>1
  <2>4. port'[p] = [port[p] EXCEPT !.cc = c] /\ \A x \in Procs : x # p => port'[x] = port[x]
    BY <1>4, <2>1, <2>3
  <2>5. port' \in [Procs -> PortRec]
    BY <1>4, <2>1, <2>2, <2>3
  <2> QED BY <2>2, <2>4, <2>5
<1>9. /\ cc[c]["server"] = NoChannel /\ net[c]["client"] = <<>> /\ net[c]["server"] = <<>>
      /\ Kind(c, "client") = "nothing" /\ Kind(c, "server") = "nothing"
  BY <1>0, <1>1, <1>4 DEF Opened, Kind
<1>10. /\ \A d \in Conns, t \in Sides : Kind(d, t)' = Kind(d, t)
       /\ \A d \in Conns : Word(d)' = Word(d)
  BY <1>2 DEF Kind, Word
<1>11. \A d \in Made, t \in Sides :
        /\ Proc(d, t) \in Procs /\ (Proc(d, t) = Server <=> t = "server")
        /\ Proc(d, t) = IF t = "server" THEN Server ELSE owner[d]
        /\ Proc(d, t)' = Proc(d, t) /\ d # 0
  <2>1. \A d \in Made, t \in Sides :
        /\ Proc(d, t) \in Procs /\ (Proc(d, t) = Server <=> t = "server")
        /\ Proc(d, t) = IF t = "server" THEN Server ELSE owner[d]
    BY <1>0, Ends, Zenon
  <2>2. \A d \in Made, t \in Sides : Proc(d, t)' = Proc(d, t) /\ d # 0
    BY <1>1, <1>5 DEF Proc, Conns
  <2> QED BY <2>1, <2>2, Zenon
<1>12. \A x \in Procs : port[x].cc # 0 => port[x].cc \in Made /\ port[x].cc # c
  BY <1>0, <1>1 DEF Linked
<1>13. backlog \in Seq(Conns) /\ backlog' \in Seq(Conns) /\ Len(backlog') = Len(backlog) + 1
       /\ backlog'[Len(backlog) + 1] = c
       /\ \A i \in 1 .. Len(backlog) : backlog'[i] = backlog[i]
       /\ Len(backlog) \in Nat
  <2>1. backlog \in Seq(Conns)
    BY <1>0 DEF Typed
  <2> QED BY <1>1, <1>2, <2>1
<1>t. Typed'
  <2>1. Len(owner') <= MaxConns
    BY <1>1, <1>5, ControlAssumption
  <2> QED BY <1>0, <1>2, <1>5, <1>7, <1>8, <1>13, <2>1 DEF Typed
<1>o. Opened'
  <2>1. \A d \in Conns \ Made', t \in Sides : cc'[d][t] = NoChannel /\ net'[d][t] = <<>>
    BY <1>0, <1>2, <1>4, <1>6, <1>7 DEF Opened
  <2>2. \A i \in 1 .. Len(backlog) : /\ backlog[i] \in Made /\ backlog[i] # c
                                     /\ cc[backlog[i]]["server"] = NoChannel
    BY <1>0, <1>1, <1>13 DEF Opened
  <2>3. DOMAIN backlog' = 1 .. (Len(backlog) + 1) /\ DOMAIN backlog = 1 .. Len(backlog)
    BY <1>13
  <2>4. \A i \in DOMAIN backlog' : i = Len(backlog) + 1 \/ i \in 1 .. Len(backlog)
    BY <1>13, <2>3
  <2>5. \A i \in DOMAIN backlog' :
          backlog'[i] \in Made' /\ cc'[backlog'[i]]["server"] = NoChannel
    <3> SUFFICES ASSUME NEW i \in DOMAIN backlog'
                 PROVE  backlog'[i] \in Made' /\ cc'[backlog'[i]]["server"] = NoChannel
      OBVIOUS
    <3>1. CASE i = Len(backlog) + 1
      <4>1. backlog'[i] = c /\ c \in Made'
        BY <1>6, <1>13, <3>1
      <4>2. cc'[c]["server"] = NoChannel
        BY <1>1, <1>7, <1>9
      <4> QED BY <4>1, <4>2
    <3>2. CASE i \in 1 .. Len(backlog)
      <4>1. backlog'[i] = backlog[i] /\ backlog[i] \in Made'
        BY <1>6, <1>13, <2>2, <3>2
      <4>2. cc'[backlog[i]]["server"] = NoChannel
        BY <1>1, <1>7, <2>2, <3>2
      <4> QED BY <4>1, <4>2
    <3> QED BY <2>4, <3>1, <3>2
  <2>6. \A i, j \in DOMAIN backlog' : backlog'[i] = backlog'[j] => i = j
    <3>1. \A i, j \in 1 .. Len(backlog) : backlog[i] = backlog[j] => i = j
      BY <1>0, <2>3 DEF Opened
    <3>2. /\ \A i \in 1 .. Len(backlog) : backlog'[i] = backlog[i]
          /\ backlog'[Len(backlog) + 1] = c
      BY <1>13
    <3>3. \A i \in 1 .. Len(backlog) : backlog'[i] # c
      BY <2>2, <3>2
    <3> HIDE DEF c
    <3> QED BY <2>4, <3>1, <3>2, <3>3
  <2>7. \A d \in Made' : cc'[d]["client"].state # "none" /\ cc'[d]["client"].bound
    BY <1>0, <1>1, <1>3, <1>6, <1>7 DEF Opened
  <2>8. \A d \in Made' : cc'[d]["server"].state = "none" =>
          /\ cc'[d]["server"] = NoChannel /\ ~cc'[d]["client"].isConnected
          /\ net'[d]["client"] = <<>> /\ Kind(d, "server")' \in Calm
    <3> SUFFICES ASSUME NEW d \in Made', cc'[d]["server"].state = "none"
                 PROVE  /\ cc'[d]["server"] = NoChannel /\ ~cc'[d]["client"].isConnected
                        /\ net'[d]["client"] = <<>> /\ Kind(d, "server")' \in Calm
      OBVIOUS
    <3>1. CASE d = c
      BY <1>1, <1>2, <1>3, <1>4, <1>7, <1>9, <1>10, <3>1 DEF Calm
    <3>2. CASE d # c
      BY <1>0, <1>1, <1>2, <1>4, <1>6, <1>7, <1>10, <3>2 DEF Opened
    <3> QED BY <3>1, <3>2
  <2> QED BY <2>1, <2>5, <2>6, <2>7, <2>8 DEF Opened
<1>w. Wire'
  <2>1. \A d \in Conns, t \in Sides : cc'[d][t].state = "closed" <=> cc[d][t].state = "closed"
    BY <1>0, <1>1, <1>3, <1>4, <1>7 DEF Opened, NoChannel
  <2>2. \A t \in Sides : Peer(t) \in Sides
    BY DEF Peer, Sides
  <2> QED BY <1>0, <1>2, <1>4, <1>10, <2>1, <2>2 DEF Wire
<1>l. Linked'
  <2>1. \A x \in Procs : port'[x].cc # 0 =>
          /\ port'[x].cc \in Made'
          /\ x # Server => owner'[port'[x].cc] = x
          /\ x = Server => cc'[port'[x].cc]["server"].bound
    <3> SUFFICES ASSUME NEW x \in Procs, port'[x].cc # 0
                 PROVE  /\ port'[x].cc \in Made'
                        /\ x # Server => owner'[port'[x].cc] = x
                        /\ x = Server => cc'[port'[x].cc]["server"].bound
      OBVIOUS
    <3>1. CASE x = p
      BY <1>4, <1>5, <1>6, <1>8, <3>1
    <3>2. CASE x # p
      <4>1. port'[x] = port[x]
        BY <1>8, <3>2
      <4>2. /\ port[x].cc \in Made
            /\ x # Server => owner[port[x].cc] = x
            /\ x = Server => cc[port[x].cc]["server"].bound
        BY <1>0, <4>1 DEF Linked
      <4> QED BY <1>1, <1>5, <1>6, <1>7, <4>1, <4>2
    <3> QED BY <3>1, <3>2
  <2>2. ASSUME NEW d \in Made', NEW t \in Sides, proc[Proc(d, t)'] = "up",
               cc'[d][t].state = "open", cc'[d][t].bound
        PROVE  port'[Proc(d, t)'].cc = d
    <3>1. CASE d = c
      <4>1. t = "client"
        BY <1>4, <1>7, <1>9, <2>2, <3>1, <1>1 DEF NoChannel
      <4>2. Proc(d, t)' = p
        BY <1>5, <3>1, <4>1 DEF Proc
      <4> QED BY <1>8, <3>1, <4>2
    <3>2. CASE d # c
      <4>1. d \in Made /\ Proc(d, t)' = Proc(d, t) /\ cc'[d][t] = cc[d][t]
        BY <1>1, <1>4, <1>6, <1>7, <1>11, <3>2
      <4>2. port[Proc(d, t)].cc = d
        BY <1>0, <2>2, <4>1 DEF Linked, Up, Open
      <4>3. Proc(d, t) # p
        BY <1>2, <1>11, <4>1, <4>2
      <4> QED BY <1>8, <1>11, <4>1, <4>2, <4>3
    <3> QED BY <3>1, <3>2
  <2>3. ASSUME NEW d \in Made'
        PROVE  /\ (Kind(d, "client")' = "Ack" \/ Kind(d, "server")' \in Setup)
                    => cc'[d]["server"].bound
               /\ cc'[d]["server"].isConnected => cc'[d]["server"].bound
               /\ (Kind(d, "client")' = "Connected" \/ cc'[d]["client"].isConnected)
                    => cc'[d]["server"].isConnected
    <3>1. CASE d = c
      BY <1>1, <1>3, <1>4, <1>7, <1>9, <1>10, <3>1 DEF NoChannel, Setup
    <3>2. CASE d # c
      BY <1>0, <1>1, <1>4, <1>6, <1>7, <1>10, <3>2 DEF Linked
    <3> QED BY <3>1, <3>2
  <2> QED BY <1>2, <2>1, <2>2, <2>3 DEF Linked, Up, Open
<1> DEFINE n(d) == RunPairs(owner'[d])
<1>q. Queued'
  <2> SUFFICES ASSUME NEW d \in Made'
               PROVE  /\ Rest(n(d), cc'[d]["client"].msgQueue)
                      /\ (cc'[d]["client"].state = "open" /\ proc[Server] = "up") =>
                         /\ Kind(d, "client")' = "Ack" => cc'[d]["client"].msgQueue # <<>>
                         /\ Kind(d, "server")' = "Init" =>
                              /\ cc'[d]["client"].msgQueue # <<>>
                              /\ cc'[d]["client"].msgQueue[1] = AddRegionMsg
                         /\ Kind(d, "server")' \in {"AddRegion", "AddRing"} =>
                              /\ cc'[d]["client"].msgQueue # <<>>
                              /\ Follows(n(d), Word(d)', cc'[d]["client"].msgQueue[1])
    BY <1>2 DEF Queued, QueueOf, Open, Up, RunPairs
  <2>1. CASE d = c
    <3>1. Rest(n(c), <<>>)
      BY DEF Rest
    <3> QED BY <1>1, <1>3, <1>4, <1>7, <1>9, <1>10, <2>1, <3>1
  <2>2. CASE d # c
    BY <1>0, <1>1, <1>4, <1>5, <1>6, <1>7, <1>10, <2>2 DEF Queued, QueueOf, Open, Up
  <2> QED BY <2>1, <2>2
<1>s. ServerRings'
  <2> SUFFICES ASSUME NEW d \in Made'
               PROVE  /\ (/\ proc[Server] = "up" /\ cc'[d]["server"].state = "open"
                          /\ Kind(d, "server")' \in Setup) =>
                           Expects(n(d), port'[Server], Word(d)')
                      /\ (/\ proc[Server] = "up" /\ cc'[d]["server"].state = "open"
                          /\ Kind(d, "client")' = "Ack") =>
                           Expects(n(d), port'[Server], cc'[d]["client"].msgQueue[1])
                      /\ (port'[Server].cc = d /\ cc'[d]["server"].isConnected) =>
                           ServerFull(n(d), port'[Server])
    BY <1>2 DEF ServerRings, ServerFull, QueueOf, Open, Up
  <2>1. port'[Server] = port[Server]
    BY <1>4, <1>8
  <2>2. CASE d = c
    BY <1>1, <1>7, <1>9, <2>2 DEF NoChannel
  <2>3. CASE d # c
    BY <1>0, <1>1, <1>4, <1>5, <1>6, <1>7, <1>10, <2>1, <2>3
       DEF ServerRings, ServerFull, QueueOf, Open, Up
  <2> QED BY <2>2, <2>3
<1>c. ClientRings'
  <2>1. \A x \in Clients : port'[x].region # "fd"
    BY <1>0, <1>4, <1>8 DEF ClientRings
  <2>2. \A x \in Procs : port'[x].cc = 0 => port'[x].tx = <<>> /\ port'[x].rx = <<>>
    BY <1>0, <1>1, <1>8 DEF ClientRings
  <2>3. ASSUME NEW d \in Made', port'[owner'[d]].cc = d
        PROVE  /\ (cc'[d]["server"].state = "none" \/ Kind(d, "client")' = "Hello") =>
                    port'[owner'[d]].tx = <<>> /\ port'[owner'[d]].rx = <<>>
               /\ (\/ Kind(d, "client")' \in {"Ack", "Connected"}
                   \/ Kind(d, "server")' \notin Calm \/ cc'[d]["client"].isConnected) =>
                    ClientFull(n(d), port'[owner'[d]])
    <3>1. CASE d = c
      <4>1. port[p].tx = <<>> /\ port[p].rx = <<>>
        BY <1>0, <1>2, <1>4 DEF ClientRings
      <4> QED BY <1>1, <1>3, <1>4, <1>5, <1>7, <1>8, <1>9, <1>10, <3>1, <4>1 DEF Calm
    <3>2. CASE d # c
      <4>1. d \in Made /\ owner'[d] = owner[d] /\ owner[d] \in Procs /\ d \in Conns
        BY <1>1, <1>4, <1>5, <1>6, <1>11, <3>2
      <4>2. owner[d] # p /\ port'[owner[d]] = port[owner[d]]
        BY <1>8, <2>3, <3>2, <4>1
      <4> QED BY <1>0, <1>4, <1>7, <1>10, <2>3, <3>2, <4>1, <4>2 DEF ClientRings, ClientFull
    <3> QED BY <3>1, <3>2
  <2> QED BY <2>1, <2>2, <2>3 DEF ClientRings, ClientFull
<1>f. Freed'
  <2> SUFFICES ASSUME NEW d \in Made', NEW t \in Sides, proc[Proc(d, t)'] = "up",
                      port'[Proc(d, t)'].cc = d, cc'[d][t].state = "closed"
               PROVE  port'[Proc(d, t)'].failed \/ port'[Proc(d, t)'].region = "fd"
    BY <1>2 DEF Freed, Up
  <2>1. d # c
    BY <1>1, <1>3, <1>4, <1>7, <1>9 DEF NoChannel
  <2>2. d \in Made /\ Proc(d, t)' = Proc(d, t) /\ cc'[d][t] = cc[d][t]
    BY <1>1, <1>4, <1>6, <1>7, <1>11, <2>1
  <2>3. Proc(d, t) # p /\ port'[Proc(d, t)] = port[Proc(d, t)]
    BY <1>8, <1>11, <2>1, <2>2
  <2> QED BY <1>0, <2>2, <2>3 DEF Freed, Up
<1> QED BY <1>t, <1>o, <1>w, <1>l, <1>q, <1>s, <1>c, <1>f DEF IInv

\* Accept gives a connection its server end, which greets the client.
LEMMA AcceptInv ==
  ASSUME IInv, Accept
  PROVE  IInv'
<1> DEFINE new == NewChannel(FALSE)
<1>12. PICK c : c = Head(backlog)
  OBVIOUS
<1>0. Typed /\ Opened /\ Wire /\ Linked /\ Queued /\ ServerRings /\ ClientRings /\ Freed
  BY DEF IInv
<1>1. /\ backlog # <<>> /\ backlog' = Tail(backlog) /\ UNCHANGED <<proc, port, owner>>
      /\ cc' = [cc EXCEPT ![c]["server"] = new]
      /\ Exchange(c, "server", 0, <<HelloMsg>>)
  BY <1>12 DEF Accept
<1>2. /\ backlog \in Seq(Conns) /\ Tail(backlog) \in Seq(Conns) /\ c = backlog[1]
      /\ 1 \in DOMAIN backlog
      /\ \A i \in DOMAIN Tail(backlog) :
           Tail(backlog)[i] = backlog[i + 1] /\ i + 1 \in DOMAIN backlog /\ i + 1 # 1
      /\ \A i, j \in DOMAIN Tail(backlog) : i + 1 = j + 1 => i = j
  <2>1. backlog \in Seq(Conns)
    BY <1>0 DEF Typed
  <2> QED BY <1>1, <1>12, <2>1
<1>3. /\ c \in Made /\ cc[c]["server"] = NoChannel /\ Made \subseteq Conns /\ c \in Conns
      /\ \A i \in DOMAIN Tail(backlog) : Tail(backlog)[i] # c
  <2>1. c \in Made /\ cc[c]["server"] = NoChannel
    BY <1>0, <1>2 DEF Opened
  <2>2. \A i \in DOMAIN Tail(backlog) : Tail(backlog)[i] # c
    BY <1>0, <1>2 DEF Opened
  <2>3. Made \subseteq Conns
    BY <1>0, ControlAssumption DEF Made, Conns, Typed
  <2> QED BY <2>1, <2>2, <2>3
<1>4. /\ new \in ChanRec /\ new.state = "open" /\ ~new.bound /\ ~new.isConnected
  <2>1. /\ new \in ChanRec /\ new.state = "open" /\ new.bound = FALSE
        /\ new.isConnected = FALSE
    BY NewChannelType
  <2> HIDE DEF new
  <2> QED BY <2>1
<1>5. /\ ~cc[c]["client"].isConnected /\ net[c]["client"] = <<>>
      /\ Kind(c, "server") \in Calm /\ Kind(c, "client") = "nothing"
      /\ cc[c]["server"].state = "none" /\ ~cc[c]["server"].bound
  BY <1>0, <1>3 DEF Opened, NoChannel, Kind
<1>6. Sides = {"client", "server"} /\ Server \in Procs /\ Made' = Made
      /\ \A t \in Sides : Peer(t) \in Sides
  BY <1>1 DEF Sides, Procs, Peer, Made
<1> HIDE DEF new
<1>7. /\ cc' \in [Conns -> [Sides -> ChanRec]] /\ cc'[c]["server"] = new
      /\ \A d \in Conns : cc'[d]["client"] = cc[d]["client"]
      /\ \A d \in Conns : d # c => cc'[d]["server"] = cc[d]["server"]
  BY <1>0, <1>1, <1>3, <1>4, <1>6 DEF Typed
<1>8. /\ HelloMsg \in Msgs /\ <<HelloMsg>> \in Seq(Msgs)
      /\ Len(<<HelloMsg>>) = 1 /\ <<HelloMsg>>[1] = HelloMsg /\ HelloMsg # Disconnect
      /\ Head(<<HelloMsg>>).type = "Hello" /\ <<HelloMsg>> # <<>>
      /\ DOMAIN <<HelloMsg>> = {1}
  <2>1. HelloMsg \in Msgs
    BY DEF Msgs, FromServer
  <2> QED BY <2>1, MsgTypes
<1>9. /\ net' \in [Conns -> [Sides -> Seq(Msgs)]]
      /\ \A d \in Conns, t \in Sides : d # c => net'[d][t] = net[d][t]
      /\ net'[c]["server"] = net[c]["server"]
      /\ net'[c]["client"] = IF cc[c]["client"].state = "closed" THEN <<>>
                             ELSE <<HelloMsg>>
  <2>0. "server" \in Sides /\ "client" \in Sides
    BY <1>6
  <2>1. net' \in [Conns -> [Sides -> Seq(Msgs)]]
    BY <1>0, <1>1, <1>3, <1>8, <2>0, ExchangeTyped, 0 \in Nat
  <2>2. \A d \in Conns, t \in Sides :
          net'[d][t] = IF d # c THEN net[d][t]
                       ELSE IF t = "server"
                         THEN SubSeq(net[c]["server"], 0 + 1, Len(net[c]["server"]))
                       ELSE IF cc[c][t].state = "closed" THEN net[c][t]
                       ELSE net[c][t] \o <<HelloMsg>>
    BY <1>0, <1>1, <1>3, <2>0, ExchangeNet
  <2>3. SubSeq(net[c]["server"], 0 + 1, Len(net[c]["server"])) = net[c]["server"]
    <3>1. net[c]["server"] \in Seq(Msgs) /\ 0 + 1 = 1
      BY <1>0, <1>3, <2>0 DEF Typed
    <3> QED BY <3>1, SubSeqFull
  <2>4. <<>> \o <<HelloMsg>> = <<HelloMsg>>
    BY <1>8, ConcatEmptySeq
  <2>5. \A d \in Conns, t \in Sides : d # c => net'[d][t] = net[d][t]
    BY <2>2
  <2>6. net'[c]["server"] = net[c]["server"]
    BY <1>3, <2>0, <2>2, <2>3
  <2>7. net'[c]["client"] = IF cc[c]["client"].state = "closed" THEN net[c]["client"]
                            ELSE net[c]["client"] \o <<HelloMsg>>
    BY <1>3, <2>0, <2>2
  <2> QED BY <1>5, <2>1, <2>4, <2>5, <2>6, <2>7
<1>10. /\ \A d \in Conns, t \in Sides : d # c => Kind(d, t)' = Kind(d, t)
       /\ \A d \in Conns : Word(d)' = Word(d)
       /\ Kind(c, "server")' = Kind(c, "server")
       /\ Kind(c, "client")' \in {"nothing", "Hello"}
  BY <1>3, <1>6, <1>8, <1>9 DEF Kind, Word
<1>t. Typed'
  BY <1>0, <1>1, <1>2, <1>7, <1>9 DEF Typed
<1>o. Opened'
  <2>1. \A d \in Conns \ Made, t \in Sides : cc'[d][t] = NoChannel /\ net'[d][t] = <<>>
    <3> SUFFICES ASSUME NEW d \in Conns \ Made, NEW t \in Sides
                 PROVE  cc'[d][t] = NoChannel /\ net'[d][t] = <<>>
      OBVIOUS
    <3>1. d # c /\ cc[d][t] = NoChannel /\ net[d][t] = <<>>
      BY <1>0, <1>3 DEF Opened
    <3>2. cc'[d][t] = cc[d][t]
      BY <1>6, <1>7, <3>1
    <3>3. net'[d][t] = net[d][t]
      BY <1>9, <3>1
    <3> QED BY <3>1, <3>2, <3>3
  <2>2. \A i \in DOMAIN backlog' :
          backlog'[i] \in Made /\ cc'[backlog'[i]]["server"] = NoChannel
    BY <1>0, <1>1, <1>2, <1>3, <1>7 DEF Opened
  <2>3. \A i, j \in DOMAIN backlog' : backlog'[i] = backlog'[j] => i = j
    BY <1>0, <1>1, <1>2 DEF Opened
  <2>4. \A d \in Made : cc'[d]["client"].state # "none" /\ cc'[d]["client"].bound
    BY <1>0, <1>3, <1>7 DEF Opened
  <2>5. \A d \in Made : cc'[d]["server"].state = "none" =>
          /\ cc'[d]["server"] = NoChannel /\ ~cc'[d]["client"].isConnected
          /\ net'[d]["client"] = <<>> /\ Kind(d, "server")' \in Calm
    <3> SUFFICES ASSUME NEW d \in Made, cc'[d]["server"].state = "none"
                 PROVE  /\ cc'[d]["server"] = NoChannel /\ ~cc'[d]["client"].isConnected
                        /\ net'[d]["client"] = <<>> /\ Kind(d, "server")' \in Calm
      OBVIOUS
    <3>1. d \in Conns /\ d # c
      BY <1>3, <1>4, <1>7
    <3>2. cc'[d]["server"] = cc[d]["server"] /\ cc'[d]["client"] = cc[d]["client"]
      BY <1>7, <3>1
    <3>3. /\ cc[d]["server"] = NoChannel /\ ~cc[d]["client"].isConnected
          /\ net[d]["client"] = <<>> /\ Kind(d, "server") \in Calm
      BY <1>0, <3>2 DEF Opened
    <3>4. net'[d]["client"] = net[d]["client"] /\ Kind(d, "server")' = Kind(d, "server")
      BY <1>6, <1>9, <1>10, <3>1
    <3> QED BY <3>2, <3>3, <3>4
  <2> QED BY <1>6, <2>1, <2>2, <2>3, <2>4, <2>5 DEF Opened
<1>w. Wire'
  <2>1. \A d \in Conns, t \in Sides : cc'[d][t].state = "closed" <=> cc[d][t].state = "closed"
    <3>1. "closed" # "open" /\ "closed" # "none"
      OBVIOUS
    <3>2. \A d \in Conns : cc'[d]["client"].state = cc[d]["client"].state
      BY <1>7
    <3>3. \A d \in Conns :
            cc'[d]["server"].state = "closed" <=> cc[d]["server"].state = "closed"
      BY <1>3, <1>4, <1>5, <1>7, <3>1
    <3> QED BY <1>6, <3>2, <3>3
  <2>2. \A d \in Conns, t \in Sides : cc'[d][t].state = "closed" => net'[d][t] = <<>>
    <3> SUFFICES ASSUME NEW d \in Conns, NEW t \in Sides, cc'[d][t].state = "closed"
                 PROVE  net'[d][t] = <<>>
      OBVIOUS
    <3>1. cc[d][t].state = "closed" /\ net[d][t] = <<>>
      BY <1>0, <2>1 DEF Wire
    <3>2. CASE d = c /\ t = "client"
      BY <1>9, <3>1, <3>2
    <3>3. CASE d # c \/ t = "server"
      BY <1>9, <3>1, <3>3
    <3> QED BY <1>6, <3>2, <3>3
  <2>3. ASSUME NEW d \in Conns, NEW t \in Sides, NEW i \in DOMAIN net'[d][t]
        PROVE  /\ net'[d][t][i] = Disconnect => cc'[d][Peer(t)].state = "closed"
               /\ i # 1 => net'[d][t][i] = Disconnect
    <3>1. CASE d # c \/ t = "server"
      <4>1. net'[d][t] = net[d][t]
        BY <1>9, <3>1
      <4> QED BY <1>0, <1>6, <2>1, <2>3, <4>1 DEF Wire
    <3>2. CASE d = c /\ t = "client"
      BY <1>8, <1>9, <2>3, <3>2
    <3> QED BY <1>6, <3>1, <3>2
  <2>4. \A d \in Conns :
          /\ Kind(d, "client")' \in Calm \/ Kind(d, "server")' \in Calm
          /\ Kind(d, "client")' \in {"Hello", "Ack", "Connected"} \cup Calm
          /\ Kind(d, "server")' \in {"Init"} \cup Setup \cup Calm
    BY <1>0, <1>5, <1>6, <1>10 DEF Wire, Calm
  <2> QED BY <2>2, <2>3, <2>4 DEF Wire
<1>11. \A d \in Made, t \in Sides : Proc(d, t)' = Proc(d, t)
  BY <1>1 DEF Proc
<1>l. Linked'
  <2>1. \A x \in Procs : port[x].cc # 0 =>
          /\ port[x].cc \in Made
          /\ x # Server => owner[port[x].cc] = x
          /\ x = Server => cc'[port[x].cc]["server"].bound
    BY <1>0, <1>3, <1>5, <1>7 DEF Linked
  <2>2. \A d \in Made, t \in Sides :
          (proc[Proc(d, t)] = "up" /\ cc'[d][t].state = "open" /\ cc'[d][t].bound)
            => port[Proc(d, t)].cc = d
    BY <1>0, <1>3, <1>4, <1>6, <1>7 DEF Linked, Up, Open
  <2>3. \A d \in Made :
          /\ (Kind(d, "client")' = "Ack" \/ Kind(d, "server")' \in Setup)
               => cc'[d]["server"].bound
          /\ cc'[d]["server"].isConnected => cc'[d]["server"].bound
          /\ (Kind(d, "client")' = "Connected" \/ cc'[d]["client"].isConnected)
               => cc'[d]["server"].isConnected
    <3> SUFFICES ASSUME NEW d \in Made
                 PROVE  /\ (Kind(d, "client")' = "Ack" \/ Kind(d, "server")' \in Setup)
                             => cc'[d]["server"].bound
                        /\ cc'[d]["server"].isConnected => cc'[d]["server"].bound
                        /\ (\/ Kind(d, "client")' = "Connected"
                            \/ cc'[d]["client"].isConnected)
                             => cc'[d]["server"].isConnected
      OBVIOUS
    <3>1. CASE d # c
      BY <1>0, <1>3, <1>6, <1>7, <1>10, <3>1 DEF Linked
    <3>2. CASE d = c
      BY <1>3, <1>4, <1>5, <1>7, <1>10, <3>2 DEF Calm, Setup
    <3> QED BY <3>1, <3>2
  <2> QED BY <1>1, <1>6, <1>11, <2>1, <2>2, <2>3 DEF Linked, Up, Open
<1> DEFINE n(d) == RunPairs(owner[d])
<1>q. Queued'
  <2> SUFFICES ASSUME NEW d \in Made
               PROVE  /\ Rest(n(d), cc'[d]["client"].msgQueue)
                      /\ (cc'[d]["client"].state = "open" /\ proc[Server] = "up") =>
                         /\ Kind(d, "client")' = "Ack" => cc'[d]["client"].msgQueue # <<>>
                         /\ Kind(d, "server")' = "Init" =>
                              /\ cc'[d]["client"].msgQueue # <<>>
                              /\ cc'[d]["client"].msgQueue[1] = AddRegionMsg
                         /\ Kind(d, "server")' \in {"AddRegion", "AddRing"} =>
                              /\ cc'[d]["client"].msgQueue # <<>>
                              /\ Follows(n(d), Word(d)', cc'[d]["client"].msgQueue[1])
    BY <1>1, <1>6 DEF Queued, QueueOf, Open, Up
  <2>1. Kind(d, "client")' = "Ack" => Kind(d, "client") = "Ack"
    BY <1>3, <1>6, <1>10
  <2>2. Kind(d, "server")' = Kind(d, "server") /\ Word(d)' = Word(d) /\ d \in Conns
    BY <1>3, <1>6, <1>10
  <2> QED BY <1>0, <1>7, <2>1, <2>2 DEF Queued, QueueOf, Open, Up
<1>s. ServerRings'
  <2> SUFFICES ASSUME NEW d \in Made
               PROVE  /\ (/\ proc[Server] = "up" /\ cc'[d]["server"].state = "open"
                          /\ Kind(d, "server")' \in Setup) =>
                           Expects(n(d), port[Server], Word(d)')
                      /\ (/\ proc[Server] = "up" /\ cc'[d]["server"].state = "open"
                          /\ Kind(d, "client")' = "Ack") =>
                           Expects(n(d), port[Server], cc'[d]["client"].msgQueue[1])
                      /\ (port[Server].cc = d /\ cc'[d]["server"].isConnected) =>
                           ServerFull(n(d), port[Server])
    BY <1>1, <1>6 DEF ServerRings, ServerFull, QueueOf, Open, Up
  <2>1. CASE d = c
    BY <1>3, <1>4, <1>5, <1>7, <1>10, <2>1 DEF Setup, Calm
  <2>2. CASE d # c
    BY <1>0, <1>3, <1>6, <1>7, <1>10, <2>2
       DEF ServerRings, ServerFull, QueueOf, Open, Up
  <2> QED BY <2>1, <2>2
<1>c. ClientRings'
  <2>1. ASSUME NEW d \in Made, port[owner[d]].cc = d
        PROVE  /\ (cc'[d]["server"].state = "none" \/ Kind(d, "client")' = "Hello") =>
                    port[owner[d]].tx = <<>> /\ port[owner[d]].rx = <<>>
               /\ (\/ Kind(d, "client")' \in {"Ack", "Connected"}
                   \/ Kind(d, "server")' \notin Calm \/ cc'[d]["client"].isConnected) =>
                    ClientFull(n(d), port[owner[d]])
    <3>1. CASE d = c
      BY <1>0, <1>3, <1>5, <1>7, <1>10, <2>1, <3>1 DEF ClientRings
    <3>2. CASE d # c
      BY <1>0, <1>3, <1>6, <1>7, <1>10, <2>1, <3>2 DEF ClientRings, ClientFull
    <3> QED BY <3>1, <3>2
  <2> QED BY <1>0, <1>1, <1>6, <2>1 DEF ClientRings, ClientFull
<1>f. Freed'
  <2>1. \A d \in Made, t \in Sides : cc'[d][t].state = "closed" => cc[d][t].state = "closed"
    BY <1>3, <1>4, <1>6, <1>7
  <2> QED BY <1>0, <1>1, <1>6, <1>11, <2>1 DEF Freed, Up
<1> QED BY <1>t, <1>o, <1>w, <1>l, <1>q, <1>s, <1>c, <1>f DEF IInv

\* Replacing the record of one end.
Put(c, s, last) == cc' = [cc EXCEPT ![c][s] = last]

\* It changes that end only.
LEMMA PutChannel ==
  ASSUME Typed, NEW c \in Conns, NEW s \in Sides, NEW last \in ChanRec,
         Put(c, s, last)
  PROVE  /\ cc' \in [Conns -> [Sides -> ChanRec]] /\ cc'[c][s] = last
         /\ \A d \in Conns, t \in Sides : (d # c \/ t # s) => cc'[d][t] = cc[d][t]
BY DEF Typed, Put

\* Port.Disconnect that only empties the message queue, because the server is
\* gone or the channel has been closed before.
LEMMA EmptyInv ==
  ASSUME IInv, NEW c \in Conns, NEW s \in Sides, c \in Made, cc[c][s].bound,
         s = "client" => ~(Up(Server) /\ Open(c, "client")),
         Put(c, s, [cc[c][s] EXCEPT !.msgQueue = <<>>]),
         UNCHANGED <<proc, port, net, owner, backlog>>
  PROVE  IInv'
<1> DEFINE last == [cc[c][s] EXCEPT !.msgQueue = <<>>]
<1>0. Typed /\ Opened /\ Wire /\ Linked /\ Queued /\ ServerRings /\ ClientRings /\ Freed
  BY DEF IInv
<1>1. cc[c][s] \in ChanRec /\ Sides = {"client", "server"} /\ Made' = Made
      /\ Made \subseteq Conns
  BY <1>0, ControlAssumption DEF Typed, Sides, Made, Conns
<1>2. /\ last \in ChanRec /\ last.state = cc[c][s].state /\ last.bound = cc[c][s].bound
      /\ last.isConnected = cc[c][s].isConnected /\ last.msgQueue = <<>>
  BY <1>1, ClosedChannel, Zenon
<1>3. Put(c, s, last)
  OBVIOUS
<1> HIDE DEF last
<1>4. /\ cc' \in [Conns -> [Sides -> ChanRec]] /\ cc'[c][s] = last
      /\ \A d \in Conns, t \in Sides : (d # c \/ t # s) => cc'[d][t] = cc[d][t]
  BY <1>0, <1>2, <1>3, PutChannel
<1>5. \A d \in Conns, t \in Sides :
        /\ cc'[d][t].state = cc[d][t].state /\ cc'[d][t].bound = cc[d][t].bound
        /\ cc'[d][t].isConnected = cc[d][t].isConnected
  BY <1>2, <1>4
<1>6. /\ \A d \in Conns, t \in Sides : Kind(d, t)' = Kind(d, t)
      /\ \A d \in Conns : Word(d)' = Word(d)
  BY DEF Kind, Word
<1>7. \A d \in Made, t \in Sides : Proc(d, t)' = Proc(d, t)
  BY DEF Proc
<1>8. s = "server" => cc[c]["server"].state # "none" /\ cc[c]["server"] # NoChannel
  BY <1>0, <1>1 DEF Opened, NoChannel
<1>9. \A d \in Made : d # c \/ s = "server" => cc'[d]["client"] = cc[d]["client"]
  BY <1>1, <1>4
<1>10. \A d \in Made : (d # c \/ s = "client") => cc'[d]["server"] = cc[d]["server"]
  BY <1>1, <1>4
<1>t. Typed'
  BY <1>0, <1>4 DEF Typed
<1>o. Opened'
  <2>1. \A d \in Conns \ Made, t \in Sides : cc'[d][t] = NoChannel /\ net'[d][t] = <<>>
    BY <1>0, <1>4 DEF Opened
  <2>2. \A i \in DOMAIN backlog :
          backlog[i] \in Made /\ cc'[backlog[i]]["server"] = NoChannel
    BY <1>0, <1>1, <1>8, <1>10 DEF Opened
  <2>3. \A d \in Made : cc'[d]["client"].state # "none" /\ cc'[d]["client"].bound
    BY <1>0, <1>1, <1>5 DEF Opened
  <2>4. ASSUME NEW d \in Made, cc'[d]["server"].state = "none"
        PROVE  /\ cc'[d]["server"] = NoChannel /\ ~cc'[d]["client"].isConnected
               /\ net[d]["client"] = <<>> /\ Kind(d, "server")' \in Calm
    <3>1. cc[d]["server"].state = "none" /\ (d # c \/ s = "client")
      BY <1>1, <1>5, <1>8, <2>4
    <3> QED BY <1>0, <1>1, <1>5, <1>6, <1>10, <3>1 DEF Opened
  <2> QED BY <1>0, <1>1, <2>1, <2>2, <2>3, <2>4 DEF Opened
<1>w. Wire'
  <2>1. \A t \in Sides : Peer(t) \in Sides
    BY DEF Peer, Sides
  <2> QED BY <1>0, <1>1, <1>5, <1>6, <2>1 DEF Wire
<1>l. Linked'
  <2>1. \A x \in Procs : port[x].cc # 0 =>
          /\ port[x].cc \in Made
          /\ x # Server => owner[port[x].cc] = x
          /\ x = Server => cc'[port[x].cc]["server"].bound
    BY <1>0, <1>1, <1>5 DEF Linked
  <2>2. \A d \in Made, t \in Sides :
          (proc[Proc(d, t)] = "up" /\ cc'[d][t].state = "open" /\ cc'[d][t].bound)
            => port[Proc(d, t)].cc = d
    BY <1>0, <1>1, <1>5 DEF Linked, Up, Open
  <2>3. \A d \in Made :
          /\ (Kind(d, "client")' = "Ack" \/ Kind(d, "server")' \in Setup)
               => cc'[d]["server"].bound
          /\ cc'[d]["server"].isConnected => cc'[d]["server"].bound
          /\ (Kind(d, "client")' = "Connected" \/ cc'[d]["client"].isConnected)
               => cc'[d]["server"].isConnected
    BY <1>0, <1>1, <1>5, <1>6 DEF Linked
  <2> QED BY <1>1, <1>7, <2>1, <2>2, <2>3 DEF Linked, Up, Open
<1> DEFINE n(d) == RunPairs(owner[d])
<1>q. Queued'
  <2> SUFFICES ASSUME NEW d \in Made
               PROVE  /\ Rest(n(d), cc'[d]["client"].msgQueue)
                      /\ (cc'[d]["client"].state = "open" /\ proc[Server] = "up") =>
                         /\ Kind(d, "client")' = "Ack" => cc'[d]["client"].msgQueue # <<>>
                         /\ Kind(d, "server")' = "Init" =>
                              /\ cc'[d]["client"].msgQueue # <<>>
                              /\ cc'[d]["client"].msgQueue[1] = AddRegionMsg
                         /\ Kind(d, "server")' \in {"AddRegion", "AddRing"} =>
                              /\ cc'[d]["client"].msgQueue # <<>>
                              /\ Follows(n(d), Word(d)', cc'[d]["client"].msgQueue[1])
    BY <1>1 DEF Queued, QueueOf, Open, Up
  <2>1. CASE d = c /\ s = "client"
    <3>1. Rest(n(c), <<>>)
      BY DEF Rest
    <3> QED BY <1>2, <1>4, <2>1, <3>1 DEF Open, Up
  <2>2. CASE d # c \/ s = "server"
    BY <1>0, <1>1, <1>6, <1>9, <2>2 DEF Queued, QueueOf, Open, Up
  <2> QED BY <1>1, <2>1, <2>2
<1>s. ServerRings'
  <2> SUFFICES ASSUME NEW d \in Made
               PROVE  /\ (/\ proc[Server] = "up" /\ cc'[d]["server"].state = "open"
                          /\ Kind(d, "server")' \in Setup) =>
                           Expects(n(d), port[Server], Word(d)')
                      /\ (/\ proc[Server] = "up" /\ cc'[d]["server"].state = "open"
                          /\ Kind(d, "client")' = "Ack") =>
                           Expects(n(d), port[Server], cc'[d]["client"].msgQueue[1])
                      /\ (port[Server].cc = d /\ cc'[d]["server"].isConnected) =>
                           ServerFull(n(d), port[Server])
    BY <1>1 DEF ServerRings, ServerFull, QueueOf, Open, Up
  <2>1. (/\ proc[Server] = "up" /\ cc'[d]["server"].state = "open"
         /\ Kind(d, "client")' = "Ack") => cc'[d]["client"] = cc[d]["client"]
    <3>1. ASSUME proc[Server] = "up", Kind(d, "client")' = "Ack", d = c, s = "client"
          PROVE  FALSE
      <4>1. cc[c]["client"].state = "closed"
        BY <1>0, <1>1, <3>1 DEF Opened, Typed, ChanRec, Up, Open
      <4>2. net[c]["client"] = <<>>
        BY <1>0, <1>1, <4>1 DEF Wire
      <4> QED BY <1>1, <1>6, <3>1, <4>2 DEF Kind
    <3> QED BY <1>1, <1>9, <3>1
  <2> QED BY <1>0, <1>1, <1>5, <1>6, <2>1
          DEF ServerRings, ServerFull, QueueOf, Open, Up
<1>c. ClientRings'
  <2>1. ASSUME NEW d \in Made, port[owner[d]].cc = d
        PROVE  /\ (cc'[d]["server"].state = "none" \/ Kind(d, "client")' = "Hello") =>
                    port[owner[d]].tx = <<>> /\ port[owner[d]].rx = <<>>
               /\ (\/ Kind(d, "client")' \in {"Ack", "Connected"}
                   \/ Kind(d, "server")' \notin Calm \/ cc'[d]["client"].isConnected) =>
                    ClientFull(n(d), port[owner[d]])
    BY <1>0, <1>1, <1>5, <1>6, <2>1 DEF ClientRings, ClientFull
  <2> QED BY <1>0, <1>1, <2>1 DEF ClientRings, ClientFull
<1>f. Freed'
  <2>1. \A d \in Made, t \in Sides : cc'[d][t].state = cc[d][t].state
    BY <1>1, <1>5
  <2> QED BY <1>0, <1>1, <1>7, <2>1 DEF Freed, Up
<1> QED BY <1>t, <1>o, <1>w, <1>l, <1>q, <1>s, <1>c, <1>f DEF IInv

\* Port.Disconnect, called by the application at any time.
LEMMA UserInv ==
  ASSUME IInv, NEW p \in Procs, UserDisconnect(p)
  PROVE  IInv'
<1> DEFINE s == IF p = Server THEN "server" ELSE "client"
<1>1. PICK c : c = port[p].cc
  OBVIOUS
<1>2. /\ Up(p) /\ c # 0 /\ UNCHANGED <<owner, backlog>>
      /\ (proc[Proc(c, Peer(s))] = "up" /\ Open(c, s)) => Fail(c, s, port[p])
      /\ ~(proc[Proc(c, Peer(s))] = "up" /\ Open(c, s)) =>
           (/\ cc' = [cc EXCEPT ![c][s].msgQueue = <<>>]
            /\ UNCHANGED <<proc, port, net>>)
  BY <1>1 DEF UserDisconnect, Up
<1>3. Typed /\ Opened /\ Linked
  BY DEF IInv
<1>4. /\ c \in Made /\ (p # Server => owner[c] = p)
      /\ (p = Server => cc[c]["server"].bound)
  BY <1>1, <1>2, <1>3 DEF Linked
<1>5. s \in Sides /\ Proc(c, s) = p
  BY <1>4 DEF Sides, Proc
<1>6. c \in Conns /\ port[p] \in PortRec
  BY <1>3, <1>4, <1>5, Ends DEF Typed
<1>7. cc[c][s].bound
  BY <1>3, <1>4 DEF Opened
<1>8. s = "client" => Proc(c, Peer(s)) = Server
  BY DEF Proc, Peer
<1> HIDE DEF s
<1>9. CASE proc[Proc(c, Peer(s))] = "up" /\ Open(c, s)
  BY <1>2, <1>4, <1>5, <1>6, <1>9, FailInv, Zenon
<1>10. CASE ~(proc[Proc(c, Peer(s))] = "up" /\ Open(c, s))
  <2>1. s = "client" => ~(Up(Server) /\ Open(c, "client"))
    BY <1>8, <1>10 DEF Up
  <2>2. /\ Put(c, s, [cc[c][s] EXCEPT !.msgQueue = <<>>])
        /\ UNCHANGED <<proc, port, net, owner, backlog>>
    BY <1>2, <1>3, <1>5, <1>6, <1>10 DEF Put, Typed
  <2> QED BY <1>4, <1>5, <1>6, <1>7, <2>1, <2>2, EmptyInv, Zenon
<1> QED BY <1>9, <1>10

\* The death of a process leaves its state behind, unread.
LEMMA DieInv ==
  ASSUME IInv, NEW p \in Procs, Die(p)
  PROVE  IInv'
<1>0. Typed /\ Opened /\ Wire /\ Linked /\ Queued /\ ServerRings /\ ClientRings /\ Freed
  BY DEF IInv
<1>1. UNCHANGED <<port, owner, backlog, cc, net>> /\ Made' = Made
      /\ proc' = [proc EXCEPT ![p] = "dead"]
  BY DEF Die, Made
<1>2. \A x \in Procs : proc'[x] = "up" => proc[x] = "up"
  BY <1>0, <1>1 DEF Typed
<1>3. /\ \A d \in Conns, t \in Sides : Kind(d, t)' = Kind(d, t)
      /\ \A d \in Conns : Word(d)' = Word(d)
      /\ \A d, t : Proc(d, t)' = Proc(d, t)
      /\ \A d : QueueOf(d)' = QueueOf(d)
  BY <1>1 DEF Kind, Word, Proc, QueueOf
<1>4. \A d \in Made, t \in Sides : Proc(d, t) \in Procs /\ d \in Conns
  BY <1>0, Ends
<1>5. Sides = {"client", "server"} /\ Server \in Procs
  BY DEF Sides, Procs
<1>t. Typed'
  BY <1>0, <1>1 DEF Typed
<1>o. Opened'
  BY <1>0, <1>1, <1>3, <1>4, <1>5 DEF Opened
<1>w. Wire'
  BY <1>0, <1>1, <1>3, <1>5 DEF Wire
<1>l. Linked'
  BY <1>0, <1>1, <1>2, <1>3, <1>4, <1>5 DEF Linked, Up, Open
<1>q. Queued'
  BY <1>0, <1>1, <1>2, <1>3, <1>4, <1>5 DEF Queued, Up, Open
<1>s. ServerRings'
  BY <1>0, <1>1, <1>2, <1>3, <1>4, <1>5 DEF ServerRings, Up, Open
<1>c. ClientRings'
  BY <1>0, <1>1, <1>3, <1>4, <1>5 DEF ClientRings
<1>f. Freed'
  BY <1>0, <1>1, <1>2, <1>3, <1>4 DEF Freed, Up
<1> QED BY <1>t, <1>o, <1>w, <1>l, <1>q, <1>s, <1>c, <1>f DEF IInv

-----------------------------------------------------------------------------
(* Every step                                                              *)

\* Init either gives the channel the port or ends the connection.
LEMMA HandleInitInv ==
  ASSUME IInv, NEW c \in Conns, HandleInit(c)
  PROVE  IInv'
<1>1. Receives(c, "server", "Init") /\ UNCHANGED <<owner, backlog>>
  BY DEF HandleInit
<1>2. CASE Accepts(port[Server], Head(net[c]["server"]))
  <2>1. Done(c, "server", [cc[c]["server"] EXCEPT !.bound = TRUE],
             [port[Server] EXCEPT !.cc = c], <<AckMsg>>)
    BY <1>2, Zenon DEF HandleInit
  <2>2. port[Server].cc = 0
    BY <1>2 DEF Accepts
  <2> QED BY <1>1, <2>1, <2>2, InitInv, Zenon
<1>3. CASE ~Accepts(port[Server], Head(net[c]["server"]))
  <2>1. Fail(c, "server", port[Server])
    BY <1>3, Zenon DEF HandleInit
  <2>2. "server" \in Sides /\ Proc(c, "server") = Server
    BY DEF Sides, Proc
  <2>3. /\ c \in Made /\ Open(c, "server") /\ Up(Server) /\ port[Server] \in PortRec
    BY <1>1, <2>2, ReceivesFacts
  <2> QED BY <1>1, <2>1, <2>2, <2>3, FailInv, Zenon
<1> QED BY <1>2, <1>3

\* AddRing either appends the ring or, if the server has fewer queue pairs, ends
\* the connection.
LEMMA HandleAddRingInv ==
  ASSUME IInv, NEW c \in Conns, HandleAddRing(c)
  PROVE  IInv'
<1> DEFINE r == Head(net[c]["server"]).ring
<1>1. Receives(c, "server", "AddRing") /\ UNCHANGED <<owner, backlog>>
  BY DEF HandleAddRing
<1>2. CASE ~(r.index >= Pairs[Server])
  <2>1. Done(c, "server", cc[c]["server"], TakeOver(port[Server], Word(c).ring), <<AckMsg>>)
    BY <1>2, Zenon DEF HandleAddRing, Word
  <2> QED BY <1>1, <2>1, AddRingInv, Zenon
<1>3. CASE r.index >= Pairs[Server]
  <2>1. Fail(c, "server", port[Server])
    BY <1>3, Zenon DEF HandleAddRing
  <2>2. "server" \in Sides /\ Proc(c, "server") = Server
    BY DEF Sides, Proc
  <2>3. /\ c \in Made /\ Open(c, "server") /\ Up(Server) /\ port[Server] \in PortRec
    BY <1>1, <2>2, ReceivesFacts
  <2> QED BY <1>1, <2>1, <2>2, <2>3, FailInv, Zenon
<1> QED BY <1>2, <1>3

\* A failing port.connect ends the connection, whether or not it has mapped the
\* region by then.
LEMMA ConnectFailInv ==
  ASSUME IInv, NEW c \in Conns, NEW s \in Sides, NEW type, Receives(c, s, type),
         cc[c][s].bound, UNCHANGED <<owner, backlog>>,
         \/ Fail(c, s, [port[Proc(c, s)] EXCEPT !.region = "mapped"])
         \/ Fail(c, s, port[Proc(c, s)])
  PROVE  IInv'
<1>1. PICK p : /\ Fail(c, s, p)
               /\ \/ p = [port[Proc(c, s)] EXCEPT !.region = "mapped"]
                  \/ p = port[Proc(c, s)]
  BY Zenon
<1>2. c \in Made /\ Open(c, s) /\ port[Proc(c, s)] \in PortRec
  BY ReceivesFacts
<1>3. Up(Proc(c, s))
  BY DEF Receives, Up
<1>4. p \in PortRec
  BY <1>1, <1>2 DEF PortRec
<1> QED BY <1>1, <1>2, <1>3, <1>4, FailInv, Zenon

\* Connect and Connected, whatever the application's callback returns.
LEMMA HandleConnectInv ==
  ASSUME IInv, NEW c \in Conns, HandleConnect(c) \/ HandleConnected(c)
  PROVE  IInv'
<1>1. CASE HandleConnect(c)
  <2>0. "server" \in Sides /\ Proc(c, "server") = Server /\ "Connect" \in Setup
    BY DEF Sides, Proc, Setup
  <2>1. Receives(c, "server", "Connect") /\ UNCHANGED <<owner, backlog>>
    BY <1>1 DEF HandleConnect
  <2>2. \/ Done(c, "server", [cc[c]["server"] EXCEPT !.isConnected = TRUE],
                [port[Server] EXCEPT !.region = "mapped"], <<ConnectedMsg>>)
        \/ Fail(c, "server", [port[Proc(c, "server")] EXCEPT !.region = "mapped"])
        \/ Fail(c, "server", port[Proc(c, "server")])
    BY <1>1, <2>0, Zenon DEF HandleConnect, Connect
  <2>3. cc[c]["server"].bound
    BY <2>0, <2>1, SetupFacts
  <2> QED BY <2>0, <2>1, <2>2, <2>3, ConnectInv, ConnectFailInv, Zenon
<1>2. CASE HandleConnected(c)
  <2>0. "client" \in Sides /\ Proc(c, "client") = owner[c]
    BY DEF Sides, Proc
  <2>1. Receives(c, "client", "Connected") /\ UNCHANGED <<owner, backlog>>
    BY <1>2 DEF HandleConnected
  <2>2. \/ Done(c, "client", [cc[c]["client"] EXCEPT !.isConnected = TRUE],
                [port[owner[c]] EXCEPT !.region = "mapped"], <<>>)
        \/ Fail(c, "client", [port[Proc(c, "client")] EXCEPT !.region = "mapped"])
        \/ Fail(c, "client", port[Proc(c, "client")])
    BY <1>2, <2>0, Zenon DEF HandleConnected, Connect
  <2>3. cc[c]["client"].bound
    BY <2>0, <2>1, ReceivesFacts
  <2> QED BY <2>0, <2>1, <2>2, <2>3, ConnectedInv, ConnectFailInv, Zenon
<1> QED BY <1>1, <1>2

\* A step that changes nothing.
LEMMA StutterInv == IInv /\ UNCHANGED vars => IInv'
<1> SUFFICES ASSUME IInv, UNCHANGED vars PROVE IInv'
  OBVIOUS
<1> USE DEF vars, IInv
<1>1. Typed'
  BY DEF Typed
<1>2. Opened' /\ Wire'
  BY DEF Opened, Wire, Made, Kind
<1>3. Linked' /\ Freed'
  BY DEF Linked, Freed, Made, Kind, Up, Proc, Open
<1>4. Queued' /\ ServerRings' /\ ClientRings'
  BY DEF Queued, ServerRings, ClientRings, Made, Kind, Up, Open, QueueOf, Word
<1> QED BY <1>1, <1>2, <1>3, <1>4

\* Every step preserves the invariant.
LEMMA InvNext == IInv /\ [Next]_vars => IInv'
<1> SUFFICES ASSUME IInv, [Next]_vars PROVE IInv'
  OBVIOUS
<1>1. CASE UNCHANGED vars
  BY <1>1, StutterInv
<1>2. CASE \E p \in Clients : RequestConnection(p)
  BY <1>2, RequestInv
<1>3. CASE Accept
  BY <1>3, AcceptInv
<1>4. CASE \E c \in Conns : Handle(c)
  BY <1>4, HelloInv, AckInv, HandleInitInv, AddRegionInv, HandleAddRingInv,
     HandleConnectInv DEF Handle
<1>5. CASE \E c \in Conns, s \in Sides : Down(c, s)
  BY <1>5, DisconnectInv, HupInv DEF Down
<1>6. CASE \E p \in Procs : UserDisconnect(p) \/ Die(p)
  BY <1>6, UserInv, DieInv
<1> QED BY <1>1, <1>2, <1>3, <1>4, <1>5, <1>6 DEF Next

-----------------------------------------------------------------------------
(* The theorems                                                            *)

\* The inductive invariant holds in every reachable state.
THEOREM Invariant == Spec => []IInv
BY InvInit, InvNext, PTL DEF Spec

-----------------------------------------------------------------------------
(* Rings within the configured queue pairs                                 *)

\* The rings of port record q are rings that process p is configured for.
Fits(p, q) ==
  /\ \A i \in DOMAIN q.tx : q.tx[i].index < Pairs[p]
  /\ \A i \in DOMAIN q.rx : q.rx[i].index < Pairs[p]

Bounded == \A p \in Procs : Fits(p, port[p])

\* A step that changes one port, to one that fits.
LEMMA FitsStep ==
  ASSUME Typed, Bounded, NEW q \in Procs, NEW p, Fits(q, p),
         port' = [port EXCEPT ![q] = p]
  PROVE  Bounded'
<1>1. \A x \in Procs : port'[x] = IF x = q THEN p ELSE port[x]
  BY DEF Typed
<1> QED BY <1>1 DEF Bounded, Fits

\* port.disconnect adds no ring.
LEMMA FitsDisconnected ==
  ASSUME NEW q \in Procs, NEW p \in PortRec, Fits(q, p), NEW r \in {"ok", "error"}
  PROVE  Fits(q, Disconnected(p, r))
<1>1. CASE p.cc = 0
  BY <1>1 DEF Disconnected
<1>2. CASE p.cc # 0 /\ r = "error"
  <2>1. Disconnected(p, r) = [p EXCEPT !.failed = TRUE]
    BY <1>2 DEF Disconnected
  <2> QED BY <2>1 DEF Fits, PortRec
<1>3. CASE p.cc # 0 /\ r = "ok" /\ p.region = "fd"
  <2>1. Disconnected(p, r) = [p EXCEPT !.tx = <<>>, !.rx = <<>>, !.quit = DefaultCallback]
    BY <1>3 DEF Disconnected
  <2> QED BY <2>1 DEF Fits, PortRec
<1>4. CASE p.cc # 0 /\ r = "ok" /\ p.region # "fd"
  <2>1. Disconnected(p, r) = [NoPort EXCEPT !.quit = DefaultCallback]
    BY <1>4 DEF Disconnected
  <2> QED BY <2>1 DEF Fits, NoPort
<1> QED BY <1>1, <1>2, <1>3, <1>4

\* Closing a channel adds no ring.
LEMMA ShutBounded ==
  ASSUME Typed, Bounded, NEW c \in Made, NEW s \in Sides, NEW p \in PortRec,
         Fits(Proc(c, s), p), NEW chan, Shut(c, s, p, chan)
  PROVE  Bounded'
<1>0. Proc(c, s) \in Procs
  BY Ends
<1>1. PICK q \in Procs : q = Proc(c, s)
  BY <1>0
<1>2. CASE UNCHANGED port
  BY <1>2 DEF Bounded, Fits
<1>3. CASE \E r \in {"ok", "error"} :
             port' = [port EXCEPT ![q] = IF chan.bound THEN Disconnected(p, r) ELSE p]
  <2>1. PICK r \in {"ok", "error"} :
          port' = [port EXCEPT ![q] = IF chan.bound THEN Disconnected(p, r) ELSE p]
    BY <1>3
  <2>2. PICK x : x = IF chan.bound THEN Disconnected(p, r) ELSE p
    OBVIOUS
  <2>3. Fits(q, x)
    BY <1>1, <2>2, FitsDisconnected
  <2> QED BY <2>1, <2>2, <2>3, FitsStep
<1> QED BY <1>1, <1>2, <1>3, ControlAssumption DEF Shut

\* A handler that ends well and leaves the port with rings that fit.
LEMMA DoneBounded ==
  ASSUME Typed, Bounded, NEW c \in Made, NEW s \in Sides, NEW chan, NEW p, NEW out,
         Fits(Proc(c, s), p), Done(c, s, chan, p, out)
  PROVE  Bounded'
BY Ends, FitsStep DEF Done

\* The rings of a client's own run fit.
LEMMA RunFits ==
  ASSUME NEW p \in Clients, NEW type \in {"S2M", "M2S"}
  PROVE  \A i \in 1 .. RunPairs(p) : Rings(type, RunPairs(p))[i].index < Pairs[p]
<1>1. PICK n \in Nat : n = RunPairs(p)
  BY PairsType
<1>2. Pairs[p] \in Nat /\ n <= Pairs[p]
  BY <1>1, ControlAssumption DEF RunPairs, Min16, Procs
<1> SUFFICES ASSUME NEW i \in 1 .. n PROVE Rings(type, n)[i].index < Pairs[p]
  BY <1>1
<1>3. Rings(type, n)[i].index = i - 1
  BY DEF Rings
<1> QED BY <1>2, <1>3

\* parseHello builds no more rings than configured.
LEMMA HelloBounded ==
  ASSUME IInv, Bounded, NEW c \in Conns, HandleHello(c)
  PROVE  Bounded'
<1> DEFINE n == RunPairs(owner[c])
           o == port[owner[c]]
           t == o.tx \o Rings("S2M", n)
           x == o.rx \o Rings("M2S", n)
           p == [o EXCEPT !.region = "mapped", !.tx = @ \o Rings("S2M", n),
                          !.rx = @ \o Rings("M2S", n)]
<1>0. "client" \in Sides /\ Proc(c, "client") = owner[c] /\ Typed
  BY DEF Sides, Proc, IInv
<1>1. /\ Receives(c, "client", "Hello")
      /\ Done(c, "client", [cc[c]["client"] EXCEPT !.msgQueue = Handshake(n)], p,
              <<InitMsg(owner[c])>>)
  BY Zenon DEF HandleHello
<1>2. /\ c \in Made /\ owner[c] \in Clients /\ n \in Nat /\ o \in PortRec
      /\ owner[c] \in Procs
  BY <1>0, <1>1, ReceivesFacts DEF Procs
<1>3. o.tx \in Seq(RingIds) /\ o.rx \in Seq(RingIds)
  BY <1>2 DEF PortRec
<1>4. /\ Rings("S2M", n) \in Seq(RingIds) /\ Len(Rings("S2M", n)) = n
      /\ Rings("M2S", n) \in Seq(RingIds) /\ Len(Rings("M2S", n)) = n
  BY <1>2, RingsType
<1>5. p.tx = t /\ p.rx = x
  BY <1>2 DEF PortRec
<1>6. Fits(owner[c], o)
  BY <1>2 DEF Bounded
<1>7. /\ \A i \in 1 .. n : Rings("S2M", n)[i].index < Pairs[owner[c]]
      /\ \A i \in 1 .. n : Rings("M2S", n)[i].index < Pairs[owner[c]]
  BY <1>2, RunFits
<1>8. \A i \in DOMAIN t : t[i].index < Pairs[owner[c]]
  <2> SUFFICES ASSUME NEW a, a = o.tx, NEW b, b = Rings("S2M", n)
               PROVE  \A i \in DOMAIN (a \o b) : (a \o b)[i].index < Pairs[owner[c]]
    OBVIOUS
  <2> HIDE DEF n, o, t, x, p
  <2> QED BY <1>2, <1>3, <1>4, <1>6, <1>7 DEF Fits
<1>9. \A i \in DOMAIN x : x[i].index < Pairs[owner[c]]
  <2> SUFFICES ASSUME NEW a, a = o.rx, NEW b, b = Rings("M2S", n)
               PROVE  \A i \in DOMAIN (a \o b) : (a \o b)[i].index < Pairs[owner[c]]
    OBVIOUS
  <2> HIDE DEF n, o, t, x, p
  <2> QED BY <1>2, <1>3, <1>4, <1>6, <1>7 DEF Fits
<1>10. Fits(owner[c], p)
  <2> HIDE DEF p, t, x
  <2> QED BY <1>5, <1>8, <1>9 DEF Fits
<1> HIDE DEF p
<1> QED BY <1>0, <1>1, <1>2, <1>10, DoneBounded, Zenon

\* parseAddRing refuses an index beyond the server's own queue pairs.
LEMMA AddRingBounded ==
  ASSUME IInv, Bounded, NEW c \in Conns, HandleAddRing(c)
  PROVE  Bounded'
<1> DEFINE r == Head(net[c]["server"]).ring
           o == port[Server]
<1>0. "server" \in Sides /\ Proc(c, "server") = Server /\ Typed /\ Server \in Procs
  BY DEF Sides, Proc, IInv, Procs
<1>1. Receives(c, "server", "AddRing")
  BY DEF HandleAddRing
<1>2. /\ c \in Made /\ o \in PortRec /\ Head(net[c]["server"]) \in Msgs
      /\ Head(net[c]["server"]).type = "AddRing"
  BY <1>0, <1>1, ReceivesFacts
<1>3. r \in RingIds
  BY <1>2, ByType
<1>4. Fits(Server, o)
  BY <1>0 DEF Bounded
<1>5. CASE r.index >= Pairs[Server]
  <2>1. Fail(c, "server", o)
    BY <1>5, Zenon DEF HandleAddRing
  <2> QED BY <1>0, <1>2, <1>4, <2>1, ShutBounded, Zenon DEF Fail
<1>6. CASE ~(r.index >= Pairs[Server])
  <2>1. Done(c, "server", cc[c]["server"], TakeOver(o, r), <<AckMsg>>)
    BY <1>6, Zenon DEF HandleAddRing
  <2>2. r.index < Pairs[Server]
    BY <1>3, <1>6, ControlAssumption DEF RingIds, Procs
  <2>3. o.tx \in Seq(RingIds) /\ o.rx \in Seq(RingIds)
    BY <1>2 DEF PortRec
  <2>4. /\ \A i \in DOMAIN Append(o.tx, r) : Append(o.tx, r)[i].index < Pairs[Server]
        /\ \A i \in DOMAIN Append(o.rx, r) : Append(o.rx, r)[i].index < Pairs[Server]
    <3> SUFFICES ASSUME NEW a \in Seq(RingIds), NEW b, b = r,
                        \A i \in DOMAIN a : a[i].index < Pairs[Server]
                 PROVE  \A i \in DOMAIN Append(a, b) :
                          Append(a, b)[i].index < Pairs[Server]
      BY <1>4, <2>3 DEF Fits
    <3> HIDE DEF r, o
    <3> QED BY <1>3, <2>2
  <2>5. Fits(Server, TakeOver(o, r))
    <3> HIDE DEF r, o
    <3> QED BY <1>2, <1>4, <2>4 DEF Fits, TakeOver, PortRec
  <2> QED BY <1>0, <1>2, <2>1, <2>5, DoneBounded, Zenon
<1> QED BY <1>5, <1>6

\* The other handlers of the handshake leave the rings as they are.
LEMMA HandleBounded ==
  ASSUME IInv, Bounded, NEW c \in Conns, Handle(c)
  PROVE  Bounded'
<1>0. /\ "server" \in Sides /\ Proc(c, "server") = Server
      /\ "client" \in Sides /\ Proc(c, "client") = owner[c]
      /\ Typed /\ Server \in Procs
  BY DEF Sides, Proc, IInv, Procs
<1>1. CASE HandleHello(c)
  BY <1>1, HelloBounded
<1>2. CASE HandleAddRing(c)
  BY <1>2, AddRingBounded
<1>3. ASSUME NEW s \in Sides, NEW type, Receives(c, s, type)
      PROVE  /\ c \in Made /\ port[Proc(c, s)] \in PortRec
             /\ Fits(Proc(c, s), port[Proc(c, s)])
             /\ Fits(Proc(c, s), [port[Proc(c, s)] EXCEPT !.region = "mapped"])
             /\ Fits(Proc(c, s), [port[Proc(c, s)] EXCEPT !.region = "fd"])
             /\ Fits(Proc(c, s), [port[Proc(c, s)] EXCEPT !.cc = c])
             /\ [port[Proc(c, s)] EXCEPT !.region = "mapped"] \in PortRec
  <2>1. c \in Made /\ port[Proc(c, s)] \in PortRec
    BY <1>3, ReceivesFacts
  <2>2. Fits(Proc(c, s), port[Proc(c, s)])
    BY <1>0, <2>1, Ends DEF Bounded
  <2> QED BY <2>1, <2>2 DEF Fits, PortRec
<1>4. CASE HandleAck(c)
  <2>1. /\ Receives(c, "client", "Ack")
        /\ \E chan, out : Done(c, "client", chan, port[owner[c]], out)
    BY <1>4, Zenon DEF HandleAck
  <2> QED BY <1>0, <1>3, <2>1, DoneBounded, Zenon
<1>5. CASE HandleInit(c)
  <2>1. /\ Receives(c, "server", "Init")
        /\ \/ \E chan, out : Done(c, "server", chan, [port[Server] EXCEPT !.cc = c], out)
           \/ Fail(c, "server", port[Server])
    BY <1>5, Zenon DEF HandleInit
  <2> QED BY <1>0, <1>3, <2>1, DoneBounded, ShutBounded, Zenon DEF Fail
<1>6. CASE HandleAddRegion(c)
  <2>1. /\ Receives(c, "server", "AddRegion")
        /\ \E chan, out :
             Done(c, "server", chan, [port[Server] EXCEPT !.region = "fd"], out)
    BY <1>6, Zenon DEF HandleAddRegion
  <2> QED BY <1>0, <1>3, <2>1, DoneBounded, Zenon
<1>7. ASSUME NEW s \in Sides, NEW type, Receives(c, s, type), NEW msgs,
             Connect(c, s, msgs)
      PROVE  Bounded'
  <2>1. \/ \E chan, out :
             Done(c, s, chan, [port[Proc(c, s)] EXCEPT !.region = "mapped"], out)
        \/ Fail(c, s, port[Proc(c, s)])
        \/ Fail(c, s, [port[Proc(c, s)] EXCEPT !.region = "mapped"])
    BY <1>7, Zenon DEF Connect
  <2> QED BY <1>0, <1>3, <1>7, <2>1, DoneBounded, ShutBounded, Zenon DEF Fail
<1>8. CASE HandleConnect(c) \/ HandleConnected(c)
  BY <1>0, <1>7, <1>8, Zenon DEF HandleConnect, HandleConnected
<1> QED BY <1>1, <1>2, <1>4, <1>5, <1>6, <1>8 DEF Handle

\* No step gives a port a ring it is not configured for.
LEMMA BoundedNext == IInv /\ Bounded /\ [Next]_vars => Bounded'
<1> SUFFICES ASSUME IInv, Bounded, [Next]_vars PROVE Bounded'
  OBVIOUS
<1>0. Typed /\ Opened /\ Linked
  BY DEF IInv
<1>1. CASE UNCHANGED port
  BY <1>1 DEF Bounded, Fits
<1>2. CASE \E p \in Clients : RequestConnection(p)
  <2>1. PICK p \in Clients : port' = [port EXCEPT ![p].cc = Len(owner) + 1]
    BY <1>2, Zenon DEF RequestConnection
  <2>2. p \in Procs /\ port[p] \in PortRec
    BY <1>0 DEF Typed, Procs
  <2>3. Fits(p, [port[p] EXCEPT !.cc = Len(owner) + 1])
    BY <2>2 DEF Bounded, Fits, PortRec
  <2> QED BY <1>0, <2>1, <2>2, <2>3, FitsStep
<1>3. CASE Accept
  BY <1>1, <1>3 DEF Accept
<1>4. CASE \E c \in Conns : Handle(c)
  BY <1>4, HandleBounded
<1>5. CASE \E c \in Conns, s \in Sides : Down(c, s)
  <2>1. PICK c \in Conns, s \in Sides : Down(c, s)
    BY <1>5
  <2>2. CASE UNCHANGED port
    BY <1>1, <2>2
  <2>3. CASE ~UNCHANGED port
    <3>1. Shut(c, s, port[Proc(c, s)], cc[c][s])
      BY <2>1, <2>3, Zenon DEF Down, HandleDisconnect, HandleHup
    <3>2. c \in Made
      BY <2>1 DEF Down, HandleDisconnect, HandleHup, Receives, Made, Conns
    <3>3. port[Proc(c, s)] \in PortRec /\ Fits(Proc(c, s), port[Proc(c, s)])
      BY <1>0, <3>2, Ends DEF Typed, Bounded
    <3> QED BY <1>0, <3>1, <3>2, <3>3, ShutBounded, Zenon
  <2> QED BY <2>2, <2>3
<1>6. CASE \E p \in Procs : UserDisconnect(p)
  <2>1. PICK p \in Procs : UserDisconnect(p)
    BY <1>6
  <2> DEFINE s == IF p = Server THEN "server" ELSE "client"
  <2>2. PICK c : c = port[p].cc
    OBVIOUS
  <2>3. c # 0 /\ (UNCHANGED port \/ Fail(c, s, port[p]))
    BY <2>1, <2>2 DEF UserDisconnect
  <2>4. c \in Made /\ (p # Server => owner[c] = p)
    BY <1>0, <2>2, <2>3 DEF Linked
  <2>5. s \in Sides /\ Proc(c, s) = p
    BY <2>4 DEF Sides, Proc
  <2>6. port[p] \in PortRec /\ Fits(p, port[p])
    BY <1>0 DEF Typed, Bounded
  <2> HIDE DEF s
  <2> QED BY <1>0, <1>1, <2>3, <2>4, <2>5, <2>6, ShutBounded, Zenon DEF Fail
<1>7. CASE \E p \in Procs : Die(p)
  BY <1>1, <1>7 DEF Die
<1>8. CASE UNCHANGED vars
  BY <1>1, <1>8 DEF vars
<1> QED BY <1>2, <1>3, <1>4, <1>5, <1>6, <1>7, <1>8 DEF Next

\* No port ever holds a ring it is not configured for.
THEOREM RingsBounded == Spec => []Bounded
<1>1. Init => Bounded
  BY DEF Init, Bounded, Fits, NoPort
<1> QED BY <1>1, BoundedNext, Invariant, PTL DEF Spec

\* Processes, ports and channels keep their types, and the index of every ring is
\* below the number of queue pairs its port is configured for.
THEOREM TypeCorrect == Spec => []TypeOK
<1>1. IInv /\ Bounded => TypeOK
  <2> SUFFICES ASSUME Typed, Bounded PROVE TypeOK
    BY DEF IInv
  <2>1. \A p \in Procs : port[p] \in PortRec
    BY DEF Typed
  <2>2. \A c \in Conns, s \in Sides : cc[c][s] \in ChanRec
    BY DEF Typed
  <2>3. \A p \in Procs : /\ port[p].cc \in 0 .. MaxConns
                         /\ port[p].region \in {"none", "fd", "mapped"}
                         /\ port[p].quit \in BOOLEAN
    BY <2>1 DEF PortRec
  <2>4. \A c \in Conns, s \in Sides :
          /\ cc[c][s].state \in {"none", "open", "closed"}
          /\ cc[c][s].bound \in BOOLEAN /\ cc[c][s].isConnected \in BOOLEAN
    BY <2>2 DEF ChanRec
  <2>5. \A p \in Procs :
          Indices(port[p].tx) \cup Indices(port[p].rx) \subseteq 0 .. Pairs[p] - 1
    <3> SUFFICES ASSUME NEW p \in Procs, NEW q \in Seq(RingIds),
                        \A i \in DOMAIN q : q[i].index < Pairs[p]
                 PROVE  Indices(q) \subseteq 0 .. Pairs[p] - 1
      BY <2>1 DEF Bounded, Fits, PortRec
    <3>1. \A i \in DOMAIN q : q[i].index \in Nat
      <4>1. \A i \in DOMAIN q : q[i] \in RingIds
        OBVIOUS
      <4> QED BY <4>1 DEF RingIds
    <3>2. Pairs[p] \in Nat
      BY ControlAssumption
    <3> QED BY <3>1, <3>2 DEF Indices
  <2> QED BY <2>3, <2>4, <2>5 DEF TypeOK, Typed
<1> QED BY <1>1, Invariant, RingsBounded, PTL

\* A server port serves one control channel: parseInit never gives a port that a
\* polled channel uses to another one.
THEOREM OneChannelPerPort == Spec => []PortExclusive
<1>1. IInv => PortExclusive
  <2> SUFFICES ASSUME IInv, NEW c \in Conns, proc[Server] = "up", Open(c, "server"),
                      cc[c]["server"].bound
               PROVE  port[Server].cc = c
    BY DEF PortExclusive
  <2>1. "server" \in Sides /\ Proc(c, "server") = Server
    BY DEF Sides, Proc
  <2>2. c \in Made
    BY <2>1 DEF IInv, Opened, NoChannel, Open
  <2> QED BY <2>1, <2>2 DEF IInv, Linked, Up
<1> QED BY <1>1, Invariant, PTL

\* The handshake runs in lock-step: of a connection at most one message other
\* than Disconnect is under way.
THEOREM OneMessageUnderWay == Spec => []LockStep
<1>1. IInv => LockStep
  <2> SUFFICES ASSUME IInv, NEW c \in Conns, NEW s \in Sides, NEW t \in Sides,
                      NEW i \in DOMAIN net[c][s], NEW j \in DOMAIN net[c][t],
                      net[c][s][i] # Disconnect, net[c][t][j] # Disconnect
               PROVE  s = t /\ i = j
    BY DEF LockStep
  <2>0. Typed /\ Wire
    BY DEF IInv
  <2>1. i = 1 /\ j = 1
    BY <2>0 DEF Wire
  <2>2. \A u \in Sides : (1 \in DOMAIN net[c][u] /\ net[c][u][1] # Disconnect)
          => Kind(c, u) \notin Calm
    <3> SUFFICES ASSUME NEW u \in Sides, 1 \in DOMAIN net[c][u],
                        net[c][u][1] # Disconnect
                 PROVE  Kind(c, u) \notin Calm
      OBVIOUS
    <3>1. net[c][u] # <<>>
      OBVIOUS
    <3>2. net[c][u][1] \in Msgs /\ Kind(c, u) = net[c][u][1].type
      BY <2>0, <3>1, Heads
    <3> QED BY <3>2, ByType DEF Calm
  <2>3. Kind(c, s) \notin Calm /\ Kind(c, t) \notin Calm
    BY <2>1, <2>2
  <2>4. s = t
    BY <2>0, <2>3 DEF Wire, Sides
  <2> QED BY <2>1, <2>4
<1> QED BY <1>1, Invariant, PTL

\* Two ports that are connected to each other have the same rings, crossed.
THEOREM RingsAgree == Spec => []QueuesMatch
<1>1. IInv => QueuesMatch
  <2> SUFFICES ASSUME IInv, NEW c \in 1 .. Len(owner), IsConnected(Server, c),
                      IsConnected(owner[c], c)
               PROVE  /\ port[Server].rx = port[owner[c]].tx
                      /\ port[Server].tx = port[owner[c]].rx
    BY DEF QueuesMatch
  <2>1. c \in Made /\ "client" \in Sides
    BY DEF Made, Sides
  <2>2. owner[c] # Server
    BY <2>1, Ends DEF IInv
  <2>3. /\ port[Server].cc = c /\ cc[c]["server"].isConnected
        /\ port[owner[c]].cc = c /\ cc[c]["client"].isConnected
    BY <2>2 DEF IsConnected
  <2>4. ServerFull(RunPairs(owner[c]), port[Server])
    BY <2>1, <2>3 DEF IInv, ServerRings, ServerFull
  <2>5. ClientFull(RunPairs(owner[c]), port[owner[c]])
    BY <2>1, <2>3 DEF IInv, ClientRings, ClientFull
  <2> QED BY <2>4, <2>5 DEF ServerFull, ClientFull
<1> QED BY <1>1, Invariant, PTL

\* A port that reports IsConnected has its region mapped and the queues of the
\* client's run, which are all of a client's own and no more than the server is
\* configured for.
THEOREM UsableWhenConnected == Spec => []ConnectedUsable
<1>1. IInv /\ Bounded => ConnectedUsable
  <2> SUFFICES ASSUME IInv, Bounded, NEW c \in 1 .. Len(owner),
                      NEW p \in {owner[c], Server}, IsConnected(p, c)
               PROVE  /\ port[p].region = "mapped"
                      /\ Len(port[p].tx) = RunPairs(owner[c])
                      /\ Len(port[p].rx) = RunPairs(owner[c])
                      /\ RunPairs(owner[c]) <= Pairs[p]
    BY DEF ConnectedUsable
  <2>1. c \in Made /\ "client" \in Sides /\ Typed
    BY DEF Made, Sides, IInv
  <2>2. owner[c] # Server /\ owner[c] \in Clients
    BY <2>1, Ends
  <2>n. PICK n \in Nat \ {0} : n = RunPairs(owner[c])
    BY <2>2, PairsType
  <2>4. Len(Rings("S2M", n)) = n /\ Len(Rings("M2S", n)) = n
    BY RingsType
  <2>5. CASE p = Server
    <3>1. port[Server].cc = c /\ cc[c]["server"].isConnected
      BY <2>5 DEF IsConnected
    <3>2. ServerFull(n, port[Server])
      BY <2>1, <2>n, <3>1 DEF IInv, ServerRings, ServerFull
    <3>3. n <= Pairs[Server]
      <4>1. n \in DOMAIN port[Server].rx /\ port[Server].rx[n].index = n - 1
        <5>1. port[Server].rx = Rings("S2M", n)
          BY <3>2 DEF ServerFull
        <5>2. n \in DOMAIN Rings("S2M", n)
          BY DEF Rings
        <5>3. Rings("S2M", n)[n] = [type |-> "S2M", index |-> n - 1]
          <6>1. \A i \in 1 .. n : Rings("S2M", n)[i] = [type |-> "S2M", index |-> i - 1]
            BY RingsType
          <6> QED BY <6>1, n \in 1 .. n
        <5> QED BY <5>1, <5>2, <5>3
      <4>2. n - 1 < Pairs[Server] /\ Pairs[Server] \in Nat
        BY <4>1, ControlAssumption DEF Bounded, Fits, Procs
      <4> QED BY <4>2
    <3> QED BY <2>n, <2>4, <2>5, <3>2, <3>3 DEF ServerFull
  <2>6. CASE p = owner[c]
    <3>1. port[p].cc = c /\ cc[c]["client"].isConnected
      BY <2>2, <2>6 DEF IsConnected
    <3>2. ClientFull(n, port[p])
      BY <2>1, <2>6, <2>n, <3>1 DEF IInv, ClientRings, ClientFull
    <3>3. n <= Pairs[p]
      BY <2>2, <2>6, <2>n, ControlAssumption DEF RunPairs, Min16, Procs
    <3> QED BY <2>n, <2>4, <3>2, <3>3 DEF ClientFull
  <2> QED BY <2>5, <2>6
<1> QED BY <1>1, Invariant, RingsBounded, PTL

\* A client reports a connection only after the server's ConnectedFunc ran.
THEOREM ServerConnectsFirst == Spec => []ServerFirst
<1>1. IInv => ServerFirst
  <2> SUFFICES ASSUME IInv, NEW c \in 1 .. Len(owner), IsConnected(owner[c], c)
               PROVE  cc[c]["server"].isConnected
    BY DEF ServerFirst
  <2>1. c \in Made /\ "client" \in Sides /\ Typed
    BY DEF Made, Sides, IInv
  <2>2. owner[c] # Server
    BY <2>1, Ends
  <2>3. cc[c]["client"].isConnected
    BY <2>2 DEF IsConnected
  <2> QED BY <2>1, <2>3 DEF IInv, Linked
<1> QED BY <1>1, Invariant, PTL

\* Closing a channel frees its port, but for a failed callback and a region that
\* was not mapped yet.
THEOREM PortFreed == Spec => []CloseFrees
<1>1. IInv => CloseFrees
  <2> SUFFICES ASSUME IInv, NEW c \in Conns, NEW p \in Procs, proc[p] = "up",
                      port[p].cc = c,
                      cc[c][IF p = Server THEN "server" ELSE "client"].state = "closed"
               PROVE  port[p].failed \/ port[p].region = "fd"
    BY DEF CloseFrees
  <2> DEFINE s == IF p = Server THEN "server" ELSE "client"
  <2>1. c # 0
    BY DEF Conns
  <2>2. c \in Made /\ (p # Server => owner[c] = p)
    BY <2>1 DEF IInv, Linked
  <2>3. s \in Sides /\ Proc(c, s) = p
    BY <2>2 DEF Sides, Proc
  <2> HIDE DEF s
  <2>4. cc[c][s].state = "closed"
    BY DEF s
  <2> QED BY <2>2, <2>3, <2>4 DEF IInv, Freed, Up
<1> QED BY <1>1, Invariant, PTL
=============================================================================
