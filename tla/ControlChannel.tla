--------------------------- MODULE ControlChannel ---------------------------
(***************************************************************************)
(* The memif control protocol: client ports that connect to the UNIX       *)
(* domain socket of one server process, the handshake that hands over the  *)
(* shared memory region and the rings, disconnection from either end, and  *)
(* the hang-up the kernel reports when a peer process dies.                *)
(*                                                                         *)
(* A step is one run of a handler by a polling goroutine, or one call of   *)
(* Port.RequestConnection or Port.Disconnect.  A SOCK_SEQPACKET socket     *)
(* neither loses nor reorders messages.  A message sent to a channel that  *)
(* its receiver has closed stays unread in the socket (close does not      *)
(* close the file descriptor), so it is dropped here.                      *)
(***************************************************************************)
EXTENDS Integers, Sequences

CONSTANTS
  Clients,          \* client processes, each with one client port
  Server,           \* the server process, with one server port
  MaxConns,         \* bound: connections made in a behaviour
  Id, Secret,       \* PortCfg.Id and PortCfg.Secret of each process's port
  NoSecret,         \* the all-zero secret
  Pairs,            \* cfg.MemoryConfig.NumQueuePairs of each port
  MaxRing,          \* MaxRingM2S of the Hello message (255)
  DefaultCallback,  \* ports use defaultDisconnectedFunc
  Results,          \* how the application's callbacks and mmap may end
  Quitters,         \* processes whose application calls Port.Disconnect
  Mortal            \* processes that may die

Procs == Clients \cup {Server}
Conns == 1 .. MaxConns
Sides == {"client", "server"}

ASSUME ControlAssumption ==
  /\ Server \notin Clients
  /\ MaxConns \in Nat /\ MaxRing \in Nat \ {0}
  /\ Pairs \in [Procs -> Nat \ {0}]
  /\ DefaultCallback \in BOOLEAN
  /\ Results \subseteq {"ok", "error"} /\ "ok" \in Results
  /\ Quitters \subseteq Procs /\ Mortal \subseteq Procs

VARIABLES
  proc,      \* "up", "dead", or "panic" for a process a panic has ended
  port,      \* the port of each process
  owner,     \* the clients that opened connections 1, 2, ... so far
  backlog,   \* connections the listener has not accepted
  cc,        \* the control channel at either end of a connection
  net        \* messages waiting to be read at either end

vars == <<proc, port, owner, backlog, cc, net>>

Rings(type, n) == [i \in 1 .. n |-> [type |-> type, index |-> i - 1]]

Msg(type)     == [type |-> type]
AckMsg        == Msg("Ack")
HelloMsg      == Msg("Hello")
AddRegionMsg  == Msg("AddRegion")
ConnectMsg    == Msg("Connect")
ConnectedMsg  == Msg("Connected")
InitMsg(p)    == [type |-> "Init", id |-> Id[p], secret |-> NoSecret]
AddRing(r)    == [type |-> "AddRing", ring |-> r]
Disconnect    == Msg("Disconnect")

\* regions holds at most one region: received ("fd") or mapped ("mapped").  The
\* last field tells that DisconnectedFunc has failed (history).
NoPort    == [cc |-> 0, tx |-> <<>>, rx |-> <<>>, region |-> "none",
              quit |-> FALSE, failed |-> FALSE]
NoChannel == [state |-> "none", bound |-> FALSE, isConnected |-> FALSE,
              msgQueue |-> <<>>]

\* addControlChannel, with or without a port.
NewChannel(bound) == [NoChannel EXCEPT !.state = "open", !.bound = bound]

Init ==
  /\ proc = [p \in Procs |-> "up"]
  /\ port = [p \in Procs |-> NoPort]
  /\ owner = <<>>
  /\ backlog = <<>>
  /\ cc = [c \in Conns |-> [s \in Sides |-> NoChannel]]
  /\ net = [c \in Conns |-> [s \in Sides |-> <<>>]]

Peer(s)    == IF s = "client" THEN "server" ELSE "client"
Proc(c, s) == IF s = "server" THEN Server ELSE owner[c]
Open(c, s) == cc[c][s].state = "open"

-----------------------------------------------------------------------------
(* Building blocks of the handlers                                         *)

\* End s of c consumes its first n messages and sends the messages out.
Exchange(c, s, n, out) ==
  net' = [net EXCEPT
    ![c][s] = SubSeq(@, n + 1, Len(@)),
    ![c][Peer(s)] = IF cc[c][Peer(s)].state = "closed" THEN @ ELSE @ \o out]

\* Mutant: port.cc is not cleared.
DisconnectedKeepsCc(p, r) ==
  IF p.cc = 0 THEN p ELSE [NoPort EXCEPT !.cc = p.cc, !.quit = DefaultCallback]

\* port.disconnect with result r of DisconnectedFunc.  A region that is not yet
\* mapped makes Munmap fail, and disconnect returns before it clears cc.
Disconnected(p, r) ==
  CASE p.cc = 0                          -> p
    [] p.cc # 0 /\ r = "error"           -> [p EXCEPT !.failed = TRUE]
    [] p.cc # 0 /\ r = "ok" /\ p.region = "fd" ->
         [p EXCEPT !.tx = <<>>, !.rx = <<>>, !.quit = DefaultCallback]
    [] p.cc # 0 /\ r = "ok" /\ p.region # "fd" ->
         [NoPort EXCEPT !.quit = DefaultCallback]

\* defaultDisconnectedFunc closes QuitChan, which may be closed only once.
ClosesTwice(p) == DefaultCallback /\ p.cc # 0 /\ p.quit

\* The rest of controlChannel.close after the message was sent: forget the
\* event and the list entry, then disconnect the port, if there is one.
Shut(c, s, p, chan) ==
  LET q == Proc(c, s) IN
  /\ cc' = [cc EXCEPT ![c][s] = [chan EXCEPT !.state = "closed"]]
  /\ IF chan.bound /\ ClosesTwice(p)
     THEN proc' = [proc EXCEPT ![q] = "panic"] /\ UNCHANGED port
     ELSE \E r \in IF DefaultCallback THEN {"ok"} ELSE Results :
            /\ port' = [port EXCEPT ![q] =
                          IF chan.bound THEN Disconnected(p, r) ELSE p]
            /\ UNCHANGED proc

\* The error exit of parseMsg: close(true, err) with the port as it is by then.
Fail(c, s, p) ==
  /\ Exchange(c, s, Len(net[c][s]), <<Disconnect>>)
  /\ Shut(c, s, p, [cc[c][s] EXCEPT !.msgQueue = <<>>])

\* handleEvent is entered with a message of this type: the peer has not hung up.
Receives(c, s, type) ==
  /\ c <= Len(owner)
  /\ proc[Proc(c, s)] = "up" /\ proc[Proc(c, Peer(s))] = "up"
  /\ Open(c, s) /\ net[c][s] # <<>> /\ Head(net[c][s]).type = type

\* A handler that ends well: new channel, new port, one message sent.
Done(c, s, chan, p, out) ==
  /\ cc' = [cc EXCEPT ![c][s] = chan]
  /\ port' = [port EXCEPT ![Proc(c, s)] = p]
  /\ Exchange(c, s, 1, out)
  /\ UNCHANGED proc

-----------------------------------------------------------------------------
(* Setting up a connection                                                 *)

\* main.go connects while the port is not IsConnecting, and so do later retries.
RequestConnection(p) ==
  LET c == Len(owner) + 1 IN
  /\ c <= MaxConns
  /\ proc[p] = "up" /\ proc[Server] = "up" /\ port[p].cc = 0
  /\ owner' = Append(owner, p)
  /\ backlog' = Append(backlog, c)
  /\ port' = [port EXCEPT ![p].cc = c]
  /\ cc' = [cc EXCEPT ![c]["client"] = NewChannel(TRUE)]
  /\ UNCHANGED <<proc, net>>

\* listener.handleEvent: a control channel without a port sends Hello.
Accept ==
  /\ proc[Server] = "up" /\ backlog # <<>>
  /\ LET c == Head(backlog) IN
       /\ cc' = [cc EXCEPT ![c]["server"] = NewChannel(FALSE)]
       /\ Exchange(c, "server", 0, <<HelloMsg>>)
  /\ backlog' = Tail(backlog)
  /\ UNCHANGED <<proc, port, owner>>

Min16(a, b) == IF a < b THEN a ELSE b

\* parseHello: run.NumQueuePairs.
RunPairs(p) == Min16(Pairs[p], MaxRing)

\* What parseMsg enqueues behind Init when Hello arrives.
Handshake(n) ==
  LET rings == Rings("S2M", n) \o Rings("M2S", n) IN
  <<AddRegionMsg>> \o [i \in 1 .. 2 * n |-> AddRing(rings[i])]
    \o <<ConnectMsg>>

\* parseHello, initializeRegions, initializeQueues; the whole handshake is
\* enqueued and its first message sent.
HandleHello(c) ==
  /\ Receives(c, "client", "Hello")
  /\ LET p == owner[c]
         n == RunPairs(p)
     IN Done(c, "client",
          [cc[c]["client"] EXCEPT !.msgQueue = Handshake(n)],
          [port[p] EXCEPT !.region = "mapped",
             !.tx = @ \o Rings("S2M", n), !.rx = @ \o Rings("M2S", n)],
          <<InitMsg(p)>>)
  /\ UNCHANGED <<owner, backlog>>

\* Mutant: an Ack releases two messages.
HandleAckTwice(c) ==
  /\ Receives(c, "client", "Ack")
  /\ LET chan == cc[c]["client"] IN
       Done(c, "client",
            [chan EXCEPT !.msgQueue = SubSeq(@, 3, Len(@))], port[owner[c]],
            SubSeq(chan.msgQueue, 1, 2))
  /\ UNCHANGED <<owner, backlog>>

\* Each Ack releases the next message of the queue.
HandleAck(c) ==
  /\ Receives(c, "client", "Ack")
  /\ LET chan == cc[c]["client"] IN
       Done(c, "client", [chan EXCEPT !.msgQueue = Tail(@)], port[owner[c]],
            <<Head(chan.msgQueue)>>)
  /\ UNCHANGED <<owner, backlog>>
\* Mutant: a port that is in use is assigned again.
AcceptsBusy(p, m) == m.id = Id[Server] /\ m.secret = Secret[Server]

\* parseInit: the port must have the id, be free, and have the secret sent.
Accepts(p, m) ==
  m.id = Id[Server] /\ p.cc = 0 /\ m.secret = Secret[Server]

HandleInit(c) ==
  /\ Receives(c, "server", "Init")
  /\ LET p == port[Server] IN
       IF Accepts(p, Head(net[c]["server"]))
       THEN Done(c, "server", [cc[c]["server"] EXCEPT !.bound = TRUE],
                 [p EXCEPT !.cc = c], <<AckMsg>>)
       ELSE Fail(c, "server", p)
  /\ UNCHANGED <<owner, backlog>>

HandleAddRegion(c) ==
  /\ Receives(c, "server", "AddRegion")
  /\ Done(c, "server", cc[c]["server"], [port[Server] EXCEPT !.region = "fd"],
          <<AckMsg>>)
  /\ UNCHANGED <<owner, backlog>>
\* Mutant: the server takes the rings over without crossing them.
TakeOverStraight(p, r) ==
  IF r.type = "S2M" THEN [p EXCEPT !.tx = Append(@, r)]
                    ELSE [p EXCEPT !.rx = Append(@, r)]

\* The client's tx rings become rx rings of the server, and conversely.
TakeOver(p, r) ==
  IF r.type = "S2M" THEN [p EXCEPT !.rx = Append(@, r)]
                    ELSE [p EXCEPT !.tx = Append(@, r)]

\* Mutant: the index is compared with one too many.
HandleAddRingOffByOne(c) ==
  /\ Receives(c, "server", "AddRing")
  /\ LET r == Head(net[c]["server"]).ring
         p == port[Server] IN
       IF r.index > Pairs[Server] THEN Fail(c, "server", p)
       ELSE Done(c, "server", cc[c]["server"], TakeOver(p, r), <<AckMsg>>)
  /\ UNCHANGED <<owner, backlog>>

\* Mutant: a ring that is one too many is acknowledged and left out.
HandleAddRingSkips(c) ==
  /\ Receives(c, "server", "AddRing")
  /\ LET r == Head(net[c]["server"]).ring
         p == port[Server] IN
       Done(c, "server", cc[c]["server"],
            IF r.index >= Pairs[Server] THEN p ELSE TakeOver(p, r), <<AckMsg>>)
  /\ UNCHANGED <<owner, backlog>>

\* parseAddRing; parseInit has made the server's own configuration its run.
HandleAddRing(c) ==
  /\ Receives(c, "server", "AddRing")
  /\ LET r == Head(net[c]["server"]).ring
         p == port[Server] IN
       IF r.index >= Pairs[Server] THEN Fail(c, "server", p)
       ELSE Done(c, "server", cc[c]["server"], TakeOver(p, r), <<AckMsg>>)
  /\ UNCHANGED <<owner, backlog>>
\* Mutant: the server answers before it has marked the channel connected.
ConnectUnmarked(c, s, out) ==
  LET p == [port[Proc(c, s)] EXCEPT !.region = "mapped"] IN
  \/ Done(c, s, [cc[c][s] EXCEPT !.isConnected = (s = "client")], p, out)
  \/ "error" \in Results /\ Fail(c, s, p)

\* port.connect maps what is not mapped, checks the rings' cookies and calls
\* ConnectedFunc; isConnected is set only if that succeeds.  A failing mmap leaves
\* the region as it was, a failing ConnectedFunc leaves it mapped.
Connect(c, s, out) ==
  LET p == port[Proc(c, s)]
      m == [p EXCEPT !.region = "mapped"] IN
  \/ Done(c, s, [cc[c][s] EXCEPT !.isConnected = TRUE], m, out)
  \/ "error" \in Results /\ \E q \in {p, m} : Fail(c, s, q)

HandleConnect(c) ==
  /\ Receives(c, "server", "Connect")
  /\ Connect(c, "server", <<ConnectedMsg>>)
  /\ UNCHANGED <<owner, backlog>>

HandleConnected(c) ==
  /\ Receives(c, "client", "Connected")
  /\ Connect(c, "client", <<>>)
  /\ UNCHANGED <<owner, backlog>>

-----------------------------------------------------------------------------
(* Tearing it down                                                         *)

\* parseDisconnect: close(false, ...).  The message handleEvent still sends from
\* the queue, or the Disconnect of the error exit, finds the peer closed.
HandleDisconnect(c, s) ==
  /\ Receives(c, s, "Disconnect")
  /\ Exchange(c, s, Len(net[c][s]), <<>>)
  /\ Shut(c, s, port[Proc(c, s)], cc[c][s])
  /\ UNCHANGED <<owner, backlog>>
\* Mutant: only the server watches for hang-ups.
HandleHupServer(c, s) ==
  /\ s = "server" /\ c <= Len(owner)
  /\ proc[Server] = "up" /\ proc[owner[c]] # "up"
  /\ Open(c, s)
  /\ Exchange(c, s, Len(net[c][s]), <<>>)
  /\ Shut(c, s, port[Server], cc[c][s])
  /\ UNCHANGED <<owner, backlog>>

\* The peer process is gone: close(false, ""), then the error names cc.port,
\* which is nil until parseInit assigned one.
HandleHup(c, s) ==
  /\ c <= Len(owner)
  /\ proc[Proc(c, s)] = "up" /\ proc[Proc(c, Peer(s))] # "up"
  /\ Open(c, s)
  /\ Exchange(c, s, Len(net[c][s]), <<>>)
  /\ IF cc[c][s].bound
     THEN Shut(c, s, port[Proc(c, s)], cc[c][s])
     ELSE /\ proc' = [proc EXCEPT ![Proc(c, s)] = "panic"]
          /\ cc' = [cc EXCEPT ![c][s].state = "closed"]
          /\ UNCHANGED port
  /\ UNCHANGED <<owner, backlog>>

\* Port.Disconnect: nothing is closed when the Disconnect message cannot be sent
\* (the peer is gone) or the channel's event has been deleted before.  In the
\* second case close has sent one more Disconnect, which the peer never reads: its
\* end is closed, or closes at the first one.  It is left out.
UserDisconnect(p) ==
  LET c == port[p].cc
      s == IF p = Server THEN "server" ELSE "client" IN
  /\ p \in Quitters /\ proc[p] = "up" /\ c # 0
  /\ IF proc[Proc(c, Peer(s))] = "up" /\ Open(c, s)
     THEN Fail(c, s, port[p])
     ELSE /\ cc' = [cc EXCEPT ![c][s].msgQueue = <<>>]
          /\ UNCHANGED <<proc, port, net>>
  /\ UNCHANGED <<owner, backlog>>

\* A process dies; the kernel closes its sockets.
Die(p) ==
  /\ p \in Mortal /\ proc[p] = "up"
  /\ proc' = [proc EXCEPT ![p] = "dead"]
  /\ UNCHANGED <<port, owner, backlog, cc, net>>

-----------------------------------------------------------------------------
Handle(c) ==
  \/ HandleHello(c) \/ HandleAck(c) \/ HandleConnected(c)
  \/ HandleInit(c) \/ HandleAddRegion(c) \/ HandleAddRing(c)
  \/ HandleConnect(c)

Down(c, s) == HandleDisconnect(c, s) \/ HandleHup(c, s)

Next ==
  \/ \E p \in Clients : RequestConnection(p)
  \/ Accept
  \/ \E c \in Conns : Handle(c)
  \/ \E c \in Conns, s \in Sides : Down(c, s)
  \/ \E p \in Procs : UserDisconnect(p) \/ Die(p)

\* The polling goroutine of a live process handles every ready descriptor:
\* epoll_wait returns ready descriptors in turn.  Nobody is obliged to connect,
\* to disconnect or to die.
Spec ==
  /\ Init /\ [][Next]_vars
  /\ WF_vars(Accept)
  /\ \A c \in Conns :
       /\ WF_vars(Handle(c))
       /\ \A s \in Sides : WF_vars(Down(c, s))

-----------------------------------------------------------------------------
(* Properties                                                              *)

Indices(queues) == {queues[i].index : i \in DOMAIN queues}

\* Processes, ports and channels keep their types; a port holds no ring beyond the
\* queue pairs it was configured for, whatever index a peer sends in AddRing.
TypeOK ==
  /\ proc \in [Procs -> {"up", "dead", "panic"}]
  /\ \A p \in Procs :
       /\ port[p].cc \in 0 .. MaxConns
       /\ port[p].region \in {"none", "fd", "mapped"}
       /\ port[p].quit \in BOOLEAN
       /\ Indices(port[p].tx) \cup Indices(port[p].rx) \subseteq 0 .. Pairs[p] - 1
  /\ owner \in Seq(Clients) /\ Len(owner) <= MaxConns
  /\ backlog \in Seq(Conns)
  /\ \A c \in Conns, s \in Sides :
       /\ cc[c][s].state \in {"none", "open", "closed"}
       /\ cc[c][s].bound \in BOOLEAN /\ cc[c][s].isConnected \in BOOLEAN

\* IsConnected of process p's port over connection c.
IsConnected(p, c) ==
  /\ proc[p] = "up" /\ c # 0 /\ port[p].cc = c
  /\ cc[c][IF p = Server THEN "server" ELSE "client"].isConnected

\* A server port serves one control channel: a channel that parseInit assigned
\* the port to, and that is still polled, is the channel of the port.
\* Otherwise two clients would share one port's queues.
PortExclusive ==
  \A c \in Conns :
    (proc[Server] = "up" /\ Open(c, "server") /\ cc[c]["server"].bound)
      => port[Server].cc = c

\* The handshake runs in lock-step, although the client enqueues it as a whole:
\* of a connection at most one message other than Disconnect is under way, in
\* either direction, so no message overtakes the Ack of the one before.
LockStep ==
  \A c \in Conns, s, t \in Sides :
    \A i \in DOMAIN net[c][s], j \in DOMAIN net[c][t] :
      (net[c][s][i] # Disconnect /\ net[c][t][j] # Disconnect) => s = t /\ i = j

\* Two ports that are connected to each other agree on the queue pairs: the rx
\* queues of each are the tx queues of the other, in the same order.
QueuesMatch ==
  \A c \in 1 .. Len(owner) :
    (IsConnected(Server, c) /\ IsConnected(owner[c], c)) =>
      /\ port[Server].rx = port[owner[c]].tx
      /\ port[Server].tx = port[owner[c]].rx

\* A port that reports IsConnected has mapped its region and has, in either
\* direction, every queue of the client's run: a client all of its own, a server
\* what that client asked for, and a client that asked for more than the server is
\* configured for is never connected.  A server may be configured for more queues
\* than it gets; GetRxQueue and GetTxQueue refuse those.
ConnectedUsable ==
  \A c \in 1 .. Len(owner) : \A p \in {owner[c], Server} :
    IsConnected(p, c) =>
      /\ port[p].region = "mapped"
      /\ Len(port[p].tx) = RunPairs(owner[c])
      /\ Len(port[p].rx) = RunPairs(owner[c])
      /\ RunPairs(owner[c]) <= Pairs[p]

\* A client reports a connection only after the server's ConnectedFunc ran.
ServerFirst ==
  \A c \in 1 .. Len(owner) :
    IsConnected(owner[c], c) => cc[c]["server"].isConnected

\* Every connection attempt ends: the client's port becomes connected, or it is
\* without a control channel again and may retry, whatever the server or the
\* other clients do meanwhile.  (Unless the client's own callback has failed.)
Settles ==
  \A p \in Clients :
    (proc[p] = "up" /\ port[p].cc # 0)
      ~> ( \/ proc[p] # "up" \/ port[p].cc = 0
           \/ IsConnected(p, port[p].cc) \/ port[p].failed )

\* Closing a channel frees its port for the next one, however far the handshake
\* was, with two exceptions: DisconnectedFunc failed, or the region had been
\* received and not mapped.
CloseFrees ==
  \A c \in Conns, p \in Procs :
    LET s == IF p = Server THEN "server" ELSE "client" IN
    (proc[p] = "up" /\ port[p].cc = c /\ cc[c][s].state = "closed")
      => port[p].failed \/ port[p].region = "fd"

-----------------------------------------------------------------------------
(* What the comments say, where the code differs                           *)

\* "close cc, don't send msg" (handleEvent, hang up): the end of a client is an
\* event the server handles, it does not end the server.
SurvivesHup == proc[Server] # "panic"

\* "When the interface changes link status Connected and Disconencted callbacks
\* [...] are called respectively" (port.go): the default callback survives being
\* called for every link that goes down, not only for the first.
CallbackRepeats == \A p \in Procs : proc[p] # "panic"
=============================================================================
