------------------------ MODULE SocketPollingProofs ------------------------
(***************************************************************************)
(* What SocketPolling promises for any number of workers and any number of *)
(* calls of StartPolling: its types, that StopPolling leaves no handler    *)
(* running, that QuitChan is closed once, and that a worker that looks at  *)
(* QuitChan never uses an unmapped region.                                 *)
(***************************************************************************)
EXTENDS SocketPolling, FiniteSetTheorems, TLAPS

-----------------------------------------------------------------------------
(* The inductive invariant                                                 *)

\* Steps of close behind a successful delEvent.
Passed   == Closing \ {"del"}
\* Steps of disconnect behind the close of QuitChan.
QuitSeen == Passed \ {"callback"}
\* Steps of disconnect behind Wg.Wait.
Cleared  == {"clear", "unmap", "forget"}

\* The workers port.Wg counts.
Counted == {w \in Workers : work[w] \in {"get", "loop", "use"}}

Messages == {"Hello", "Connected", "Disconnect"}
Fresh    == \A w \in Workers : work[w] = "none"
Awaited  == \E i \in DOMAIN inbox : inbox[i] = "Connected"

\* The types.
Booleans ==
  /\ registered \in BOOLEAN /\ cc \in BOOLEAN /\ mapped \in BOOLEAN
  /\ queues \in BOOLEAN /\ initSent \in BOOLEAN /\ isConnected \in BOOLEAN
  /\ quit \in BOOLEAN

Typed ==
  /\ work \in [Workers -> {"none", "spawned", "get", "loop", "use", "done"}]
  /\ at \in [Gos -> {"idle", "error"} \cup Closing \cup Handling]
  /\ stopChan \in {"nil", "open", "closed"}
  /\ poll \in {"off", "select", "wait", "dispatch", "handle", "report",
               "last report"}
  /\ app \in {"run", "wake", "stopping", "closing", "deleting", "deleted"}
  /\ inbox \in Seq(Messages)

\* ErrChan holds one error at most.
Room == errs \in 0 .. 1

\* What is dispatched has something to handle.
Dispatched == poll = "dispatch" => ev = "hup" \/ inbox # <<>>

\* Handlers run in the polling goroutine only, and only while it handles; the
\* main goroutine is in the library only during its calls.
Placed ==
  /\ poll # "handle" => at["poll"] = "idle"
  /\ at["app"] \notin Handling
  /\ app \notin {"closing", "deleting"} => at["app"] = "idle"

\* delEvent lets one goroutine pass, and QuitChan is open until it is closed by
\* that one.
Single ==
  /\ registered => ~quit /\ \A g \in Gos : at[g] \notin Passed
  /\ \A g, h \in Gos : at[g] \in Passed /\ at[h] \in Passed => g = h
  /\ \A g \in Gos : at[g] = "callback" => ~quit
  /\ \A g \in Gos : at[g] \in QuitSeen => quit

\* The Connected message comes once, after Init, so that workers are started
\* once.
StartedOnce ==
  /\ Awaited \/ at["poll"] = "connect" \/ peer \in {"new", "hello"} => Fresh
  /\ Awaited \/ peer \in {"new", "hello"} => at["poll"] # "connect"
  /\ peer \in {"new", "hello"} => ~Awaited
  /\ \A i, j \in DOMAIN inbox :
       inbox[i] = "Connected" /\ inbox[j] = "Connected" => i = j
  /\ Awaited \/ at["poll"] = "connect" \/ ~Fresh => initSent

WgCounts == wg = Cardinality(Counted)

\* Until QuitChan is closed the region stays mapped, and behind Wg.Wait no
\* sender is in WritePacket.
Guarded ==
  /\ ~quit /\ initSent => mapped
  /\ \A g \in Gos : ~quit /\ at[g] \in {"queues", "enqueue"} => mapped
  /\ crash = "no" =>
       \A g \in Gos, w \in Senders : at[g] \in Cleared => work[w] # "use"
  /\ \A w \in Senders : work[w] = "use" => mapped

IInv ==
  /\ Booleans /\ Typed /\ Room /\ Dispatched /\ Placed /\ Single /\ StartedOnce
  /\ WgCounts /\ Guarded /\ StopQuiet /\ TornDownOnce

-----------------------------------------------------------------------------
(* Initial states                                                          *)

\* The port after NewPort, before StartPolling, satisfies the invariant.
LEMMA InvInit == Init => IInv
<1> SUFFICES ASSUME Init PROVE IInv
  OBVIOUS
<1> USE DEF Init, PortInit
<1>0. Booleans
  BY DEF Booleans
<1>8. Room
  BY DEF Room
<1>1. Typed /\ Dispatched
  BY DEF Typed, Dispatched, Closing, Handling
<1>2. Placed
  BY DEF Placed, Gos, Handling
<1>3. Single
  BY DEF Single, Gos, Passed, QuitSeen, Closing
<1>4. StartedOnce
  BY DEF StartedOnce, Awaited, Fresh, Gos
<1>5. WgCounts
  <2>1. Counted = {}
    BY DEF Counted
  <2> QED BY <2>1, FS_EmptySet DEF WgCounts
<1>6. Guarded
  BY DEF Guarded, Gos, Cleared, Workers
<1>7. StopQuiet /\ TornDownOnce
  BY DEF StopQuiet, TornDownOnce
<1> QED BY <1>0, <1>8, <1>1, <1>2, <1>3, <1>4, <1>5, <1>6, <1>7 DEF IInv

-----------------------------------------------------------------------------
(* Every step preserves the invariant                                      *)

\* Where the handler of each message begins.
LEMMA HandlerOf ==
  /\ Handler("Hello") = "regions"
  /\ Handler("Connected") = "connect"
  /\ Handler("Disconnect") = "del"
BY Zenon DEF Handler

\* An error is sent to an empty ErrChan only.
LEMMA RoomNext ==
  ASSUME Room, Next
  PROVE  Room'
<1> USE DEF Room
<1>1. CASE PollReport
  <2>1. errs' = 1
    BY <1>1 DEF PollReport
  <2> QED BY <2>1
<1>2. CASE ReadError
  BY <1>2 DEF ReadError
<1>3. CASE StartPolling \/ PollSelect \/ PollEvent \/ PollDispatch \/ PollReturn
             \/ PollFails
  BY <1>3 DEF StartPolling, PollSelect, PollEvent, PollDispatch, PollReturn, PollFails
<1>4. CASE StopPolling \/ Disconnect \/ Delete
  BY <1>4 DEF StopPolling, Disconnect, Delete
<1>8. CASE AppStep
  BY <1>8 DEF AppStep, StopWakes, StopReturns, CallReturns
<1>5. CASE PeerSends \/ PeerDies
  BY <1>5 DEF PeerSends, Sends, PeerDies
<1>6. ASSUME NEW g \in Gos, PortStep(g) PROVE Room'
  BY <1>6 DEF PortStep
<1>7. ASSUME NEW w \in Workers, Work(w) PROVE Room'
  BY <1>7 DEF Work, sockVars
<1> QED
  BY <1>1, <1>2, <1>3, <1>4, <1>5, <1>6, <1>7, <1>8 DEF Next, PollStep

\* The steps of the sockets, goroutines and the peer keep the types; a message
\* is taken only from an inbox that holds one.
LEMMA TypedNext ==
  ASSUME IInv, Next
  PROVE  Typed' /\ Dispatched'
<1> USE DEF IInv, Typed, Dispatched, portVars
<1>1. CASE StartPolling
  BY <1>1 DEF StartPolling
<1>2. CASE PollSelect
  BY <1>2 DEF PollSelect
<1>3. CASE PollEvent
  BY <1>3 DEF PollEvent, Reported, IsReady
<1>4. CASE PollDispatch
  <2>1. CASE ~registered
    BY <1>4, <2>1 DEF PollDispatch
  <2>2. CASE registered /\ ev = "hup"
    BY <1>4, <2>2 DEF PollDispatch, Closing
  <2>3. CASE registered /\ ev # "hup"
    <3>1. inbox # <<>> /\ Head(inbox) \in Messages /\ Tail(inbox) \in Seq(Messages)
      BY <1>4, <2>3 DEF PollDispatch
    <3>2. Handler(Head(inbox)) \in Closing \cup Handling
      BY <3>1, HandlerOf DEF Messages, Closing, Handling
    <3> QED BY <1>4, <2>3, <3>1, <3>2 DEF PollDispatch
  <2> QED BY <2>1, <2>2, <2>3
<1>5. CASE PollReturn
  BY <1>5 DEF PollReturn
<1>6. CASE PollReport
  BY <1>6 DEF PollReport
<1>7. CASE PollFails
  BY <1>7 DEF PollFails
<1>8. CASE StopPolling
  BY <1>8 DEF StopPolling
<1>9. CASE Disconnect \/ Delete
  BY <1>9 DEF Disconnect, Delete, Closing
<1>10. CASE AppStep
  BY <1>10 DEF AppStep, StopWakes, StopReturns, CallReturns
<1>11. CASE ReadError
  BY <1>11 DEF ReadError
<1>12. CASE PeerSends
  <2>1. PICK m \in Messages : inbox' = Append(inbox, m)
    BY <1>12 DEF PeerSends, Sends, Messages
  <2>2. inbox \in Seq(Messages)
    OBVIOUS
  <2>3. inbox' \in Seq(Messages) /\ inbox' # <<>>
    <3> HIDE DEF IInv
    <3> QED BY <2>1, <2>2
  <2>4. UNCHANGED <<work, at, stopChan, poll, app, ev>>
    BY <1>12 DEF PeerSends, Sends
  <2> QED BY <2>3, <2>4
<1>13. CASE PeerDies
  BY <1>13 DEF PeerDies
<1>14. ASSUME NEW g \in Gos, PortStep(g) PROVE Typed' /\ Dispatched'
  <2>1. UNCHANGED <<stopChan, poll, ev, inbox, app>>
    BY <1>14 DEF PortStep
  <2>2. work' \in [Workers -> {"none", "spawned", "get", "loop", "use", "done"}]
    BY <1>14 DEF PortStep, LibStep, InitializeRegions, InitializeQueues,
       EnqueueHandshake, ConnectPort, StartWorkers, MarkConnected, DelEvent,
       Callback, Wait, WaitReturns, ClearQueues, Unmap, Forget
  <2>3. \E to \in {"idle", "error"} \cup Closing \cup Handling :
          at' = [at EXCEPT ![g] = to]
    BY <1>14 DEF PortStep, LibStep, Goto, InitializeRegions, InitializeQueues,
       EnqueueHandshake, ConnectPort, MarkConnected, DelEvent, Callback, Wait,
       WaitReturns, ClearQueues, Unmap, Forget, Closing, Handling
  <2> QED BY <2>1, <2>2, <2>3
<1>15. ASSUME NEW w \in Workers, Work(w) PROVE Typed' /\ Dispatched'
  <2>1. UNCHANGED <<stopChan, poll, ev, inbox, app>>
    BY <1>15 DEF Work, sockVars
  <2>2. \E to \in {"get", "loop", "use", "done"} : work' = [work EXCEPT ![w] = to]
    BY <1>15 DEF Work, WorkerStep, Turns, WorkerStarts, WorkerGetsQueue,
       WorkerLoops, WorkerAccesses, WorkerQuits
  <2>3. \/ UNCHANGED at
        \/ at' = [g \in Gos |-> IF wg = 1 /\ at[g] = "parked" THEN "woken"
                                ELSE at[g]]
    BY <1>15 DEF Work, WorkerStep, WorkerStarts, WorkerGetsQueue, WorkerLoops,
       WorkerAccesses, WorkerQuits
  <2>4. at' \in [Gos -> {"idle", "error"} \cup Closing \cup Handling]
    BY <2>3 DEF Closing
  <2>5. work' \in [Workers -> {"none", "spawned", "get", "loop", "use", "done"}]
    BY <2>2
  <2> QED BY <2>1, <2>4, <2>5
<1> QED
  BY <1>1, <1>2, <1>3, <1>4, <1>5, <1>6, <1>7, <1>8, <1>9, <1>10, <1>11, <1>12,
     <1>13, <1>14, <1>15 DEF Next, PollStep

\* Steps that touch neither the port nor the messages under way.
Quiet ==
  \/ StartPolling \/ PollSelect \/ PollEvent \/ PollFails \/ PollReport
  \/ StopWakes \/ StopReturns \/ ReadError

\* Those steps change no variable of the port, no message and not the peer.
LEMMA QuietKeeps ==
  ASSUME Quiet
  PROVE  UNCHANGED <<registered, cc, mapped, queues, initSent, isConnected, quit,
                     wg, work, at, crash, inbox, peer>>
BY DEF Quiet, StartPolling, PollSelect, PollEvent, PollFails, PollReport, StopWakes,
   StopReturns, ReadError, portVars

\* Steps that move one goroutine to where a call or a handler begins or has
\* returned, and leave the rest of the port alone.
Calls ==
  \/ PollDispatch \/ PollReturn \/ StopPolling \/ Disconnect \/ Delete \/ CallReturns

\* Those steps change where goroutines are, and may end the process.
LEMMA CallsKeep ==
  ASSUME Calls
  PROVE  UNCHANGED <<registered, cc, mapped, queues, initSent, isConnected, quit,
                     wg, work, peer>>
BY DEF Calls, PollDispatch, PollReturn, StopPolling, Disconnect, Delete, CallReturns

\* A goroutine outside the library enters a handler or close, or one that is
\* through leaves it.
LEMMA CallsMove ==
  ASSUME Typed, Dispatched, Placed, Calls
  PROVE  \/ UNCHANGED at
         \/ \E g \in Gos, to \in {"idle", "del", "regions", "connect"} :
              at' = [at EXCEPT ![g] = to] /\ at[g] \in {"idle", "error"}
<1> USE DEF Typed, Placed, Gos
<1>1. CASE PollDispatch
  <2>1. CASE ~registered
    BY <1>1, <2>1 DEF PollDispatch
  <2>2. CASE registered
    <3>1. at["poll"] = "idle"
      BY <1>1 DEF PollDispatch
    <3>2. PICK to : at' = [at EXCEPT !["poll"] = to] /\
            to = IF ev = "hup" THEN "del" ELSE Handler(Head(inbox))
      BY <1>1, <2>2 DEF PollDispatch
    <3>3. ev # "hup" => Head(inbox) \in Messages
      BY <1>1 DEF PollDispatch, Dispatched
    <3>4. to \in {"del", "regions", "connect"}
      BY <3>2, <3>3, HandlerOf DEF Messages
    <3> QED BY <3>1, <3>2, <3>4
  <2> QED BY <2>1, <2>2
<1>2. CASE PollReturn
  BY <1>2 DEF PollReturn
<1>3. CASE StopPolling
  BY <1>3 DEF StopPolling
<1>4. CASE Disconnect
  BY <1>4 DEF Disconnect
<1>5. CASE Delete
  <2>1. at["app"] = "idle"
    BY <1>5 DEF Delete
  <2> QED BY <1>5, <2>1 DEF Delete
<1>6. CASE CallReturns
  BY <1>6 DEF CallReturns
<1> QED
  BY <1>1, <1>2, <1>3, <1>4, <1>5, <1>6 DEF Calls

\* The peer touches no variable of the port.
LEMMA PeerKeeps ==
  ASSUME PeerSends \/ PeerDies
  PROVE  UNCHANGED <<registered, cc, mapped, queues, initSent, isConnected, quit,
                     wg, work, at, crash>>
BY DEF PeerSends, Sends, PeerDies, portVars

\* Every step is of one of these kinds.
LEMMA NextCases ==
  ASSUME Next
  PROVE  \/ Quiet \/ Calls \/ PeerSends \/ PeerDies
         \/ \E g \in Gos : PortStep(g)
         \/ \E w \in Workers : Work(w)
BY DEF Next, PollStep, AppStep, Quiet, Calls

\* A step of the port's code: where it may lead a goroutine.
LEMMA PortStepMoves ==
  ASSUME NEW g \in Gos, PortStep(g)
  PROVE  /\ \E to \in {"idle", "error"} \cup Passed \cup Handling :
              at' = [at EXCEPT ![g] = to]
         /\ at[g] \in Closing \cup Handling
         /\ UNCHANGED <<stopChan, poll, ev, inbox, peer, app>>
BY DEF PortStep, LibStep, Goto, InitializeRegions, InitializeQueues,
   EnqueueHandshake, ConnectPort, MarkConnected, DelEvent, Callback, Wait,
   WaitReturns, ClearQueues, Unmap, Forget, Passed, Closing, Handling

\* A worker moves a goroutine at most from parked to woken.
LEMMA WorkMoves ==
  ASSUME Typed, NEW w \in Workers, Work(w)
  PROVE  /\ \A g \in Gos : at'[g] = at[g] \/ (at[g] = "parked" /\ at'[g] = "woken")
         /\ UNCHANGED <<registered, cc, mapped, queues, initSent, isConnected, quit>>
         /\ UNCHANGED <<stopChan, poll, ev, inbox, peer, app>>
BY DEF Typed, Work, sockVars, WorkerStep, Turns, WorkerStarts, WorkerGetsQueue,
   WorkerLoops, WorkerAccesses, WorkerQuits

\* The flags of the port stay Booleans.
LEMMA BooleansNext ==
  ASSUME Booleans, Typed, Next
  PROVE  Booleans'
<1>1. CASE Quiet
  BY <1>1, QuietKeeps DEF Booleans
<1>2. CASE Calls
  BY <1>2, CallsKeep DEF Booleans
<1>3. CASE PeerSends \/ PeerDies
  BY <1>3, PeerKeeps DEF Booleans
<1>4. ASSUME NEW g \in Gos, PortStep(g) PROVE Booleans'
  BY <1>4, Zenon DEF Booleans, PortStep, LibStep, InitializeRegions, InitializeQueues,
     EnqueueHandshake, ConnectPort, MarkConnected, DelEvent, Callback, Wait,
     WaitReturns, ClearQueues, Unmap, Forget
<1>5. ASSUME NEW w \in Workers, Work(w) PROVE Booleans'
  BY <1>5, WorkMoves DEF Booleans
<1> QED BY <1>1, <1>2, <1>3, <1>4, <1>5, NextCases

\* A handler begins when an event is dispatched and has returned before the
\* polling goroutine goes on.
LEMMA PlacedNext ==
  ASSUME Typed, Dispatched, Placed, Next
  PROVE  Placed'
<1>1. CASE Quiet
  <2>1. UNCHANGED at
    BY <1>1, QuietKeeps
  <2>2. poll' # "handle" => poll # "handle"
    BY <1>1 DEF Quiet, StartPolling, PollSelect, PollEvent, PollFails, PollReport,
       StopWakes, StopReturns, ReadError
  <2>3. app' \notin {"closing", "deleting"} => app \notin {"closing", "deleting"}
    BY <1>1 DEF Quiet, StartPolling, PollSelect, PollEvent, PollFails, PollReport,
       StopWakes, StopReturns, ReadError
  <2> QED BY <2>1, <2>2, <2>3 DEF Placed
<1>2. CASE PollDispatch
  <2>1. poll' # "handle" => at' = at
    BY <1>2 DEF PollDispatch
  <2>2. at'["app"] = at["app"] /\ app' = app
    BY <1>2 DEF PollDispatch, Typed, Gos
  <2> QED BY <1>2, <2>1, <2>2 DEF PollDispatch, Placed
<1>3. CASE PollReturn
  BY <1>3 DEF PollReturn, Placed, Typed, Gos
<1>4. CASE StopPolling
  BY <1>4 DEF StopPolling, Placed
<1>5. CASE Disconnect \/ Delete
  BY <1>5 DEF Disconnect, Delete, Placed, Typed, Gos, Handling
<1>6. CASE CallReturns
  BY <1>6 DEF CallReturns, Placed, Typed, Gos, Handling
<1>7. CASE PeerSends \/ PeerDies
  BY <1>7, PeerKeeps DEF PeerSends, Sends, PeerDies, Placed
<1>8. ASSUME NEW g \in Gos, PortStep(g) PROVE Placed'
  <2>1. g = "poll" => poll = "handle" /\ at'["app"] = at["app"]
    BY <1>8, PortStepMoves DEF Placed, Typed, Gos, Closing, Handling
  <2>2. g = "app" => /\ app \in {"closing", "deleting"}
                     /\ at'["poll"] = at["poll"] /\ at'["app"] \notin Handling
    BY <1>8 DEF Placed, Typed, Gos, Handling, PortStep, LibStep, Goto,
       InitializeRegions, InitializeQueues, EnqueueHandshake, ConnectPort,
       MarkConnected, DelEvent, Callback, Wait, WaitReturns, ClearQueues, Unmap, Forget
  <2> QED BY <1>8, <2>1, <2>2, PortStepMoves DEF Placed, Gos
<1>9. ASSUME NEW w \in Workers, Work(w) PROVE Placed'
  BY <1>9, WorkMoves DEF Placed, Gos, Handling
<1> QED
  BY <1>1, <1>2, <1>3, <1>4, <1>5, <1>6, <1>7, <1>8, <1>9, NextCases DEF Calls

\* StopPolling returns only after the polling goroutine has ended, and nothing
\* but StartPolling starts another.
LEMMA StopQuietNext ==
  ASSUME Typed, Placed, StopQuiet, Next
  PROVE  StopQuiet'
<1>1. CASE Quiet
  BY <1>1, QuietKeeps DEF StopQuiet, Placed, Quiet, StartPolling, PollSelect,
     PollEvent, PollFails, PollReport, StopWakes, StopReturns, ReadError
<1>2. CASE PollDispatch \/ PollReturn
  BY <1>2 DEF PollDispatch, PollReturn, StopQuiet
<1>3. CASE StopPolling
  BY <1>3 DEF StopPolling, StopQuiet
<1>4. CASE Disconnect \/ Delete \/ CallReturns
  BY <1>4 DEF Disconnect, Delete, CallReturns, StopQuiet, Typed, Gos
<1>5. CASE PeerSends \/ PeerDies
  BY <1>5, PeerKeeps DEF PeerSends, Sends, PeerDies, StopQuiet
<1>6. ASSUME NEW g \in Gos, PortStep(g) PROVE StopQuiet'
  <2>1. poll = "off" => at'["poll"] = at["poll"]
    BY <1>6, PortStepMoves DEF Placed, Typed, Gos, Closing, Handling
  <2> QED BY <1>6, <2>1, PortStepMoves DEF StopQuiet
<1>7. ASSUME NEW w \in Workers, Work(w) PROVE StopQuiet'
  BY <1>7, WorkMoves DEF StopQuiet, Gos
<1> QED
  BY <1>1, <1>2, <1>3, <1>4, <1>5, <1>6, <1>7, NextCases DEF Calls

\* A goroutine that begins or ends a call passes nothing.
LEMMA SingleStays ==
  ASSUME Typed, Single, NEW g \in Gos, NEW to, to \notin Passed,
         at' = [at EXCEPT ![g] = to], UNCHANGED <<registered, quit>>
  PROVE  Single'
<1>1. \A h \in Gos : at'[h] = IF h = g THEN to ELSE at[h]
  BY DEF Typed
<1>2. to # "callback" /\ to \notin QuitSeen
  BY DEF Passed, QuitSeen, Closing
<1> QED BY <1>1, <1>2 DEF Single

\* Only a registered channel lets a goroutine pass delEvent, and it is
\* registered no more; QuitChan is closed by the one that passed.
LEMMA SingleNext ==
  ASSUME Typed, Dispatched, Placed, Single, Next
  PROVE  Single'
<1>1. CASE Quiet
  BY <1>1, QuietKeeps DEF Single
<1>2. CASE Calls
  <2>1. CASE UNCHANGED at
    BY <1>2, <2>1, CallsKeep DEF Single
  <2>2. ASSUME NEW g \in Gos, NEW to \in {"idle", "del", "regions", "connect"},
               at' = [at EXCEPT ![g] = to]
        PROVE  Single'
    BY <1>2, <2>2, CallsKeep, SingleStays DEF Passed, Closing
  <2> QED BY <1>2, <2>1, <2>2, CallsMove
<1>3. CASE PeerSends \/ PeerDies
  BY <1>3, PeerKeeps DEF Single
<1>4. ASSUME NEW g \in Gos, PortStep(g) PROVE Single'
  <2> USE DEF Goto
  <2>1. CASE InitializeRegions(g) \/ InitializeQueues(g) \/ EnqueueHandshake(g)
               \/ ConnectPort(g) \/ MarkConnected(g)
    <3>1. PICK to \in {"idle"} \cup Handling : at' = [at EXCEPT ![g] = to]
      BY <2>1 DEF InitializeRegions, InitializeQueues, EnqueueHandshake, ConnectPort,
         MarkConnected, Handling
    <3>2. UNCHANGED <<registered, quit>>
      BY <2>1 DEF InitializeRegions, InitializeQueues, EnqueueHandshake, ConnectPort,
         MarkConnected
    <3> QED BY <3>1, <3>2, SingleStays DEF Passed, Closing, Handling
  <2>2. CASE DelEvent(g)
    <3>1. PICK to \in {"callback", "error"} :
            /\ at' = [at EXCEPT ![g] = to]
            /\ to = IF registered THEN "callback" ELSE "error"
      BY <2>2 DEF DelEvent
    <3>2. \A h \in Gos : at'[h] = IF h = g THEN to ELSE at[h]
      BY <3>1 DEF Typed
    <3>3. ~registered' /\ quit' = quit
      BY <2>2 DEF DelEvent
    <3>4. to \notin QuitSeen /\ (to \in Passed <=> to = "callback")
      BY DEF Passed, QuitSeen, Closing
    <3>5. CASE registered
      <4>1. ~quit /\ (\A h \in Gos : at[h] \notin Passed) /\ QuitSeen \subseteq Passed
        BY <3>5 DEF Single, QuitSeen
      <4>2. \A h \in Gos : at'[h] \in Passed => h = g
        BY <3>2, <4>1
      <4>3. \A h \in Gos : at'[h] \notin QuitSeen
        BY <3>2, <3>4, <4>1
      <4> QED BY <3>3, <4>1, <4>2, <4>3 DEF Single
    <3>6. CASE ~registered
      <4>1. to \notin Passed /\ to # "callback"
        BY <3>1, <3>4, <3>6
      <4>2. \A h \in Gos : at'[h] = at[h] \/ at'[h] = "error"
        BY <3>1, <3>2, <3>6
      <4>3. "error" \notin Passed /\ "error" \notin QuitSeen
        BY DEF Passed, QuitSeen, Closing
      <4> QED BY <3>3, <4>2, <4>3 DEF Single
    <3> QED BY <3>5, <3>6
  <2>3. CASE Callback(g)
    <3>1. PICK to \in {"wait", "idle"} :
            /\ at' = [at EXCEPT ![g] = to]
            /\ to = IF cc THEN "wait" ELSE "idle"
      BY <2>3 DEF Callback
    <3>2. \A h \in Gos : at'[h] = IF h = g THEN to ELSE at[h]
      BY <3>1 DEF Typed
    <3>3. at[g] = "callback" /\ registered' = registered /\ quit' = (quit \/ cc)
      BY <2>3 DEF Callback
    <3>4. /\ at[g] \in Passed /\ to # "callback" /\ "callback" \in Passed
          /\ QuitSeen \subseteq Passed /\ "idle" \notin Passed
      BY <3>3 DEF Passed, QuitSeen, Closing
    <3>5. ~registered /\ \A h \in Gos : at[h] \in Passed => h = g
      BY <3>3, <3>4 DEF Single
    <3>6. \A h \in Gos : at'[h] \in Passed => h = g /\ to = "wait"
      BY <3>1, <3>2, <3>4, <3>5
    <3>7. to = "wait" => quit'
      BY <3>1, <3>3
    <3>8. \A h \in Gos : at'[h] # "callback"
      BY <3>2, <3>4, <3>6
    <3>9. \A h \in Gos : at'[h] \in QuitSeen => quit'
      BY <3>4, <3>6, <3>7
    <3> QED BY <3>3, <3>5, <3>6, <3>8, <3>9 DEF Single
  <2>4. CASE Wait(g) \/ WaitReturns(g) \/ ClearQueues(g) \/ Unmap(g) \/ Forget(g)
    <3>1. PICK to \in {"idle"} \cup QuitSeen : at' = [at EXCEPT ![g] = to]
      BY <2>4 DEF Wait, WaitReturns, ClearQueues, Unmap, Forget, Passed, QuitSeen, Closing
    <3>2. UNCHANGED <<registered, quit>> /\ at[g] \in QuitSeen
      BY <2>4 DEF Wait, WaitReturns, ClearQueues, Unmap, Forget, Passed, QuitSeen, Closing
    <3>3. \A h \in Gos : at'[h] = IF h = g THEN to ELSE at[h]
      BY <3>1 DEF Typed
    <3> QED BY <3>1, <3>2, <3>3 DEF Single, Passed, QuitSeen, Closing
  <2> QED BY <1>4, <2>1, <2>2, <2>3, <2>4 DEF PortStep, LibStep
<1>5. ASSUME NEW w \in Workers, Work(w) PROVE Single'
  BY <1>5, WorkMoves DEF Single, Passed, QuitSeen, Closing
<1> QED BY <1>1, <1>2, <1>3, <1>4, <1>5, NextCases

\* QuitChan is closed by a goroutine that finds it open.
LEMMA TornDownNext ==
  ASSUME Single, TornDownOnce, Next
  PROVE  TornDownOnce'
<1>1. CASE Quiet
  BY <1>1, QuietKeeps DEF TornDownOnce
<1>2. CASE Calls
  BY <1>2 DEF Calls, PollDispatch, PollReturn, StopPolling, Disconnect, Delete,
     CallReturns, TornDownOnce
<1>3. CASE PeerSends \/ PeerDies
  BY <1>3, PeerKeeps DEF TornDownOnce
<1>4. ASSUME NEW g \in Gos, PortStep(g) PROVE TornDownOnce'
  <2>1. CASE Callback(g)
    BY <2>1 DEF Callback, Goto, Single, TornDownOnce
  <2>2. CASE ~Callback(g)
    BY <1>4, <2>2 DEF PortStep, LibStep, InitializeRegions, InitializeQueues,
       EnqueueHandshake, ConnectPort, MarkConnected, DelEvent, Wait, WaitReturns,
       ClearQueues, Unmap, Forget, TornDownOnce
  <2> QED BY <2>1, <2>2
<1>5. ASSUME NEW w \in Workers, Work(w) PROVE TornDownOnce'
  BY <1>5 DEF Work, WorkerStep, WorkerStarts, WorkerGetsQueue, WorkerLoops,
     WorkerAccesses, WorkerQuits, TornDownOnce
<1> QED BY <1>1, <1>2, <1>3, <1>4, <1>5, NextCases

\* The peer sends Connected once, and only its handler starts workers.
LEMMA StartedNext ==
  ASSUME Typed, Dispatched, Placed, StartedOnce, Next
  PROVE  StartedOnce'
<1>1. CASE Quiet
  BY <1>1, QuietKeeps DEF StartedOnce, Awaited, Fresh
<1>2. CASE PollDispatch
  <2>0. UNCHANGED <<work, initSent, peer>> /\ at["poll"] = "idle"
    BY <1>2 DEF PollDispatch, Placed
  <2>1. CASE ~registered \/ ev = "hup"
    <3>1. UNCHANGED inbox /\ at'["poll"] # "connect"
      BY <1>2, <2>0, <2>1 DEF PollDispatch, Typed, Gos
    <3> QED BY <2>0, <3>1 DEF StartedOnce, Awaited, Fresh
  <2>2. CASE registered /\ ev # "hup"
    <3>1. inbox # <<>> /\ inbox \in Seq(Messages) /\ inbox' = Tail(inbox)
      BY <1>2, <2>2 DEF PollDispatch, Typed, Dispatched
    <3>2. /\ DOMAIN inbox = 1 .. Len(inbox) /\ DOMAIN inbox' = 1 .. (Len(inbox) - 1)
          /\ Len(inbox) \in Nat \ {0} /\ inbox[1] = Head(inbox)
          /\ Head(inbox) \in Messages
          /\ \A i \in DOMAIN inbox' : inbox'[i] = inbox[i + 1]
      BY <3>1
    <3>3. \A i \in DOMAIN inbox' : i + 1 \in DOMAIN inbox /\ i + 1 # 1
      BY <3>2
    <3>4. Awaited' => Awaited /\ inbox[1] # "Connected"
      BY <3>2, <3>3 DEF Awaited, StartedOnce
    <3>5. \A i, j \in DOMAIN inbox' :
            inbox'[i] = "Connected" /\ inbox'[j] = "Connected" => i = j
      <4> SUFFICES ASSUME NEW i \in DOMAIN inbox', NEW j \in DOMAIN inbox',
                          inbox'[i] = "Connected", inbox'[j] = "Connected"
                   PROVE  i = j
        OBVIOUS
      <4>1. i + 1 = j + 1
        BY <3>2, <3>3 DEF StartedOnce
      <4> QED BY <3>2, <4>1
    <3>6. at'["poll"] = "connect" => inbox[1] = "Connected" /\ Awaited
      <4>1. at'["poll"] = Handler(Head(inbox))
        BY <1>2, <2>2 DEF PollDispatch, Typed, Gos
      <4>2. at'["poll"] = "connect" => Head(inbox) = "Connected"
        BY <3>2, <4>1, HandlerOf DEF Messages
      <4> QED BY <3>2, <4>2 DEF Awaited
    <3>7. Fresh' <=> Fresh
      BY <2>0 DEF Fresh
    <3> HIDE DEF Fresh
    <3> QED BY <2>0, <3>4, <3>5, <3>6, <3>7 DEF StartedOnce
  <2> QED BY <2>1, <2>2
<1>3. CASE Calls /\ ~PollDispatch
  <2>1. UNCHANGED <<work, initSent, peer>>
    BY <1>3, CallsKeep
  <2>2. UNCHANGED inbox
    BY <1>3 DEF Calls, PollReturn, StopPolling, Disconnect, Delete, CallReturns
  <2>3. at'["poll"] = "connect" => at["poll"] = "connect"
    BY <1>3 DEF Calls, PollReturn, StopPolling, Disconnect, Delete, CallReturns,
       Typed, Gos
  <2> QED BY <2>1, <2>2, <2>3 DEF StartedOnce, Awaited, Fresh
<1>4. CASE PeerDies
  BY <1>4, PeerKeeps DEF PeerDies, StartedOnce, Awaited, Fresh
<1>5. CASE PeerSends
  <2>1. PICK m \in Messages :
          /\ inbox' = Append(inbox, m)
          /\ m = "Connected" => peer = "hello" /\ initSent
          /\ peer' \in {"new", "hello"} => m # "Connected" /\ peer = "new"
    BY <1>5 DEF PeerSends, Sends, Messages
  <2>2. UNCHANGED <<work, at, initSent>>
    BY <1>5, PeerKeeps
  <2>3. /\ DOMAIN inbox = 1 .. Len(inbox) /\ DOMAIN inbox' = 1 .. (Len(inbox) + 1)
        /\ Len(inbox) \in Nat /\ inbox'[Len(inbox) + 1] = m
        /\ \A i \in DOMAIN inbox : inbox'[i] = inbox[i]
    <3>1. inbox \in Seq(Messages)
      BY DEF Typed
    <3> QED BY <2>1, <3>1
  <2>4. \A i \in DOMAIN inbox' : i \in DOMAIN inbox \/ (i = Len(inbox) + 1 /\ inbox'[i] = m)
    BY <2>3
  <2>5. Awaited' => Awaited \/ m = "Connected"
    BY <2>3, <2>4 DEF Awaited
  <2>6. \A i, j \in DOMAIN inbox' :
          inbox'[i] = "Connected" /\ inbox'[j] = "Connected" => i = j
    <3>1. CASE m = "Connected"
      <4>1. \A i \in DOMAIN inbox : inbox[i] # "Connected"
        BY <2>1, <3>1 DEF StartedOnce, Awaited
      <4> QED BY <2>3, <2>4, <4>1
    <3>2. CASE m # "Connected"
      BY <2>3, <2>4, <3>2 DEF StartedOnce
    <3> QED BY <3>1, <3>2
  <2>7. Fresh' <=> Fresh
    BY <2>2 DEF Fresh
  <2> QED BY <2>1, <2>2, <2>5, <2>6, <2>7 DEF StartedOnce
<1>6. ASSUME NEW g \in Gos, PortStep(g) PROVE StartedOnce'
  <2>1. UNCHANGED <<inbox, peer>>
    BY <1>6 DEF PortStep
  <2>2. initSent => initSent'
    BY <1>6 DEF PortStep, LibStep, InitializeRegions, InitializeQueues,
       EnqueueHandshake, ConnectPort, MarkConnected, DelEvent, Callback, Wait,
       WaitReturns, ClearQueues, Unmap, Forget
  <2>3. CASE ConnectPort(g)
    <3>1. g = "poll" /\ at["poll"] = "connect" /\ at'["poll"] = "mark"
      BY <2>3 DEF ConnectPort, Goto, Placed, Typed, Gos, Handling
    <3> QED BY <2>1, <2>2, <3>1 DEF StartedOnce, Awaited
  <2>4. CASE ~ConnectPort(g)
    <3>1. UNCHANGED work /\ (at'["poll"] = "connect" => at["poll"] = "connect")
      BY <1>6, <2>4 DEF PortStep, LibStep, Goto, InitializeRegions, InitializeQueues,
         EnqueueHandshake, MarkConnected, DelEvent, Callback, Wait, WaitReturns,
         ClearQueues, Unmap, Forget, Typed, Gos
    <3> QED BY <2>1, <2>2, <3>1 DEF StartedOnce, Awaited, Fresh
  <2> QED BY <2>3, <2>4
<1>7. ASSUME NEW w \in Workers, Work(w) PROVE StartedOnce'
  <2>1. ~Fresh
    BY <1>7 DEF Fresh, Work, WorkerStep, Turns, WorkerStarts, WorkerGetsQueue,
       WorkerLoops, WorkerAccesses, WorkerQuits
  <2>2. UNCHANGED <<inbox, peer, initSent>>
    BY <1>7, WorkMoves
  <2>3. at'["poll"] = "connect" => at["poll"] = "connect"
    BY <1>7, WorkMoves DEF Gos
  <2> QED BY <2>1, <2>2, <2>3 DEF StartedOnce, Awaited
<1> QED BY <1>1, <1>2, <1>3, <1>4, <1>5, <1>6, <1>7, NextCases

\* Counted is finite, and a zero counter counts nobody.
LEMMA CountedFinite ==
  /\ IsFiniteSet(Workers) /\ IsFiniteSet(Counted)
  /\ Cardinality(Counted) \in 0 .. Cardinality(Workers)
  /\ Cardinality(Counted) = 0 => Counted = {}
<1>1. IsFiniteSet(Workers)
  BY WorkerAssumption DEF Workers
<1>2. Counted \in SUBSET Workers
  BY DEF Counted
<1>3. IsFiniteSet(Counted) /\ Cardinality(Counted) <= Cardinality(Workers)
  BY <1>1, <1>2, FS_Subset
<1>4. Cardinality(Counted) \in Nat /\ Cardinality(Workers) \in Nat
  BY <1>1, <1>3, FS_CardinalityType
<1> QED BY <1>1, <1>3, <1>4, FS_EmptySet

\* Each worker that runs has added itself to Wg once and takes itself off once.
LEMMA WgNext ==
  ASSUME Typed, Placed, StartedOnce, WgCounts, Next
  PROVE  WgCounts'
<1>1. CASE UNCHANGED <<work, wg>>
  BY <1>1 DEF WgCounts, Counted
<1>2. CASE Quiet \/ Calls \/ PeerSends \/ PeerDies
  BY <1>1, <1>2, QuietKeeps, CallsKeep, PeerKeeps
<1>3. ASSUME NEW g \in Gos, PortStep(g) PROVE WgCounts'
  <2>1. CASE ConnectPort(g)
    <3>1. Fresh
      BY <2>1 DEF ConnectPort, Goto, StartedOnce, Placed, Gos, Handling
    <3>2. Counted = {} /\ Counted' = {}
      BY <2>1, <3>1 DEF ConnectPort, StartWorkers, Counted, Fresh
    <3> QED BY <2>1, <3>2 DEF ConnectPort, WgCounts
  <2>2. CASE ~ConnectPort(g)
    BY <1>1, <1>3, <2>2 DEF PortStep, LibStep, InitializeRegions, InitializeQueues,
       EnqueueHandshake, MarkConnected, DelEvent, Callback, Wait, WaitReturns,
       ClearQueues, Unmap, Forget
  <2> QED BY <2>1, <2>2
<1>4. ASSUME NEW w \in Workers, Work(w) PROVE WgCounts'
  <2> USE DEF Typed, Turns
  <2>1. CASE WorkerStarts(w)
    <3>1. w \notin Counted /\ Counted' = Counted \cup {w}
      BY <2>1 DEF WorkerStarts, Counted
    <3> QED BY <2>1, <3>1, CountedFinite, FS_AddElement DEF WorkerStarts, WgCounts
  <2>2. CASE WorkerGetsQueue(w) \/ WorkerLoops(w) \/ WorkerAccesses(w)
    <3>1. Counted' = Counted
      BY <2>2 DEF WorkerGetsQueue, WorkerLoops, WorkerAccesses, Counted
    <3> QED
      BY <2>2, <3>1 DEF WorkerGetsQueue, WorkerLoops, WorkerAccesses, WgCounts
  <2>3. CASE WorkerQuits(w)
    <3>1. w \in Counted /\ Counted' = Counted \ {w}
      BY <2>3 DEF WorkerQuits, Counted
    <3> QED BY <2>3, <3>1, CountedFinite, FS_RemoveElement DEF WorkerQuits, WgCounts
  <2> QED BY <1>4, <2>1, <2>2, <2>3 DEF Work, WorkerStep
<1> QED BY <1>2, <1>3, <1>4, NextCases

\* A goroutine that moves past Wg.Wait must have found nobody inside.
LEMMA GuardedStays ==
  ASSUME Typed, Guarded, NEW g \in Gos, NEW to, to \notin {"queues", "enqueue"},
         at' = [at EXCEPT ![g] = to], quit => quit', crash = "no",
         UNCHANGED <<mapped, initSent, work>>,
         to \in Cleared /\ crash' = "no" =>
           at[g] \in Cleared \/ \A w \in Senders : work[w] # "use"
  PROVE  Guarded'
<1>1. \A h \in Gos : at'[h] = IF h = g THEN to ELSE at[h]
  BY DEF Typed
<1> QED BY <1>1 DEF Guarded

\* Behind the close of QuitChan nobody enters WritePacket, and Wg.Wait lets
\* disconnect pass when those inside have left; before it nothing is unmapped.
LEMMA GuardedNext ==
  ASSUME IInv, Next
  PROVE  Guarded'
<1> USE DEF IInv
<1>1. CASE Quiet
  BY <1>1, QuietKeeps DEF Guarded
<1>2. CASE Calls
  <2>1. UNCHANGED <<mapped, initSent, quit, work>>
    BY <1>2, CallsKeep
  <2>2. \A g \in Gos : at'[g] \in {"queues", "enqueue"} \cup Cleared => at'[g] = at[g]
    BY <1>2, CallsMove DEF Typed, Cleared
  <2>3. crash' = "no" => crash = "no"
    BY <1>2 DEF Calls, PollDispatch, PollReturn, StopPolling, Disconnect, Delete,
       CallReturns
  <2> QED BY <2>1, <2>2, <2>3 DEF Guarded
<1>3. CASE PeerSends \/ PeerDies
  BY <1>3, PeerKeeps DEF Guarded
<1>4. ASSUME NEW g \in Gos, PortStep(g) PROVE Guarded'
  <2>0. crash = "no"
    BY <1>4 DEF PortStep, LibStep
  <2>1. CASE InitializeRegions(g)
    BY <2>0, <2>1 DEF InitializeRegions, Goto, Guarded, Typed, Cleared
  <2>2. CASE InitializeQueues(g)
    BY <2>0, <2>2 DEF InitializeQueues, Goto, Guarded, Typed, Cleared
  <2>3. CASE EnqueueHandshake(g)
    BY <2>0, <2>3 DEF EnqueueHandshake, Goto, Guarded, Typed, Cleared
  <2>4. CASE ConnectPort(g)
    BY <2>0, <2>4 DEF ConnectPort, StartWorkers, Workers, Goto, Guarded, Typed, Cleared
  <2>5. CASE MarkConnected(g) \/ DelEvent(g) \/ Callback(g)
    <3>1. PICK to \in {"idle", "error", "callback", "wait"} :
            at' = [at EXCEPT ![g] = to]
      BY <2>5 DEF MarkConnected, DelEvent, Callback, Goto
    <3>2. UNCHANGED <<mapped, initSent, work>>
      BY <2>5 DEF MarkConnected, DelEvent, Callback
    <3>3. quit => quit'
      BY <2>5, Zenon DEF MarkConnected, DelEvent, Callback
    <3> QED BY <2>0, <3>1, <3>2, <3>3, GuardedStays DEF Cleared
  <2>6. CASE Wait(g) \/ WaitReturns(g)
    <3>1. wg = 0 => \A w \in Workers : work[w] # "use"
      BY CountedFinite DEF WgCounts, Counted
    <3>2. PICK to \in {"clear", "parked"} :
            at' = [at EXCEPT ![g] = to] /\ (to = "clear" /\ crash' = "no" => wg = 0)
      BY <2>6 DEF Wait, WaitReturns, Goto
    <3>3. UNCHANGED <<mapped, initSent, work, quit>>
      BY <2>6 DEF Wait, WaitReturns
    <3> QED BY <2>0, <3>1, <3>2, <3>3, GuardedStays DEF Cleared, Workers
  <2>7. CASE ClearQueues(g) \/ Forget(g)
    <3>1. PICK to \in {"unmap", "idle"} : at' = [at EXCEPT ![g] = to]
      BY <2>7 DEF ClearQueues, Forget, Goto
    <3>2. UNCHANGED <<mapped, initSent, work, quit>> /\ at[g] \in Cleared
      BY <2>7 DEF ClearQueues, Forget, Goto, Cleared
    <3> QED BY <2>0, <3>1, <3>2, GuardedStays DEF Cleared
  <2>8. CASE Unmap(g)
    <3>1. quit /\ \A w \in Senders : work[w] # "use"
      BY <2>0, <2>8 DEF Unmap, Goto, Guarded, Single, Cleared, QuitSeen, Passed, Closing
    <3> QED BY <2>0, <2>8, <3>1 DEF Unmap, Goto, Guarded, Typed, Cleared
  <2> QED BY <1>4, <2>1, <2>2, <2>3, <2>4, <2>5, <2>6, <2>7, <2>8 DEF PortStep, LibStep
<1>5. ASSUME NEW w \in Workers, Work(w) PROVE Guarded'
  <2>0. crash = "no"
    BY <1>5 DEF Work, WorkerStep
  <2>1. /\ UNCHANGED <<mapped, initSent, quit>>
        /\ \A g \in Gos : at'[g] \in {"queues", "enqueue"} \cup Cleared => at'[g] = at[g]
    BY <1>5, WorkMoves DEF Cleared
  <2>2. CASE w \in Senders /\ WorkerLoops(w)
    <3>1. ~quit /\ initSent
      BY <2>2, WorkerAssumption DEF WorkerLoops, Turns, StartedOnce, Fresh, Workers
    <3>2. mapped /\ \A g \in Gos : at[g] \notin Cleared
      BY <3>1 DEF Guarded, Single, Cleared, QuitSeen, Passed, Closing
    <3> QED BY <2>0, <2>1, <3>1, <3>2 DEF Guarded
  <2>3. CASE ~(w \in Senders /\ WorkerLoops(w))
    <3>1. \A v \in Senders : work'[v] = "use" => work[v] = "use"
      BY <1>5, <2>3 DEF Work, WorkerStep, Turns, WorkerStarts, WorkerGetsQueue,
         WorkerLoops, WorkerAccesses, WorkerQuits, Typed, Workers
    <3> QED BY <2>0, <2>1, <3>1 DEF Guarded
  <2> QED BY <2>2, <2>3
<1> QED BY <1>1, <1>2, <1>3, <1>4, <1>5, NextCases

-----------------------------------------------------------------------------
(* Theorems                                                                *)

\* The inductive invariant holds in every reachable state.
LEMMA Invariant == Spec => []IInv
<1>1. IInv /\ [Next]_vars => IInv'
  <2> SUFFICES ASSUME IInv, [Next]_vars PROVE IInv'
    OBVIOUS
  <2>1. CASE Next
    <3>1. Booleans /\ Typed /\ Room /\ Dispatched /\ Placed /\ Single /\ StartedOnce
          /\ WgCounts /\ Guarded /\ StopQuiet /\ TornDownOnce
      BY DEF IInv
    <3>2. Booleans' /\ Typed' /\ Room' /\ Dispatched' /\ Placed'
      BY <2>1, <3>1, BooleansNext, TypedNext, RoomNext, PlacedNext
    <3>3. Single' /\ StartedOnce' /\ WgCounts' /\ Guarded'
      BY <2>1, <3>1, SingleNext, StartedNext, WgNext, GuardedNext
    <3>4. StopQuiet' /\ TornDownOnce'
      BY <2>1, <3>1, StopQuietNext, TornDownNext
    <3> QED BY <3>2, <3>3, <3>4 DEF IInv
  <2>2. CASE UNCHANGED vars
    <3> USE <2>2 DEF vars, portVars, sockVars, IInv
    <3>1. Booleans' /\ Room' /\ Dispatched' /\ Placed'
      BY DEF Booleans, Room, Dispatched, Placed
    <3>2. Typed'
      BY DEF Typed
    <3>3. Single' /\ Guarded' /\ StopQuiet' /\ TornDownOnce'
      BY DEF Single, Guarded, StopQuiet, TornDownOnce
    <3>4. StartedOnce' /\ WgCounts'
      BY DEF StartedOnce, Awaited, Fresh, WgCounts, Counted
    <3> QED BY <3>1, <3>2, <3>3, <3>4
  <2> QED BY <2>1, <2>2
<1> QED BY <1>1, InvInit, PTL DEF Spec

\* The variables of the port and the socket keep their types; the counter of Wg
\* is never negative (WaitGroup would panic) and never counts more than the
\* workers.
THEOREM TypeCorrect == Spec => []TypeOK
<1>1. IInv => TypeOK
  <2> SUFFICES ASSUME IInv PROVE TypeOK
    OBVIOUS
  <2>1. {registered, cc, mapped, queues, initSent, isConnected, quit} \subseteq BOOLEAN
    BY DEF IInv, Booleans
  <2>2. wg \in 0 .. Cardinality(Workers)
    BY CountedFinite DEF IInv, WgCounts
  <2>3. errs \in 0 .. 1
    BY DEF IInv, Room
  <2> QED BY <2>1, <2>2, <2>3 DEF IInv, Typed, TypeOK
<1> QED BY <1>1, Invariant, PTL

\* When StopPolling has returned no handler runs, however the handlers, the
\* errors they report and the calls of the main goroutine interleave.
THEOREM StopIsQuiet == Spec => []StopQuiet
<1>1. IInv => StopQuiet
  BY DEF IInv
<1> QED BY <1>1, Invariant, PTL

\* The polling goroutine and the application may both close the channel: the
\* unlocked test of its registration lets one of them through, and QuitChan is
\* closed once.
THEOREM ClosedOnce == Spec => []TornDownOnce
<1>1. IInv => TornDownOnce
  BY DEF IInv
<1> QED BY <1>1, Invariant, PTL

\* No worker that looks at QuitChan before each packet is in WritePacket when
\* the region is unmapped, for any number of workers of both kinds: Wg counts
\* those inside, and a worker that registers late finds QuitChan closed.
THEOREM NoAccessAfterUnmap == Spec => []NoUseAfterUnmap
<1>1. IInv => NoUseAfterUnmap
  BY DEF IInv, Guarded, NoUseAfterUnmap
<1> QED BY <1>1, Invariant, PTL
=============================================================================
