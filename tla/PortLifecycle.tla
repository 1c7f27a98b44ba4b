--------------------------- MODULE PortLifecycle ---------------------------
(***************************************************************************)
(* The life of a client port's connection, from RequestConnection to the   *)
(* end of disconnect, as the goroutines of one process see it: the polling *)
(* goroutine that runs handlers, the application's main goroutine that may *)
(* call Port.Disconnect or Socket.Delete, and the worker goroutines that   *)
(* ConnectedFunc starts.                                                   *)
(*                                                                         *)
(* The library takes no lock, so every read or write of the port is a step *)
(* of its own.  The messages of the handshake are ControlChannel's; here   *)
(* they only drive the port.  DisconnectedFunc is the default one.         *)
(* SocketPolling composes these steps with the polling loop.               *)
(***************************************************************************)
EXTENDS Integers, FiniteSets

CONSTANTS
  Senders,     \* workers that transmit until QuitChan is closed
  Receivers    \* workers that receive and never look at QuitChan

ASSUME WorkerAssumption ==
  IsFiniteSet(Senders \cup Receivers) /\ Senders \cap Receivers = {}

Workers == Senders \cup Receivers
Gos     == {"poll", "app"}    \* goroutines that run the library's code

VARIABLES
  registered,    \* the channel's fd is in the epoll set, the channel in ccList
  cc,            \* port.cc # nil
  mapped,        \* port.regions holds the mapped region
  queues,        \* port.txQueues and port.rxQueues are filled
  initSent,      \* the client has answered Hello
  isConnected,   \* cc.isConnected
  quit,          \* port.QuitChan has been closed
  wg,            \* counter of port.Wg
  work,          \* what each worker does next
  at,            \* where each goroutine is in the library's code
  crash          \* how the process has ended, or "no"

portVars == <<registered, cc, mapped, queues, initSent, isConnected, quit, wg,
              work, at, crash>>

\* The port after NewPort: RequestConnection has registered the channel.
PortInit ==
  /\ registered = TRUE /\ cc = TRUE
  /\ mapped = FALSE /\ queues = FALSE /\ initSent = FALSE
  /\ isConnected = FALSE /\ quit = FALSE /\ wg = 0
  /\ work = [w \in Workers |-> "none"]
  /\ at = [g \in Gos |-> "idle"]
  /\ crash = "no"

\* Goroutine g is at step from and continues with step to.
Goto(g, from, to) == at[g] = from /\ at' = [at EXCEPT ![g] = to]

-----------------------------------------------------------------------------
(* Handlers of the client                                                  *)

\* Hello: initializeRegions ...
InitializeRegions(g) ==
  /\ Goto(g, "regions", "queues")
  /\ mapped' = TRUE
  /\ UNCHANGED <<registered, cc, queues, initSent, isConnected, quit, wg, work,
                 crash>>

\* ... initializeQueues, which indexes regions[0] ...
InitializeQueues(g) ==
  /\ Goto(g, "queues", "enqueue")
  /\ IF mapped THEN queues' = TRUE /\ UNCHANGED crash
               ELSE crash' = "fault" /\ UNCHANGED queues
  /\ UNCHANGED <<registered, cc, mapped, initSent, isConnected, quit, wg, work>>

\* ... and the messages, for which msgEnqAddRing indexes the queues.
EnqueueHandshake(g) ==
  /\ Goto(g, "enqueue", "idle")
  /\ IF queues THEN initSent' = TRUE /\ UNCHANGED crash
               ELSE crash' = "fault" /\ UNCHANGED initSent
  /\ UNCHANGED <<registered, cc, mapped, queues, isConnected, quit, wg, work>>

\* ConnectedFunc of the examples starts the workers.
StartWorkers == [w \in Workers |-> "spawned"]

\* Connected: port.connect runs updateRing over the queues, which indexes
\* regions[0], and calls ConnectedFunc ...  If a disconnect has taken queues and
\* region away, the loop may still have begun while the queues were there.
ConnectPort(g) ==
  /\ Goto(g, "connect", "mark")
  /\ \/ (mapped \/ ~queues) /\ work' = StartWorkers /\ UNCHANGED crash
     \/ ~mapped /\ crash' = "fault" /\ UNCHANGED work
  /\ UNCHANGED <<registered, cc, mapped, queues, initSent, isConnected, quit, wg>>

\* ... and the channel is marked.
MarkConnected(g) ==
  /\ Goto(g, "mark", "idle")
  /\ isConnected' = TRUE
  /\ UNCHANGED <<registered, cc, mapped, queues, initSent, quit, wg, work, crash>>

-----------------------------------------------------------------------------
(* controlChannel.close and port.disconnect                                *)

\* Mutant: the result of delEvent is ignored.
DelEventUnchecked(g) ==
  /\ Goto(g, "del", "callback")
  /\ registered' = FALSE
  /\ UNCHANGED <<cc, mapped, queues, initSent, isConnected, quit, wg, work, crash>>

\* Deleting the event fails for the second of two goroutines.
DelEvent(g) ==
  /\ Goto(g, "del", IF registered THEN "callback" ELSE "error")
  /\ registered' = FALSE
  /\ UNCHANGED <<cc, mapped, queues, initSent, isConnected, quit, wg, work, crash>>

\* Mutant: QuitChan is not closed.
CallbackNoQuit(g) ==
  /\ Goto(g, "callback", IF cc THEN "wait" ELSE "idle")
  /\ UNCHANGED <<registered, cc, mapped, queues, initSent, isConnected, quit, wg,
                 work, crash>>

\* disconnect calls defaultDisconnectedFunc, which closes QuitChan ...
Callback(g) ==
  /\ Goto(g, "callback", IF cc THEN "wait" ELSE "idle")
  /\ quit' = (quit \/ cc)
  /\ crash' = IF cc /\ quit THEN "closed twice" ELSE crash
  /\ UNCHANGED <<registered, cc, mapped, queues, initSent, isConnected, wg, work>>

\* Mutant: the workers are not waited for.
WaitNot(g) ==
  /\ Goto(g, "wait", "clear")
  /\ UNCHANGED <<registered, cc, mapped, queues, initSent, isConnected, quit, wg,
                 work, crash>>

\* ... and waits for the workers counted so far.
Wait(g) ==
  /\ Goto(g, "wait", IF wg = 0 THEN "clear" ELSE "parked")
  /\ UNCHANGED <<registered, cc, mapped, queues, initSent, isConnected, quit, wg,
                 work, crash>>

\* WaitGroup.Wait returns; it panics if the counter has been raised again.
WaitReturns(g) ==
  /\ Goto(g, "woken", "clear")
  /\ crash' = IF wg = 0 THEN crash ELSE "misuse"
  /\ UNCHANGED <<registered, cc, mapped, queues, initSent, isConnected, quit, wg,
                 work>>

\* The rest of disconnect: queues, regions, port.cc.
ClearQueues(g) ==
  /\ Goto(g, "clear", "unmap")
  /\ queues' = FALSE
  /\ UNCHANGED <<registered, cc, mapped, initSent, isConnected, quit, wg, work,
                 crash>>

Unmap(g) ==
  /\ Goto(g, "unmap", "forget")
  /\ mapped' = FALSE
  /\ UNCHANGED <<registered, cc, queues, initSent, isConnected, quit, wg, work,
                 crash>>

Forget(g) ==
  /\ Goto(g, "forget", "idle")
  /\ cc' = FALSE
  /\ UNCHANGED <<registered, mapped, queues, initSent, isConnected, quit, wg, work,
                 crash>>

LibStep(g) ==
  /\ crash = "no"
  /\ \/ InitializeRegions(g) \/ InitializeQueues(g) \/ EnqueueHandshake(g)
     \/ ConnectPort(g) \/ MarkConnected(g)
     \/ DelEvent(g) \/ Callback(g) \/ Wait(g) \/ WaitReturns(g)
     \/ ClearQueues(g) \/ Unmap(g) \/ Forget(g)

-----------------------------------------------------------------------------
(* Workers                                                                 *)

Turns(w, from, to) == work[w] = from /\ work' = [work EXCEPT ![w] = to]

\* The worker itself calls Wg.Add, after it was started.  While a Wait that was
\* released has not returned, Add may panic.
WorkerStarts(w) ==
  /\ Turns(w, "spawned", "get")
  /\ wg' = wg + 1
  /\ crash' \in {"no"} \cup (IF \E g \in Gos : at[g] = "woken" THEN {"misuse"}
                                                              ELSE {})
  /\ UNCHANGED <<registered, cc, mapped, queues, initSent, isConnected, quit, at>>

\* GetTxQueue or GetRxQueue; the examples call logrus.Fatal if there is none.
WorkerGetsQueue(w) ==
  /\ Turns(w, "get", "loop")
  /\ crash' = IF queues THEN "no" ELSE "fatal"
  /\ UNCHANGED <<registered, cc, mapped, queues, initSent, isConnected, quit, wg,
                 at>>

\* A sender looks at QuitChan before each packet, a receiver does not.
WorkerLoops(w) ==
  /\ w \in Receivers \/ ~quit
  /\ Turns(w, "loop", "use")
  /\ UNCHANGED <<registered, cc, mapped, queues, initSent, isConnected, quit, wg,
                 at, crash>>

\* WritePacket or ReadPacket, which fault if the region is gone.
WorkerAccesses(w) ==
  /\ Turns(w, "use", "loop")
  /\ crash' = IF mapped THEN "no" ELSE "fault"
  /\ UNCHANGED <<registered, cc, mapped, queues, initSent, isConnected, quit, wg,
                 at>>

\* Mutant: Wg.Done is called explicitly and deferred.
WorkerQuitsTwice(w) ==
  /\ w \in Senders /\ quit
  /\ Turns(w, "loop", "done")
  /\ wg' = wg - 2
  /\ at' = [g \in Gos |-> IF wg <= 2 /\ at[g] = "parked" THEN "woken" ELSE at[g]]
  /\ UNCHANGED <<registered, cc, mapped, queues, initSent, isConnected, quit, crash>>

\* Wg.Done, deferred; the last one releases the goroutine in Wait.
WorkerQuits(w) ==
  /\ w \in Senders /\ quit
  /\ Turns(w, "loop", "done")
  /\ wg' = wg - 1
  /\ at' = [g \in Gos |-> IF wg = 1 /\ at[g] = "parked" THEN "woken" ELSE at[g]]
  /\ UNCHANGED <<registered, cc, mapped, queues, initSent, isConnected, quit, crash>>

WorkerStep(w) ==
  /\ crash = "no"
  /\ \/ WorkerStarts(w) \/ WorkerGetsQueue(w) \/ WorkerLoops(w)
     \/ WorkerAccesses(w) \/ WorkerQuits(w)
=============================================================================
