--------------------------- MODULE SocketPolling ---------------------------
(***************************************************************************)
(* A process with one socket and one client port: the polling goroutine    *)
(* with its epoll instance and ErrChan, the application's main goroutine   *)
(* that starts and stops polling, disconnects the port and deletes the     *)
(* socket, and the peer that answers, disconnects or dies.  What handlers  *)
(* and close do to the port is PortLifecycle's.                            *)
(*                                                                         *)
(* The application does as the examples do: NewPort before StartPolling,   *)
(* one polling goroutine at a time.                                        *)
(***************************************************************************)
EXTENDS PortLifecycle, Sequences

CONSTANTS
  MaxStarts,       \* bound: calls of StartPolling
  SeparateReader   \* ErrChan is read by a goroutine of its own, not by the main
                   \* goroutine between its calls

ASSUME PollingAssumption == MaxStarts \in Nat /\ SeparateReader \in BOOLEAN

VARIABLES
  stopChan,    \* stopPollChan: "nil", "open" or "closed"
  poll,        \* where the polling goroutine is, "off" if there is none
  ev,          \* the event it handles
  ready,       \* epoll's list of descriptors found ready
  wake,        \* the wake eventfd has been written
  inbox,       \* messages waiting on the control channel
  hup,         \* the peer has closed the connection
  peer,        \* how far the peer is: "new", "hello", "up" or "gone"
  errs,        \* errors in the socket's ErrChan
  app,         \* what the main goroutine does
  starts       \* calls of StartPolling so far

sockVars == <<stopChan, poll, ev, ready, wake, inbox, hup, peer, errs, app,
              starts>>
vars == <<portVars, sockVars>>

Init ==
  /\ PortInit
  /\ stopChan = "nil" /\ poll = "off" /\ ev = "none" /\ ready = <<>>
  /\ wake = FALSE /\ inbox = <<>> /\ hup = FALSE /\ peer = "new"
  /\ errs = 0 /\ app = "run" /\ starts = 0

-----------------------------------------------------------------------------
(* epoll: descriptors are listed when they become ready and reported in    *)
(* turn; a level-triggered one that is still ready goes to the end.        *)

IsReady(fd) ==
  IF fd = "wake" THEN wake ELSE registered /\ (inbox # <<>> \/ hup)

Listed(fd) ==
  IF \E i \in DOMAIN ready : ready[i] = fd THEN ready ELSE Append(ready, fd)

\* The channel's descriptor leaves the list with its event.
Unlisted == SelectSeq(ready, LAMBDA fd : fd # "cc")

\* epoll_wait reports the first listed descriptor that is still ready; those
\* before it are found not to be and leave the list.
Reported(fd) ==
  /\ IsReady(fd)
  /\ \E i \in DOMAIN ready :
       ready[i] = fd /\ \A j \in 1 .. (i - 1) : ~IsReady(ready[j])

-----------------------------------------------------------------------------
(* The polling goroutine                                                   *)

\* StartPolling makes a new stopPollChan and starts the goroutine.
StartPolling ==
  /\ crash = "no" /\ app = "run" /\ poll = "off" /\ starts < MaxStarts
  /\ stopChan' = "open"
  /\ poll' = "select"
  /\ starts' = starts + 1
  /\ UNCHANGED <<portVars, ev, ready, wake, inbox, hup, peer, errs, app>>

\* The select at the top of the loop.
PollSelect ==
  /\ crash = "no" /\ poll = "select"
  /\ poll' = IF stopChan = "closed" THEN "off" ELSE "wait"
  /\ UNCHANGED <<portVars, stopChan, ev, ready, wake, inbox, hup, peer, errs, app,
                 starts>>

\* EpollWait reports one event; the wake event is skipped, and never read.
PollEvent ==
  /\ crash = "no" /\ poll = "wait"
  /\ \E fd \in {"wake", "cc"} :
       /\ Reported(fd)
       /\ ready' = Append(Tail(SelectSeq(ready, IsReady)), fd)
       /\ ev' = IF fd = "wake" THEN "none" ELSE IF hup THEN "hup" ELSE "in"
       /\ poll' = IF fd = "wake" THEN "select" ELSE "dispatch"
  /\ UNCHANGED <<portVars, stopChan, wake, inbox, hup, peer, errs, app, starts>>

\* EpollWait fails (a signal interrupts it): the goroutine reports and ends.
PollFails ==
  /\ crash = "no" /\ poll = "wait"
  /\ poll' = "last report"
  /\ UNCHANGED <<portVars, stopChan, ev, ready, wake, inbox, hup, peer, errs, app,
                 starts>>

\* Where the handler of a message begins.
Handler(m) == CASE m = "Hello" -> "regions"
                [] m = "Connected" -> "connect"
                [] m = "Disconnect" -> "del"

\* Mutant: a hang-up is reported and the channel left open.
PollDispatchHupOpen ==
  /\ crash = "no" /\ poll = "dispatch"
  /\ IF ~registered \/ ev = "hup"
     THEN poll' = "report" /\ UNCHANGED <<at, inbox>>
     ELSE /\ poll' = "handle"
          /\ at' = [at EXCEPT !["poll"] = Handler(Head(inbox))]
          /\ inbox' = Tail(inbox)
  /\ UNCHANGED <<registered, cc, mapped, queues, initSent, isConnected, quit, wg,
                 work, crash, stopChan, ev, ready, wake, hup, peer, errs, app,
                 starts>>

\* Socket.handleEvent looks the descriptor up in ccList, and the channel's
\* handleEvent closes it after a hang-up or reads a message.
PollDispatch ==
  /\ crash = "no" /\ poll = "dispatch"
  /\ IF ~registered
     THEN poll' = "report" /\ UNCHANGED <<at, inbox>>
     ELSE /\ poll' = "handle"
          /\ at' = [at EXCEPT !["poll"] =
                      IF ev = "hup" THEN "del" ELSE Handler(Head(inbox))]
          /\ inbox' = IF ev = "hup" THEN inbox ELSE Tail(inbox)
  /\ UNCHANGED <<registered, cc, mapped, queues, initSent, isConnected, quit, wg,
                 work, crash, stopChan, ev, ready, wake, hup, peer, errs, app,
                 starts>>

\* The handler returns, with an error after a hang-up or a failed close.
PollReturn ==
  /\ crash = "no" /\ poll = "handle" /\ at["poll"] \in {"idle", "error"}
  /\ poll' = IF at["poll"] = "error" \/ ev = "hup" THEN "report" ELSE "select"
  /\ at' = [at EXCEPT !["poll"] = "idle"]
  /\ ev' = "none"
  /\ UNCHANGED <<registered, cc, mapped, queues, initSent, isConnected, quit, wg,
                 work, crash, stopChan, ready, wake, inbox, hup, peer, errs, app,
                 starts>>

\* Sending to ErrChan blocks while it holds an error.
PollReport ==
  /\ crash = "no" /\ poll \in {"report", "last report"} /\ errs = 0
  /\ errs' = 1
  /\ poll' = IF poll = "report" THEN "select" ELSE "off"
  /\ ev' = "none"
  /\ UNCHANGED <<portVars, stopChan, ready, wake, inbox, hup, peer, app, starts>>

PollStep ==
  PollSelect \/ PollEvent \/ PollDispatch \/ PollReturn \/ PollReport

-----------------------------------------------------------------------------
(* The main goroutine                                                      *)

\* StopPolling closes stopPollChan, which panics the second time ...
StopPolling ==
  /\ crash = "no" /\ app = "run" /\ stopChan # "nil"
  /\ IF stopChan = "closed"
     THEN crash' = "stopped twice" /\ UNCHANGED <<stopChan, app>>
     ELSE stopChan' = "closed" /\ app' = "wake" /\ UNCHANGED crash
  /\ UNCHANGED <<registered, cc, mapped, queues, initSent, isConnected, quit, wg,
                 work, at, poll, ev, ready, wake, inbox, hup, peer, errs, starts>>

\* Mutant: the polling goroutine is not woken.
StopWakesNot ==
  /\ crash = "no" /\ app = "wake" /\ app' = "stopping"
  /\ UNCHANGED <<portVars, stopChan, poll, ev, ready, wake, inbox, hup, peer, errs,
                 starts>>

\* ... writes the wake eventfd ...
StopWakes ==
  /\ crash = "no" /\ app = "wake" /\ app' = "stopping"
  /\ wake' = TRUE /\ ready' = Listed("wake")
  /\ UNCHANGED <<portVars, stopChan, poll, ev, inbox, hup, peer, errs, starts>>

\* Mutant: StopPolling does not wait.
StopReturnsEarly ==
  /\ crash = "no" /\ app = "stopping" /\ app' = "run"
  /\ UNCHANGED <<portVars, stopChan, poll, ev, ready, wake, inbox, hup, peer, errs,
                 starts>>

\* ... and waits for the goroutine.
StopReturns ==
  /\ crash = "no" /\ app = "stopping" /\ poll = "off" /\ app' = "run"
  /\ UNCHANGED <<portVars, stopChan, poll, ev, ready, wake, inbox, hup, peer, errs,
                 starts>>

\* Port.Disconnect closes the channel, unless the Disconnect message cannot be
\* sent to a peer that is gone.
Disconnect ==
  /\ crash = "no" /\ app = "run" /\ cc /\ ~hup
  /\ app' = "closing"
  /\ at' = [at EXCEPT !["app"] = "del"]
  /\ UNCHANGED <<registered, cc, mapped, queues, initSent, isConnected, quit, wg,
                 work, crash, stopChan, poll, ev, ready, wake, inbox, hup, peer,
                 errs, starts>>

\* Socket.Delete, after polling has ended: close the channel, if it is listed ...
Delete ==
  /\ crash = "no" /\ app = "run" /\ poll = "off" /\ ~(registered /\ hup)
  /\ app' = "deleting"
  /\ at' = [at EXCEPT !["app"] = IF registered THEN "del" ELSE "idle"]
  /\ UNCHANGED <<registered, cc, mapped, queues, initSent, isConnected, quit, wg,
                 work, crash, stopChan, poll, ev, ready, wake, inbox, hup, peer,
                 errs, starts>>

\* ... then the port, the wake event and the epoll instance.
CallReturns ==
  /\ crash = "no" /\ app \in {"closing", "deleting"} /\ at["app"] \in {"idle", "error"}
  /\ app' = IF app = "deleting" THEN "deleted" ELSE "run"
  /\ ready' = IF app = "deleting" THEN <<>> ELSE ready
  /\ at' = [at EXCEPT !["app"] = "idle"]
  /\ UNCHANGED <<registered, cc, mapped, queues, initSent, isConnected, quit, wg,
                 work, crash, stopChan, poll, ev, wake, inbox, hup, peer, errs,
                 starts>>

\* The application takes an error from ErrChan.
ReadError ==
  /\ crash = "no" /\ errs > 0 /\ (SeparateReader \/ app = "run")
  /\ errs' = errs - 1
  /\ UNCHANGED <<portVars, stopChan, poll, ev, ready, wake, inbox, hup, peer, app,
                 starts>>

AppStep == StopWakes \/ StopReturns \/ CallReturns

-----------------------------------------------------------------------------
(* The peer: a server that says Hello, completes the handshake, disconnects *)
(* or dies.                                                                *)

Sends(m, to) ==
  /\ crash = "no"
  /\ inbox' = Append(inbox, m)
  /\ ready' = IF registered THEN Listed("cc") ELSE ready
  /\ peer' = to
  /\ UNCHANGED <<portVars, stopChan, poll, ev, wake, hup, errs, app, starts>>

PeerSends ==
  \/ peer = "new" /\ Sends("Hello", "hello")
  \/ peer = "hello" /\ initSent /\ Sends("Connected", "up")
  \/ peer # "gone" /\ Sends("Disconnect", "gone")

PeerDies ==
  /\ crash = "no" /\ ~hup
  /\ hup' = TRUE /\ peer' = "gone"
  /\ ready' = IF registered THEN Listed("cc") ELSE ready
  /\ UNCHANGED <<portVars, stopChan, poll, ev, wake, inbox, errs, app, starts>>

-----------------------------------------------------------------------------
\* A step of the port's code by g; its event's removal empties the ready list.
PortStep(g) ==
  /\ LibStep(g)
  /\ ready' = IF registered' THEN ready ELSE Unlisted
  /\ UNCHANGED <<stopChan, poll, ev, wake, inbox, hup, peer, errs, app, starts>>

Work(w) == WorkerStep(w) /\ UNCHANGED sockVars

Next ==
  \/ StartPolling \/ PollStep \/ PollFails
  \/ StopPolling \/ Disconnect \/ Delete \/ AppStep \/ ReadError
  \/ PeerSends \/ PeerDies
  \/ \E g \in Gos : PortStep(g)
  \/ \E w \in Workers : Work(w)

\* Goroutines that can run do run, and errors are read.  Nobody is obliged to
\* stop, disconnect, delete or die.
Spec ==
  /\ Init /\ [][Next]_vars
  /\ WF_vars(PollStep) /\ WF_vars(AppStep) /\ WF_vars(ReadError)
  /\ \A g \in Gos : WF_vars(PortStep(g))
  /\ \A w \in Workers : WF_vars(Work(w))

-----------------------------------------------------------------------------
(* Properties                                                              *)

Closing  == {"del", "callback", "wait", "parked", "woken", "clear", "unmap",
             "forget"}
Handling == {"regions", "queues", "enqueue", "connect", "mark"}

TypeOK ==
  /\ {registered, cc, mapped, queues, initSent, isConnected, quit} \subseteq BOOLEAN
  /\ wg \in 0 .. Cardinality(Workers)
  /\ work \in [Workers -> {"none", "spawned", "get", "loop", "use", "done"}]
  /\ at \in [Gos -> {"idle", "error"} \cup Closing \cup Handling]
  /\ stopChan \in {"nil", "open", "closed"}
  /\ poll \in {"off", "select", "wait", "dispatch", "handle", "report",
               "last report"}
  /\ errs \in 0 .. 1
  /\ app \in {"run", "wake", "stopping", "closing", "deleting", "deleted"}

\* "If the interface is disconnected queue.ReadPacket() and queue.WritePacket()
\* MUST not be called" (port.go): a worker that looks at QuitChan before each
\* packet is never in WritePacket when disconnect has unmapped the region,
\* although it registers with Wg only after it was started.
NoUseAfterUnmap == \A w \in Senders : work[w] = "use" => mapped

\* The polling goroutine and the application may close the channel at the same
\* time, without a lock; QuitChan is still closed once.
TornDownOnce == crash # "closed twice"

\* Whatever StopPolling waits for, when it has returned no handler runs.
StopQuiet ==
  (stopChan = "closed" /\ app \notin {"wake", "stopping"}) =>
    poll = "off" /\ at["poll"] = "idle"

\* A close that has begun ends: disconnect waits for the workers, the workers
\* for QuitChan.
CloseEnds ==
  \A g \in Gos : at[g] \in Closing ~> (at[g] \notin Closing \/ crash # "no")

\* StopPolling returns, whatever the polling goroutine is doing: waiting for an
\* event, for the workers in disconnect, or for room in ErrChan.
StopEnds == app = "stopping" ~> (app # "stopping" \/ crash # "no")

\* A message or hang-up on the control channel is handled as long as polling
\* goes on, also after a restart, when the wake eventfd is ready for ever.
EventServed ==
  IsReady("cc") ~> (~IsReady("cc") \/ poll = "off" \/ stopChan = "closed"
                      \/ crash # "no")

\* "wait until polling stops, then continue disconnect"
\* (defaultDisconnectedFunc): past the wait no worker is left.
WaitsForWorkers ==
  \A g \in Gos, w \in Workers :
    at[g] \in {"clear", "unmap", "forget"} => work[w] \in {"none", "done"}
=============================================================================
