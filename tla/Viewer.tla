--------------------------------- MODULE Viewer ---------------------------------
(***************************************************************************)
(* The web viewer (viewer/): each browser has a WebSocket whose handler    *)
(* takes one command at a time, calls the session in a thread and tells    *)
(* every browser what came of it, all on one event loop that gives way at  *)
(* each message sent.  The cluster routes do the same without a socket,    *)
(* others call the session from the loop itself, and ViewerApp.close()     *)
(* stops and disconnects the session when the server goes down.            *)
(***************************************************************************)
EXTENDS Integers, FiniteSets

CONSTANTS
  Clients,        \* browsers
  Opened,         \* the states of the session the viewer may be opened on
  Blocking,       \* launch(), or else launch_passive()
  ViewerFaults,   \* "connect", "start", "stop", "cancel": the session's call raises;
                  \* "strand": start() also where nothing takes back what it did;
                  \* "leave": a browser goes away; "join": browsers come at any time
  MaxCommands,    \* bound: commands of all the browsers
  Countdown       \* ticks of a countdown

ASSUME Assumption ==
  /\ Clients \intersect {"web", "app", "tick", "none"} = {}
  /\ Opened \subseteq {"idle", "connected", "recording"} /\ Blocking \in BOOLEAN
  /\ ViewerFaults \subseteq {"connect", "start", "stop", "cancel", "strand", "leave", "join"}
  /\ MaxCommands \in Nat /\ Countdown \in Nat

Handlers == Clients \union {"web"}
Senders == Handlers \union {"tick"}
Raises(call) == IF call \in ViewerFaults THEN BOOLEAN ELSE {FALSE}

VARIABLES
  link,           \* of each browser: "away", "open", or "lost" to the server's knowledge
  sockets,        \* ViewerServer._ws_clients
  where, command, \* where each handler is, and with which command
  returned,       \* of the command: did the session's call return
  told,           \* and what the browsers were last told of it
  cast,           \* each sender's loop over the sockets: their number when it began
  session, auto,  \* the session's state; has start() connected
  lock,           \* who holds the session's lock
  ticks, due,     \* of a countdown: ticks to come; ticks put on the loop
  loop,           \* the event loop is "free", or "blocked" on the session's lock
  app,            \* "serving", "draining", "stopping", "releasing", "closed"
  commands

browsers == <<link, sockets>>
handlers == <<where, command, returned, told>>
orchestrator == <<session, auto, lock, ticks>>
rest == <<due, loop, app, commands>>
viewerVars == <<browsers, handlers, cast, orchestrator, rest>>

Idle == -1

\* The viewer may be opened on a session that is already connected, or recording in one
\* shot.
ViewerInit ==
  /\ link = [c \in Clients |-> "open"] /\ sockets = Clients
  /\ where = [h \in Handlers |-> "listening"]
  /\ command = [h \in Handlers |-> "none"]
  /\ returned = [h \in Handlers |-> FALSE] /\ told = [h \in Handlers |-> "none"]
  /\ cast = [s \in Senders |-> Idle]
  /\ session \in Opened /\ auto = (session = "recording") /\ lock = "none" /\ ticks = 0
  /\ due = 0 /\ loop = "free" /\ app = "serving" /\ commands = 0

-----------------------------------------------------------------------------
\* _broadcast_message() and broadcast_countdown(): a loop over the set of sockets that
\* gives way at every send, and raises once it finds the set has another size.

Sending(s) == cast[s] # Idle
Changed(s) == Cardinality(sockets) # cast[s]
\* At its end the sockets that failed are dropped, of those lost since or before.
Sent(s) ==
  /\ loop = "free" /\ Sending(s) /\ ~Changed(s)
  /\ \E dead \in SUBSET {c \in sockets : link[c] # "open"} : sockets' = sockets \ dead
Broken(s) == loop = "free" /\ Sending(s) /\ Changed(s)
Silent(s) == cast' = [cast EXCEPT ![s] = Idle]
Cast(s) == cast' = [cast EXCEPT ![s] = Cardinality(sockets)]

\* A tick of the countdown, put on the loop by the session's thread; what it raises is
\* lost with its future.
TickBegins ==
  /\ loop = "free" /\ due > 0 /\ ~Sending("tick") /\ due' = due - 1 /\ Cast("tick")
  /\ UNCHANGED <<browsers, handlers, orchestrator, loop, app, commands>>
TickEnds ==
  /\ Sent("tick") \/ (Broken("tick") /\ UNCHANGED sockets)
  /\ Silent("tick") /\ UNCHANGED <<link, handlers, orchestrator, rest>>

-----------------------------------------------------------------------------
\* ws_control(): a handler per browser

Move(h, place) == where' = [where EXCEPT ![h] = place]
Take(h, cmd) ==
  /\ command' = [command EXCEPT ![h] = cmd]
  /\ returned' = [returned EXCEPT ![h] = FALSE] /\ told' = [told EXCEPT ![h] = "none"]
\* A route answers its request where a handler closes its connection; what became of a
\* browser's stop or cancel is kept for the properties.
Over(h, place) == Move(h, place) /\ Take(h, "none")
Ends(h) == Over(h, IF h = "web" THEN "listening" ELSE "closing")
Goes(h) ==
  IF h \in Clients /\ command[h] \in {"stop", "cancel"}
  THEN Move(h, "listening") /\ UNCHANGED <<command, returned, told>> ELSE Over(h, "listening")
Join(c) ==
  /\ loop = "free" /\ app = "serving" /\ "join" \in ViewerFaults
  /\ link[c] = "away" /\ where[c] = "gone"
  /\ link' = [link EXCEPT ![c] = "open"] /\ sockets' = sockets \union {c}
  /\ Move(c, "listening")
  /\ UNCHANGED <<command, returned, told, cast, orchestrator, rest>>
Leave(c) ==
  /\ app = "serving" /\ "leave" \in ViewerFaults /\ link[c] = "open"
  /\ link' = [link EXCEPT ![c] = "lost"]
  /\ UNCHANGED <<sockets, handlers, cast, orchestrator, rest>>
\* receive_text() raises, but only when the handler is back to it.
Disconnected(c) ==
  /\ loop = "free" /\ where[c] = "listening" /\ link[c] = "lost" /\ Ends(c)
  /\ UNCHANGED <<browsers, cast, orchestrator, rest>>
Close(c) ==
  /\ loop = "free" /\ where[c] = "closing" /\ Move(c, "gone")
  /\ sockets' = sockets \ {c} /\ link' = [link EXCEPT ![c] = "away"]
  /\ UNCHANGED <<command, returned, told, cast, orchestrator, rest>>

Receive(c) ==
  /\ loop = "free" /\ where[c] = "listening" /\ link[c] = "open"
  /\ commands < MaxCommands /\ commands' = commands + 1
  /\ \E cmd \in {"connect", "start", "stop", "cancel", "disconnect"} :
       /\ Take(c, cmd)
       /\ IF cmd \in {"stop", "cancel"} THEN Move(c, "saving") /\ Cast(c)
                                        ELSE Move(c, "calling") /\ UNCHANGED cast
  /\ UNCHANGED <<browsers, orchestrator, due, loop, app>>
\* api_cluster_start() and api_cluster_stop(): the leader's part, if its state now asks
\* for it.
Request ==
  /\ loop = "free" /\ app = "serving" /\ where["web"] = "listening"
  /\ commands < MaxCommands /\ commands' = commands + 1
  /\ \/ session # "recording" /\ Take("web", "start") /\ Move("web", "calling") /\ UNCHANGED cast
     \/ session = "recording" /\ Take("web", "stop") /\ Move("web", "saving") /\ Cast("web")
  /\ UNCHANGED <<browsers, orchestrator, due, loop, app>>
\* Routes that call the session on the loop itself (remove a stream, set the chirp mode)
\* wait there for its lock.
Block ==
  /\ loop = "free" /\ app = "serving" /\ lock # "none" /\ loop' = "blocked"
  /\ UNCHANGED <<browsers, handlers, cast, orchestrator, due, app, commands>>
Unblock ==
  /\ loop = "blocked" /\ lock = "none" /\ loop' = "free"
  /\ UNCHANGED <<browsers, handlers, cast, orchestrator, due, app, commands>>

\* The first message of _stop_and_report() and of the cancel branch: what it raises ends
\* the command, or is caught there.
Saved(h) ==
  /\ where[h] = "saving" /\ Sent(h) /\ Move(h, "calling") /\ Silent(h)
  /\ UNCHANGED <<link, command, returned, told, orchestrator, rest>>
Tell(h, what) ==
  /\ Move(h, "answering") /\ Cast(h)
  /\ told' = [told EXCEPT ![h] = what] /\ UNCHANGED <<command, returned>>
\* (Shrug: the command is given up and the handler goes on.)
Shrug(h) ==
  /\ where[h] = "saving" /\ Broken(h) /\ Move(h, "listening") /\ Silent(h)
  /\ UNCHANGED <<browsers, command, returned, told, orchestrator, rest>>
SavingBreaks(h) ==
  /\ where[h] = "saving" /\ Broken(h)
  /\ IF command[h] = "cancel" THEN Tell(h, "error") ELSE Ends(h) /\ Silent(h)
  /\ UNCHANGED <<browsers, orchestrator, rest>>

\* The answer is out, or breaks: a cancel tries once more, with an error.
Answered(h) ==
  /\ where[h] = "answering" /\ Sent(h) /\ Silent(h)
  /\ IF command[h] = "start" THEN Ends(h) ELSE Goes(h)
  /\ UNCHANGED <<link, orchestrator, rest>>
AnswerBreaks(h) ==
  /\ where[h] = "answering" /\ Broken(h)
  /\ IF command[h] = "cancel" /\ told[h] = "success"
     THEN Tell(h, "error") ELSE Ends(h) /\ Silent(h)
  /\ UNCHANGED <<browsers, orchestrator, rest>>

-----------------------------------------------------------------------------
\* asyncio.to_thread(session....): the session, a state at a time, under its lock

Allowed(cmd) ==
  CASE cmd = "connect" -> {"idle", "stopped"}
    [] cmd = "start" -> {"idle", "stopped", "connected"}
    [] cmd = "disconnect" -> {"connected", "stopped"}
    [] OTHER -> {"recording"}
Doing(cmd) ==
  CASE cmd = "connect" -> "connecting"
    [] cmd = "start" -> "countdown"
    [] cmd = "disconnect" -> session
    [] OTHER -> "stopping"
Begin(who, cmd) ==
  /\ lock = "none" /\ session \in Allowed(cmd)
  /\ lock' = who /\ session' = Doing(cmd)
  /\ ticks' = IF cmd = "start" THEN Countdown ELSE 0
  /\ auto' = IF cmd = "start" THEN session # "connected" ELSE auto
\* Where a call leaves the session; a stop() that raises leaves it where it was.
Leaves(cmd, raised) ==
  CASE cmd = "connect" -> IF raised THEN "idle" ELSE "connected"
    [] cmd = "start" -> IF ~raised THEN "recording" ELSE IF auto THEN "idle" ELSE "connected"
    [] cmd = "disconnect" -> "idle"
    [] OTHER -> IF raised THEN "stopping" ELSE IF auto THEN "stopped" ELSE "connected"
Finish(who, cmd, raised) ==
  /\ lock = who /\ ticks = 0 /\ lock' = "none" /\ session' = Leaves(cmd, raised)
  /\ UNCHANGED <<auto, ticks>>

\* _on_tick(): the session's thread does not wait for the loop.
\* (TickWaits: it does.)
TickWaits ==
  /\ ticks > 0 /\ loop = "free" /\ ticks' = ticks - 1 /\ due' = due + 1
  /\ UNCHANGED <<browsers, handlers, cast, session, auto, lock, loop, app, commands>>
Tick ==
  /\ ticks > 0 /\ ticks' = ticks - 1 /\ due' = due + 1
  /\ UNCHANGED <<browsers, handlers, cast, session, auto, lock, loop, app, commands>>

Enter(h) ==
  /\ where[h] = "calling" /\ Begin(h, command[h]) /\ Move(h, "inside")
  /\ UNCHANGED <<browsers, command, returned, told, cast, rest>>
\* How the handler takes a call that raised: stop and cancel and start say so, the
\* others end the connection.
CallRaised(h) ==
  IF command[h] \in {"connect", "disconnect"}
  THEN Ends(h) /\ UNCHANGED cast ELSE Tell(h, "error")
Refused(h) ==
  /\ loop = "free" /\ where[h] = "calling"
  /\ lock = "none" /\ session \notin Allowed(command[h])
  /\ CallRaised(h)
  /\ UNCHANGED <<browsers, orchestrator, rest>>
Return(h) ==
  /\ where[h] = "inside"
  /\ \E raised \in Raises(command[h]) :
       /\ Finish(h, command[h], raised)
       /\ returned' = [returned EXCEPT ![h] = ~raised]
       /\ Move(h, IF raised THEN "raised" ELSE "done")
  /\ UNCHANGED <<browsers, command, told, cast, rest>>
\* start() raises before the streams are told to record, for the directory, the log, a
\* tick of the countdown or a writer: nothing takes back what it did, and the session
\* stays where it was ("countdown" stands for PREPARING too).
Strand(h) ==
  /\ "strand" \in ViewerFaults
  /\ where[h] = "inside" /\ session = Doing("start") /\ Move(h, "raised")
  /\ lock' = "none" /\ ticks' = 0
  /\ returned' = [returned EXCEPT ![h] = FALSE]
  /\ UNCHANGED <<browsers, command, told, cast, session, auto, rest>>
\* The loop takes the result up.
Resume(h) ==
  /\ loop = "free"
  /\ \/ where[h] = "raised" /\ CallRaised(h)
     \/ /\ where[h] = "done"
        /\ IF command[h] \in {"stop", "cancel"} THEN Tell(h, "success")
                                                ELSE Goes(h) /\ UNCHANGED cast
  /\ UNCHANGED <<browsers, orchestrator, rest>>

-----------------------------------------------------------------------------
\* ViewerApp.close()

\* launch(): the server drops the connections, and its loop ends when the handlers have
\* ended, and the calls they began; launch_passive(): its caller goes on at once.
Shutdown ==
  /\ app = "serving" /\ app' = "draining"
  /\ link' = [c \in Clients |-> IF link[c] = "open" THEN "lost" ELSE link[c]]
  /\ UNCHANGED <<sockets, handlers, cast, orchestrator, due, loop, commands>>
Drained ==
  Blocking =>
    loop = "free" /\ where["web"] = "listening" /\ (\A c \in Clients : where[c] = "gone")
App(from, to) == app = from /\ app' = to
CloseStops ==
  /\ Drained
  /\ IF session = "recording" THEN App("draining", "stopping") ELSE App("draining", "stopped")
  /\ UNCHANGED <<browsers, handlers, cast, orchestrator, due, loop, commands>>
\* Whatever comes of stop(), the state is read again.
\* (NotReread: disconnect() is for the states read before it.)
NotReread == "closed"
AfterStop == "stopped"
Stopping ==
  /\ \/ Begin("app", "stop") /\ UNCHANGED app
     \/ /\ lock = "none" /\ session # "recording"
        /\ App("stopping", AfterStop) /\ UNCHANGED orchestrator
     \/ /\ \E raised \in Raises("stop") : Finish("app", "stop", raised)
        /\ App("stopping", AfterStop)
  /\ app = "stopping"
  /\ UNCHANGED <<browsers, handlers, cast, due, loop, commands>>
CloseReleases ==
  /\ IF session \in {"connected", "stopped"} THEN App("stopped", "releasing")
                                             ELSE App("stopped", "closed")
  /\ UNCHANGED <<browsers, handlers, cast, orchestrator, due, loop, commands>>
Releasing ==
  /\ \/ Begin("app", "disconnect") /\ UNCHANGED app
     \/ /\ lock = "none" /\ session \notin {"connected", "stopped"}
        /\ App("releasing", "closed") /\ UNCHANGED orchestrator
     \/ Finish("app", "disconnect", FALSE) /\ App("releasing", "closed")
  /\ app = "releasing"
  /\ UNCHANGED <<browsers, handlers, cast, due, loop, commands>>

-----------------------------------------------------------------------------
\* The steps of a handler on the loop, and of the thread it called the session in.
HandlerStep(h) ==
  \/ Saved(h) \/ SavingBreaks(h) \/ Answered(h) \/ AnswerBreaks(h)
  \/ Refused(h) \/ Resume(h)
SessionStep(h) == Enter(h) \/ Return(h)
Connection(c) == Disconnected(c) \/ Close(c)
Countdowns == TickBegins \/ TickEnds
Closing == CloseStops \/ Stopping \/ CloseReleases \/ Releasing
ViewerNext ==
  \/ \E h \in Handlers : HandlerStep(h) \/ SessionStep(h) \/ Strand(h)
  \/ \E c \in Clients : Join(c) \/ Leave(c) \/ Receive(c) \/ Connection(c)
  \/ Request \/ Tick \/ Countdowns \/ Block \/ Unblock \/ Shutdown \/ Closing
ViewerSpec == ViewerInit /\ [][ViewerNext]_viewerVars
\* The loop serves every coroutine that is ready, a thread gets on with its call and the
\* lock once it is free, and close() runs to its end.  Nothing need raise.
FairViewerSpec ==
  /\ ViewerSpec /\ WF_viewerVars(Tick \/ Countdowns \/ Unblock \/ Closing)
  /\ WF_viewerVars(\E h \in Handlers : HandlerStep(h) \/ SessionStep(h))
  /\ \A c \in Clients : WF_viewerVars(Connection(c))

-----------------------------------------------------------------------------
\* A browser's stop that is over was answered by what the session did, and one whose
\* answer could not go out lost its connection: no handler goes on as if it had stopped
\* the recording ("so the viewer can show success/failure immediately", server.py).
StopsAreAnswered ==
  \A c \in Clients :
    where[c] = "listening" /\ command[c] = "stop" =>
      told[c] = IF returned[c] THEN "success" ELSE "error"

\* Every command ends: the handler listens again or its connection is closed, however
\* many threads wait for the session and whatever the loop itself waits for.
CommandsEnd ==
  \A h \in Handlers :
    where[h] \notin {"listening", "gone"} ~> where[h] \in {"listening", "gone"}

\* launch() leaves no device held and no call under way ("release as much hardware as we
\* can before this process exits", app.py), but where a stop(), a cancel() or a start()
\* raised and stranded the session in a state close() does not act on.
Stranded == {"countdown", "stopping"}
ClosedReleases ==
  Blocking /\ app = "closed" => lock = "none" /\ session \in {"idle"} \union Stranded

\* With launch_passive(), and however start(), stop() and cancel() end.
PassiveReleases == app = "closed" => session = "idle"

\* The answer to a cancel is what the session did.
CancelsAreAnswered ==
  \A c \in Clients :
    where[c] = "listening" /\ command[c] = "cancel" =>
      told[c] = IF returned[c] THEN "success" ELSE "error"
=============================================================================
