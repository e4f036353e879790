----------------------------- MODULE Supervision -----------------------------
(***************************************************************************)
(* Stream supervision: StreamSupervisor (supervision.py), the state        *)
(* machine that decides when a dropped stream is reconnected, and the      *)
(* threads of the orchestrator that act on it: the monitor that ticks it,  *)
(* the worker that reopens devices, the capture threads that report        *)
(* samples and deaths, and the session calls that start and stop them.     *)
(*                                                                         *)
(* One action is one critical section of the supervisor's lock, one step   *)
(* on a device or one step on the queue.  The worker and the monitor never *)
(* take the session lock, so every step of a session call may fall between *)
(* any two of theirs.  Time is abstract: a back-off may run out, or a      *)
(* silence outgrow its grace, at any tick.                                 *)
(***************************************************************************)
EXTENDS Naturals, Sequences

CONSTANTS
  Streams,            \* stream ids
  HotSwap,            \* streams with supports_recording_reconnect
  Rated,              \* streams that declare a target_hz
  MaxAttempts,        \* ReconnectPolicy.max_attempts, which enables the policy
  Faults,             \* what may fail in this instance
  MaxCycles,          \* bound: connect() calls, and so worker threads
  MaxLosses            \* bound: capture loops that die and silences that grow

ASSUME StreamsAssumption == HotSwap \subseteq Streams /\ Rated \subseteq Streams
ASSUME PolicyAssumption == MaxAttempts \in Nat \ {0}
ASSUME FaultsAssumption == Faults \subseteq {"connect", "reopen", "slow"}
ASSUME BoundsAssumption == MaxCycles \in Nat /\ MaxLosses \in Nat

Workers == 1..MaxCycles
States == {"idle", "connecting", "connected", "stalled", "reconnecting", "failed",
           "disconnected"}
Stop == "stop"        \* _RECONNECT_STOP

\* The sentinel is an object of its own, and no stream has it for an id.
ASSUME StopAssumption == Stop \notin Streams

VARIABLES
  phase,      \* _state, as far as recording and supervision go
  op,         \* the step the session call in progress has reached
  auto,       \* _auto_connected
  conn,       \* _connected_streams
  dev,        \* per stream: "closed", "live", or "dead" once its capture loop died
  armed,      \* streams in their recording window
  st,         \* _StreamRec.state
  attempts,   \* _StreamRec.attempts
  inFlight,   \* _StreamRec.in_flight
  due,        \* _StreamRec.next_attempt_ns: "none", "waiting" or already "ripe"
  quiet,      \* streams whose silence has outgrown its grace
  onStall,    \* ReconnectPolicy.reconnect_on_stall
  gate,       \* StreamSupervisor._recording
  report,     \* per stream: how far its capture thread is in reporting its death
  stopFlag,   \* _supervision_stop
  queue,      \* _reconnect_queue
  monitor,    \* what the monitor thread does next
  toEnqueue,  \* requests of a tick that are not on the queue yet
  cycle,      \* worker threads started so far
  worker,     \* per worker thread: [pc, job]
  losses,      \* capture loops that died and silences that grew so far
  tries,      \* history: requests for the stream since it was last CONNECTED
  late        \* history: a worker outlived the join of _stop_supervision()

sessionVars  == <<phase, op, auto, conn, gate, onStall>>
recVars      == <<st, attempts, inFlight, due, quiet, tries>>
threadVars   == <<stopFlag, queue, monitor, toEnqueue, cycle, worker, late>>
deviceVars   == <<dev, armed>>
captureVars  == <<report, losses>>
vars == <<sessionVars, recVars, threadVars, deviceVars, captureVars>>

-----------------------------------------------------------------------------
\* Helpers: transitions of the records in a set X, under the supervisor's lock

\* _eligible
Eligible(s) == gate => s \in HotSwap

\* f with the value v on X
On(f, X, v) == [s \in Streams |-> IF s \in X THEN v ELSE f[s]]

\* _reset_connected; note_sample does the same to a stalled or reconnecting record
Recover(X) ==
  /\ st' = On(st, X, "connected")
  /\ attempts' = On(attempts, X, 0) /\ inFlight' = On(inFlight, X, FALSE)
  /\ due' = On(due, X, "none") /\ tries' = On(tries, X, 0) /\ quiet' = quiet \ X

\* _begin_reconnect
BeginReconnect(X) ==
  /\ st' = On(st, X, "reconnecting")
  /\ attempts' = On(attempts, X, 0) /\ inFlight' = On(inFlight, X, FALSE)
  /\ due' = On(due, X, "waiting")
  /\ UNCHANGED <<quiet, tries>>

At(o) == op = o
Goto(w, pc) == worker' = [worker EXCEPT ![w].pc = pc]

Init ==
  /\ phase = "idle" /\ op = "none" /\ auto = FALSE /\ conn = {}
  /\ gate = FALSE /\ onStall \in BOOLEAN
  /\ dev = [s \in Streams |-> "closed"] /\ armed = {}
  /\ st = [s \in Streams |-> "idle"] /\ attempts = [s \in Streams |-> 0]
  /\ inFlight = [s \in Streams |-> FALSE] /\ due = [s \in Streams |-> "none"]
  /\ quiet = {} /\ tries = [s \in Streams |-> 0]
  /\ report = [s \in Streams |-> "none"] /\ losses = 0
  /\ stopFlag = FALSE /\ queue = <<>> /\ monitor = "none" /\ toEnqueue = {}
  /\ cycle = 0 /\ worker = [w \in Workers |-> [pc |-> "none", job |-> Stop]] /\ late = FALSE

-----------------------------------------------------------------------------
\* The session calls, on the thread that holds the session lock

\* connect(): every stream is opened and noted, then _start_supervision() makes
\* a monitor and a worker.
Connect ==
  /\ At("none") /\ phase = "idle" /\ cycle < MaxCycles
  /\ \E good \in (SUBSET Streams) \ {{}} :
       /\ good = Streams \/ "connect" \in Faults
       /\ st' = On(On(st, Streams, "failed"), good, "connected")
       /\ attempts' = On(attempts, good, 0) /\ inFlight' = On(inFlight, good, FALSE)
       /\ due' = On(due, good, "none") /\ tries' = On(tries, good, 0) /\ quiet' = quiet \ good
       /\ dev' = On(On(dev, Streams, "closed"), good, "live")
       /\ armed' = armed \intersect good
       /\ conn' = good
  /\ phase' = "connected" /\ auto' \in BOOLEAN
  /\ stopFlag' = FALSE /\ monitor' = "wait" /\ cycle' = cycle + 1
  /\ worker' = [worker EXCEPT ![cycle + 1].pc = "get"]
  /\ UNCHANGED <<op, gate, onStall, queue, toEnqueue, late, captureVars>>

\* start(): the fan-out arms every connected stream; then RECORDING is entered;
\* then the gate closes and every CONNECTED record gets a fresh grace.
StartArm ==
  /\ At("none") /\ phase = "connected"
  /\ phase' = "countdown" /\ op' = "record" /\ armed' = armed \union conn
  /\ UNCHANGED <<auto, conn, gate, onStall, recVars, threadVars, dev, captureVars>>

StartRecord ==
  /\ At("record")
  /\ phase' = "recording" /\ op' = "gate"
  /\ UNCHANGED <<auto, conn, gate, onStall, recVars, threadVars, deviceVars, captureVars>>

StartGate ==
  /\ At("gate")
  /\ gate' = TRUE /\ op' = "none"
  /\ quiet' = IF gate THEN quiet ELSE {s \in quiet : st[s] # "connected"}
  /\ UNCHANGED <<phase, auto, conn, onStall, st, attempts, inFlight, due, tries, threadVars, deviceVars,
                 captureVars>>

\* _stop_supervision(), up to the join
RaiseStop == stopFlag' = TRUE /\ queue' = Append(queue, Stop)

StopBegin ==
  /\ At("none") /\ phase = "recording"
  /\ phase' = "stopping" /\ op' = "finalize"
  /\ UNCHANGED <<auto, conn, gate, onStall, recVars, threadVars, deviceVars, captureVars>>

StopFinalize ==
  /\ At("finalize")
  /\ armed' = armed \ conn /\ op' = "ungate"
  /\ UNCHANGED <<phase, auto, conn, gate, onStall, recVars, threadVars, dev, captureVars>>

\* A one-shot session goes on to tear everything down.
StopUngate ==
  /\ At("ungate")
  /\ gate' = FALSE
  /\ IF auto
     THEN op' = "join" /\ RaiseStop /\ UNCHANGED phase
     ELSE op' = "none" /\ phase' = "connected" /\ UNCHANGED <<stopFlag, queue>>
  /\ UNCHANGED <<auto, conn, onStall, recVars, monitor, toEnqueue, cycle, worker, late, deviceVars,
                 captureVars>>

\* cancel() of an explicitly connected session; it leaves the gate as it is.
Cancel ==
  /\ At("none") /\ phase = "recording" /\ ~auto
  /\ phase' = "connected" /\ armed' = armed \ conn
  /\ UNCHANGED <<op, auto, conn, gate, onStall, recVars, threadVars, dev, captureVars>>

Disconnect ==
  /\ At("none") /\ phase = "connected"
  /\ op' = "join" /\ RaiseStop
  /\ UNCHANGED <<phase, auto, conn, gate, onStall, recVars, monitor, toEnqueue, cycle, worker, late,
                 deviceVars, captureVars>>

\* Both threads are joined, the worker for two seconds at most.
JoinWorker == worker[cycle].pc = "done" \/ "slow" \in Faults
Join ==
  /\ At("join") /\ monitor = "done" /\ JoinWorker
  /\ late' = (late \/ worker[cycle].pc # "done")
  /\ monitor' = "none" /\ op' = "close"
  /\ UNCHANGED <<phase, auto, conn, gate, onStall, recVars, stopFlag, queue, toEnqueue, cycle, worker,
                 deviceVars, captureVars>>

\* The devices in _connected_streams are closed.  disconnect() also notes every
\* stream, stop() notes none.
CloseHealthy ==
  /\ At("close")
  /\ dev' = On(dev, {s \in conn : st[s] = "connected"}, "closed") /\ armed' = armed \ conn
  /\ conn' = {} /\ st' = IF phase = "stopping" THEN st ELSE On(st, Streams, "disconnected")
  /\ phase' = "idle" /\ op' = "none" /\ auto' = FALSE
  /\ UNCHANGED <<gate, onStall, attempts, inFlight, due, quiet, tries, threadVars, captureVars>>
Close ==
  /\ At("close")
  /\ dev' = On(dev, conn, "closed") /\ armed' = armed \ conn /\ conn' = {}
  /\ st' = IF phase = "stopping" THEN st ELSE On(st, Streams, "disconnected")
  /\ phase' = "idle" /\ op' = "none" /\ auto' = FALSE
  /\ UNCHANGED <<gate, onStall, attempts, inFlight, due, quiet, tries, threadVars, captureVars>>

-----------------------------------------------------------------------------
\* Capture threads and the clock

\* A live device delivers a sample (note_sample).
Sample(s) ==
  /\ dev[s] = "live"
  /\ IF st[s] \in {"stalled", "reconnecting"}
     THEN Recover({s})
     ELSE quiet' = quiet \ {s} /\ UNCHANGED <<st, attempts, inFlight, due, tries>>
  /\ UNCHANGED <<sessionVars, threadVars, deviceVars, captureVars>>

\* A capture loop dies and its thread begins to report an ERROR event.
Die(s) ==
  /\ dev[s] = "live" /\ report[s] = "none" /\ losses < MaxLosses
  /\ dev' = [dev EXCEPT ![s] = "dead"]
  /\ report' = [report EXCEPT ![s] = "raised"]
  /\ losses' = losses + 1
  /\ UNCHANGED <<sessionVars, recVars, threadVars, armed>>

\* _on_stream_health reads the state in one critical section ...
ReportCheck(s) ==
  /\ report[s] = "raised"
  /\ report' = [report EXCEPT ![s] = IF st[s] \in {"connected", "stalled"} THEN "checked"
                                                                       ELSE "none"]
  /\ UNCHANGED <<sessionVars, recVars, threadVars, deviceVars, losses>>

\* ... and notes the error in another (note_capture_error).
ReportNote(s) ==
  /\ report[s] = "checked"
  /\ report' = [report EXCEPT ![s] = "none"]
  /\ IF Eligible(s)
     THEN BeginReconnect({s})
     ELSE st' = [st EXCEPT ![s] = "failed"] /\ UNCHANGED <<attempts, inFlight, due, quiet, tries>>
  /\ UNCHANGED <<sessionVars, threadVars, deviceVars, losses>>

\* A back-off runs out.
Ripen(s) ==
  /\ due[s] = "waiting"
  /\ due' = [due EXCEPT ![s] = "ripe"]
  /\ UNCHANGED <<sessionVars, st, attempts, inFlight, quiet, tries, threadVars, deviceVars,
                 captureVars>>

\* A silence outgrows its grace.
GrowQuiet(s) ==
  /\ s \in Rated \ quiet /\ st[s] = "connected" /\ gate /\ losses < MaxLosses
  /\ quiet' = quiet \union {s}
  /\ losses' = losses + 1
  /\ UNCHANGED <<sessionVars, st, attempts, inFlight, due, tries, threadVars, deviceVars,
                 report>>

-----------------------------------------------------------------------------
\* The monitor thread

MonitorWait ==
  /\ monitor = "wait"
  /\ monitor' = IF stopFlag THEN "done" ELSE "tick"
  /\ UNCHANGED <<sessionVars, recVars, stopFlag, queue, toEnqueue, cycle, worker, late,
                 deviceVars, captureVars>>

\* tick(): every record in turn, in one critical section.  A stream is stalled
\* and, where the policy says so, moved on to reconnecting; a ripe back-off
\* becomes a request, or the stream fails when its attempts are used up.
Ripe == {s \in Streams : st[s] = "reconnecting" /\ ~inFlight[s] /\ due[s] = "ripe"}
Requests == {s \in Ripe : attempts[s] < MaxAttempts}

Tick ==
  /\ monitor = "tick"
  /\ LET silent == {s \in quiet \intersect Rated : gate /\ st[s] = "connected"}
         again  == {s \in silent : onStall /\ Eligible(s)}
         fire   == Requests
     IN /\ st' = [s \in Streams |-> IF s \in again THEN "reconnecting"
                                    ELSE IF s \in silent THEN "stalled"
                                    ELSE IF s \in Ripe \ fire THEN "failed" ELSE st[s]]
        /\ attempts' = [s \in Streams |-> IF s \in again THEN 0
                                          ELSE IF s \in fire THEN attempts[s] + 1
                                          ELSE attempts[s]]
        /\ inFlight' = On(On(inFlight, again, FALSE), fire, TRUE)
        /\ due' = On(On(due, again, "waiting"), fire, "none")
        /\ tries' = [s \in Streams |-> IF s \in fire THEN tries[s] + 1 ELSE tries[s]]
        /\ toEnqueue' = fire
  /\ monitor' = "enqueue"
  /\ UNCHANGED <<sessionVars, quiet, stopFlag, queue, cycle, worker, late, deviceVars,
                 captureVars>>

\* The requests go on the queue, one by one, after the lock is released.
Enqueue ==
  /\ monitor = "enqueue"
  /\ IF toEnqueue = {}
     THEN monitor' = "wait" /\ UNCHANGED <<toEnqueue, queue>>
     ELSE \E s \in toEnqueue :
            /\ toEnqueue' = toEnqueue \ {s} /\ queue' = Append(queue, s)
            /\ UNCHANGED monitor
  /\ UNCHANGED <<sessionVars, recVars, stopFlag, cycle, worker, late, deviceVars, captureVars>>

-----------------------------------------------------------------------------
\* A reconnect worker

WorkerGet(w) ==
  /\ worker[w].pc = "get" /\ queue # <<>>
  /\ worker' = [worker EXCEPT ![w] = [pc |-> "check", job |-> Head(queue)]]
  /\ queue' = Tail(queue)
  /\ UNCHANGED <<sessionVars, recVars, stopFlag, monitor, toEnqueue, cycle, late, deviceVars,
                 captureVars>>

\* The sentinel ends the worker, and so does the flag, whatever it has taken.
WorkerCheck(w) ==
  /\ worker[w].pc = "check"
  /\ Goto(w, IF worker[w].job = Stop \/ stopFlag THEN "done" ELSE "reopen")
  /\ UNCHANGED <<sessionVars, recVars, stopFlag, queue, monitor, toEnqueue, cycle, late,
                 deviceVars, captureVars>>

\* stream.reconnect(): disconnect() and then connect().
WorkerClose(w) ==
  /\ worker[w].pc = "reopen"
  /\ dev' = [dev EXCEPT ![worker[w].job] = "closed"]
  /\ armed' = armed \ {worker[w].job}
  /\ Goto(w, "open")
  /\ UNCHANGED <<sessionVars, recVars, stopFlag, queue, monitor, toEnqueue, cycle, late,
                 captureVars>>

WorkerOpen(w) ==
  /\ worker[w].pc = "open"
  /\ \/ dev' = [dev EXCEPT ![worker[w].job] = "live"] /\ Goto(w, "phase")
     \/ "reopen" \in Faults /\ Goto(w, "failed") /\ UNCHANGED dev
  /\ UNCHANGED <<sessionVars, recVars, stopFlag, queue, monitor, toEnqueue, cycle, late, armed,
                 captureVars>>

\* The session phase is read without the session lock ...
WorkerPhase(w) ==
  /\ worker[w].pc = "phase"
  /\ Goto(w, IF phase = "recording" /\ worker[w].job \in HotSwap THEN "arm" ELSE "ok")
  /\ UNCHANGED <<sessionVars, recVars, stopFlag, queue, monitor, toEnqueue, cycle, late,
                 deviceVars, captureVars>>

\* ... and the stream rearmed by what was read.
WorkerArm(w) ==
  /\ worker[w].pc = "arm"
  /\ \/ armed' = armed \union {worker[w].job} /\ Goto(w, "ok")
     \/ "reopen" \in Faults /\ Goto(w, "failed") /\ UNCHANGED armed
  /\ UNCHANGED <<sessionVars, recVars, stopFlag, queue, monitor, toEnqueue, cycle, late, dev,
                 captureVars>>

WorkerOk(w) ==
  /\ worker[w].pc = "ok"
  /\ Recover({worker[w].job})
  /\ Goto(w, "get")
  /\ UNCHANGED <<sessionVars, stopFlag, queue, monitor, toEnqueue, cycle, late, deviceVars,
                 captureVars>>

\* note_reconnect_result of a failure: the next attempt is scheduled, whatever
\* the record says by now, or the attempts are used up.
StillInFlight(s) ==
  IF attempts[s] >= MaxAttempts
  THEN /\ st' = [st EXCEPT ![s] = "failed"] /\ inFlight' = [inFlight EXCEPT ![s] = FALSE]
       /\ UNCHANGED due
  ELSE due' = [due EXCEPT ![s] = "waiting"] /\ UNCHANGED <<st, inFlight>>
AfterFailure(s) ==
  /\ inFlight' = [inFlight EXCEPT ![s] = FALSE]
  /\ IF attempts[s] >= MaxAttempts
     THEN st' = [st EXCEPT ![s] = "failed"] /\ UNCHANGED due
     ELSE due' = [due EXCEPT ![s] = "waiting"] /\ UNCHANGED st

WorkerFailed(w) ==
  /\ worker[w].pc = "failed"
  /\ AfterFailure(worker[w].job)
  /\ Goto(w, "get")
  /\ UNCHANGED <<sessionVars, attempts, quiet, tries, stopFlag, queue, monitor, toEnqueue,
                 cycle, late, deviceVars, captureVars>>

-----------------------------------------------------------------------------
Call == Connect \/ StartArm \/ StopBegin \/ Cancel \/ Disconnect
CallStep == StartRecord \/ StartGate \/ StopFinalize \/ StopUngate \/ Join \/ Close
Monitor == MonitorWait \/ Tick \/ Enqueue
Worker(w) ==
  \/ WorkerGet(w) \/ WorkerCheck(w) \/ WorkerClose(w) \/ WorkerOpen(w) \/ WorkerPhase(w)
  \/ WorkerArm(w) \/ WorkerOk(w) \/ WorkerFailed(w)
Capture(s) == Sample(s) \/ Die(s) \/ ReportCheck(s) \/ ReportNote(s)

Next ==
  \/ Call \/ CallStep \/ Monitor
  \/ \E w \in Workers : Worker(w)
  \/ \E s \in Streams : Capture(s) \/ Ripen(s) \/ GrowQuiet(s)

Spec == Init /\ [][Next]_vars

\* Threads are scheduled, device I/O returns and time passes.
FairSpec ==
  /\ Spec
  /\ WF_vars(CallStep) /\ WF_vars(Monitor)
  /\ \A w \in Workers : WF_vars(Worker(w))
  /\ \A s \in Streams : WF_vars(Ripen(s))

-----------------------------------------------------------------------------
(***************************************************************************)
(* Properties.                                                             *)
(***************************************************************************)

Pcs == {"none", "get", "check", "reopen", "open", "phase", "arm", "ok", "failed", "done"}

\* Every variable has its type.
TypeOK ==
  /\ phase \in {"idle", "connected", "countdown", "recording", "stopping"}
  /\ op \in {"none", "record", "gate", "finalize", "ungate", "join", "close"}
  /\ auto \in BOOLEAN /\ gate \in BOOLEAN /\ conn \subseteq Streams
  /\ dev \in [Streams -> {"closed", "live", "dead"}] /\ armed \subseteq Streams
  /\ st \in [Streams -> States] /\ attempts \in [Streams -> 0..MaxAttempts]
  /\ inFlight \in [Streams -> BOOLEAN] /\ due \in [Streams -> {"none", "waiting", "ripe"}]
  /\ quiet \subseteq Streams /\ tries \in [Streams -> Nat]
  /\ report \in [Streams -> {"none", "raised", "checked"}] /\ losses \in Nat
  /\ stopFlag \in BOOLEAN /\ queue \in Seq(Streams \union {Stop})
  /\ monitor \in {"none", "wait", "tick", "enqueue", "done"} /\ toEnqueue \subseteq Streams
  /\ cycle \in 0..MaxCycles /\ late \in BOOLEAN
  /\ worker \in [Workers -> [pc : Pcs, job : Streams \union {Stop}]]

Busy(w) == worker[w].pc \notin {"none", "get", "done"}
Alive(w) == worker[w].pc \notin {"none", "done"}
Supervising == monitor \notin {"none", "done"} /\ ~stopFlag

\* A request for s is somewhere between the tick that made it and the supervisor.
Pending(s) ==
  \/ s \in toEnqueue
  \/ \E i \in 1..Len(queue) : queue[i] = s
  \/ \E w \in Workers : Busy(w) /\ worker[w].job = s

\* A drop is never forgotten: while supervision runs, a RECONNECTING stream has
\* its next attempt scheduled, or a request under way that will be answered.
NeverForgotten ==
  Supervising =>
    \A s \in Streams :
      st[s] = "reconnecting" => IF inFlight[s] THEN Pending(s) ELSE due[s] # "none"

\* max_attempts bounds the attempts of a recovery episode, from one time the
\* stream is seen CONNECTED to the next, unless stalls start episodes as well.
RetriesBounded == ~onStall => \A s \in Streams : tries[s] <= MaxAttempts

\* A drop is retried until it is decided, and not more often than the policy allows.
DropsAreHandled == NeverForgotten /\ RetriesBounded

\* disconnect() and a one-shot stop() leave no device open and no worker behind,
\* unless the worker outlived its join.
CleanTeardown ==
  phase = "idle" /\ ~late =>
    /\ \A s \in Streams : dev[s] = "closed"
    /\ \A w \in Workers : ~Alive(w)

\* While supervision runs, a worker thread serves the reconnect queue.
QueueIsServed == Supervising => \E w \in Workers : Alive(w)

\* While writing, only streams that can resume a recording are reopened.
OnlyHotSwapWhileRecording ==
  [][\A w \in Workers : worker[w].pc = "reopen" /\ worker'[w].pc = "open" =>
       (phase = "recording" /\ gate => worker[w].job \in HotSwap)]_vars

\* As long as a worker serves the queue, a drop ends in a verdict: the stream is
\* CONNECTED again, FAILED, or the session is torn down.
DropIsResolved ==
  []QueueIsServed =>
    \A s \in Streams : st[s] = "reconnecting" ~> (st[s] # "reconnecting" \/ phase = "idle")
=============================================================================
