------------------------------- MODULE Incidents -------------------------------
(***************************************************************************)
(* Health incidents (health/): capture threads and the session put what    *)
(* they see on the queues of a worker thread, which drains them, asks each *)
(* detector for events and each open incident whether it is over; the      *)
(* session starts and stops the worker as it connects, records, rotates    *)
(* and disconnects, and keeps the incidents in the log of the recording.   *)
(* Fingerprints do not meet in the tracker, so a behaviour follows one     *)
(* stream and the incidents of one detector.                               *)
(***************************************************************************)
EXTENDS Integers, Sequences, SequencesExt

CONSTANTS
  Detectors,      \* subset of {"stall", "nodata", "startup", "adapter", "rate", "jitter", "pressure"}
  Faults,         \* "connect": connecting fails; "start": start() fails; "raise": an
                  \* adapter reports a problem
  Threshold,      \* time units until a detector speaks
  Recovery,       \* and until it calls an incident over
  MaxInbox        \* bound: messages on one queue

ASSUME Assumption ==
  /\ Detectors \subseteq {"stall", "nodata", "startup", "adapter", "rate", "jitter", "pressure"}
  /\ Faults \subseteq {"connect", "start", "raise"}
  /\ Threshold \in Nat \ {0} /\ Recovery \in Nat \ {0} /\ MaxInbox \in Nat \ {0}

Never == -1
Ages == Never..IF Threshold > Recovery THEN Threshold ELSE Recovery
Older(age) == IF age = Never \/ age + 1 \notin Ages THEN age ELSE age + 1
May(fault) == IF fault \in Faults THEN BOOLEAN ELSE {FALSE}

VARIABLES
  watch,          \* the detector followed
  phase, step,    \* the session's state; the step its present call is at
  conn, flowing,  \* the stream's connection state; does its device deliver
  log,            \* "none" or "open": the session log
  worker, pc,     \* the worker the session holds: "none", "running", "stopping",
                  \* "dead"; what its thread does
  samples, healths, conns,     \* its queues; of the samples, the age of the last
  mem,            \* what the detector remembers, from worker to worker
  incident,       \* its open incident: how long ago its last event was
  hanging,        \* the last line of the log about the incident shows it open
  unbalanced,     \* history: a log was sealed with such a line
  dark,           \* time since the device delivered, or was connected
  mute,           \* history: it was silent for Threshold at the last drain, or since
  resumed         \* history: a worker found the memory of an earlier one

session == <<phase, step, conn, log>>
thread == <<worker, pc>>
inbox == <<samples, healths, conns>>
tracker == <<incident, hanging>>
history == <<unbalanced, resumed>>
vars == <<watch, session, flowing, thread, inbox, mem, tracker, history, dark, mute>>

Blank == [tracked |-> FALSE, last |-> Never, seen |-> FALSE, active |-> FALSE,
          failed |-> FALSE, recovered |-> FALSE,
          dip |-> Never, better |-> Never]
Init ==
  /\ watch \in Detectors
  /\ phase = "idle" /\ step = "none" /\ conn = "idle" /\ flowing = FALSE /\ log = "none"
  /\ worker = "none" /\ pc = "off"
  /\ samples = Never /\ healths = <<>> /\ conns = <<>>
  /\ mem = Blank /\ incident = Never /\ hanging = FALSE
  /\ unbalanced = FALSE /\ dark = Never /\ mute = FALSE /\ resumed = FALSE

-----------------------------------------------------------------------------
\* The queues.  What is put on a worker that has ended is lost; without a worker nothing
\* is put at all.  What the detector followed does not look at is left out.
Timed == watch \in {"stall", "nodata"}
Listening == worker \in {"running", "stopping"}
Heard == CASE watch = "startup" -> {"fail", "ok"} [] watch = "adapter" -> {"problem"} [] OTHER -> {}
PushConn(state) ==
  /\ Len(conns) < MaxInbox
  /\ conns' = IF Listening /\ Timed THEN Append(conns, state) ELSE conns
PushHealth(event) ==
  /\ Len(healths) < MaxInbox
  /\ healths' = IF Listening /\ event \in Heard THEN Append(healths, event) ELSE healths

\* HealthSystem.start(): a new worker with the detectors there are; nothing if there is
\* one.
StartWorker ==
  IF worker # "none" THEN UNCHANGED <<thread, inbox, resumed>>
  ELSE /\ worker' = "running" /\ pc' = "drain"
       /\ samples' = Never /\ healths' = <<>> /\ conns' = <<>>
       /\ resumed' = (resumed \/ mem # Blank)

\* Every change of an incident is written to the log, if one is open.
Persist(open) == hanging' = IF log = "open" THEN open ELSE hanging
\* (DropAll: the incidents are forgotten and no line is written.)
DropAll == incident' = Never /\ UNCHANGED hanging
\* close_all()
CloseAll ==
  IF incident = Never THEN UNCHANGED tracker
  ELSE incident' = Never /\ Persist(FALSE)

-----------------------------------------------------------------------------
\* connect()
Connect ==
  /\ phase = "idle" /\ step = "none" /\ step' = "connecting"
  /\ StartWorker
  /\ UNCHANGED <<watch, phase, conn, flowing, log, mem, tracker, unbalanced, dark, mute>>
Connecting ==
  /\ step = "connecting" /\ step' = "device" /\ conn' = "connecting" /\ PushConn("connecting")
  /\ UNCHANGED <<watch, phase, flowing, log, thread, samples, healths, mem, tracker, history, dark, mute>>
Connected ==
  /\ step = "device" /\ step' = "none"
  /\ \E failed \in May("connect") :
       /\ conn' = IF failed THEN "failed" ELSE "connected"
       /\ PushConn(conn') /\ PushHealth(IF failed THEN "fail" ELSE "ok")
       /\ phase' = IF failed THEN "idle" ELSE "connected"
       /\ dark' = IF failed THEN Never ELSE 0
       /\ flowing' \in IF failed THEN {FALSE} ELSE BOOLEAN
  /\ mute' = FALSE
  /\ UNCHANGED <<watch, log, thread, samples, mem, tracker, history>>

\* start(): the log is opened, and once every stream records the worker, unless one of
\* them fails.
Start ==
  /\ phase = "connected" /\ step = "none" /\ step' = "start"
  /\ log' = "open" /\ hanging' = FALSE
  /\ UNCHANGED <<watch, phase, conn, flowing, thread, inbox, mem, incident, history, dark, mute>>
Recording ==
  /\ step = "start" /\ step' = "none"
  /\ \E failed \in May("start") :
       IF failed THEN log' = "none" /\ UNCHANGED <<phase, thread, inbox, resumed>>
       ELSE StartWorker /\ phase' = "recording" /\ UNCHANGED log
  /\ UNCHANGED <<watch, conn, flowing, mem, tracker, unbalanced, dark, mute>>

\* HealthSystem.stop(), as stop(), rotate and disconnect() call it: the thread is told to
\* end and joined, the worker given up, what is open closed.
StopWorker(from, call) ==
  /\ phase = from /\ step = "none" /\ step' = call
  /\ worker' = IF worker = "none" THEN worker ELSE "stopping"
Stop ==
  /\ StopWorker("recording", "stop")
  /\ UNCHANGED <<watch, phase, conn, flowing, log, pc, inbox, mem, tracker, history, dark, mute>>
Rotate ==
  /\ StopWorker("recording", "rotate")
  /\ UNCHANGED <<watch, phase, conn, flowing, log, pc, inbox, mem, tracker, history, dark, mute>>
Disconnect ==
  /\ StopWorker("connected", "disconnect")
  /\ conn' = "disconnected" /\ flowing' = FALSE /\ PushConn("disconnected")
  /\ UNCHANGED <<watch, phase, log, pc, samples, healths, mem, tracker, history, dark, mute>>

Ended == worker \in {"none", "dead"}
Sealed(open) == unbalanced' = (unbalanced \/ open)
Stopped ==
  /\ step = "stop" /\ Ended /\ worker' = "none" /\ step' = "none" /\ phase' = "connected"
  /\ CloseAll /\ Sealed(hanging') /\ log' = "none"
  /\ UNCHANGED <<watch, conn, flowing, pc, inbox, mem, resumed, dark, mute>>
Rotated ==
  /\ step = "rotate" /\ Ended /\ worker' = "none" /\ step' = "switch" /\ CloseAll
  /\ UNCHANGED <<watch, phase, conn, flowing, log, pc, inbox, mem, history, dark, mute>>
\* The next segment's log takes the place of this one's, which is sealed.
SwitchLogs ==
  /\ step = "switch" /\ step' = "none" /\ Sealed(hanging) /\ hanging' = FALSE /\ StartWorker
  /\ UNCHANGED <<watch, phase, conn, flowing, log, mem, incident, dark, mute>>
Disconnected ==
  /\ step = "disconnect" /\ Ended /\ worker' = "none" /\ step' = "none" /\ phase' = "idle"
  /\ log' = "none"
  /\ UNCHANGED <<watch, conn, flowing, pc, inbox, mem, tracker, history, dark, mute>>

\* cancel(): the log and its directory go, the worker stays.
Cancel ==
  /\ phase = "recording" /\ step = "none" /\ phase' = "connected" /\ log' = "none"
  /\ UNCHANGED <<watch, step, conn, flowing, thread, inbox, mem, tracker, history, dark, mute>>

-----------------------------------------------------------------------------
\* The device and its capture thread

Sample ==
  /\ conn = "connected" /\ flowing /\ dark' = 0
  /\ samples' = IF Listening /\ Timed THEN 0 ELSE samples
  /\ UNCHANGED <<watch, session, flowing, thread, healths, conns, mem, tracker, history, mute>>
Stalls ==
  /\ flowing /\ flowing' = FALSE
  /\ UNCHANGED <<watch, session, thread, inbox, mem, tracker, history, dark, mute>>
Resumes ==
  /\ conn = "connected" /\ ~flowing /\ flowing' = TRUE
  /\ UNCHANGED <<watch, session, thread, inbox, mem, tracker, history, dark, mute>>
AdapterReports ==
  /\ conn = "connected" /\ \E raised \in May("raise") : raised /\ PushHealth("problem")
  /\ UNCHANGED <<watch, session, flowing, thread, samples, conns, mem, tracker, history, dark, mute>>

\* A unit of time is seconds, a turn of the worker milliseconds, and a device that
\* delivers does so many times in it.
TimePasses ==
  /\ pc \notin {"fire", "track"} /\ (flowing => dark = 0)
  /\ dark' = Older(dark) /\ mute' = (mute \/ dark' >= Threshold)
  /\ samples' = Older(samples) /\ incident' = Older(incident)
  /\ mem' = [mem EXCEPT !.last = Older(@), !.dip = Older(@), !.better = Older(@)]
  /\ UNCHANGED <<watch, session, flowing, thread, healths, conns, hanging, history>>

-----------------------------------------------------------------------------
\* The worker's thread

Is(d) == watch = d
\* observe_sample(): of the stall detector, whose clock starts anew and whose alarm is
\* taken back,
StallSample(m) == [m EXCEPT !.last = samples, !.active = FALSE, !.seen = TRUE]
\* and of the one for silence since the connect.
NoDataSample(m) == [m EXCEPT !.seen = TRUE]
\* (FirstOnly: only the first sample sets the clock.)
FirstOnly(m) ==
  IF samples = Never \/ ~Timed \/ m.seen THEN m
  ELSE IF Is("stall") THEN StallSample(m) ELSE NoDataSample(m)
ObserveSample(m) ==
  IF samples = Never \/ ~Timed THEN m
  ELSE IF Is("stall") THEN StallSample(m) ELSE NoDataSample(m)
\* observe_health(): of the startup detector, a failure is pending until the next tick or
\* a success.
ObserveHealth(m, event) ==
  CASE event = "fail" -> [m EXCEPT !.failed = TRUE, !.recovered = FALSE]
    [] event = "ok" -> [m EXCEPT !.failed = FALSE, !.recovered = TRUE]
    [] OTHER -> m
\* observe_connection_state(): of the stall detector, the clock starts anew with the
\* connect and stops with any other state;
StallConnection(m, state) ==
  IF state = "connected" THEN [m EXCEPT !.tracked = TRUE, !.last = 0, !.active = FALSE]
                         ELSE [m EXCEPT !.tracked = FALSE, !.last = Never, !.active = FALSE]
\* the other waits for a first sample again.
NoDataConnection(m, state) == [StallConnection(m, state) EXCEPT !.seen = FALSE]
ObserveConnection(m, state) ==
  IF Is("stall") THEN StallConnection(m, state) ELSE NoDataConnection(m, state)

\* Which events carry the fingerprint followed.
Fingerprint == CASE Is("startup") -> "fail" [] Is("adapter") -> "problem" [] OTHER -> "none"

\* Samples first, then events, then connection states, whatever came first; an event with
\* the fingerprint opens an incident or is counted to the open one.
Drain ==
  /\ pc \in {"drain", "last"}
  /\ LET heard == FoldLeft(ObserveHealth, ObserveSample(mem), healths)
     IN mem' = FoldLeft(ObserveConnection, heard, conns)
  /\ IF Fingerprint \in ToSet(healths) THEN incident' = 0 /\ Persist(TRUE)
                                       ELSE UNCHANGED tracker
  /\ samples' = Never /\ healths' = <<>> /\ conns' = <<>>
  /\ mute' = (mute /\ dark >= Threshold)
  /\ IF pc = "last" THEN worker' = "dead" /\ pc' = "off" ELSE pc' = "fire" /\ UNCHANGED worker
  /\ UNCHANGED <<watch, session, flowing, history, dark>>

\* What a soft detector reads: nothing yet, or a rate, jitter or queue beyond its
\* threshold, between, or within its recovery.
Soft == watch \in {"rate", "jitter", "pressure"}
Readings == IF Soft THEN {"unknown", "bad", "fair", "good"} ELSE {"unknown"}
\* The writer dropped samples since the last tick.
Spikes(reading) == IF Is("pressure") /\ reading # "unknown" THEN BOOLEAN ELSE {FALSE}
\* Since when a reading is bad: since this tick; jitter since its window began.
Since == IF Is("jitter") THEN {0, Threshold} ELSE {0}
BadFor(reading, since) ==
  IF reading = "unknown" THEN mem.dip
  ELSE IF reading # "bad" THEN Never
  ELSE IF mem.dip = Never THEN since ELSE mem.dip

\* tick() of each detector: does it speak?
StallSpeaks == Is("stall") /\ mem.tracked /\ mem.last >= Threshold /\ ~mem.active
NoDataSpeaks == Is("nodata") /\ mem.tracked /\ ~mem.seen /\ mem.last >= Threshold /\ ~mem.active
StartupSpeaks == Is("startup") /\ mem.failed
Sustained(reading, since) ==
  Soft /\ reading = "bad" /\ BadFor(reading, since) >= Threshold /\ ~mem.active
\* What it remembers after it.
Fired(reading, since) ==
  [mem EXCEPT !.failed = FALSE, !.dip = BadFor(reading, since),
              !.active = IF reading \in {"fair", "good"} THEN FALSE
                         ELSE @ \/ StallSpeaks \/ NoDataSpeaks \/ Sustained(reading, since)]
Fire ==
  /\ pc = "fire" /\ pc' = "track"
  /\ \E reading \in Readings, since \in Since : \E spike \in Spikes(reading) :
       /\ mem' = Fired(reading, since)
       /\ IF StallSpeaks \/ NoDataSpeaks \/ StartupSpeaks \/ Sustained(reading, since) \/ spike
          THEN incident' = 0 /\ Persist(TRUE)
          ELSE UNCHANGED tracker
  /\ UNCHANGED <<watch, session, flowing, worker, inbox, history, dark, mute>>

\* (StallNeverOver: a stream that delivers again is not looked at.)
StallNeverOver == ~mem.tracked
\* close_condition() of the detector; a soft one notes since when the reading is good.
StallOver == ~mem.tracked \/ (mem.last \in 0..Threshold - 1 /\ incident >= Recovery)
Over(reading) ==
  CASE Is("stall") -> StallOver
    [] Is("nodata") -> mem.seen
    [] Is("startup") -> mem.recovered
    [] Is("adapter") -> incident >= Recovery
    [] OTHER -> reading = "good" /\ mem.better >= Recovery
Better(reading) ==
  IF reading = "unknown" THEN mem.better
  ELSE IF reading # "good" THEN Never
  ELSE IF mem.better = Never THEN 0 ELSE mem.better
Track ==
  /\ pc = "track" /\ pc' = IF worker = "stopping" THEN "last" ELSE "drain"
  /\ \E reading \in Readings :
       IF incident = Never THEN UNCHANGED <<mem, tracker>>
       ELSE /\ mem' = [mem EXCEPT !.better = Better(reading)]
            /\ IF Over(reading) THEN incident' = Never /\ Persist(FALSE) ELSE UNCHANGED tracker
  /\ UNCHANGED <<watch, session, flowing, worker, inbox, history, dark, mute>>

-----------------------------------------------------------------------------
SessionStep ==
  \/ Connecting \/ Connected \/ Recording \/ Stopped \/ Rotated \/ SwitchLogs \/ Disconnected
SessionCall == Connect \/ Start \/ Stop \/ Rotate \/ Cancel \/ Disconnect
WorkerStep == Drain \/ Fire \/ Track
Next ==
  \/ SessionCall \/ SessionStep \/ WorkerStep
  \/ Sample \/ Stalls \/ Resumes \/ AdapterReports \/ TimePasses
Spec == Init /\ [][Next]_vars
\* The worker runs at 20 Hz, a call of the session goes on, a device that delivers
\* delivers, and time passes between the turns of the worker.
FairSpec ==
  Spec /\ WF_vars(WorkerStep) /\ WF_vars(SessionStep) /\ WF_vars(Sample) /\ SF_vars(TimePasses)

-----------------------------------------------------------------------------
IncidentsTypeOK ==
  /\ phase \in {"idle", "connected", "recording"} /\ log \in {"none", "open"}
  /\ worker \in {"none", "running", "stopping", "dead"}
  /\ pc \in {"off", "drain", "fire", "track", "last"}
  /\ incident \in Ages /\ dark \in Ages /\ samples \in Ages
  /\ mem.last \in Ages /\ mem.dip \in Ages /\ mem.better \in Ages

\* The log of a recording or of a segment that is sealed shows no incident open ("Close
\* open incidents into the sealed log before switching", orchestrator.py).
SealedLogsBalance == ~unbalanced

\* A stream that connects and stays silent becomes an incident, whichever of samples,
\* states and calls the worker meets first - while it has not been restarted over a
\* memory of the time before.
SilenceIsSeen ==
  (Timed /\ conn = "connected" /\ ~flowing)
    ~> (incident # Never \/ flowing \/ step # "none" \/ conn # "connected"
        \/ worker = "none" \/ resumed \/ (Is("nodata") /\ mem.seen))

\* A stall is an incident only if there was one.
NoFalseStall ==
  [][(watch = "stall" /\ incident = Never /\ incident' # Never /\ ~resumed)
       => mute]_vars

\* An incident whose cause is gone is closed, while a worker is there to see it.
RecoveredCloses ==
  (Timed /\ incident # Never /\ flowing)
    ~> (incident = Never \/ ~flowing \/ worker # "running" \/ step # "none")

\* The worker follows a stream both ways: silence opens an incident, recovery closes it.
StreamsAreFollowed == SilenceIsSeen /\ RecoveredCloses
=============================================================================
