------------------------------- MODULE OgloGlove -------------------------------
(***************************************************************************)
(* The OGLO glove on USB (adapters/oglo/stream.py): a reader thread opens  *)
(* the port, checks the manifest, turns the TAG stream on and routes       *)
(* packets; it survives a lost link for a bounded time.  Flag, counters    *)
(* and the files of the derived streams are guarded by _recording_lock.    *)
(***************************************************************************)
EXTENDS Sensors

StartReader ==
  /\ stop' = FALSE /\ ready' = "no" /\ Spawn("open")
  /\ recording' = FALSE /\ count' = 0 /\ lost' = FALSE
  /\ UNCHANGED <<holds, writer, media, report>>

\* A reader that is still there counts as a connection.
OgloConnect ==
  IF ThreadDead THEN Connecting("connecting") /\ StartReader
                ELSE Connecting("on") /\ UNCHANGED <<reader, window>>
OgloReady ==
  /\ phase = "connecting" /\ ready = "yes"
  /\ To("on") /\ UNCHANGED <<reader, window>>
\* connect() disconnects before it raises; not so when it has waited too long.
OgloRefused ==
  /\ phase = "connecting" /\ stop' = TRUE
  /\ \E late \in May("slow") :
       IF late THEN ready = "no" /\ To("off") ELSE ready = "error" /\ To("closing")
  /\ UNCHANGED <<pc, own, ready, holds, lost, window>>

-----------------------------------------------------------------------------
\* The reader thread

OgloOpen(t) ==
  /\ pc[t] = "open" /\ ~stop
  /\ Goto(t, "await") /\ holds' = holds \union {t}
  /\ UNCHANGED <<kind, session, own, stop, ready, lost, window>>

\* (OgloFailsQuietly: without the event that wakes connect().)
OgloFailsQuietly(t) ==
  /\ pc[t] \in {"open", "await"} /\ ("fail" \in Faults \/ stop)
  /\ End(t) /\ lost' = TRUE /\ UNCHANGED <<kind, session, window>>
\* Opening, the manifest or the first packet fails, or a stop is asked for.
OgloFails(t) ==
  /\ pc[t] \in {"open", "await"} /\ ("fail" \in Faults \/ stop)
  /\ Goto(t, "none") /\ holds' = holds \ {t} /\ ready' = "error" /\ lost' = TRUE
  /\ UNCHANGED <<kind, session, own, stop, window>>

OgloFirst(t) ==
  /\ pc[t] = "await" /\ ~stop
  /\ Goto(t, "run") /\ ready' = "yes"
  /\ UNCHANGED <<kind, session, own, stop, holds, lost, window>>

\* A tactile packet: counted and emitted under the lock.
OgloTactile(t) ==
  /\ pc[t] = "run" /\ Room
  /\ count' = IF recording THEN count + 1 ELSE count
  /\ Emit
  /\ UNCHANGED <<reader, recording, writer, media, report>>

\* A packet of the IMU or the magnetometer goes to a file of the glove's own; a
\* writer that refuses it raises through the reader, which ends.
OgloDerived(t) ==
  /\ pc[t] = "run" /\ recording /\ writer /\ Room
  /\ \E raises \in May("disk") :
       IF raises THEN End(t) /\ UNCHANGED media
                  ELSE media' = media + 1 /\ UNCHANGED <<pc, holds, own, stop, ready>>
  /\ UNCHANGED <<kind, session, lost, recording, writer, count, report>>

\* (OgloDies: a failed read ends the reader.)
OgloDies(t) ==
  /\ "unplug" \in Faults /\ pc[t] = "run"
  /\ End(t) /\ UNCHANGED <<kind, session, lost, window>>
\* _usb_reconnect: reopen the port until a packet proves the stream, or give up.
OgloLinkLost(t) ==
  /\ "unplug" \in Faults /\ pc[t] = "run"
  /\ Goto(t, "reconnect") /\ holds' = holds \ {t}
  /\ UNCHANGED <<kind, session, own, stop, ready, lost, window>>
OgloAdopts(t) ==
  /\ pc[t] = "reconnect" /\ ~stop
  /\ Goto(t, "run") /\ holds' = holds \union {t}
  /\ UNCHANGED <<kind, session, own, stop, ready, lost, window>>
OgloGivesUp(t) ==
  /\ pc[t] = "reconnect"
  /\ End(t) /\ lost' = TRUE /\ UNCHANGED <<kind, session, window>>
OgloEnds(t) ==
  /\ pc[t] = "run" /\ stop
  /\ End(t) /\ UNCHANGED <<kind, session, lost, window>>

-----------------------------------------------------------------------------
\* A recording

\* start_recording() connects again when its reader is dead.
OgloRestart ==
  /\ phase = "starting" /\ ThreadDead /\ To("restarting") /\ StartReader
OgloRestarted ==
  /\ phase = "restarting" /\ ready = "yes"
  /\ To("restarted") /\ UNCHANGED <<reader, window>>
\* It raises: the session closes the sample writer and is connected again.
OgloRestartFails ==
  /\ phase = "restarting" /\ ready = "error"
  /\ phase' = "on" /\ gate' = FALSE /\ own' = 0 /\ stop' = TRUE
  /\ UNCHANGED <<kind, rows, refused, windows, connects, pc, ready, holds, lost, window>>

\* Files and counters, without the lock; then the flag.
OgloFiles ==
  /\ phase = "restarted" \/ (phase = "starting" /\ ~ThreadDead)
  /\ To("arming") /\ writer' = TRUE /\ media' = 0 /\ ResetCounters
  /\ UNCHANGED <<reader, recording, report>>
OgloArm ==
  /\ phase = "arming" /\ To("rec") /\ recording' = TRUE
  /\ UNCHANGED <<reader, writer, media, count, report>>
OgloSeal ==
  /\ phase = "rec" /\ To("stopping") /\ recording' = FALSE /\ writer' = FALSE
  /\ UNCHANGED <<reader, media, count, report>>

OgloThread(t) ==
  \/ OgloOpen(t) \/ OgloFails(t) \/ OgloFirst(t) \/ OgloAdopts(t)
  \/ OgloGivesUp(t) \/ OgloEnds(t)
OgloCalls ==
  \/ OgloReady \/ OgloRefused \/ OgloRestart \/ OgloRestarted \/ OgloRestartFails
  \/ OgloFiles \/ OgloArm \/ OgloSeal \/ ReadCounters \/ Join
=============================================================================
