-------------------------------- MODULE Sensors --------------------------------
(***************************************************************************)
(* The sensor adapters: a polling loop ("poll"), samples pushed by the     *)
(* user's threads ("push"), a BLE IMU ("ble"), the UDP packets of a        *)
(* headset ("quest"), the host microphone ("audio") and the OGLO glove on  *)
(* USB ("oglo").  Each keeps the four-phase contract in its own way, and   *)
(* most of them share flags and counters with their thread without a lock. *)
(***************************************************************************)
EXTENDS Capture

SensorInit ==
  /\ CaptureInit
  /\ pc = [t \in Threads |->
       CASE kind = "quest" /\ t = 2 -> "answer"   \* its responder starts with the adapter
         [] kind = "push" /\ t = 2 -> "idle"      \* the user's thread
         [] OTHER -> "none"]

\* start_recording() of an adapter without a file: counters first, flag second.
\* (KeepCounters: the counters of the window before go on.)
KeepCounters == UNCHANGED count
ResetCounters == count' = 0
Begin ==
  /\ phase = "starting"
  /\ To("rec") /\ recording' = TRUE /\ ResetCounters
  /\ UNCHANGED <<reader, writer, media, report>>

\* stop_recording(): the flag goes down, then the counters are read.
LowerFlag ==
  /\ phase = "rec"
  /\ To("stopping") /\ recording' = FALSE
  /\ UNCHANGED <<reader, writer, media, count, report>>
ReadCounters ==
  /\ phase = "stopping"
  /\ To("sealed") /\ report' = count
  /\ UNCHANGED <<reader, recording, writer, media, count>>

\* disconnect(): raise the event, join, forget the thread.
RaiseStop ==
  /\ phase = "on"
  /\ To("closing") /\ stop' = TRUE
  /\ UNCHANGED <<pc, own, ready, holds, lost, window>>
Join ==
  /\ phase = "closing" /\ Joined
  /\ To("off") /\ own' = 0 /\ holds' = holds \ {Adapter}
  /\ UNCHANGED <<pc, stop, ready, lost, window>>

-----------------------------------------------------------------------------
\* PollingSensorStream

\* retry_open() has given up, after its attempts.
PollOpenFails ==
  /\ "fail" \in Faults /\ Connecting("off")
  /\ UNCHANGED <<reader, window>>

PollConnect ==
  /\ Connecting("on")
  /\ holds' = holds \union {Adapter} /\ stop' = FALSE /\ Spawn("read")
  /\ lost' = FALSE /\ UNCHANGED <<ready, window>>

\* One turn of the loop: read and emit; count, if the flag is up by then.
PollRead(t) ==
  /\ pc[t] = "read" /\ ~stop /\ Room
  /\ Goto(t, "counting") /\ Emit
  /\ UNCHANGED <<own, stop, ready, holds, lost, window>>
Count(t, next) ==
  /\ pc[t] = "counting"
  /\ Goto(t, next) /\ count' = IF recording THEN count + 1 ELSE count
  /\ UNCHANGED <<kind, session, own, stop, ready, holds, lost, recording, writer, media, report>>
\* on_read_error = "stop"
PollGivesUp(t) ==
  /\ pc[t] = "read" /\ "fail" \in Faults
  /\ End(t) /\ lost' = TRUE /\ UNCHANGED <<kind, session, window>>
LoopEnds(t) ==
  /\ pc[t] = "read" /\ stop
  /\ End(t) /\ UNCHANGED <<kind, session, lost, window>>

PollThread(t) == PollRead(t) \/ Count(t, "read") \/ LoopEnds(t)
PollCalls == Begin \/ LowerFlag \/ ReadCounters \/ Join

-----------------------------------------------------------------------------
\* PushSensorStream.  on_connect and on_disconnect are the user's; push() may be
\* called at any time and drops the sample while the stream is not connected.

PushConnect ==
  /\ Connecting("on") /\ ready' = "yes"
  /\ UNCHANGED <<pc, own, stop, holds, lost, window>>
Push(t) ==
  /\ pc[t] = "idle" /\ ready = "yes" /\ Room
  /\ Goto(t, "counting") /\ Emit
  /\ UNCHANGED <<own, stop, ready, holds, lost, window>>
PushDisconnect ==
  /\ phase = "on"
  /\ To("off") /\ ready' = "no"
  /\ UNCHANGED <<pc, own, stop, holds, lost, window>>
PushStart == Begin
PushStop == LowerFlag \/ ReadCounters

-----------------------------------------------------------------------------
\* BLEImuGenericStream.  connect() does not wait for its thread, and nothing but
\* connect() resets the counters.

ThreadDead == ~Live(own)
BleConnect ==
  /\ Connecting("on")
  /\ recording' = FALSE /\ count' = 0 /\ stop' = FALSE /\ Spawn("open")
  /\ lost' = FALSE /\ UNCHANGED <<ready, holds, writer, media, report>>

\* A setup that fails after the link is up leaves the client connected.
BleOpen(t) ==
  /\ pc[t] = "open"
  /\ Goto(t, "run") /\ holds' = holds \union {t}
  /\ UNCHANGED <<kind, session, own, stop, ready, lost, window>>
BleOpenFails(t) ==
  /\ pc[t] = "open" /\ "fail" \in Faults
  /\ \E held \in May("setup") : holds' = IF held THEN holds \union {t} ELSE holds
  /\ Goto(t, "none") /\ lost' = TRUE
  /\ UNCHANGED <<kind, session, own, stop, ready, window>>

\* A notification is counted first and emitted second.
BleNotify(t) ==
  /\ pc[t] = "run" /\ Room
  /\ Goto(t, "emit") /\ count' = IF recording THEN count + 1 ELSE count
  /\ UNCHANGED <<kind, session, own, stop, ready, holds, lost, recording, writer, media, report>>
EmitCounted(t) ==
  /\ pc[t] = "emit"
  /\ Goto(t, "run") /\ Emit
  /\ UNCHANGED <<own, stop, ready, holds, lost, window>>
BleEnds(t) ==
  /\ pc[t] = "run" /\ stop
  /\ End(t) /\ UNCHANGED <<kind, session, lost, window>>

\* A reader found dead is connected again, counters included.
BleStart ==
  /\ phase = "starting" /\ To("rec") /\ recording' = TRUE
  /\ IF ThreadDead THEN Spawn("open") /\ stop' = FALSE /\ count' = 0 /\ lost' = FALSE
                   ELSE UNCHANGED <<pc, own, stop, count, lost>>
  /\ UNCHANGED <<ready, holds, writer, media, report>>

BleThread(t) == BleOpen(t) \/ BleNotify(t) \/ EmitCounted(t) \/ BleEnds(t)
BleCalls == BleStart \/ LowerFlag \/ ReadCounters \/ Join

-----------------------------------------------------------------------------
\* MetaQuestHandStream.  Packets are counted in the preview too; a second thread
\* answers the headset's probes, from construction to disconnect().

Responder == {t \in Threads : pc[t] = "answer"}
QuestConnect ==
  /\ Connecting("on")
  /\ stop' = FALSE /\ count' = 0 /\ holds' = {Adapter}
  /\ Free # {} /\ own' = Fresh
  /\ IF Responder # {} THEN pc' = [pc EXCEPT ![Fresh] = "run"]
     ELSE Free # {Fresh} /\ pc' = [pc EXCEPT ![Fresh] = "run", ![Second] = "answer"]
  /\ UNCHANGED <<ready, lost, recording, writer, media, report>>
\* The port is taken: connect() raises before it has a thread.
QuestBindFails ==
  /\ "fail" \in Faults /\ Connecting("off")
  /\ stop' = FALSE /\ count' = 0
  /\ UNCHANGED <<pc, own, ready, holds, lost, recording, writer, media, report>>
QuestPacket(t) ==
  /\ pc[t] = "run" /\ ~stop /\ Room
  /\ Goto(t, "emit") /\ count' = count + 1
  /\ UNCHANGED <<kind, session, own, stop, ready, holds, lost, recording, writer, media, report>>
QuestEnds(t) ==
  /\ pc[t] \in {"run", "answer"} /\ stop
  /\ End(t) /\ UNCHANGED <<kind, session, lost, window>>

\* start_recording(): the flag goes up before the counters are reset.
QuestFlag ==
  /\ phase = "starting" /\ To("arming") /\ recording' = TRUE
  /\ UNCHANGED <<reader, writer, media, count, report>>
QuestReset ==
  /\ phase = "arming" /\ To("rec") /\ count' = 0
  /\ UNCHANGED <<reader, recording, writer, media, report>>

\* disconnect() joins both threads and closes both sockets.
QuestJoin == Join /\ ("stuck" \in Faults \/ Responder = {})
QuestThread(t) == QuestPacket(t) \/ EmitCounted(t) \/ QuestEnds(t)
QuestCalls == QuestFlag \/ QuestReset \/ LowerFlag \/ ReadCounters \/ QuestJoin

-----------------------------------------------------------------------------
\* HostAudioStream.  PortAudio's thread calls back; an exception of the callback
\* ends the input stream for good, and nobody is told.

\* A stream that was created but does not start is kept open.
AudioConnect ==
  /\ Connecting("on")
  /\ holds' = {Adapter} /\ Spawn("listen") /\ lost' = FALSE
  /\ UNCHANGED <<stop, ready, window>>
AudioConnectFails ==
  /\ "fail" \in Faults /\ Connecting("off")
  /\ \E held \in May("setup") : holds' = IF held THEN {Adapter} ELSE holds
  /\ UNCHANGED <<pc, own, stop, ready, lost, window>>

AudioStart ==
  /\ phase = "starting" /\ To("rec")
  /\ count' = 0 /\ media' = 0 /\ writer' = TRUE /\ recording' = TRUE
  /\ UNCHANGED <<reader, report>>

\* The callback: it looks at the flag and the file, then writes, then counts.
AudioLooks(t) ==
  /\ pc[t] = "listen" /\ recording /\ writer /\ Room
  /\ Goto(t, "write")
  /\ UNCHANGED <<kind, session, own, stop, ready, holds, lost, window>>
AudioWrites(t) ==
  /\ pc[t] = "write" /\ writer
  /\ Goto(t, "counted") /\ media' = media + 1
  /\ UNCHANGED <<kind, session, own, stop, ready, holds, lost, recording, writer, count, report>>
AudioRaises(t) ==
  /\ pc[t] = "write" /\ (writer => "disk" \in Faults)
  /\ Goto(t, "none")
  /\ UNCHANGED <<kind, session, own, stop, ready, holds, lost, window>>
AudioCounts(t) ==
  /\ pc[t] = "counted"
  /\ Goto(t, "listen") /\ count' = count + 1
  /\ UNCHANGED <<kind, session, own, stop, ready, holds, lost, recording, writer, media, report>>
AudioLevel(t) ==
  /\ pc[t] = "listen" /\ Room /\ Emit
  /\ UNCHANGED <<reader, window>>

\* stop_recording(): flag, file, report.
AudioCloseFile ==
  /\ phase = "stopping" /\ writer
  /\ writer' = FALSE
  /\ UNCHANGED <<kind, session, reader, recording, media, count, report>>
AudioReport == ReadCounters /\ ~writer

\* stop() and close() of the input stream wait for the callback.
AudioDisconnect ==
  /\ phase = "on" /\ pc[own] \in {"listen", "none"}
  /\ To("off") /\ holds' = {} /\ Goto(own, "none") /\ own' = 0
  /\ UNCHANGED <<stop, ready, lost, window>>

AudioThread(t) == AudioLooks(t) \/ AudioWrites(t) \/ AudioRaises(t) \/ AudioCounts(t)
AudioCalls == AudioStart \/ LowerFlag \/ AudioCloseFile \/ AudioReport

=============================================================================
