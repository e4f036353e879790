-------------------------------- MODULE Cameras --------------------------------
(***************************************************************************)
(* The camera adapters: UVC through PyAV, OpenCV or an MJPEG passthrough   *)
(* ("uvc"), UVC through AVFoundation ("av"), the stereo-inertial OVISION   *)
(* ("ovision"), the OAK with its recorders ("oak"), the OAK with depth     *)
(* ("depth") and the headset's camera over HTTP ("quest_camera").          *)
(*                                                                         *)
(* A frame is taken from the device in one step and dealt with in another. *)
(* Where flag and file share a lock the second is atomic; "depth" and      *)
(* "quest_camera" look, write, count and emit step by step.                *)
(***************************************************************************)
EXTENDS Capture

CONSTANTS
  Slots,          \* bound of a queue between two threads (3600 and 4 in the code)
  MaxRestarts     \* _max_silent_restarts

ASSUME SlotsAssumption == Slots \in Nat \ {0} /\ MaxRestarts \in Nat

VARIABLES
  sup,            \* the supervisor's reconnect(): "idle", "closing", "opening"
  queue,          \* frames handed to the second thread and not dealt with
  keyed,          \* the open file has begun, with a key frame
  flawed,         \* history: this window lost or half-wrote a packet (ovision), had a
                  \* write that raised, or its count reset (depth)
  silent          \* restarts of the capture session without a frame

camera == <<sup, queue, keyed, flawed, silent>>
cameraVars == <<vars, camera>>
CameraKinds == {"uvc", "av", "ovision", "oak", "depth", "quest_camera"}
CameraInit == sup = "idle" /\ queue = 0 /\ keyed = FALSE /\ flawed = FALSE /\ silent = 0

Dead == ~Live(own)
\* The registry of open cameras refuses a second claim on one (av).
Claimed == kind = "av" /\ holds # {}
\* disconnect() joins the threads the adapter refers to; a restart of the capture
\* session takes longer than the 2 s it waits.
Outlives(t) == pc[t] = "left" \/ ("slow" \in Faults /\ pc[t] = "restart")
AllJoined == "stuck" \in Faults \/ \A t \in Threads : ~Live(t) \/ Outlives(t)

-----------------------------------------------------------------------------
\* Connection: connect(), or the reconnect() of the supervisor, which is a
\* disconnect() and a connect() on a thread of its own.

\* The OVISION has a second thread that writes.  One whose reader has died is left
\* running beside the new one ("left" stands for all that were).
Spare == IF Free = {Fresh} THEN {w \in Threads : pc[w] = "pack"} ELSE {Second}
StartPair ==
  /\ Free # {} /\ own' = Fresh
  /\ \E w \in Spare :
       pc' = [t \in Threads |-> IF t = Fresh THEN "read" ELSE IF t = w THEN "pack"
                                ELSE IF pc[t] = "pack" THEN "left" ELSE pc[t]]
StartCapture ==
  /\ stop' = FALSE /\ silent' = 0
  /\ IF kind = "ovision" THEN StartPair ELSE Spawn("read")
\* The adapters with a thread of their own start in preview; a recording of the
\* OVISION or the headset goes on.
OpenCamera ==
  /\ StartCapture /\ holds' = {Adapter}
  /\ recording' = (recording /\ kind \in {"ovision", "quest_camera"})
  /\ count' = IF kind = "depth" THEN 0 ELSE count
  /\ flawed' = (flawed \/ kind = "depth")
  /\ UNCHANGED <<ready, writer, media, report, queue, keyed>>

CameraConnect ==
  /\ ~Claimed /\ Connecting("on") /\ OpenCamera /\ lost' = FALSE
  /\ UNCHANGED sup
\* A pipeline that was built but does not start is kept (depth).
CameraConnectFails ==
  /\ "fail" \in Faults \/ Claimed
  /\ Connecting("off")
  /\ \E kept \in May("setup") :
       holds' = IF kept /\ kind = "depth" THEN {Adapter} ELSE holds
  /\ UNCHANGED <<pc, own, stop, ready, lost, window, camera>>

CameraRaiseStop ==
  /\ phase = "on" /\ sup = "idle"
  /\ To("closing") /\ stop' = TRUE
  /\ UNCHANGED <<pc, own, ready, holds, lost, window, camera>>
\* The device is released; OVISION and depth leave their files open.
Release ==
  /\ own' = 0 /\ holds' = {}
  /\ writer' = (writer /\ kind \in {"ovision", "depth"})
  /\ queue' = IF kind = "av" THEN 0 ELSE queue
  /\ UNCHANGED <<pc, stop, ready, lost, media, count, report, keyed, flawed, silent>>
CameraJoin ==
  /\ phase = "closing" /\ AllJoined
  /\ To("off") /\ Release /\ UNCHANGED <<recording, sup>>

\* The supervisor does not reconnect a stream while it records, but start() does
\* not wait for a reconnect() under way.
SupBegins ==
  /\ "reconnect" \in Faults /\ sup = "idle" /\ phase = "on" /\ connects < MaxConnects
  /\ lost
  /\ sup' = "closing" /\ stop' = TRUE /\ connects' = connects + 1
  /\ UNCHANGED <<kind, phase, gate, rows, refused, windows, pc, own, ready, holds, lost>>
  /\ UNCHANGED <<window, queue, keyed, flawed, silent>>
SupJoins ==
  /\ sup = "closing" /\ AllJoined
  /\ sup' = "opening" /\ Release
  /\ UNCHANGED <<kind, session, recording>>
\* connect() of a stream that start_recording() has meanwhile connected returns.
SupOpens ==
  /\ sup = "opening" /\ ~Claimed
  /\ sup' = "idle"
  /\ IF Dead THEN OpenCamera /\ lost' = FALSE
             ELSE UNCHANGED <<reader, window, queue, keyed, flawed, silent>>
  /\ UNCHANGED <<kind, session>>
SupFails ==
  /\ sup = "opening" /\ ("fail" \in Faults \/ Claimed)
  /\ sup' = "idle"
  /\ UNCHANGED <<kind, session, reader, window, queue, keyed, flawed, silent>>

-----------------------------------------------------------------------------
\* A recording

\* start_recording() of these connects again when the thread is dead.
Restarts == kind \in {"ovision", "oak", "depth"} /\ Dead
CameraRestart ==
  /\ phase = "starting" /\ Restarts /\ OpenCamera /\ lost' = (lost /\ sup # "idle")
  /\ To("restarted") /\ UNCHANGED sup
\* It raises, and the session takes the start back; so for the headset's camera
\* when it is not connected.
CameraStartFails ==
  /\ phase = "starting"
  /\ \/ "fail" \in Faults /\ Restarts
     \/ kind = "quest_camera" /\ (sup # "idle" \/ holds = {})
  /\ phase' = "on" /\ gate' = FALSE
  /\ holds' = IF kind = "oak" THEN {} ELSE holds
  /\ UNCHANGED <<kind, rows, refused, windows, connects, pc, own, stop, ready, lost, window, camera>>

\* Counters and file first, the flag (or the sink) last.
CameraArm ==
  /\ phase = "restarted" \/ (phase = "starting" /\ ~Restarts)
  /\ kind = "quest_camera" => sup = "idle" /\ holds # {}
  /\ To("rec")
  /\ count' = 0 /\ media' = 0 /\ writer' = TRUE /\ keyed' = FALSE /\ flawed' = FALSE
  /\ recording' = TRUE
  /\ UNCHANGED <<reader, report, sup, queue, silent>>

\* stop_recording(): flag and file go in one critical section (uvc, av, oak) ...
SealCamera ==
  /\ phase = "rec" /\ kind \in {"uvc", "av", "oak"}
  /\ To("stopping") /\ recording' = FALSE /\ writer' = FALSE
  /\ UNCHANGED <<reader, media, count, report, camera>>
\* ... or one after the other; the OVISION waits for its queue to drain.
LowerCameraFlag ==
  /\ phase = "rec" /\ kind \notin {"uvc", "av", "oak"}
  /\ To("stopping") /\ recording' = FALSE
  /\ UNCHANGED <<reader, writer, media, count, report, camera>>
Drained == kind = "ovision" => queue = 0
\* A write under way refers to the file, or the recorder, that is now closed.
CloseCameraFile ==
  /\ phase = "stopping" /\ writer /\ Drained
  /\ writer' = FALSE
  /\ pc' = [t \in Threads |-> IF pc[t] \in {"mux", "write"} THEN "late" ELSE pc[t]]
  /\ UNCHANGED <<kind, session, own, stop, ready, holds, lost>>
  /\ UNCHANGED <<recording, media, count, report, camera>>
CameraReport ==
  /\ phase = "stopping" /\ ~writer /\ Drained
  /\ To("sealed") /\ report' = count
  /\ UNCHANGED <<reader, recording, writer, media, count, camera>>

-----------------------------------------------------------------------------
\* The capture thread

StaysAs(t, step) ==
  Goto(t, step) /\ UNCHANGED <<own, stop, ready, holds, lost>>

FrameArrives(t) ==
  /\ pc[t] = "read" /\ ~stop /\ Room
  /\ kind = "av" => queue > 0
  /\ kind = "ovision" => count + queue < MaxFrames /\ media + queue < MaxFrames
  /\ StaysAs(t, "got")
  /\ queue' = IF kind = "av" THEN queue - 1 ELSE queue
  /\ silent' = 0
  /\ UNCHANGED <<kind, session, window, sup, keyed, flawed>>

\* One frame written, counted and emitted.
Record ==
  /\ count' = count + 1 /\ media' = IF writer THEN media + 1 ELSE media
  /\ Emit
Skip == UNCHANGED <<kind, session, count, media>>

\* A frame that is counted and whose write raises: the thread ends, and most tell.  PyAV
\* takes some errors for the camera's and reads on, OpenCV's loop ends untold.
Raises(t) ==
  /\ writer /\ count' = count + 1 /\ flawed' = TRUE
  /\ \E told \in BOOLEAN, next \in {"none", "read"} :
       /\ kind # "uvc" => told /\ next = "none"
       /\ Goto(t, next) /\ lost' = (lost \/ told)
  /\ UNCHANGED <<kind, session, media, own, stop, ready, holds>>

\* _record_decoded_frame, or the passthrough's: under the lock of the flag.
UvcFrame(t) ==
  /\ pc[t] = "got"
  /\ \E raised \in May("disk") :
       IF recording /\ raised THEN Raises(t)
       ELSE StaysAs(t, "read") /\ UNCHANGED flawed /\ IF recording THEN Record ELSE Skip
  /\ UNCHANGED <<recording, writer, report, sup, queue, keyed, silent>>

\* The recorder begins with a key frame.
OakFrame(t) ==
  /\ pc[t] = "got"
  /\ \E key \in BOOLEAN, raised \in May("disk") :
       IF recording /\ (keyed \/ key)
       THEN /\ keyed' = TRUE
            /\ IF raised THEN Raises(t) ELSE StaysAs(t, "read") /\ Record /\ UNCHANGED flawed
       ELSE StaysAs(t, "read") /\ Skip /\ UNCHANGED <<keyed, flawed>>
  /\ UNCHANGED <<recording, writer, report, sup, queue, silent>>

\* OVISION: the packet is queued under the lock; a full queue loses it.
OvisionPut(t) ==
  /\ pc[t] = "got" /\ StaysAs(t, "read")
  /\ queue' = IF recording /\ queue < Slots THEN queue + 1 ELSE queue
  /\ flawed' = (flawed \/ (recording /\ queue = Slots))
  /\ UNCHANGED <<kind, session, window, sup, keyed, silent>>
\* A packet whose metadata cannot be read, or written, may be in the video already, or counted.
OvisionPack(w) ==
  /\ pc[w] \in {"pack", "left"} /\ queue > 0
  /\ queue' = queue - 1
  /\ \E key \in BOOLEAN, broken \in May("fail") :
       CASE ~writer -> Skip /\ UNCHANGED <<keyed, flawed>>
         [] writer /\ broken ->
              /\ flawed' = TRUE /\ UNCHANGED <<kind, session, keyed>>
              /\ \E c, f \in 0..1 : count' = count + c /\ media' = media + f
         [] OTHER ->
              /\ IF keyed \/ key THEN Record /\ keyed' = TRUE ELSE Skip /\ UNCHANGED keyed
              /\ UNCHANGED flawed
  /\ UNCHANGED <<reader, recording, writer, report, sup, silent>>
OvisionPackEnds(w) ==
  /\ pc[w] \in {"pack", "left"} /\ stop /\ queue = 0
  /\ StaysAs(w, "none") /\ UNCHANGED <<kind, session, window, camera>>

\* Depth: the flag is read, the frame counted and the file written without a lock; a
\* write that raises, as when the file is closed under it, ends the thread, and nobody
\* is told.
DepthCounts(t) ==
  /\ pc[t] = "got" /\ recording
  /\ StaysAs(t, IF writer THEN "write" ELSE "emit") /\ count' = count + 1
  /\ UNCHANGED <<kind, session, recording, writer, media, report, camera>>
DepthSkips(t) ==
  /\ pc[t] = "got" /\ ~recording
  /\ StaysAs(t, "read") /\ UNCHANGED <<kind, session, window, camera>>
DepthWrites(t) ==
  /\ pc[t] = "write"
  /\ StaysAs(t, "emit") /\ media' = media + 1
  /\ UNCHANGED <<kind, session, recording, writer, count, report, camera>>
DepthRaises(t) ==
  /\ pc[t] \in IF "disk" \in Faults THEN {"late", "write"} ELSE {"late"}
  /\ StaysAs(t, "none") /\ flawed' = (flawed \/ pc[t] = "write")
  /\ UNCHANGED <<kind, session, window, sup, queue, keyed, silent>>
DepthEmits(t) ==
  /\ pc[t] = "emit" /\ StaysAs(t, "read") /\ Emit
  /\ UNCHANGED <<window, camera>>

\* The headset's camera: the sink, if there is one, muxes and then counts and emits, also
\* a frame that could not be muxed, which the recorder counts apart (write_errors).
SinkTaken(t) ==
  /\ pc[t] = "got"
  /\ StaysAs(t, IF recording THEN "mux" ELSE "read")
  /\ UNCHANGED <<kind, session, window, camera>>
SinkMuxes(t) ==
  /\ pc[t] \in {"mux", "late"}
  /\ \E error \in May("mux") :
       /\ media' = IF pc[t] = "mux" /\ ~error THEN media + 1 ELSE media
       /\ flawed' = (flawed \/ (pc[t] = "mux" /\ error))
  /\ StaysAs(t, "emit")
  /\ UNCHANGED <<kind, session, recording, writer, count, report, sup, queue, keyed, silent>>
SinkEmits(t) ==
  /\ pc[t] = "emit" /\ StaysAs(t, "read") /\ count' = count + 1 /\ Emit
  /\ UNCHANGED <<recording, writer, media, report, camera>>

LoopStops(t) ==
  /\ pc[t] \in {"read", "retry"} /\ stop
  /\ StaysAs(t, "none") /\ UNCHANGED <<kind, session, window, camera>>

-----------------------------------------------------------------------------
\* Devices that go away

\* A fatal error ends the thread of these.
CameraLost(t) ==
  /\ "unplug" \in Faults /\ pc[t] = "read" /\ kind \in {"uvc", "ovision", "oak"}
  /\ Goto(t, "none") /\ lost' = TRUE
  /\ UNCHANGED <<kind, session, own, stop, ready, holds, window, camera>>

\* The library's log tells of a crash or a broken link, and the thread may read on.
DeviceReported(t) ==
  /\ "unplug" \in Faults /\ t = own /\ Live(t) /\ kind \in {"oak", "depth"}
  /\ lost' = TRUE
  /\ UNCHANGED <<kind, session, pc, own, stop, ready, holds, window, camera>>

\* The preview consumer connects again, for ever.
PreviewDrops(t) ==
  /\ "unplug" \in Faults /\ pc[t] = "read" /\ kind = "quest_camera"
  /\ Goto(t, "retry") /\ lost' = TRUE
  /\ UNCHANGED <<kind, session, own, stop, ready, holds, window, camera>>
PreviewResumes(t) ==
  /\ pc[t] = "retry" /\ ~stop
  /\ StaysAs(t, "read") /\ UNCHANGED <<kind, session, window, camera>>

\* AVFoundation's delegate queues frames and drops the oldest.
AvDelivers ==
  /\ kind = "av" /\ \E t \in Threads : pc[t] = "read"
  /\ queue < Slots /\ queue' = queue + 1
  /\ UNCHANGED <<kind, session, reader, window, sup, keyed, flawed, silent>>
\* The watchdog rebuilds a silent capture session, a few times.
AvStalls(t) ==
  /\ "unplug" \in Faults /\ kind = "av" /\ pc[t] = "read" /\ ~stop /\ queue = 0
  /\ IF silent < MaxRestarts
     THEN /\ Goto(t, "restart") /\ silent' = silent + 1
          /\ holds' = {} /\ UNCHANGED lost
     ELSE Goto(t, "none") /\ lost' = TRUE /\ UNCHANGED <<holds, silent>>
  /\ UNCHANGED <<kind, session, own, stop, ready, window, sup, queue, keyed, flawed>>
\* It claims the camera again, or gives up.
AvRestarted(t) ==
  /\ pc[t] = "restart" /\ ~Claimed
  /\ Goto(t, "read") /\ holds' = {Adapter}
  /\ UNCHANGED <<kind, session, own, stop, ready, lost, window, camera>>
AvRestartFails(t) ==
  /\ pc[t] = "restart" /\ ("fail" \in Faults \/ Claimed)
  /\ Goto(t, "none") /\ lost' = TRUE
  /\ UNCHANGED <<kind, session, own, stop, ready, holds, window, camera>>

-----------------------------------------------------------------------------
CameraThread(t) ==
  \/ kind \in CameraKinds /\ (FrameArrives(t) \/ LoopStops(t))
  \/ kind \in {"uvc", "av"} /\ UvcFrame(t)
  \/ kind = "oak" /\ OakFrame(t)
  \/ kind = "ovision" /\ (OvisionPut(t) \/ OvisionPack(t) \/ OvisionPackEnds(t))
  \/ /\ kind = "depth"
     /\ DepthCounts(t) \/ DepthSkips(t) \/ DepthWrites(t) \/ DepthRaises(t) \/ DepthEmits(t)
  \/ /\ kind = "quest_camera"
     /\ SinkTaken(t) \/ SinkMuxes(t) \/ SinkEmits(t) \/ PreviewResumes(t)
  \/ kind = "av" /\ (AvRestarted(t) \/ AvRestartFails(t))
CameraCalls ==
  /\ kind \in CameraKinds
  /\ \/ CameraRestart \/ CameraStartFails \/ CameraArm
     \/ SealCamera \/ LowerCameraFlag \/ CloseCameraFile \/ CameraReport
     \/ CameraJoin \/ SupJoins \/ SupOpens \/ SupFails
CameraOperator ==
  /\ kind \in CameraKinds
  /\ CameraConnect \/ CameraConnectFails \/ CameraRaiseStop \/ SupBegins
CameraDevice(t) == CameraLost(t) \/ DeviceReported(t) \/ PreviewDrops(t) \/ AvStalls(t)

\* stop_recording() of the OVISION waits for packets nobody will pack: its capture
\* thread queued one after its writer thread had ended with the connection.
Abandoned ==
  /\ kind = "ovision" /\ phase = "stopping" /\ queue > 0
  /\ \A t \in Threads : pc[t] \notin {"pack", "left"}
=============================================================================
