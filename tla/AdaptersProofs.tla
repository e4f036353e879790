------------------------------ MODULE AdaptersProofs ------------------------------
(***************************************************************************)
(* Proofs about Adapters, for every adapter, every set of faults and any   *)
(* number of connections, recordings and samples: who has a device open,   *)
(* who keeps a stream alive, that a recording records, and that its report *)
(* is true.                                                                *)
(*                                                                         *)
(* The invariant AInv holds whatever goes wrong.  The four properties do   *)
(* not: each is true but for the faults that Joining, Releasing,           *)
(* Surviving, Undisturbed or Reporting name, adapter by adapter, and by    *)
(* those it is violated.                                                   *)
(***************************************************************************)
EXTENDS Adapters, FiniteSetTheorems, TLAPS

-----------------------------------------------------------------------------
\* What may go wrong without harm to which adapter

\* disconnect() waits for the threads of k: "stuck" and "slow" are those that outlive
\* its join (push and the microphone have none that could).
Joining(k) ==
  \/ k \in {"push", "audio"}
  \/ /\ "stuck" \notin Faults
     /\ "slow" \in Faults => k # "oglo" /\ (k = "av" => "unplug" \notin Faults)

\* k has nothing open when its connect() has failed.
Releasing(k) ==
  "fail" \in Faults /\ "setup" \in Faults => k \notin {"ble", "audio", "depth"}

\* Flag, counter and file of k are changed in one critical section or by one thread,
\* or else no thread of an earlier connection is left to count with the next one's.
\* (Nothing is said of the BLE IMU's reports, which may count another recording's samples,
\* nor of a camera's window with a packet lost or half written, a write that raised or a
\* counter that a reconnect() reset: "flawed", but for the headset's rows.)
Reporting(k) == "stuck" \notin Faults \/ k \in {"push", "audio", "ble", "oglo", "ovision"}

\* k's reader does not end untold over a file it cannot write, as OpenCV's loop does.
Surviving(k) == "disk" \in Faults => k \notin {"oglo", "uvc"}

\* No reconnect() of k lowers the flag of a recording that has begun in the meantime, be
\* it for a link that was lost or for a file that ended the reader.
Undisturbed(k) ==
  "reconnect" \in Faults =>
    /\ "unplug" \in Faults => k \notin {"uvc", "av", "oak", "depth"}
    /\ "disk" \in Faults => k \notin {"uvc", "av", "oak"}

-----------------------------------------------------------------------------
\* The inductive invariant, which holds whatever goes wrong: types ...

\* The phases in which the session has its sample writer open.
Window == {"starting", "arming", "restarting", "restarted", "rec", "stopping", "sealed"}
Shape ==
  /\ kind \in Kinds /\ DOMAIN pc = Threads /\ own \in {0} \union Threads
  /\ holds \subseteq {Adapter} \union Threads
Numbers ==
  /\ rows \in Nat /\ refused \in Nat /\ media \in Nat /\ count \in Nat
  /\ report \in Nat /\ queue \in Nat
Gated == gate <=> phase \in Window
Types == Shape /\ Numbers /\ Gated

\* ... who has the device: a thread that reads it is the one the adapter refers to,
\* and none is left once disconnect() has returned, ...
Own == Joining(kind) => \A t \in Threads : Reads(t) => t = own
Off == Joining(kind) /\ phase = "off" => \A t \in Threads : ~Reads(t)
\* ... the glove's reader ends before it reports an error to connect(), ...
Refused == Joining(kind) /\ kind = "oglo" /\ ready = "error" => ~Live(own)
\* ... only AVFoundation restarts its capture session, only the OVISION leaves a writer
\* behind, and the supervisor reconnects only a camera that was lost and is not being
\* closed, ...
Restarting ==
  \A t \in Threads :
    /\ pc[t] = "restart" => kind = "av" /\ "unplug" \in Faults
    /\ pc[t] = "left" => kind = "ovision"
Supervised ==
  /\ phase \in {"off", "closing"} => sup = "idle"
  /\ sup # "idle" => lost /\ kind \in CameraKinds
  /\ kind = "av" /\ sup # "idle" => stop

Owned == Own /\ Off /\ Refused /\ Restarting /\ Supervised
\* ... what is open is held by the adapter or the thread that reads it, ...
Held ==
  Joining(kind) /\ Releasing(kind) =>
    /\ \A t \in Threads : t \in holds => Reads(t)
    /\ phase = "off" => holds = {}
    /\ kind \in CameraKinds \union {"audio"} => holds \subseteq {Adapter}
    /\ kind = "ble" => \A t \in Threads : pc[t] = "open" => t \notin holds
    /\ kind = "push" => holds = {}
Owners == Owned /\ Held

\* ... who keeps a stream alive: its reader, unless the device was lost.  The glove's
\* reader may be told to stop while it still opens the port, after a connect() that
\* would not wait: the one that connects next finds it and reports what it finds, ...
Survivors ==
  /\ kind = "oglo" /\ ready = "error" => lost
  /\ kind = "oglo" /\ ready = "no" /\ Live(own) => pc[own] \in {"open", "await"}
  /\ kind = "oglo" /\ phase = "off" /\ Live(own) => stop /\ (lost \/ ready = "no")
  /\ phase \notin {"off", "closing"} /\ kind \notin {"push", "audio", "depth"} /\ Surviving(kind)
     => \/ lost
        \/ Live(own) /\ (stop => kind = "oglo" /\ pc[own] \in {"open", "await"})

\* ... that a recording is one for the adapter, too (the headset's hands raise their flag
\* before they reset their counters), ...
Kept ==
  Undisturbed(kind) =>
    /\ phase = "rec" => recording
    /\ kind = "quest" /\ phase = "arming" => recording
    /\ kind \in {"uvc", "av", "oak", "depth"} =>
         (~lost \/ "reconnect" \notin Faults) /\ sup = "idle"

\* ... and how counters, rows and files keep up with each other.  A sample on its way
\* between two of them is one that a thread is about to count, write or emit.
Some(step) == \E t \in Threads : pc[t] = step
One(step) == IF Some(step) THEN 1 ELSE 0
\* Emitted first, counted next (push and polling sensors).
Tallied ==
  /\ phase \in {"rec", "stopping", "sealed"} => count + One("counting") <= rows + refused + 1
  /\ phase = "sealed" => report <= rows + refused + 1
Polled == kind = "poll" /\ Reporting(kind) => Tallied
Pushed == kind = "push" => pc[1] = "none" /\ pc[3] = "none" /\ Tallied
\* Counted first, emitted next (the headset's hands).
Received ==
  kind = "quest" /\ Reporting(kind) =>
    /\ phase \in {"rec", "stopping", "sealed"} => count <= rows + refused + One("emit")
    /\ phase = "sealed" => report <= rows + refused + 1
\* Counted and emitted under one lock (the glove's tactile stream).
Routed ==
  kind = "oglo" =>
    /\ recording => phase = "rec"
    /\ phase \in {"arming", "rec", "stopping", "sealed"} => count <= rows + refused
    /\ phase = "sealed" => report <= rows + refused
\* Written first, counted next; the file is closed before the report (microphone).
Listening ==
  kind = "audio" =>
    /\ count + One("counted") - media \in 0..1
    /\ phase = "sealed" => media - report \in -1..1 /\ ~writer
\* Flag and file under one lock: no difference at all, until a write raises between the
\* counter and the row.  A recording that a reconnect()
\* has cut off has a flag and no file, and no frame is written to it.
Locked ==
  kind \in {"uvc", "av", "oak"} /\ Reporting(kind) =>
    /\ recording => phase = "rec"
    /\ recording /\ ~writer =>
         \A t \in Threads : pc[t] = "none" \/ (pc[t] \in {"read", "restart"} /\ stop)
    /\ phase \in {"starting", "restarted"} => rows + refused = 0
    /\ ~flawed /\ phase \in {"rec", "stopping"} =>
         count = rows + refused /\ media = rows + refused
    /\ ~flawed /\ phase = "sealed" => report = rows + refused /\ media = rows + refused
\* The OVISION's packets are queued while the flag is up and the file is closed only
\* when the queue is empty; one that was lost or broken spoils the equality.
Packed ==
  kind = "ovision" =>
    /\ recording => phase = "rec"
    /\ queue > 0 => phase \in {"rec", "stopping"}
    /\ writer => phase \in {"rec", "stopping"}
    /\ phase \in {"starting", "restarted"} => rows + refused = 0
    /\ ~flawed /\ phase \in {"rec", "stopping"} =>
         count = rows + refused /\ media = rows + refused
    /\ ~flawed /\ phase = "sealed" => report = rows + refused /\ media = rows + refused
\* Counted, written and emitted one after the other: a frame is between two of them.
\* The one that finds its file closed ends the thread.  A reconnect() resets the counter
\* (OAK with depth).
Deep ==
  kind = "depth" /\ Reporting(kind) =>
    /\ recording => phase = "rec"
    /\ Some("write") => writer
    /\ \A t \in Threads : pc[t] \notin {"answer", "pack", "left"}
    /\ writer => phase \in {"rec", "stopping"}
    /\ phase = "rec" => writer
    /\ phase \in {"starting", "restarted"} => rows + refused + One("emit") \in 0..1
    /\ phase \in {"rec", "stopping", "sealed"} => rows + refused + One("emit") - media \in 0..1
    /\ ~flawed /\ writer => count - media = One("write")
    /\ ~flawed /\ phase = "stopping" /\ ~writer =>
         \/ count = media
         \/ count = media + 1 /\ \A t \in Threads : pc[t] \in {"none", "late"}
    /\ ~flawed /\ phase = "sealed" =>
         \/ report = media
         \/ report = media + 1 /\ \A t \in Threads : pc[t] \in {"none", "late"}
\* Muxed, then counted and emitted at once; the frame that finds its file closed is
\* counted all the same (the headset's camera).
Late == One("emit") + One("late")
Sunk ==
  kind = "quest_camera" /\ Reporting(kind) =>
    /\ recording => phase = "rec"
    /\ Some("mux") => writer
    /\ writer => phase \in {"rec", "stopping"}
    /\ phase \in {"rec", "stopping", "sealed"} => sup = "idle"
    /\ phase = "starting" => rows + refused + Late \in 0..1
    /\ phase # "restarted"
    /\ phase = "rec" => writer
    /\ phase \in {"rec", "stopping"} =>
         /\ rows + refused - count \in 0..1
         /\ ~flawed =>
              /\ rows + refused + Late - media \in IF writer THEN 0..1 ELSE 0..2
              /\ count + Late - media \in IF writer THEN 0..1 ELSE 0..2
    /\ phase = "sealed" =>
         /\ rows + refused + Late - report \in 0..2
         /\ ~flawed => rows + refused + Late - media \in 0..2 /\ media - report \in -2..1

Reports ==
  /\ Polled /\ Pushed /\ Received /\ Routed /\ Listening /\ Locked /\ Packed /\ Deep /\ Sunk

AInv == Types /\ Owners /\ Survivors /\ Kept /\ Reports
-----------------------------------------------------------------------------
\* The steps, by the adapter that takes them; a camera's by what they are about.

GateStep == (OpenGate \/ CloseGate) /\ UNCHANGED camera
PollStep ==
  /\ kind = "poll" /\ UNCHANGED camera
  /\ \/ PollConnect \/ PollOpenFails \/ RaiseStop \/ PollCalls
     \/ \E t \in Threads : PollThread(t) \/ PollGivesUp(t)
PushStep ==
  /\ kind = "push" /\ UNCHANGED camera
  /\ \/ PushConnect \/ PushDisconnect \/ PushStart \/ PushStop
     \/ \E t \in Threads : Count(t, "idle") \/ Push(t)
BleStep ==
  /\ kind = "ble" /\ UNCHANGED camera
  /\ \/ BleConnect \/ RaiseStop \/ BleCalls
     \/ \E t \in Threads : BleThread(t) \/ BleOpenFails(t)
QuestStep ==
  /\ kind = "quest" /\ UNCHANGED camera
  /\ \/ QuestConnect \/ QuestBindFails \/ RaiseStop \/ QuestCalls
     \/ \E t \in Threads : QuestThread(t)
AudioStep ==
  /\ kind = "audio" /\ UNCHANGED camera
  /\ \/ AudioConnect \/ AudioConnectFails \/ AudioDisconnect \/ AudioCalls
     \/ \E t \in Threads : AudioThread(t) \/ AudioLevel(t)
OgloStep ==
  /\ kind = "oglo" /\ UNCHANGED camera
  /\ \/ OgloConnect \/ RaiseStop \/ OgloCalls
     \/ \E t \in Threads : OgloThread(t) \/ OgloTactile(t) \/ OgloDerived(t) \/ OgloLinkLost(t)
CameraConnection ==
  /\ kind \in CameraKinds
  /\ \/ CameraOperator \/ CameraJoin \/ SupJoins \/ SupOpens \/ SupFails
     \/ CameraRestart \/ CameraStartFails
CameraWindow ==
  /\ kind \in CameraKinds
  /\ CameraArm \/ SealCamera \/ LowerCameraFlag \/ CloseCameraFile \/ CameraReport
CameraReader ==
  /\ kind \in CameraKinds
  /\ \/ AvDelivers
     \/ \E t \in Threads :
          \/ FrameArrives(t) \/ LoopStops(t) \/ CameraDevice(t)
          \/ kind = "quest_camera" /\ PreviewResumes(t)
          \/ kind = "av" /\ (AvRestarted(t) \/ AvRestartFails(t))
CameraFrame ==
  \E t \in Threads :
    \/ kind \in {"uvc", "av"} /\ UvcFrame(t)
    \/ kind = "oak" /\ OakFrame(t)
    \/ kind = "ovision" /\ (OvisionPut(t) \/ OvisionPack(t) \/ OvisionPackEnds(t))
    \/ /\ kind = "depth"
       /\ DepthCounts(t) \/ DepthSkips(t) \/ DepthWrites(t) \/ DepthRaises(t) \/ DepthEmits(t)
    \/ kind = "quest_camera" /\ (SinkTaken(t) \/ SinkMuxes(t) \/ SinkEmits(t))

\* Every step is one of these, with the adapter that Next says.
LEMMA Steps ==
  ASSUME Next
  PROVE  \/ GateStep \/ PollStep \/ PushStep \/ BleStep \/ QuestStep \/ AudioStep \/ OgloStep
         \/ CameraConnection \/ CameraWindow \/ CameraReader \/ CameraFrame
<1>1. CASE Sensor(OpenGate) \/ Sensor(CloseGate)
  BY <1>1 DEF Sensor, GateStep
<1>2. CASE Sensor(SensorCalls) \/ Sensor(SensorOperator)
  BY <1>2 DEF Sensor, SensorCalls, SensorOperator, PollStep, PushStep, BleStep, QuestStep,
     AudioStep, OgloStep
<1>3. ASSUME NEW t \in Threads, Sensor(SensorThread(t)) \/ Sensor(SensorDevice(t))
      PROVE  PollStep \/ PushStep \/ BleStep \/ QuestStep \/ AudioStep \/ OgloStep
  BY <1>3 DEF Sensor, SensorThread, SensorDevice, PollStep, PushStep, BleStep, QuestStep,
     AudioStep, OgloStep
<1>4. CASE CameraCalls \/ CameraOperator \/ AvDelivers
  BY <1>4 DEF CameraConnection, CameraWindow, CameraReader, CameraCalls, CameraOperator,
     AvDelivers, CameraKinds
<1>5. ASSUME NEW t \in Threads, CameraThread(t) \/ CameraDevice(t)
      PROVE  CameraReader \/ CameraFrame
  BY <1>5 DEF CameraReader, CameraFrame, CameraThread, CameraDevice, CameraKinds, CameraLost,
     DeviceReported, PreviewDrops, AvStalls
<1> QED
  BY <1>1, <1>2, <1>3, <1>4, <1>5 DEF Next, Calls, Thread

\* An adapter stays the adapter it is.
LEMMA SameKind == ASSUME [Next]_cameraVars PROVE kind' = kind
<1> USE DEF Window, session, reader, window, vars, camera, cameraVars, Adapter, To,
     Connecting, Emit, Spawn, Goto, End, Fresh, Free, Live, Threads
<1>1. CASE GateStep
  BY <1>1 DEF GateStep, OpenGate, CloseGate
<1>2. CASE PollStep
  BY <1>2 DEF PollStep, PollConnect, PollOpenFails, RaiseStop, PollCalls, Begin, LowerFlag,
     ReadCounters, Join, Joined, PollThread, PollGivesUp, PollRead, Count, LoopEnds,
     ResetCounters
<1>3. CASE PushStep
  BY <1>3 DEF PushStep, PushConnect, PushDisconnect, PushStart, PushStop, Begin, LowerFlag,
     ReadCounters, Count, Push, ResetCounters
<1>4. CASE BleStep
  BY <1>4 DEF BleStep, BleConnect, RaiseStop, BleCalls, BleThread, BleOpenFails, BleStart,
     LowerFlag, ReadCounters, Join, Joined, ThreadDead, BleOpen, BleNotify, EmitCounted,
     BleEnds
<1>5. CASE QuestStep
  BY <1>5 DEF QuestStep, QuestConnect, QuestBindFails, RaiseStop, QuestCalls, QuestThread,
     QuestFlag, QuestReset, LowerFlag, ReadCounters, QuestJoin, Join, Joined, QuestPacket,
     EmitCounted, QuestEnds, Responder
<1>6. CASE AudioStep
  BY <1>6 DEF AudioStep, AudioConnect, AudioConnectFails, AudioDisconnect, AudioCalls,
     AudioThread, AudioLevel, AudioStart, LowerFlag, AudioCloseFile, AudioReport,
     ReadCounters, AudioLooks, AudioWrites, AudioRaises, AudioCounts
<1>7. CASE OgloStep
  BY <1>7 DEF OgloStep, OgloConnect, RaiseStop, OgloCalls, OgloThread, OgloTactile,
     OgloDerived, OgloLinkLost, StartReader, ThreadDead, OgloReady, OgloRefused, OgloRestart,
     OgloRestarted, OgloRestartFails, OgloFiles, OgloArm, OgloSeal, ReadCounters, Join,
     Joined, OgloOpen, OgloFails, OgloFirst, OgloAdopts, OgloGivesUp, OgloEnds, ResetCounters
<1>8. CASE CameraConnection
  BY <1>8 DEF CameraConnection, CameraOperator, CameraConnect, CameraConnectFails,
     CameraRaiseStop, SupBegins, CameraJoin, SupJoins, SupOpens, SupFails, CameraRestart,
     CameraStartFails, OpenCamera, StartCapture, StartPair, Release, AllJoined, Outlives, Dead,
     Restarts, Claimed
<1>9. CASE CameraWindow
  BY <1>9 DEF CameraWindow, CameraArm, SealCamera, LowerCameraFlag, CloseCameraFile,
     CameraReport, Drained, Restarts, Dead
<1>10. CASE CameraReader
  BY <1>10 DEF CameraReader, FrameArrives, LoopStops, CameraDevice, CameraLost, DeviceReported,
     PreviewDrops, PreviewResumes, AvStalls, AvRestarted, AvRestartFails, AvDelivers, StaysAs,
     Claimed
<1>11. CASE CameraFrame
  BY <1>11 DEF CameraFrame, UvcFrame, OakFrame, Raises, OvisionPut, OvisionPack, OvisionPackEnds,
     DepthCounts, DepthSkips, DepthWrites, DepthRaises, DepthEmits, SinkTaken, SinkMuxes,
     SinkEmits, StaysAs, Record, Skip
<1>12. CASE UNCHANGED cameraVars
  BY <1>12
<1> QED
  BY <1>1, <1>2, <1>3, <1>4, <1>5, <1>6, <1>7, <1>8, <1>9, <1>10, <1>11, <1>12, Steps


\* A new thread is one that did not run, and no other thread is touched.
LEMMA Spawned ==
  ASSUME Shape, NEW step, Spawn(step)
  PROVE  /\ own' \in Threads /\ pc[own'] = "none" /\ pc'[own'] = step
         /\ \A t \in Threads : t # own' => pc'[t] = pc[t]
<1>1. Fresh \in Free
  BY DEF Spawn, Fresh
<1>2. Fresh \in Threads /\ pc[Fresh] = "none"
  BY <1>1 DEF Free, Live
<1> QED
  BY <1>2 DEF Spawn, Shape

\* So for a camera's, but for the OVISION's second thread.
LEMMA Captured ==
  ASSUME Shape, StartCapture
  PROVE  /\ own' \in Threads /\ pc[own'] = "none" /\ pc'[own'] = "read" /\ stop' = FALSE
         /\ \A t \in Threads :
              \/ t = own' \/ pc'[t] = pc[t]
              \/ /\ kind = "ovision" /\ pc[t] \in {"none", "pack"}
                 /\ pc'[t] \in {"pack", "left"}
<1>1. CASE kind = "ovision"
  <2>1. Free # {} /\ own' = Fresh /\ stop' = FALSE
    BY <1>1 DEF StartCapture, StartPair
  <2>2. Fresh \in Threads /\ pc[Fresh] = "none"
    BY <2>1 DEF Fresh, Free, Live
  <2>3. PICK w \in Spare :
          pc' = [t \in Threads |-> IF t = Fresh THEN "read" ELSE IF t = w THEN "pack"
                                   ELSE IF pc[t] = "pack" THEN "left" ELSE pc[t]]
    BY <1>1 DEF StartCapture, StartPair
  <2>4. pc'[Fresh] = "read"
    BY <2>2, <2>3
  <2>5. w # Fresh /\ pc[w] \in {"none", "pack"}
    <3>1. CASE Free = {Fresh}
      BY <2>2, <3>1 DEF Spare
    <3>2. CASE Free # {Fresh}
      <4>1. Second \in Free \ {Fresh}
        BY <2>1, <3>2 DEF Second
      <4>2. w = Second
        BY <3>2 DEF Spare
      <4> QED
        BY <4>1, <4>2 DEF Free, Live
    <3> QED
      BY <3>1, <3>2
  <2>6. ASSUME NEW t \in Threads, t # Fresh
        PROVE  \/ pc'[t] = pc[t]
               \/ pc[t] \in {"none", "pack"} /\ pc'[t] \in {"pack", "left"}
    BY <2>3, <2>5, <2>6
  <2> QED
    BY <1>1, <2>1, <2>2, <2>4, <2>6
<1>2. CASE kind # "ovision"
  BY <1>2, Spawned DEF StartCapture
<1> QED
  BY <1>1, <1>2

\* A frame dealt with leaves its thread where it reads, or ended by a write that raised.
LEMMA Framed ==
  ASSUME NEW t \in Threads, UvcFrame(t) \/ OakFrame(t)
  PROVE  /\ pc[t] = "got" /\ UNCHANGED <<kind, phase, own, stop, ready, holds, sup>>
         /\ pc' = [pc EXCEPT ![t] = "read"] \/ pc' = [pc EXCEPT ![t] = "none"]
<1>1. CASE UvcFrame(t)
  BY <1>1 DEF UvcFrame, Raises, Record, Skip, Emit, StaysAs, Goto, session
<1>2. CASE OakFrame(t)
  BY <1>2 DEF OakFrame, Raises, Record, Skip, Emit, StaysAs, Goto, session
<1> QED
  BY <1>1, <1>2

\* Threads stay threads, and devices are held by them or by the adapter.
LEMMA ShapeStep ==
  ASSUME Types, [Next]_cameraVars
  PROVE  Shape'
<1> USE DEF Types, Shape, Numbers, Gated, Window, session, reader, window, vars, camera,
     cameraVars, Adapter, To, Connecting, Emit, Spawn, Goto, End, Fresh, Free, Live, Threads
<1>1. CASE GateStep
  BY <1>1 DEF GateStep, OpenGate, CloseGate
<1>2. CASE PollStep
  BY <1>2 DEF PollStep, PollConnect, PollOpenFails, RaiseStop, PollCalls, Begin, LowerFlag,
     ReadCounters, Join, Joined, PollThread, PollGivesUp, PollRead, Count, LoopEnds,
     ResetCounters
<1>3. CASE PushStep
  BY <1>3 DEF PushStep, PushConnect, PushDisconnect, PushStart, PushStop, Begin, LowerFlag,
     ReadCounters, Count, Push, ResetCounters
<1>4. CASE BleStep
  BY <1>4 DEF BleStep, BleConnect, RaiseStop, BleCalls, BleThread, BleOpenFails, BleStart,
     LowerFlag, ReadCounters, Join, Joined, ThreadDead, BleOpen, BleNotify, EmitCounted,
     BleEnds
<1>5. CASE QuestStep
  BY <1>5 DEF QuestStep, QuestConnect, QuestBindFails, RaiseStop, QuestCalls, QuestThread,
     QuestFlag, QuestReset, LowerFlag, ReadCounters, QuestJoin, Join, Joined, QuestPacket,
     EmitCounted, QuestEnds, Responder
<1>6. CASE AudioStep
  BY <1>6 DEF AudioStep, AudioConnect, AudioConnectFails, AudioDisconnect, AudioCalls,
     AudioThread, AudioLevel, AudioStart, LowerFlag, AudioCloseFile, AudioReport,
     ReadCounters, AudioLooks, AudioWrites, AudioRaises, AudioCounts
<1>7. CASE OgloStep
  BY <1>7 DEF OgloStep, OgloConnect, RaiseStop, OgloCalls, OgloThread, OgloTactile,
     OgloDerived, OgloLinkLost, StartReader, ThreadDead, OgloReady, OgloRefused, OgloRestart,
     OgloRestarted, OgloRestartFails, OgloFiles, OgloArm, OgloSeal, ReadCounters, Join,
     Joined, OgloOpen, OgloFails, OgloFirst, OgloAdopts, OgloGivesUp, OgloEnds, ResetCounters
<1>8. CASE CameraConnection
  BY <1>8 DEF CameraConnection, CameraOperator, CameraConnect, CameraConnectFails,
     CameraRaiseStop, SupBegins, CameraJoin, SupJoins, SupOpens, SupFails, CameraRestart,
     CameraStartFails, OpenCamera, StartCapture, StartPair, Release, AllJoined, Outlives, Dead,
     Restarts, Claimed
<1>9. CASE CameraWindow
  BY <1>9 DEF CameraWindow, CameraArm, SealCamera, LowerCameraFlag, CloseCameraFile,
     CameraReport, Drained, Restarts, Dead
<1>10. CASE CameraReader
  BY <1>10 DEF CameraReader, FrameArrives, LoopStops, CameraDevice, CameraLost, DeviceReported,
     PreviewDrops, PreviewResumes, AvStalls, AvRestarted, AvRestartFails, AvDelivers, StaysAs,
     Claimed
<1>11. CASE CameraFrame
  BY <1>11 DEF CameraFrame, UvcFrame, OakFrame, Raises, OvisionPut, OvisionPack, OvisionPackEnds,
     DepthCounts, DepthSkips, DepthWrites, DepthRaises, DepthEmits, SinkTaken, SinkMuxes,
     SinkEmits, StaysAs, Record, Skip
<1>12. CASE UNCHANGED cameraVars
  BY <1>12
<1> QED
  BY <1>1, <1>2, <1>3, <1>4, <1>5, <1>6, <1>7, <1>8, <1>9, <1>10, <1>11, <1>12, Steps

\* Counters stay numbers.
LEMMA NumbersStep ==
  ASSUME Types, [Next]_cameraVars
  PROVE  Numbers'
<1> USE DEF Types, Shape, Numbers, Gated, Window, session, reader, window, vars, camera,
     cameraVars, Adapter, To, Connecting, Emit, Spawn, Goto, End, Fresh, Free, Live, Threads
<1>1. CASE GateStep
  BY <1>1 DEF GateStep, OpenGate, CloseGate
<1>2. CASE PollStep
  BY <1>2 DEF PollStep, PollConnect, PollOpenFails, RaiseStop, PollCalls, Begin, LowerFlag,
     ReadCounters, Join, Joined, PollThread, PollGivesUp, PollRead, Count, LoopEnds,
     ResetCounters
<1>3. CASE PushStep
  BY <1>3 DEF PushStep, PushConnect, PushDisconnect, PushStart, PushStop, Begin, LowerFlag,
     ReadCounters, Count, Push, ResetCounters
<1>4. CASE BleStep
  BY <1>4 DEF BleStep, BleConnect, RaiseStop, BleCalls, BleThread, BleOpenFails, BleStart,
     LowerFlag, ReadCounters, Join, Joined, ThreadDead, BleOpen, BleNotify, EmitCounted,
     BleEnds
<1>5. CASE QuestStep
  BY <1>5 DEF QuestStep, QuestConnect, QuestBindFails, RaiseStop, QuestCalls, QuestThread,
     QuestFlag, QuestReset, LowerFlag, ReadCounters, QuestJoin, Join, Joined, QuestPacket,
     EmitCounted, QuestEnds, Responder
<1>6. CASE AudioStep
  BY <1>6 DEF AudioStep, AudioConnect, AudioConnectFails, AudioDisconnect, AudioCalls,
     AudioThread, AudioLevel, AudioStart, LowerFlag, AudioCloseFile, AudioReport,
     ReadCounters, AudioLooks, AudioWrites, AudioRaises, AudioCounts
<1>7. CASE OgloStep
  BY <1>7 DEF OgloStep, OgloConnect, RaiseStop, OgloCalls, OgloThread, OgloTactile,
     OgloDerived, OgloLinkLost, StartReader, ThreadDead, OgloReady, OgloRefused, OgloRestart,
     OgloRestarted, OgloRestartFails, OgloFiles, OgloArm, OgloSeal, ReadCounters, Join,
     Joined, OgloOpen, OgloFails, OgloFirst, OgloAdopts, OgloGivesUp, OgloEnds, ResetCounters
<1>8. CASE CameraConnection
  BY <1>8 DEF CameraConnection, CameraOperator, CameraConnect, CameraConnectFails,
     CameraRaiseStop, SupBegins, CameraJoin, SupJoins, SupOpens, SupFails, CameraRestart,
     CameraStartFails, OpenCamera, StartCapture, StartPair, Release, AllJoined, Outlives, Dead,
     Restarts, Claimed
<1>9. CASE CameraWindow
  BY <1>9 DEF CameraWindow, CameraArm, SealCamera, LowerCameraFlag, CloseCameraFile,
     CameraReport, Drained, Restarts, Dead
<1>10. CASE CameraReader
  BY <1>10 DEF CameraReader, FrameArrives, LoopStops, CameraDevice, CameraLost, DeviceReported,
     PreviewDrops, PreviewResumes, AvStalls, AvRestarted, AvRestartFails, AvDelivers, StaysAs,
     Claimed
<1>11. CASE CameraFrame
  <2>1. ASSUME NEW t \in Threads, UvcFrame(t) PROVE Numbers'
    BY <2>1 DEF UvcFrame, Raises, Record, Skip, StaysAs
  <2>2. ASSUME NEW t \in Threads, OakFrame(t) PROVE Numbers'
    BY <2>2 DEF OakFrame, Raises, Record, Skip, StaysAs
  <2>3. ASSUME NEW t \in Threads, OvisionPut(t) \/ OvisionPack(t) \/ OvisionPackEnds(t)
        PROVE  Numbers'
    BY <2>3 DEF OvisionPut, OvisionPack, OvisionPackEnds, Record, Skip, StaysAs
  <2>4. ASSUME NEW t \in Threads,
               DepthCounts(t) \/ DepthSkips(t) \/ DepthWrites(t) \/ DepthRaises(t) \/ DepthEmits(t)
        PROVE  Numbers'
    BY <2>4 DEF DepthCounts, DepthSkips, DepthWrites, DepthRaises, DepthEmits, StaysAs
  <2>5. ASSUME NEW t \in Threads, SinkTaken(t) \/ SinkMuxes(t) \/ SinkEmits(t)
        PROVE  Numbers'
    BY <2>5 DEF SinkTaken, SinkMuxes, SinkEmits, StaysAs
  <2> QED
    BY <1>11, <2>1, <2>2, <2>3, <2>4, <2>5 DEF CameraFrame
<1>12. CASE UNCHANGED cameraVars
  BY <1>12
<1> QED
  BY <1>1, <1>2, <1>3, <1>4, <1>5, <1>6, <1>7, <1>8, <1>9, <1>10, <1>11, <1>12, Steps

\* The sample writer is open in the phases of a recording.
LEMMA GatedStep ==
  ASSUME Types, [Next]_cameraVars
  PROVE  Gated'
<1> USE DEF Types, Shape, Numbers, Gated, Window, session, reader, window, vars, camera,
     cameraVars, Adapter, To, Connecting, Emit, Spawn, Goto, End, Fresh, Free, Live, Threads
<1>1. CASE GateStep
  BY <1>1 DEF GateStep, OpenGate, CloseGate
<1>2. CASE PollStep
  BY <1>2 DEF PollStep, PollConnect, PollOpenFails, RaiseStop, PollCalls, Begin, LowerFlag,
     ReadCounters, Join, Joined, PollThread, PollGivesUp, PollRead, Count, LoopEnds,
     ResetCounters
<1>3. CASE PushStep
  BY <1>3 DEF PushStep, PushConnect, PushDisconnect, PushStart, PushStop, Begin, LowerFlag,
     ReadCounters, Count, Push, ResetCounters
<1>4. CASE BleStep
  BY <1>4 DEF BleStep, BleConnect, RaiseStop, BleCalls, BleThread, BleOpenFails, BleStart,
     LowerFlag, ReadCounters, Join, Joined, ThreadDead, BleOpen, BleNotify, EmitCounted,
     BleEnds
<1>5. CASE QuestStep
  BY <1>5 DEF QuestStep, QuestConnect, QuestBindFails, RaiseStop, QuestCalls, QuestThread,
     QuestFlag, QuestReset, LowerFlag, ReadCounters, QuestJoin, Join, Joined, QuestPacket,
     EmitCounted, QuestEnds, Responder
<1>6. CASE AudioStep
  BY <1>6 DEF AudioStep, AudioConnect, AudioConnectFails, AudioDisconnect, AudioCalls,
     AudioThread, AudioLevel, AudioStart, LowerFlag, AudioCloseFile, AudioReport,
     ReadCounters, AudioLooks, AudioWrites, AudioRaises, AudioCounts
<1>7. CASE OgloStep
  BY <1>7 DEF OgloStep, OgloConnect, RaiseStop, OgloCalls, OgloThread, OgloTactile,
     OgloDerived, OgloLinkLost, StartReader, ThreadDead, OgloReady, OgloRefused, OgloRestart,
     OgloRestarted, OgloRestartFails, OgloFiles, OgloArm, OgloSeal, ReadCounters, Join,
     Joined, OgloOpen, OgloFails, OgloFirst, OgloAdopts, OgloGivesUp, OgloEnds, ResetCounters
<1>8. CASE CameraConnection
  BY <1>8 DEF CameraConnection, CameraOperator, CameraConnect, CameraConnectFails,
     CameraRaiseStop, SupBegins, CameraJoin, SupJoins, SupOpens, SupFails, CameraRestart,
     CameraStartFails, OpenCamera, StartCapture, StartPair, Release, AllJoined, Outlives, Dead,
     Restarts, Claimed
<1>9. CASE CameraWindow
  BY <1>9 DEF CameraWindow, CameraArm, SealCamera, LowerCameraFlag, CloseCameraFile,
     CameraReport, Drained, Restarts, Dead
<1>10. CASE CameraReader
  BY <1>10 DEF CameraReader, FrameArrives, LoopStops, CameraDevice, CameraLost, DeviceReported,
     PreviewDrops, PreviewResumes, AvStalls, AvRestarted, AvRestartFails, AvDelivers, StaysAs,
     Claimed
<1>11. CASE CameraFrame
  <2>1. ASSUME NEW t \in Threads, UvcFrame(t) PROVE Gated'
    BY <2>1 DEF UvcFrame, Raises, Record, Skip, StaysAs
  <2>2. ASSUME NEW t \in Threads, OakFrame(t) PROVE Gated'
    BY <2>2 DEF OakFrame, Raises, Record, Skip, StaysAs
  <2>3. ASSUME NEW t \in Threads, OvisionPut(t) \/ OvisionPack(t) \/ OvisionPackEnds(t)
        PROVE  Gated'
    BY <2>3 DEF OvisionPut, OvisionPack, OvisionPackEnds, Record, Skip, StaysAs
  <2>4. ASSUME NEW t \in Threads,
               DepthCounts(t) \/ DepthSkips(t) \/ DepthWrites(t) \/ DepthRaises(t) \/ DepthEmits(t)
        PROVE  Gated'
    BY <2>4 DEF DepthCounts, DepthSkips, DepthWrites, DepthRaises, DepthEmits, StaysAs
  <2>5. ASSUME NEW t \in Threads, SinkTaken(t) \/ SinkMuxes(t) \/ SinkEmits(t)
        PROVE  Gated'
    BY <2>5 DEF SinkTaken, SinkMuxes, SinkEmits, StaysAs
  <2> QED
    BY <1>11, <2>1, <2>2, <2>3, <2>4, <2>5 DEF CameraFrame
<1>12. CASE UNCHANGED cameraVars
  BY <1>12
<1> QED
  BY <1>1, <1>2, <1>3, <1>4, <1>5, <1>6, <1>7, <1>8, <1>9, <1>10, <1>11, <1>12, Steps

\* A device is read by the thread its adapter refers to.
LEMMA OwnedStep ==
  ASSUME Types, Owned, [Next]_cameraVars
  PROVE  Owned'
<1> USE DEF Types, Shape, Owners, Owned, Own, Off, Refused, Restarting, Supervised, Reads,
     Joining, May, CameraKinds, Window, session, reader, window, vars, camera, cameraVars,
     Adapter, To, Connecting, Emit, Spawn, Goto, End, Fresh, Free, Live, Threads
<1>1. CASE GateStep
  BY <1>1 DEF GateStep, OpenGate, CloseGate
<1>2. CASE PollStep
  BY <1>2 DEF PollStep, PollConnect, PollOpenFails, RaiseStop, PollCalls, Begin, LowerFlag,
     ReadCounters, Join, Joined, PollThread, PollGivesUp, PollRead, Count, LoopEnds,
     ResetCounters
<1>3. CASE PushStep
  BY <1>3 DEF PushStep, PushConnect, PushDisconnect, PushStart, PushStop, Begin, LowerFlag,
     ReadCounters, Count, Push, ResetCounters
<1>4. CASE BleStep
  <2>1. kind = "ble" /\ UNCHANGED camera
    BY <1>4 DEF BleStep
  <2>2. CASE BleConnect
    BY <2>1, <2>2 DEF BleConnect
  <2>3. CASE RaiseStop
    BY <2>1, <2>3 DEF RaiseStop
  <2>4. CASE BleStart
    <3>1. CASE ThreadDead /\ Spawn("open")
      <4>1. own' \in Threads /\ \A t \in Threads : t # own' => pc'[t] = pc[t]
        BY <3>1, Spawned
      <4> QED
        BY <2>1, <2>4, <3>1, <4>1 DEF BleStart, ThreadDead
    <3>2. CASE UNCHANGED <<pc, own>>
      BY <2>1, <2>4, <3>2 DEF BleStart
    <3> QED
      BY <2>1, <2>4, <3>1, <3>2 DEF BleStart
  <2>5. CASE LowerFlag
    BY <2>1, <2>5 DEF LowerFlag
  <2>6. CASE ReadCounters
    BY <2>1, <2>6 DEF ReadCounters
  <2>7. CASE Join
    BY <2>1, <2>7 DEF Join, Joined
  <2>8. ASSUME NEW t \in Threads, BleOpen(t) PROVE Owned'
    BY <2>1, <2>8 DEF BleOpen
  <2>9. ASSUME NEW t \in Threads, BleOpenFails(t) PROVE Owned'
    BY <2>1, <2>9 DEF BleOpenFails
  <2>10. ASSUME NEW t \in Threads, BleNotify(t) PROVE Owned'
    BY <2>1, <2>10 DEF BleNotify
  <2>11. ASSUME NEW t \in Threads, EmitCounted(t) PROVE Owned'
    BY <2>1, <2>11 DEF EmitCounted
  <2>12. ASSUME NEW t \in Threads, BleEnds(t) PROVE Owned'
    BY <2>1, <2>12 DEF BleEnds
  <2> QED
    BY <1>4, <2>2, <2>3, <2>4, <2>5, <2>6, <2>7, <2>8, <2>9, <2>10, <2>11, <2>12 DEF BleStep,
       BleCalls, BleThread
<1>5. CASE QuestStep
  <2>1. kind = "quest" /\ UNCHANGED camera
    BY <1>5 DEF QuestStep
  <2>2. CASE QuestConnect
    BY <2>1, <2>2 DEF QuestConnect, Responder
  <2>3. CASE QuestBindFails \/ RaiseStop \/ QuestFlag \/ QuestReset \/ LowerFlag \/ ReadCounters
    BY <2>1, <2>3 DEF QuestBindFails, RaiseStop, QuestFlag, QuestReset, LowerFlag, ReadCounters
  <2>4. CASE QuestJoin
    BY <2>1, <2>4 DEF QuestJoin, Join, Joined, Responder
  <2>5. ASSUME NEW t \in Threads, QuestThread(t) PROVE Owned'
    BY <2>1, <2>5 DEF QuestThread, QuestPacket, EmitCounted, QuestEnds
  <2> QED
    BY <1>5, <2>2, <2>3, <2>4, <2>5 DEF QuestStep, QuestCalls
<1>6. CASE AudioStep
  <2>1. kind = "audio" /\ UNCHANGED camera
    BY <1>6 DEF AudioStep
  <2>2. CASE AudioConnect
    BY <2>1, <2>2 DEF AudioConnect
  <2>3. CASE AudioConnectFails
    BY <2>1, <2>3 DEF AudioConnectFails
  <2>4. CASE AudioDisconnect
    BY <2>1, <2>4 DEF AudioDisconnect
  <2>5. CASE AudioStart
    BY <2>1, <2>5 DEF AudioStart
  <2>6. CASE LowerFlag
    BY <2>1, <2>6 DEF LowerFlag
  <2>7. CASE AudioCloseFile
    BY <2>1, <2>7 DEF AudioCloseFile
  <2>8. CASE AudioReport
    BY <2>1, <2>8 DEF AudioReport, ReadCounters
  <2>9. ASSUME NEW t \in Threads, AudioLooks(t) PROVE Owned'
    BY <2>1, <2>9 DEF AudioLooks
  <2>10. ASSUME NEW t \in Threads, AudioWrites(t) PROVE Owned'
    BY <2>1, <2>10 DEF AudioWrites
  <2>11. ASSUME NEW t \in Threads, AudioRaises(t) PROVE Owned'
    BY <2>1, <2>11 DEF AudioRaises
  <2>12. ASSUME NEW t \in Threads, AudioCounts(t) PROVE Owned'
    BY <2>1, <2>12 DEF AudioCounts
  <2>13. ASSUME NEW t \in Threads, AudioLevel(t) PROVE Owned'
    BY <2>1, <2>13 DEF AudioLevel
  <2> QED
    BY <1>6, <2>2, <2>3, <2>4, <2>5, <2>6, <2>7, <2>8, <2>9, <2>10, <2>11, <2>12, <2>13 DEF
       AudioStep, AudioCalls, AudioThread
<1>7. CASE OgloStep
  <2>1. kind = "oglo" /\ UNCHANGED camera
    BY <1>7 DEF OgloStep
  <2>2. CASE OgloConnect
    BY <2>1, <2>2 DEF OgloConnect, StartReader, ThreadDead
  <2>3. CASE RaiseStop
    BY <2>1, <2>3 DEF RaiseStop
  <2>4. CASE OgloReady
    BY <2>1, <2>4 DEF OgloReady
  <2>5. CASE OgloRefused
    BY <2>1, <2>5 DEF OgloRefused
  <2>6. CASE OgloRestart
    BY <2>1, <2>6 DEF OgloRestart, StartReader, ThreadDead
  <2>7. CASE OgloRestarted
    BY <2>1, <2>7 DEF OgloRestarted
  <2>8. CASE OgloRestartFails
    BY <2>1, <2>8 DEF OgloRestartFails
  <2>9. CASE OgloFiles
    BY <2>1, <2>9 DEF OgloFiles, ResetCounters
  <2>10. CASE OgloArm
    BY <2>1, <2>10 DEF OgloArm
  <2>11. CASE OgloSeal
    BY <2>1, <2>11 DEF OgloSeal
  <2>12. CASE ReadCounters
    BY <2>1, <2>12 DEF ReadCounters
  <2>13. CASE Join
    BY <2>1, <2>13 DEF Join, Joined
  <2>14. ASSUME NEW t \in Threads, OgloOpen(t) PROVE Owned'
    BY <2>1, <2>14 DEF OgloOpen
  <2>15. ASSUME NEW t \in Threads, OgloFails(t) PROVE Owned'
    BY <2>1, <2>15 DEF OgloFails
  <2>16. ASSUME NEW t \in Threads, OgloFirst(t) PROVE Owned'
    BY <2>1, <2>16 DEF OgloFirst
  <2>17. ASSUME NEW t \in Threads, OgloTactile(t) PROVE Owned'
    BY <2>1, <2>17 DEF OgloTactile
  <2>18. ASSUME NEW t \in Threads, OgloDerived(t) PROVE Owned'
    BY <2>1, <2>18 DEF OgloDerived
  <2>19. ASSUME NEW t \in Threads, OgloLinkLost(t) PROVE Owned'
    BY <2>1, <2>19 DEF OgloLinkLost
  <2>20. ASSUME NEW t \in Threads, OgloAdopts(t) PROVE Owned'
    BY <2>1, <2>20 DEF OgloAdopts
  <2>21. ASSUME NEW t \in Threads, OgloGivesUp(t) PROVE Owned'
    BY <2>1, <2>21 DEF OgloGivesUp
  <2>22. ASSUME NEW t \in Threads, OgloEnds(t) PROVE Owned'
    BY <2>1, <2>22 DEF OgloEnds
  <2> QED
    BY <1>7, <2>2, <2>3, <2>4, <2>5, <2>6, <2>7, <2>8, <2>9, <2>10, <2>11, <2>12, <2>13, <2>14,
       <2>15, <2>16, <2>17, <2>18, <2>19, <2>20, <2>21, <2>22 DEF OgloStep, OgloCalls,
       OgloThread
<1>8. CASE CameraConnection
  <2>1. kind \in CameraKinds
    BY <1>8 DEF CameraConnection
  <2>2. CASE CameraConnect
    <3>1. own' \in Threads /\ \A t \in Threads : t # own' => pc'[t] \in {pc[t], "pack", "left"}
      BY <2>1, <2>2, Captured DEF CameraConnect, OpenCamera
    <3>2. Own'
      BY <2>1, <2>2, <3>1 DEF CameraConnect, OpenCamera, StartCapture
    <3> QED
      BY <2>1, <2>2, <3>1, <3>2, Captured DEF CameraConnect, OpenCamera
  <2>3. CASE CameraConnectFails
    BY <2>1, <2>3 DEF CameraConnectFails
  <2>4. CASE CameraRaiseStop
    BY <2>1, <2>4 DEF CameraRaiseStop
  <2>5. CASE SupBegins
    BY <2>1, <2>5 DEF SupBegins
  <2>6. CASE CameraJoin
    BY <2>1, <2>6 DEF CameraJoin, Release, AllJoined, Outlives
  <2>7. CASE SupJoins
    BY <2>1, <2>7 DEF SupJoins, Release, AllJoined, Outlives
  <2>8. CASE SupOpens
    <3>1. CASE UNCHANGED reader
      BY <2>1, <2>8, <3>1 DEF SupOpens
    <3>2. CASE OpenCamera /\ Dead
      <4>1. own' \in Threads /\ \A t \in Threads : t # own' => pc'[t] \in {pc[t], "pack", "left"}
        BY <3>2, Captured DEF OpenCamera
      <4>2. Own'
        BY <2>1, <2>8, <3>2, <4>1 DEF SupOpens, Dead
      <4> QED
        BY <2>1, <2>8, <3>2, <4>1, <4>2, Captured DEF SupOpens, OpenCamera, Dead
    <3> QED
      BY <2>1, <2>8, <3>1, <3>2 DEF SupOpens
  <2>9. CASE SupFails
    BY <2>1, <2>9 DEF SupFails
  <2>10. CASE CameraRestart
    <3>1. own' \in Threads /\ \A t \in Threads : t # own' => pc'[t] \in {pc[t], "pack", "left"}
      BY <2>1, <2>10, Captured DEF CameraRestart, OpenCamera
    <3>2. Own'
      BY <2>1, <2>10, <3>1 DEF CameraRestart, OpenCamera, StartCapture, Restarts, Dead
    <3> QED
      BY <2>1, <2>10, <3>1, <3>2, Captured DEF CameraRestart, OpenCamera, Restarts, Dead
  <2>11. CASE CameraStartFails
    BY <2>1, <2>11 DEF CameraStartFails
  <2> QED
    BY <1>8, <2>2, <2>3, <2>4, <2>5, <2>6, <2>7, <2>8, <2>9, <2>10, <2>11 DEF CameraConnection,
       CameraOperator
<1>9. CASE CameraWindow
  BY <1>9 DEF CameraWindow, CameraArm, SealCamera, LowerCameraFlag, CloseCameraFile,
     CameraReport, Drained, Restarts, Dead
<1>10. CASE CameraReader
  <2>1. kind \in CameraKinds
    BY <1>10 DEF CameraReader
  <2>2. CASE AvDelivers
    BY <2>1, <2>2 DEF AvDelivers
  <2>3. ASSUME NEW t \in Threads, FrameArrives(t) PROVE Owned'
    BY <2>1, <2>3 DEF FrameArrives, StaysAs
  <2>4. ASSUME NEW t \in Threads, LoopStops(t) PROVE Owned'
    BY <2>1, <2>4 DEF LoopStops, StaysAs
  <2>5. ASSUME NEW t \in Threads, CameraLost(t) PROVE Owned'
    BY <2>1, <2>5 DEF CameraLost, StaysAs
  <2>6. ASSUME NEW t \in Threads, PreviewDrops(t) PROVE Owned'
    BY <2>1, <2>6 DEF PreviewDrops, StaysAs
  <2>7. ASSUME NEW t \in Threads, kind = "quest_camera" /\ PreviewResumes(t) PROVE Owned'
    BY <2>1, <2>7 DEF PreviewResumes, StaysAs
  <2>8. ASSUME NEW t \in Threads, AvStalls(t) PROVE Owned'
    BY <2>1, <2>8 DEF AvStalls, StaysAs
  <2>9. ASSUME NEW t \in Threads, kind = "av" /\ AvRestarted(t) PROVE Owned'
    BY <2>1, <2>9 DEF AvRestarted, Claimed, StaysAs
  <2>10. ASSUME NEW t \in Threads, kind = "av" /\ AvRestartFails(t) PROVE Owned'
    BY <2>1, <2>10 DEF AvRestartFails, StaysAs
  <2>11. ASSUME NEW t \in Threads, DeviceReported(t) PROVE Owned'
    BY <2>1, <2>11 DEF DeviceReported
  <2> QED
    BY <1>10, <2>2, <2>3, <2>4, <2>5, <2>6, <2>7, <2>8, <2>9, <2>10, <2>11 DEF CameraReader,
       CameraDevice
<1>11. CASE CameraFrame
  <2>1. ASSUME NEW t \in Threads, kind \in {"uvc", "av"} /\ UvcFrame(t) PROVE Owned'
    BY <2>1 DEF UvcFrame, Raises, Record, Skip, StaysAs
  <2>2. ASSUME NEW t \in Threads, kind = "oak" /\ OakFrame(t) PROVE Owned'
    BY <2>2 DEF OakFrame, Raises, Record, Skip, StaysAs
  <2>3. ASSUME NEW t \in Threads, kind = "ovision" /\ OvisionPut(t) PROVE Owned'
    BY <2>3 DEF OvisionPut, StaysAs
  <2>4. ASSUME NEW t \in Threads, kind = "ovision" /\ OvisionPack(t) PROVE Owned'
    BY <2>4 DEF OvisionPack, Record, Skip, StaysAs
  <2>5. ASSUME NEW t \in Threads, kind = "ovision" /\ OvisionPackEnds(t) PROVE Owned'
    BY <2>5 DEF OvisionPackEnds, StaysAs
  <2>6. ASSUME NEW t \in Threads, kind = "depth" /\ DepthCounts(t) PROVE Owned'
    BY <2>6 DEF DepthCounts, StaysAs
  <2>7. ASSUME NEW t \in Threads, kind = "depth" /\ DepthSkips(t) PROVE Owned'
    BY <2>7 DEF DepthSkips, StaysAs
  <2>8. ASSUME NEW t \in Threads, kind = "depth" /\ DepthWrites(t) PROVE Owned'
    BY <2>8 DEF DepthWrites, StaysAs
  <2>9. ASSUME NEW t \in Threads, kind = "depth" /\ DepthRaises(t) PROVE Owned'
    BY <2>9 DEF DepthRaises, StaysAs
  <2>10. ASSUME NEW t \in Threads, kind = "depth" /\ DepthEmits(t) PROVE Owned'
    BY <2>10 DEF DepthEmits, StaysAs
  <2>11. ASSUME NEW t \in Threads, kind = "quest_camera" /\ SinkTaken(t) PROVE Owned'
    BY <2>11 DEF SinkTaken, StaysAs
  <2>12. ASSUME NEW t \in Threads, kind = "quest_camera" /\ SinkMuxes(t) PROVE Owned'
    BY <2>12 DEF SinkMuxes, StaysAs
  <2>13. ASSUME NEW t \in Threads, kind = "quest_camera" /\ SinkEmits(t) PROVE Owned'
    BY <2>13 DEF SinkEmits, StaysAs
  <2> QED
    BY <1>11, <2>1, <2>2, <2>3, <2>4, <2>5, <2>6, <2>7, <2>8, <2>9, <2>10, <2>11, <2>12, <2>13
       DEF CameraFrame
<1>12. CASE UNCHANGED cameraVars
  BY <1>12
<1> QED
  BY <1>1, <1>2, <1>3, <1>4, <1>5, <1>6, <1>7, <1>8, <1>9, <1>10, <1>11, <1>12, Steps

\* What is open is held by who reads it.
LEMMA HeldStep ==
  ASSUME Types, Owners, [Next]_cameraVars
  PROVE  Held'
<1> USE DEF Types, Shape, Owners, Owned, Own, Off, Refused, Restarting, Supervised, Reads,
     Joining, May, CameraKinds, Held, Releasing, Window, session, reader, window, vars,
     camera, cameraVars, Adapter, To, Connecting, Emit, Spawn, Goto, End, Fresh, Free, Live,
     Threads
<1>1. CASE GateStep
  BY <1>1 DEF GateStep, OpenGate, CloseGate
<1>2. CASE PollStep
  <2>1. kind = "poll" /\ UNCHANGED camera
    BY <1>2 DEF PollStep
  <2>2. CASE PollConnect
    BY <2>1, <2>2 DEF PollConnect
  <2>3. CASE PollOpenFails
    BY <2>1, <2>3 DEF PollOpenFails
  <2>4. CASE RaiseStop
    BY <2>1, <2>4 DEF RaiseStop
  <2>5. CASE Begin
    BY <2>1, <2>5 DEF Begin, ResetCounters
  <2>6. CASE LowerFlag
    BY <2>1, <2>6 DEF LowerFlag
  <2>7. CASE ReadCounters
    BY <2>1, <2>7 DEF ReadCounters
  <2>8. CASE Join
    BY <2>1, <2>8 DEF Join, Joined
  <2>9. ASSUME NEW t \in Threads, PollRead(t) PROVE Held'
    BY <2>1, <2>9 DEF PollRead
  <2>10. ASSUME NEW t \in Threads, Count(t, "read") PROVE Held'
    BY <2>1, <2>10 DEF Count
  <2>11. ASSUME NEW t \in Threads, LoopEnds(t) PROVE Held'
    BY <2>1, <2>11 DEF LoopEnds
  <2>12. ASSUME NEW t \in Threads, PollGivesUp(t) PROVE Held'
    BY <2>1, <2>12 DEF PollGivesUp
  <2> QED
    BY <1>2, <2>2, <2>3, <2>4, <2>5, <2>6, <2>7, <2>8, <2>9, <2>10, <2>11, <2>12 DEF PollStep,
       PollCalls, PollThread
<1>3. CASE PushStep
  BY <1>3 DEF PushStep, PushConnect, PushDisconnect, PushStart, PushStop, Begin, LowerFlag,
     ReadCounters, Count, Push, ResetCounters
<1>4. CASE BleStep
  <2>1. kind = "ble" /\ UNCHANGED camera
    BY <1>4 DEF BleStep
  <2>2. CASE BleConnect
    BY <2>1, <2>2 DEF BleConnect
  <2>3. CASE RaiseStop
    BY <2>1, <2>3 DEF RaiseStop
  <2>4. CASE BleStart
    BY <2>1, <2>4 DEF BleStart, ThreadDead
  <2>5. CASE LowerFlag
    BY <2>1, <2>5 DEF LowerFlag
  <2>6. CASE ReadCounters
    BY <2>1, <2>6 DEF ReadCounters
  <2>7. CASE Join
    BY <2>1, <2>7 DEF Join, Joined
  <2>8. ASSUME NEW t \in Threads, BleOpen(t) PROVE Held'
    BY <2>1, <2>8 DEF BleOpen
  <2>9. ASSUME NEW t \in Threads, BleOpenFails(t) PROVE Held'
    BY <2>1, <2>9 DEF BleOpenFails
  <2>10. ASSUME NEW t \in Threads, BleNotify(t) PROVE Held'
    BY <2>1, <2>10 DEF BleNotify
  <2>11. ASSUME NEW t \in Threads, EmitCounted(t) PROVE Held'
    BY <2>1, <2>11 DEF EmitCounted
  <2>12. ASSUME NEW t \in Threads, BleEnds(t) PROVE Held'
    BY <2>1, <2>12 DEF BleEnds
  <2> QED
    BY <1>4, <2>2, <2>3, <2>4, <2>5, <2>6, <2>7, <2>8, <2>9, <2>10, <2>11, <2>12 DEF BleStep,
       BleCalls, BleThread
<1>5. CASE QuestStep
  <2>1. kind = "quest" /\ UNCHANGED camera
    BY <1>5 DEF QuestStep
  <2>2. CASE QuestConnect
    BY <2>1, <2>2 DEF QuestConnect, Responder
  <2>3. CASE QuestBindFails
    BY <2>1, <2>3 DEF QuestBindFails
  <2>4. CASE RaiseStop
    BY <2>1, <2>4 DEF RaiseStop
  <2>5. CASE QuestFlag
    BY <2>1, <2>5 DEF QuestFlag
  <2>6. CASE QuestReset
    BY <2>1, <2>6 DEF QuestReset
  <2>7. CASE LowerFlag
    BY <2>1, <2>7 DEF LowerFlag
  <2>8. CASE ReadCounters
    BY <2>1, <2>8 DEF ReadCounters
  <2>9. CASE QuestJoin
    BY <2>1, <2>9 DEF QuestJoin, Join, Joined, Responder
  <2>10. ASSUME NEW t \in Threads, QuestPacket(t) PROVE Held'
    BY <2>1, <2>10 DEF QuestPacket
  <2>11. ASSUME NEW t \in Threads, EmitCounted(t) PROVE Held'
    BY <2>1, <2>11 DEF EmitCounted
  <2>12. ASSUME NEW t \in Threads, QuestEnds(t) PROVE Held'
    BY <2>1, <2>12 DEF QuestEnds
  <2> QED
    BY <1>5, <2>2, <2>3, <2>4, <2>5, <2>6, <2>7, <2>8, <2>9, <2>10, <2>11, <2>12 DEF QuestStep,
       QuestCalls, QuestThread
<1>6. CASE AudioStep
  <2>1. kind = "audio" /\ UNCHANGED camera
    BY <1>6 DEF AudioStep
  <2>2. CASE AudioConnect
    BY <2>1, <2>2 DEF AudioConnect
  <2>3. CASE AudioConnectFails
    BY <2>1, <2>3 DEF AudioConnectFails
  <2>4. CASE AudioDisconnect
    BY <2>1, <2>4 DEF AudioDisconnect
  <2>5. CASE AudioStart
    BY <2>1, <2>5 DEF AudioStart
  <2>6. CASE LowerFlag
    BY <2>1, <2>6 DEF LowerFlag
  <2>7. CASE AudioCloseFile
    BY <2>1, <2>7 DEF AudioCloseFile
  <2>8. CASE AudioReport
    BY <2>1, <2>8 DEF AudioReport, ReadCounters
  <2>9. ASSUME NEW t \in Threads, AudioLooks(t) PROVE Held'
    BY <2>1, <2>9 DEF AudioLooks
  <2>10. ASSUME NEW t \in Threads, AudioWrites(t) PROVE Held'
    BY <2>1, <2>10 DEF AudioWrites
  <2>11. ASSUME NEW t \in Threads, AudioRaises(t) PROVE Held'
    BY <2>1, <2>11 DEF AudioRaises
  <2>12. ASSUME NEW t \in Threads, AudioCounts(t) PROVE Held'
    BY <2>1, <2>12 DEF AudioCounts
  <2>13. ASSUME NEW t \in Threads, AudioLevel(t) PROVE Held'
    BY <2>1, <2>13 DEF AudioLevel
  <2> QED
    BY <1>6, <2>2, <2>3, <2>4, <2>5, <2>6, <2>7, <2>8, <2>9, <2>10, <2>11, <2>12, <2>13 DEF
       AudioStep, AudioCalls, AudioThread
<1>7. CASE OgloStep
  <2>1. kind = "oglo" /\ UNCHANGED camera
    BY <1>7 DEF OgloStep
  <2>2. CASE OgloConnect
    BY <2>1, <2>2 DEF OgloConnect, StartReader, ThreadDead
  <2>3. CASE RaiseStop
    BY <2>1, <2>3 DEF RaiseStop
  <2>4. CASE OgloReady
    BY <2>1, <2>4 DEF OgloReady
  <2>5. CASE OgloRefused
    BY <2>1, <2>5 DEF OgloRefused
  <2>6. CASE OgloRestart
    BY <2>1, <2>6 DEF OgloRestart, StartReader, ThreadDead
  <2>7. CASE OgloRestarted
    BY <2>1, <2>7 DEF OgloRestarted
  <2>8. CASE OgloRestartFails
    BY <2>1, <2>8 DEF OgloRestartFails
  <2>9. CASE OgloFiles
    BY <2>1, <2>9 DEF OgloFiles, ResetCounters
  <2>10. CASE OgloArm
    BY <2>1, <2>10 DEF OgloArm
  <2>11. CASE OgloSeal
    BY <2>1, <2>11 DEF OgloSeal
  <2>12. CASE ReadCounters
    BY <2>1, <2>12 DEF ReadCounters
  <2>13. CASE Join
    BY <2>1, <2>13 DEF Join, Joined
  <2>14. ASSUME NEW t \in Threads, OgloOpen(t) PROVE Held'
    BY <2>1, <2>14 DEF OgloOpen
  <2>15. ASSUME NEW t \in Threads, OgloFails(t) PROVE Held'
    BY <2>1, <2>15 DEF OgloFails
  <2>16. ASSUME NEW t \in Threads, OgloFirst(t) PROVE Held'
    BY <2>1, <2>16 DEF OgloFirst
  <2>17. ASSUME NEW t \in Threads, OgloTactile(t) PROVE Held'
    BY <2>1, <2>17 DEF OgloTactile
  <2>18. ASSUME NEW t \in Threads, OgloDerived(t) PROVE Held'
    BY <2>1, <2>18 DEF OgloDerived
  <2>19. ASSUME NEW t \in Threads, OgloLinkLost(t) PROVE Held'
    BY <2>1, <2>19 DEF OgloLinkLost
  <2>20. ASSUME NEW t \in Threads, OgloAdopts(t) PROVE Held'
    BY <2>1, <2>20 DEF OgloAdopts
  <2>21. ASSUME NEW t \in Threads, OgloGivesUp(t) PROVE Held'
    BY <2>1, <2>21 DEF OgloGivesUp
  <2>22. ASSUME NEW t \in Threads, OgloEnds(t) PROVE Held'
    BY <2>1, <2>22 DEF OgloEnds
  <2> QED
    BY <1>7, <2>2, <2>3, <2>4, <2>5, <2>6, <2>7, <2>8, <2>9, <2>10, <2>11, <2>12, <2>13, <2>14,
       <2>15, <2>16, <2>17, <2>18, <2>19, <2>20, <2>21, <2>22 DEF OgloStep, OgloCalls,
       OgloThread
<1>8. CASE CameraConnection
  <2>1. kind \in CameraKinds
    BY <1>8 DEF CameraConnection
  <2>2. CASE CameraConnect
    BY <2>1, <2>2 DEF CameraConnect, OpenCamera, StartCapture, Claimed
  <2>3. CASE CameraConnectFails
    BY <2>1, <2>3 DEF CameraConnectFails, Claimed
  <2>4. CASE CameraRaiseStop
    BY <2>1, <2>4 DEF CameraRaiseStop
  <2>5. CASE SupBegins
    BY <2>1, <2>5 DEF SupBegins
  <2>6. CASE CameraJoin
    BY <2>1, <2>6 DEF CameraJoin, Release, AllJoined, Outlives
  <2>7. CASE SupJoins
    BY <2>1, <2>7 DEF SupJoins, Release, AllJoined, Outlives
  <2>8. CASE SupOpens
    <3>1. CASE UNCHANGED reader
      BY <2>1, <2>8, <3>1 DEF SupOpens
    <3>2. CASE OpenCamera
      BY <2>1, <2>8, <3>2 DEF SupOpens, OpenCamera
    <3> QED
      BY <2>1, <2>8, <3>1, <3>2 DEF SupOpens
  <2>9. CASE SupFails
    BY <2>1, <2>9 DEF SupFails
  <2>10. CASE CameraRestart
    BY <2>1, <2>10 DEF CameraRestart, OpenCamera, StartCapture, Restarts, Dead
  <2>11. CASE CameraStartFails
    BY <2>1, <2>11 DEF CameraStartFails
  <2> QED
    BY <1>8, <2>2, <2>3, <2>4, <2>5, <2>6, <2>7, <2>8, <2>9, <2>10, <2>11 DEF CameraConnection,
       CameraOperator
<1>9. CASE CameraWindow
  BY <1>9 DEF CameraWindow, CameraArm, SealCamera, LowerCameraFlag, CloseCameraFile,
     CameraReport, Drained, Restarts, Dead
<1>10. CASE CameraReader
  <2>1. kind \in CameraKinds
    BY <1>10 DEF CameraReader
  <2>2. CASE AvDelivers
    BY <2>1, <2>2 DEF AvDelivers
  <2>3. ASSUME NEW t \in Threads, FrameArrives(t) PROVE Held'
    BY <2>1, <2>3 DEF FrameArrives, StaysAs
  <2>4. ASSUME NEW t \in Threads, LoopStops(t) PROVE Held'
    BY <2>1, <2>4 DEF LoopStops, StaysAs
  <2>5. ASSUME NEW t \in Threads, CameraLost(t) PROVE Held'
    BY <2>1, <2>5 DEF CameraLost, StaysAs
  <2>6. ASSUME NEW t \in Threads, PreviewDrops(t) PROVE Held'
    BY <2>1, <2>6 DEF PreviewDrops, StaysAs
  <2>7. ASSUME NEW t \in Threads, kind = "quest_camera" /\ PreviewResumes(t) PROVE Held'
    BY <2>1, <2>7 DEF PreviewResumes, StaysAs
  <2>8. ASSUME NEW t \in Threads, AvStalls(t) PROVE Held'
    <3>1. /\ phase' = phase /\ kind' = kind /\ kind = "av"
          /\ pc[t] = "read" /\ holds' \subseteq holds
      BY <2>1, <2>8 DEF AvStalls
    <3> QED
      BY <2>1, <2>8, <3>1
  <2>9. ASSUME NEW t \in Threads, kind = "av" /\ AvRestarted(t) PROVE Held'
    BY <2>1, <2>9 DEF AvRestarted, Claimed, StaysAs
  <2>10. ASSUME NEW t \in Threads, kind = "av" /\ AvRestartFails(t) PROVE Held'
    BY <2>1, <2>10 DEF AvRestartFails, StaysAs
  <2>11. ASSUME NEW t \in Threads, DeviceReported(t) PROVE Held'
    BY <2>1, <2>11 DEF DeviceReported
  <2> QED
    BY <1>10, <2>2, <2>3, <2>4, <2>5, <2>6, <2>7, <2>8, <2>9, <2>10, <2>11 DEF CameraReader,
       CameraDevice
<1>11. CASE CameraFrame
  <2>1. ASSUME NEW t \in Threads, kind \in {"uvc", "av"} /\ UvcFrame(t) PROVE Held'
    <3>1. pc[t] = "got" /\ UNCHANGED <<kind, phase, own, stop, ready, holds, sup>>
      BY <2>1, Framed
    <3>2. \A u \in Threads : pc'[u] = pc[u] \/ (u = t /\ pc'[u] \in {"read", "none"})
      BY <2>1, Framed
    <3> QED
      BY <2>1, <3>1, <3>2
  <2>2. ASSUME NEW t \in Threads, kind = "oak" /\ OakFrame(t) PROVE Held'
    <3>1. pc[t] = "got" /\ UNCHANGED <<kind, phase, own, stop, ready, holds, sup>>
      BY <2>2, Framed
    <3>2. \A u \in Threads : pc'[u] = pc[u] \/ (u = t /\ pc'[u] \in {"read", "none"})
      BY <2>2, Framed
    <3> QED
      BY <2>2, <3>1, <3>2
  <2>3. ASSUME NEW t \in Threads, kind = "ovision" /\ OvisionPut(t) PROVE Held'
    BY <2>3 DEF OvisionPut, StaysAs
  <2>4. ASSUME NEW t \in Threads, kind = "ovision" /\ OvisionPack(t) PROVE Held'
    BY <2>4 DEF OvisionPack, Record, Skip, StaysAs
  <2>5. ASSUME NEW t \in Threads, kind = "ovision" /\ OvisionPackEnds(t) PROVE Held'
    BY <2>5 DEF OvisionPackEnds, StaysAs
  <2>6. ASSUME NEW t \in Threads, kind = "depth" /\ DepthCounts(t) PROVE Held'
    BY <2>6 DEF DepthCounts, StaysAs
  <2>7. ASSUME NEW t \in Threads, kind = "depth" /\ DepthSkips(t) PROVE Held'
    BY <2>7 DEF DepthSkips, StaysAs
  <2>8. ASSUME NEW t \in Threads, kind = "depth" /\ DepthWrites(t) PROVE Held'
    BY <2>8 DEF DepthWrites, StaysAs
  <2>9. ASSUME NEW t \in Threads, kind = "depth" /\ DepthRaises(t) PROVE Held'
    BY <2>9 DEF DepthRaises, StaysAs
  <2>10. ASSUME NEW t \in Threads, kind = "depth" /\ DepthEmits(t) PROVE Held'
    BY <2>10 DEF DepthEmits, StaysAs
  <2>11. ASSUME NEW t \in Threads, kind = "quest_camera" /\ SinkTaken(t) PROVE Held'
    BY <2>11 DEF SinkTaken, StaysAs
  <2>12. ASSUME NEW t \in Threads, kind = "quest_camera" /\ SinkMuxes(t) PROVE Held'
    BY <2>12 DEF SinkMuxes, StaysAs
  <2>13. ASSUME NEW t \in Threads, kind = "quest_camera" /\ SinkEmits(t) PROVE Held'
    BY <2>13 DEF SinkEmits, StaysAs
  <2> QED
    BY <1>11, <2>1, <2>2, <2>3, <2>4, <2>5, <2>6, <2>7, <2>8, <2>9, <2>10, <2>11, <2>12, <2>13
       DEF CameraFrame
<1>12. CASE UNCHANGED cameraVars
  BY <1>12
<1> QED
  BY <1>1, <1>2, <1>3, <1>4, <1>5, <1>6, <1>7, <1>8, <1>9, <1>10, <1>11, <1>12, Steps

\* The reader of a connected stream goes on until the device is lost.
LEMMA SurvivorsStep ==
  ASSUME Types, Owners, Survivors, [Next]_cameraVars
  PROVE  Survivors'
<1> USE DEF Types, Shape, Owned, Own, Off, Refused, Restarting, Supervised, May,
     CameraKinds, Surviving, Survivors, Owners, Window, session, reader, window, vars, camera,
     cameraVars, Adapter, To, Connecting, Emit, Spawn, Goto, End, Fresh, Free, Live, Threads
<1>1. CASE GateStep
  BY <1>1 DEF GateStep, OpenGate, CloseGate
<1>2. CASE PollStep
  <2>1. kind = "poll" /\ UNCHANGED camera
    BY <1>2 DEF PollStep
  <2>2. CASE PollConnect
    BY <2>1, <2>2 DEF PollConnect
  <2>3. CASE PollOpenFails
    BY <2>1, <2>3 DEF PollOpenFails
  <2>4. CASE RaiseStop
    BY <2>1, <2>4 DEF RaiseStop
  <2>5. CASE Begin
    BY <2>1, <2>5 DEF Begin, ResetCounters
  <2>6. CASE LowerFlag
    BY <2>1, <2>6 DEF LowerFlag
  <2>7. CASE ReadCounters
    BY <2>1, <2>7 DEF ReadCounters
  <2>8. CASE Join
    BY <2>1, <2>8 DEF Join, Joined
  <2>9. ASSUME NEW t \in Threads, PollRead(t) PROVE Survivors'
    BY <2>1, <2>9 DEF PollRead
  <2>10. ASSUME NEW t \in Threads, Count(t, "read") PROVE Survivors'
    BY <2>1, <2>10 DEF Count
  <2>11. ASSUME NEW t \in Threads, LoopEnds(t) PROVE Survivors'
    BY <2>1, <2>11 DEF LoopEnds
  <2>12. ASSUME NEW t \in Threads, PollGivesUp(t) PROVE Survivors'
    BY <2>1, <2>12 DEF PollGivesUp
  <2> QED
    BY <1>2, <2>2, <2>3, <2>4, <2>5, <2>6, <2>7, <2>8, <2>9, <2>10, <2>11, <2>12 DEF PollStep,
       PollCalls, PollThread
<1>3. CASE PushStep
  BY <1>3 DEF PushStep, PushConnect, PushDisconnect, PushStart, PushStop, Begin, LowerFlag,
     ReadCounters, Count, Push, ResetCounters
<1>4. CASE BleStep
  <2>1. kind = "ble" /\ UNCHANGED camera
    BY <1>4 DEF BleStep
  <2>2. CASE BleConnect
    BY <2>1, <2>2 DEF BleConnect
  <2>3. CASE RaiseStop
    BY <2>1, <2>3 DEF RaiseStop
  <2>4. CASE BleStart
    BY <2>1, <2>4 DEF BleStart, ThreadDead
  <2>5. CASE LowerFlag
    BY <2>1, <2>5 DEF LowerFlag
  <2>6. CASE ReadCounters
    BY <2>1, <2>6 DEF ReadCounters
  <2>7. CASE Join
    BY <2>1, <2>7 DEF Join, Joined
  <2>8. ASSUME NEW t \in Threads, BleOpen(t) PROVE Survivors'
    BY <2>1, <2>8 DEF BleOpen
  <2>9. ASSUME NEW t \in Threads, BleOpenFails(t) PROVE Survivors'
    BY <2>1, <2>9 DEF BleOpenFails
  <2>10. ASSUME NEW t \in Threads, BleNotify(t) PROVE Survivors'
    BY <2>1, <2>10 DEF BleNotify
  <2>11. ASSUME NEW t \in Threads, EmitCounted(t) PROVE Survivors'
    BY <2>1, <2>11 DEF EmitCounted
  <2>12. ASSUME NEW t \in Threads, BleEnds(t) PROVE Survivors'
    BY <2>1, <2>12 DEF BleEnds
  <2> QED
    BY <1>4, <2>2, <2>3, <2>4, <2>5, <2>6, <2>7, <2>8, <2>9, <2>10, <2>11, <2>12 DEF BleStep,
       BleCalls, BleThread
<1>5. CASE QuestStep
  <2>1. kind = "quest" /\ UNCHANGED camera
    BY <1>5 DEF QuestStep
  <2>2. CASE QuestConnect
    BY <2>1, <2>2 DEF QuestConnect, Responder
  <2>3. CASE QuestBindFails
    BY <2>1, <2>3 DEF QuestBindFails
  <2>4. CASE RaiseStop
    BY <2>1, <2>4 DEF RaiseStop
  <2>5. CASE QuestFlag
    BY <2>1, <2>5 DEF QuestFlag
  <2>6. CASE QuestReset
    BY <2>1, <2>6 DEF QuestReset
  <2>7. CASE LowerFlag
    BY <2>1, <2>7 DEF LowerFlag
  <2>8. CASE ReadCounters
    BY <2>1, <2>8 DEF ReadCounters
  <2>9. CASE QuestJoin
    BY <2>1, <2>9 DEF QuestJoin, Join, Joined, Responder
  <2>10. ASSUME NEW t \in Threads, QuestPacket(t) PROVE Survivors'
    BY <2>1, <2>10 DEF QuestPacket
  <2>11. ASSUME NEW t \in Threads, EmitCounted(t) PROVE Survivors'
    BY <2>1, <2>11 DEF EmitCounted
  <2>12. ASSUME NEW t \in Threads, QuestEnds(t) PROVE Survivors'
    BY <2>1, <2>12 DEF QuestEnds
  <2> QED
    BY <1>5, <2>2, <2>3, <2>4, <2>5, <2>6, <2>7, <2>8, <2>9, <2>10, <2>11, <2>12 DEF QuestStep,
       QuestCalls, QuestThread
<1>6. CASE AudioStep
  BY <1>6 DEF AudioStep, AudioConnect, AudioConnectFails, AudioDisconnect, AudioCalls,
     AudioThread, AudioLevel, AudioStart, LowerFlag, AudioCloseFile, AudioReport,
     ReadCounters, AudioLooks, AudioWrites, AudioRaises, AudioCounts
<1>7. CASE OgloStep
  <2>1. kind = "oglo" /\ UNCHANGED camera
    BY <1>7 DEF OgloStep
  <2>2. CASE OgloConnect
    BY <2>1, <2>2 DEF OgloConnect, StartReader, ThreadDead
  <2>3. CASE RaiseStop
    BY <2>1, <2>3 DEF RaiseStop
  <2>4. CASE OgloReady
    BY <2>1, <2>4 DEF OgloReady
  <2>5. CASE OgloRefused
    BY <2>1, <2>5 DEF OgloRefused
  <2>6. CASE OgloRestart
    BY <2>1, <2>6 DEF OgloRestart, StartReader, ThreadDead
  <2>7. CASE OgloRestarted
    BY <2>1, <2>7 DEF OgloRestarted
  <2>8. CASE OgloRestartFails
    BY <2>1, <2>8 DEF OgloRestartFails
  <2>9. CASE OgloFiles
    BY <2>1, <2>9 DEF OgloFiles, ResetCounters
  <2>10. CASE OgloArm
    BY <2>1, <2>10 DEF OgloArm
  <2>11. CASE OgloSeal
    BY <2>1, <2>11 DEF OgloSeal
  <2>12. CASE ReadCounters
    BY <2>1, <2>12 DEF ReadCounters
  <2>13. CASE Join
    BY <2>1, <2>13 DEF Join, Joined
  <2>14. ASSUME NEW t \in Threads, OgloOpen(t) PROVE Survivors'
    BY <2>1, <2>14 DEF OgloOpen
  <2>15. ASSUME NEW t \in Threads, OgloFails(t) PROVE Survivors'
    BY <2>1, <2>15 DEF OgloFails
  <2>16. ASSUME NEW t \in Threads, OgloFirst(t) PROVE Survivors'
    BY <2>1, <2>16 DEF OgloFirst
  <2>17. ASSUME NEW t \in Threads, OgloTactile(t) PROVE Survivors'
    BY <2>1, <2>17 DEF OgloTactile
  <2>18. ASSUME NEW t \in Threads, OgloDerived(t) PROVE Survivors'
    <3>1. CASE Surviving(kind)
      <4>1. UNCHANGED <<kind, phase, pc, own, stop, ready, lost>>
        BY <2>1, <2>18, <3>1 DEF OgloDerived
      <4> QED
        BY <3>1, <4>1
    <3>2. CASE ~Surviving(kind)
      BY <2>1, <2>18, <3>2 DEF OgloDerived
    <3> QED
      BY <3>1, <3>2
  <2>19. ASSUME NEW t \in Threads, OgloLinkLost(t) PROVE Survivors'
    BY <2>1, <2>19 DEF OgloLinkLost
  <2>20. ASSUME NEW t \in Threads, OgloAdopts(t) PROVE Survivors'
    BY <2>1, <2>20 DEF OgloAdopts
  <2>21. ASSUME NEW t \in Threads, OgloGivesUp(t) PROVE Survivors'
    BY <2>1, <2>21 DEF OgloGivesUp
  <2>22. ASSUME NEW t \in Threads, OgloEnds(t) PROVE Survivors'
    BY <2>1, <2>22 DEF OgloEnds
  <2> QED
    BY <1>7, <2>2, <2>3, <2>4, <2>5, <2>6, <2>7, <2>8, <2>9, <2>10, <2>11, <2>12, <2>13, <2>14,
       <2>15, <2>16, <2>17, <2>18, <2>19, <2>20, <2>21, <2>22 DEF OgloStep, OgloCalls,
       OgloThread
<1>8. CASE CameraConnection
  <2>1. kind \in CameraKinds
    BY <1>8 DEF CameraConnection
  <2>2. CASE CameraConnect
    BY <2>1, <2>2, Captured DEF CameraConnect, OpenCamera
  <2>3. CASE CameraConnectFails
    BY <2>1, <2>3 DEF CameraConnectFails
  <2>4. CASE CameraRaiseStop
    BY <2>1, <2>4 DEF CameraRaiseStop
  <2>5. CASE SupBegins
    BY <2>1, <2>5 DEF SupBegins
  <2>6. CASE CameraJoin
    BY <2>1, <2>6 DEF CameraJoin, Release, AllJoined, Outlives
  <2>7. CASE SupJoins
    BY <2>1, <2>7 DEF SupJoins, Release, AllJoined, Outlives
  <2>8. CASE SupOpens
    BY <2>1, <2>8, Captured DEF SupOpens, OpenCamera, Dead
  <2>9. CASE SupFails
    BY <2>1, <2>9 DEF SupFails
  <2>10. CASE CameraRestart
    BY <2>1, <2>10, Captured DEF CameraRestart, OpenCamera, Restarts, Dead
  <2>11. CASE CameraStartFails
    BY <2>1, <2>11 DEF CameraStartFails
  <2> QED
    BY <1>8, <2>2, <2>3, <2>4, <2>5, <2>6, <2>7, <2>8, <2>9, <2>10, <2>11 DEF CameraConnection,
       CameraOperator
<1>9. CASE CameraWindow
  BY <1>9 DEF CameraWindow, CameraArm, SealCamera, LowerCameraFlag, CloseCameraFile,
     CameraReport, Drained, Restarts, Dead
<1>10. CASE CameraReader
  <2>1. kind \in CameraKinds
    BY <1>10 DEF CameraReader
  <2>2. CASE AvDelivers
    BY <2>1, <2>2 DEF AvDelivers
  <2>3. ASSUME NEW t \in Threads, FrameArrives(t) PROVE Survivors'
    BY <2>1, <2>3 DEF FrameArrives, StaysAs
  <2>4. ASSUME NEW t \in Threads, LoopStops(t) PROVE Survivors'
    BY <2>1, <2>4 DEF LoopStops, StaysAs
  <2>5. ASSUME NEW t \in Threads, CameraLost(t) PROVE Survivors'
    BY <2>1, <2>5 DEF CameraLost, StaysAs
  <2>6. ASSUME NEW t \in Threads, PreviewDrops(t) PROVE Survivors'
    BY <2>1, <2>6 DEF PreviewDrops, StaysAs
  <2>7. ASSUME NEW t \in Threads, kind = "quest_camera" /\ PreviewResumes(t) PROVE Survivors'
    BY <2>1, <2>7 DEF PreviewResumes, StaysAs
  <2>8. ASSUME NEW t \in Threads, AvStalls(t) PROVE Survivors'
    BY <2>1, <2>8 DEF AvStalls, StaysAs
  <2>9. ASSUME NEW t \in Threads, kind = "av" /\ AvRestarted(t) PROVE Survivors'
    BY <2>1, <2>9 DEF AvRestarted, Claimed, StaysAs
  <2>10. ASSUME NEW t \in Threads, kind = "av" /\ AvRestartFails(t) PROVE Survivors'
    BY <2>1, <2>10 DEF AvRestartFails, StaysAs
  <2>11. ASSUME NEW t \in Threads, DeviceReported(t) PROVE Survivors'
    BY <2>1, <2>11 DEF DeviceReported
  <2> QED
    BY <1>10, <2>2, <2>3, <2>4, <2>5, <2>6, <2>7, <2>8, <2>9, <2>10, <2>11 DEF CameraReader,
       CameraDevice
<1>11. CASE CameraFrame
  <2>1. ASSUME NEW t \in Threads, kind \in {"uvc", "av"} /\ UvcFrame(t) PROVE Survivors'
    BY <2>1 DEF UvcFrame, Raises, Record, Skip, StaysAs
  <2>2. ASSUME NEW t \in Threads, kind = "oak" /\ OakFrame(t) PROVE Survivors'
    BY <2>2 DEF OakFrame, Raises, Record, Skip, StaysAs
  <2>3. ASSUME NEW t \in Threads, kind = "ovision" /\ OvisionPut(t) PROVE Survivors'
    BY <2>3 DEF OvisionPut, StaysAs
  <2>4. ASSUME NEW t \in Threads, kind = "ovision" /\ OvisionPack(t) PROVE Survivors'
    BY <2>4 DEF OvisionPack, Record, Skip, StaysAs
  <2>5. ASSUME NEW t \in Threads, kind = "ovision" /\ OvisionPackEnds(t) PROVE Survivors'
    BY <2>5 DEF OvisionPackEnds, StaysAs
  <2>6. ASSUME NEW t \in Threads, kind = "depth" /\ DepthCounts(t) PROVE Survivors'
    BY <2>6 DEF DepthCounts, StaysAs
  <2>7. ASSUME NEW t \in Threads, kind = "depth" /\ DepthSkips(t) PROVE Survivors'
    BY <2>7 DEF DepthSkips, StaysAs
  <2>8. ASSUME NEW t \in Threads, kind = "depth" /\ DepthWrites(t) PROVE Survivors'
    BY <2>8 DEF DepthWrites, StaysAs
  <2>9. ASSUME NEW t \in Threads, kind = "depth" /\ DepthRaises(t) PROVE Survivors'
    BY <2>9 DEF DepthRaises, StaysAs
  <2>10. ASSUME NEW t \in Threads, kind = "depth" /\ DepthEmits(t) PROVE Survivors'
    BY <2>10 DEF DepthEmits, StaysAs
  <2>11. ASSUME NEW t \in Threads, kind = "quest_camera" /\ SinkTaken(t) PROVE Survivors'
    BY <2>11 DEF SinkTaken, StaysAs
  <2>12. ASSUME NEW t \in Threads, kind = "quest_camera" /\ SinkMuxes(t) PROVE Survivors'
    BY <2>12 DEF SinkMuxes, StaysAs
  <2>13. ASSUME NEW t \in Threads, kind = "quest_camera" /\ SinkEmits(t) PROVE Survivors'
    BY <2>13 DEF SinkEmits, StaysAs
  <2> QED
    BY <1>11, <2>1, <2>2, <2>3, <2>4, <2>5, <2>6, <2>7, <2>8, <2>9, <2>10, <2>11, <2>12, <2>13
       DEF CameraFrame
<1>12. CASE UNCHANGED cameraVars
  BY <1>12
<1> QED
  BY <1>1, <1>2, <1>3, <1>4, <1>5, <1>6, <1>7, <1>8, <1>9, <1>10, <1>11, <1>12, Steps

\* A polling sensor counts what it has emitted.
LEMMA PolledStep ==
  ASSUME Types, Owners, Polled, [Next]_cameraVars
  PROVE  Polled'
<1> USE DEF Types, Shape, Numbers, Gated, Owners, Owned, Own, Off, Restarting, Supervised,
     Joining, Reads, May, CameraKinds, Reporting, Some, One, Polled, Tallied, Window, session,
     reader, window, vars, camera, cameraVars, Adapter, To, Connecting, Emit, Spawn, Goto,
     End, Fresh, Free, Live, Threads
<1>1. kind' = kind
  BY SameKind
<1>2. CASE ~(kind = "poll")
  BY <1>1, <1>2
<1>3. CASE GateStep
  BY <1>1, <1>3 DEF GateStep, OpenGate, CloseGate
<1>4. CASE PollStep
  <2>1. kind = "poll" /\ UNCHANGED camera
    BY <1>4 DEF PollStep
  <2>2. CASE PollConnect
    BY <2>1, <2>2 DEF PollConnect
  <2>3. CASE PollOpenFails
    BY <2>1, <2>3 DEF PollOpenFails
  <2>4. CASE RaiseStop
    BY <2>1, <2>4 DEF RaiseStop
  <2>5. CASE Begin
    BY <2>1, <2>5 DEF Begin, ResetCounters
  <2>6. CASE LowerFlag
    BY <2>1, <2>6 DEF LowerFlag
  <2>7. CASE ReadCounters
    BY <2>1, <2>7 DEF ReadCounters
  <2>8. CASE Join
    BY <2>1, <2>8 DEF Join, Joined
  <2>9. ASSUME NEW t \in Threads, PollRead(t) PROVE Polled'
    BY <2>1, <2>9 DEF PollRead
  <2>10. ASSUME NEW t \in Threads, Count(t, "read") PROVE Polled'
    BY <2>1, <2>10 DEF Count
  <2>11. ASSUME NEW t \in Threads, LoopEnds(t) PROVE Polled'
    BY <2>1, <2>11 DEF LoopEnds
  <2>12. ASSUME NEW t \in Threads, PollGivesUp(t) PROVE Polled'
    BY <2>1, <2>12 DEF PollGivesUp
  <2> QED
    BY <1>4, <2>2, <2>3, <2>4, <2>5, <2>6, <2>7, <2>8, <2>9, <2>10, <2>11, <2>12 DEF PollStep,
       PollCalls, PollThread
<1>5. CASE UNCHANGED cameraVars
  BY <1>5
<1> QED
  BY <1>2, <1>3, <1>4, <1>5, Steps DEF PushStep, BleStep, QuestStep, AudioStep, OgloStep,
     CameraConnection, CameraWindow, CameraReader, CameraFrame, CameraKinds

\* push() counts what it has emitted.
LEMMA PushedStep ==
  ASSUME Types, Pushed, [Next]_cameraVars
  PROVE  Pushed'
<1> USE DEF Types, Shape, Numbers, Gated, Owners, Owned, Own, Off, Restarting, Supervised,
     Joining, Reads, May, CameraKinds, Reporting, Some, One, Pushed, Tallied, Window, session,
     reader, window, vars, camera, cameraVars, Adapter, To, Connecting, Emit, Spawn, Goto,
     End, Fresh, Free, Live, Threads
<1>1. kind' = kind
  BY SameKind
<1>2. CASE ~(kind = "push")
  BY <1>1, <1>2
<1>3. CASE GateStep
  BY <1>1, <1>3 DEF GateStep, OpenGate, CloseGate
<1>4. CASE PushStep
  <2>1. kind = "push" /\ UNCHANGED camera
    BY <1>4 DEF PushStep
  <2>2. CASE PushConnect
    BY <2>1, <2>2 DEF PushConnect
  <2>3. CASE PushDisconnect
    BY <2>1, <2>3 DEF PushDisconnect
  <2>4. CASE Begin
    BY <2>1, <2>4 DEF Begin, ResetCounters
  <2>5. CASE LowerFlag
    BY <2>1, <2>5 DEF LowerFlag
  <2>6. CASE ReadCounters
    BY <2>1, <2>6 DEF ReadCounters
  <2>7. ASSUME NEW t \in Threads, Count(t, "idle") PROVE Pushed'
    BY <2>1, <2>7 DEF Count
  <2>8. ASSUME NEW t \in Threads, Push(t) PROVE Pushed'
    BY <2>1, <2>8 DEF Push
  <2> QED
    BY <1>4, <2>2, <2>3, <2>4, <2>5, <2>6, <2>7, <2>8 DEF PushStep, PushStart, PushStop
<1>5. CASE UNCHANGED cameraVars
  BY <1>5
<1> QED
  BY <1>2, <1>3, <1>4, <1>5, Steps DEF PollStep, BleStep, QuestStep, AudioStep, OgloStep,
     CameraConnection, CameraWindow, CameraReader, CameraFrame, CameraKinds

\* The headset's packets are emitted once counted.
LEMMA ReceivedStep ==
  ASSUME Types, Owners, Received, [Next]_cameraVars
  PROVE  Received'
<1> USE DEF Types, Shape, Numbers, Gated, Owners, Owned, Own, Off, Restarting, Supervised,
     Joining, Reads, May, CameraKinds, Reporting, Some, One, Received, Window, session,
     reader, window, vars, camera, cameraVars, Adapter, To, Connecting, Emit, Spawn, Goto,
     End, Fresh, Free, Live, Threads
<1>1. kind' = kind
  BY SameKind
<1>2. CASE ~(kind = "quest")
  BY <1>1, <1>2
<1>3. CASE GateStep
  BY <1>1, <1>3 DEF GateStep, OpenGate, CloseGate
<1>4. CASE QuestStep
  <2>1. kind = "quest" /\ UNCHANGED camera
    BY <1>4 DEF QuestStep
  <2>2. CASE QuestConnect
    BY <2>1, <2>2 DEF QuestConnect, Responder
  <2>3. CASE QuestBindFails
    BY <2>1, <2>3 DEF QuestBindFails
  <2>4. CASE RaiseStop
    BY <2>1, <2>4 DEF RaiseStop
  <2>5. CASE QuestFlag
    BY <2>1, <2>5 DEF QuestFlag
  <2>6. CASE QuestReset
    BY <2>1, <2>6 DEF QuestReset
  <2>7. CASE LowerFlag
    BY <2>1, <2>7 DEF LowerFlag
  <2>8. CASE ReadCounters
    BY <2>1, <2>8 DEF ReadCounters
  <2>9. CASE QuestJoin
    BY <2>1, <2>9 DEF QuestJoin, Join, Joined, Responder
  <2>10. ASSUME NEW t \in Threads, QuestPacket(t) PROVE Received'
    BY <2>1, <2>10 DEF QuestPacket
  <2>11. ASSUME NEW t \in Threads, EmitCounted(t) PROVE Received'
    BY <2>1, <2>11 DEF EmitCounted
  <2>12. ASSUME NEW t \in Threads, QuestEnds(t) PROVE Received'
    BY <2>1, <2>12 DEF QuestEnds
  <2> QED
    BY <1>4, <2>2, <2>3, <2>4, <2>5, <2>6, <2>7, <2>8, <2>9, <2>10, <2>11, <2>12 DEF QuestStep,
       QuestCalls, QuestThread
<1>5. CASE UNCHANGED cameraVars
  BY <1>5
<1> QED
  BY <1>2, <1>3, <1>4, <1>5, Steps DEF PollStep, PushStep, BleStep, AudioStep, OgloStep,
     CameraConnection, CameraWindow, CameraReader, CameraFrame, CameraKinds

\* The glove counts and emits at once.
LEMMA RoutedStep ==
  ASSUME Types, Routed, [Next]_cameraVars
  PROVE  Routed'
<1> USE DEF Types, Shape, Numbers, Gated, Owners, Owned, Own, Off, Restarting, Supervised,
     Joining, Reads, May, CameraKinds, Reporting, Some, One, Routed, Window, session, reader,
     window, vars, camera, cameraVars, Adapter, To, Connecting, Emit, Spawn, Goto, End, Fresh,
     Free, Live, Threads
<1>1. kind' = kind
  BY SameKind
<1>2. CASE ~(kind = "oglo")
  BY <1>1, <1>2
<1>3. CASE GateStep
  BY <1>1, <1>3 DEF GateStep, OpenGate, CloseGate
<1>4. CASE OgloStep
  <2>1. kind = "oglo" /\ UNCHANGED camera
    BY <1>4 DEF OgloStep
  <2>2. CASE OgloConnect
    BY <2>1, <2>2 DEF OgloConnect, StartReader, ThreadDead
  <2>3. CASE RaiseStop
    BY <2>1, <2>3 DEF RaiseStop
  <2>4. CASE OgloReady
    BY <2>1, <2>4 DEF OgloReady
  <2>5. CASE OgloRefused
    BY <2>1, <2>5 DEF OgloRefused
  <2>6. CASE OgloRestart
    BY <2>1, <2>6 DEF OgloRestart, StartReader, ThreadDead
  <2>7. CASE OgloRestarted
    BY <2>1, <2>7 DEF OgloRestarted
  <2>8. CASE OgloRestartFails
    BY <2>1, <2>8 DEF OgloRestartFails
  <2>9. CASE OgloFiles
    BY <2>1, <2>9 DEF OgloFiles, ResetCounters
  <2>10. CASE OgloArm
    BY <2>1, <2>10 DEF OgloArm
  <2>11. CASE OgloSeal
    BY <2>1, <2>11 DEF OgloSeal
  <2>12. CASE ReadCounters
    BY <2>1, <2>12 DEF ReadCounters
  <2>13. CASE Join
    BY <2>1, <2>13 DEF Join, Joined
  <2>14. ASSUME NEW t \in Threads, OgloOpen(t) PROVE Routed'
    BY <2>1, <2>14 DEF OgloOpen
  <2>15. ASSUME NEW t \in Threads, OgloFails(t) PROVE Routed'
    BY <2>1, <2>15 DEF OgloFails
  <2>16. ASSUME NEW t \in Threads, OgloFirst(t) PROVE Routed'
    BY <2>1, <2>16 DEF OgloFirst
  <2>17. ASSUME NEW t \in Threads, OgloTactile(t) PROVE Routed'
    BY <2>1, <2>17 DEF OgloTactile
  <2>18. ASSUME NEW t \in Threads, OgloDerived(t) PROVE Routed'
    BY <2>1, <2>18 DEF OgloDerived
  <2>19. ASSUME NEW t \in Threads, OgloLinkLost(t) PROVE Routed'
    BY <2>1, <2>19 DEF OgloLinkLost
  <2>20. ASSUME NEW t \in Threads, OgloAdopts(t) PROVE Routed'
    BY <2>1, <2>20 DEF OgloAdopts
  <2>21. ASSUME NEW t \in Threads, OgloGivesUp(t) PROVE Routed'
    BY <2>1, <2>21 DEF OgloGivesUp
  <2>22. ASSUME NEW t \in Threads, OgloEnds(t) PROVE Routed'
    BY <2>1, <2>22 DEF OgloEnds
  <2> QED
    BY <1>4, <2>2, <2>3, <2>4, <2>5, <2>6, <2>7, <2>8, <2>9, <2>10, <2>11, <2>12, <2>13, <2>14,
       <2>15, <2>16, <2>17, <2>18, <2>19, <2>20, <2>21, <2>22 DEF OgloStep, OgloCalls,
       OgloThread
<1>5. CASE UNCHANGED cameraVars
  BY <1>5
<1> QED
  BY <1>2, <1>3, <1>4, <1>5, Steps DEF PollStep, PushStep, BleStep, QuestStep, AudioStep,
     CameraConnection, CameraWindow, CameraReader, CameraFrame, CameraKinds

\* The microphone counts what it has written.
LEMMA ListeningStep ==
  ASSUME Types, Owners, Listening, [Next]_cameraVars
  PROVE  Listening'
<1> USE DEF Types, Shape, Numbers, Gated, Owners, Owned, Own, Off, Restarting, Supervised,
     Joining, Reads, May, CameraKinds, Reporting, Some, One, Listening, Window, session,
     reader, window, vars, camera, cameraVars, Adapter, To, Connecting, Emit, Spawn, Goto,
     End, Fresh, Free, Live, Threads
<1>1. kind' = kind
  BY SameKind
<1>2. CASE ~(kind = "audio")
  BY <1>1, <1>2
<1>3. CASE GateStep
  BY <1>1, <1>3 DEF GateStep, OpenGate, CloseGate
<1>4. CASE AudioStep
  <2>1. kind = "audio" /\ UNCHANGED camera
    BY <1>4 DEF AudioStep
  <2>2. CASE AudioConnect
    BY <2>1, <2>2 DEF AudioConnect
  <2>3. CASE AudioConnectFails
    BY <2>1, <2>3 DEF AudioConnectFails
  <2>4. CASE AudioDisconnect
    BY <2>1, <2>4 DEF AudioDisconnect
  <2>5. CASE AudioStart
    BY <2>1, <2>5 DEF AudioStart
  <2>6. CASE LowerFlag
    BY <2>1, <2>6 DEF LowerFlag
  <2>7. CASE AudioCloseFile
    BY <2>1, <2>7 DEF AudioCloseFile
  <2>8. CASE AudioReport
    BY <2>1, <2>8 DEF AudioReport, ReadCounters
  <2>9. ASSUME NEW t \in Threads, AudioLooks(t) PROVE Listening'
    BY <2>1, <2>9 DEF AudioLooks
  <2>10. ASSUME NEW t \in Threads, AudioWrites(t) PROVE Listening'
    BY <2>1, <2>10 DEF AudioWrites
  <2>11. ASSUME NEW t \in Threads, AudioRaises(t) PROVE Listening'
    BY <2>1, <2>11 DEF AudioRaises
  <2>12. ASSUME NEW t \in Threads, AudioCounts(t) PROVE Listening'
    BY <2>1, <2>12 DEF AudioCounts
  <2>13. ASSUME NEW t \in Threads, AudioLevel(t) PROVE Listening'
    BY <2>1, <2>13 DEF AudioLevel
  <2> QED
    BY <1>4, <2>2, <2>3, <2>4, <2>5, <2>6, <2>7, <2>8, <2>9, <2>10, <2>11, <2>12, <2>13 DEF
       AudioStep, AudioCalls, AudioThread
<1>5. CASE UNCHANGED cameraVars
  BY <1>5
<1> QED
  BY <1>2, <1>3, <1>4, <1>5, Steps DEF PollStep, PushStep, BleStep, QuestStep, OgloStep,
     CameraConnection, CameraWindow, CameraReader, CameraFrame, CameraKinds

\* UVC, AVFoundation and the OAK write, count and emit under one lock.
LEMMA LockedStep ==
  ASSUME Types, Owners, Locked, [Next]_cameraVars
  PROVE  Locked'
<1> USE DEF Types, Shape, Numbers, Gated, Owners, Owned, Own, Off, Restarting, Supervised,
     Joining, Reads, May, CameraKinds, Reporting, Some, One, Locked, Window, session, reader,
     window, vars, camera, cameraVars, Adapter, To, Connecting, Emit, Spawn, Goto, End, Fresh,
     Free, Live, Threads
<1>1. kind' = kind
  BY SameKind
<1>2. CASE ~(kind \in {"uvc", "av", "oak"})
  BY <1>1, <1>2
<1>3. CASE GateStep
  BY <1>1, <1>3 DEF GateStep, OpenGate, CloseGate
<1>4. CASE CameraConnection
  <2>1. kind \in CameraKinds
    BY <1>4 DEF CameraConnection
  <2>2. CASE CameraConnect
    BY <2>1, <2>2 DEF CameraConnect, OpenCamera, StartCapture, Claimed
  <2>3. CASE CameraConnectFails
    BY <2>1, <2>3 DEF CameraConnectFails
  <2>4. CASE CameraRaiseStop
    BY <2>1, <2>4 DEF CameraRaiseStop
  <2>5. CASE SupBegins
    BY <2>1, <2>5 DEF SupBegins
  <2>6. CASE CameraJoin
    BY <2>1, <2>6 DEF CameraJoin, Release, AllJoined, Outlives
  <2>7. CASE SupJoins
    BY <2>1, <2>7 DEF SupJoins, Release, AllJoined, Outlives
  <2>8. CASE SupOpens
    BY <2>1, <2>8 DEF SupOpens, OpenCamera, StartCapture, Dead
  <2>9. CASE SupFails
    BY <2>1, <2>9 DEF SupFails
  <2>10. CASE CameraRestart
    BY <2>1, <2>10 DEF CameraRestart, OpenCamera, StartCapture, Restarts, Dead
  <2>11. CASE CameraStartFails
    BY <2>1, <2>11 DEF CameraStartFails
  <2> QED
    BY <1>4, <2>2, <2>3, <2>4, <2>5, <2>6, <2>7, <2>8, <2>9, <2>10, <2>11 DEF CameraConnection,
       CameraOperator
<1>5. CASE CameraWindow
  <2>1. kind \in CameraKinds
    BY <1>5 DEF CameraWindow
  <2>2. CASE CameraArm
    BY <2>1, <2>2 DEF CameraArm
  <2>3. CASE SealCamera
    BY <2>1, <2>3 DEF SealCamera
  <2>4. CASE LowerCameraFlag
    BY <2>1, <2>4 DEF LowerCameraFlag
  <2>5. CASE CloseCameraFile
    BY <2>1, <2>5 DEF CloseCameraFile, Drained
  <2>6. CASE CameraReport
    BY <2>1, <2>6 DEF CameraReport, Drained
  <2> QED
    BY <1>5, <2>2, <2>3, <2>4, <2>5, <2>6 DEF CameraWindow
<1>6. CASE CameraReader
  <2>1. kind \in CameraKinds
    BY <1>6 DEF CameraReader
  <2>2. CASE AvDelivers
    BY <2>1, <2>2 DEF AvDelivers
  <2>3. ASSUME NEW t \in Threads, FrameArrives(t) PROVE Locked'
    BY <2>1, <2>3 DEF FrameArrives, StaysAs
  <2>4. ASSUME NEW t \in Threads, LoopStops(t) PROVE Locked'
    BY <2>1, <2>4 DEF LoopStops, StaysAs
  <2>5. ASSUME NEW t \in Threads, CameraLost(t) PROVE Locked'
    BY <2>1, <2>5 DEF CameraLost, StaysAs
  <2>6. ASSUME NEW t \in Threads, PreviewDrops(t) PROVE Locked'
    BY <2>1, <2>6 DEF PreviewDrops, StaysAs
  <2>7. ASSUME NEW t \in Threads, kind = "quest_camera" /\ PreviewResumes(t) PROVE Locked'
    BY <2>1, <2>7 DEF PreviewResumes, StaysAs
  <2>8. ASSUME NEW t \in Threads, AvStalls(t) PROVE Locked'
    BY <2>1, <2>8 DEF AvStalls, StaysAs
  <2>9. ASSUME NEW t \in Threads, kind = "av" /\ AvRestarted(t) PROVE Locked'
    BY <2>1, <2>9 DEF AvRestarted, Claimed, StaysAs
  <2>10. ASSUME NEW t \in Threads, kind = "av" /\ AvRestartFails(t) PROVE Locked'
    BY <2>1, <2>10 DEF AvRestartFails, StaysAs
  <2>11. ASSUME NEW t \in Threads, DeviceReported(t) PROVE Locked'
    BY <2>1, <2>11 DEF DeviceReported
  <2> QED
    BY <1>6, <2>2, <2>3, <2>4, <2>5, <2>6, <2>7, <2>8, <2>9, <2>10, <2>11 DEF CameraReader,
       CameraDevice
<1>7. CASE CameraFrame
  <2>1. ASSUME NEW t \in Threads, kind \in {"uvc", "av"} /\ UvcFrame(t) PROVE Locked'
    BY <2>1 DEF UvcFrame, Raises, Record, Skip, StaysAs
  <2>2. ASSUME NEW t \in Threads, kind = "oak" /\ OakFrame(t) PROVE Locked'
    BY <2>2 DEF OakFrame, Raises, Record, Skip, StaysAs
  <2>3. ASSUME NEW t \in Threads, kind = "ovision" /\ OvisionPut(t) PROVE Locked'
    BY <2>3 DEF OvisionPut, StaysAs
  <2>4. ASSUME NEW t \in Threads, kind = "ovision" /\ OvisionPack(t) PROVE Locked'
    BY <2>4 DEF OvisionPack, Record, Skip, StaysAs
  <2>5. ASSUME NEW t \in Threads, kind = "ovision" /\ OvisionPackEnds(t) PROVE Locked'
    BY <2>5 DEF OvisionPackEnds, StaysAs
  <2>6. ASSUME NEW t \in Threads, kind = "depth" /\ DepthCounts(t) PROVE Locked'
    BY <2>6 DEF DepthCounts, StaysAs
  <2>7. ASSUME NEW t \in Threads, kind = "depth" /\ DepthSkips(t) PROVE Locked'
    BY <2>7 DEF DepthSkips, StaysAs
  <2>8. ASSUME NEW t \in Threads, kind = "depth" /\ DepthWrites(t) PROVE Locked'
    BY <2>8 DEF DepthWrites, StaysAs
  <2>9. ASSUME NEW t \in Threads, kind = "depth" /\ DepthRaises(t) PROVE Locked'
    BY <2>9 DEF DepthRaises, StaysAs
  <2>10. ASSUME NEW t \in Threads, kind = "depth" /\ DepthEmits(t) PROVE Locked'
    BY <2>10 DEF DepthEmits, StaysAs
  <2>11. ASSUME NEW t \in Threads, kind = "quest_camera" /\ SinkTaken(t) PROVE Locked'
    BY <2>11 DEF SinkTaken, StaysAs
  <2>12. ASSUME NEW t \in Threads, kind = "quest_camera" /\ SinkMuxes(t) PROVE Locked'
    BY <2>12 DEF SinkMuxes, StaysAs
  <2>13. ASSUME NEW t \in Threads, kind = "quest_camera" /\ SinkEmits(t) PROVE Locked'
    BY <2>13 DEF SinkEmits, StaysAs
  <2> QED
    BY <1>7, <2>1, <2>2, <2>3, <2>4, <2>5, <2>6, <2>7, <2>8, <2>9, <2>10, <2>11, <2>12, <2>13
       DEF CameraFrame
<1>8. CASE UNCHANGED cameraVars
  BY <1>8
<1> QED
  BY <1>2, <1>3, <1>4, <1>5, <1>6, <1>7, <1>8, Steps DEF PollStep, PushStep, BleStep,
     QuestStep, AudioStep, OgloStep, CameraKinds

\* The OVISION writes, counts and emits what it has queued.
LEMMA PackedStep ==
  ASSUME Types, Owners, Packed, [Next]_cameraVars
  PROVE  Packed'
<1> USE DEF Types, Shape, Numbers, Gated, Owners, Owned, Own, Off, Restarting, Supervised,
     Joining, Reads, May, CameraKinds, Reporting, Some, One, Packed, Window, session, reader,
     window, vars, camera, cameraVars, Adapter, To, Connecting, Emit, Spawn, Goto, End, Fresh,
     Free, Live, Threads
<1>1. kind' = kind
  BY SameKind
<1>2. CASE ~(kind = "ovision")
  BY <1>1, <1>2
<1>3. CASE GateStep
  BY <1>1, <1>3 DEF GateStep, OpenGate, CloseGate
<1>4. CASE CameraConnection
  <2>1. kind \in CameraKinds
    BY <1>4 DEF CameraConnection
  <2>2. CASE CameraConnect
    BY <2>1, <2>2 DEF CameraConnect, OpenCamera, StartCapture, Claimed
  <2>3. CASE CameraConnectFails
    BY <2>1, <2>3 DEF CameraConnectFails
  <2>4. CASE CameraRaiseStop
    BY <2>1, <2>4 DEF CameraRaiseStop
  <2>5. CASE SupBegins
    BY <2>1, <2>5 DEF SupBegins
  <2>6. CASE CameraJoin
    BY <2>1, <2>6 DEF CameraJoin, Release, AllJoined, Outlives
  <2>7. CASE SupJoins
    BY <2>1, <2>7 DEF SupJoins, Release, AllJoined, Outlives
  <2>8. CASE SupOpens
    BY <2>1, <2>8 DEF SupOpens, OpenCamera, StartCapture, Dead
  <2>9. CASE SupFails
    BY <2>1, <2>9 DEF SupFails
  <2>10. CASE CameraRestart
    BY <2>1, <2>10 DEF CameraRestart, OpenCamera, StartCapture, Restarts, Dead
  <2>11. CASE CameraStartFails
    BY <2>1, <2>11 DEF CameraStartFails
  <2> QED
    BY <1>4, <2>2, <2>3, <2>4, <2>5, <2>6, <2>7, <2>8, <2>9, <2>10, <2>11 DEF CameraConnection,
       CameraOperator
<1>5. CASE CameraWindow
  <2>1. kind \in CameraKinds
    BY <1>5 DEF CameraWindow
  <2>2. CASE CameraArm
    BY <2>1, <2>2 DEF CameraArm
  <2>3. CASE SealCamera
    BY <2>1, <2>3 DEF SealCamera
  <2>4. CASE LowerCameraFlag
    BY <2>1, <2>4 DEF LowerCameraFlag
  <2>5. CASE CloseCameraFile
    BY <2>1, <2>5 DEF CloseCameraFile, Drained
  <2>6. CASE CameraReport
    BY <2>1, <2>6 DEF CameraReport, Drained
  <2> QED
    BY <1>5, <2>2, <2>3, <2>4, <2>5, <2>6 DEF CameraWindow
<1>6. CASE CameraReader
  <2>1. kind \in CameraKinds
    BY <1>6 DEF CameraReader
  <2>2. CASE AvDelivers
    BY <2>1, <2>2 DEF AvDelivers
  <2>3. ASSUME NEW t \in Threads, FrameArrives(t) PROVE Packed'
    BY <2>1, <2>3 DEF FrameArrives, StaysAs
  <2>4. ASSUME NEW t \in Threads, LoopStops(t) PROVE Packed'
    BY <2>1, <2>4 DEF LoopStops, StaysAs
  <2>5. ASSUME NEW t \in Threads, CameraLost(t) PROVE Packed'
    BY <2>1, <2>5 DEF CameraLost, StaysAs
  <2>6. ASSUME NEW t \in Threads, PreviewDrops(t) PROVE Packed'
    BY <2>1, <2>6 DEF PreviewDrops, StaysAs
  <2>7. ASSUME NEW t \in Threads, kind = "quest_camera" /\ PreviewResumes(t) PROVE Packed'
    BY <2>1, <2>7 DEF PreviewResumes, StaysAs
  <2>8. ASSUME NEW t \in Threads, AvStalls(t) PROVE Packed'
    BY <2>1, <2>8 DEF AvStalls, StaysAs
  <2>9. ASSUME NEW t \in Threads, kind = "av" /\ AvRestarted(t) PROVE Packed'
    BY <2>1, <2>9 DEF AvRestarted, Claimed, StaysAs
  <2>10. ASSUME NEW t \in Threads, kind = "av" /\ AvRestartFails(t) PROVE Packed'
    BY <2>1, <2>10 DEF AvRestartFails, StaysAs
  <2>11. ASSUME NEW t \in Threads, DeviceReported(t) PROVE Packed'
    BY <2>1, <2>11 DEF DeviceReported
  <2> QED
    BY <1>6, <2>2, <2>3, <2>4, <2>5, <2>6, <2>7, <2>8, <2>9, <2>10, <2>11 DEF CameraReader,
       CameraDevice
<1>7. CASE CameraFrame
  <2>1. ASSUME NEW t \in Threads, kind \in {"uvc", "av"} /\ UvcFrame(t) PROVE Packed'
    BY <2>1 DEF UvcFrame, Raises, Record, Skip, StaysAs
  <2>2. ASSUME NEW t \in Threads, kind = "oak" /\ OakFrame(t) PROVE Packed'
    BY <2>2 DEF OakFrame, Raises, Record, Skip, StaysAs
  <2>3. ASSUME NEW t \in Threads, kind = "ovision" /\ OvisionPut(t) PROVE Packed'
    BY <2>3 DEF OvisionPut, StaysAs
  <2>4. ASSUME NEW t \in Threads, kind = "ovision" /\ OvisionPack(t) PROVE Packed'
    BY <2>4 DEF OvisionPack, Record, Skip, StaysAs
  <2>5. ASSUME NEW t \in Threads, kind = "ovision" /\ OvisionPackEnds(t) PROVE Packed'
    BY <2>5 DEF OvisionPackEnds, StaysAs
  <2>6. ASSUME NEW t \in Threads, kind = "depth" /\ DepthCounts(t) PROVE Packed'
    BY <2>6 DEF DepthCounts, StaysAs
  <2>7. ASSUME NEW t \in Threads, kind = "depth" /\ DepthSkips(t) PROVE Packed'
    BY <2>7 DEF DepthSkips, StaysAs
  <2>8. ASSUME NEW t \in Threads, kind = "depth" /\ DepthWrites(t) PROVE Packed'
    BY <2>8 DEF DepthWrites, StaysAs
  <2>9. ASSUME NEW t \in Threads, kind = "depth" /\ DepthRaises(t) PROVE Packed'
    BY <2>9 DEF DepthRaises, StaysAs
  <2>10. ASSUME NEW t \in Threads, kind = "depth" /\ DepthEmits(t) PROVE Packed'
    BY <2>10 DEF DepthEmits, StaysAs
  <2>11. ASSUME NEW t \in Threads, kind = "quest_camera" /\ SinkTaken(t) PROVE Packed'
    BY <2>11 DEF SinkTaken, StaysAs
  <2>12. ASSUME NEW t \in Threads, kind = "quest_camera" /\ SinkMuxes(t) PROVE Packed'
    BY <2>12 DEF SinkMuxes, StaysAs
  <2>13. ASSUME NEW t \in Threads, kind = "quest_camera" /\ SinkEmits(t) PROVE Packed'
    BY <2>13 DEF SinkEmits, StaysAs
  <2> QED
    BY <1>7, <2>1, <2>2, <2>3, <2>4, <2>5, <2>6, <2>7, <2>8, <2>9, <2>10, <2>11, <2>12, <2>13
       DEF CameraFrame
<1>8. CASE UNCHANGED cameraVars
  BY <1>8
<1> QED
  BY <1>2, <1>3, <1>4, <1>5, <1>6, <1>7, <1>8, Steps DEF PollStep, PushStep, BleStep,
     QuestStep, AudioStep, OgloStep, CameraKinds

\* The OAK with depth is one frame behind its counter at most.
LEMMA DeepStep ==
  ASSUME Types, Owners, Deep, [Next]_cameraVars
  PROVE  Deep'
<1> USE DEF Types, Shape, Numbers, Gated, Owners, Owned, Own, Off, Restarting, Supervised,
     Joining, Reads, May, CameraKinds, Reporting, Some, One, Deep, Window, session, reader,
     window, vars, camera, cameraVars, Adapter, To, Connecting, Emit, Spawn, Goto, End, Fresh,
     Free, Live, Threads
<1>1. kind' = kind
  BY SameKind
<1>2. CASE ~(kind = "depth")
  BY <1>1, <1>2
<1>3. CASE GateStep
  BY <1>1, <1>3 DEF GateStep, OpenGate, CloseGate
<1>4. CASE CameraConnection
  <2>1. kind \in CameraKinds
    BY <1>4 DEF CameraConnection
  <2>2. CASE CameraConnect
    BY <2>1, <2>2 DEF CameraConnect, OpenCamera, StartCapture, Claimed
  <2>3. CASE CameraConnectFails
    BY <2>1, <2>3 DEF CameraConnectFails
  <2>4. CASE CameraRaiseStop
    BY <2>1, <2>4 DEF CameraRaiseStop
  <2>5. CASE SupBegins
    BY <2>1, <2>5 DEF SupBegins
  <2>6. CASE CameraJoin
    BY <2>1, <2>6 DEF CameraJoin, Release, AllJoined, Outlives
  <2>7. CASE SupJoins
    BY <2>1, <2>7 DEF SupJoins, Release, AllJoined, Outlives
  <2>8. CASE SupOpens
    <3> SUFFICES ASSUME kind = "depth", Reporting(kind), OpenCamera, Dead PROVE Deep'
      BY <1>1, <1>2, <2>8 DEF SupOpens
    <3>1. \A t \in Threads : pc[t] = "none"
      BY DEF Dead
    <3>2. \A t \in Threads : pc'[t] \in {"none", "read"}
      BY <3>1, Captured DEF OpenCamera
    <3>3. /\ phase' = phase /\ (rows + refused)' = rows + refused /\ ~recording' /\ flawed'
          /\ UNCHANGED <<writer, media, report>>
      BY <2>8 DEF SupOpens, OpenCamera
    <3> QED
      BY <1>1, <3>1, <3>2, <3>3
  <2>9. CASE SupFails
    BY <2>1, <2>9 DEF SupFails
  <2>10. CASE CameraRestart
    BY <2>1, <2>10 DEF CameraRestart, OpenCamera, StartCapture, Restarts, Dead
  <2>11. CASE CameraStartFails
    BY <2>1, <2>11 DEF CameraStartFails
  <2> QED
    BY <1>4, <2>2, <2>3, <2>4, <2>5, <2>6, <2>7, <2>8, <2>9, <2>10, <2>11 DEF CameraConnection,
       CameraOperator
<1>5. CASE CameraWindow
  <2>1. kind \in CameraKinds
    BY <1>5 DEF CameraWindow
  <2>2. CASE CameraArm
    BY <2>1, <2>2 DEF CameraArm
  <2>3. CASE SealCamera
    BY <2>1, <2>3 DEF SealCamera
  <2>4. CASE LowerCameraFlag
    BY <2>1, <2>4 DEF LowerCameraFlag
  <2>5. CASE CloseCameraFile
    BY <2>1, <2>5 DEF CloseCameraFile, Drained
  <2>6. CASE CameraReport
    BY <2>1, <2>6 DEF CameraReport, Drained
  <2> QED
    BY <1>5, <2>2, <2>3, <2>4, <2>5, <2>6 DEF CameraWindow
<1>6. CASE CameraReader
  <2>1. kind \in CameraKinds
    BY <1>6 DEF CameraReader
  <2>2. CASE AvDelivers
    BY <2>1, <2>2 DEF AvDelivers
  <2>3. ASSUME NEW t \in Threads, FrameArrives(t) PROVE Deep'
    BY <2>1, <2>3 DEF FrameArrives, StaysAs
  <2>4. ASSUME NEW t \in Threads, LoopStops(t) PROVE Deep'
    BY <2>1, <2>4 DEF LoopStops, StaysAs
  <2>5. ASSUME NEW t \in Threads, CameraLost(t) PROVE Deep'
    BY <2>1, <2>5 DEF CameraLost, StaysAs
  <2>6. ASSUME NEW t \in Threads, PreviewDrops(t) PROVE Deep'
    BY <2>1, <2>6 DEF PreviewDrops, StaysAs
  <2>7. ASSUME NEW t \in Threads, kind = "quest_camera" /\ PreviewResumes(t) PROVE Deep'
    BY <2>1, <2>7 DEF PreviewResumes, StaysAs
  <2>8. ASSUME NEW t \in Threads, AvStalls(t) PROVE Deep'
    BY <2>1, <2>8 DEF AvStalls, StaysAs
  <2>9. ASSUME NEW t \in Threads, kind = "av" /\ AvRestarted(t) PROVE Deep'
    BY <2>1, <2>9 DEF AvRestarted, Claimed, StaysAs
  <2>10. ASSUME NEW t \in Threads, kind = "av" /\ AvRestartFails(t) PROVE Deep'
    BY <2>1, <2>10 DEF AvRestartFails, StaysAs
  <2>11. ASSUME NEW t \in Threads, DeviceReported(t) PROVE Deep'
    BY <2>1, <2>11 DEF DeviceReported
  <2> QED
    BY <1>6, <2>2, <2>3, <2>4, <2>5, <2>6, <2>7, <2>8, <2>9, <2>10, <2>11 DEF CameraReader,
       CameraDevice
<1>7. CASE CameraFrame
  <2>1. ASSUME NEW t \in Threads, kind \in {"uvc", "av"} /\ UvcFrame(t) PROVE Deep'
    BY <2>1 DEF UvcFrame, Raises, Record, Skip, StaysAs
  <2>2. ASSUME NEW t \in Threads, kind = "oak" /\ OakFrame(t) PROVE Deep'
    BY <2>2 DEF OakFrame, Raises, Record, Skip, StaysAs
  <2>3. ASSUME NEW t \in Threads, kind = "ovision" /\ OvisionPut(t) PROVE Deep'
    BY <2>3 DEF OvisionPut, StaysAs
  <2>4. ASSUME NEW t \in Threads, kind = "ovision" /\ OvisionPack(t) PROVE Deep'
    BY <2>4 DEF OvisionPack, Record, Skip, StaysAs
  <2>5. ASSUME NEW t \in Threads, kind = "ovision" /\ OvisionPackEnds(t) PROVE Deep'
    BY <2>5 DEF OvisionPackEnds, StaysAs
  <2>6. ASSUME NEW t \in Threads, kind = "depth" /\ DepthCounts(t) PROVE Deep'
    BY <2>6 DEF DepthCounts, StaysAs
  <2>7. ASSUME NEW t \in Threads, kind = "depth" /\ DepthSkips(t) PROVE Deep'
    BY <2>7 DEF DepthSkips, StaysAs
  <2>8. ASSUME NEW t \in Threads, kind = "depth" /\ DepthWrites(t) PROVE Deep'
    BY <2>8 DEF DepthWrites, StaysAs
  <2>9. ASSUME NEW t \in Threads, kind = "depth" /\ DepthRaises(t) PROVE Deep'
    BY <2>9 DEF DepthRaises, StaysAs
  <2>10. ASSUME NEW t \in Threads, kind = "depth" /\ DepthEmits(t) PROVE Deep'
    BY <2>10 DEF DepthEmits, StaysAs
  <2>11. ASSUME NEW t \in Threads, kind = "quest_camera" /\ SinkTaken(t) PROVE Deep'
    BY <2>11 DEF SinkTaken, StaysAs
  <2>12. ASSUME NEW t \in Threads, kind = "quest_camera" /\ SinkMuxes(t) PROVE Deep'
    BY <2>12 DEF SinkMuxes, StaysAs
  <2>13. ASSUME NEW t \in Threads, kind = "quest_camera" /\ SinkEmits(t) PROVE Deep'
    BY <2>13 DEF SinkEmits, StaysAs
  <2> QED
    BY <1>7, <2>1, <2>2, <2>3, <2>4, <2>5, <2>6, <2>7, <2>8, <2>9, <2>10, <2>11, <2>12, <2>13
       DEF CameraFrame
<1>8. CASE UNCHANGED cameraVars
  BY <1>8
<1> QED
  BY <1>2, <1>3, <1>4, <1>5, <1>6, <1>7, <1>8, Steps DEF PollStep, PushStep, BleStep,
     QuestStep, AudioStep, OgloStep, CameraKinds

\* The sink of the headset's camera is two frames behind its rows at most.
LEMMA SunkStep ==
  ASSUME Types, Owners, Sunk, [Next]_cameraVars
  PROVE  Sunk'
<1> USE DEF Types, Shape, Numbers, Gated, Owners, Owned, Own, Off, Restarting, Supervised,
     Joining, Reads, May, CameraKinds, Reporting, Some, One, Sunk, Late, Window, session,
     reader, window, vars, camera, cameraVars, Adapter, To, Connecting, Emit, Spawn, Goto,
     End, Fresh, Free, Live, Threads
<1>1. kind' = kind
  BY SameKind
<1>2. CASE ~(kind = "quest_camera")
  BY <1>1, <1>2
<1>3. CASE GateStep
  BY <1>1, <1>3 DEF GateStep, OpenGate, CloseGate
<1>4. CASE CameraConnection
  <2>1. kind \in CameraKinds
    BY <1>4 DEF CameraConnection
  <2>2. CASE CameraConnect
    BY <2>1, <2>2 DEF CameraConnect, OpenCamera, StartCapture, Claimed
  <2>3. CASE CameraConnectFails
    BY <2>1, <2>3 DEF CameraConnectFails
  <2>4. CASE CameraRaiseStop
    BY <2>1, <2>4 DEF CameraRaiseStop
  <2>5. CASE SupBegins
    BY <2>1, <2>5 DEF SupBegins
  <2>6. CASE CameraJoin
    BY <2>1, <2>6 DEF CameraJoin, Release, AllJoined, Outlives
  <2>7. CASE SupJoins
    BY <2>1, <2>7 DEF SupJoins, Release, AllJoined, Outlives
  <2>8. CASE SupOpens
    BY <2>1, <2>8 DEF SupOpens, OpenCamera, StartCapture, Dead
  <2>9. CASE SupFails
    BY <2>1, <2>9 DEF SupFails
  <2>10. CASE CameraRestart
    BY <2>1, <2>10 DEF CameraRestart, OpenCamera, StartCapture, Restarts, Dead
  <2>11. CASE CameraStartFails
    BY <2>1, <2>11 DEF CameraStartFails
  <2> QED
    BY <1>4, <2>2, <2>3, <2>4, <2>5, <2>6, <2>7, <2>8, <2>9, <2>10, <2>11 DEF CameraConnection,
       CameraOperator
<1>5. CASE CameraWindow
  <2>1. kind \in CameraKinds
    BY <1>5 DEF CameraWindow
  <2>2. CASE CameraArm
    BY <2>1, <2>2 DEF CameraArm
  <2>3. CASE SealCamera
    BY <2>1, <2>3 DEF SealCamera
  <2>4. CASE LowerCameraFlag
    BY <2>1, <2>4 DEF LowerCameraFlag
  <2>5. CASE CloseCameraFile
    BY <2>1, <2>5 DEF CloseCameraFile, Drained
  <2>6. CASE CameraReport
    BY <2>1, <2>6 DEF CameraReport, Drained
  <2> QED
    BY <1>5, <2>2, <2>3, <2>4, <2>5, <2>6 DEF CameraWindow
<1>6. CASE CameraReader
  <2>1. kind \in CameraKinds
    BY <1>6 DEF CameraReader
  <2>2. CASE AvDelivers
    BY <2>1, <2>2 DEF AvDelivers
  <2>3. ASSUME NEW t \in Threads, FrameArrives(t) PROVE Sunk'
    BY <2>1, <2>3 DEF FrameArrives, StaysAs
  <2>4. ASSUME NEW t \in Threads, LoopStops(t) PROVE Sunk'
    BY <2>1, <2>4 DEF LoopStops, StaysAs
  <2>5. ASSUME NEW t \in Threads, CameraLost(t) PROVE Sunk'
    BY <2>1, <2>5 DEF CameraLost, StaysAs
  <2>6. ASSUME NEW t \in Threads, PreviewDrops(t) PROVE Sunk'
    BY <2>1, <2>6 DEF PreviewDrops, StaysAs
  <2>7. ASSUME NEW t \in Threads, kind = "quest_camera" /\ PreviewResumes(t) PROVE Sunk'
    BY <2>1, <2>7 DEF PreviewResumes, StaysAs
  <2>8. ASSUME NEW t \in Threads, AvStalls(t) PROVE Sunk'
    BY <2>1, <2>8 DEF AvStalls, StaysAs
  <2>9. ASSUME NEW t \in Threads, kind = "av" /\ AvRestarted(t) PROVE Sunk'
    BY <2>1, <2>9 DEF AvRestarted, Claimed, StaysAs
  <2>10. ASSUME NEW t \in Threads, kind = "av" /\ AvRestartFails(t) PROVE Sunk'
    BY <2>1, <2>10 DEF AvRestartFails, StaysAs
  <2>11. ASSUME NEW t \in Threads, DeviceReported(t) PROVE Sunk'
    BY <2>1, <2>11 DEF DeviceReported
  <2> QED
    BY <1>6, <2>2, <2>3, <2>4, <2>5, <2>6, <2>7, <2>8, <2>9, <2>10, <2>11 DEF CameraReader,
       CameraDevice
<1>7. CASE CameraFrame
  <2>1. ASSUME NEW t \in Threads, kind \in {"uvc", "av"} /\ UvcFrame(t) PROVE Sunk'
    BY <2>1 DEF UvcFrame, Raises, Record, Skip, StaysAs
  <2>2. ASSUME NEW t \in Threads, kind = "oak" /\ OakFrame(t) PROVE Sunk'
    BY <2>2 DEF OakFrame, Raises, Record, Skip, StaysAs
  <2>3. ASSUME NEW t \in Threads, kind = "ovision" /\ OvisionPut(t) PROVE Sunk'
    BY <2>3 DEF OvisionPut, StaysAs
  <2>4. ASSUME NEW t \in Threads, kind = "ovision" /\ OvisionPack(t) PROVE Sunk'
    BY <2>4 DEF OvisionPack, Record, Skip, StaysAs
  <2>5. ASSUME NEW t \in Threads, kind = "ovision" /\ OvisionPackEnds(t) PROVE Sunk'
    BY <2>5 DEF OvisionPackEnds, StaysAs
  <2>6. ASSUME NEW t \in Threads, kind = "depth" /\ DepthCounts(t) PROVE Sunk'
    BY <2>6 DEF DepthCounts, StaysAs
  <2>7. ASSUME NEW t \in Threads, kind = "depth" /\ DepthSkips(t) PROVE Sunk'
    BY <2>7 DEF DepthSkips, StaysAs
  <2>8. ASSUME NEW t \in Threads, kind = "depth" /\ DepthWrites(t) PROVE Sunk'
    BY <2>8 DEF DepthWrites, StaysAs
  <2>9. ASSUME NEW t \in Threads, kind = "depth" /\ DepthRaises(t) PROVE Sunk'
    BY <2>9 DEF DepthRaises, StaysAs
  <2>10. ASSUME NEW t \in Threads, kind = "depth" /\ DepthEmits(t) PROVE Sunk'
    BY <2>10 DEF DepthEmits, StaysAs
  <2>11. ASSUME NEW t \in Threads, kind = "quest_camera" /\ SinkTaken(t) PROVE Sunk'
    BY <2>11 DEF SinkTaken, StaysAs
  <2>12. ASSUME NEW t \in Threads, kind = "quest_camera" /\ SinkMuxes(t) PROVE Sunk'
    <3>1. /\ pc[t] \in {"mux", "late"} /\ pc' = [pc EXCEPT ![t] = "emit"]
          /\ UNCHANGED <<kind, session, recording, writer, count, report, sup, own>>
      BY <2>12 DEF SinkMuxes, StaysAs
    <3>2. PICK error \in May("mux") :
            /\ media' = IF pc[t] = "mux" /\ ~error THEN media + 1 ELSE media
            /\ flawed' = (flawed \/ (pc[t] = "mux" /\ error))
      BY <2>12, Zenon DEF SinkMuxes
    <3>3. ~flawed' => ~flawed /\ (pc[t] = "mux" => ~error)
      BY <3>2, Zenon
    <3>4. ~flawed' => media' = IF pc[t] = "mux" THEN media + 1 ELSE media
      BY <3>2, <3>3
    <3>5. media' \in Nat
      BY <3>2
    <3> HIDE DEF May
    <3>6. CASE flawed'
      BY <2>12, <3>1, <3>6
    <3>7. CASE ~flawed' /\ pc[t] = "mux"
      BY <2>12, <3>1, <3>3, <3>4, <3>7
    <3>8. CASE ~flawed' /\ pc[t] = "late"
      BY <2>12, <3>1, <3>3, <3>4, <3>8
    <3> QED
      BY <3>1, <3>6, <3>7, <3>8
  <2>13. ASSUME NEW t \in Threads, kind = "quest_camera" /\ SinkEmits(t) PROVE Sunk'
    BY <2>13 DEF SinkEmits, StaysAs
  <2> QED
    BY <1>7, <2>1, <2>2, <2>3, <2>4, <2>5, <2>6, <2>7, <2>8, <2>9, <2>10, <2>11, <2>12, <2>13
       DEF CameraFrame
<1>8. CASE UNCHANGED cameraVars
  BY <1>8
<1> QED
  BY <1>2, <1>3, <1>4, <1>5, <1>6, <1>7, <1>8, Steps DEF PollStep, PushStep, BleStep,
     QuestStep, AudioStep, OgloStep, CameraKinds

\* A recording stays one for the adapter.
LEMMA KeptStep ==
  ASSUME Types, Restarting, Supervised, Kept, [Next]_cameraVars
  PROVE  Kept'
<1> USE DEF Kept, Undisturbed, Supervised, CameraKinds, Types, Shape, session, reader, window,
     vars, camera, cameraVars, Adapter, To, Connecting, Emit, Spawn, Goto, End, Fresh, Free,
     Live, Threads
<1>1. CASE GateStep
  BY <1>1 DEF GateStep, OpenGate, CloseGate
<1>2. CASE PollStep
  BY <1>2 DEF PollStep, PollConnect, PollOpenFails, RaiseStop, PollCalls, Begin, LowerFlag,
     ReadCounters, Join, Joined, PollThread, PollGivesUp, PollRead, Count, LoopEnds,
     ResetCounters
<1>3. CASE PushStep
  BY <1>3 DEF PushStep, PushConnect, PushDisconnect, PushStart, PushStop, Begin, LowerFlag,
     ReadCounters, Count, Push, ResetCounters
<1>4. CASE BleStep
  BY <1>4 DEF BleStep, BleConnect, RaiseStop, BleCalls, BleThread, BleOpenFails, BleStart,
     LowerFlag, ReadCounters, Join, Joined, ThreadDead, BleOpen, BleNotify, EmitCounted,
     BleEnds
<1>5. CASE QuestStep
  BY <1>5 DEF QuestStep, QuestConnect, QuestBindFails, RaiseStop, QuestCalls, QuestThread,
     QuestFlag, QuestReset, LowerFlag, ReadCounters, QuestJoin, Join, Joined, QuestPacket,
     EmitCounted, QuestEnds, Responder
<1>6. CASE AudioStep
  BY <1>6 DEF AudioStep, AudioConnect, AudioConnectFails, AudioDisconnect, AudioCalls,
     AudioThread, AudioLevel, AudioStart, LowerFlag, AudioCloseFile, AudioReport,
     ReadCounters, AudioLooks, AudioWrites, AudioRaises, AudioCounts
<1>7. CASE OgloStep
  BY <1>7 DEF OgloStep, OgloConnect, RaiseStop, OgloCalls, OgloThread, OgloTactile,
     OgloDerived, OgloLinkLost, StartReader, ThreadDead, OgloReady, OgloRefused, OgloRestart,
     OgloRestarted, OgloRestartFails, OgloFiles, OgloArm, OgloSeal, ReadCounters, Join,
     Joined, OgloOpen, OgloFails, OgloFirst, OgloAdopts, OgloGivesUp, OgloEnds, ResetCounters
<1>8. CASE CameraConnection
  <2> USE <1>8
  <2>1. CASE CameraOperator
    BY <2>1 DEF CameraOperator, CameraConnect, CameraConnectFails, CameraRaiseStop, SupBegins,
       OpenCamera, StartCapture, Restarting
  <2>2. CASE CameraJoin \/ SupJoins
    BY <2>2 DEF CameraJoin, SupJoins, Release
  <2>3. CASE SupOpens
    BY <2>3 DEF SupOpens, OpenCamera
  <2>4. CASE SupFails
    BY <2>4 DEF SupFails
  <2>5. CASE CameraRestart
    BY <2>5 DEF CameraRestart, OpenCamera
  <2>6. CASE CameraStartFails
    BY <2>6 DEF CameraStartFails
  <2> QED
    BY <2>1, <2>2, <2>3, <2>4, <2>5, <2>6 DEF CameraConnection
<1>9. CASE CameraWindow
  BY <1>9 DEF CameraWindow, CameraArm, SealCamera, LowerCameraFlag, CloseCameraFile,
     CameraReport, Drained, Restarts, Dead
<1>10. CASE CameraReader
  <2> USE <1>10
  <2>1. ASSUME NEW t \in Threads, CameraDevice(t) PROVE Kept'
    BY <2>1 DEF CameraDevice, CameraLost, DeviceReported, PreviewDrops, AvStalls
  <2>2. ASSUME NEW t \in Threads, kind = "av" /\ AvRestartFails(t) PROVE Kept'
    BY <2>2 DEF AvRestartFails, Restarting
  <2>3. CASE AvDelivers
    BY <2>3 DEF AvDelivers
  <2>4. ASSUME NEW t \in Threads,
               FrameArrives(t) \/ LoopStops(t) \/ PreviewResumes(t) \/ AvRestarted(t)
        PROVE  Kept'
    BY <2>4 DEF FrameArrives, LoopStops, PreviewResumes, AvRestarted, StaysAs
  <2> QED
    BY <2>1, <2>2, <2>3, <2>4 DEF CameraReader, CameraDevice
<1>11. CASE CameraFrame
  <2>1. ASSUME NEW t \in Threads, kind \in {"uvc", "av"} /\ UvcFrame(t) PROVE Kept'
    <3>1. UNCHANGED <<kind, phase, recording, sup>> /\ (lost' = lost \/ "disk" \in Faults)
      BY <2>1 DEF UvcFrame, Raises, Record, Skip, StaysAs, May
    <3> QED
      BY <2>1, <3>1
  <2>2. ASSUME NEW t \in Threads, kind = "oak" /\ OakFrame(t) PROVE Kept'
    <3>1. UNCHANGED <<kind, phase, recording, sup>> /\ (lost' = lost \/ "disk" \in Faults)
      BY <2>2 DEF OakFrame, Raises, Record, Skip, StaysAs, May
    <3> QED
      BY <2>2, <3>1
  <2>3. ASSUME NEW t \in Threads, OvisionPut(t) \/ OvisionPack(t) \/ OvisionPackEnds(t)
        PROVE  Kept'
    BY <2>3 DEF OvisionPut, OvisionPack, OvisionPackEnds, Record, Skip, StaysAs
  <2>4. ASSUME NEW t \in Threads,
               DepthCounts(t) \/ DepthSkips(t) \/ DepthWrites(t) \/ DepthRaises(t) \/ DepthEmits(t)
        PROVE  Kept'
    BY <2>4 DEF DepthCounts, DepthSkips, DepthWrites, DepthRaises, DepthEmits, StaysAs
  <2>5. ASSUME NEW t \in Threads, SinkTaken(t) \/ SinkMuxes(t) \/ SinkEmits(t)
        PROVE  Kept'
    BY <2>5 DEF SinkTaken, SinkMuxes, SinkEmits, StaysAs
  <2> QED
    BY <1>11, <2>1, <2>2, <2>3, <2>4, <2>5 DEF CameraFrame
<1>12. CASE UNCHANGED cameraVars
  BY <1>12
<1> QED
  BY <1>1, <1>2, <1>3, <1>4, <1>5, <1>6, <1>7, <1>8, <1>9, <1>10, <1>11, <1>12, Steps


-----------------------------------------------------------------------------
\* The invariant holds before the first connect().
LEMMA AdaptersInit == Init => AInv
<1> SUFFICES ASSUME Init PROVE AInv
  OBVIOUS
<1> USE DEF Init, SensorInit, CaptureInit, CameraInit, Threads, Window
<1>1. Types
  BY DEF Types, Shape, Numbers, Gated, Adapter
<1>2. /\ phase = "off" /\ sup = "idle" /\ own = 0 /\ ready = "no" /\ holds = {} /\ ~lost
      /\ recording = FALSE /\ writer = FALSE
      /\ rows = 0 /\ refused = 0 /\ media = 0 /\ count = 0 /\ report = 0 /\ queue = 0
      /\ \A t \in Threads :
           pc[t] \in {"none", "answer", "idle"} /\ (pc[t] = "idle" => kind = "push")
      /\ \A t \in Threads : pc[t] = "answer" => kind = "quest"
      /\ kind = "push" => pc[1] = "none" /\ pc[3] = "none"
  OBVIOUS
<1> HIDE DEF Init
<1>3. Owners
  BY <1>2 DEF Owners, Owned, Own, Off, Refused, Restarting, Supervised, Held, Reads, Live
<1>4. Survivors /\ Kept
  BY <1>2 DEF Survivors, Kept, Live
<1>5. Polled /\ Pushed /\ Received /\ Routed /\ Listening
  BY <1>2 DEF Polled, Pushed, Tallied, Received, Routed, Listening, One, Some
<1>6. Locked /\ Packed /\ Deep /\ Sunk
  BY <1>2 DEF Locked, Packed, Deep, Sunk, Late, One, Some
<1> QED
  BY <1>1, <1>3, <1>4, <1>5, <1>6 DEF AInv, Reports

\* No step of any call, thread, device or supervisor breaks the invariant.
LEMMA AdaptersStep == ASSUME AInv, [Next]_cameraVars PROVE AInv'
<1>1. Types'
  BY ShapeStep, NumbersStep, GatedStep DEF AInv, Types
<1>2. Owners'
  BY OwnedStep, HeldStep DEF AInv, Owners
<1>3. Survivors'
  BY SurvivorsStep DEF AInv
<1>5. Kept'
  BY KeptStep DEF AInv, Owners, Owned
<1>4. Reports'
  BY PolledStep, PushedStep, ReceivedStep, RoutedStep, ListeningStep, LockedStep, PackedStep,
     DeepStep, SunkStep DEF AInv, Reports
<1> QED
  BY <1>1, <1>2, <1>3, <1>4, <1>5 DEF AInv

\* The invariant holds of every adapter at any time, whatever goes wrong.
THEOREM AdaptersInvariance == Spec => []AInv
<1>1. AInv /\ [Next]_cameraVars => AInv'
  BY AdaptersStep
<1> QED
  BY <1>1, AdaptersInit, PTL DEF Spec

\* One thread at most reads a device, and nothing runs or is open when connect() has
\* failed or disconnect() has returned, if disconnect() waits for its threads and what
\* a failed connect() had opened is closed (connect() and disconnect() of the adapters).
THEOREM DevicesHaveOneOwner ==
  ASSUME \A k \in Kinds : Joining(k) /\ Releasing(k)
  PROVE  Spec => []OneOwner
<1>1. AInv => OneOwner
  <2> SUFFICES ASSUME AInv PROVE OneReader /\ DisconnectReleases
    BY DEF OneOwner
  <2>1. Joining(kind) /\ Releasing(kind)
    BY DEF AInv, Types, Shape
  <2>2. {t \in Threads : Reads(t)} \subseteq {own}
    BY <2>1 DEF AInv, Owners, Owned, Own
  <2>3. OneReader
    <3>1. IsFiniteSet({own}) /\ Cardinality({own}) = 1
      BY FS_Singleton
    <3>2. Cardinality({t \in Threads : Reads(t)}) <= Cardinality({own})
      BY <2>2, <3>1, FS_Subset
    <3> QED
      BY <3>1, <3>2 DEF OneReader
  <2>4. DisconnectReleases
    BY <2>1 DEF AInv, Owners, Owned, Off, Held, DisconnectReleases
  <2> QED
    BY <2>3, <2>4
<1> QED
  BY <1>1, AdaptersInvariance, PTL

\* The reader of a connected stream runs until the device is lost, but for the glove's and
\* OpenCV's, which end with a file they cannot write: for every other fault, every adapter.
THEOREM ReadersSurvive ==
  ASSUME \A k \in Kinds : Surviving(k)
  PROVE  Spec => []ReaderSurvives
<1>1. AInv => ReaderSurvives
  BY DEF AInv, Types, Shape, Survivors, ReaderSurvives
<1> QED
  BY <1>1, AdaptersInvariance, PTL

\* While the session records a stream, the adapter has its flag up: nothing but
\* stop_recording() ends a recording.  Not so for a camera that the supervisor was
\* reconnecting when start() began and whose disconnect() or connect() lowers the flag
\* (uvc_webcam.py, oak_camera.py, oak_rgb_depth.py: connect and disconnect;
\* orchestrator.py: "only adapters that opt in are reconnected once we're writing").
THEOREM RecordingsRecord ==
  ASSUME \A k \in Kinds : Undisturbed(k)
  PROVE  Spec => []RecordingRecords
<1>1. AInv => RecordingRecords
  BY DEF AInv, Types, Shape, Kept, RecordingRecords
<1> QED
  BY <1>1, AdaptersInvariance, PTL

\* The counts in a FinalizationReport agree with the rows and the frames in the files,
\* to the sample that is on its way when the window opens or closes and to the rows that
\* the session's writer refused, as long as no thread of an earlier connection counts along
\* and every frame could be written (stop_recording() of the adapters).
THEOREM ReportsStayTrue ==
  ASSUME \A k \in Kinds : Reporting(k)
  PROVE  Spec => []ReportsAreTrue
<1>1. AInv => ReportsAreTrue
  <2> SUFFICES ASSUME AInv, phase = "sealed" PROVE ReportsAreTrue
    BY DEF ReportsAreTrue
  <2> USE DEF ReportsAreTrue, Near, Slack, Exact, CameraKinds
  <2>1. /\ Reporting(kind) /\ Numbers
        /\ Polled /\ Pushed /\ Received /\ Routed /\ Listening
        /\ Locked /\ Packed /\ Deep /\ Sunk
    BY DEF AInv, Types, Shape, Reports
  <2>2. CASE kind \in {"poll", "push", "quest", "oglo"}
    BY <2>1, <2>2 DEF Polled, Pushed, Tallied, Received, Routed, Numbers
  <2>3. CASE kind \in {"uvc", "av", "oak", "ovision"}
    BY <2>1, <2>3 DEF Locked, Packed, Numbers
  <2>4. CASE kind = "audio"
    BY <2>1, <2>4 DEF Listening, Numbers
  <2>5. CASE kind = "depth"
    BY <2>1, <2>5 DEF Deep, Numbers, One, Some
  <2>6. CASE kind = "quest_camera"
    BY <2>1, <2>6 DEF Sunk, Late, Numbers, One, Some
  <2>7. CASE kind = "ble"
    BY <2>7
  <2> QED
    BY <2>2, <2>3, <2>4, <2>5, <2>6, <2>7, KindsAssumption DEF AInv, Types, Shape
<1> QED
  BY <1>1, AdaptersInvariance, PTL

=============================================================================
