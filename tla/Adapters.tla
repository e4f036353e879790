-------------------------------- MODULE Adapters --------------------------------
(***************************************************************************)
(* Any one of the capture adapters, sensor or camera, under the session's  *)
(* calls.                                                                  *)
(***************************************************************************)
EXTENDS OgloGlove, Cameras

ASSUME KindsAssumption ==
  Kinds \subseteq CameraKinds \union {"poll", "push", "ble", "quest", "audio", "oglo"}

\* What goes on by itself once a call or a thread has begun.
SensorCalls ==
  \/ kind = "poll" /\ PollCalls
  \/ kind = "push" /\ (PushStart \/ PushStop)
  \/ kind = "ble" /\ BleCalls
  \/ kind = "quest" /\ QuestCalls
  \/ kind = "audio" /\ AudioCalls
  \/ kind = "oglo" /\ OgloCalls
SensorThread(t) ==
  \/ kind = "poll" /\ PollThread(t)
  \/ kind = "push" /\ Count(t, "idle")
  \/ kind = "ble" /\ BleThread(t)
  \/ kind = "quest" /\ QuestThread(t)
  \/ kind = "audio" /\ AudioThread(t)
  \/ kind = "oglo" /\ OgloThread(t)
\* What the operator, the device and the user's threads may do or not.
SensorOperator ==
  \/ kind = "poll" /\ (PollConnect \/ PollOpenFails \/ RaiseStop)
  \/ kind = "push" /\ (PushConnect \/ PushDisconnect)
  \/ kind = "ble" /\ (BleConnect \/ RaiseStop)
  \/ kind = "quest" /\ (QuestConnect \/ QuestBindFails \/ RaiseStop)
  \/ kind = "audio" /\ (AudioConnect \/ AudioConnectFails \/ AudioDisconnect)
  \/ kind = "oglo" /\ (OgloConnect \/ RaiseStop)
SensorDevice(t) ==
  \/ kind = "poll" /\ PollGivesUp(t)
  \/ kind = "push" /\ Push(t)
  \/ kind = "ble" /\ BleOpenFails(t)
  \/ kind = "audio" /\ AudioLevel(t)
  \/ kind = "oglo" /\ (OgloTactile(t) \/ OgloDerived(t) \/ OgloLinkLost(t))

Sensor(act) == act /\ UNCHANGED camera
Calls == Sensor(SensorCalls) \/ CameraCalls
Thread(t) == Sensor(SensorThread(t)) \/ CameraThread(t)

Init == SensorInit /\ CameraInit
Next ==
  \/ Sensor(OpenGate) \/ Sensor(CloseGate)
  \/ Calls
  \/ Sensor(SensorOperator) \/ CameraOperator
  \/ AvDelivers
  \/ \E t \in Threads : Thread(t) \/ Sensor(SensorDevice(t)) \/ CameraDevice(t)

Spec == Init /\ [][Next]_cameraVars

\* The end of a thread that was told to stop.
Stops(t) ==
  \/ Sensor(kind = "poll" /\ LoopEnds(t))
  \/ Sensor(kind = "ble" /\ BleEnds(t))
  \/ Sensor(kind = "quest" /\ QuestEnds(t))
  \/ Sensor(kind = "oglo" /\ stop /\ (OgloEnds(t) \/ OgloFails(t) \/ OgloGivesUp(t)))

\* A call and a thread go on; a thread that is told to stop does so however many
\* samples arrive meanwhile.
FairSpec ==
  /\ Spec /\ WF_cameraVars(Calls) /\ \A t \in Threads : WF_cameraVars(Thread(t))
  /\ SF_cameraVars(\E t \in Threads : Stops(t))

-----------------------------------------------------------------------------
\* A report tells the truth about the files.  Every frame a sensor counts has a row
\* in the session's file, and a camera's video, its rows and the report have the same
\* frames: exactly where flag and file share a lock, else but for the one sample that
\* is on its way when the window opens and the one when it closes.  The rows that the
\* session's writer refused are missing, which no report tells.  Not so for the BLE
\* IMU, whose counter outlives the recording, and for a camera of which a packet was
\* lost or its write raised, or whose counter a reconnect() has reset: the headset's
\* lacks the frame in its video only.
Exact == kind \in {"oglo", "uvc", "av", "oak", "ovision"}
Slack == IF Exact THEN 0 ELSE IF kind = "quest_camera" THEN 2 ELSE 1
Near(a, b) == a - b \in -Slack..Slack
ReportsAreTrue ==
  phase = "sealed" =>
    /\ kind \notin {"ble", "audio"} \union CameraKinds => report <= rows + refused + Slack
    /\ kind = "audio" => Near(media, report)
    /\ kind \in CameraKinds /\ ~flawed =>
         /\ Near(media, rows + refused) /\ Near(report, rows + refused)
         /\ Near(media, report)
    /\ kind = "quest_camera" => Near(report, rows + refused)

\* As long as the stream is connected its reader runs ("Preview continues"):
\* it ends only with the device, which the adapter then reports, or to be started
\* again by the supervisor.  Not so for the adapters that close a file under their
\* own callback.
ReaderSurvives ==
  /\ phase \in {"on", "rec"} /\ sup = "idle"
  /\ kind \notin {"push", "audio", "depth"}
  => lost \/ Live(own)

\* The same for the microphone (HostAudioStream: stop_recording "Preview
\* continues") and the OAK with depth ("the pipeline stays live so the viewer
\* preview keeps rendering").
PreviewSurvives ==
  phase \in {"on", "rec"} /\ kind \in {"audio", "depth"} => lost \/ Live(own)

\* A report is about the recording it ends ("Begin counting incoming samples
\* toward the finalization report", ble_imu.py).
ReportIsOfThisRecording ==
  phase = "sealed" /\ kind = "ble" => report <= rows + refused + Slack

\* A stream that records and whose camera delivers writes what it delivers: "only
\* adapters that opt in are reconnected once we're writing" (orchestrator.py).
RecordingRecords == phase = "rec" /\ sup = "idle" /\ Live(own) => recording

\* No call of the session hangs in an adapter, but for the OVISION's that waits for
\* packets nobody will write.
CallsReturn == []<>(phase \in {"off", "on", "rec", "sealed"} \/ Abandoned)
=============================================================================
