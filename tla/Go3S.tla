---------------------------------- MODULE Go3S ----------------------------------
(***************************************************************************)
(* The Insta360 adapter (stream.py, ble/camera.py): a recording is started *)
(* and stopped over a BLE link that is held open, and stays on the camera's *)
(* card; stop_recording() makes it a job of the aggregation queue.         *)
(***************************************************************************)
EXTENDS Aggregation

CONSTANTS
  Policies,       \* subset of {"eager", "on_demand"}
  LinkFaults      \* "drop": the link drops; "lost": an acknowledgement is lost;
                  \* "refused": connecting fails; "half": after the link is up;
                  \* "nameless": the camera names no file, or never named its network

ASSUME LinkAssumption ==
  /\ Policies \subseteq {"eager", "on_demand"}
  /\ LinkFaults \subseteq {"drop", "lost", "refused", "half", "nameless"}

VARIABLES
  policy,
  take,           \* recordings begun, and the episode of the present one
  call,           \* what the session does with each camera
  link,           \* the BLE link the adapter holds: "none", "up", "down"
  orphan,         \* a link is open that no adapter holds
  device,         \* what the camera itself does
  card,           \* <<episode, camera>>: recordings on the cameras' cards
  job,            \* pending_aggregation_job: its episode and number, or 0
  report,         \* how the last stop_recording() ended
  unsaved         \* history: the manifest of its job could not be written ("yes"), and
                  \* the process has died with the job ("lost")

stream == <<policy, take, call, link, orphan, device, card, job, report, unsaved>>
vars == <<aggregation, stream>>
MayLink(fault) == IF fault \in LinkFaults THEN BOOLEAN ELSE {FALSE}

Init ==
  /\ AggregationInit
  /\ policy \in Policies /\ take = 0 /\ call = [c \in Cameras |-> "off"]
  /\ link = [c \in Cameras |-> "none"] /\ orphan = [c \in Cameras |-> FALSE]
  /\ device = [c \in Cameras |-> "idle"] /\ card = {}
  /\ job = [c \in Cameras |-> 0] /\ report = [c \in Cameras |-> "none"]
  /\ unsaved = [c \in Cameras |-> "no"]

Set(f, c, v) == [f EXCEPT ![c] = v]
Calling(c, step) == call' = Set(call, c, step)

\* Go3SBLECamera.connect(): a camera whose link is held answers nobody else; a
\* handshake that fails once the link is up leaves it open.
Handshake(c, result) ==
  \E refused \in MayLink("refused"), half \in MayLink("half") :
    /\ result = IF orphan[c] \/ refused \/ half THEN "raised" ELSE "up"
    /\ link' = Set(link, c, IF result = "up" THEN "up" ELSE "none")
    /\ orphan' = [orphan EXCEPT ![c] = @ \/ (half /\ ~refused)]

\* (Bound: for a take to come.)
Connect(c) ==
  /\ up /\ call[c] = "off" /\ take < MaxTakes
  /\ \E result \in {"up", "raised"} :
       Handshake(c, result) /\ Calling(c, IF result = "up" THEN "on" ELSE "off")
  /\ UNCHANGED <<aggregation, policy, take, device, card, job, report, unsaved>>
LinkDrops(c) ==
  /\ "drop" \in LinkFaults /\ link[c] = "up" /\ link' = Set(link, c, "down")
  /\ UNCHANGED <<aggregation, policy, take, call, orphan, device, card, job, report, unsaved>>
Disconnect(c) ==
  /\ call[c] = "on" /\ Calling(c, "off") /\ link' = Set(link, c, "none")
  /\ UNCHANGED <<aggregation, policy, take, orphan, device, card, job, report, unsaved>>

-----------------------------------------------------------------------------
\* start() begins a take with every camera that is connected.
BeginTake ==
  /\ up /\ take < MaxTakes
  /\ \A c \in Cameras : call[c] \in {"off", "on"}
  /\ \E c \in Cameras : call[c] = "on"
  /\ take' = take + 1
  /\ call' = [c \in Cameras |-> IF call[c] = "on" THEN "start" ELSE call[c]]
  /\ report' = [c \in Cameras |-> "none"]
  /\ UNCHANGED <<aggregation, policy, link, orphan, device, card, job, unsaved>>

\* A command over the link: done and acknowledged, done and not acknowledged, lost.
Command(c, does, result) ==
  \E obeyed, heard \in BOOLEAN :
    /\ heard => obeyed
    /\ ~heard => link[c] = "down" \/ "lost" \in LinkFaults
    /\ link[c] = "down" => ~obeyed
    /\ result = IF heard THEN "ok" ELSE "raised"
    /\ device' = IF obeyed THEN Set(device, c, does) ELSE device

\* start_recording(): once more a link if it has dropped; an error takes the start of
\* this camera back.
Relink(c, before, after) ==
  /\ call[c] = before /\ link[c] # "up"
  /\ \E result \in {"up", "raised"} :
       Handshake(c, result) /\ Calling(c, IF result = "up" THEN before ELSE after)
  /\ UNCHANGED <<aggregation, policy, take, device, card, job, unsaved>>
StartRelinks(c) == Relink(c, "start", "on") /\ UNCHANGED report
StartCapture(c) ==
  /\ call[c] = "start" /\ link[c] = "up"
  /\ \E result \in {"ok", "raised"} :
       Command(c, "recording", result) /\ Calling(c, IF result = "ok" THEN "rec" ELSE "on")
  /\ UNCHANGED <<aggregation, policy, take, link, orphan, card, job, report, unsaved>>

EndTake(c) ==
  /\ call[c] = "rec" /\ Calling(c, "stop")
  /\ UNCHANGED <<aggregation, policy, take, link, orphan, device, card, job, report, unsaved>>

\* The camera closes its file when it stops, however the reply fares.
Closes(c) ==
  card' = IF device[c] = "recording" /\ device'[c] = "idle"
          THEN card \union {<<take, c>>} ELSE card
\* stop_recording(): a failed attempt is repeated over a fresh link.
StopFails(c) == Calling(c, "on") /\ report' = Set(report, c, "failed")
FirstStop(c) ==
  /\ call[c] = "stop" /\ link[c] # "none"
  /\ \E result \in {"ok", "raised"} :
       /\ Command(c, "idle", result)
       /\ IF result = "ok" THEN Calling(c, "build") /\ UNCHANGED link
                           ELSE Calling(c, "retry") /\ link' = Set(link, c, "none")
  /\ Closes(c)
  /\ UNCHANGED <<aggregation, policy, take, orphan, job, report, unsaved>>
RetryLink(c) ==
  /\ call[c] \in {"stop", "retry"} /\ link[c] = "none"
  /\ \E result \in {"up", "raised"} :
       /\ Handshake(c, result)
       /\ IF result = "up" THEN UNCHANGED <<call, report>> ELSE StopFails(c)
  /\ UNCHANGED <<aggregation, policy, take, device, card, job, unsaved>>
\* The second: a camera that has stopped already names no file.
SecondStop(c) ==
  /\ call[c] = "retry" /\ link[c] # "none"
  /\ \E result \in {"ok", "raised"} :
       /\ Command(c, "idle", result)
       /\ IF result = "ok" /\ device[c] = "recording"
          THEN Calling(c, "build") /\ UNCHANGED report ELSE StopFails(c)
  /\ Closes(c)
  /\ UNCHANGED <<aggregation, policy, take, link, orphan, job, unsaved>>

\* No job can be made of it; the recording stays on the card.
NoJob(c) ==
  /\ call[c] = "build" /\ "nameless" \in LinkFaults /\ StopFails(c)
  /\ UNCHANGED <<aggregation, policy, take, link, orphan, device, card, job, unsaved>>

\* A manifest the file system refuses: the old one stays, or is gone.
Refused(j) == manifest' \in {manifest, [manifest EXCEPT ![j.episode] = None]}
\* (LeftToQueue: the adapter leaves the manifest to the queue.)
LeftToQueue(j) == manifest' = IF policy = "eager" THEN Written(j) ELSE manifest
Save(j) == manifest' = Written(j)
\* The job and its manifest, which may fail unnoticed; with the eager policy it is
\* enqueued at once (which writes the manifest again).  An enqueue() that fails in its
\* write leaves a handle, which only a retry() of a job that has not failed can find; one
\* that is merely late is an AggregateEpisode.
BuildJob(c) ==
  /\ call[c] = "build" /\ Len(jobs) < MaxJobs
  /\ jobs' = Append(jobs, [episode |-> take, cams |-> {c}, state |-> "pending", done |-> {}])
  /\ job' = Set(job, c, Len(jobs) + 1)
  /\ \E unwritten \in May("unwritten"), unqueued \in May("unreachable") :
       /\ unqueued => policy = "eager"
       /\ unwritten => policy = "on_demand" \/ unqueued
       /\ LET j == jobs'[Len(jobs) + 1] IN IF unwritten THEN Refused(j) ELSE Save(j)
       /\ unsaved' = Set(unsaved, c, IF unwritten THEN "yes" ELSE "no")
       /\ report' = Set(report, c, IF unqueued THEN "unqueued" ELSE "pending_aggregation")
       /\ IF policy = "eager" /\ ~unqueued THEN Enqueue(Len(jobs) + 1)
          ELSE /\ UNCHANGED <<queue, awake, waiting>>
               /\ \E left \in May("again") :
                    handles' = IF left /\ unqueued /\ Len(handles) < MaxJobs
                               THEN Append(handles, Handle(Len(jobs) + 1)) ELSE handles
  /\ Calling(c, "on")
  /\ UNCHANGED <<backend, up, files, parts, cut, worker, wifi>>
  /\ UNCHANGED <<policy, take, link, orphan, device, card>>

\* aggregate_episode(): the job of the first camera that has one there, enqueued
\* again if it was before.
AggregateEpisode(e) ==
  /\ up /\ \E c \in Cameras : job[c] # 0 /\ jobs[job[c]].episode = e
  /\ LET c == CHOOSE c \in Cameras : job[c] # 0 /\ jobs[job[c]].episode = e
     IN Enqueue(job[c]) /\ manifest' = Written(jobs[job[c]])
  /\ UNCHANGED <<backend, up, files, parts, cut, jobs, worker, wifi, stream>>

OnDisk(c) == manifest[take].state # "none" /\ c \in manifest[take].job
InMemory(c) == job[c] # 0 /\ jobs[job[c]].episode = take /\ jobs[job[c]].cams = {c}
\* The session dies with the process; the camera does not.
SessionDies ==
  /\ Crash
  /\ call' = [c \in Cameras |-> "off"] /\ link' = [c \in Cameras |-> "none"]
  /\ orphan' = [c \in Cameras |-> FALSE] /\ job' = [c \in Cameras |-> 0]
  /\ unsaved' = [c \in Cameras |->
       IF unsaved[c] = "yes" THEN IF OnDisk(c) THEN "no" ELSE "lost" ELSE unsaved[c]]
  /\ UNCHANGED <<policy, take, device, card, report>>

Quietly(act) == act /\ UNCHANGED stream
StreamStep(c) ==
  \/ StartRelinks(c) \/ StartCapture(c) \/ FirstStop(c) \/ RetryLink(c)
  \/ SecondStop(c) \/ NoJob(c) \/ BuildJob(c)
Next ==
  \/ Quietly(Worker) \/ Quietly(AggregateAllPending) \/ Quietly(Restart) \/ Quietly(UserRejoins)
  \/ \E h \in 1..Len(handles) : Quietly(Retry(h))
  \/ SessionDies \/ BeginTake
  \/ \E e \in Episodes : AggregateEpisode(e)
  \/ \E c \in Cameras : StreamStep(c) \/ Connect(c) \/ LinkDrops(c) \/ Disconnect(c) \/ EndTake(c)

Spec == Init /\ [][Next]_vars
\* The worker runs, and so does a call of the session.
FairSpec ==
  /\ Spec /\ WF_vars(Quietly(Worker)) /\ \A c \in Cameras : WF_vars(StreamStep(c))

-----------------------------------------------------------------------------
\* A take whose stop was reported as collected later ("the camera stopped recording
\* successfully", stream.py), handed to the queue or not, is on the card, and its job on
\* disk for this process or the next to find.  If its manifest could not be written the
\* adapter still holds the job, until the process dies.
Promised == {"pending_aggregation", "unqueued"}
NothingForgotten ==
  \A c \in Cameras : report[c] \in Promised =>
    /\ <<take, c>> \in card
    /\ OnDisk(c) \/ unsaved[c] = "lost" \/ (unsaved[c] = "yes" /\ InMemory(c))

\* A camera that is not in a recording does not record ("stop_recording: Camera may
\* still be recording - stop it manually" is said when it may).
CameraIsAtRest ==
  \A c \in Cameras : device[c] = "recording" /\ up =>
    call[c] \in {"start", "rec", "stop", "retry"} \/ report[c] = "failed"

\* One link per camera: a failed connect() does not keep it from the next.
NoOrphans == \A c \in Cameras : ~orphan[c]

=============================================================================
