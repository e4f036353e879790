------------------------------ MODULE Aggregation ------------------------------
(***************************************************************************)
(* The queue that collects the videos of the Insta360 cameras after the    *)
(* recording (adapters/insta360_go3s/aggregation): jobs with a manifest in *)
(* their episode directory, one worker on an event loop of its own, two    *)
(* downloaders (a plain copy from the mounted card; or over the camera's   *)
(* WiFi, which the host has to join and to leave again), and what a crash  *)
(* leaves for the next process.                                            *)
(***************************************************************************)
EXTENDS Integers, Sequences, FiniteSets, SequencesExt

CONSTANTS
  Cameras,
  Backends,       \* subset of {"usb", "wifi"}
  Faults,         \* "fail": a step of a download; "short": a copy that ends early;
                  \* "disk": the host's file system refuses what was transferred;
                  \* "stays": the host is not let back to its network; "blind": it does
                  \* not learn which that is; "torn": a crash while a manifest is
                  \* written; "again": retry() of a job that has not failed, or is
                  \* queued anew; "unwritten", "unreachable": the adapter cannot
                  \* write the manifest of its job, or cannot enqueue it
  MaxTakes,       \* bound: recordings of this process
  MaxJobs         \* bound: jobs, and handles of them, made in one process

ASSUME Assumption ==
  /\ Backends \subseteq {"usb", "wifi"}
  /\ Faults \subseteq {"fail", "short", "disk", "stays", "blind", "torn", "again",
                      "unwritten", "unreachable"}
  /\ MaxTakes \in Nat /\ MaxJobs \in Nat \ {0}

Episodes == 0..MaxTakes      \* 0: an earlier process recorded it
NoCamera == CHOOSE c \in Cameras : TRUE    \* while no job runs
None == [job |-> {}, state |-> "none", done |-> {}]
\* A job is the cameras it collects, in one episode.
States == {"pending", "running", "completed", "failed"}
May(fault) == IF fault \in Faults THEN BOOLEAN ELSE {FALSE}

VARIABLES
  backend,
  up,             \* the process lives
  manifest,       \* aggregation.json of every episode
  files, parts,   \* <<episode, camera>>: whole files that were downloaded, and .part
  cut,            \* files that look downloaded, and end early
  jobs,           \* the AggregationJob objects of this process
  handles,        \* the _JobHandle of every enqueue(): a job, and how often retry()
                  \* has replaced its event
  queue,          \* of handles, by number
  waiting,        \* events somebody waits for: <<handle, which of its events>>
  awake,          \* the worker has something to do, or was told so
  pc,             \* what the worker does
  current, todo, camera, ok, anyFailure,    \* locals of _run_job and run()
  net, previous,  \* the network the host is on; the one run() found
  stranded,       \* history: a crash, or a network that refuses it, left the host on
                  \* the camera's
  halves          \* history: the .part files a crash or the file system left there

disk == <<manifest, files, parts, cut>>
memory == <<jobs, handles, queue, waiting, awake>>
worker == <<pc, current, todo, camera, ok, anyFailure>>
wifi == <<net, previous, stranded, halves>>
aggregation == <<backend, up, disk, memory, worker, wifi>>

AggregationInit ==
  /\ backend \in Backends /\ up = TRUE
  /\ \E s \in {"pending", "running"}, d \in SUBSET Cameras :
       /\ manifest = [e \in Episodes |->
            IF e = 0 THEN [job |-> Cameras, state |-> s, done |-> d] ELSE None]
       /\ files = {0} \X d
  /\ parts = {} /\ cut = {}
  /\ jobs = <<>> /\ handles = <<>> /\ queue = <<>> /\ waiting = {} /\ awake = TRUE
  /\ pc = "get" /\ current = 0 /\ todo = {} /\ camera = NoCamera
  /\ ok = TRUE /\ anyFailure = FALSE
  /\ net = "home" /\ previous = "home" /\ stranded = FALSE /\ halves = {}

New(e, m) == [episode |-> e, cams |-> m.job, state |-> "pending", done |-> m.done]
Handle(i) == [job |-> i, event |-> 0]
Now == handles[current].job
Job == jobs[Now]
\* write_manifest()
Written(j) ==
  [manifest EXCEPT ![j.episode] = [job |-> j.cams, state |-> j.state, done |-> j.done]]

-----------------------------------------------------------------------------
\* The operator's calls

\* enqueue(), marshaled onto the loop of the queue.
Enqueue(i) ==
  LET h == Len(handles) + 1
  IN /\ h <= MaxJobs /\ handles' = Append(handles, Handle(i)) /\ queue' = Append(queue, h)
     /\ awake' = TRUE /\ waiting' = waiting \union {<<h, 0>>}

Recoverable == {e \in Episodes : manifest[e].state \in {"pending", "running"}}
\* recover_from_disk() and the enqueue of what it found: after a restart, or for all
\* that is pending, which may be queued already.
EnqueueRecovered(found) ==
  LET fresh == [k \in 1..Len(found) |-> New(found[k], manifest[found[k]])]
      numbers == [k \in 1..Len(found) |-> Len(handles) + k]
  IN /\ jobs' = jobs \o fresh /\ awake' = TRUE
     /\ handles' = handles \o [k \in 1..Len(found) |-> Handle(Len(jobs) + k)]
     /\ queue' = queue \o numbers
     /\ waiting' = waiting \union {<<numbers[k], 0>> : k \in DOMAIN found}
     /\ manifest' = [e \in Episodes |->
          IF e \in ToSet(found) THEN [manifest[e] EXCEPT !.state = "pending"] ELSE manifest[e]]
     /\ UNCHANGED <<files, parts, cut>>
AggregateAllPending ==
  /\ up /\ Recoverable # {}
  /\ {Len(jobs), Len(handles)} \subseteq 0..MaxJobs - Cardinality(Recoverable)
  /\ EnqueueRecovered(SetToSeq(Recoverable))
  /\ UNCHANGED <<backend, up, worker, wifi>>

\* retry() finds the last handle made for the job's id; called from the viewer's
\* thread: the loop is not told.
SameId(h, k) ==
  LET a == jobs[handles[h].job] b == jobs[handles[k].job]
  IN a.episode = b.episode /\ a.cams = b.cams
Retry(h) ==
  /\ up /\ handles[h].event = 0 /\ \A k \in h + 1..Len(handles) : ~SameId(h, k)
  /\ \/ jobs[handles[h].job].state = "failed" /\ h \notin ToSet(queue) \union {current}
     \/ "again" \in Faults
  /\ LET i == handles[h].job
         j == [jobs[i] EXCEPT !.state = "pending"]
     IN jobs' = [jobs EXCEPT ![i] = j] /\ manifest' = Written(j)
  /\ handles' = [handles EXCEPT ![h].event = 1]
  /\ waiting' = waiting \union {<<h, 1>>} /\ queue' = Append(queue, h)
  /\ UNCHANGED <<backend, up, files, parts, cut, awake, worker, wifi>>

\* The locals of _run_job() end with it.
LocalsEnd ==
  current' = 0 /\ todo' = {} /\ camera' = NoCamera /\ ok' = TRUE /\ anyFailure' = FALSE
Crash ==
  /\ up /\ up' = FALSE
  /\ jobs' = <<>> /\ handles' = <<>> /\ queue' = <<>> /\ waiting' = {} /\ pc' = "off"
  /\ LocalsEnd /\ previous' = "home"
  /\ \E torn \in May("torn") :
       manifest' = IF torn /\ pc \in {"note", "next"}
                   THEN [manifest EXCEPT ![Job.episode] = None] ELSE manifest
  /\ stranded' = (stranded \/ net = "camera") /\ halves' = halves \union parts
  /\ awake' = TRUE /\ UNCHANGED <<backend, files, parts, cut, net>>
Restart ==
  /\ ~up /\ up' = TRUE /\ pc' = "get"
  /\ \E scan \in BOOLEAN :
       IF scan /\ Cardinality(Recoverable) <= MaxJobs THEN EnqueueRecovered(SetToSeq(Recoverable))
       ELSE UNCHANGED <<awake, disk, jobs, handles, queue, waiting>>
  /\ UNCHANGED <<backend, wifi, current, todo, camera, ok, anyFailure>>

\* The user picks the home network again, by hand.
UserRejoins ==
  /\ pc \in {"get", "off"} /\ net = "camera" /\ net' = "home" /\ stranded' = FALSE
  /\ UNCHANGED <<backend, up, disk, memory, worker, previous, halves>>

-----------------------------------------------------------------------------
\* The worker

\* Nothing is queued: it sleeps until it is told.
Sleep ==
  /\ pc = "get" /\ awake /\ queue = <<>> /\ awake' = FALSE
  /\ UNCHANGED <<backend, up, disk, jobs, handles, queue, waiting, worker, wifi>>

BeginJob ==
  /\ pc = "get" /\ awake /\ queue # <<>>
  /\ LET i == handles[Head(queue)].job
         j == [jobs[i] EXCEPT !.state = "running"]
     IN /\ jobs' = [jobs EXCEPT ![i] = j] /\ manifest' = Written(j)
        /\ current' = Head(queue) /\ todo' = j.cams \ j.done
  /\ queue' = Tail(queue) /\ anyFailure' = FALSE /\ pc' = "next"
  /\ UNCHANGED <<backend, up, files, parts, cut, handles, waiting, awake, camera, ok, wifi>>

NextCamera ==
  /\ pc = "next" /\ todo # {}
  /\ \E c \in todo : camera' = c /\ todo' = todo \ {c}
  /\ pc' = IF backend = "usb" THEN "open" ELSE "switch"
  /\ UNCHANGED <<backend, up, disk, memory, current, ok, anyFailure, wifi>>

\* Where run() goes when it raises: its finally, if it has one.
Cleanup == IF backend = "usb" THEN "note" ELSE "restore"
Raise == ok' = FALSE /\ pc' = Cleanup

\* WiFi: unless the host is on the camera's network already, it joins it.
SwitchWifi ==
  /\ pc = "switch"
  /\ \E blind \in May("blind") : previous' = IF blind THEN "unknown" ELSE net
  /\ \E failed, joined \in BOOLEAN :
       /\ failed => net # "camera" /\ "fail" \in Faults
       /\ ~failed => joined
       /\ net' = IF joined THEN "camera" ELSE net
       /\ IF failed THEN Raise ELSE pc' = "open" /\ UNCHANGED ok
  /\ UNCHANGED <<backend, up, disk, memory, current, todo, camera, anyFailure, stranded, halves>>
\* What was switched is switched back, if the network lets it: a failure is swallowed.
\* A network it does not know it cannot rejoin.
\* (NoFinally: only after a download that succeeded.)
NoFinally ==
  /\ pc = "restore" /\ pc' = "note"
  /\ net' = IF previous \in {"camera", "unknown"} \/ ~ok THEN net ELSE previous
  /\ UNCHANGED <<backend, up, disk, memory, current, todo, camera, ok, anyFailure>>
  /\ previous' = "home" /\ UNCHANGED <<stranded, halves>>
RestoreWifi ==
  /\ pc = "restore" /\ pc' = "note"
  /\ \E stays \in May("stays") :
       /\ net' = IF stays \/ previous \in {"camera", "unknown"} THEN net ELSE previous
       /\ stranded' = (stranded \/ (stays /\ net = "camera" /\ previous = "home"))
  /\ UNCHANGED <<backend, up, disk, memory, current, todo, camera, ok, anyFailure>>
  /\ previous' = "home" /\ UNCHANGED halves

Target == <<Job.episode, camera>>
\* The camera's card is looked for among the mounts, or its web server is probed until
\* it answers; then the .part is begun.
OpenTarget ==
  /\ \E failed \in May("fail") :
       IF failed THEN Raise /\ UNCHANGED <<parts, halves>>
       ELSE /\ pc' = "copy" /\ UNCHANGED ok
            /\ parts' = parts \union {Target} /\ halves' = halves \ {Target}
  /\ UNCHANGED <<backend, up, manifest, files, cut, memory, current, todo, camera>>
  /\ UNCHANGED <<anyFailure, net, previous, stranded>>
FindMount == pc = "open" /\ backend = "usb" /\ OpenTarget
WaitForAp == pc = "open" /\ backend = "wifi" /\ OpenTarget
\* A copy that breaks off, or is seen to be shorter than the original, is deleted; one
\* that seems whole is renamed.  A .part that the host's file system refuses to close,
\* size or rename stays.
CopyEnds(copy, seen) ==
  /\ pc = "copy"
  /\ IF copy \in {"fail", "disk"} \/ (copy = "short" /\ seen)
     THEN Raise /\ UNCHANGED <<files, cut>>
     ELSE /\ ok' = TRUE /\ pc' = Cleanup
          /\ files' = IF copy = "whole" THEN files \union {Target} ELSE files \ {Target}
          /\ cut' = IF copy = "whole" THEN cut \ {Target} ELSE cut \union {Target}
  /\ IF copy = "disk" THEN halves' = halves \union {Target} /\ UNCHANGED parts
                      ELSE parts' = parts \ {Target} /\ UNCHANGED halves
  /\ UNCHANGED <<backend, up, manifest, memory, current, todo, camera, anyFailure>>
  /\ UNCHANGED <<net, previous, stranded>>
Copies == {"whole"} \union ({"fail", "short", "disk"} \intersect Faults)
\* The size on the card is known; over WiFi it is not (size_bytes is 0).
\* (Unchecked: nor is it looked at on the card.)
Unchecked == \E copy \in Copies : CopyEnds(copy, FALSE)
CopyFile == \E copy \in Copies : CopyEnds(copy, backend # "wifi")

\* The camera's outcome is noted, in the manifest too.
NoteCamera ==
  /\ pc = "note" /\ pc' = "next"
  /\ LET j == [Job EXCEPT !.done = IF ok THEN @ \union {camera} ELSE @ \ {camera}]
     IN jobs' = [jobs EXCEPT ![Now] = j] /\ manifest' = Written(j)
  /\ anyFailure' = (anyFailure \/ ~ok)
  /\ UNCHANGED <<backend, up, files, parts, cut, handles, queue, waiting, awake>>
  /\ UNCHANGED <<current, todo, camera, ok, wifi>>

Outcome == IF anyFailure THEN "failed" ELSE "completed"
\* (EndSilently: nobody is told.)
EndSilently ==
  /\ pc = "next" /\ todo = {} /\ pc' = "get"
  /\ LET j == [Job EXCEPT !.state = Outcome]
     IN jobs' = [jobs EXCEPT ![Now] = j] /\ manifest' = Written(j)
  /\ awake' = TRUE /\ LocalsEnd
  /\ UNCHANGED <<backend, up, files, parts, cut, handles, queue, waiting, wifi>>
EndJob ==
  /\ pc = "next" /\ todo = {} /\ pc' = "get"
  /\ LET j == [Job EXCEPT !.state = Outcome]
     IN /\ jobs' = [jobs EXCEPT ![Now] = j] /\ manifest' = Written(j)
        /\ waiting' = waiting \ {<<current, handles[current].event>>}
  /\ awake' = TRUE /\ LocalsEnd
  /\ UNCHANGED <<backend, up, files, parts, cut, handles, queue, wifi>>

Worker ==
  \/ Sleep \/ BeginJob \/ NextCamera \/ SwitchWifi \/ RestoreWifi
  \/ FindMount \/ WaitForAp \/ CopyFile \/ NoteCamera \/ EndJob

-----------------------------------------------------------------------------
AggregationTypeOK ==
  /\ backend \in Backends /\ up \in BOOLEAN /\ awake \in BOOLEAN
  /\ \A e \in Episodes : /\ manifest[e].state \in States \union {"none"}
                         /\ manifest[e].done \subseteq manifest[e].job
  /\ files \union cut \union parts \subseteq Episodes \X Cameras
  /\ \A i \in 1..Len(jobs) : jobs[i].state \in States
  /\ \A k \in 1..Len(queue) : queue[k] \in 1..Len(handles)
  /\ \A h \in 1..Len(handles) : handles[h].job \in 1..Len(jobs)

\* What counts as downloaded: over WiFi, where no size is known, a file may end early.
Here == files \union (IF backend = "wifi" THEN cut ELSE {})
\* What a manifest calls done is in the episode, and whole if it came over USB; a
\* completed job has every camera's file (queue.py: "a job is COMPLETED only when every
\* camera succeeds").
ManifestIsTrue ==
  \A e \in Episodes :
    /\ {e} \X manifest[e].done \subseteq Here
    /\ manifest[e].state = "completed" => manifest[e].done = manifest[e].job

\* A transfer that fails leaves no half file behind ("deletes the partial file",
\* osc_client.py); a process that dies in the middle does, and so does a file system
\* that refuses what was transferred.
NoHalfFiles == pc \in {"get", "next", "note"} => parts \subseteq halves

\* Whatever fails in a download, the files and the manifests of an episode agree.
FilesAreTrue == ManifestIsTrue /\ NoHalfFiles

\* When no download is under way the host is on the user's network again ("always
\* restores the previous WiFi network", queue.py), unless, since the user was there, the
\* process died on the camera's or the network did not take the host back.
HostReturns == pc \in {"get", "next", "note"} /\ ~stranded => net = "home"

\* A job handed to the queue is finished and its waiter woken, as long as the
\* process lives: whatever else is queued, fails or is retried meanwhile.
Served(n) ==
  \A h \in 1..MaxJobs : <<h, n>> \in waiting ~> <<h, n>> \notin waiting
JobsEnd == Served(0)

\* So is a failed job that is retried ("All queue interactions from outside threads
\* must be marshaled ... because asyncio.Queue is not thread-safe", stream.py).
RetriesEnd == Served(1)
=============================================================================
