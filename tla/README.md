# TLA+ verification of syncfield-python

SyncField records several devices (cameras, tactile gloves, IMUs, microphones)
on one or more hosts into episode directories that can be aligned afterwards.
This directory holds TLA+ models of the parts of `src/src/syncfield/` whose
correctness depends on the order of events, the TLC configurations that check
them, and TLAPS proofs of the properties that matter most. Paths below are
relative to `src/src/syncfield/`.

## 1. Inventory

### The parts, their state and their operations

| Part | Source | State | Operations |
|---|---|---|---|
| Session lifecycle | `orchestrator.py` | `_state`, `_streams`, `_connected_streams`, `_auto_connected`, `_sample_writers`, chirp emissions, sync point | `add remove set_chirp_mode connect start stop cancel disconnect rotate_recording_segment`, atexit hook |
| Episode directory | `orchestrator.py`, `writer.py` | `_output_dir`, `_episode_dir_created`, `_last_episode_dir`, files on disk | open, append, close, publish, delete, move on |
| Stream supervision | `supervision.py`, `orchestrator.py` | one `_StreamRec` per stream, reconnect queue, stop flag, monitor and worker threads | `note_*`, `tick`, `set_recording`, enqueue, reopen |
| Segment rotation | `orchestrator.py`, adapters | prepared writers, swapped ids, per-stream recording window | prepare, commit, arm, settle, abort |
| Sample writers | `writer.py`, `orchestrator.py` | registered handlers and their flags, queue, worker, error, counters | `open write close`, the worker's batches and flushes |
| Cluster | `multihost/`, `orchestrator.py` | adverts, browser tables, observed leader, applied config, keep-alive timer | advertise, observe, distribute, trigger, wait, collect |
| Adapters | `adapters/` | device handle, capture threads and library callbacks, recording window, counters | `prepare connect start_recording stop_recording disconnect reconnect` |
| Insta360 stream and aggregation | `adapters/insta360_go3s/`, `orchestrator.py` | BLE link, camera, card, jobs, handles, manifests, the host's Wi-Fi | record over BLE, enqueue, download, retry, recover |
| Health | `health/` | message queues, detectors' memories, open incidents | observe, drain, tick, ingest, close |
| Viewer | `viewer/` | WebSocket clients, commands under way, the event loop, the countdown | commands, broadcasts, blocking routes, `close()` |
| Discovery, chirp synthesis, calibration, frontend | the rest | little or none of its own | — |

`PROJECT.json` lists every part with its sources and what is and is not modelled.

### How they interact

The application (a script, or the viewer's server) calls the lifecycle methods.
Each of them takes one re-entrant lock for its whole duration, so two never
overlap. Beside them run

* capture threads, one or more per adapter, that hand samples to
  `_make_sample_handler` and health events to `_on_stream_health` without that
  lock (under `_sample_writer_lock` and the supervisor's lock only);
* the thread pools of the fan-outs (`start_recording`, `stop_recording`,
  prepare and commit of a rotation), joined by the method that made them;
* the supervision monitor, which ticks the supervisor, and the reconnect worker,
  which reopens devices: neither ever takes the session lock;
* the health worker, the control plane's server and its keep-alive timer, the
  leader observer, the aggregation queue's event loop, and the atexit hook.

Hosts of a cluster meet through adverts (mDNS), which may be old or unseen, and
through HTTP requests, which may fail or be answered too late. The viewer adds an
event loop of its own that calls the session in threads, and sometimes on the loop.

### What is hard

Each has its line in `PROJECT.json` under `hazards`. In short:

* **all or nothing**: a fan-out fails on some streams; a rotation fails half-way;
  a leader is rejected by a follower when it already records;
* **callbacks after the fact**: samples and errors arrive while the session is
  stopping, cancelling, rotating or disconnecting;
* **cached state** that outlives what it describes (chirp emissions, the
  "directory created" flag, the recording gate, queue contents);
* **two critical sections** where one was meant (check and note of an error,
  reading the phase and rearming a stream);
* **bounded waits** whose other side goes on (the two-second join of the worker,
  the joins of the adapters' readers, the wait for the swaps of a rotation);
* **bounded queues** between threads, full when the other side has failed;
* **messages** that are late, lost or answered after the sender gave up (adverts,
  HTTP, BLE acknowledgements);
* **threads and event loops**: a call from the wrong thread that does not wake a
  loop, a loop blocked on the lock of a thread that waits for it, a set changed
  while a loop over it awaits;
* **exit at any point**, by the interpreter, by Ctrl-C, or by a crash with jobs queued.

### What makes each part correct

* Session: RECORDING means exactly the connected streams are writing into the
  current directory; at rest nothing writes; every method leaves a state another
  one accepts; a chirp lies inside the take that reports it.
* Episode directory: only the current, unpublished episode changes; a published
  take is frozen, and holds the rows of one attempt.
* Supervision: a drop is never forgotten, attempts are bounded, teardown leaves
  no device open and no thread behind.
* Rotation: a frame and its row stay together; a segment has one recording
  window; nothing prepared stays open; the session names what the streams write.
* Writers: the file is the accepted samples in order, none twice; every sample
  counted is written, or `close()` raises; `close()` returns.
* Cluster: a follower starts with its leader, never on an old signal; a take whose `start()`
  returns is shared by every follower invited; whoever waits for the end of the last take
  hears of it.
* Adapters: one owner per device, none after `disconnect()`; reports agree with the files,
  but for what a writer refused; a reader outlives a recording and a lost link; calls
  return.
* Aggregation: manifests are true, no reported take is forgotten, the host returns to
  its network, every job handed over ends.
* Health: a sealed log shows no open incident; silence is seen, a stall is real, and
  what has recovered is closed.
* Viewer: a stop is answered by what it did; commands end; closing releases devices.

## 2. The modules

| Module | Models |
|---|---|
| `EpisodeStore` | abstract: one current episode; rows are appended, truncated or deleted only there and only until it is published; published takes are final |
| `Session` | the lifecycle methods with every step and failure branch, capture threads, files, chirps, exit hook; refines `EpisodeStore` |
| `SessionProofs` | TLAPS proofs about `Session` |
| `Supervision` | the supervisor's records, monitor, reconnect worker(s), queue and sentinel, capture threads, and the session calls that drive them |
| `SegmentRotation` | a recording that rotates through segments, with its workers, frames and failures |
| `SegmentRotationProofs` | TLAPS proofs about `SegmentRotation` |
| `SupervisionProofs` | TLAPS proofs about `Supervision` |
| `SampleLog` | abstract: the file of one stream; accepted samples in order, none missing after a close that does not raise |
| `SensorWriter` | handlers, the writer with and without a queue, its worker and `close()`; implements `SampleLog` |
| `SensorWriterProofs` | TLAPS proofs about `SensorWriter`, with its refinement |
| `Cluster` | a leader and followers: adverts, HTTP, config distribution, control planes, collection |
| `Capture` | what all adapters share: the session's phases, threads, recording window |
| `Sensors`, `OgloGlove`, `Cameras` | the adapters, kind by kind, over `Capture` |
| `Adapters` | their composition with the session's calls and the supervisor's reconnect |
| `AdaptersProofs` | TLAPS proofs about `Adapters` |
| `Aggregation` | the job queue, its worker and both downloaders, manifests, crash and recovery |
| `Go3S` | the Insta360 stream over its BLE link, composed with `Aggregation` |
| `Go3SProofs` | TLAPS proofs about `Go3S` and the `Aggregation` it extends |
| `Incidents` | worker, queues, tracker and detectors, under the session's calls |
| `IncidentsProofs` | TLAPS proofs about `Incidents` |
| `Viewer` | browsers, commands, broadcasts, countdown, blocking routes, `close()` |
| `ControlProofs` | TLAPS proofs about `Cluster` and `Viewer`, the two ways a session is controlled from outside |
| `MCSession`, `MCSupervision`, `MCSegmentRotation`, `MCCluster`, `MCAdapters` | model values, symmetry and sets of roles and kinds for TLC |

Three modules take over what another leaves as a fault: `Cluster` is the other side of
Session's "leader" and "config", `SensorWriter` of its rows written at once,
`Adapters` of its devices and of Supervision's reopen.

### Session

`op` is the step the holder of the lock has reached, `todo` the workers of a fan-out or
finalize that have not returned. `dev` is the set of open devices and `connected` the list
the code keeps of them, kept apart because the code may get them out of step; the same goes
for `armed` (adapters in their recording window) against `writer` (open sample files), and
`episode` (the name in `_output_dir`) against `dirs` (what is on disk). `take` numbers the
attempts to record; a row, a sync point and a chirp carry the attempt they belong to, so a
file that mixes two attempts can be seen. `start()` is the chain `StartValidate, StartAwait,
StartArm, StartOpenWriters, FanOut*, StartChirp` or `StartRollback`, for a leader then
`Distribute` or `DistributeRollback`; `stop()` is `StopBegin, StopChirp, FinalizeStream*,
StopPersist, StopLand`; `cancel()` is `CancelBegin, CancelStream*, CancelLand`. An exception
outside every rollback sets `op` to "none" and leaves the rest as it is. The other hosts of
a cluster appear as faults: "leader" (no leader in time) and "config" (the config cannot be
fetched, or is rejected). What Session leaves out: the wording of log records, the countdown
ticks, host names and paths.

### Supervision

One action is one critical section of the supervisor's lock, one device
operation or one queue operation. The session's own calls are cut down to what
supervision can see (`phase`, `op`, the gate, `conn`). `Tick` treats every
record at once because the code holds the lock over the whole loop; the requests
it makes go on the queue afterwards, one by one. Time is abstract: `due` says
whether a back-off is pending and `Ripen` may end it at any time, `quiet` holds
the streams whose silence has outgrown its grace. `tries` and `late` are history
variables. `onStall` is a policy switch chosen at the start. cancel() is modelled
for explicit sessions; a cancelled one-shot session keeps its devices open, which
Session covers.

### SegmentRotation

`next` numbers the directories named so far; a sync point and a recording window
carry the number of the segment they were made for. `media`, `writer` and
`clock` are, per stream, where the adapter's frames go, where the session's rows
go and which window the adapter is in; `ready` and `handles` are what the adapter
and the session hold open for the next segment. `Frame` is one critical section
of the adapter (`_record_decoded_frame`), and `CommitSwap` another. The stop that
ends the recording is one step here, as `Session` models it in detail. The
key-frame overlap that the OAK adapter replays into the next segment, and an
`rmtree` that fails, are left out.

### SampleLog and SensorWriter

`SampleLog` is the promise: rows are the accepted samples in order, and a close
that does not raise leaves none behind. `SensorWriter` has the handlers `start()`
registers with the adapter (`active`; they are never unregistered), the
`_sample_writer_lock` they share, and one writer at a time: written through, or with
`queue`, `pending` (the worker's batch), `alive` and `error`. A handler is inside
the writer between `Emit` and its return, so `BeginClose` meets samples on their way;
`closer` is where `close()` is, between its bounded put of the sentinel, the join and
the last check. The 0.1-second poll of a full queue is the guard of `PutStop`.
Samples are numbers; line formats are left out.

### Cluster

`role`, `state` and `at` say what each host is and which wait its `start()` or
`wait_for_leader_stopped()` is in. `advert` is what a host broadcasts and `ready`
and `observed` what others saw of it, refreshed late (`RefreshLate`) or not at all.
`plane` and `timer` are the control planes and their keep-alive timers. `PostConfig`
is one request of `_distribute_config_to_followers`: it may be applied and its
answer lost. The leader connects first or starts in one shot (`oneShot`), and then lands
in "stopped" with its control plane up for a while; `late` are the followers about to
begin on that state, which both waits take for ready. What a host does inside `start()` is
one step here; transfer of files by ranges and how a service is named are left out.

### Capture, Sensors, OgloGlove, Cameras, Adapters

`Capture` has what all adapters share: `phase` (the four-phase contract of
`stream.py`), the session's open writer `gate`, its `rows` and the samples it `refused`
(an exception of the writer goes no further than a log record), the adapter's threads
`pc`, the one the adapter refers to (`own`), `_stop_event`, `_ready_event`, who
`holds` the device, the window (`recording`, `writer`, `media`, `count`) and the last
`report`. A `kind` is chosen at the start; each kind has its own calls and thread
steps, because what is read before a check and written after it differs between
them: sensors that are polled or pushed, the BLE IMU, the Quest, the microphone, the
glove (`Sensors`, `OgloGlove`), and the UVC, AVFoundation, OAK, OAK-depth, OVISION
and Quest cameras (`Cameras`, with `sup`, the supervisor's `reconnect()`, and the
packet queue of the OVISION). A camera is lost when its thread ends, or when DepthAI's log
tells of a crash or a broken link and the thread may read on (`DeviceReported`). `lost`
begins anew with each connection; an OVISION restarted beside a writer thread that still
runs has two of them (`StartPair`).
`Adapters` composes them. A frame is a count; decoding,
packet formats, calibration and the libraries' own threads are left out, and a
library's callback is a thread that may run at any time.

### Aggregation and Go3S

`jobs` are the `AggregationJob` objects, `handles` what `enqueue()` returns, with the event
each waits on, `manifest` the `aggregation.json` of each episode; `files`, `cut` and `parts`
are what was copied whole, what was renamed and ends early, and the `.part` files. `halves`
and `stranded` note what a crash, the file system or a network that refuses the host left
behind, until the next download or the user's own hand (`UserRejoins`) mends it. `Sleep` and
`awake` are the event loop of the queue's thread: a put from another thread leaves `awake`
as it is. `SwitchWifi`, `CopyFile` and `RestoreWifi` are the steps of `_run_job` and the two
downloaders; `Crash` and `Restart` lose everything but the disk, and `EnqueueRecovered` is
the recovery scan. `Go3S` adds the stream: the BLE `link` it holds, what the `device` does,
the `card`, and `stop_recording()` with its relink and second attempt; `unsaved` says that
the manifest of its job could not be written, and what became of the job. The camera itself,
Wi-Fi commands and OSC are external.

### Incidents

One behaviour follows one stream and one detector (`watch`), because fingerprints
of two detectors never meet in the tracker. `samples`, `healths` and `conns` are the
worker's queues, `mem` what the detector remembers from worker to worker, `incident`
the age of its open incident. `Drain`, `Fire` and `Track` are the three parts of a
turn of the worker. `StopWorker` is `health.stop()`, inside `stop`, `rotate`,
`disconnect`. Time is counted in units up to `Threshold`; wording and
artifacts of incidents are left out.

### Viewer

`where` is where the handler of each WebSocket (and of the cluster routes, "web") is
with its `command`; `cast` is a broadcast under way, with the number of browsers it
began with. `loop` is "free" or blocked by a route that waits for the session's
lock; `lock`, `session` and `ticks` are the session cut down to what the viewer
can see; `Strand` is a call that raises outside every rollback and leaves the session in
the countdown (which stands for PREPARING too) or in STOPPING. `app` follows `launch()` and
`close()`. The snapshots of the poller, file,
task and MJPEG routes are left out. `ViewerInit`, `ViewerNext`, `ViewerFaults` and so on
have the module's name because `ControlProofs` extends `Cluster` as well.

### Correspondence

`PROJECT.json` maps every definition to its lines. Names are the code's where it
has one.

## 3. The runs

| Run | Instance | Shows |
|---|---|---|
| `session_explicit` | single host, two streams, two recordings, `connect` and `start` faults, no cancel | nothing records at rest, no method strands the session, gate, statuses, devices and chirps agree with what was done |
| `session_faults` | leader, every call, every fault, Ctrl-C anywhere | `AtomicRecording`, `WritersInCurrentEpisode`, published takes frozen, refinement of `EpisodeStore` |
| `session_follower` | follower, explicit and one-shot, one audio stream, fair | one attempt per published take, audio in every take, one-shot calls tear down, every method returns |
| `supervision` | a hot-swap and a plain stream, two connect cycles, a loss, failing reopens, joins that time out, fair | no drop forgotten, attempts bounded, clean teardown, every drop ends in a verdict |
| `rotation` | two streams, two rotations, a stop, every fault, fair | pairing, windows, handles, sealed segments, termination |
| `cluster` | a leader, explicit or in one shot, a follower of each kind in turn and one nobody attends, two takes, fair | followers begin with their leader or on finding it stopped, never on an old signal; a take that returns is unanimous, the end of the last take arrives |
| `adapters` | each of twelve adapters, with failures, unplugging, refused rows, mux errors and the supervisor's reconnect, fair | one owner per device, reports agree with files but for what was refused, readers survive, calls return |
| `writer` | two threads, two recordings, with and without a queue, failing disk, fair | the refinement of `SampleLog`, nothing twice, counts are true, `close()` returns |
| `aggregation` | a camera, a job of an earlier process, both downloaders, short and half files, a restore, a manifest and an enqueue that fail, crashes, fair | files and manifests agree, the host returns to its network if it is let, a reported take is on disk or with the process, jobs end |
| `incidents` | seven detectors under every call of the session, failing connects and starts, fair | sealed logs balance, stalls are real, silence is seen and closed |
| `viewer` | two browsers and the cluster routes, a countdown, calls that raise and strand the session, `launch()` | stops answered, commands end, closing releases, but for a stranded session |
| `aggregation_retry` | violated | a retry from another thread is not noticed by the sleeping worker |

**Bounds.** Two streams are enough to tell "some" from "all", and give a fan-out an order;
no action looks at three. `MaxTake = 2` gives an earlier take for a later one to disturb,
and a retry after a failure; directories are bounded by `2 * MaxTake` because a follower may
name one per attempt more. `MaxCycles = 2` lets something of one connect cycle survive into
the next, `MaxLosses = 1` drops a stream in any of them (with two losses, and joins that
never time out, the invariants of `supervision` hold over 1,097,294 states); `MaxAttempts =
2` has a first, a last and no middle attempt. `MaxSegment = 3` allows a rotation after a
failed one. Two followers tell "some" from "all" of a distribution. `MaxFrames = 4` lets a
frame fall before, on both edges of and inside a window, `MaxWindows = 2` and `MaxConnects =
3` let a thread of one meet the next; three threads are one more than the OVISION means to
have, and two more than any other. `Capacity = 2` and `Batch = 2` make a queue full, a batch
full and a batch that the end finds half full; four samples overflow both. `MaxTakes = 1`
with episode 0, recorded by an earlier process, gives the queue two manifests; `MaxJobs = 2`
a job waiting behind another, or recovered beside it; nothing connects to a camera when no
take is left. `Threshold = 2` and `Recovery = 1` keep silence, stall and recovery apart.
`MaxCommands = 2` is a command and one that meets it. `session_explicit` and
`session_faults` use the symmetry of the two streams (their audio sets are symmetric too and
no liveness is checked there).

**Scope of a property.** Some properties hold only without certain calls or faults, because
the code breaks them otherwise (section 5). The run that checks them leaves that call or
fault out, and the property's hazard entry says so. Others say it themselves:
`RetriesBounded` (policies that reconnect on stalls excluded), `CleanTeardown` (runs in
which a join timed out excluded; its run also leaves out failing connects), those of
`SegmentRotation` that hold until a commit fails, when the code raises and asks for a
"protective stop", `StopPropagates` (no distribution rolled back), `ReportsAreTrue` (a
sample on its way at either edge of the window where flag and file have no lock in common;
the BLE counter; rows the session's writer refused, which it counts with those written; a
camera's window in which a packet was lost, a write raised or a reconnect reset the
counter), `BeginsWithLeader` (a leader found stopped), `FilesAreTrue` (short files over
Wi-Fi; a `.part` left by a crash or the file system), `HostReturns` (a crash or a failed
restore), `NothingForgotten` (a job that died with the process which could not write its
manifest), `NoFalseStall` (a worker that inherits the memory of an earlier one),
`ClosedReleases` (`launch()`, and a session no call has stranded). Some faults are in no
run, since properties fail under them in ways section 4 or 5 names: "disk", "stuck", "slow"
and "setup" of the adapters, "torn", "blind" and "again" of the aggregation, "half" of the
camera's link.

**Fairness.** `Session.FairSpec` has weak fairness of the steps of a method that
holds the lock: the code gives every step of it a bounded wait or an ordinary
call, and never waits for the application. There is none on calls, samples or
exit. `Supervision.FairSpec` has weak fairness of the monitor, of each worker and
of a session call in progress, and of a back-off running out; none on losses or
new calls, nor on samples. `SegmentRotation.FairSpec` has it of the caller and of
each worker, `SensorWriter.FairSpec` of the worker, of a `close()` in progress and of each
handler. `Cluster.FairSpec` has it of what a host does by itself inside a call
and of the timers, which the operating system fires; not of operators, and not of
adverts arriving. `Go3S.FairSpec` has it of the worker's event loop and of a stream's
call, each wait of which has a timeout; not of crashes, restarts or retries.
`Viewer.FairViewerSpec` has it of the loop, of a handler's step and of the end of a
connection; not of browsers. Two use strong fairness, where the step is possible
again and again but not without pause: in `Adapters` a thread that was told to stop ends
however many samples arrive (its loop tests the event before each read), and in
`Incidents` time passes while the worker takes its turns.

**Deadlock** is not checked: a session may be left idle or exited for good, the
supervisor's threads end with a session that is not reconnected, a stopped
recording is over, a closed viewer is closed, and every environment here may do
nothing more once its bound is reached. That nothing waits for ever is what
`CallsEnd`, `DropIsResolved`, `RotationReturns`, `CallsReturn`, `CloseReturns`,
`JobsEnd` and `CommandsEnd` say.

**Mutants.** For every property of a passing run `PROJECT.json` names a plausible
bug in one definition (a writer that is not closed, a swap of one of two files, a
request left in flight, a manifest not written ...) under which TLC finds the
property violated. They stand in the modules just before the definition they replace,
and no behaviour of the specification uses them.

## 4. The proofs

The theorems hold for every set of streams, followers, cameras and browsers, every
choice of faults and every value of the bounds, unless a hypothesis says otherwise. Each
component has one inductive invariant, a conjunction of named parts; a part is shown
preserved by one lemma with one step per action. Every invariant was checked by TLC on
the instance of a run, and with other faults, before it was proved. Of the 40 properties
of passing runs 30 are stated by a theorem; the others are listed at the end.

**Assumptions on constants.** The named `ASSUME`s give types, and `KindsAssumption` the
twelve kinds of adapter there are. Three more say that a model
value is not taken for another: `ThreadsAssumption` (the lock is free or held by a
thread), `StopAssumption` (`_RECONNECT_STOP` is an object of its own, no stream id) and
`Viewer`'s (no browser is called "web", "app", "tick" or "none").

**Session** (`SessionProofs`, `IInv`). `TypeOK` is inductive; the safety properties are not.
`IInv` adds

* `Phase`: which `op` can be reached in which `state`;
* `Writers`: an open writer is in the current episode, and only in the steps in
  which the session captures; without it a rollback could not be shown to close
  what another step opened;
* `Publishing`: nothing at or beyond the current episode is published except
  between `StopPersist` and `StopLand`; this is what makes a fresh directory fresh;
* `Arming`: which streams are armed at each step of the fan-out and of a stop.

From `Invariance` follow, with no hypothesis, `TypeCorrect`, `WritersStayInEpisode`,
`RestIsQuiet`, `StartIsAtomic`, the action properties `TakesStayFrozen` and (with
`Ending`, what the stop chirp finds) `ChirpsAreInside`, and `Implements`: every step of
`Session` is a step of `EpisodeStore` or a stutter (`current <- episode`).

What the session keeps in its books is broken by some calls and faults (section 5). Each
theorem names those it cannot have, and no others: with any one of them allowed again TLC
finds the property violated. What is left is wider than the instance of the run:

| Theorem | Holds unless | Invariant |
|---|---|---|
| `MethodsEndSomewhere` (`NeverStranded`), `OneShotsTearDown` | `Undisturbed` fails: disk errors, a stop chirp whose player raises, Ctrl-C, auto-discovery | `Standing`: a directory that was made is there, and made before a writer opens in it; `Listed`: an open device is in the list outside IDLE |
| `BooksStayTrue` (`BooksAgree`) | `Orderly` fails: also `cancel()`, one-shot calls, `set_chirp_mode`, a start chirp that fails, a rejected config | `Tracking`, `Chirping` (in which take a cached chirp was played), `Exiting` (how far the hook has come) |
| `PublishedTakesAreWhole` (`TakesAreWhole`) | `Steady` fails: `remove()`, failing connects | `Attempt`: the rows in the current directory are of registered streams, and of the attempt in progress once its writers are open |

**Supervision** (`SupervisionProofs`, `SInv`). Where the request of a drop is (`Queueing`,
`Working`), how the history compares with the record's counter (`Counting`: the history
never gets ahead of `attempts`), which workers are left of an earlier cycle, and that
every open device is in the session's list (`Leftover`, `Listed`). From it
`SupervisionTypeCorrect` and `NoDropIsForgotten`, with no hypothesis. `TeardownIsClean`
needs that no connect fails: the proof attempt without it found, and TLC confirmed, that
after a partial `connect()` a request of the earlier cycle reopens a stream that
`_connected_streams` lacks (section 5). The strengthening for it is kept under the same
hypothesis.

**Rotation** (`SegmentRotationProofs`, `RInv` and `SInv`). `Aligned` says that media,
rows and window of a stream agree and that sync points belong to their segments; `Held`
says what is open at each step, in particular that a stream which still holds a prepared
writer has not swapped. From `RInv`: `FramesMeetTheirRows`, `SegmentsHoldOneWindow`,
`NothingStaysHalfOpen`, all of them also after failed commits. `SInv` adds `Positions`
(directory and sealed segment), `Chirping`, and, until a commit fails, `Behind` (published
segments are behind the session, every directory is accounted for) and `Together` (what
streams and log write at each step). From it `RotationsSettle` and the action property
`SegmentsStayFrozen`. `SwapsAreArmed` (`SwappedMeansArmed`: the session follows the streams)
needs that old files close and the next log opens, and nothing else; `Armed`, its
strengthening, says that a commit worker that raised has left its stream where it was.

**Writer** (`SensorWriterProofs`, `WInv`). `Content` says that the accepted samples are
the file, then the worker's batch, then the queue; `Distinct` that none is in two places;
`Handlers` and `Phases` that nothing comes after the sentinel and `close()` finds the
worker gone. From it `WriterTypeCorrect`, `RowsAreWrittenOnce`, `CountsAreTrue`, and
`WriterKeepsLog`: `SensorWriter` implements `SampleLog`. No induction over data is needed:
the invariant relates whole sequences, and a batch is a prefix of the backlog.

**Cluster** (`ControlProofs`, `CInv`). `Leading` gives the phases of the leader; `Heard`
says that a follower in `start()` has only heard of a take that is on, since a signal
left over is dropped when it begins, and that one that goes on with neither has found its
leader stopped; `Distributed` that whoever was posted to and not
refused has accepted. From it `ClusterTypeCorrect`, `FollowersBeginWithLeader` and
`TakesAreUnanimous`.

**Adapters** (`AdaptersProofs`, `AInv`). The invariant has a part for each way to keep the
contract of `stream.py` and holds whatever goes wrong: `Owned` (the thread that reads a
device is the one its adapter refers to), `Held` (what is open is held by who reads it),
`Survivors` (the reader runs unless the device was lost), `Kept` (a flag once raised stays
up, unless a reconnect may be under way), and one part of `Reports` per discipline: emitted
first and counted next (`Tallied`), counted first (`Received`), written first (`Listening`),
all under one lock (`Routed`, `Locked`), queued for a second thread (`Packed`), or one after
the other with nothing in common (`Deep`, `Sunk`), where a sample on its way is one a thread
is about to count, write or emit. The properties need what the code does not always give,
adapter by adapter; the operators of the module name it:

| Theorem | Holds unless, for an adapter of the instance, |
|---|---|
| `DevicesHaveOneOwner` (`OneOwner`) | `Joining` fails: a thread outlives its join (all but push and the microphone), the glove's `connect()` gives up on a slow reader, an AVFoundation restart is under way at `disconnect()`; or `Releasing`: a `connect()` that fails half-way (BLE, microphone, depth) |
| `ReadersSurvive` (`ReaderSurvives`) | `Surviving` fails: the glove and the UVC camera over OpenCV, with a file they cannot write |
| `RecordingsRecord` (`RecordingRecords`) | `Undisturbed` fails: UVC, AVFoundation, OAK, depth, lost in preview and reconnected; the first three also reconnected after a file they could not write |
| `ReportsStayTrue` (`ReportsAreTrue`) | `Reporting` fails: a thread that outlived its join counts into the next recording (all but push, the microphone, BLE, glove and OVISION) |

TLC finds each property violated by each of these (the reports of UVC, AVFoundation and OAK
when, beside the stuck thread, a link is lost and reconnected). The
run `adapters` is one of the instances in which all but `Undisturbed` hold; `RecordingRecords`,
which that run leaves out, is violated there and holds without "reconnect".

**Aggregation** (`Go3SProofs`, `GInv`). `Books` (a manifest is as true as the job it was
written from, what a job calls done was renamed into place, and only a Wi-Fi copy ends
early), `Refs`, `Downloading` (a job is complete only after a run that accounted for each
camera), `Networks` (the network `run()` remembers), `Carded` (what a reported take left on
its card). From it `FilesStayTrue` and `TakesAreOnCards`, under every fault.
`HostLeavesCamera` needs a host that learns its network (no "blind"); a crash or a restore
that fails is in the property. `TakesAreRemembered` needs `Alone`, one camera and no torn
manifest, because the manifest of an episode is overwritten by the job of each of its
cameras (section 5); `Announced` is its strengthening.

**Health** (`IncidentsProofs`, `IInv`). `Joined`: the worker is joined before open
incidents are closed, and none runs while logs are switched; `Written`: as long as there
is a log, what it shows open is open. From it `SealedLogsAreBalanced`, whatever detectors do.

**Viewer** (`ControlProofs`, `VInv`). `Answering`: nothing is returned before the call has
ended, and what is told from then on is what it returned; `Holding` and `Quiet`: who holds
the session, and nobody once the loop has drained. From it `StopsAreTold` and
`LaunchReleases`. If no call strands the session, `Unstranded` (a session nobody holds is in
neither of those states) makes it `LaunchReleasesAll`: `PassiveReleases`, every device released.

**Only model-checked.** All liveness (`DropIsResolved`, `RotationReturns`, `CloseReturns`,
`StopPropagates`, `CallsReturn`, `JobsEnd`, `RetriesEnd`, `StreamsAreFollowed`,
`CommandsEnd`, and `CallsEnd` but for its action part) is out of the prover's reach, as is
`ENABLED`. `NoFalseStall` is about what a detector has made of a queue of samples, a fold
whose value needs induction over the queue. No module has a RECURSIVE operator; folds of the
community modules are used where the code loops.

## 5. Where code and documentation disagree

`aggregation_retry` is run, with the quoted lines under `findings`. The others below are
what the models show in instances that no run keeps. Where a property is named, it
stands in the module and TLC violates it in the instance described.

**Session, supervision, rotation**

* `ChirpsBelongToTake` (any host that calls `set_chirp_mode` and records again):
  `_chirp_start` and `_chirp_stop` are written when a chirp plays and never reset, so
  after `set_chirp_mode("off")` the next `sync_point.json` carries the emissions of the
  previous recording. "Chirp fields are included only when a chirp was actually
  played" (docstring of `_persist_session_artifacts`).
* `NeverStranded` (`AutoDiscover`, a failing fan-out, a retry): `_output_dir` moves
  to a fresh path while `_episode_dir_created` is still set, the directory is never
  made, and `start()` raises outside every rollback. The rollback comment says
  callers "stay in CONNECTED so they can retry".
* `StoppedHoldsNothing` (one-shot, `cancel()`): the session lands in STOPPED with
  every device open, documented as "same as :meth:`stop`", whose branch says "tear down
  EVERYTHING here".
* `QueueIsServed` (two connect cycles): a worker that breaks on the stop flag leaves
  the sentinel, which ends the next cycle's worker at once, though `connect()` says it
  brings supervision online "so preview-phase drops recover before Record".
* `CleanTeardown` (a connect that fails for one stream, two connect cycles): a request left
  in the queue, or a result noted late, is served in a cycle that left its stream out;
  the device it opens is in no list, and `disconnect()` leaves it open.
* `OnlyHotSwapWhileRecording` (a loss in preview): eligibility is tested when a stream
  drops, never again when the reopen is made; "the supervisor enforces this per stream".
* `SwappedMeansArmed` (one stream swaps and fails to finalize while the other has yet
  to swap): the wait breaks on any worker that raised, so every stream goes on in
  the next directory and the session stays on the sealed one. "Arm the next directory
  as soon as EVERY swap has happened".
* `cancel()` leaves the supervisor's gate and the health worker on, and
  `last_episode_dir` then names a deleted directory. A preview drop after it goes
  straight to FAILED.
* A one-shot `start()` that fails the audio check leaves the devices open in
  CONNECTED. A one-shot `stop()` closes them and leaves the status "connected".
* A stop chirp whose player raises, or a disk error in `_persist_session_artifacts`,
  strands the session in STOPPING; a disk error before the fan-out strands it in
  PREPARING or COUNTDOWN.
* After a failed distribution the aborted directory is used again, and after
  `remove()` the published take keeps the aborted rows of the removed stream. The
  session log of a failed attempt is truncated when the retry follows a `disconnect()`.
* A follower or leader whose microphone fails to connect passes the audio check,
  which looks at the registered streams.
* Ctrl-C in the countdown leaves the devices to the operating system: the exit
  hook handles CONNECTED, STOPPED and RECORDING.
* With `reconnect_on_stall` an error noted late restarts the attempts of a
  recovery in progress (`RetriesBounded` without its premise); an error noted after
  `disconnect()` schedules a reconnect.
* A reopen that outlives the two-second join reopens a device after
  `disconnect()`, though the comment there says supervision is stopped first "so no
  reconnect fires mid-teardown". A worker that read the phase before
  `stop()` arms its stream after it.
* An error raised between the last swap of a rotation and the new sync point
  leaves the sealed segment unpublished and the health worker stopped.

**Writer.** An error of a writer's worker is only logged by the session, so a
manifest claims a stream complete whose `close()` raised.

**Cluster** (the named ones without any fault)

* `NeverRecordsAlone` (a one-shot leader): after `stop()` it is STOPPED while its control
  plane is kept alive. A follower that calls `start()` then takes that for its cue, where the
  code's comment means to "treat as observed and let the follower stop", and records a
  take that has no leader.
* `ReleasedAfterTheTake`: the keep-alive timer armed by `stop()` is not cancelled by
  the next `start()`, so the control plane goes down in the second take, and a
  follower polling it takes that for the end.
* `ObservesTheLeader`: `_find_any_match` takes any host for the leader, itself included.
* `FinishedTakesSurvive`: `collect_from_followers` after an aborted distribution
  removes the host directory with the takes finished before it; after a plain
  `stop()` the rotated `_output_dir` makes the leader's files "missing" and the
  followers' answers 404.
* A leader's advert stays "stopped" through its second distribution; a follower whose
  `start()` is not there yet rejects the config; those that accepted are not told of a
  rollback; one failed HTTP poll means "stopped"; the leader's own
  `GET /session/config` answers 404.

**Adapters**

* `RecordingRecords` (`fail`, `unplug`, `reconnect`): a `reconnect()` in flight when
  `start()` begins clears `_recording` (UVC, AVFoundation, OAK, depth; section 4 proves
  that it takes such a reconnect). That of the depth camera resets `_frame_count` as well:
  `stop_recording()` reports no frames and no `file_path` of a video that has some
  (`ReportsAreTrue` without `flawed`).
* `PreviewSurvives`: `stop_recording()` of the microphone closes the file under a
  callback that has passed its check, and of the depth camera there is no lock
  between flag and file; the reader ends with the recording.
* `DisconnectReleases`: an AVFoundation restart outlives `disconnect()`; a depth camera
  whose pipeline is rebuilt does not release the old one.
* `OneReader` with threads that outlive their join ("stuck"): both share `_stop_event`,
  and the next `connect()` clears it (polling, BLE, glove).
* `ReportIsOfThisRecording`: the BLE counter is not reset by `start_recording()`.
* The glove's guard against corrupt sequence numbers discards for ever after an
  unnoticed reboot; a writer error ends its reader; a `connect()` that timed out leaves its
  thread. The Quest raises its flag before it resets. `connect()` of the OVISION clears a
  capture error not yet reported, and its `stop_recording()` may wait for packets
  nobody writes. A metadata error after the write leaves video ahead of rows.
* What the session's sample writer raises is logged by `_make_sample_handler` and the row is
  lost (`ReportsAreTrue` without `refused`). The headset's recorder swallows a mux error and
  its sink counts the frame; the UVC loop counts a frame before it writes it, and when
  the write raises the report of a shorter video says "completed". No report tells.
* Preview samples emitted while the session's gate is open become rows. Some threads end
  without a health event. No adapter sets `supports_recording_reconnect`.

**Insta360**

* `CameraIsAtRest` (a lost reply, or the process dies): a camera may go on recording.
  `NoOrphans` ("half"): a BLE handshake that fails after the link is up keeps the link.
* `NothingForgotten` with two cameras, or a manifest torn by a crash: there is one
  `aggregation.json` per episode and its write is not atomic.
* `HostReturns` ("blind"): a host that did not learn its network does not restore it;
  after a crash on the camera's network it takes that network for its own.
* `NothingForgotten` without `unsaved`: the write of a job's manifest may fail unnoticed, and
  the take that was reported for later dies with the process, where the comment says "Always
  persist the aggregation manifest to disk so a later Sync (including after viewer restart)
  can find the episode".
* `FilesAreTrue` without `cut` and `halves`: jobs are made with size 0, so over Wi-Fi a short
  file passes for a whole one; and an `OSError` of the write, the size or the rename leaves
  the `.part`, where "a failed download leaves no partial files" (`queue.py`) and "On any
  failure [...] deletes the partial file" (`osc_client.py`).
* `HostReturns` without `stranded`: a restore that fails is logged and the job goes on, where
  `queue.py` "always restores the previous WiFi network".
* `JobsEnd` ("again"): `retry()` of a job that has not failed replaces the event its
  first caller waits for; `aggregate_all_pending` enqueues queued jobs again. FAILED jobs
  are not recovered; a second failing write of a manifest ends the worker; `cancel()`
  deletes an episode whose job was built.

**Health**

* `NoFalseStall` and `SilenceIsSeen` without `resumed`: a rotation or `stop()` closes
  the incident and leaves the detector's memory, so the second recording starts with a
  stale clock or an already active stall. Events emitted in the gap of a rotation are
  lost, where the comment says nothing is.
* Resolved incidents are never cleared, so later reports list those of earlier
  takes. `disconnect()` leaves incidents open; a `connect()` that fails, and
  `cancel()`, leave the worker running.

**Viewer**

* `CancelsAreAnswered` ("leave"): a browser that goes during the answer's broadcast
  makes it raise, and "Cancel failed" is told though the take was deleted. The same error
  before the call ends a stop command before `session.stop()`.
* `PassiveReleases`: a `stop()` that raised leaves STOPPING, a `start()` that raised before
  its fan-out or in its countdown PREPARING or COUNTDOWN, and `close()` skips
  `disconnect()`, though "A failed stop() must NOT prevent disconnect()"; after
  `launch_passive()`, `close()` during a start releases nothing.
* A cluster stop in the countdown answers 200 and leaves the leader to record; a
  leader that raises leaves its followers recording. Routes for `remove` and the
  chirp mode block the loop on the session's lock.

## 6. Not modelled

* **Codecs, packet formats, Bluetooth, Wi-Fi and camera protocols**, mDNS and HTTP
  transport: hardware, libraries and external services. The modules model what the
  code does with their answers.
* **Chirp synthesis, calibration data, types, discovery**: pure data or one pass.
* **Viewer frontend, examples**: outside the package. The viewer's poller, file, task and
  MJPEG routes read, or write one file each.
* **Left out of modelled parts** (see the notes of the components): the OAK
  key-frame overlap at a rotation and the DepthAI graph; the subprocess fallback of the
  advertiser; file transfer by ranges; `shutdown()` of the aggregation queue, which only
  tests call; the registry of user detectors; order of the status notifications the
  supervisor emits outside its lock, and `remove()` not unregistering its record; the
  two-second join of the health worker; the host's own microphone that `start()` registers by
  itself; manifests that the queue's worker cannot write.

## 7. Plan

Modelled and checked: every component above; proved: what section 4 lists. What is left,
most important first:

1. Types: `TypeOK` of `SegmentRotation`, `Go3S`, `Incidents` and `Viewer` as theorems;
   their invariants hold the parts the proofs needed.
2. `ChirpsBelongToTake`, `DevicesTracked` and the other books one by one, each under the
   hypothesis it alone needs.
3. The premise-free part of `NoFalseStall`: what a stall that is open says of the clock.
