------------------------------- MODULE Session -------------------------------
(***************************************************************************)
(* The lifecycle of SessionOrchestrator (src/syncfield/orchestrator.py):   *)
(* add, remove, set_chirp_mode, connect, start, stop, cancel, disconnect   *)
(* and the atexit hook, over a set of streams with open devices, sample    *)
(* writers, an episode directory, chirps and published artifacts.          *)
(*                                                                         *)
(* Every lifecycle method holds one re-entrant lock from its first line to *)
(* its last, so at most one of them is in progress; `op' is the step it    *)
(* has reached.  What runs beside it are the capture threads, which hand   *)
(* samples to the writers without that lock, and the fan-out workers.  A   *)
(* method that raises outside its own rollback leaves op = "none" and the  *)
(* state where it was: such a session is stranded.                         *)
(***************************************************************************)
EXTENDS Naturals

CONSTANTS
  Streams,        \* stream ids
  Audio,          \* the streams whose kind is "audio"
  Role,           \* "single", "leader" or "follower"
  AutoDiscover,   \* a follower constructed without a session id
  Calls,          \* the calls the application makes
  Faults,         \* what may fail in this instance
  MaxTake         \* bound: recordings attempted, and half the directories named

CallNames == {"add", "remove", "set_chirp_mode", "connect", "start", "oneshot",
              "stop", "cancel", "disconnect", "exit", "interrupt"}
FaultNames == {"connect", "start", "stop", "start_chirp", "stop_chirp",
               "rmtree", "disk", "leader", "config"}

ASSUME AudioAssumption == Audio \subseteq Streams
ASSUME RoleAssumption ==
  /\ Role \in {"single", "leader", "follower"}
  /\ AutoDiscover \in BOOLEAN
  /\ AutoDiscover => Role = "follower"
ASSUME ClientAssumption == Calls \subseteq CallNames /\ Faults \subseteq FaultNames
ASSUME MaxTakeAssumption == MaxTake \in Nat

States == {"idle", "connecting", "connected", "preparing", "countdown",
           "recording", "stopping", "stopped"}
Ops == {"none", "connect", "autoconnect", "validate", "await", "arm", "open",
        "fanout", "distribute", "stopchirp", "finalize", "land", "cancel"}
Conditions == {"none", "idle", "connecting", "connected", "failed", "disconnected"}

VARIABLES
  state,          \* _state
  op,             \* the step the holder of _lock has reached
  todo,           \* streams a step in progress has not handled yet
  started,        \* streams whose start_recording() returned
  auto,           \* _auto_connected
  registered,     \* _streams
  connected,      \* _connected_streams
  dev,            \* streams whose device is open
  armed,          \* streams whose adapter is in its recording window
  status,         \* _stream_states
  episode,        \* _output_dir: number of the episode directory
  dirCreated,     \* _episode_dir_created
  dirs,           \* episode directories on disk
  writer,         \* _sample_writers: episode the open file is in, 0 for none
  rows,           \* sample rows on disk
  published,      \* sync_point.json and manifest.json on disk
  lastEpisode,    \* _last_episode_dir, 0 for None
  log,            \* _log_writer: episode its file is in, 0 for None
  rollbacks,      \* episodes whose session log holds a rollback record
  take,           \* recordings attempted so far
  syncPoint,      \* _sync_point: the take it was created for, 0 for None
  chirpOn,        \* _sync_tone.enabled
  chirpStart,     \* _chirp_start: the take it was played in, 0 for None
  chirpStop,      \* _chirp_stop
  gate,           \* _supervisor._recording
  health,         \* the health worker is running
  exit            \* how far the atexit hook has got

opVars      == <<state, op, todo, started, auto>>
deviceVars  == <<connected, dev, armed, status>>
fileVars    == <<episode, dirCreated, dirs, writer, rows, published, lastEpisode>>
logVars     == <<log, rollbacks>>
chirpVars   == <<take, syncPoint, chirpOn, chirpStart, chirpStop>>
watchVars   == <<gate, health>>
vars == <<opVars, registered, deviceVars, fileVars, logVars, chirpVars, watchVars, exit>>

-----------------------------------------------------------------------------
\* Helpers

CanCall(c) == op = "none" /\ exit = "no" /\ c \in Calls
At(o) == op = o /\ exit # "done"

\* The bound of this model on the number of recordings.
MayRecord == take < MaxTake /\ episode <= 2 * MaxTake

\* The sets of members of S that fail together, none of them unless f may occur.
Failing(S, f) == {X \in SUBSET S : X = {} \/ f \in Faults}

NoWriters == [s \in Streams |-> 0]

\* _close_sample_writers: every writer, also one whose stream never started.
CloseOnlyStarted == writer' = [s \in Streams |-> IF s \in started THEN 0 ELSE writer[s]]
CloseNothing == UNCHANGED writer
CloseSampleWriters == writer' = NoWriters

\* A writer opens its file with mode "w".
AppendedRows(S) == rows
TruncatedRows(S) == {r \in rows : r.episode # episode \/ r.stream \notin S}

CloseLog == log' = 0

ChirpEligible == Role # "follower" /\ chirpOn

\* The fan-out has been joined and no worker raised.
SomeStarted == started # {}
AllJoined == todo = {}
AllStarted == todo = {} /\ started = connected

\* Every stop worker has been joined, whether its stream stopped or raised.
AllDisarmed == todo = {} /\ armed = {}
AllHandled == todo = {}

\* A new SyncPoint for every recording.
FreshSyncPoint == take + 1

\* Leaving the recording window.
StopHealthOnly == health' = FALSE /\ UNCHANGED gate
StopWatching == health' = FALSE /\ gate' = FALSE

\* _rollback_disconnect_streams(self._connected_streams); the list is emptied.
CloseDevices ==
  /\ dev' = dev \ connected
  /\ armed' = armed \ connected
  /\ connected' = {}

\* disconnect() flips every stream that was ever added.
StatusAfterDisconnect ==
  [s \in Streams |-> IF status[s] = "none" THEN "none" ELSE "disconnected"]

\* _prepare_next_episode
SameDirectory ==
  /\ lastEpisode' = IF dirCreated THEN episode ELSE lastEpisode
  /\ dirCreated' = FALSE
  /\ UNCHANGED episode
PrepareNextEpisode ==
  /\ lastEpisode' = IF dirCreated THEN episode ELSE lastEpisode
  /\ episode' = episode + 1
  /\ dirCreated' = FALSE

-----------------------------------------------------------------------------
Init ==
  /\ state = "idle" /\ op = "none" /\ todo = {} /\ started = {} /\ auto = FALSE
  /\ registered = {} /\ connected = {} /\ dev = {} /\ armed = {}
  /\ status = [s \in Streams |-> "none"]
  /\ episode = 1 /\ dirCreated = FALSE /\ dirs = {} /\ lastEpisode = 0
  /\ writer = NoWriters /\ rows = {} /\ published = {}
  /\ log = 0 /\ rollbacks = {}
  /\ take = 0 /\ syncPoint = 0 /\ chirpOn \in BOOLEAN /\ chirpStart = 0 /\ chirpStop = 0
  /\ gate = FALSE /\ health = FALSE /\ exit = "no"

-----------------------------------------------------------------------------
\* Registration and configuration

Add(s) ==
  /\ CanCall("add") /\ state = "idle" /\ s \notin registered
  /\ registered' = registered \union {s}
  /\ status' = [status EXCEPT ![s] = "idle"]
  /\ UNCHANGED <<opVars, connected, dev, armed, fileVars, logVars, chirpVars, watchVars, exit>>

\* The device is closed only when the session is connected.
Remove(s) ==
  /\ CanCall("remove") /\ state \in {"idle", "connected", "stopped"} /\ s \in registered
  /\ registered' = registered \ {s}
  /\ IF state = "connected"
     THEN /\ connected' = connected \ {s}
          /\ dev' = dev \ {s}
          /\ armed' = armed \ {s}
     ELSE UNCHANGED <<connected, dev, armed>>
  /\ UNCHANGED <<opVars, status, fileVars, logVars, chirpVars, watchVars, exit>>

SetChirpMode ==
  /\ CanCall("set_chirp_mode") /\ state \in {"idle", "stopped"}
  /\ chirpOn' = ~chirpOn
  /\ UNCHANGED <<opVars, registered, deviceVars, fileVars, logVars, take, syncPoint,
                 chirpStart, chirpStop, watchVars, exit>>

-----------------------------------------------------------------------------
\* connect()

ConnectBegin ==
  /\ CanCall("connect") /\ state \in {"idle", "stopped"} /\ registered # {}
  /\ state' = "connecting" /\ op' = "connect" /\ health' = TRUE
  /\ status' = [s \in Streams |-> IF s \in registered THEN "connecting" ELSE status[s]]
  /\ UNCHANGED <<todo, started, auto, registered, connected, dev, armed, fileVars, logVars,
                 chirpVars, gate, exit>>

\* The device loop: a stream that raises is marked failed, the others go on,
\* and only a loop in which every stream failed raises.
ConnectDevices ==
  /\ At("connect") \/ At("autoconnect")
  /\ \E bad \in Failing(registered, "connect") :
       /\ status' = [s \in Streams |-> IF s \in bad THEN "failed"
                                       ELSE IF s \in registered THEN "connected"
                                       ELSE status[s]]
       /\ dev' = (dev \union registered) \ bad
       /\ armed' = armed \ bad
       /\ IF bad = registered
          THEN /\ state' = "idle" /\ op' = "none" /\ CloseLog
               /\ UNCHANGED connected
          ELSE /\ state' = "connected"
               /\ op' = IF op = "autoconnect" THEN "validate" ELSE "none"
               /\ connected' = registered \ bad
               /\ UNCHANGED log
  /\ UNCHANGED <<todo, started, auto, registered, fileVars, rollbacks, chirpVars,
                 watchVars, exit>>

-----------------------------------------------------------------------------
\* start()

StartExplicit ==
  /\ CanCall("start") /\ state = "connected" /\ MayRecord
  /\ auto' = FALSE /\ op' = "validate"
  /\ UNCHANGED <<state, todo, started, registered, deviceVars, fileVars, logVars, chirpVars,
                 watchVars, exit>>

\* The one-shot path: connect() runs inside start().  With no stream
\* registered it raises after the flag has been set.
StartOneShot ==
  /\ CanCall("oneshot") /\ state \in {"idle", "stopped"} /\ MayRecord
  /\ auto' = TRUE
  /\ IF registered = {}
     THEN UNCHANGED <<state, op, health, status>>
     ELSE /\ state' = "connecting" /\ op' = "autoconnect" /\ health' = TRUE
          /\ status' = [s \in Streams |-> IF s \in registered THEN "connecting" ELSE status[s]]
  /\ UNCHANGED <<todo, started, registered, connected, dev, armed, fileVars, logVars,
                 chirpVars, gate, exit>>

\* A multi-host session needs a registered audio stream; the ValueError
\* leaves start() before any rollback is in reach.
HasAudio == Role = "single" \/ registered \intersect Audio # {}

StartValidate ==
  /\ At("validate")
  /\ op' = IF HasAudio THEN "await" ELSE "none"
  /\ UNCHANGED <<state, todo, started, auto, registered, deviceVars, fileVars, logVars,
                 chirpVars, watchVars, exit>>

\* The leader is seen recording.  An auto-discovering follower now learns the
\* session id and moves to a fresh directory; _episode_dir_created stays.
StartAwait ==
  /\ At("await")
  /\ state' = "preparing" /\ op' = "arm"
  /\ episode' = IF AutoDiscover THEN episode + 1 ELSE episode
  /\ UNCHANGED <<todo, started, auto, registered, deviceVars, dirCreated, dirs, writer, rows,
                 published, lastEpisode, logVars, chirpVars, watchVars, exit>>

\* Where a failed start() goes: an auto-connected session closes its devices
\* and returns to IDLE, any other one returns to CONNECTED with the adapters
\* in `left' still armed.
ReturnNowhere(left) == op' = "none" /\ armed' = left /\ UNCHANGED <<state, auto, connected, dev>>
ReturnFromStart(left) ==
  /\ op' = "none"
  /\ IF auto
     THEN state' = "idle" /\ auto' = FALSE /\ CloseDevices
     ELSE state' = "connected" /\ armed' = left /\ UNCHANGED <<auto, connected, dev>>

\* No leader is seen in time, or its config cannot be fetched after the
\* directory was rewritten.
StartAwaitFails ==
  /\ At("await")
  /\ Role = "follower"
  /\ \/ "leader" \in Faults /\ UNCHANGED episode
     \/ "config" \in Faults /\ episode' = IF AutoDiscover THEN episode + 1 ELSE episode
  /\ ReturnFromStart(armed)
  /\ log' = IF auto THEN 0 ELSE log
  /\ UNCHANGED <<todo, started, registered, status, dirCreated, dirs, writer, rows, published,
                 lastEpisode, rollbacks, chirpVars, watchVars, exit>>

\* The directory is made once per episode and the session log opened in it,
\* truncating one an earlier attempt left there.  A log file that cannot be
\* opened strands the session in PREPARING.
StartArm ==
  /\ At("arm")
  /\ dirs' = IF dirCreated THEN dirs ELSE dirs \union {episode}
  /\ dirCreated' = TRUE
  /\ \/ /\ log # 0 \/ episode \in dirs'
        /\ log' = IF log = 0 THEN episode ELSE log
        /\ rollbacks' = IF log = 0 THEN rollbacks \ {episode} ELSE rollbacks
        /\ state' = "countdown" /\ op' = "open"
     \/ /\ log = 0 /\ (episode \notin dirs' \/ "disk" \in Faults)
        /\ op' = "none"
        /\ UNCHANGED <<state, logVars>>
  /\ UNCHANGED <<todo, started, auto, registered, deviceVars, episode, writer, rows, published,
                 lastEpisode, chirpVars, watchVars, exit>>

\* A fresh sync point, then one writer per connected stream, each truncating
\* its file.  A writer that cannot be opened strands the session in COUNTDOWN.
StartOpenWriters ==
  /\ At("open")
  /\ take' = take + 1 /\ syncPoint' = FreshSyncPoint
  /\ \E opened \in SUBSET connected :
       /\ writer' = [s \in Streams |-> IF s \in opened THEN episode ELSE writer[s]]
       /\ rows' = TruncatedRows(opened)
       /\ opened # {} => episode \in dirs
       /\ \/ /\ opened = connected
             /\ op' = "fanout" /\ todo' = connected /\ started' = {}
          \/ /\ opened # connected /\ (episode \notin dirs \/ "disk" \in Faults)
             /\ op' = "none" /\ UNCHANGED <<todo, started>>
  /\ UNCHANGED <<state, auto, registered, deviceVars, episode, dirCreated, dirs, published,
                 lastEpisode, logVars, chirpOn, chirpStart, chirpStop, watchVars, exit>>

\* One fan-out worker: start_recording() returns or raises.
FanOut(s) ==
  /\ At("fanout") /\ s \in todo
  /\ todo' = todo \ {s}
  /\ \/ started' = started \union {s} /\ armed' = armed \union {s}
     \/ "start" \in Faults /\ UNCHANGED <<started, armed>>
  /\ UNCHANGED <<state, op, auto, registered, connected, dev, status, fileVars, logVars,
                 chirpVars, watchVars, exit>>

\* Some stream raised: stop those that started, close the writers, go back.
StartRollback ==
  /\ At("fanout") /\ todo = {} /\ ~AllStarted
  /\ rollbacks' = IF log = 0 THEN rollbacks ELSE rollbacks \union {log}
  /\ CloseSampleWriters
  /\ \E stuck \in Failing(started, "stop") : ReturnFromStart(armed \ (started \ stuck))
  /\ log' = IF auto THEN 0 ELSE log
  /\ UNCHANGED <<todo, started, registered, status, episode, dirCreated, dirs, rows, published,
                 lastEpisode, chirpVars, watchVars, exit>>

\* Every stream is writing: play the start chirp, a failure of which is
\* swallowed, and enter RECORDING.
StartChirp ==
  /\ At("fanout") /\ AllStarted
  /\ \/ ChirpEligible /\ chirpStart' = take
     \/ ~ChirpEligible /\ UNCHANGED chirpStart
     \/ ChirpEligible /\ "start_chirp" \in Faults /\ UNCHANGED chirpStart
  /\ state' = "recording" /\ gate' = TRUE /\ health' = TRUE
  /\ op' = IF Role = "leader" THEN "distribute" ELSE "none"
  /\ UNCHANGED <<todo, started, auto, registered, deviceVars, fileVars, logVars, take,
                 syncPoint, chirpOn, chirpStop, exit>>

\* The leader's config reaches every follower.
Distribute ==
  /\ At("distribute")
  /\ op' = "none"
  /\ UNCHANGED <<state, todo, started, auto, registered, deviceVars, fileVars, logVars,
                 chirpVars, watchVars, exit>>

\* _rollback_after_distribute_failure: a follower rejected the config.  The
\* directory stays on disk and _output_dir still names it.
DistributeRollback ==
  /\ At("distribute") /\ "config" \in Faults
  /\ CloseSampleWriters
  /\ syncPoint' = 0 /\ chirpStart' = 0 /\ chirpStop' = 0
  /\ CloseLog /\ dirCreated' = FALSE
  /\ \E stuck \in Failing(connected, "stop") : ReturnFromStart(armed \ (connected \ stuck))
  /\ UNCHANGED <<todo, started, registered, status, episode, dirs, rows, published,
                 lastEpisode, rollbacks, take, chirpOn, watchVars, exit>>

-----------------------------------------------------------------------------
\* stop()

StopBegin ==
  /\ CanCall("stop") \/ (At("none") /\ exit = "stopping")
  /\ state = "recording"
  /\ state' = "stopping" /\ op' = "stopchirp"
  /\ exit' = IF exit = "stopping" THEN "reread" ELSE exit
  /\ UNCHANGED <<todo, started, auto, registered, deviceVars, fileVars, logVars, chirpVars,
                 watchVars>>

\* The stop chirp comes before any stream is told to stop.  A player that
\* raises leaves stop() here, in STOPPING.
StopChirp ==
  /\ At("stopchirp")
  /\ \/ /\ chirpStop' = IF ChirpEligible THEN take ELSE chirpStop
        /\ op' = "finalize" /\ todo' = connected
     \/ /\ ChirpEligible /\ "stop_chirp" \in Faults
        /\ op' = "none" /\ UNCHANGED <<todo, chirpStop>>
  /\ UNCHANGED <<state, started, auto, registered, deviceVars, fileVars, logVars, take,
                 syncPoint, chirpOn, chirpStart, watchVars, exit>>

\* One finalize worker: stop_recording(), whose failure becomes a failed
\* report, then the stream's own writer is closed.
FinalizeStream(s) ==
  /\ At("finalize") /\ s \in todo
  /\ todo' = todo \ {s}
  /\ armed' \in {armed \ {s}} \union (IF "stop" \in Faults THEN {armed} ELSE {})
  /\ writer' = [writer EXCEPT ![s] = 0]
  /\ UNCHANGED <<state, op, started, auto, registered, connected, dev, status, episode,
                 dirCreated, dirs, rows, published, lastEpisode, logVars, chirpVars,
                 watchVars, exit>>

\* Leave the recording window and publish sync_point.json and manifest.json.
\* A write that raises leaves stop() here, in STOPPING.
StopPersist ==
  /\ At("finalize") /\ AllHandled
  /\ CloseSampleWriters
  /\ StopWatching
  /\ \/ /\ published' = published \union {[episode |-> episode, sync |-> syncPoint,
                                           start |-> chirpStart, stop |-> chirpStop]}
        /\ op' = "land"
     \/ "disk" \in Faults /\ op' = "none" /\ UNCHANGED published
  /\ UNCHANGED <<state, todo, started, auto, registered, deviceVars, episode, dirCreated,
                 dirs, rows, lastEpisode, logVars, chirpVars, exit>>

\* The landing state and the next episode's directory.
StopLand ==
  /\ At("land")
  /\ op' = "none" /\ CloseLog
  /\ IF auto
     THEN state' = "stopped" /\ auto' = FALSE /\ CloseDevices
     ELSE state' = "connected" /\ UNCHANGED <<auto, connected, dev, armed>>
  /\ PrepareNextEpisode
  /\ UNCHANGED <<todo, started, registered, status, dirs, writer, rows, published, rollbacks,
                 chirpVars, watchVars, exit>>

-----------------------------------------------------------------------------
\* cancel()

CancelBegin ==
  /\ CanCall("cancel") /\ state = "recording"
  /\ state' = "stopping" /\ op' = "cancel" /\ todo' = connected
  /\ UNCHANGED <<started, auto, registered, deviceVars, fileVars, logVars, chirpVars,
                 watchVars, exit>>

CancelStream(s) ==
  /\ At("cancel") /\ s \in todo
  /\ todo' = todo \ {s}
  /\ armed' \in {armed \ {s}} \union (IF "stop" \in Faults THEN {armed} ELSE {})
  /\ UNCHANGED <<state, op, started, auto, registered, connected, dev, status, fileVars,
                 logVars, chirpVars, watchVars, exit>>

\* Writers and log are closed, the directory is deleted, best effort, and the
\* session lands.  Nothing else of the recording is undone.
CancelLand ==
  /\ At("cancel") /\ AllHandled
  /\ CloseSampleWriters /\ CloseLog
  /\ \/ /\ dirs' = dirs \ {episode}
        /\ rows' = {r \in rows : r.episode # episode}
        /\ rollbacks' = rollbacks \ {episode}
     \/ "rmtree" \in Faults /\ UNCHANGED <<dirs, rows, rollbacks>>
  /\ PrepareNextEpisode
  /\ state' = IF auto THEN "stopped" ELSE "connected"
  /\ op' = "none"
  /\ UNCHANGED <<todo, started, auto, registered, deviceVars, published, chirpVars,
                 watchVars, exit>>

-----------------------------------------------------------------------------
\* disconnect(), capture threads and the atexit hook

Disconnect ==
  /\ CanCall("disconnect") \/ (At("none") /\ exit = "disconnecting")
  /\ state \in {"connected", "stopped"}
  /\ state' = "idle" /\ CloseLog /\ health' = FALSE
  /\ CloseDevices
  /\ status' = StatusAfterDisconnect
  /\ exit' = IF exit = "disconnecting" THEN "done" ELSE exit
  /\ UNCHANGED <<op, todo, started, auto, registered, fileVars, rollbacks, chirpVars, gate>>

\* A capture thread emits a sample; live previews emit outside recordings too.
Sample(s) ==
  /\ exit # "done" /\ s \in dev /\ writer[s] # 0
  /\ rows' = rows \union {[episode |-> writer[s], stream |-> s, take |-> take]}
  /\ UNCHANGED <<opVars, registered, deviceVars, episode, dirCreated, dirs, writer, published,
                 lastEpisode, logVars, chirpVars, watchVars, exit>>

\* What _safe_shutdown does next in the state it reads.
ExitNext ==
  IF state = "recording" /\ exit = "no" THEN "stopping"
  ELSE IF state \in {"connected", "stopped"} THEN "disconnecting" ELSE "done"

\* The process exits, normally or because a KeyboardInterrupt, which no handler
\* of the session catches, ended the method in progress where it was.
\* _safe_shutdown reads the state, and reads it again after the stop() it
\* called has returned or raised.
ExitRead ==
  /\ \/ exit = "no" /\ ("interrupt" \in Calls \/ ("exit" \in Calls /\ op = "none"))
     \/ exit = "reread" /\ op = "none"
     \/ exit = "stopping" /\ op = "none" /\ state # "recording"
  /\ exit' = ExitNext
  /\ op' = "none"
  /\ UNCHANGED <<state, todo, started, auto, registered, deviceVars, fileVars, logVars,
                 chirpVars, watchVars>>

-----------------------------------------------------------------------------
\* The steps of a method that holds the lock.
Step ==
  \/ ConnectDevices
  \/ StartValidate \/ StartAwait \/ StartAwaitFails \/ StartArm \/ StartOpenWriters
  \/ \E s \in Streams : FanOut(s)
  \/ StartRollback \/ StartChirp \/ Distribute \/ DistributeRollback
  \/ StopChirp
  \/ \E s \in Streams : FinalizeStream(s)
  \/ StopPersist \/ StopLand
  \/ \E s \in Streams : CancelStream(s)
  \/ CancelLand

Call ==
  \/ \E s \in Streams : Add(s)
  \/ \E s \in Streams : Remove(s)
  \/ SetChirpMode \/ ConnectBegin \/ StartExplicit \/ StartOneShot
  \/ StopBegin \/ CancelBegin \/ Disconnect

Next ==
  \/ Call
  \/ Step
  \/ \E s \in Streams : Sample(s)
  \/ ExitRead

Spec == Init /\ [][Next]_vars

\* A method that holds the lock runs on: the adapters, the player and the
\* leader wait all return, in bounded time, with a value or an exception.
FairSpec == Spec /\ WF_vars(Step)

-----------------------------------------------------------------------------
(***************************************************************************)
(* Properties.                                                             *)
(***************************************************************************)

Sealed(e) == \E p \in published : p.episode = e

\* No method is in progress and the session accepts a lifecycle call other
\* than stop() and cancel().
AtRest == op = "none" /\ state \in {"idle", "connected", "stopped"}

Row == [episode : Nat, stream : Streams, take : Nat]
SyncPointFile == [episode : Nat, sync : Nat, start : Nat, stop : Nat]

\* Every variable has its type.
OpTypeOK ==
  /\ state \in States /\ op \in Ops /\ auto \in BOOLEAN
  /\ todo \subseteq Streams /\ started \subseteq Streams
DeviceTypeOK ==
  /\ registered \subseteq Streams /\ connected \subseteq Streams
  /\ dev \subseteq Streams /\ armed \subseteq Streams
  /\ status \in [Streams -> Conditions]
FileTypeOK ==
  /\ episode \in Nat \ {0} /\ dirCreated \in BOOLEAN /\ dirs \subseteq Nat
  /\ writer \in [Streams -> Nat] /\ rows \subseteq Row /\ published \subseteq SyncPointFile
  /\ lastEpisode \in Nat /\ log \in Nat /\ rollbacks \subseteq Nat
ChirpTypeOK ==
  /\ take \in Nat /\ syncPoint \in Nat /\ chirpOn \in BOOLEAN
  /\ chirpStart \in Nat /\ chirpStop \in Nat
  /\ gate \in BOOLEAN /\ health \in BOOLEAN
  /\ exit \in {"no", "stopping", "reread", "disconnecting", "done"}
TypeOK == OpTypeOK /\ DeviceTypeOK /\ FileTypeOK /\ ChirpTypeOK

\* An open sample file is in the current episode, whose directory exists and
\* has not been published: no writer survives the take it was opened for
\* (_open_sample_writers against _close_sample_writer(s) and every path that
\* moves _output_dir).
WritersInCurrentEpisode ==
  \A s \in Streams :
    writer[s] # 0 => writer[s] = episode /\ episode \in dirs /\ ~Sealed(episode)

\* At rest nothing is persisted and, unless a stop_recording() raised, no
\* adapter is left in its recording window, whichever of the ways out of a
\* recording was taken: stop, cancel, or one of the three rollbacks of start.
NothingRecordsAtRest ==
  AtRest => /\ writer = NoWriters
            /\ "stop" \notin Faults => armed = {}

\* start() is atomic: in RECORDING every connected stream, and no other, is
\* armed and has a writer in the current episode.
AtomicRecording ==
  state = "recording" =>
    /\ connected \subseteq armed
    /\ \A s \in Streams : writer[s] = IF s \in connected THEN episode ELSE 0

\* A published take never changes: its rows stay as they were and its sync
\* point is never rewritten.
SealedTakesFrozen ==
  [][\A p \in published :
       /\ p \in published'
       /\ {r \in rows' : r.episode = p.episode} = {r \in rows : r.episode = p.episode}]_vars

\* The session keeps the promise of EpisodeStore.
Store == INSTANCE EpisodeStore WITH current <- episode
StoreSpec == Store!Spec

\* All rows of a published take were captured under its sync point, though a
\* failed attempt may have left files in the same directory.
SealedTakeIsOneTake ==
  \A p \in published, r \in rows : r.episode = p.episode => r.take = p.sync

\* Each chirp is played while every connected stream is recording to disk, so
\* it lands in every audio track (the comments in start() and stop()).
ChirpsInsideTheTake ==
  [][(chirpStart' \notin {0, chirpStart} \/ chirpStop' \notin {0, chirpStop}) =>
       connected \subseteq armed /\ \A s \in connected : writer[s] = episode]_vars

\* The chirps a sync point reports were played in the take it belongs to.
ChirpsBelongToTake ==
  \A p \in published : p.start \in {0, p.sync} /\ p.stop \in {0, p.sync}

\* The supervisor's recording gate and the health worker follow the take.
GateFollowsRecording ==
  /\ state = "recording" => gate /\ health
  /\ AtRest => ~gate

\* A stream reported connected has an open device.
StatusTellsTheDevice ==
  AtRest => \A s \in registered : status[s] = "connected" => s \in dev

\* Every open device is in the list disconnect() closes.
DevicesTracked == AtRest => dev \subseteq connected

\* Every method leaves the session where another one can be called.
NeverStranded == op = "none" => state \in {"idle", "connected", "recording", "stopped"}

\* last_episode_dir names a directory that is there.
LastEpisodeExists == lastEpisode # 0 => lastEpisode \in dirs

\* When the process exits through the atexit hook no device is open.
ExitReleasesDevices == exit = "done" => dev = {}

\* What the session keeps in its books is true, however calls, failing streams and
\* the exit hook follow each other: the gate and the statuses follow the devices, the
\* devices are those disconnect() closes, last_episode_dir and the chirps of a sync
\* point are those of a take that was made, and the exit leaves no device open.
BooksAgree ==
  /\ GateFollowsRecording /\ StatusTellsTheDevice /\ DevicesTracked
  /\ LastEpisodeExists /\ ChirpsBelongToTake /\ ExitReleasesDevices

\* A start() or stop() of an auto-connected session that ends outside RECORDING
\* has torn everything down: the session is IDLE or STOPPED with every stream's
\* device closed.  The audio check of start(), which has no rollback, is left out.
OneShotTearsDown ==
  [][op \notin {"none", "connect", "validate", "cancel"} /\ auto
       /\ op' = "none" /\ state' # "recording" =>
       state' \in {"idle", "stopped"} /\ dev' \intersect registered = {}]_vars

\* A session that says STOPPED holds no device, cancelled or not.
StoppedHoldsNothing == op = "none" /\ state = "stopped" => dev = {}

\* A multi-host session never records without an audio stream.
AudioInEveryTake ==
  Role # "single" /\ state = "recording" => connected \intersect Audio # {}

\* Whatever failed before it, a take that is published is one take, and in a cluster
\* it has the audio that aligns it with the other hosts'.
TakesAreWhole == SealedTakeIsOneTake /\ AudioInEveryTake

\* stop() and cancel() reach their landing state.
StopLands == state = "stopping" ~> AtRest

\* Every method that takes the lock gives it back.
EveryCallReturns == []<>(op = "none")

\* Every call ends, and ends where the caller expects it: stop() and cancel() land,
\* one-shot calls leave nothing open, and the lock is given back.
CallsEnd == OneShotTearsDown /\ StopLands /\ EveryCallReturns
=============================================================================
