---------------------------- MODULE SegmentRotation ----------------------------
(***************************************************************************)
(* rotate_recording_segment() of SessionOrchestrator: a running recording  *)
(* moves to a fresh directory without losing a frame.  The next segment's  *)
(* writers are opened by every stream first (prepare); then each stream's  *)
(* adapter swaps its own media writer and, through a callback, the         *)
(* session's sample writer, between two frames (commit); then the session  *)
(* itself moves (arm) while the adapters still close the old files; last,  *)
(* the old segment is published (settle).                                  *)
(*                                                                         *)
(* The caller holds the session lock throughout, so stop() comes before or *)
(* after a rotation; the capture threads and the prepare and commit        *)
(* workers run beside it.  The recording has been started as in Session:   *)
(* every stream writes segment 1.                                          *)
(***************************************************************************)
EXTENDS Naturals

CONSTANTS
  Streams,        \* _connected_streams, all of them SegmentRotatableStream
  Faults,         \* what may fail in this instance
  MaxSegment      \* bound: directories named

FaultNames == {"open", "prepare", "commit", "finalize", "log", "sync_point", "callback",
               "persist"}

ASSUME FaultsAssumption == Faults \subseteq FaultNames
ASSUME MaxSegmentAssumption == MaxSegment \in Nat \ {0}

Ops == {"none", "open", "prepare", "undo", "commit", "arm", "escape", "settle"}
Commits == {"none", "running", "swapped", "done", "raised"}

VARIABLES
  phase,        \* "recording" or "stopped"
  op,           \* the step the rotation in progress has reached
  dir,          \* _output_dir
  sync,         \* _sync_point: the segment it was created for
  chirps,       \* _chirp_start, _chirp_stop: chirps played and not yet left behind
  log,          \* _log_writer: the segment its file is in
  health,       \* the health worker is running
  next,         \* next_dir: the last directory named
  dirs,         \* directories on disk
  sealed,       \* what the rotation took from the session before it began
  handles,      \* prepared_writers: sample writers open in next_dir
  media,        \* the segment a stream's adapter writes its frames to
  ready,        \* streams whose adapter holds media writers open in next_dir
  clock,        \* the recording window (session clock) of a stream's adapter
  writer,       \* _sample_writers: the segment a stream's rows go to
  todo,         \* prepare workers that have not returned
  failed,       \* first_error or commit_error is set
  commit,       \* per stream: how far its commit worker is
  rows,         \* frames captured: where the frame went, its row, its window
  published,    \* sync_point.json and manifest.json on disk
  ambiguous     \* history: a rotation raised after its commit had begun

sessionVars == <<dir, sync, chirps, log, health>>
streamVars  == <<media, ready, clock, writer, handles>>
diskVars    == <<dirs, rows, published>>
vars == <<phase, op, next, sealed, todo, failed, commit, ambiguous, sessionVars, streamVars,
          diskVars>>

Swapped == {s \in Streams : writer[s] = next}
Raised == {s \in Streams : commit[s] = "raised"}
Returned == \A s \in Streams : commit[s] \in {"done", "raised"}

Init ==
  /\ phase = "recording" /\ op = "none"
  /\ dir = 1 /\ sync = 1 /\ log = 1 /\ health = TRUE /\ next = 1 /\ dirs = {1}
  /\ chirps \in {{}, {"start"}}
  /\ sealed = [episode |-> 1, sync |-> 1, chirps |-> {}]
  /\ handles = {} /\ ready = {} /\ todo = {} /\ failed = FALSE /\ ambiguous = FALSE
  /\ media = [s \in Streams |-> 1] /\ writer = [s \in Streams |-> 1]
  /\ clock = [s \in Streams |-> 1] /\ commit = [s \in Streams |-> "none"]
  /\ rows = {} /\ published = {}

-----------------------------------------------------------------------------
\* Prepare

\* The segment to seal is remembered and the next directory made.
RotateBegin ==
  /\ phase = "recording" /\ op = "none" /\ next < MaxSegment
  /\ op' = "open" /\ next' = next + 1 /\ dirs' = dirs \union {next + 1}
  /\ sealed' = [episode |-> dir, sync |-> sync, chirps |-> chirps]
  /\ failed' = FALSE /\ commit' = [s \in Streams |-> "none"]
  /\ UNCHANGED <<phase, todo, ambiguous, sessionVars, streamVars, rows, published>>

\* The session opens its own writers one after the other.
OpenWriters ==
  /\ op = "open"
  /\ \/ handles' = Streams /\ op' = "prepare" /\ todo' = Streams
     \/ /\ "open" \in Faults
        /\ handles' \in (SUBSET Streams) \ {Streams} /\ op' = "undo" /\ UNCHANGED todo
  /\ UNCHANGED <<phase, next, sealed, failed, commit, ambiguous, sessionVars, media, ready,
                 clock, writer, diskVars>>

\* A prepare worker: one that raises may have opened some of its files.
PrepareStream(s) ==
  /\ op = "prepare" /\ s \in todo
  /\ todo' = todo \ {s}
  /\ \/ ready' = ready \union {s} /\ UNCHANGED failed
     \/ /\ "prepare" \in Faults
        /\ ready' \in {ready, ready \union {s}} /\ failed' = TRUE
  /\ UNCHANGED <<phase, op, next, sealed, commit, ambiguous, sessionVars, media, clock, writer,
                 handles, diskVars>>

PrepareJoin ==
  /\ op = "prepare" /\ todo = {}
  /\ IF failed
     THEN op' = "undo" /\ UNCHANGED commit
     ELSE op' = "commit" /\ commit' = [s \in Streams |-> "running"]
  /\ UNCHANGED <<phase, next, sealed, todo, failed, ambiguous, sessionVars, streamVars, diskVars>>

\* abort_segment_rotation() of every stream, also of the one that raised.
AbortFirst == ready' \in {ready \ {s} : s \in Streams}
AbortStreams == ready' = {}
RemoveDirectory == dirs' = dirs \ {next}

\* A failed preparation is undone and the error goes to the caller.
Undo ==
  /\ op = "undo"
  /\ AbortStreams /\ handles' = {} /\ RemoveDirectory
  /\ op' = "none"
  /\ UNCHANGED <<phase, next, sealed, todo, failed, commit, ambiguous, sessionVars, media,
                 clock, writer, rows, published>>

-----------------------------------------------------------------------------
\* Commit

\* commit_segment_rotation() up to the end of the adapter's per-frame critical
\* section: the media writer, the session's sample writer and the recording
\* window change together.
SwapMediaOnly(s) ==
  /\ media' = [media EXCEPT ![s] = next]
  /\ clock' = [clock EXCEPT ![s] = next]
  /\ UNCHANGED writer
Swap(s) ==
  /\ media' = [media EXCEPT ![s] = next]
  /\ writer' = [writer EXCEPT ![s] = next]
  /\ clock' = [clock EXCEPT ![s] = next]

CommitSwap(s) ==
  /\ commit[s] = "running"
  /\ Swap(s)
  /\ ready' = ready \ {s} /\ handles' = handles \ {s}
  /\ commit' = [commit EXCEPT ![s] = "swapped"]
  /\ UNCHANGED <<phase, op, next, sealed, todo, failed, ambiguous, sessionVars, diskVars>>

\* A worker raises before its swap, e.g. when no key frame comes in time ...
CommitFails(s) ==
  /\ commit[s] = "running" /\ "commit" \in Faults
  /\ commit' = [commit EXCEPT ![s] = "raised"]
  /\ UNCHANGED <<phase, op, next, sealed, todo, failed, ambiguous, sessionVars, streamVars,
                 diskVars>>

\* ... or closes the old files, which may take long, or fail.
Finalize(s) ==
  /\ commit[s] = "swapped"
  /\ \/ commit' = [commit EXCEPT ![s] = "done"]
     \/ "finalize" \in Faults /\ commit' = [commit EXCEPT ![s] = "raised"]
  /\ UNCHANGED <<phase, op, next, sealed, todo, failed, ambiguous, sessionVars, streamVars,
                 diskVars>>

\* The caller waits until every stream has swapped or some worker has raised,
\* and arms the next directory only in the first case.
WaitForAll == Swapped = Streams
WaitForSwaps == Swapped = Streams \/ Raised # {}
Wait ==
  /\ op = "commit" /\ WaitForSwaps
  /\ op' = IF Swapped = Streams THEN "arm" ELSE "settle"
  /\ UNCHANGED <<phase, next, sealed, todo, failed, commit, ambiguous, sessionVars, streamVars,
                 diskVars>>

\* The session moves to the next directory.
MoveLater == sync' = next /\ chirps' = {} /\ UNCHANGED dir
MoveSession == dir' = next /\ sync' = next /\ chirps' = {}

KeepLog == UNCHANGED log
SwitchLog == log' = next

\* The health worker is restarted around the switch of the session log; the
\* callback of the application comes last.
Arm ==
  /\ op = "arm"
  /\ SwitchLog /\ MoveSession /\ op' = "settle"
  /\ \/ UNCHANGED failed
     \/ "callback" \in Faults /\ failed' = TRUE
  /\ UNCHANGED <<phase, next, sealed, todo, commit, ambiguous, health, streamVars, diskVars>>

\* The new log cannot be opened, or sync_point.json not written: the exception
\* leaves the rotation, once the commit workers have returned, as it is.
ArmFails ==
  /\ op = "arm"
  /\ health' = FALSE /\ op' = "escape" /\ ambiguous' = TRUE
  /\ \/ "log" \in Faults /\ UNCHANGED <<dir, sync, chirps, log>>
     \/ "sync_point" \in Faults /\ SwitchLog /\ MoveSession
  /\ UNCHANGED <<phase, next, sealed, todo, failed, commit, streamVars, diskVars>>

Escape ==
  /\ op = "escape" /\ Returned
  /\ op' = "none"
  /\ UNCHANGED <<phase, next, sealed, todo, failed, commit, ambiguous, sessionVars, streamVars,
                 diskVars>>

-----------------------------------------------------------------------------
\* Publishing, stopping and capturing

\* _persist_session_artifacts: what it writes replaces what was there.
Publish(e, sp, ch, reports) ==
  published' = {p \in published : p.episode # e} \union
               {[episode |-> e, sync |-> sp, chirps |-> ch, reports |-> reports]}

PublishCurrent == Publish(sealed.episode, sync, sealed.chirps, Streams \ Raised)
PublishSealed == Publish(sealed.episode, sealed.sync, sealed.chirps, Streams \ Raised)

\* Every worker has returned.  After an error every stream is told to abort,
\* the old segment is published all the same and the caller told to stop.
Settle ==
  /\ op = "settle" /\ Returned
  /\ handles' = {}
  /\ IF failed \/ Raised # {} THEN AbortStreams /\ ambiguous' = TRUE
                              ELSE UNCHANGED <<ready, ambiguous>>
  /\ PublishSealed /\ op' = "none"
  /\ UNCHANGED <<phase, next, sealed, todo, failed, commit, sessionVars, media, clock, writer,
                 dirs, rows>>

\* Publishing raises.
SettleFails ==
  /\ op = "settle" /\ Returned /\ "persist" \in Faults
  /\ handles' = {} /\ ambiguous' = TRUE
  /\ IF failed \/ Raised # {} THEN AbortStreams ELSE UNCHANGED ready
  /\ op' = "none"
  /\ UNCHANGED <<phase, next, sealed, todo, failed, commit, sessionVars, media, clock, writer,
                 diskVars>>

\* stop(), which Session models step by step: the stop chirp may be played,
\* every writer is closed and the current segment published.
Stop ==
  /\ phase = "recording" /\ op = "none"
  /\ phase' = "stopped" /\ log' = 0 /\ health' = FALSE
  /\ writer' = [s \in Streams |-> 0]
  /\ chirps' \in {chirps, chirps \union {"stop"}}
  /\ Publish(dir, sync, chirps', Streams)
  /\ UNCHANGED <<op, next, sealed, todo, failed, commit, ambiguous, dir, sync, media, ready,
                 clock, handles, dirs, rows>>

\* A frame is encoded and its sample handed over, in one critical section.
Frame(s) ==
  /\ writer[s] # 0
  /\ rows' = rows \union {[stream |-> s, media |-> media[s], row |-> writer[s],
                           clock |-> clock[s]]}
  /\ UNCHANGED <<phase, op, next, sealed, todo, failed, commit, ambiguous, sessionVars,
                 streamVars, dirs, published>>

-----------------------------------------------------------------------------
Rotation ==
  \/ OpenWriters \/ PrepareJoin \/ Undo \/ Wait \/ Arm \/ ArmFails \/ Escape
  \/ Settle \/ SettleFails

Worker(s) == PrepareStream(s) \/ CommitSwap(s) \/ CommitFails(s) \/ Finalize(s)

Next ==
  \/ RotateBegin \/ Rotation \/ Stop
  \/ \E s \in Streams : Worker(s) \/ Frame(s)

Spec == Init /\ [][Next]_vars

\* The caller and its workers are threads that run on; every adapter call
\* returns or raises.
FairSpec == Spec /\ WF_vars(Rotation) /\ \A s \in Streams : WF_vars(Worker(s))

-----------------------------------------------------------------------------
(***************************************************************************)
(* Properties.                                                             *)
(***************************************************************************)

Segments == 1..MaxSegment
ChirpSets == SUBSET {"start", "stop"}

\* Every variable has its type.
TypeOK ==
  /\ phase \in {"recording", "stopped"} /\ op \in Ops
  /\ dir \in Segments /\ sync \in Segments /\ next \in Segments /\ chirps \in ChirpSets
  /\ log \in 0..MaxSegment /\ health \in BOOLEAN /\ dirs \subseteq Segments
  /\ sealed \in [episode : Segments, sync : Segments, chirps : ChirpSets]
  /\ handles \subseteq Streams /\ ready \subseteq Streams /\ todo \subseteq Streams
  /\ media \in [Streams -> Segments] /\ clock \in [Streams -> Segments]
  /\ writer \in [Streams -> 0..MaxSegment] /\ commit \in [Streams -> Commits]
  /\ failed \in BOOLEAN /\ ambiguous \in BOOLEAN
  /\ rows \subseteq [stream : Streams, media : Segments, row : Segments, clock : Segments]
  /\ published \subseteq [episode : Segments, sync : Segments, chirps : ChirpSets,
                          reports : SUBSET Streams]

\* A frame and its timestamp row are never in different segments, in the middle
\* of a rotation or after any failure of one (_make_sample_handler).
FrameMeetsItsRow == \A r \in rows : r.media = r.row

\* Every row of a published segment was captured in the recording window of the
\* sync point published with it, whatever rotations failed before.
OneWindowPerSegment ==
  \A p \in published, r \in rows : r.row = p.episode => r.clock = p.sync

\* When a rotation is over, whichever way, no writer it prepared is still open
\* outside a segment that is being recorded.
NothingHalfOpen == op = "none" => handles = {} /\ ready = {}

\* While no rotation has failed in its commit: every directory on disk is the
\* current one or has been published.
NoStrayDirectory ==
  op = "none" /\ ~ambiguous => dirs \subseteq {dir} \union {p.episode : p \in published}

\* While no rotation has failed in its commit: a published segment is final.
SealedSegmentsFrozen ==
  [][~ambiguous' =>
       \A p \in published :
         /\ p \in published'
         /\ {r \in rows' : r.row = p.episode} = {r \in rows : r.row = p.episode}]_vars

\* A chirp is reported by one segment only, the one it was played in: the start
\* chirp by the first, the stop chirp by the last.
ChirpsReportedOnce ==
  \A p \in published :
    /\ "start" \in p.chirps => p.episode = 1
    /\ "stop" \in p.chirps => phase = "stopped" /\ p.episode = dir

\* While no rotation has failed in its commit: between rotations every stream
\* and the session log write the segment the session names.
SessionAndStreamsAgree ==
  op = "none" /\ phase = "recording" /\ ~ambiguous =>
    log = dir /\ sync = dir /\ health /\ \A s \in Streams : writer[s] = dir

\* Between rotations everything is settled: the directories, the streams, the log
\* and the sync point agree, and no chirp is reported twice.
RotationSettled == NoStrayDirectory /\ SessionAndStreamsAgree /\ ChirpsReportedOnce

\* A rotation returns or raises.
RotationReturns == op # "none" ~> op = "none"

\* When every stream writes the next segment, the session has moved there too.
SwappedMeansArmed ==
  op = "none" /\ phase = "recording" /\ (\A s \in Streams : writer[s] = next) => dir = next
=============================================================================
