-------------------------------- MODULE Capture --------------------------------
(***************************************************************************)
(* What every capture adapter has in common: the session, one call at a    *)
(* time, connects it, opens and closes a recording window and disconnects  *)
(* it, and a thread of the adapter's own (or of a library) delivers        *)
(* samples all the while.  The modules of the adapters extend this one and *)
(* say what each call and each thread really does, kind by kind.           *)
(*                                                                         *)
(* "phase" is where the session is in the four-phase contract of           *)
(* stream.py.  It opens the sample writer of the stream before             *)
(* start_recording() and closes it after stop_recording() returned; every  *)
(* sample emitted in between becomes a row, also those of the preview.     *)
(***************************************************************************)
EXTENDS Integers, FiniteSets

CONSTANTS
  Kinds,          \* adapters of this instance
  Faults,         \* what may go wrong in this instance
  MaxFrames,      \* bound: samples counted, written or emitted in a window
  MaxWindows,     \* bound: recordings
  MaxConnects     \* bound: connections

\* "fail": opening or reading fails; "setup": it fails when the device is held
\* already; "unplug": the device goes away; "disk": a file of the adapter's
\* cannot be written; "mux": one frame of the headset's cannot; "row": the session's
\* sample writer refuses a sample; "stuck": a thread outlives the join of disconnect();
\* "slow": it does not get ready in time; "reconnect": the supervisor reconnects.
ASSUME FaultsAssumption ==
  Faults \subseteq
    {"fail", "setup", "unplug", "disk", "mux", "row", "stuck", "slow", "reconnect"}
ASSUME BoundsAssumption ==
  MaxFrames \in Nat \ {0} /\ MaxWindows \in Nat \ {0} /\ MaxConnects \in Nat \ {0}

Threads == 1..3
Adapter == 0      \* the adapter object itself, as the holder of a device

VARIABLES
  kind,
  phase,          \* the session's view of the stream
  gate,           \* the session's sample writer for it is open
  rows,           \* rows the session wrote in this window ...
  refused,        \* history: ... and samples its writer refused, which it only logs
  windows, connects,    \* bounds
  pc,             \* what each thread of the adapter does, "none": not running
  own,            \* the thread the adapter refers to, or 0
  stop,           \* _stop_event
  ready,          \* _ready_event, or the adapter's "connected" flag
  holds,          \* who has the device open
  lost,           \* history: the device failed or was taken away since it was opened
  recording,      \* _recording or _writing
  writer,         \* the adapter's own file is open
  media,          \* frames in that file
  count,          \* _frame_count or _recorded_count
  report          \* frame_count of the last FinalizationReport

session == <<phase, gate, rows, refused, windows, connects>>
reader == <<pc, own, stop, ready, holds, lost>>
window == <<recording, writer, media, count, report>>
vars == <<kind, session, reader, window>>

Live(t) == t \in Threads /\ pc[t] # "none"
\* The join of disconnect(), which gives up on a thread that is stuck.  (NotJoined:
\* the thread is told to stop and not waited for.)
NotJoined == TRUE
Joined == "stuck" \in Faults \/ ~Live(own)
May(fault) == IF fault \in Faults THEN BOOLEAN ELSE {FALSE}

CaptureInit ==
  /\ kind \in Kinds
  /\ phase = "off" /\ gate = FALSE /\ rows = 0 /\ refused = 0
  /\ windows = 0 /\ connects = 0
  /\ own = 0 /\ stop = FALSE /\ ready = "no" /\ holds = {} /\ lost = FALSE
  /\ recording = FALSE /\ writer = FALSE /\ media = 0 /\ count = 0 /\ report = 0

-----------------------------------------------------------------------------
\* The session's side of a recording

\* start() and stop() around the adapter's calls.
OpenGate ==
  /\ phase = "on" /\ windows < MaxWindows
  /\ phase' = "starting" /\ gate' = TRUE /\ rows' = 0 /\ refused' = 0
  /\ windows' = windows + 1 /\ report' = 0
  /\ UNCHANGED <<kind, connects, reader, recording, writer, media, count>>

CloseGate ==
  /\ phase = "sealed"
  /\ phase' = "on" /\ gate' = FALSE
  /\ UNCHANGED <<kind, rows, refused, windows, connects, reader, window>>

To(p) == phase' = p /\ UNCHANGED <<kind, gate, rows, refused, windows, connects>>
Connecting(p) ==
  /\ phase = "off" /\ connects < MaxConnects
  /\ phase' = p /\ connects' = connects + 1
  /\ UNCHANGED <<kind, gate, rows, refused, windows>>

\* _emit_sample: the session's handler writes a row while its gate is open.  What the
\* writer raises (the disk, its queue, its thread) is logged and goes no further.
Emit ==
  /\ IF gate
     THEN \/ rows' = rows + 1 /\ UNCHANGED refused
          \/ "row" \in Faults /\ refused' = refused + 1 /\ UNCHANGED rows
     ELSE UNCHANGED <<rows, refused>>
  /\ UNCHANGED <<kind, phase, gate, windows, connects>>
Room == rows + refused < MaxFrames /\ count < MaxFrames /\ media < MaxFrames

-----------------------------------------------------------------------------
\* Threads

Free == {t \in Threads : ~Live(t)}
Fresh == CHOOSE t \in Free : TRUE
Second == CHOOSE t \in Free \ {Fresh} : TRUE
Spawn(step) == Free # {} /\ pc' = [pc EXCEPT ![Fresh] = step] /\ own' = Fresh
Goto(t, step) == pc' = [pc EXCEPT ![t] = step]

\* The end of a thread, which closes what it holds.
End(t) ==
  /\ Goto(t, "none") /\ holds' = holds \ {t}
  /\ UNCHANGED <<own, stop, ready>>

-----------------------------------------------------------------------------
TypeOK ==
  /\ kind \in Kinds
  /\ gate \in BOOLEAN /\ rows + refused \in 0..MaxFrames /\ stop \in BOOLEAN /\ lost \in BOOLEAN
  /\ own \in {0} \union Threads /\ holds \subseteq {Adapter} \union Threads
  /\ ready \in {"no", "yes", "error"}
  /\ recording \in BOOLEAN /\ writer \in BOOLEAN
  /\ media \in 0..MaxFrames /\ count \in 0..MaxFrames /\ report \in 0..MaxFrames

\* Threads that read the device: not the user's own, nor one that answers probes or
\* packs what another has read.
Reads(t) == kind # "push" /\ pc[t] \notin {"none", "answer", "pack", "left"}

\* A device has one reader at a time: a thread of an earlier connection has
\* ended before the next begins, as both would be stopped, or kept alive, by the
\* same _stop_event (connect() and disconnect() of the adapters).
OneReader == Cardinality({t \in Threads : Reads(t)}) <= 1

\* When connect() has failed or disconnect() has returned, no thread runs and
\* nothing has the device open (stream.py: disconnect "closes the device").
DisconnectReleases == phase = "off" => holds = {} /\ \A t \in Threads : ~Reads(t)

\* A device has one owner while it is connected and none when it is not.
OneOwner == OneReader /\ DisconnectReleases

=============================================================================
