------------------------- MODULE SegmentRotationProofs -------------------------
(***************************************************************************)
(* Proofs about SegmentRotation: for every set of streams, every choice of *)
(* faults and any number of rotations, a frame and its row never part, a   *)
(* published segment holds one recording window, and nothing that a        *)
(* rotation prepared stays open (RInv).  Until a commit fails, the session *)
(* also writes the segment it names and a published one is final: SInv     *)
(* adds where directory, log, streams and chirps are at every step.        *)
(***************************************************************************)
EXTENDS SegmentRotation, TLAPS

Types ==
  /\ next \in Nat /\ op \in Ops
  /\ media \in [Streams -> Nat] /\ clock \in [Streams -> Nat] /\ writer \in [Streams -> Nat]
  /\ commit \in [Streams -> Commits]
  /\ ready \subseteq Streams /\ handles \subseteq Streams

\* An open sample writer, the media writer and the recording window of a stream
\* are in the same segment; a sync point belongs to the segment it goes to.
Aligned ==
  /\ \A s \in Streams : writer[s] # 0 => media[s] = writer[s] /\ clock[s] = writer[s]
  /\ sync = dir /\ sealed.sync = sealed.episode
  /\ \A r \in rows : r.media = r.row /\ r.clock = r.row
  /\ \A p \in published : p.sync = p.episode

Committing == {"commit", "arm", "escape", "settle"}

\* What a rotation holds open at each of its steps.
Held ==
  /\ op \in {"none", "open"} => ready = {} /\ handles = {}
  /\ op = "prepare" \/ op = "open" => \A s \in Streams : writer[s] # next
  /\ op \in Committing =>
       \A s \in ready \union handles : writer[s] # next /\ commit[s] \in {"running", "raised"}
  /\ \A s \in Streams : commit[s] = "running" => op \in Committing
  /\ op \in {"arm", "escape"} => ready = {} /\ handles = {}
  /\ \A s \in Streams : writer[s] <= next

RInv == Types /\ Aligned /\ Held

LEMMA RotationInit == Init => RInv
  BY DEF Init, RInv, Types, Aligned, Held, Ops, Commits, Committing

LEMMA TypesStep == ASSUME Types, [Next]_vars PROVE Types'
<1> USE DEF Types, Ops, Commits
<1>1. CASE RotateBegin
  BY <1>1 DEF RotateBegin, streamVars
<1>2. CASE OpenWriters \/ PrepareJoin
  BY <1>2 DEF OpenWriters, PrepareJoin, streamVars
<1>3. CASE Undo \/ Settle \/ SettleFails
  BY <1>3 DEF Undo, Settle, SettleFails, AbortStreams
<1>4. CASE Wait \/ Arm \/ ArmFails \/ Escape
  BY <1>4 DEF Wait, Arm, ArmFails, Escape, streamVars
<1>5. CASE Stop
  BY <1>5 DEF Stop
<1>6. ASSUME NEW s \in Streams, PrepareStream(s) PROVE Types'
  BY <1>6 DEF PrepareStream
<1>7. ASSUME NEW s \in Streams, CommitSwap(s) PROVE Types'
  BY <1>7 DEF CommitSwap, Swap
<1>8. ASSUME NEW s \in Streams, CommitFails(s) \/ Finalize(s) PROVE Types'
  BY <1>8 DEF CommitFails, Finalize, streamVars
<1>9. ASSUME NEW s \in Streams, Frame(s) PROVE Types'
  BY <1>9 DEF Frame, streamVars
<1>10. CASE UNCHANGED vars
  BY <1>10 DEF vars, streamVars
<1> QED
  BY <1>1, <1>2, <1>3, <1>4, <1>5, <1>6, <1>7, <1>8, <1>9, <1>10
     DEF Next, Rotation, Worker

LEMMA AlignedStep == ASSUME Types, Aligned, [Next]_vars PROVE Aligned'
<1> USE DEF Types, Aligned
<1>1. CASE RotateBegin
  BY <1>1 DEF RotateBegin, sessionVars, streamVars
<1>2. CASE OpenWriters \/ PrepareJoin \/ Undo \/ Wait \/ Escape
  BY <1>2 DEF OpenWriters, PrepareJoin, Undo, Wait, Escape, sessionVars, streamVars, diskVars
<1>3. CASE Arm \/ ArmFails
  BY <1>3 DEF Arm, ArmFails, MoveSession, streamVars, diskVars
<1>4. CASE Settle
  BY <1>4 DEF Settle, PublishSealed, Publish, sessionVars
<1>5. CASE SettleFails
  BY <1>5 DEF SettleFails, sessionVars, diskVars
<1>6. CASE Stop
  BY <1>6 DEF Stop, Publish
<1>7. ASSUME NEW s \in Streams, PrepareStream(s) \/ CommitFails(s) \/ Finalize(s) PROVE Aligned'
  BY <1>7 DEF PrepareStream, CommitFails, Finalize, sessionVars, streamVars, diskVars
<1>8. ASSUME NEW s \in Streams, CommitSwap(s) PROVE Aligned'
  BY <1>8 DEF CommitSwap, Swap, sessionVars, diskVars
<1>9. ASSUME NEW s \in Streams, Frame(s) PROVE Aligned'
  BY <1>9 DEF Frame, sessionVars, streamVars
<1>10. CASE UNCHANGED vars
  BY <1>10 DEF vars, sessionVars, streamVars, diskVars
<1> QED
  BY <1>1, <1>2, <1>3, <1>4, <1>5, <1>6, <1>7, <1>8, <1>9, <1>10
     DEF Next, Rotation, Worker

LEMMA HeldStep == ASSUME Types, Held, [Next]_vars PROVE Held'
<1> USE DEF Types, Held, Committing, Ops, Commits
<1>1. CASE RotateBegin
  BY <1>1 DEF RotateBegin, streamVars
<1>2. CASE OpenWriters
  BY <1>2 DEF OpenWriters
<1>3. CASE PrepareJoin
  BY <1>3 DEF PrepareJoin, streamVars
<1>4. CASE Undo
  BY <1>4 DEF Undo, AbortStreams
<1>5. CASE Wait
  BY <1>5 DEF Wait, Swapped, streamVars
<1>6. CASE Arm \/ ArmFails
  BY <1>6 DEF Arm, ArmFails, streamVars
<1>7. CASE Escape
  BY <1>7 DEF Escape, Returned, streamVars
<1>8. CASE Settle \/ SettleFails
  BY <1>8 DEF Settle, SettleFails, Returned, Raised, AbortStreams
<1>9. CASE Stop
  BY <1>9 DEF Stop
<1>10. ASSUME NEW s \in Streams, PrepareStream(s) PROVE Held'
  BY <1>10 DEF PrepareStream
<1>11. ASSUME NEW s \in Streams, CommitSwap(s) PROVE Held'
  BY <1>11 DEF CommitSwap, Swap
<1>12. ASSUME NEW s \in Streams, CommitFails(s) \/ Finalize(s) PROVE Held'
  BY <1>12 DEF CommitFails, Finalize, streamVars
<1>13. ASSUME NEW s \in Streams, Frame(s) PROVE Held'
  BY <1>13 DEF Frame, streamVars
<1>14. CASE UNCHANGED vars
  BY <1>14 DEF vars, streamVars
<1> QED
  BY <1>1, <1>2, <1>3, <1>4, <1>5, <1>6, <1>7, <1>8, <1>9, <1>10, <1>11, <1>12, <1>13, <1>14
     DEF Next, Rotation, Worker

\* The inductive invariant of the rotation.
THEOREM RotationInvariance == Spec => []RInv
<1>1. Init => RInv
  BY RotationInit
<1>2. RInv /\ [Next]_vars => RInv'
  BY TypesStep, AlignedStep, HeldStep DEF RInv
<1> QED
  BY <1>1, <1>2, PTL DEF Spec

\* A frame and its timestamp row are always in the same segment: the adapter and
\* the session swap their writers in one critical section.
THEOREM FramesMeetTheirRows == Spec => []FrameMeetsItsRow
<1>1. RInv => FrameMeetsItsRow
  BY DEF RInv, Aligned, FrameMeetsItsRow
<1> QED
  BY <1>1, RotationInvariance, PTL

\* A published segment holds the rows of its own recording window, though the
\* session may have moved on before it was published.
THEOREM SegmentsHoldOneWindow == Spec => []OneWindowPerSegment
<1>1. RInv => OneWindowPerSegment
  BY DEF RInv, Aligned, OneWindowPerSegment
<1> QED
  BY <1>1, RotationInvariance, PTL

\* Whichever way a rotation ends, the writers it prepared are in use or closed.
THEOREM NothingStaysHalfOpen == Spec => []NothingHalfOpen
<1>1. RInv => NothingHalfOpen
  BY DEF RInv, Held, NothingHalfOpen
<1> QED
  BY <1>1, RotationInvariance, PTL

-----------------------------------------------------------------------------
\* What a rotation settles

\* Where the session is while a rotation goes on.
Positions ==
  /\ dir \in Nat /\ dir <= next /\ sealed.episode \in Nat
  /\ op # "none" => phase = "recording"
  /\ phase # "recording" => \A s \in Streams : writer[s] = 0
  /\ op = "escape" => ambiguous
  /\ \A p \in published : p.episode \in Nat
  /\ op \in {"open", "prepare", "undo", "commit", "arm"} => sealed.episode = dir /\ dir < next
  /\ op = "settle" =>
       sealed.episode < next /\ (dir = next \/ (dir = sealed.episode /\ Raised # {}))

\* A chirp is with the session, or with the segment that is being sealed.
Chirping ==
  /\ "start" \in chirps => dir = 1
  /\ phase = "recording" => "stop" \notin chirps
  /\ "start" \in sealed.chirps => sealed.episode = 1
  /\ "stop" \notin sealed.chirps
  /\ ChirpsReportedOnce

\* Published segments are behind the session, every other directory is accounted for.
Behind ==
  ~ambiguous =>
    /\ phase = "recording" =>
         \A p \in published : p.episode < IF op = "settle" THEN sealed.episode ELSE dir
    /\ \A d \in dirs :
         \/ d = dir \/ \E p \in published : p.episode = d
         \/ op # "none" /\ d \in {sealed.episode, next}

\* What the streams and the log write, at each step of a rotation.
Together ==
  ~ambiguous /\ phase = "recording" =>
    /\ op # "settle" => log = dir /\ health
    /\ op \in {"none", "open", "prepare", "undo"} => \A s \in Streams : writer[s] = dir
    /\ op = "commit" => \A s \in Streams : writer[s] \in {dir, next}
    /\ op = "arm" => \A s \in Streams : writer[s] = next
    /\ op = "settle" => \A s \in Streams : writer[s] \in {sealed.episode, next}
    /\ op = "settle" /\ dir = next =>
         log = next /\ health /\ \A s \in Streams : writer[s] = next

\* The invariant of what is true until a commit fails.
SInv == RInv /\ Positions /\ Chirping /\ Behind /\ Together

LEMMA SettledInit == Init => Positions /\ Chirping /\ Behind /\ Together
  BY DEF Init, Positions, Chirping, ChirpsReportedOnce, Behind, Together

LEMMA PositionsStep ==
  ASSUME Types, Held, Positions, [Next]_vars PROVE Positions'
<1> USE  DEF sessionVars, streamVars, diskVars, Types, Held, Committing, Positions, Raised
<1>1. CASE RotateBegin
  BY <1>1 DEF RotateBegin
<1>2. CASE OpenWriters
  BY <1>2 DEF OpenWriters
<1>3. CASE PrepareJoin
  BY <1>3 DEF PrepareJoin
<1>4. CASE Undo
  BY <1>4 DEF Undo, RemoveDirectory
<1>5. CASE Wait
  BY <1>5 DEF Wait, Swapped, WaitForSwaps
<1>6. CASE Arm
  BY <1>6 DEF Arm, MoveSession, SwitchLog
<1>7. CASE ArmFails
  BY <1>7 DEF ArmFails, MoveSession, SwitchLog
<1>8. CASE Escape
  BY <1>8 DEF Escape
<1>9. CASE Settle
  BY <1>9 DEF Settle, PublishSealed, Publish
<1>10. CASE SettleFails
  BY <1>10 DEF SettleFails
<1>11. CASE Stop
  BY <1>11 DEF Stop, Publish
<1>12. ASSUME NEW s \in Streams, PrepareStream(s) PROVE Positions'
  BY <1>12 DEF PrepareStream
<1>13. ASSUME NEW s \in Streams, CommitSwap(s) PROVE Positions'
  BY <1>13 DEF CommitSwap, Swap
<1>14. ASSUME NEW s \in Streams, CommitFails(s) PROVE Positions'
  BY <1>14 DEF CommitFails
<1>15. ASSUME NEW s \in Streams, Finalize(s) PROVE Positions'
  BY <1>15 DEF Finalize
<1>16. ASSUME NEW s \in Streams, Frame(s) PROVE Positions'
  BY <1>16 DEF Frame
<1>17. CASE UNCHANGED vars
  BY <1>17 DEF vars
<1> QED
  BY <1>1, <1>2, <1>3, <1>4, <1>5, <1>6, <1>7, <1>8, <1>9, <1>10, <1>11, <1>12, <1>13,
     <1>14, <1>15, <1>16, <1>17
     DEF Next, Rotation, Worker

LEMMA ChirpingStep ==
  ASSUME Types, Positions, Chirping, [Next]_vars PROVE Chirping'
<1> USE  DEF sessionVars, streamVars, diskVars, Positions, Chirping, ChirpsReportedOnce
<1>1. CASE RotateBegin
  BY <1>1 DEF RotateBegin
<1>2. CASE OpenWriters
  BY <1>2 DEF OpenWriters
<1>3. CASE PrepareJoin
  BY <1>3 DEF PrepareJoin
<1>4. CASE Undo
  BY <1>4 DEF Undo, RemoveDirectory
<1>5. CASE Wait
  BY <1>5 DEF Wait, Swapped, WaitForSwaps
<1>6. CASE Arm
  BY <1>6 DEF Arm, MoveSession, SwitchLog
<1>7. CASE ArmFails
  BY <1>7 DEF ArmFails, MoveSession, SwitchLog
<1>8. CASE Escape
  BY <1>8 DEF Escape
<1>9. CASE Settle
  BY <1>9 DEF Settle, PublishSealed, Publish
<1>10. CASE SettleFails
  BY <1>10 DEF SettleFails
<1>11. CASE Stop
  BY <1>11 DEF Stop, Publish
<1>12. ASSUME NEW s \in Streams, PrepareStream(s) PROVE Chirping'
  BY <1>12 DEF PrepareStream
<1>13. ASSUME NEW s \in Streams, CommitSwap(s) PROVE Chirping'
  BY <1>13 DEF CommitSwap, Swap
<1>14. ASSUME NEW s \in Streams, CommitFails(s) PROVE Chirping'
  BY <1>14 DEF CommitFails
<1>15. ASSUME NEW s \in Streams, Finalize(s) PROVE Chirping'
  BY <1>15 DEF Finalize
<1>16. ASSUME NEW s \in Streams, Frame(s) PROVE Chirping'
  BY <1>16 DEF Frame
<1>17. CASE UNCHANGED vars
  BY <1>17 DEF vars
<1> QED
  BY <1>1, <1>2, <1>3, <1>4, <1>5, <1>6, <1>7, <1>8, <1>9, <1>10, <1>11, <1>12, <1>13,
     <1>14, <1>15, <1>16, <1>17
     DEF Next, Rotation, Worker

LEMMA BehindStep ==
  ASSUME Types, Positions, Behind, [Next]_vars PROVE Behind'
<1> USE  DEF sessionVars, streamVars, diskVars, Types, Positions, Behind, Raised
<1>1. CASE RotateBegin
  BY <1>1 DEF RotateBegin
<1>2. CASE OpenWriters
  BY <1>2 DEF OpenWriters
<1>3. CASE PrepareJoin
  BY <1>3 DEF PrepareJoin
<1>4. CASE Undo
  BY <1>4 DEF Undo, RemoveDirectory
<1>5. CASE Wait
  BY <1>5 DEF Wait, Swapped, WaitForSwaps
<1>6. CASE Arm
  BY <1>6 DEF Arm, MoveSession, SwitchLog
<1>7. CASE ArmFails
  BY <1>7 DEF ArmFails, MoveSession, SwitchLog
<1>8. CASE Escape
  BY <1>8 DEF Escape
<1>9. CASE Settle
  <2> SUFFICES ASSUME ~ambiguous' PROVE Behind'
    OBVIOUS
  <2> DEFINE new == [episode |-> sealed.episode, sync |-> sealed.sync, chirps |-> sealed.chirps,
                     reports |-> Streams \ Raised]
  <2>1. /\ ~ambiguous /\ op = "settle" /\ op' = "none" /\ dirs' = dirs
        /\ UNCHANGED <<dir, sealed, phase, next>> /\ phase = "recording"
        /\ dir = next /\ sealed.episode < dir
    BY <1>9 DEF Settle
  <2>2. published' = {p \in published : p.episode # sealed.episode} \union {new}
    BY <1>9 DEF Settle, PublishSealed, Publish
  <2>3. new.episode = sealed.episode /\ new \in published'
    BY <2>2
  <2> HIDE DEF new
  <2>4. \A p \in published' : p.episode < dir
    <3>1. \A p \in published : p.episode < sealed.episode
      BY <2>1
    <3> SUFFICES ASSUME NEW p \in published' PROVE p.episode < dir
      OBVIOUS
    <3>2. CASE p = new
      BY <3>2, <2>1, <2>3
    <3>3. CASE p \in published
      <4>1. p.episode < sealed.episode
        BY <3>1, <3>3
      <4>2. p.episode \in Nat
        BY <3>3
      <4> QED
        BY <4>1, <4>2, <2>1
    <3> QED
      BY <3>2, <3>3, <2>2
  <2>5. ASSUME NEW d \in dirs PROVE d = dir \/ \E p \in published' : p.episode = d
    BY <2>1, <2>2, <2>3
  <2> QED
    BY <2>1, <2>4, <2>5
<1>10. CASE SettleFails
  BY <1>10 DEF SettleFails
<1>11. CASE Stop
  BY <1>11 DEF Stop, Publish
<1>12. ASSUME NEW s \in Streams, PrepareStream(s) PROVE Behind'
  BY <1>12 DEF PrepareStream
<1>13. ASSUME NEW s \in Streams, CommitSwap(s) PROVE Behind'
  BY <1>13 DEF CommitSwap, Swap
<1>14. ASSUME NEW s \in Streams, CommitFails(s) PROVE Behind'
  BY <1>14 DEF CommitFails
<1>15. ASSUME NEW s \in Streams, Finalize(s) PROVE Behind'
  BY <1>15 DEF Finalize
<1>16. ASSUME NEW s \in Streams, Frame(s) PROVE Behind'
  BY <1>16 DEF Frame
<1>17. CASE UNCHANGED vars
  BY <1>17 DEF vars
<1> QED
  BY <1>1, <1>2, <1>3, <1>4, <1>5, <1>6, <1>7, <1>8, <1>9, <1>10, <1>11, <1>12, <1>13,
     <1>14, <1>15, <1>16, <1>17
     DEF Next, Rotation, Worker

LEMMA TogetherStep ==
  ASSUME Types, Held, Positions, Together, [Next]_vars PROVE Together'
<1> USE  DEF sessionVars, streamVars, diskVars, Types, Held, Committing, Positions,
         Together, Raised
<1>1. CASE RotateBegin
  BY <1>1 DEF RotateBegin
<1>2. CASE OpenWriters
  BY <1>2 DEF OpenWriters
<1>3. CASE PrepareJoin
  BY <1>3 DEF PrepareJoin
<1>4. CASE Undo
  BY <1>4 DEF Undo, RemoveDirectory
<1>5. CASE Wait
  BY <1>5 DEF Wait, Swapped, WaitForSwaps
<1>6. CASE Arm
  BY <1>6 DEF Arm, MoveSession, SwitchLog
<1>7. CASE ArmFails
  BY <1>7 DEF ArmFails, MoveSession, SwitchLog
<1>8. CASE Escape
  BY <1>8 DEF Escape
<1>9. CASE Settle
  BY <1>9 DEF Settle, PublishSealed, Publish
<1>10. CASE SettleFails
  BY <1>10 DEF SettleFails
<1>11. CASE Stop
  BY <1>11 DEF Stop, Publish
<1>12. ASSUME NEW s \in Streams, PrepareStream(s) PROVE Together'
  BY <1>12 DEF PrepareStream
<1>13. ASSUME NEW s \in Streams, CommitSwap(s) PROVE Together'
  BY <1>13 DEF CommitSwap, Swap
<1>14. ASSUME NEW s \in Streams, CommitFails(s) PROVE Together'
  BY <1>14 DEF CommitFails
<1>15. ASSUME NEW s \in Streams, Finalize(s) PROVE Together'
  BY <1>15 DEF Finalize
<1>16. ASSUME NEW s \in Streams, Frame(s) PROVE Together'
  BY <1>16 DEF Frame
<1>17. CASE UNCHANGED vars
  BY <1>17 DEF vars
<1> QED
  BY <1>1, <1>2, <1>3, <1>4, <1>5, <1>6, <1>7, <1>8, <1>9, <1>10, <1>11, <1>12, <1>13,
     <1>14, <1>15, <1>16, <1>17
     DEF Next, Rotation, Worker

\* While no rotation has failed in its commit, a step adds neither to the rows nor to the
\* report of a published segment.
LEMMA FrozenStep ==
  ASSUME SInv, [Next]_vars, ~ambiguous', NEW p \in published
  PROVE  /\ p \in published'
         /\ {r \in rows' : r.row = p.episode} = {r \in rows : r.row = p.episode}
<1> USE DEF sessionVars, streamVars, diskVars
<1> DEFINE Frozen ==
      p \in published' /\ {r \in rows' : r.row = p.episode} = {r \in rows : r.row = p.episode}
<1>1. CASE Settle
  <2>1. ~ambiguous /\ p.episode < sealed.episode /\ sealed.episode \in Nat /\ rows' = rows
    BY <1>1 DEF SInv, Positions, Behind, Settle
  <2>2. p.episode # sealed.episode
    BY <2>1
  <2> QED
    BY <1>1, <2>1, <2>2 DEF Settle, PublishSealed, Publish
<1>2. CASE Stop
  <2>1. p.episode < dir /\ dir \in Nat /\ rows' = rows
    BY <1>2 DEF SInv, Positions, Behind, Stop
  <2>2. p.episode # dir
    BY <2>1
  <2> QED
    BY <1>2, <2>1, <2>2 DEF Stop, Publish
<1>3. ASSUME NEW s \in Streams, Frame(s) PROVE Frozen
  <2>1. ~ambiguous /\ writer[s] # 0 /\ published' = published
    BY <1>3 DEF Frame
  <2>2. CASE phase = "recording"
    <3>1. writer[s] # p.episode
      BY <2>1, <2>2 DEF SInv, RInv, Types, Ops, Positions, Behind, Together
    <3> QED
      BY <1>3, <2>1, <3>1 DEF Frame
  <2>3. CASE phase # "recording"
    BY <2>1, <2>3 DEF SInv, Positions
  <2> QED
    BY <2>2, <2>3
<1>4. CASE UNCHANGED <<rows, published>>
  BY <1>4
<1> QED
  BY <1>1, <1>2, <1>3, <1>4
     DEF Next, Rotation, Worker, RotateBegin, OpenWriters, PrepareJoin, Undo, Wait, Arm,
         ArmFails, Escape, SettleFails, PrepareStream, CommitSwap, CommitFails, Finalize, vars

\* The stronger invariant: where the session, its streams and its directories are at every
\* step of a rotation that has not failed in its commit (orchestrator.py:
\* rotate_recording_segment).
THEOREM SettledInvariance == Spec => []SInv
<1>1. SInv /\ [Next]_vars => SInv'
  BY TypesStep, AlignedStep, HeldStep, PositionsStep, ChirpingStep, BehindStep, TogetherStep
     DEF SInv, RInv
<1>2. Init => SInv
  BY RotationInit, SettledInit DEF SInv
<1> QED
  BY <1>1, <1>2, PTL DEF Spec

\* Between rotations every directory is the current one or published, every stream and the
\* log write the segment the session names, and no chirp is reported twice.
THEOREM RotationsSettle == Spec => []RotationSettled
<1>1. SInv => RotationSettled
  BY DEF SInv, RInv, Aligned, Chirping, Behind, Together, RotationSettled, NoStrayDirectory,
         SessionAndStreamsAgree
<1> QED
  BY <1>1, SettledInvariance, PTL

\* While no rotation has failed in its commit, a published segment is final: no row is added
\* to it and its sync point and manifest stay (orchestrator.py: rotate_recording_segment).
THEOREM SegmentsStayFrozen == Spec => SealedSegmentsFrozen
<1>1. SInv /\ [Next]_vars =>
        (~ambiguous' =>
           \A p \in published :
             /\ p \in published'
             /\ {r \in rows' : r.row = p.episode} = {r \in rows : r.row = p.episode})
  BY FrozenStep
<1> QED
  BY <1>1, SettledInvariance, PTL DEF Spec, SealedSegmentsFrozen

-----------------------------------------------------------------------------
\* Where the session is once every stream has swapped

\* The old files are closed without an error and the new log can be opened: every other
\* step of a rotation may fail.
Sealing == "finalize" \notin Faults /\ "log" \notin Faults

\* A commit worker that raises has not swapped its stream, so the wait it broke off was not
\* over; until the commit, some stream has yet to swap.
Armed ==
  /\ \A s \in Streams : commit[s] \in {"running", "raised"} => writer[s] # next
  /\ op \in {"open", "prepare", "undo"} => \A s \in Streams : writer[s] # next
  /\ op = "open" => ~failed
  /\ op = "prepare" /\ failed => Streams # {}
  /\ op = "undo" => Streams # {}
  /\ op = "escape" => dir = next
  /\ SwappedMeansArmed

LEMMA ArmedStep ==
  ASSUME Sealing, Types, Held, Positions, Armed, [Next]_vars PROVE Armed'
<1> USE  DEF sessionVars, streamVars, diskVars, Types, Held, Committing, Positions, Raised,
         Sealing, Armed, SwappedMeansArmed
<1>1. CASE RotateBegin
  BY <1>1 DEF RotateBegin
<1>2. CASE OpenWriters
  <2>1. op' = "undo" => Streams # {}
    <3> SUFFICES ASSUME op' = "undo", Streams = {} PROVE FALSE
      OBVIOUS
    <3>1. handles' \in (SUBSET Streams) \ {Streams}
      BY <1>2 DEF OpenWriters
    <3>2. handles' = {} /\ handles' # Streams
      BY <3>1
    <3> QED
      BY <3>2
  <2> QED
    BY <1>2, <2>1 DEF OpenWriters
<1>3. CASE PrepareJoin
  BY <1>3 DEF PrepareJoin
<1>4. CASE Undo
  BY <1>4 DEF Undo, RemoveDirectory
<1>5. CASE Wait
  BY <1>5 DEF Wait, Swapped, WaitForSwaps
<1>6. CASE Arm
  BY <1>6 DEF Arm, MoveSession, SwitchLog
<1>7. CASE ArmFails
  BY <1>7 DEF ArmFails, MoveSession, SwitchLog
<1>8. CASE Escape
  BY <1>8 DEF Escape
<1>9. CASE Settle
  BY <1>9 DEF Settle
<1>10. CASE SettleFails
  BY <1>10 DEF SettleFails
<1>11. CASE Stop
  BY <1>11 DEF Stop
<1>12. ASSUME NEW s \in Streams, PrepareStream(s) PROVE Armed'
  BY <1>12 DEF PrepareStream
<1>13. ASSUME NEW s \in Streams, CommitSwap(s) PROVE Armed'
  BY <1>13 DEF CommitSwap, Swap
<1>14. ASSUME NEW s \in Streams, CommitFails(s) PROVE Armed'
  BY <1>14 DEF CommitFails
<1>15. ASSUME NEW s \in Streams, Finalize(s) PROVE Armed'
  BY <1>15 DEF Finalize
<1>16. ASSUME NEW s \in Streams, Frame(s) PROVE Armed'
  BY <1>16 DEF Frame
<1>17. CASE UNCHANGED vars
  BY <1>17 DEF vars
<1> QED
  BY <1>1, <1>2, <1>3, <1>4, <1>5, <1>6, <1>7, <1>8, <1>9, <1>10, <1>11, <1>12, <1>13,
     <1>14, <1>15, <1>16, <1>17
     DEF Next, Rotation, Worker

\* When every stream writes the next segment and the rotation is over, the session has
\* moved there too, whatever else failed ("Arm the next directory as soon as EVERY swap
\* has happened", orchestrator.py): but for old files that could not be closed and a log
\* that could not be opened.
THEOREM SwapsAreArmed ==
  ASSUME Sealing
  PROVE  Spec => []SwappedMeansArmed
<1>1. Init => SInv /\ Armed
  BY RotationInit, SettledInit DEF SInv, Init, Armed, SwappedMeansArmed
<1>2. SInv /\ Armed /\ [Next]_vars => Armed'
  BY ArmedStep DEF SInv, RInv
<1>3. Armed => SwappedMeansArmed
  BY DEF Armed
<1> QED
  BY <1>1, <1>2, <1>3, SettledInvariance, PTL DEF Spec
=============================================================================
