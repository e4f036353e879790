---------------------------- MODULE SessionProofs ----------------------------
(***************************************************************************)
(* Proofs about Session, for every set of streams, role, client, choice of *)
(* faults and bound.                                                       *)
(*                                                                         *)
(* IInv is the inductive invariant.  The safety properties do not follow   *)
(* from themselves: whether a writer may be open, or an adapter armed,     *)
(* depends on the step the lock holder has reached, so IInv says for every *)
(* step which state the session shows (Phase), which writers are open      *)
(* (Writers), which adapters are armed (Arming) and whether the current    *)
(* episode can have been published already (Publishing).                   *)
(*                                                                         *)
(* What the session keeps in its books is only true of a host that is      *)
(* spared some calls and faults; each theorem names those it needs.        *)
(***************************************************************************)
EXTENDS Session, TLAPS

Capturing == state \in {"countdown", "recording", "stopping"}

Phase ==
  /\ op \in {"connect", "autoconnect"} => state = "connecting"
  /\ op \in {"validate", "await"} => state = "connected"
  /\ op = "arm" => state = "preparing"
  /\ op \in {"open", "fanout"} => state = "countdown"
  /\ op = "distribute" => state = "recording"
  /\ op \in {"stopchirp", "finalize", "land", "cancel"} => state = "stopping"

Writers ==
  /\ \A s \in Streams : writer[s] # 0 => writer[s] = episode /\ episode \in dirs /\ Capturing
  /\ op \in {"open", "land"} => \A s \in Streams : writer[s] = 0
  /\ op = "fanout" \/ state = "recording" =>
       \A s \in Streams : writer[s] = IF s \in connected THEN episode ELSE 0

Publishing ==
  \A p \in published :
    /\ p.episode <= episode
    /\ p.episode = episode =>
         /\ state = "stopping" /\ op \in {"land", "none"}
         /\ \A s \in Streams : writer[s] = 0

Arming ==
  /\ op = "fanout" => started \subseteq armed /\ todo \subseteq connected
  /\ state = "recording" => connected \subseteq armed
  /\ "stop" \notin Faults =>
       /\ ~Capturing => armed = {}
       /\ op \in {"open", "land"} => armed = {}
       /\ op = "fanout" => armed \subseteq started /\ started \subseteq connected
       /\ state = "recording" \/ op = "stopchirp" => armed \subseteq connected
       /\ op \in {"finalize", "cancel"} => armed \subseteq todo

IInv == TypeOK /\ Phase /\ Writers /\ Publishing /\ Arming

-----------------------------------------------------------------------------
\* Types

LEMMA TypeInit == Init => TypeOK
<1>1. Init => OpTypeOK
  BY DEF Init, OpTypeOK, States, Ops
<1>2. Init => DeviceTypeOK
  <2>1. Init => status \in [Streams -> Conditions]
    BY Zenon DEF Init, Conditions
  <2> QED
    BY <2>1 DEF Init, DeviceTypeOK
<1>3. Init => FileTypeOK
  <2>1. Init => writer \in [Streams -> Nat]
    BY DEF Init, NoWriters
  <2>2. Init => episode \in Nat \ {0} /\ lastEpisode \in Nat /\ log \in Nat
    BY DEF Init
  <2>3. Init => dirCreated \in BOOLEAN
    BY Zenon DEF Init
  <2>4. Init => dirs = {} /\ rows = {} /\ published = {} /\ rollbacks = {}
    BY DEF Init
  <2> QED
    BY <2>1, <2>2, <2>3, <2>4 DEF FileTypeOK
<1>4. Init => ChirpTypeOK
  <2>1. Init => take \in Nat /\ syncPoint \in Nat /\ chirpStart \in Nat /\ chirpStop \in Nat
    BY DEF Init
  <2>2. Init => chirpOn \in BOOLEAN /\ gate \in BOOLEAN /\ health \in BOOLEAN
    BY Zenon DEF Init
  <2>3. Init => exit \in {"no", "stopping", "reread", "disconnecting", "done"}
    BY DEF Init
  <2> QED
    BY <2>1, <2>2, <2>3 DEF ChirpTypeOK
<1> QED
  BY <1>1, <1>2, <1>3, <1>4 DEF TypeOK

LEMMA TypeStep == ASSUME TypeOK, [Next]_vars PROVE TypeOK'
<1> USE DEF TypeOK, OpTypeOK, DeviceTypeOK, FileTypeOK, ChirpTypeOK, States, Ops, Conditions,
            opVars, deviceVars, fileVars, logVars,
            chirpVars, watchVars
<1>1. ASSUME NEW s \in Streams, Add(s) PROVE TypeOK'
  BY <1>1 DEF Add
<1>2. ASSUME NEW s \in Streams, Remove(s) PROVE TypeOK'
  BY <1>2 DEF Remove
<1>3. CASE SetChirpMode
  BY <1>3 DEF SetChirpMode
<1>4. CASE ConnectBegin
  BY <1>4 DEF ConnectBegin
<1>5. CASE StartExplicit
  BY <1>5 DEF StartExplicit
<1>6. CASE StartOneShot
  <2>1. OpTypeOK'
    BY <1>6 DEF StartOneShot
  <2>2. DeviceTypeOK'
    BY <1>6 DEF StartOneShot
  <2>3. FileTypeOK'
    BY <1>6 DEF StartOneShot
  <2>4. ChirpTypeOK'
    BY <1>6 DEF StartOneShot
  <2> QED
    BY <2>1, <2>2, <2>3, <2>4
<1>7. CASE StopBegin
  BY <1>7 DEF StopBegin
<1>8. CASE CancelBegin
  BY <1>8 DEF CancelBegin
<1>9. CASE Disconnect
  BY <1>9 DEF Disconnect, CloseLog, CloseDevices, StatusAfterDisconnect
<1>10. CASE ConnectDevices
  BY <1>10 DEF ConnectDevices, Failing, CloseLog
<1>11. CASE StartValidate
  BY <1>11 DEF StartValidate
<1>12. CASE StartAwait
  BY <1>12 DEF StartAwait
<1>13. CASE StartAwaitFails
  <2>1. OpTypeOK'
    BY <1>13 DEF StartAwaitFails, ReturnFromStart, CloseDevices
  <2>2. DeviceTypeOK'
    BY <1>13 DEF StartAwaitFails, ReturnFromStart, CloseDevices
  <2>3. FileTypeOK'
    BY <1>13 DEF StartAwaitFails, ReturnFromStart, CloseDevices
  <2>4. ChirpTypeOK'
    BY <1>13 DEF StartAwaitFails, ReturnFromStart, CloseDevices
  <2> QED
    BY <2>1, <2>2, <2>3, <2>4
<1>14. CASE StartArm
  <2>1. OpTypeOK' /\ DeviceTypeOK' /\ ChirpTypeOK'
    BY <1>14 DEF StartArm
  <2>2. FileTypeOK'
    BY <1>14 DEF StartArm
  <2> QED
    BY <2>1, <2>2
<1>15. CASE StartOpenWriters
  BY <1>15 DEF StartOpenWriters, TruncatedRows, FreshSyncPoint, Row
<1>16. ASSUME NEW s \in Streams, FanOut(s) PROVE TypeOK'
  BY <1>16 DEF FanOut
<1>17. CASE StartRollback
  BY <1>17 DEF StartRollback, ReturnFromStart, CloseDevices, CloseSampleWriters, NoWriters,
     Failing
<1>18. CASE StartChirp
  BY <1>18 DEF StartChirp
<1>19. CASE Distribute
  BY <1>19 DEF Distribute
<1>20. CASE DistributeRollback
  BY <1>20 DEF DistributeRollback, ReturnFromStart, CloseDevices, CloseSampleWriters, NoWriters,
     CloseLog, Failing
<1>21. CASE StopChirp
  BY <1>21 DEF StopChirp
<1>22. ASSUME NEW s \in Streams, FinalizeStream(s) PROVE TypeOK'
  BY <1>22 DEF FinalizeStream
<1>23. CASE StopPersist
  <2>1. OpTypeOK'
    BY <1>23 DEF StopPersist, CloseSampleWriters, NoWriters, StopWatching, SyncPointFile
  <2>2. DeviceTypeOK'
    BY <1>23 DEF StopPersist, CloseSampleWriters, NoWriters, StopWatching, SyncPointFile
  <2>3. FileTypeOK'
    BY <1>23 DEF StopPersist, CloseSampleWriters, NoWriters, StopWatching, SyncPointFile
  <2>4. ChirpTypeOK'
    BY <1>23 DEF StopPersist, CloseSampleWriters, NoWriters, StopWatching, SyncPointFile
  <2> QED
    BY <2>1, <2>2, <2>3, <2>4
<1>24. CASE StopLand
  <2>1. OpTypeOK'
    BY <1>24 DEF StopLand, CloseLog, CloseDevices, PrepareNextEpisode
  <2>2. DeviceTypeOK'
    BY <1>24 DEF StopLand, CloseLog, CloseDevices, PrepareNextEpisode
  <2>3. FileTypeOK'
    <3>1. episode' \in Nat \ {0}
      BY <1>24 DEF StopLand, PrepareNextEpisode
    <3>1b. dirCreated' \in BOOLEAN
      BY <1>24, Zenon DEF StopLand, PrepareNextEpisode
    <3>2. lastEpisode' \in Nat
      BY <1>24 DEF StopLand, PrepareNextEpisode
    <3>3. writer' \in [Streams -> Nat]
      BY <1>24 DEF StopLand, CloseLog
    <3>4. dirs' \subseteq Nat /\ rows' \subseteq Row /\ published' \subseteq SyncPointFile
      BY <1>24 DEF StopLand
    <3>5. log' \in Nat /\ rollbacks' \subseteq Nat
      BY <1>24 DEF StopLand, CloseLog
    <3> QED
      BY <3>1, <3>1b, <3>2, <3>3, <3>4, <3>5
  <2>4. ChirpTypeOK'
    BY <1>24 DEF StopLand, CloseLog, CloseDevices, PrepareNextEpisode
  <2> QED
    BY <2>1, <2>2, <2>3, <2>4
<1>25. ASSUME NEW s \in Streams, CancelStream(s) PROVE TypeOK'
  BY <1>25 DEF CancelStream
<1>26. CASE CancelLand
  <2>1. OpTypeOK'
    BY <1>26 DEF CancelLand, CloseLog, CloseSampleWriters, NoWriters, PrepareNextEpisode
  <2>2. DeviceTypeOK'
    BY <1>26 DEF CancelLand, CloseLog, CloseSampleWriters, NoWriters, PrepareNextEpisode
  <2>3. FileTypeOK'
    <3>1. episode' \in Nat \ {0}
      BY <1>26 DEF CancelLand, PrepareNextEpisode
    <3>1b. dirCreated' \in BOOLEAN
      BY <1>26, Zenon DEF CancelLand, PrepareNextEpisode
    <3>2. lastEpisode' \in Nat
      BY <1>26 DEF CancelLand, PrepareNextEpisode
    <3>3. writer' \in [Streams -> Nat]
      BY <1>26 DEF CancelLand, CloseLog, CloseSampleWriters, NoWriters
    <3>4. dirs' \subseteq Nat /\ rows' \subseteq Row /\ published' \subseteq SyncPointFile
      BY <1>26 DEF CancelLand
    <3>5. log' \in Nat /\ rollbacks' \subseteq Nat
      BY <1>26 DEF CancelLand, CloseLog
    <3> QED
      BY <3>1, <3>1b, <3>2, <3>3, <3>4, <3>5
  <2>4. ChirpTypeOK'
    BY <1>26 DEF CancelLand, CloseLog, CloseSampleWriters, NoWriters, PrepareNextEpisode
  <2> QED
    BY <2>1, <2>2, <2>3, <2>4
<1>27. ASSUME NEW s \in Streams, Sample(s) PROVE TypeOK'
  BY <1>27 DEF Sample, Row
<1>28. CASE ExitRead
  BY <1>28 DEF ExitRead, ExitNext
<1>29. CASE UNCHANGED vars
  BY <1>29 DEF vars
<1> QED
  BY <1>1, <1>2, <1>3, <1>4, <1>5, <1>6, <1>7, <1>8, <1>9, <1>10, <1>11, <1>12, <1>13, <1>14,
     <1>15, <1>16, <1>17, <1>18, <1>19, <1>20, <1>21, <1>22, <1>23, <1>24, <1>25, <1>26, <1>27,
     <1>28, <1>29 DEF Next, Call, Step

\* Every variable keeps its type, whatever the streams, role, client, faults and
\* bound.
THEOREM TypeCorrect == Spec => []TypeOK
  BY TypeInit, TypeStep, PTL DEF Spec

-----------------------------------------------------------------------------
\* The inductive invariant, one part at a time

LEMMA PhaseStep ==
  ASSUME Phase, [Next]_vars PROVE Phase'
<1> USE DEF Phase, At, CanCall, opVars, deviceVars, fileVars, logVars, chirpVars, watchVars
<1>1. CASE (\E s \in Streams : Add(s)) \/ (\E s \in Streams : Remove(s)) \/ SetChirpMode
          \/ (\E s \in Streams : FanOut(s)) \/ (\E s \in Streams : FinalizeStream(s))
          \/ (\E s \in Streams : CancelStream(s)) \/ (\E s \in Streams : Sample(s))
  BY <1>1 DEF Add, Remove, SetChirpMode, FanOut, FinalizeStream, CancelStream, Sample
<1>2. CASE ConnectBegin
  BY <1>2 DEF ConnectBegin
<1>3. CASE StartExplicit
  BY <1>3 DEF StartExplicit
<1>4. CASE StartOneShot
  BY <1>4 DEF StartOneShot
<1>5. CASE StopBegin
  BY <1>5 DEF StopBegin
<1>6. CASE CancelBegin
  BY <1>6 DEF CancelBegin
<1>7. CASE Disconnect
  BY <1>7 DEF Disconnect, CloseDevices
<1>8. CASE ConnectDevices
  BY <1>8 DEF ConnectDevices, Failing
<1>9. CASE StartValidate
  BY <1>9 DEF StartValidate
<1>10. CASE StartAwait
  BY <1>10 DEF StartAwait
<1>11. CASE StartAwaitFails
  BY <1>11 DEF StartAwaitFails, ReturnFromStart, CloseDevices
<1>12. CASE StartArm
  BY <1>12 DEF StartArm
<1>13. CASE StartOpenWriters
  BY <1>13 DEF StartOpenWriters
<1>14. CASE StartRollback
  BY <1>14 DEF StartRollback, ReturnFromStart, CloseDevices, CloseSampleWriters, NoWriters,
          Failing, AllStarted
<1>15. CASE StartChirp
  BY <1>15 DEF StartChirp, AllStarted
<1>16. CASE Distribute
  BY <1>16 DEF Distribute
<1>17. CASE DistributeRollback
  BY <1>17 DEF DistributeRollback, ReturnFromStart, CloseDevices, CloseSampleWriters, NoWriters,
          Failing
<1>18. CASE StopChirp
  BY <1>18 DEF StopChirp
<1>19. CASE StopPersist
  BY <1>19 DEF StopPersist, CloseSampleWriters, NoWriters, AllHandled
<1>20. CASE StopLand
  BY <1>20 DEF StopLand, CloseDevices, PrepareNextEpisode
<1>21. CASE CancelLand
  BY <1>21 DEF CancelLand, CloseSampleWriters, NoWriters, PrepareNextEpisode, AllHandled
<1>22. CASE ExitRead
  BY <1>22 DEF ExitRead
<1>23. CASE UNCHANGED vars
  BY <1>23 DEF vars
<1> QED
  BY <1>1, <1>2, <1>3, <1>4, <1>5, <1>6, <1>7, <1>8, <1>9, <1>10, <1>11, <1>12, <1>13, <1>14,
     <1>15, <1>16, <1>17, <1>18, <1>19, <1>20, <1>21, <1>22, <1>23
     DEF Next, Call, Step

LEMMA WritersStep ==
  ASSUME TypeOK, Phase, Writers, [Next]_vars PROVE Writers'
<1> USE DEF TypeOK, FileTypeOK, Phase, Writers, Capturing, At, CanCall, opVars, deviceVars,
            fileVars, logVars, chirpVars, watchVars
<1>1. CASE (\E s \in Streams : Add(s)) \/ (\E s \in Streams : Remove(s)) \/ SetChirpMode
          \/ StartExplicit \/ StartValidate \/ (\E s \in Streams : Sample(s)) \/ ExitRead
  BY <1>1 DEF Add, Remove, SetChirpMode, StartExplicit, StartValidate, Sample, ExitRead
<1>2. CASE ConnectBegin
  BY <1>2 DEF ConnectBegin
<1>3. CASE StartOneShot
  BY <1>3 DEF StartOneShot
<1>4. CASE StopBegin
  BY <1>4 DEF StopBegin
<1>5. CASE CancelBegin
  BY <1>5 DEF CancelBegin
<1>6. CASE Disconnect
  BY <1>6 DEF Disconnect, CloseDevices
<1>7. CASE ConnectDevices
  BY <1>7 DEF ConnectDevices, Failing
<1>8. CASE StartAwait
  BY <1>8 DEF StartAwait
<1>9. CASE StartAwaitFails
  BY <1>9 DEF StartAwaitFails, ReturnFromStart, CloseDevices
<1>10. CASE StartArm
  BY <1>10 DEF StartArm
<1>11. CASE StartOpenWriters
  BY <1>11 DEF StartOpenWriters
<1>12. ASSUME NEW s \in Streams, FanOut(s) PROVE Writers'
  BY <1>12 DEF FanOut
<1>13. CASE StartRollback
  BY <1>13 DEF StartRollback, ReturnFromStart, CloseDevices, CloseSampleWriters, NoWriters,
          Failing, AllStarted
<1>14. CASE StartChirp
  BY <1>14 DEF StartChirp, AllStarted
<1>15. CASE Distribute
  BY <1>15 DEF Distribute
<1>16. CASE DistributeRollback
  BY <1>16 DEF DistributeRollback, ReturnFromStart, CloseDevices, CloseSampleWriters, NoWriters,
          Failing
<1>17. CASE StopChirp
  BY <1>17 DEF StopChirp
<1>18. ASSUME NEW s \in Streams, FinalizeStream(s) PROVE Writers'
  BY <1>18 DEF FinalizeStream
<1>19. CASE StopPersist
  BY <1>19 DEF StopPersist, CloseSampleWriters, NoWriters, AllHandled
<1>20. CASE StopLand
  BY <1>20 DEF StopLand, CloseDevices, PrepareNextEpisode
<1>21. ASSUME NEW s \in Streams, CancelStream(s) PROVE Writers'
  BY <1>21 DEF CancelStream
<1>22. CASE CancelLand
  BY <1>22 DEF CancelLand, CloseSampleWriters, NoWriters, PrepareNextEpisode, AllHandled
<1>23. CASE UNCHANGED vars
  BY <1>23 DEF vars
<1> QED
  BY <1>1, <1>2, <1>3, <1>4, <1>5, <1>6, <1>7, <1>8, <1>9, <1>10, <1>11, <1>12, <1>13, <1>14,
     <1>15, <1>16, <1>17, <1>18, <1>19, <1>20, <1>21, <1>22, <1>23
     DEF Next, Call, Step

LEMMA PublishingStep ==
  ASSUME TypeOK, Phase, Writers, Publishing, [Next]_vars PROVE Publishing'
<1> USE DEF TypeOK, FileTypeOK, SyncPointFile, Phase, Writers, Publishing, Capturing, At,
            CanCall, opVars, deviceVars, fileVars, logVars, chirpVars, watchVars
<1>1. CASE (\E s \in Streams : Add(s)) \/ (\E s \in Streams : Remove(s)) \/ SetChirpMode
          \/ StartExplicit \/ StartValidate \/ (\E s \in Streams : Sample(s)) \/ ExitRead
  BY <1>1 DEF Add, Remove, SetChirpMode, StartExplicit, StartValidate, Sample, ExitRead
<1>2. CASE ConnectBegin
  BY <1>2 DEF ConnectBegin
<1>3. CASE StartOneShot
  BY <1>3 DEF StartOneShot
<1>4. CASE StopBegin
  BY <1>4 DEF StopBegin
<1>5. CASE CancelBegin
  BY <1>5 DEF CancelBegin
<1>6. CASE Disconnect
  BY <1>6 DEF Disconnect, CloseDevices
<1>7. CASE ConnectDevices
  BY <1>7 DEF ConnectDevices, Failing
<1>8. CASE StartAwait
  BY <1>8 DEF StartAwait
<1>9. CASE StartAwaitFails
  BY <1>9 DEF StartAwaitFails, ReturnFromStart, CloseDevices
<1>10. CASE StartArm
  BY <1>10 DEF StartArm
<1>11. CASE StartOpenWriters
  BY <1>11 DEF StartOpenWriters
<1>12. ASSUME NEW s \in Streams, FanOut(s) PROVE Publishing'
  BY <1>12 DEF FanOut
<1>13. CASE StartRollback
  BY <1>13 DEF StartRollback, ReturnFromStart, CloseDevices, CloseSampleWriters, NoWriters,
          Failing, AllStarted
<1>14. CASE StartChirp
  BY <1>14 DEF StartChirp, AllStarted
<1>15. CASE Distribute
  BY <1>15 DEF Distribute
<1>16. CASE DistributeRollback
  BY <1>16 DEF DistributeRollback, ReturnFromStart, CloseDevices, CloseSampleWriters, NoWriters,
          Failing
<1>17. CASE StopChirp
  BY <1>17 DEF StopChirp
<1>18. ASSUME NEW s \in Streams, FinalizeStream(s) PROVE Publishing'
  BY <1>18 DEF FinalizeStream
<1>19. CASE StopPersist
  BY <1>19 DEF StopPersist, CloseSampleWriters, NoWriters, AllHandled
<1>20. CASE StopLand
  BY <1>20 DEF StopLand, CloseDevices, PrepareNextEpisode
<1>21. ASSUME NEW s \in Streams, CancelStream(s) PROVE Publishing'
  BY <1>21 DEF CancelStream
<1>22. CASE CancelLand
  BY <1>22 DEF CancelLand, CloseSampleWriters, NoWriters, PrepareNextEpisode, AllHandled
<1>23. CASE UNCHANGED vars
  BY <1>23 DEF vars
<1> QED
  BY <1>1, <1>2, <1>3, <1>4, <1>5, <1>6, <1>7, <1>8, <1>9, <1>10, <1>11, <1>12, <1>13, <1>14,
     <1>15, <1>16, <1>17, <1>18, <1>19, <1>20, <1>21, <1>22, <1>23
     DEF Next, Call, Step

LEMMA ArmingStep ==
  ASSUME TypeOK, Phase, Arming, [Next]_vars PROVE Arming'
<1> USE DEF TypeOK, OpTypeOK, DeviceTypeOK, Phase, Arming, Capturing, At, CanCall, opVars,
            deviceVars, fileVars, logVars, chirpVars, watchVars
<1>1. CASE (\E s \in Streams : Add(s)) \/ SetChirpMode \/ StartExplicit \/ StartValidate
          \/ (\E s \in Streams : Sample(s)) \/ ExitRead
  BY <1>1 DEF Add, SetChirpMode, StartExplicit, StartValidate, Sample, ExitRead
<1>2. ASSUME NEW s \in Streams, Remove(s) PROVE Arming'
  BY <1>2 DEF Remove
<1>3. CASE ConnectBegin
  BY <1>3 DEF ConnectBegin
<1>4. CASE StartOneShot
  BY <1>4 DEF StartOneShot
<1>5. CASE StopBegin
  BY <1>5 DEF StopBegin
<1>6. CASE CancelBegin
  BY <1>6 DEF CancelBegin
<1>7. CASE Disconnect
  BY <1>7 DEF Disconnect, CloseDevices
<1>8. CASE ConnectDevices
  BY <1>8 DEF ConnectDevices, Failing
<1>9. CASE StartAwait
  BY <1>9 DEF StartAwait
<1>10. CASE StartAwaitFails
  BY <1>10 DEF StartAwaitFails, ReturnFromStart, CloseDevices
<1>11. CASE StartArm
  BY <1>11 DEF StartArm
<1>12. CASE StartOpenWriters
  BY <1>12 DEF StartOpenWriters
<1>13. ASSUME NEW s \in Streams, FanOut(s) PROVE Arming'
  BY <1>13 DEF FanOut
<1>14. CASE StartRollback
  BY <1>14 DEF StartRollback, ReturnFromStart, CloseDevices, CloseSampleWriters, NoWriters,
          Failing, AllStarted
<1>15. CASE StartChirp
  BY <1>15 DEF StartChirp, AllStarted
<1>16. CASE Distribute
  BY <1>16 DEF Distribute
<1>17. CASE DistributeRollback
  BY <1>17 DEF DistributeRollback, ReturnFromStart, CloseDevices, CloseSampleWriters, NoWriters,
          Failing
<1>18. CASE StopChirp
  BY <1>18 DEF StopChirp
<1>19. ASSUME NEW s \in Streams, FinalizeStream(s) PROVE Arming'
  BY <1>19 DEF FinalizeStream
<1>20. CASE StopPersist
  BY <1>20 DEF StopPersist, CloseSampleWriters, NoWriters, AllHandled
<1>21. CASE StopLand
  BY <1>21 DEF StopLand, CloseDevices, PrepareNextEpisode
<1>22. ASSUME NEW s \in Streams, CancelStream(s) PROVE Arming'
  BY <1>22 DEF CancelStream
<1>23. CASE CancelLand
  BY <1>23 DEF CancelLand, CloseSampleWriters, NoWriters, PrepareNextEpisode, AllHandled
<1>24. CASE UNCHANGED vars
  BY <1>24 DEF vars
<1> QED
  BY <1>1, <1>2, <1>3, <1>4, <1>5, <1>6, <1>7, <1>8, <1>9, <1>10, <1>11, <1>12, <1>13, <1>14,
     <1>15, <1>16, <1>17, <1>18, <1>19, <1>20, <1>21, <1>22, <1>23, <1>24
     DEF Next, Call, Step

LEMMA InvInit == Init => IInv
<1> SUFFICES ASSUME Init PROVE IInv
  OBVIOUS
<1>1. TypeOK
  BY TypeInit
<1>2. Phase
  BY DEF Init, Phase
<1>3. Writers
  BY DEF Init, Writers, NoWriters
<1>4. Publishing
  BY DEF Init, Publishing
<1>5. Arming
  BY DEF Init, Arming
<1> QED
  BY <1>1, <1>2, <1>3, <1>4, <1>5 DEF IInv

LEMMA InvStep == ASSUME IInv, [Next]_vars PROVE IInv'
  BY TypeStep, PhaseStep, WritersStep, PublishingStep, ArmingStep DEF IInv

\* In every reachable state the phase, the open writers, the armed adapters and
\* the published episodes fit the step the lock holder has reached.
THEOREM Invariance == Spec => []IInv
  BY InvInit, InvStep, PTL DEF Spec

-----------------------------------------------------------------------------
\* Safety

\* No writer survives the take it was opened for: an open sample file is in the
\* current episode, whose directory exists and is not published.
THEOREM WritersStayInEpisode == Spec => []WritersInCurrentEpisode
<1>1. IInv => WritersInCurrentEpisode
  BY DEF IInv, Writers, Publishing, WritersInCurrentEpisode, Sealed
<1> QED
  BY <1>1, Invariance, PTL

\* Whichever way a recording ended, at rest no file is open and, unless a
\* stop_recording() raised, no adapter is in its recording window.
THEOREM RestIsQuiet == Spec => []NothingRecordsAtRest
<1>1. IInv => NothingRecordsAtRest
  <2> SUFFICES ASSUME IInv, AtRest
               PROVE  writer = NoWriters /\ ("stop" \notin Faults => armed = {})
    BY DEF NothingRecordsAtRest
  <2>1. ~Capturing
    BY DEF AtRest, Capturing
  <2>2. writer = NoWriters
    BY <2>1 DEF IInv, Writers, NoWriters, TypeOK, FileTypeOK
  <2> QED
    BY <2>1, <2>2 DEF IInv, Arming
<1> QED
  BY <1>1, Invariance, PTL

\* start() is atomic: RECORDING means that every connected stream is armed and
\* that it, and no other, has a writer in the current episode.
THEOREM StartIsAtomic == Spec => []AtomicRecording
<1>1. IInv => AtomicRecording
  BY DEF IInv, Writers, Arming, AtomicRecording
<1> QED
  BY <1>1, Invariance, PTL

\* The rows of published takes in one step.
LEMMA FrozenStep ==
  ASSUME IInv, [Next]_vars, NEW p \in published
  PROVE  /\ p \in published'
         /\ {r \in rows' : r.episode = p.episode} = {r \in rows : r.episode = p.episode}
<1> DEFINE Kept == /\ p \in published'
                  /\ {r \in rows' : r.episode = p.episode} = {r \in rows : r.episode = p.episode}
<1> USE DEF opVars, deviceVars, fileVars, logVars, chirpVars, watchVars
<1>1. CASE (\E s \in Streams : Add(s)) \/ (\E s \in Streams : Remove(s)) \/ SetChirpMode
          \/ ConnectBegin \/ StartExplicit \/ StartOneShot \/ StopBegin \/ CancelBegin
          \/ Disconnect \/ ConnectDevices \/ StartValidate \/ StartAwait \/ StartAwaitFails
          \/ StartArm \/ (\E s \in Streams : FanOut(s)) \/ StartRollback \/ StartChirp
          \/ Distribute \/ DistributeRollback \/ StopChirp
          \/ (\E s \in Streams : FinalizeStream(s)) \/ StopLand
          \/ (\E s \in Streams : CancelStream(s)) \/ ExitRead
  BY <1>1 DEF Add, Remove, SetChirpMode, ConnectBegin, StartExplicit, StartOneShot, StopBegin,
          CancelBegin, Disconnect, ConnectDevices, StartValidate, StartAwait, StartAwaitFails,
          StartArm, FanOut, StartRollback, StartChirp, Distribute, DistributeRollback,
          StopChirp, FinalizeStream, StopLand, CancelStream, ExitRead
<1>2. CASE StartOpenWriters
  <2>1. p.episode # episode
    BY <1>2 DEF StartOpenWriters, At, IInv, Phase, Publishing
  <2> QED
    BY <1>2, <2>1 DEF StartOpenWriters, TruncatedRows
<1>3. CASE StopPersist
  BY <1>3 DEF StopPersist
<1>4. CASE CancelLand
  <2>1. p.episode # episode
    BY <1>4 DEF CancelLand, At, IInv, Publishing
  <2> QED
    BY <1>4, <2>1 DEF CancelLand
<1>5. ASSUME NEW s \in Streams, Sample(s) PROVE Kept
  <2>1. writer[s] # p.episode
    BY <1>5 DEF Sample, IInv, Writers, Publishing
  <2> QED
    BY <1>5, <2>1 DEF Sample
<1>6. CASE UNCHANGED vars
  BY <1>6 DEF vars
<1> QED
  BY <1>1, <1>2, <1>3, <1>4, <1>5, <1>6 DEF Next, Call, Step

\* A published take is never touched again: its sync point stays, and no row is
\* added to, truncated in or deleted from its directory.
THEOREM TakesStayFrozen == Spec => SealedTakesFrozen
<1>1. IInv /\ [Next]_vars =>
        [\A p \in published :
            /\ p \in published'
            /\ {r \in rows' : r.episode = p.episode} = {r \in rows : r.episode = p.episode}]_vars
  BY FrozenStep
<1> QED
  BY <1>1, Invariance, PTL DEF Spec, SealedTakesFrozen

-----------------------------------------------------------------------------
\* Refinement

\* Every step of the session is a step of EpisodeStore or leaves the episode,
\* its rows and the published takes as they are.
LEMMA StoreStep == ASSUME IInv, [Next]_vars PROVE [Store!Next]_(Store!vars)
<1> USE DEF opVars, deviceVars, fileVars, logVars, chirpVars, watchVars, Store!vars
<1>1. CASE (\E s \in Streams : Add(s)) \/ (\E s \in Streams : Remove(s)) \/ SetChirpMode
          \/ ConnectBegin \/ StartExplicit \/ StartOneShot \/ StopBegin \/ CancelBegin
          \/ Disconnect \/ ConnectDevices \/ StartValidate \/ StartArm
          \/ (\E s \in Streams : FanOut(s)) \/ StartRollback \/ StartChirp \/ Distribute
          \/ DistributeRollback \/ StopChirp \/ (\E s \in Streams : FinalizeStream(s))
          \/ (\E s \in Streams : CancelStream(s)) \/ ExitRead
  BY <1>1 DEF Add, Remove, SetChirpMode, ConnectBegin, StartExplicit, StartOneShot, StopBegin,
          CancelBegin, Disconnect, ConnectDevices, StartValidate, StartArm, FanOut,
          StartRollback, StartChirp, Distribute, DistributeRollback, StopChirp, FinalizeStream,
          CancelStream, ExitRead
<1>2. CASE StartAwait
  <2>1. UNCHANGED <<rows, published>> /\ (episode' = episode \/ episode' = episode + 1)
    BY <1>2 DEF StartAwait
  <2> QED
    BY <2>1 DEF Store!Next, Store!Advance, IInv, TypeOK, FileTypeOK
<1>3. CASE StartAwaitFails
  <2>1. UNCHANGED <<rows, published>> /\ (episode' = episode \/ episode' = episode + 1)
    BY <1>3 DEF StartAwaitFails
  <2> QED
    BY <2>1 DEF Store!Next, Store!Advance, IInv, TypeOK, FileTypeOK
<1>4. CASE StartOpenWriters
  <2>1. ~Store!Sealed(episode)
    BY <1>4 DEF StartOpenWriters, At, IInv, Phase, Publishing, Store!Sealed
  <2>2. PICK opened \in SUBSET connected : rows' = TruncatedRows(opened)
    BY <1>4 DEF StartOpenWriters
  <2>3. opened \in SUBSET Streams
    BY DEF IInv, TypeOK, DeviceTypeOK
  <2>4. UNCHANGED <<episode, published>>
    BY <1>4 DEF StartOpenWriters
  <2> QED
    BY <2>1, <2>2, <2>3, <2>4 DEF TruncatedRows, Store!Next, Store!Erase
<1>5. CASE StopPersist
  <2>1. ~Store!Sealed(episode)
    BY <1>5 DEF StopPersist, At, IInv, Publishing, Store!Sealed
  <2>2. UNCHANGED <<episode, rows>>
    BY <1>5 DEF StopPersist
  <2>3. CASE published' = published \union {[episode |-> episode, sync |-> syncPoint,
                                            start |-> chirpStart, stop |-> chirpStop]}
    BY <2>1, <2>2, <2>3 DEF Store!Next, Store!Seal
  <2>4. CASE UNCHANGED published
    BY <2>2, <2>4
  <2> QED
    BY <1>5, <2>3, <2>4 DEF StopPersist
<1>6. CASE StopLand
  <2>1. UNCHANGED <<rows, published>> /\ episode' = episode + 1
    BY <1>6 DEF StopLand, PrepareNextEpisode
  <2> QED
    BY <2>1 DEF Store!Next, Store!Advance, IInv, TypeOK, FileTypeOK
<1>7. CASE CancelLand
  <2>1. ~Store!Sealed(episode)
    BY <1>7 DEF CancelLand, At, IInv, Publishing, Store!Sealed
  <2>2. UNCHANGED published /\ episode' = episode + 1
    BY <1>7 DEF CancelLand, PrepareNextEpisode
  <2>3. episode' > episode /\ episode' \in Nat
    BY <2>2 DEF IInv, TypeOK, FileTypeOK
  <2>4. CASE rows' = {r \in rows : r.episode # episode}
    BY <2>1, <2>2, <2>3, <2>4 DEF Store!Next, Store!Discard
  <2>5. CASE UNCHANGED rows
    BY <2>2, <2>3, <2>5 DEF Store!Next, Store!Advance
  <2> QED
    BY <1>7, <2>4, <2>5 DEF CancelLand
<1>8. ASSUME NEW s \in Streams, Sample(s) PROVE [Store!Next]_(Store!vars)
  <2>1. writer[s] = episode
    BY <1>8 DEF Sample, IInv, Writers
  <2>2. ~Store!Sealed(episode)
    BY <1>8, <2>1 DEF Sample, IInv, Writers, Publishing, Store!Sealed
  <2> DEFINE r == [episode |-> episode, stream |-> s, take |-> take]
  <2>3. rows' = rows \union {r} /\ UNCHANGED <<episode, published>>
    BY <1>8, <2>1 DEF Sample
  <2> QED
    BY <2>2, <2>3 DEF Store!Next, Store!Append
<1>9. CASE UNCHANGED vars
  BY <1>9 DEF vars
<1> QED
  BY <1>1, <1>2, <1>3, <1>4, <1>5, <1>6, <1>7, <1>8, <1>9 DEF Next, Call, Step

\* The session keeps the promise of EpisodeStore: rows only ever change in the
\* current episode and only until it is published, an episode is published at
\* most once, and the session never returns to an earlier directory.
THEOREM Implements == Spec => StoreSpec
<1>1. Init => Store!Init
  BY DEF Init, Store!Init
<1>2. IInv /\ [Next]_vars => [Store!Next]_(Store!vars)
  BY StoreStep
<1> QED
  BY <1>1, <1>2, Invariance, PTL DEF Spec, StoreSpec, Store!Spec

-----------------------------------------------------------------------------
\* What the session keeps in its books

\* The end of a take: the stop chirp comes before any stream has been told to stop.
Ending ==
  op = "stopchirp" => connected \subseteq armed /\ \A s \in connected : writer[s] = episode

\* What the code does not survive: a file it cannot open or publish, a player that raises, an
\* interrupt between two steps, and a retry of a host that has moved its directory.
Undisturbed ==
  /\ "interrupt" \notin Calls /\ "disk" \notin Faults /\ "stop_chirp" \notin Faults
  /\ ~AutoDiscover

\* A method ends where another one can begin; a directory that was made is there.
Standing ==
  /\ NeverStranded
  /\ dirCreated => episode \in dirs
  /\ op \in {"open", "fanout"} => dirCreated

\* Nor do the books survive cancel(), which leaves the gate on and names the directory it
\* deleted; a one-shot stop(), which leaves the statuses; the chirp mode changed, or a chirp
\* not played, after a take whose chirps are still cached; a rollback of the distribution.
Orderly ==
  /\ Undisturbed
  /\ Calls \intersect {"cancel", "oneshot", "set_chirp_mode"} = {}
  /\ Faults \intersect {"start_chirp", "config"} = {}

\* The gate, the statuses and the devices.
Tracking ==
  /\ ~auto
  /\ state \in {"idle", "connecting", "stopped"} => dev = {}
  /\ dev \subseteq connected
  /\ \A s \in registered : status[s] = "connected" => s \in dev
  /\ gate => state \in {"recording", "stopping"}
  /\ state = "recording" => gate /\ health
  /\ op = "land" => ~gate
  /\ op # "cancel"
  /\ LastEpisodeExists

\* The chirps of the take in progress.
Chirping ==
  /\ ~ChirpEligible => chirpStart = 0 /\ chirpStop = 0
  /\ op = "fanout" \/ state \in {"recording", "stopping"} => syncPoint = take
  /\ ChirpEligible /\ state \in {"recording", "stopping"} => chirpStart = take
  /\ ChirpEligible /\ op \in {"finalize", "land"} => chirpStop = take
  /\ ChirpsBelongToTake

\* How far the exit hook has come.
Exiting ==
  /\ exit \notin {"no", "done"} => op \in {"none", "stopchirp", "finalize", "land"}
  /\ exit = "stopping" => state = "recording" /\ op = "none"
  /\ exit = "reread" => state # "recording"
  /\ exit = "disconnecting" => state \in {"connected", "stopped"} /\ op = "none"
  /\ exit = "done" => op = "none"
  /\ ExitReleasesDevices

\* The streams of a host do not get fewer between the attempts at one take: one that does
\* leaves the rows of the failed attempt behind, and may have been the audio stream.
Steady == "remove" \notin Calls /\ "connect" \notin Faults

\* The rows of the current episode are of one attempt while it goes on.
Attempt ==
  /\ \A r \in rows : r.episode <= episode
  /\ \A r \in rows : r.episode = episode => r.stream \in registered
  /\ \A s \in Streams : writer[s] # 0 => s \in connected
  /\ state \notin {"idle", "connecting", "stopped"} => connected = registered
  /\ op \in {"fanout", "distribute", "stopchirp", "finalize"} \/ state = "recording" =>
       syncPoint = take /\ \A r \in rows : r.episode = episode => r.take = take
  /\ op \in {"await", "arm", "open", "fanout", "distribute"} \/ state = "recording" => HasAudio
  /\ SealedTakeIsOneTake

\* Outside IDLE every open device of a registered stream is in the list disconnect() closes.
Listed == state \notin {"idle", "connecting"} => dev \intersect registered \subseteq connected

LEMMA BooksInit ==
  Init => Ending /\ Standing /\ Tracking /\ Chirping /\ Exiting /\ Attempt /\ Listed
  BY DEF Init, Ending, Standing, NeverStranded, Tracking, LastEpisodeExists, Chirping,
         ChirpsBelongToTake, Exiting, ExitReleasesDevices, Attempt, Listed, SealedTakeIsOneTake,
         NoWriters

LEMMA EndingStep ==
  ASSUME IInv, Ending, [Next]_vars PROVE Ending'
<1> USE  DEF opVars, deviceVars, fileVars, logVars, chirpVars, watchVars, At, CanCall, IInv,
         TypeOK, DeviceTypeOK, Phase, Writers, Arming, Ending
<1>1. ASSUME NEW s \in Streams, Add(s) PROVE Ending'
  BY <1>1 DEF Add
<1>2. ASSUME NEW s \in Streams, Remove(s) PROVE Ending'
  BY <1>2 DEF Remove
<1>3. CASE SetChirpMode
  BY <1>3 DEF SetChirpMode
<1>4. CASE ConnectBegin
  BY <1>4 DEF ConnectBegin
<1>5. CASE StartExplicit
  BY <1>5 DEF StartExplicit
<1>6. CASE StartOneShot
  BY <1>6 DEF StartOneShot
<1>7. CASE StopBegin
  BY <1>7 DEF StopBegin
<1>8. CASE CancelBegin
  BY <1>8 DEF CancelBegin
<1>9. CASE Disconnect
  BY <1>9 DEF Disconnect, CloseDevices, CloseLog, StatusAfterDisconnect
<1>10. CASE ConnectDevices
  BY <1>10 DEF ConnectDevices, Failing, CloseLog
<1>11. CASE StartValidate
  BY <1>11 DEF StartValidate
<1>12. CASE StartAwait
  BY <1>12 DEF StartAwait
<1>13. CASE StartAwaitFails
  BY <1>13 DEF StartAwaitFails, ReturnFromStart, CloseDevices
<1>14. CASE StartArm
  BY <1>14 DEF StartArm
<1>15. CASE StartOpenWriters
  BY <1>15 DEF StartOpenWriters, TruncatedRows, FreshSyncPoint
<1>16. ASSUME NEW s \in Streams, FanOut(s) PROVE Ending'
  BY <1>16 DEF FanOut
<1>17. CASE StartRollback
  BY <1>17 DEF StartRollback, ReturnFromStart, CloseDevices, CloseSampleWriters, NoWriters,
         Failing, AllStarted, CloseLog
<1>18. CASE StartChirp
  BY <1>18 DEF StartChirp, AllStarted, ChirpEligible
<1>19. CASE Distribute
  BY <1>19 DEF Distribute
<1>20. CASE DistributeRollback
  BY <1>20 DEF DistributeRollback, ReturnFromStart, CloseDevices, CloseSampleWriters,
         NoWriters, Failing, AllStarted, CloseLog
<1>21. CASE StopChirp
  BY <1>21 DEF StopChirp, ChirpEligible
<1>22. ASSUME NEW s \in Streams, FinalizeStream(s) PROVE Ending'
  BY <1>22 DEF FinalizeStream
<1>23. CASE StopPersist
  BY <1>23 DEF StopPersist, CloseSampleWriters, NoWriters, AllHandled, StopWatching
<1>24. CASE StopLand
  BY <1>24 DEF StopLand, CloseLog, CloseDevices, PrepareNextEpisode
<1>25. ASSUME NEW s \in Streams, CancelStream(s) PROVE Ending'
  BY <1>25 DEF CancelStream
<1>26. CASE CancelLand
  BY <1>26 DEF CancelLand, CloseLog, CloseSampleWriters, NoWriters, PrepareNextEpisode,
         AllHandled
<1>27. ASSUME NEW s \in Streams, Sample(s) PROVE Ending'
  BY <1>27 DEF Sample
<1>28. CASE ExitRead
  BY <1>28 DEF ExitRead, ExitNext
<1>29. CASE UNCHANGED vars
  BY <1>29 DEF vars
<1> QED
  BY <1>1, <1>2, <1>3, <1>4, <1>5, <1>6, <1>7, <1>8, <1>9, <1>10, <1>11, <1>12, <1>13,
     <1>14, <1>15, <1>16, <1>17, <1>18, <1>19, <1>20, <1>21, <1>22, <1>23, <1>24, <1>25,
     <1>26, <1>27, <1>28, <1>29
     DEF Next, Call, Step

LEMMA StandingStep ==
  ASSUME Undisturbed, IInv, Standing, [Next]_vars PROVE Standing'
<1> USE  DEF opVars, deviceVars, fileVars, logVars, chirpVars, watchVars, At, CanCall,
         Undisturbed, IInv, Phase, Standing, NeverStranded
<1>1. ASSUME NEW s \in Streams, Add(s) PROVE Standing'
  BY <1>1 DEF Add
<1>2. ASSUME NEW s \in Streams, Remove(s) PROVE Standing'
  BY <1>2 DEF Remove
<1>3. CASE SetChirpMode
  BY <1>3 DEF SetChirpMode
<1>4. CASE ConnectBegin
  BY <1>4 DEF ConnectBegin
<1>5. CASE StartExplicit
  BY <1>5 DEF StartExplicit
<1>6. CASE StartOneShot
  BY <1>6 DEF StartOneShot
<1>7. CASE StopBegin
  BY <1>7 DEF StopBegin
<1>8. CASE CancelBegin
  BY <1>8 DEF CancelBegin
<1>9. CASE Disconnect
  BY <1>9 DEF Disconnect, CloseDevices, CloseLog, StatusAfterDisconnect
<1>10. CASE ConnectDevices
  BY <1>10 DEF ConnectDevices, Failing, CloseLog
<1>11. CASE StartValidate
  BY <1>11 DEF StartValidate
<1>12. CASE StartAwait
  BY <1>12 DEF StartAwait
<1>13. CASE StartAwaitFails
  BY <1>13 DEF StartAwaitFails, ReturnFromStart, CloseDevices
<1>14. CASE StartArm
  BY <1>14 DEF StartArm
<1>15. CASE StartOpenWriters
  BY <1>15 DEF StartOpenWriters, TruncatedRows, FreshSyncPoint
<1>16. ASSUME NEW s \in Streams, FanOut(s) PROVE Standing'
  BY <1>16 DEF FanOut
<1>17. CASE StartRollback
  BY <1>17 DEF StartRollback, ReturnFromStart, CloseDevices, CloseSampleWriters, NoWriters,
         Failing, AllStarted, CloseLog
<1>18. CASE StartChirp
  BY <1>18 DEF StartChirp, AllStarted, ChirpEligible
<1>19. CASE Distribute
  BY <1>19 DEF Distribute
<1>20. CASE DistributeRollback
  BY <1>20 DEF DistributeRollback, ReturnFromStart, CloseDevices, CloseSampleWriters,
         NoWriters, Failing, AllStarted, CloseLog
<1>21. CASE StopChirp
  BY <1>21 DEF StopChirp, ChirpEligible
<1>22. ASSUME NEW s \in Streams, FinalizeStream(s) PROVE Standing'
  BY <1>22 DEF FinalizeStream
<1>23. CASE StopPersist
  BY <1>23 DEF StopPersist, CloseSampleWriters, NoWriters, AllHandled, StopWatching
<1>24. CASE StopLand
  BY <1>24 DEF StopLand, CloseLog, CloseDevices, PrepareNextEpisode
<1>25. ASSUME NEW s \in Streams, CancelStream(s) PROVE Standing'
  BY <1>25 DEF CancelStream
<1>26. CASE CancelLand
  BY <1>26 DEF CancelLand, CloseLog, CloseSampleWriters, NoWriters, PrepareNextEpisode,
         AllHandled
<1>27. ASSUME NEW s \in Streams, Sample(s) PROVE Standing'
  BY <1>27 DEF Sample
<1>28. CASE ExitRead
  BY <1>28 DEF ExitRead, ExitNext
<1>29. CASE UNCHANGED vars
  BY <1>29 DEF vars
<1> QED
  BY <1>1, <1>2, <1>3, <1>4, <1>5, <1>6, <1>7, <1>8, <1>9, <1>10, <1>11, <1>12, <1>13,
     <1>14, <1>15, <1>16, <1>17, <1>18, <1>19, <1>20, <1>21, <1>22, <1>23, <1>24, <1>25,
     <1>26, <1>27, <1>28, <1>29
     DEF Next, Call, Step

LEMMA TrackingStep ==
  ASSUME Orderly, IInv, Standing, Tracking, [Next]_vars PROVE Tracking'
<1> USE  DEF opVars, deviceVars, fileVars, logVars, chirpVars, watchVars, At, CanCall,
         Undisturbed, Orderly, IInv, Phase, Standing, NeverStranded, Tracking,
         LastEpisodeExists, TypeOK, OpTypeOK, DeviceTypeOK, FileTypeOK, ChirpTypeOK, Ops,
         States
<1>1. ASSUME NEW s \in Streams, Add(s) PROVE Tracking'
  BY <1>1 DEF Add
<1>2. ASSUME NEW s \in Streams, Remove(s) PROVE Tracking'
  BY <1>2 DEF Remove
<1>3. CASE SetChirpMode
  BY <1>3 DEF SetChirpMode
<1>4. CASE ConnectBegin
  BY <1>4 DEF ConnectBegin
<1>5. CASE StartExplicit
  BY <1>5 DEF StartExplicit
<1>6. CASE StartOneShot
  BY <1>6 DEF StartOneShot
<1>7. CASE StopBegin
  BY <1>7 DEF StopBegin
<1>8. CASE CancelBegin
  BY <1>8 DEF CancelBegin
<1>9. CASE Disconnect
  BY <1>9 DEF Disconnect, CloseDevices, CloseLog, StatusAfterDisconnect
<1>10. CASE ConnectDevices
  BY <1>10 DEF ConnectDevices, Failing, CloseLog
<1>11. CASE StartValidate
  BY <1>11 DEF StartValidate
<1>12. CASE StartAwait
  BY <1>12 DEF StartAwait
<1>13. CASE StartAwaitFails
  BY <1>13 DEF StartAwaitFails, ReturnFromStart, CloseDevices
<1>14. CASE StartArm
  BY <1>14 DEF StartArm
<1>15. CASE StartOpenWriters
  BY <1>15 DEF StartOpenWriters, TruncatedRows, FreshSyncPoint
<1>16. ASSUME NEW s \in Streams, FanOut(s) PROVE Tracking'
  BY <1>16 DEF FanOut
<1>17. CASE StartRollback
  BY <1>17 DEF StartRollback, ReturnFromStart, CloseDevices, CloseSampleWriters, NoWriters,
         Failing, AllStarted, CloseLog
<1>18. CASE StartChirp
  BY <1>18 DEF StartChirp, AllStarted, ChirpEligible
<1>19. CASE Distribute
  BY <1>19 DEF Distribute
<1>20. CASE DistributeRollback
  BY <1>20 DEF DistributeRollback, ReturnFromStart, CloseDevices, CloseSampleWriters,
         NoWriters, Failing, AllStarted, CloseLog
<1>21. CASE StopChirp
  BY <1>21 DEF StopChirp, ChirpEligible
<1>22. ASSUME NEW s \in Streams, FinalizeStream(s) PROVE Tracking'
  BY <1>22 DEF FinalizeStream
<1>23. CASE StopPersist
  BY <1>23 DEF StopPersist, CloseSampleWriters, NoWriters, AllHandled, StopWatching
<1>24. CASE StopLand
  BY <1>24 DEF StopLand, CloseLog, CloseDevices, PrepareNextEpisode
<1>25. ASSUME NEW s \in Streams, CancelStream(s) PROVE Tracking'
  BY <1>25 DEF CancelStream
<1>26. CASE CancelLand
  BY <1>26 DEF CancelLand, CloseLog, CloseSampleWriters, NoWriters, PrepareNextEpisode,
         AllHandled
<1>27. ASSUME NEW s \in Streams, Sample(s) PROVE Tracking'
  BY <1>27 DEF Sample
<1>28. CASE ExitRead
  BY <1>28 DEF ExitRead, ExitNext
<1>29. CASE UNCHANGED vars
  BY <1>29 DEF vars
<1> QED
  BY <1>1, <1>2, <1>3, <1>4, <1>5, <1>6, <1>7, <1>8, <1>9, <1>10, <1>11, <1>12, <1>13,
     <1>14, <1>15, <1>16, <1>17, <1>18, <1>19, <1>20, <1>21, <1>22, <1>23, <1>24, <1>25,
     <1>26, <1>27, <1>28, <1>29
     DEF Next, Call, Step

LEMMA ChirpingStep ==
  ASSUME Orderly, IInv, Chirping, [Next]_vars PROVE Chirping'
<1> USE  DEF opVars, deviceVars, fileVars, logVars, chirpVars, watchVars, At, CanCall,
         Undisturbed, Orderly, IInv, Phase, Chirping, ChirpsBelongToTake, ChirpEligible,
         TypeOK, OpTypeOK, DeviceTypeOK, FileTypeOK, ChirpTypeOK, Ops, States
<1>1. ASSUME NEW s \in Streams, Add(s) PROVE Chirping'
  BY <1>1 DEF Add
<1>2. ASSUME NEW s \in Streams, Remove(s) PROVE Chirping'
  BY <1>2 DEF Remove
<1>3. CASE SetChirpMode
  BY <1>3 DEF SetChirpMode
<1>4. CASE ConnectBegin
  BY <1>4 DEF ConnectBegin
<1>5. CASE StartExplicit
  BY <1>5 DEF StartExplicit
<1>6. CASE StartOneShot
  BY <1>6 DEF StartOneShot
<1>7. CASE StopBegin
  BY <1>7 DEF StopBegin
<1>8. CASE CancelBegin
  BY <1>8 DEF CancelBegin
<1>9. CASE Disconnect
  BY <1>9 DEF Disconnect, CloseDevices, CloseLog, StatusAfterDisconnect
<1>10. CASE ConnectDevices
  BY <1>10 DEF ConnectDevices, Failing, CloseLog
<1>11. CASE StartValidate
  BY <1>11 DEF StartValidate
<1>12. CASE StartAwait
  BY <1>12 DEF StartAwait
<1>13. CASE StartAwaitFails
  BY <1>13 DEF StartAwaitFails, ReturnFromStart, CloseDevices
<1>14. CASE StartArm
  BY <1>14 DEF StartArm
<1>15. CASE StartOpenWriters
  BY <1>15 DEF StartOpenWriters, TruncatedRows, FreshSyncPoint
<1>16. ASSUME NEW s \in Streams, FanOut(s) PROVE Chirping'
  BY <1>16 DEF FanOut
<1>17. CASE StartRollback
  BY <1>17 DEF StartRollback, ReturnFromStart, CloseDevices, CloseSampleWriters, NoWriters,
         Failing, AllStarted, CloseLog
<1>18. CASE StartChirp
  BY <1>18 DEF StartChirp, AllStarted, ChirpEligible
<1>19. CASE Distribute
  BY <1>19 DEF Distribute
<1>20. CASE DistributeRollback
  BY <1>20 DEF DistributeRollback, ReturnFromStart, CloseDevices, CloseSampleWriters,
         NoWriters, Failing, AllStarted, CloseLog
<1>21. CASE StopChirp
  BY <1>21 DEF StopChirp, ChirpEligible
<1>22. ASSUME NEW s \in Streams, FinalizeStream(s) PROVE Chirping'
  BY <1>22 DEF FinalizeStream
<1>23. CASE StopPersist
  BY <1>23 DEF StopPersist, CloseSampleWriters, NoWriters, AllHandled, StopWatching
<1>24. CASE StopLand
  BY <1>24 DEF StopLand, CloseLog, CloseDevices, PrepareNextEpisode
<1>25. ASSUME NEW s \in Streams, CancelStream(s) PROVE Chirping'
  BY <1>25 DEF CancelStream
<1>26. CASE CancelLand
  BY <1>26 DEF CancelLand, CloseLog, CloseSampleWriters, NoWriters, PrepareNextEpisode,
         AllHandled
<1>27. ASSUME NEW s \in Streams, Sample(s) PROVE Chirping'
  BY <1>27 DEF Sample
<1>28. CASE ExitRead
  BY <1>28 DEF ExitRead, ExitNext
<1>29. CASE UNCHANGED vars
  BY <1>29 DEF vars
<1> QED
  BY <1>1, <1>2, <1>3, <1>4, <1>5, <1>6, <1>7, <1>8, <1>9, <1>10, <1>11, <1>12, <1>13,
     <1>14, <1>15, <1>16, <1>17, <1>18, <1>19, <1>20, <1>21, <1>22, <1>23, <1>24, <1>25,
     <1>26, <1>27, <1>28, <1>29
     DEF Next, Call, Step

LEMMA ExitingStep ==
  ASSUME Orderly, IInv, Standing, Tracking, Exiting, [Next]_vars PROVE Exiting'
<1> USE  DEF opVars, deviceVars, fileVars, logVars, chirpVars, watchVars, At, CanCall,
         Undisturbed, Orderly, IInv, Phase, Standing, NeverStranded, Tracking, Exiting,
         ExitReleasesDevices, TypeOK, OpTypeOK, DeviceTypeOK, FileTypeOK, ChirpTypeOK, Ops,
         States
<1>1. ASSUME NEW s \in Streams, Add(s) PROVE Exiting'
  BY <1>1 DEF Add
<1>2. ASSUME NEW s \in Streams, Remove(s) PROVE Exiting'
  BY <1>2 DEF Remove
<1>3. CASE SetChirpMode
  BY <1>3 DEF SetChirpMode
<1>4. CASE ConnectBegin
  BY <1>4 DEF ConnectBegin
<1>5. CASE StartExplicit
  BY <1>5 DEF StartExplicit
<1>6. CASE StartOneShot
  BY <1>6 DEF StartOneShot
<1>7. CASE StopBegin
  BY <1>7 DEF StopBegin
<1>8. CASE CancelBegin
  BY <1>8 DEF CancelBegin
<1>9. CASE Disconnect
  BY <1>9 DEF Disconnect, CloseDevices, CloseLog, StatusAfterDisconnect
<1>10. CASE ConnectDevices
  BY <1>10 DEF ConnectDevices, Failing, CloseLog
<1>11. CASE StartValidate
  BY <1>11 DEF StartValidate
<1>12. CASE StartAwait
  BY <1>12 DEF StartAwait
<1>13. CASE StartAwaitFails
  BY <1>13 DEF StartAwaitFails, ReturnFromStart, CloseDevices
<1>14. CASE StartArm
  BY <1>14 DEF StartArm
<1>15. CASE StartOpenWriters
  BY <1>15 DEF StartOpenWriters, TruncatedRows, FreshSyncPoint
<1>16. ASSUME NEW s \in Streams, FanOut(s) PROVE Exiting'
  BY <1>16 DEF FanOut
<1>17. CASE StartRollback
  BY <1>17 DEF StartRollback, ReturnFromStart, CloseDevices, CloseSampleWriters, NoWriters,
         Failing, AllStarted, CloseLog
<1>18. CASE StartChirp
  BY <1>18 DEF StartChirp, AllStarted, ChirpEligible
<1>19. CASE Distribute
  BY <1>19 DEF Distribute
<1>20. CASE DistributeRollback
  BY <1>20 DEF DistributeRollback, ReturnFromStart, CloseDevices, CloseSampleWriters,
         NoWriters, Failing, AllStarted, CloseLog
<1>21. CASE StopChirp
  BY <1>21 DEF StopChirp, ChirpEligible
<1>22. ASSUME NEW s \in Streams, FinalizeStream(s) PROVE Exiting'
  BY <1>22 DEF FinalizeStream
<1>23. CASE StopPersist
  BY <1>23 DEF StopPersist, CloseSampleWriters, NoWriters, AllHandled, StopWatching
<1>24. CASE StopLand
  BY <1>24 DEF StopLand, CloseLog, CloseDevices, PrepareNextEpisode
<1>25. ASSUME NEW s \in Streams, CancelStream(s) PROVE Exiting'
  BY <1>25 DEF CancelStream
<1>26. CASE CancelLand
  BY <1>26 DEF CancelLand, CloseLog, CloseSampleWriters, NoWriters, PrepareNextEpisode,
         AllHandled
<1>27. ASSUME NEW s \in Streams, Sample(s) PROVE Exiting'
  BY <1>27 DEF Sample
<1>28. CASE ExitRead
  BY <1>28 DEF ExitRead, ExitNext
<1>29. CASE UNCHANGED vars
  BY <1>29 DEF vars
<1> QED
  BY <1>1, <1>2, <1>3, <1>4, <1>5, <1>6, <1>7, <1>8, <1>9, <1>10, <1>11, <1>12, <1>13,
     <1>14, <1>15, <1>16, <1>17, <1>18, <1>19, <1>20, <1>21, <1>22, <1>23, <1>24, <1>25,
     <1>26, <1>27, <1>28, <1>29
     DEF Next, Call, Step

LEMMA AttemptStep ==
  ASSUME Steady, IInv, Attempt, [Next]_vars PROVE Attempt'
<1> USE  DEF opVars, deviceVars, fileVars, logVars, chirpVars, watchVars, At, CanCall,
         Steady, IInv, Phase, Writers, Publishing, Attempt, SealedTakeIsOneTake, HasAudio,
         Capturing, Row, SyncPointFile, TypeOK, OpTypeOK, DeviceTypeOK, FileTypeOK,
         ChirpTypeOK, Ops, States
<1>1. ASSUME NEW s \in Streams, Add(s) PROVE Attempt'
  BY <1>1 DEF Add
<1>2. ASSUME NEW s \in Streams, Remove(s) PROVE Attempt'
  BY <1>2 DEF Remove
<1>3. CASE SetChirpMode
  BY <1>3 DEF SetChirpMode
<1>4. CASE ConnectBegin
  BY <1>4 DEF ConnectBegin
<1>5. CASE StartExplicit
  BY <1>5 DEF StartExplicit
<1>6. CASE StartOneShot
  BY <1>6 DEF StartOneShot
<1>7. CASE StopBegin
  BY <1>7 DEF StopBegin
<1>8. CASE CancelBegin
  BY <1>8 DEF CancelBegin
<1>9. CASE Disconnect
  BY <1>9 DEF Disconnect, CloseDevices, CloseLog, StatusAfterDisconnect
<1>10. CASE ConnectDevices
  BY <1>10 DEF ConnectDevices, Failing, CloseLog
<1>11. CASE StartValidate
  BY <1>11 DEF StartValidate
<1>12. CASE StartAwait
  BY <1>12 DEF StartAwait
<1>13. CASE StartAwaitFails
  BY <1>13 DEF StartAwaitFails, ReturnFromStart, CloseDevices
<1>14. CASE StartArm
  BY <1>14 DEF StartArm
<1>15. CASE StartOpenWriters
  BY <1>15 DEF StartOpenWriters, TruncatedRows, FreshSyncPoint
<1>16. ASSUME NEW s \in Streams, FanOut(s) PROVE Attempt'
  BY <1>16 DEF FanOut
<1>17. CASE StartRollback
  BY <1>17 DEF StartRollback, ReturnFromStart, CloseDevices, CloseSampleWriters, NoWriters,
         Failing, AllStarted, CloseLog
<1>18. CASE StartChirp
  BY <1>18 DEF StartChirp, AllStarted, ChirpEligible
<1>19. CASE Distribute
  BY <1>19 DEF Distribute
<1>20. CASE DistributeRollback
  BY <1>20 DEF DistributeRollback, ReturnFromStart, CloseDevices, CloseSampleWriters,
         NoWriters, Failing, AllStarted, CloseLog
<1>21. CASE StopChirp
  BY <1>21 DEF StopChirp, ChirpEligible
<1>22. ASSUME NEW s \in Streams, FinalizeStream(s) PROVE Attempt'
  BY <1>22 DEF FinalizeStream
<1>23. CASE StopPersist
  BY <1>23 DEF StopPersist, CloseSampleWriters, NoWriters, AllHandled, StopWatching
<1>24. CASE StopLand
  BY <1>24 DEF StopLand, CloseLog, CloseDevices, PrepareNextEpisode
<1>25. ASSUME NEW s \in Streams, CancelStream(s) PROVE Attempt'
  BY <1>25 DEF CancelStream
<1>26. CASE CancelLand
  BY <1>26 DEF CancelLand, CloseLog, CloseSampleWriters, NoWriters, PrepareNextEpisode,
         AllHandled
<1>27. ASSUME NEW s \in Streams, Sample(s) PROVE Attempt'
  BY <1>27 DEF Sample
<1>28. CASE ExitRead
  BY <1>28 DEF ExitRead, ExitNext
<1>29. CASE UNCHANGED vars
  BY <1>29 DEF vars
<1> QED
  BY <1>1, <1>2, <1>3, <1>4, <1>5, <1>6, <1>7, <1>8, <1>9, <1>10, <1>11, <1>12, <1>13,
     <1>14, <1>15, <1>16, <1>17, <1>18, <1>19, <1>20, <1>21, <1>22, <1>23, <1>24, <1>25,
     <1>26, <1>27, <1>28, <1>29
     DEF Next, Call, Step

LEMMA ListedStep ==
  ASSUME IInv, Listed, [Next]_vars PROVE Listed'
<1> USE  DEF opVars, deviceVars, fileVars, logVars, chirpVars, watchVars, At, CanCall, IInv,
         TypeOK, DeviceTypeOK, Phase, Listed
<1>1. ASSUME NEW s \in Streams, Add(s) PROVE Listed'
  BY <1>1 DEF Add
<1>2. ASSUME NEW s \in Streams, Remove(s) PROVE Listed'
  BY <1>2 DEF Remove
<1>3. CASE SetChirpMode
  BY <1>3 DEF SetChirpMode
<1>4. CASE ConnectBegin
  BY <1>4 DEF ConnectBegin
<1>5. CASE StartExplicit
  BY <1>5 DEF StartExplicit
<1>6. CASE StartOneShot
  BY <1>6 DEF StartOneShot
<1>7. CASE StopBegin
  BY <1>7 DEF StopBegin
<1>8. CASE CancelBegin
  BY <1>8 DEF CancelBegin
<1>9. CASE Disconnect
  BY <1>9 DEF Disconnect, CloseDevices, CloseLog, StatusAfterDisconnect
<1>10. CASE ConnectDevices
  BY <1>10 DEF ConnectDevices, Failing, CloseLog
<1>11. CASE StartValidate
  BY <1>11 DEF StartValidate
<1>12. CASE StartAwait
  BY <1>12 DEF StartAwait
<1>13. CASE StartAwaitFails
  BY <1>13 DEF StartAwaitFails, ReturnFromStart, CloseDevices
<1>14. CASE StartArm
  BY <1>14 DEF StartArm
<1>15. CASE StartOpenWriters
  BY <1>15 DEF StartOpenWriters, TruncatedRows, FreshSyncPoint
<1>16. ASSUME NEW s \in Streams, FanOut(s) PROVE Listed'
  BY <1>16 DEF FanOut
<1>17. CASE StartRollback
  BY <1>17 DEF StartRollback, ReturnFromStart, CloseDevices, CloseSampleWriters, NoWriters,
         Failing, AllStarted, CloseLog
<1>18. CASE StartChirp
  BY <1>18 DEF StartChirp, AllStarted, ChirpEligible
<1>19. CASE Distribute
  BY <1>19 DEF Distribute
<1>20. CASE DistributeRollback
  BY <1>20 DEF DistributeRollback, ReturnFromStart, CloseDevices, CloseSampleWriters,
         NoWriters, Failing, AllStarted, CloseLog
<1>21. CASE StopChirp
  BY <1>21 DEF StopChirp, ChirpEligible
<1>22. ASSUME NEW s \in Streams, FinalizeStream(s) PROVE Listed'
  BY <1>22 DEF FinalizeStream
<1>23. CASE StopPersist
  BY <1>23 DEF StopPersist, CloseSampleWriters, NoWriters, AllHandled, StopWatching
<1>24. CASE StopLand
  BY <1>24 DEF StopLand, CloseLog, CloseDevices, PrepareNextEpisode
<1>25. ASSUME NEW s \in Streams, CancelStream(s) PROVE Listed'
  BY <1>25 DEF CancelStream
<1>26. CASE CancelLand
  BY <1>26 DEF CancelLand, CloseLog, CloseSampleWriters, NoWriters, PrepareNextEpisode,
         AllHandled
<1>27. ASSUME NEW s \in Streams, Sample(s) PROVE Listed'
  BY <1>27 DEF Sample
<1>28. CASE ExitRead
  BY <1>28 DEF ExitRead, ExitNext
<1>29. CASE UNCHANGED vars
  BY <1>29 DEF vars
<1> QED
  BY <1>1, <1>2, <1>3, <1>4, <1>5, <1>6, <1>7, <1>8, <1>9, <1>10, <1>11, <1>12, <1>13,
     <1>14, <1>15, <1>16, <1>17, <1>18, <1>19, <1>20, <1>21, <1>22, <1>23, <1>24, <1>25,
     <1>26, <1>27, <1>28, <1>29
     DEF Next, Call, Step

\* A chirp is played by StartChirp, by StopChirp, or by nobody.
LEMMA ChirpPlayed ==
  ASSUME IInv, Ending, [Next]_vars,
         chirpStart' \notin {0, chirpStart} \/ chirpStop' \notin {0, chirpStop}
  PROVE  connected \subseteq armed /\ \A s \in connected : writer[s] = episode
<1> USE DEF opVars, deviceVars, fileVars, logVars, chirpVars, watchVars, At
<1>1. CASE StartChirp
  <2>1. \A s \in connected : s \in Streams
    BY DEF IInv, TypeOK, DeviceTypeOK
  <2> QED
    BY <1>1, <2>1 DEF StartChirp, AllStarted, IInv, Writers, Arming
<1>2. CASE StopChirp
  BY <1>2 DEF StopChirp, Ending
<1>3. CASE UNCHANGED <<chirpStart, chirpStop>> \/ (chirpStart' = 0 /\ chirpStop' = 0)
  BY <1>3
<1> QED
  BY <1>1, <1>2, <1>3
     DEF Next, Call, Step, vars, Add, Remove, SetChirpMode, ConnectBegin, StartExplicit,
         StartOneShot, StopBegin, CancelBegin, Disconnect, ConnectDevices, StartValidate,
         StartAwait, StartAwaitFails, StartArm, StartOpenWriters, FanOut, StartRollback,
         Distribute, DistributeRollback, FinalizeStream, StopPersist, StopLand, CancelStream,
         CancelLand, Sample, ExitRead

\* Each chirp is played while every connected stream is recording to disk, whatever fails
\* (orchestrator.py: the order of the steps of start() and stop()).
THEOREM ChirpsAreInside == Spec => ChirpsInsideTheTake
<1>1. IInv /\ Ending /\ [Next]_vars => (IInv /\ Ending)'
  BY InvStep, EndingStep
<1>2. Init => IInv /\ Ending
  BY InvInit, BooksInit
<1>3. IInv /\ Ending /\ [Next]_vars =>
        [(chirpStart' \notin {0, chirpStart} \/ chirpStop' \notin {0, chirpStop}) =>
           connected \subseteq armed /\ \A s \in connected : writer[s] = episode]_vars
  BY ChirpPlayed
<1> QED
  BY <1>1, <1>2, <1>3, PTL DEF Spec, ChirpsInsideTheTake

\* However calls and failing streams follow each other, every method ends where another one
\* can be called (orchestrator.py: the rollbacks of start(), stop(), cancel()).
THEOREM MethodsEndSomewhere == ASSUME Undisturbed PROVE Spec => []NeverStranded
<1>1. IInv /\ Standing /\ [Next]_vars => (IInv /\ Standing)'
  BY InvStep, StandingStep
<1>2. Init => IInv /\ Standing
  BY InvInit, BooksInit
<1>3. Standing => NeverStranded
  BY DEF Standing
<1> QED
  BY <1>1, <1>2, <1>3, PTL DEF Spec

\* The gate, the health worker, the statuses, the list of devices, last_episode_dir and the
\* chirps agree with what happened, and the exit hook closes every device, on a host of any
\* role that keeps to Orderly.
THEOREM BooksStayTrue == ASSUME Orderly PROVE Spec => []BooksAgree
<1> DEFINE Books == IInv /\ Standing /\ Tracking /\ Chirping /\ Exiting
<1>1. Books /\ [Next]_vars => Books'
  BY InvStep, StandingStep, TrackingStep, ChirpingStep, ExitingStep DEF Orderly
<1>2. Init => Books
  BY InvInit, BooksInit
<1>3. Books => BooksAgree
  BY DEF Tracking, Chirping, Exiting, Standing, NeverStranded, BooksAgree, GateFollowsRecording,
         StatusTellsTheDevice, DevicesTracked, AtRest
<1> QED
  BY <1>1, <1>2, <1>3, PTL DEF Spec

\* Every published take is of one attempt, whatever failed before it, and in a cluster it has
\* an audio stream, as long as no stream is removed or fails to connect between attempts.
THEOREM PublishedTakesAreWhole == ASSUME Steady PROVE Spec => []TakesAreWhole
<1>1. IInv /\ Attempt /\ [Next]_vars => (IInv /\ Attempt)'
  BY InvStep, AttemptStep
<1>2. Init => IInv /\ Attempt
  BY InvInit, BooksInit
<1>3. IInv /\ Attempt => TakesAreWhole
  BY DEF Attempt, TakesAreWhole, AudioInEveryTake, HasAudio
<1> QED
  BY <1>1, <1>2, <1>3, PTL DEF Spec

\* A step that ends a one-shot call closes the devices.
LEMMA TearDownStep ==
  ASSUME Undisturbed, IInv, Standing, Listed, [Next]_vars,
         op \notin {"none", "connect", "validate", "cancel"}, auto, op' = "none",
         state' # "recording"
  PROVE  state' \in {"idle", "stopped"} /\ dev' \intersect registered = {}
<1> USE DEF opVars, deviceVars, fileVars, logVars, chirpVars, watchVars, At, CanCall, IInv,
            Phase, Standing, NeverStranded, Undisturbed, Listed
<1>1. CASE ConnectDevices
  BY <1>1 DEF ConnectDevices, Failing
<1>2. CASE StartAwaitFails
  BY <1>2 DEF StartAwaitFails, ReturnFromStart, CloseDevices
<1>3. CASE StartRollback
  BY <1>3 DEF StartRollback, ReturnFromStart, CloseDevices
<1>4. CASE DistributeRollback
  BY <1>4 DEF DistributeRollback, ReturnFromStart, CloseDevices
<1>5. CASE StopLand
  BY <1>5 DEF StopLand, CloseDevices
<1>6. CASE StartArm
  BY <1>6 DEF StartArm
<1>7. CASE StartOpenWriters
  BY <1>7 DEF StartOpenWriters
<1>8. CASE StartChirp \/ StopChirp \/ StopPersist \/ Distribute
  BY <1>8 DEF StartChirp, StopChirp, StopPersist, Distribute
<1>9. CASE ExitRead
  BY <1>9 DEF ExitRead
<1>10. CASE op' = op
  BY <1>10
<1>11. CASE CancelLand \/ StartValidate
  BY <1>11 DEF CancelLand, StartValidate
<1> QED
  BY <1>1, <1>2, <1>3, <1>4, <1>5, <1>6, <1>7, <1>8, <1>9, <1>10, <1>11
     DEF Next, Call, Step, vars, Add, Remove, SetChirpMode, ConnectBegin, StartExplicit,
         StartOneShot, StopBegin, CancelBegin, Disconnect, StartAwait, FanOut, FinalizeStream,
         CancelStream, Sample

\* A start() or stop() of an auto-connected session that ends outside RECORDING, with an
\* error or without, leaves it IDLE or STOPPED and the device of every stream closed.
THEOREM OneShotsTearDown == ASSUME Undisturbed PROVE Spec => OneShotTearsDown
<1>1. IInv /\ Standing /\ Listed /\ [Next]_vars => (IInv /\ Standing /\ Listed)'
  BY InvStep, StandingStep, ListedStep
<1>2. Init => IInv /\ Standing /\ Listed
  BY InvInit, BooksInit
<1>3. IInv /\ Standing /\ Listed /\ [Next]_vars =>
        [op \notin {"none", "connect", "validate", "cancel"} /\ auto
           /\ op' = "none" /\ state' # "recording" =>
           state' \in {"idle", "stopped"} /\ dev' \intersect registered = {}]_vars
  BY TearDownStep
<1> QED
  BY <1>1, <1>2, <1>3, PTL DEF Spec, OneShotTearsDown
=============================================================================
