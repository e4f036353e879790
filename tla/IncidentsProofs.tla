----------------------------- MODULE IncidentsProofs -----------------------------
(***************************************************************************)
(* Proofs about Incidents, for every detector, threshold, bound on the      *)
(* queues, and any number of connects, recordings and segments.             *)
(*                                                                          *)
(* That a sealed log shows no incident open rests on who can still write to *)
(* it: a worker that was told to end is joined before the open incidents    *)
(* are closed, and none runs while the logs are switched (Joined); and on   *)
(* what a line in the log is about: as long as there is a log, an incident  *)
(* it shows open is open (Written).  What the detectors remember plays no   *)
(* part: any of them may speak at any turn of the worker.                   *)
(***************************************************************************)
EXTENDS Incidents, TLAPS

\* The session's calls and the worker it holds.
Joined ==
  /\ worker \in {"none", "dead"} <=> pc = "off"
  /\ worker \in {"none", "running", "stopping", "dead"}
  /\ worker \in {"stopping", "dead"} => step \in {"stop", "rotate", "disconnect"}
  /\ pc = "last" => worker = "stopping"
  /\ step = "switch" => worker = "none"
  /\ phase = "recording" \/ step = "start" => log = "open"
  /\ step \in {"stop", "rotate", "switch"} => phase = "recording"
  /\ step = "start" => phase = "connected"

\* What the log shows open is open, and nothing is when it is about to be sealed.
Written ==
  /\ incident \in Ages /\ hanging \in BOOLEAN
  /\ log = "open" /\ hanging => incident # Never
  /\ step = "switch" => ~hanging
  /\ SealedLogsBalance

IInv == Joined /\ Written

-----------------------------------------------------------------------------
LEMMA AgesFacts ==
  /\ 0 \in Ages /\ Never \in Ages /\ 0 # Never
  /\ \A age \in Ages : Older(age) \in Ages /\ (age # Never => Older(age) # Never)
<1>1. 0 \in Ages /\ Never \in Ages /\ 0 # Never
  BY Assumption DEF Ages, Never
<1>2. ASSUME NEW age \in Ages PROVE Older(age) \in Ages /\ (age # Never => Older(age) # Never)
  BY <1>2 DEF Ages, Older, Never
<1> QED
  BY <1>1, <1>2

LEMMA IncidentsInit == Init => IInv
<1> SUFFICES ASSUME Init PROVE IInv
  OBVIOUS
<1> QED
  BY AgesFacts DEF Init, IInv, Joined, Written, SealedLogsBalance

LEMMA JoinedStep ==
  ASSUME Joined, [Next]_vars PROVE Joined'
<1> USE  DEF session, thread, inbox, tracker, history, Joined
<1>1. CASE Connect
  BY <1>1 DEF Connect, StartWorker
<1>2. CASE Connecting
  BY <1>2 DEF Connecting
<1>3. CASE Connected
  BY <1>3 DEF Connected
<1>4. CASE Start
  BY <1>4 DEF Start
<1>5. CASE Recording
  BY <1>5 DEF Recording, StartWorker
<1>6. CASE Stop
  BY <1>6 DEF Stop, StopWorker
<1>7. CASE Rotate
  BY <1>7 DEF Rotate, StopWorker
<1>8. CASE Disconnect
  BY <1>8 DEF Disconnect, StopWorker
<1>9. CASE Stopped
  BY <1>9 DEF Stopped, CloseAll, Persist, Sealed, Ended
<1>10. CASE Rotated
  BY <1>10 DEF Rotated, CloseAll, Persist, Ended
<1>11. CASE SwitchLogs
  BY <1>11 DEF SwitchLogs, Sealed, StartWorker
<1>12. CASE Disconnected
  BY <1>12 DEF Disconnected, Ended
<1>13. CASE Cancel
  BY <1>13 DEF Cancel
<1>14. CASE Sample
  BY <1>14 DEF Sample
<1>15. CASE Stalls
  BY <1>15 DEF Stalls
<1>16. CASE Resumes
  BY <1>16 DEF Resumes
<1>17. CASE AdapterReports
  BY <1>17 DEF AdapterReports
<1>18. CASE TimePasses
  BY <1>18 DEF TimePasses
<1>19. CASE Drain
  <2>1. UNCHANGED <<phase, step, log>>
    BY <1>19, Zenon DEF Drain
  <2>2. \/ pc = "last" /\ worker' = "dead" /\ pc' = "off"
        \/ pc = "drain" /\ pc' = "fire" /\ UNCHANGED worker
    BY <1>19, Zenon DEF Drain
  <2> QED
    BY <2>1, <2>2
<1>20. CASE Fire
  BY <1>20 DEF Fire, Persist
<1>21. CASE Track
  BY <1>21 DEF Track, Persist
<1>22. CASE UNCHANGED vars
  BY <1>22 DEF vars
<1> QED
  BY <1>1, <1>2, <1>3, <1>4, <1>5, <1>6, <1>7, <1>8, <1>9, <1>10, <1>11, <1>12, <1>13,
     <1>14, <1>15, <1>16, <1>17, <1>18, <1>19, <1>20, <1>21, <1>22
     DEF Next, SessionCall, SessionStep, WorkerStep

LEMMA WrittenStep ==
  ASSUME Joined, Written, [Next]_vars PROVE Written'
<1> USE AgesFacts DEF session, thread, inbox, tracker, history, Joined, Written,
         SealedLogsBalance, SealedLogsBalance
<1>1. CASE Connect
  BY <1>1 DEF Connect, StartWorker
<1>2. CASE Connecting
  BY <1>2 DEF Connecting
<1>3. CASE Connected
  BY <1>3 DEF Connected
<1>4. CASE Start
  BY <1>4 DEF Start
<1>5. CASE Recording
  BY <1>5 DEF Recording, StartWorker
<1>6. CASE Stop
  BY <1>6 DEF Stop, StopWorker
<1>7. CASE Rotate
  BY <1>7 DEF Rotate, StopWorker
<1>8. CASE Disconnect
  BY <1>8 DEF Disconnect, StopWorker
<1>9. CASE Stopped
  BY <1>9 DEF Stopped, CloseAll, Persist, Sealed, Ended
<1>10. CASE Rotated
  BY <1>10 DEF Rotated, CloseAll, Persist, Ended
<1>11. CASE SwitchLogs
  BY <1>11 DEF SwitchLogs, Sealed, StartWorker
<1>12. CASE Disconnected
  BY <1>12 DEF Disconnected, Ended
<1>13. CASE Cancel
  BY <1>13 DEF Cancel
<1>14. CASE Sample
  BY <1>14 DEF Sample
<1>15. CASE Stalls
  BY <1>15 DEF Stalls
<1>16. CASE Resumes
  BY <1>16 DEF Resumes
<1>17. CASE AdapterReports
  BY <1>17 DEF AdapterReports
<1>18. CASE TimePasses
  BY <1>18 DEF TimePasses
<1>19. CASE Drain
  <2>1. UNCHANGED <<step, log, unbalanced>> /\ pc # "off"
    BY <1>19, Zenon DEF Drain
  <2>2. step # "switch"
    BY <2>1
  <2>3. CASE UNCHANGED tracker
    BY <2>1, <2>2, <2>3
  <2>4. CASE incident' = 0 /\ hanging' = IF log = "open" THEN TRUE ELSE hanging
    <3>1. hanging' \in BOOLEAN
      BY <2>4, Zenon
    <3> QED
      BY <2>1, <2>2, <2>4, <3>1
  <2> QED
    BY <1>19, <2>3, <2>4, Zenon DEF Drain, Persist
<1>20. CASE Fire
  <2>1. UNCHANGED <<step, log, unbalanced>> /\ pc # "off"
    BY <1>20, Zenon DEF Fire
  <2>2. step # "switch"
    BY <2>1
  <2>3. CASE UNCHANGED tracker
    BY <2>1, <2>2, <2>3
  <2>4. CASE incident' = 0 /\ hanging' = IF log = "open" THEN TRUE ELSE hanging
    <3>1. hanging' \in BOOLEAN
      BY <2>4, Zenon
    <3> QED
      BY <2>1, <2>2, <2>4, <3>1
  <2> QED
    BY <1>20, <2>3, <2>4, Zenon DEF Fire, Persist
<1>21. CASE Track
  <2>1. UNCHANGED <<step, log, unbalanced>> /\ pc # "off"
    BY <1>21, Zenon DEF Track
  <2>2. step # "switch"
    BY <2>1
  <2>3. CASE UNCHANGED tracker
    BY <2>1, <2>2, <2>3
  <2>4. CASE incident' = Never /\ hanging' = IF log = "open" THEN FALSE ELSE hanging
    <3>1. hanging' \in BOOLEAN /\ (log = "open" => ~hanging')
      BY <2>4, Zenon
    <3> QED
      BY <2>1, <2>2, <2>4, <3>1
  <2> QED
    BY <1>21, <2>3, <2>4, Zenon DEF Track, Persist
<1>22. CASE UNCHANGED vars
  BY <1>22 DEF vars
<1> QED
  BY <1>1, <1>2, <1>3, <1>4, <1>5, <1>6, <1>7, <1>8, <1>9, <1>10, <1>11, <1>12, <1>13,
     <1>14, <1>15, <1>16, <1>17, <1>18, <1>19, <1>20, <1>21, <1>22
     DEF Next, SessionCall, SessionStep, WorkerStep

-----------------------------------------------------------------------------
\* The inductive invariant: the worker is joined before its incidents are closed, and
\* the log shows open what is open (health/system.py: stop; orchestrator.py).
THEOREM IncidentsInvariance == Spec => []IInv
<1>1. IInv /\ [Next]_vars => IInv'
  BY JoinedStep, WrittenStep DEF IInv
<1> QED
  BY <1>1, IncidentsInit, PTL DEF Spec

\* No log is sealed, by stop() or by a rotation, that shows an incident still open
\* (orchestrator.py: "Close open incidents into the sealed log before switching").
THEOREM SealedLogsAreBalanced == Spec => []SealedLogsBalance
  BY IncidentsInvariance, PTL DEF IInv, Written
=============================================================================
