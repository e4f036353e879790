--------------------------- MODULE SupervisionProofs ---------------------------
(***************************************************************************)
(* Proofs about Supervision, for every set of streams, every policy, every  *)
(* fault, and any number of connect cycles and losses.                      *)
(*                                                                          *)
(* That a drop is never forgotten is a matter of where its request is: on   *)
(* its way to the queue, in the queue, or with a worker that has taken it   *)
(* (Queueing, Working).  The bound on the attempts compares two counters:   *)
(* the history never gets ahead of _StreamRec.attempts, and only a record   *)
(* that was CONNECTED or STALLED has it reset by a report (Counting).       *)
(* Teardown rests on who is left: no worker of an earlier cycle is alive,   *)
(* and the session's list holds every device (Leftover, Listed).            *)
(***************************************************************************)
EXTENDS Supervision, SequenceTheorems, TLAPS

\* TypeOK in three parts: the session and its devices, the records, the threads.
SessionTypes ==
  /\ phase \in {"idle", "connected", "countdown", "recording", "stopping"}
  /\ op \in {"none", "record", "gate", "finalize", "ungate", "join", "close"}
  /\ auto \in BOOLEAN /\ gate \in BOOLEAN /\ conn \subseteq Streams
  /\ dev \in [Streams -> {"closed", "live", "dead"}] /\ armed \subseteq Streams
RecTypes ==
  /\ st \in [Streams -> States] /\ attempts \in [Streams -> 0..MaxAttempts]
  /\ inFlight \in [Streams -> BOOLEAN] /\ due \in [Streams -> {"none", "waiting", "ripe"}]
  /\ quiet \subseteq Streams /\ tries \in [Streams -> Nat]
  /\ report \in [Streams -> {"none", "raised", "checked"}] /\ losses \in Nat
Crew == [pc : Pcs, job : Streams \union {Stop}]
ThreadTypes ==
  /\ stopFlag \in BOOLEAN /\ queue \in Seq(Streams \union {Stop})
  /\ monitor \in {"none", "wait", "tick", "enqueue", "done"} /\ toEnqueue \subseteq Streams
  /\ cycle \in 0..MaxCycles /\ late \in BOOLEAN
  /\ worker \in [Workers -> Crew]

\* A request that was made is on its way to the queue only between two ticks.
Queueing ==
  /\ monitor # "enqueue" => toEnqueue = {}
  /\ phase = "idle" \/ op = "close" => monitor = "none"

\* A worker reopens a stream, never the sentinel; and threads are started in order.
Working ==
  /\ \A w \in Workers :
       worker[w].pc \in {"reopen", "open", "phase", "arm", "ok", "failed"} =>
         worker[w].job \in Streams
  /\ \A w \in Workers : w > cycle => worker[w].pc = "none"

\* Without stalls that reconnect, attempts are never forgotten within an episode.
Counting ==
  ~onStall =>
    \A s \in Streams :
      /\ tries[s] <= attempts[s]
      /\ st[s] \in {"connected", "stalled"} => tries[s] = 0
      /\ report[s] = "checked" => st[s] # "reconnecting" /\ tries[s] = 0

\* Workers that were joined are done, unless a join timed out.
Leftover ==
  /\ op # "none" => phase # "idle"
  /\ ~late => \A w \in Workers : w < cycle => worker[w].pc = "done"
  /\ ~late /\ (phase = "idle" \/ op = "close") =>
       \A w \in Workers : w <= cycle => worker[w].pc = "done"

SInv == TypeOK /\ Queueing /\ Working /\ NeverForgotten /\ Counting /\ Leftover

\* When every connect succeeds, the session lists every device while it is connected,
\* and none is open when it is idle.
Listed ==
  /\ phase # "idle" => conn = Streams
  /\ phase = "idle" /\ ~late => \A s \in Streams : dev[s] = "closed"

-----------------------------------------------------------------------------
LEMMA TypeParts == TypeOK <=> SessionTypes /\ RecTypes /\ ThreadTypes
BY Zenon DEF TypeOK, SessionTypes, RecTypes, ThreadTypes, Crew

\* The flags of the records, cleared on a set of streams.
LEMMA ClearedFlags ==
  ASSUME NEW f \in [Streams -> BOOLEAN], NEW X 
  PROVE  On(f, X, FALSE) \in [Streams -> BOOLEAN]
<1>1. \A s \in Streams : (IF s \in X THEN FALSE ELSE f[s]) \in BOOLEAN
  OBVIOUS
<1> QED
  BY <1>1, Zenon DEF On

\* A recovered record keeps its type.
LEMMA RecoverTyped ==
  ASSUME RecTypes, NEW X, Recover(X)
  PROVE  /\ st' \in [Streams -> States] /\ attempts' \in [Streams -> 0..MaxAttempts]
         /\ inFlight' \in [Streams -> BOOLEAN]
         /\ due' \in [Streams -> {"none", "waiting", "ripe"}]
         /\ tries' \in [Streams -> Nat] /\ quiet' \subseteq Streams
<1>1. inFlight' \in [Streams -> BOOLEAN]
  BY ClearedFlags DEF Recover, RecTypes
<1>2. attempts' \in [Streams -> 0..MaxAttempts]
  BY PolicyAssumption DEF Recover, RecTypes, On
<1> QED
  BY <1>1, <1>2 DEF Recover, RecTypes, On, States

\* A step of a worker: its next pc, the same job, and nothing of another worker.
LEMMA GotoMoves ==
  ASSUME ThreadTypes, NEW w \in Workers, NEW p \in Pcs, Goto(w, p)
  PROVE  /\ worker' \in [Workers -> Crew]
         /\ worker'[w].pc = p /\ worker'[w].job = worker[w].job
         /\ \A v \in Workers : v # w => worker'[v] = worker[v]
BY DEF ThreadTypes, Goto, Crew

LEMMA SessionTypesStep ==
  ASSUME TypeOK, Working, [Next]_vars PROVE SessionTypes'
<1>0. SessionTypes
  BY TypeParts
<1> USE  DEF sessionVars, recVars, threadVars, deviceVars, captureVars, SessionTypes, On
<1>1. CASE Connect
  BY <1>0, <1>1 DEF Connect, At
<1>2. CASE StartArm
  BY <1>0, <1>2 DEF StartArm, At
<1>3. CASE StopBegin
  BY <1>0, <1>3 DEF StopBegin, At
<1>4. CASE Cancel
  BY <1>0, <1>4 DEF Cancel, At
<1>5. CASE Disconnect
  BY <1>0, <1>5 DEF Disconnect, At, RaiseStop
<1>6. CASE StartRecord
  BY <1>0, <1>6 DEF StartRecord, At
<1>7. CASE StartGate
  BY <1>0, <1>7 DEF StartGate, At
<1>8. CASE StopFinalize
  BY <1>0, <1>8 DEF StopFinalize, At
<1>9. CASE StopUngate
  BY <1>0, <1>9 DEF StopUngate, At, RaiseStop
<1>10. CASE Join
  BY <1>0, <1>10 DEF Join, At, JoinWorker
<1>11. CASE Close
  BY <1>0, <1>11 DEF Close, At
<1>12. CASE MonitorWait
  BY <1>0, <1>12 DEF MonitorWait
<1>13. CASE Tick
  BY <1>0, <1>13 DEF Tick, Ripe, Requests
<1>14. CASE Enqueue
  BY <1>0, <1>14 DEF Enqueue
<1>15. ASSUME NEW w \in Workers, WorkerGet(w) PROVE SessionTypes'
  BY <1>0, <1>15 DEF WorkerGet
<1>16. ASSUME NEW w \in Workers, WorkerCheck(w) PROVE SessionTypes'
  BY <1>0, <1>16 DEF WorkerCheck, Goto
<1>17. ASSUME NEW w \in Workers, WorkerClose(w) PROVE SessionTypes'
  BY <1>0, <1>17 DEF WorkerClose, Goto
<1>18. ASSUME NEW w \in Workers, WorkerOpen(w) PROVE SessionTypes'
  BY <1>0, <1>18 DEF WorkerOpen, Goto
<1>19. ASSUME NEW w \in Workers, WorkerPhase(w) PROVE SessionTypes'
  BY <1>0, <1>19 DEF WorkerPhase, Goto
<1>20. ASSUME NEW w \in Workers, WorkerArm(w) PROVE SessionTypes'
  <2>1. armed' \subseteq armed \union {worker[w].job} /\ UNCHANGED <<sessionVars, dev>>
    BY <1>20 DEF WorkerArm
  <2>2. worker[w].job \in Streams
    BY <1>20 DEF WorkerArm, Working
  <2> QED
    BY <1>0, <2>1, <2>2
<1>21. ASSUME NEW w \in Workers, WorkerOk(w) PROVE SessionTypes'
  BY <1>0, <1>21 DEF WorkerOk, Goto, Recover
<1>22. ASSUME NEW w \in Workers, WorkerFailed(w) PROVE SessionTypes'
  BY <1>0, <1>22 DEF WorkerFailed, Goto, AfterFailure
<1>23. ASSUME NEW s \in Streams, Sample(s) PROVE SessionTypes'
  BY <1>0, <1>23 DEF Sample, Recover
<1>24. ASSUME NEW s \in Streams, Die(s) PROVE SessionTypes'
  BY <1>0, <1>24 DEF Die
<1>25. ASSUME NEW s \in Streams, ReportCheck(s) PROVE SessionTypes'
  BY <1>0, <1>25 DEF ReportCheck
<1>26. ASSUME NEW s \in Streams, ReportNote(s) PROVE SessionTypes'
  BY <1>0, <1>26 DEF ReportNote, BeginReconnect
<1>27. ASSUME NEW s \in Streams, Ripen(s) PROVE SessionTypes'
  BY <1>0, <1>27 DEF Ripen
<1>28. ASSUME NEW s \in Streams, GrowQuiet(s) PROVE SessionTypes'
  BY <1>0, <1>28 DEF GrowQuiet
<1>29. CASE UNCHANGED vars
  BY <1>0, <1>29 DEF vars
<1> QED
  BY <1>1, <1>2, <1>3, <1>4, <1>5, <1>6, <1>7, <1>8, <1>9, <1>10, <1>11, <1>12, <1>13,
     <1>14, <1>15, <1>16, <1>17, <1>18, <1>19, <1>20, <1>21, <1>22, <1>23, <1>24, <1>25,
     <1>26, <1>27, <1>28, <1>29
     DEF Next, Call, CallStep, Monitor, Worker, Capture

LEMMA RecTypesStep ==
  ASSUME TypeOK, [Next]_vars PROVE RecTypes'
<1>0. RecTypes
  BY TypeParts
<1> USE PolicyAssumption DEF sessionVars, recVars, threadVars, deviceVars, captureVars,
         RecTypes, States, On
<1>1. CASE Connect
  <2>1. PICK good \in SUBSET Streams :
          /\ st' = On(On(st, Streams, "failed"), good, "connected")
          /\ attempts' = On(attempts, good, 0) /\ inFlight' = On(inFlight, good, FALSE)
          /\ due' = On(due, good, "none") /\ tries' = On(tries, good, 0)
          /\ quiet' = quiet \ good /\ UNCHANGED <<report, losses>>
    BY <1>1 DEF Connect
  <2>2. st' \in [Streams -> States] /\ due' \in [Streams -> {"none", "waiting", "ripe"}]
    BY <1>0, <2>1
  <2>3. attempts' \in [Streams -> 0..MaxAttempts] /\ tries' \in [Streams -> Nat]
    BY <1>0, <2>1
  <2>4. inFlight' \in [Streams -> BOOLEAN]
    BY <1>0, <2>1, ClearedFlags
  <2> QED
    BY <1>0, <2>1, <2>2, <2>3, <2>4
<1>2. CASE StartArm
  BY <1>0, <1>2 DEF StartArm, At
<1>3. CASE StopBegin
  BY <1>0, <1>3 DEF StopBegin, At
<1>4. CASE Cancel
  BY <1>0, <1>4 DEF Cancel, At
<1>5. CASE Disconnect
  BY <1>0, <1>5 DEF Disconnect, At, RaiseStop
<1>6. CASE StartRecord
  BY <1>0, <1>6 DEF StartRecord, At
<1>7. CASE StartGate
  BY <1>0, <1>7 DEF StartGate, At
<1>8. CASE StopFinalize
  BY <1>0, <1>8 DEF StopFinalize, At
<1>9. CASE StopUngate
  BY <1>0, <1>9 DEF StopUngate, At, RaiseStop
<1>10. CASE Join
  BY <1>0, <1>10 DEF Join, At, JoinWorker
<1>11. CASE Close
  BY <1>0, <1>11 DEF Close, At
<1>12. CASE MonitorWait
  BY <1>0, <1>12 DEF MonitorWait
<1>13. CASE Tick
  <2>1. st' \in [Streams -> States]
    BY <1>0, <1>13 DEF Tick
  <2>2. due' \in [Streams -> {"none", "waiting", "ripe"}]
    BY <1>0, <1>13 DEF Tick
  <2>3. attempts' \in [Streams -> 0..MaxAttempts]
    BY <1>0, <1>13 DEF Tick, Requests
  <2>4. tries' \in [Streams -> Nat]
    BY <1>0, <1>13 DEF Tick
  <2>5. inFlight' \in [Streams -> BOOLEAN]
    BY <1>0, <1>13 DEF Tick
  <2> QED
    BY <1>0, <1>13, <2>1, <2>2, <2>3, <2>4, <2>5 DEF Tick
<1>14. CASE Enqueue
  BY <1>0, <1>14 DEF Enqueue
<1>15. ASSUME NEW w \in Workers, WorkerGet(w) PROVE RecTypes'
  BY <1>0, <1>15 DEF WorkerGet
<1>16. ASSUME NEW w \in Workers, WorkerCheck(w) PROVE RecTypes'
  BY <1>0, <1>16 DEF WorkerCheck, Goto
<1>17. ASSUME NEW w \in Workers, WorkerClose(w) PROVE RecTypes'
  BY <1>0, <1>17 DEF WorkerClose, Goto
<1>18. ASSUME NEW w \in Workers, WorkerOpen(w) PROVE RecTypes'
  BY <1>0, <1>18 DEF WorkerOpen, Goto
<1>19. ASSUME NEW w \in Workers, WorkerPhase(w) PROVE RecTypes'
  BY <1>0, <1>19 DEF WorkerPhase, Goto
<1>20. ASSUME NEW w \in Workers, WorkerArm(w) PROVE RecTypes'
  BY <1>0, <1>20 DEF WorkerArm, Goto
<1>21. ASSUME NEW w \in Workers, WorkerOk(w) PROVE RecTypes'
  <2>1. /\ st' \in [Streams -> States] /\ attempts' \in [Streams -> 0..MaxAttempts]
        /\ inFlight' \in [Streams -> BOOLEAN]
        /\ due' \in [Streams -> {"none", "waiting", "ripe"}]
        /\ tries' \in [Streams -> Nat] /\ quiet' \subseteq Streams
    BY <1>0, <1>21, RecoverTyped DEF WorkerOk
  <2> QED
    BY <1>0, <1>21, <2>1 DEF WorkerOk
<1>22. ASSUME NEW w \in Workers, WorkerFailed(w) PROVE RecTypes'
  BY <1>0, <1>22 DEF WorkerFailed, Goto, AfterFailure
<1>23. ASSUME NEW s \in Streams, Sample(s) PROVE RecTypes'
  <2>1. CASE Recover({s})
    <3>1. /\ st' \in [Streams -> States] /\ attempts' \in [Streams -> 0..MaxAttempts]
          /\ inFlight' \in [Streams -> BOOLEAN]
          /\ due' \in [Streams -> {"none", "waiting", "ripe"}]
          /\ tries' \in [Streams -> Nat] /\ quiet' \subseteq Streams
      BY <1>0, <2>1, RecoverTyped
    <3> QED
      BY <1>0, <1>23, <3>1 DEF Sample
  <2>2. CASE quiet' = quiet \ {s} /\ UNCHANGED <<st, attempts, inFlight, due, tries>>
    BY <1>0, <1>23, <2>2 DEF Sample
  <2> QED
    BY <1>23, <2>1, <2>2 DEF Sample
<1>24. ASSUME NEW s \in Streams, Die(s) PROVE RecTypes'
  BY <1>0, <1>24 DEF Die
<1>25. ASSUME NEW s \in Streams, ReportCheck(s) PROVE RecTypes'
  BY <1>0, <1>25 DEF ReportCheck
<1>26. ASSUME NEW s \in Streams, ReportNote(s) PROVE RecTypes'
  <2>1. report' \in [Streams -> {"none", "raised", "checked"}] /\ losses' = losses
    BY <1>0, <1>26 DEF ReportNote
  <2>2. CASE BeginReconnect({s})
    <3>1. /\ st' \in [Streams -> States] /\ attempts' \in [Streams -> 0..MaxAttempts]
          /\ due' \in [Streams -> {"none", "waiting", "ripe"}] /\ UNCHANGED <<quiet, tries>>
      BY <1>0, <2>2 DEF BeginReconnect
    <3>2. inFlight' \in [Streams -> BOOLEAN]
      BY <1>0, <2>2, ClearedFlags DEF BeginReconnect
    <3> QED
      BY <1>0, <2>1, <3>1, <3>2
  <2>3. CASE /\ st' = [st EXCEPT ![s] = "failed"]
             /\ UNCHANGED <<attempts, inFlight, due, quiet, tries>>
    BY <1>0, <2>1, <2>3
  <2> QED
    BY <1>26, <2>2, <2>3 DEF ReportNote
<1>27. ASSUME NEW s \in Streams, Ripen(s) PROVE RecTypes'
  BY <1>0, <1>27 DEF Ripen
<1>28. ASSUME NEW s \in Streams, GrowQuiet(s) PROVE RecTypes'
  BY <1>0, <1>28 DEF GrowQuiet
<1>29. CASE UNCHANGED vars
  BY <1>0, <1>29 DEF vars
<1> QED
  BY <1>1, <1>2, <1>3, <1>4, <1>5, <1>6, <1>7, <1>8, <1>9, <1>10, <1>11, <1>12, <1>13,
     <1>14, <1>15, <1>16, <1>17, <1>18, <1>19, <1>20, <1>21, <1>22, <1>23, <1>24, <1>25,
     <1>26, <1>27, <1>28, <1>29
     DEF Next, Call, CallStep, Monitor, Worker, Capture

LEMMA ThreadTypesStep ==
  ASSUME TypeOK, Working, [Next]_vars PROVE ThreadTypes'
<1>0. ThreadTypes
  BY TypeParts
<1> USE BoundsAssumption DEF sessionVars, recVars, threadVars, deviceVars, captureVars,
         ThreadTypes
<1>1. CASE Connect
  <2>1. cycle + 1 \in Workers /\ cycle' = cycle + 1 /\ Goto(cycle + 1, "get")
    BY <1>0, <1>1 DEF Connect, Goto, Workers
  <2>2. worker' \in [Workers -> Crew]
    BY <1>0, <2>1, GotoMoves DEF Pcs
  <2>3. cycle' \in 0..MaxCycles
    BY <1>0, <2>1 DEF Workers
  <2> QED
    BY <1>0, <1>1, <2>2, <2>3 DEF Connect
<1>2. CASE StartArm
  BY <1>0, <1>2 DEF StartArm, At
<1>3. CASE StopBegin
  BY <1>0, <1>3 DEF StopBegin, At
<1>4. CASE Cancel
  BY <1>0, <1>4 DEF Cancel, At
<1>5. CASE Disconnect
  BY <1>0, <1>5 DEF Disconnect, At, RaiseStop
<1>6. CASE StartRecord
  BY <1>0, <1>6 DEF StartRecord, At
<1>7. CASE StartGate
  BY <1>0, <1>7 DEF StartGate, At
<1>8. CASE StopFinalize
  BY <1>0, <1>8 DEF StopFinalize, At
<1>9. CASE StopUngate
  <2>1. Append(queue, Stop) \in Seq(Streams \union {Stop})
    BY <1>0, AppendProperties
  <2>2. queue' \in Seq(Streams \union {Stop}) /\ stopFlag' \in BOOLEAN
    BY <1>0, <1>9, <2>1, Zenon DEF StopUngate, RaiseStop
  <2> QED
    BY <1>0, <1>9, <2>2 DEF StopUngate
<1>10. CASE Join
  BY <1>0, <1>10 DEF Join, At, JoinWorker
<1>11. CASE Close
  BY <1>0, <1>11 DEF Close, At
<1>12. CASE MonitorWait
  BY <1>0, <1>12 DEF MonitorWait
<1>13. CASE Tick
  BY <1>0, <1>13 DEF Tick, Ripe, Requests
<1>14. CASE Enqueue
  BY <1>0, <1>14 DEF Enqueue
<1>15. ASSUME NEW w \in Workers, WorkerGet(w) PROVE ThreadTypes'
  <2>1. Head(queue) \in Streams \union {Stop} /\ Tail(queue) \in Seq(Streams \union {Stop})
    BY <1>0, <1>15, HeadTailProperties DEF WorkerGet
  <2>2. [pc |-> "check", job |-> Head(queue)] \in Crew
    BY <2>1 DEF Crew, Pcs
  <2>3. worker' \in [Workers -> Crew]
    BY <1>0, <1>15, <2>2 DEF WorkerGet
  <2> QED
    BY <1>0, <1>15, <2>1, <2>3 DEF WorkerGet
<1>16. ASSUME NEW w \in Workers, WorkerCheck(w) PROVE ThreadTypes'
  <2>1. PICK p \in Pcs : Goto(w, p)
    BY <1>16 DEF WorkerCheck, Pcs
  <2>2. /\ worker' \in [Workers -> Crew]
        /\ worker'[w].pc = p /\ worker'[w].job = worker[w].job
        /\ \A v \in Workers : v # w => worker'[v] = worker[v]
    BY <1>0, <2>1, GotoMoves
  <2> QED
    BY <1>0, <1>16, <2>1, <2>2 DEF WorkerCheck
<1>17. ASSUME NEW w \in Workers, WorkerClose(w) PROVE ThreadTypes'
  <2>1. PICK p \in Pcs : Goto(w, p)
    BY <1>17 DEF WorkerClose, Pcs
  <2>2. /\ worker' \in [Workers -> Crew]
        /\ worker'[w].pc = p /\ worker'[w].job = worker[w].job
        /\ \A v \in Workers : v # w => worker'[v] = worker[v]
    BY <1>0, <2>1, GotoMoves
  <2> QED
    BY <1>0, <1>17, <2>1, <2>2 DEF WorkerClose
<1>18. ASSUME NEW w \in Workers, WorkerOpen(w) PROVE ThreadTypes'
  <2>1. PICK p \in Pcs : Goto(w, p)
    BY <1>18 DEF WorkerOpen, Pcs
  <2>2. /\ worker' \in [Workers -> Crew]
        /\ worker'[w].pc = p /\ worker'[w].job = worker[w].job
        /\ \A v \in Workers : v # w => worker'[v] = worker[v]
    BY <1>0, <2>1, GotoMoves
  <2> QED
    BY <1>0, <1>18, <2>1, <2>2 DEF WorkerOpen
<1>19. ASSUME NEW w \in Workers, WorkerPhase(w) PROVE ThreadTypes'
  <2>1. PICK p \in Pcs : Goto(w, p)
    BY <1>19 DEF WorkerPhase, Pcs
  <2>2. /\ worker' \in [Workers -> Crew]
        /\ worker'[w].pc = p /\ worker'[w].job = worker[w].job
        /\ \A v \in Workers : v # w => worker'[v] = worker[v]
    BY <1>0, <2>1, GotoMoves
  <2> QED
    BY <1>0, <1>19, <2>1, <2>2 DEF WorkerPhase
<1>20. ASSUME NEW w \in Workers, WorkerArm(w) PROVE ThreadTypes'
  <2>1. PICK p \in Pcs : Goto(w, p)
    BY <1>20 DEF WorkerArm, Pcs
  <2>2. /\ worker' \in [Workers -> Crew]
        /\ worker'[w].pc = p /\ worker'[w].job = worker[w].job
        /\ \A v \in Workers : v # w => worker'[v] = worker[v]
    BY <1>0, <2>1, GotoMoves
  <2> QED
    BY <1>0, <1>20, <2>1, <2>2 DEF WorkerArm
<1>21. ASSUME NEW w \in Workers, WorkerOk(w) PROVE ThreadTypes'
  <2>1. PICK p \in Pcs : Goto(w, p)
    BY <1>21 DEF WorkerOk, Pcs
  <2>2. /\ worker' \in [Workers -> Crew]
        /\ worker'[w].pc = p /\ worker'[w].job = worker[w].job
        /\ \A v \in Workers : v # w => worker'[v] = worker[v]
    BY <1>0, <2>1, GotoMoves
  <2> QED
    BY <1>0, <1>21, <2>1, <2>2 DEF WorkerOk
<1>22. ASSUME NEW w \in Workers, WorkerFailed(w) PROVE ThreadTypes'
  <2>1. PICK p \in Pcs : Goto(w, p)
    BY <1>22 DEF WorkerFailed, Pcs
  <2>2. /\ worker' \in [Workers -> Crew]
        /\ worker'[w].pc = p /\ worker'[w].job = worker[w].job
        /\ \A v \in Workers : v # w => worker'[v] = worker[v]
    BY <1>0, <2>1, GotoMoves
  <2> QED
    BY <1>0, <1>22, <2>1, <2>2 DEF WorkerFailed
<1>23. ASSUME NEW s \in Streams, Sample(s) PROVE ThreadTypes'
  BY <1>0, <1>23 DEF Sample, Recover
<1>24. ASSUME NEW s \in Streams, Die(s) PROVE ThreadTypes'
  BY <1>0, <1>24 DEF Die
<1>25. ASSUME NEW s \in Streams, ReportCheck(s) PROVE ThreadTypes'
  BY <1>0, <1>25 DEF ReportCheck
<1>26. ASSUME NEW s \in Streams, ReportNote(s) PROVE ThreadTypes'
  BY <1>0, <1>26 DEF ReportNote, BeginReconnect
<1>27. ASSUME NEW s \in Streams, Ripen(s) PROVE ThreadTypes'
  BY <1>0, <1>27 DEF Ripen
<1>28. ASSUME NEW s \in Streams, GrowQuiet(s) PROVE ThreadTypes'
  BY <1>0, <1>28 DEF GrowQuiet
<1>29. CASE UNCHANGED vars
  BY <1>0, <1>29 DEF vars
<1> QED
  BY <1>1, <1>2, <1>3, <1>4, <1>5, <1>6, <1>7, <1>8, <1>9, <1>10, <1>11, <1>12, <1>13,
     <1>14, <1>15, <1>16, <1>17, <1>18, <1>19, <1>20, <1>21, <1>22, <1>23, <1>24, <1>25,
     <1>26, <1>27, <1>28, <1>29
     DEF Next, Call, CallStep, Monitor, Worker, Capture

LEMMA QueueingStep ==
  ASSUME TypeOK, Queueing, [Next]_vars PROVE Queueing'
<1>0. SessionTypes /\ RecTypes /\ ThreadTypes
  BY TypeParts
<1> USE  DEF sessionVars, recVars, threadVars, deviceVars, captureVars, SessionTypes,
         RecTypes, ThreadTypes, Queueing
<1>1. CASE Connect
  BY <1>0, <1>1 DEF Connect, At
<1>2. CASE StartArm
  BY <1>0, <1>2 DEF StartArm, At
<1>3. CASE StopBegin
  BY <1>0, <1>3 DEF StopBegin, At
<1>4. CASE Cancel
  BY <1>0, <1>4 DEF Cancel, At
<1>5. CASE Disconnect
  BY <1>0, <1>5 DEF Disconnect, At, RaiseStop
<1>6. CASE StartRecord
  BY <1>0, <1>6 DEF StartRecord, At
<1>7. CASE StartGate
  BY <1>0, <1>7 DEF StartGate, At
<1>8. CASE StopFinalize
  BY <1>0, <1>8 DEF StopFinalize, At
<1>9. CASE StopUngate
  BY <1>0, <1>9 DEF StopUngate, At, RaiseStop
<1>10. CASE Join
  BY <1>0, <1>10 DEF Join, At, JoinWorker
<1>11. CASE Close
  BY <1>0, <1>11 DEF Close, At
<1>12. CASE MonitorWait
  BY <1>0, <1>12 DEF MonitorWait
<1>13. CASE Tick
  BY <1>0, <1>13 DEF Tick, Ripe, Requests
<1>14. CASE Enqueue
  BY <1>0, <1>14 DEF Enqueue
<1>15. ASSUME NEW w \in Workers, WorkerGet(w) PROVE Queueing'
  BY <1>0, <1>15 DEF WorkerGet
<1>16. ASSUME NEW w \in Workers, WorkerCheck(w) PROVE Queueing'
  BY <1>0, <1>16 DEF WorkerCheck, Goto
<1>17. ASSUME NEW w \in Workers, WorkerClose(w) PROVE Queueing'
  BY <1>0, <1>17 DEF WorkerClose, Goto
<1>18. ASSUME NEW w \in Workers, WorkerOpen(w) PROVE Queueing'
  BY <1>0, <1>18 DEF WorkerOpen, Goto
<1>19. ASSUME NEW w \in Workers, WorkerPhase(w) PROVE Queueing'
  BY <1>0, <1>19 DEF WorkerPhase, Goto
<1>20. ASSUME NEW w \in Workers, WorkerArm(w) PROVE Queueing'
  BY <1>0, <1>20 DEF WorkerArm, Goto
<1>21. ASSUME NEW w \in Workers, WorkerOk(w) PROVE Queueing'
  BY <1>0, <1>21 DEF WorkerOk, Goto, Recover
<1>22. ASSUME NEW w \in Workers, WorkerFailed(w) PROVE Queueing'
  BY <1>0, <1>22 DEF WorkerFailed, Goto, AfterFailure
<1>23. ASSUME NEW s \in Streams, Sample(s) PROVE Queueing'
  BY <1>0, <1>23 DEF Sample, Recover
<1>24. ASSUME NEW s \in Streams, Die(s) PROVE Queueing'
  BY <1>0, <1>24 DEF Die
<1>25. ASSUME NEW s \in Streams, ReportCheck(s) PROVE Queueing'
  BY <1>0, <1>25 DEF ReportCheck
<1>26. ASSUME NEW s \in Streams, ReportNote(s) PROVE Queueing'
  BY <1>0, <1>26 DEF ReportNote, BeginReconnect
<1>27. ASSUME NEW s \in Streams, Ripen(s) PROVE Queueing'
  BY <1>0, <1>27 DEF Ripen
<1>28. ASSUME NEW s \in Streams, GrowQuiet(s) PROVE Queueing'
  BY <1>0, <1>28 DEF GrowQuiet
<1>29. CASE UNCHANGED vars
  BY <1>0, <1>29 DEF vars
<1> QED
  BY <1>1, <1>2, <1>3, <1>4, <1>5, <1>6, <1>7, <1>8, <1>9, <1>10, <1>11, <1>12, <1>13,
     <1>14, <1>15, <1>16, <1>17, <1>18, <1>19, <1>20, <1>21, <1>22, <1>23, <1>24, <1>25,
     <1>26, <1>27, <1>28, <1>29
     DEF Next, Call, CallStep, Monitor, Worker, Capture

LEMMA WorkingStep ==
  ASSUME TypeOK, Working, [Next]_vars PROVE Working'
<1>0. SessionTypes /\ RecTypes /\ ThreadTypes
  BY TypeParts
<1> USE StopAssumption, BoundsAssumption DEF sessionVars, recVars, threadVars, deviceVars,
         captureVars, Working
<1>1. CASE Connect
  <2>1. cycle + 1 \in Workers /\ cycle' = cycle + 1 /\ Goto(cycle + 1, "get")
    BY <1>0, <1>1 DEF Connect, Goto, Workers, ThreadTypes
  <2>2. /\ worker'[cycle + 1].pc = "get"
        /\ \A v \in Workers : v # cycle + 1 => worker'[v] = worker[v]
    BY <1>0, <2>1, GotoMoves DEF Pcs
  <2>3. \A v \in Workers : v > cycle + 1 => v > cycle /\ v # cycle + 1
    BY <1>0 DEF ThreadTypes, Workers
  <2> QED
    BY <2>1, <2>2, <2>3
<1>2. CASE StartArm
  BY <1>0, <1>2 DEF StartArm, At
<1>3. CASE StopBegin
  BY <1>0, <1>3 DEF StopBegin, At
<1>4. CASE Cancel
  BY <1>0, <1>4 DEF Cancel, At
<1>5. CASE Disconnect
  BY <1>0, <1>5 DEF Disconnect, At, RaiseStop
<1>6. CASE StartRecord
  BY <1>0, <1>6 DEF StartRecord, At
<1>7. CASE StartGate
  BY <1>0, <1>7 DEF StartGate, At
<1>8. CASE StopFinalize
  BY <1>0, <1>8 DEF StopFinalize, At
<1>9. CASE StopUngate
  BY <1>0, <1>9 DEF StopUngate, At, RaiseStop
<1>10. CASE Join
  BY <1>0, <1>10 DEF Join, At, JoinWorker
<1>11. CASE Close
  BY <1>0, <1>11 DEF Close, At
<1>12. CASE MonitorWait
  BY <1>0, <1>12 DEF MonitorWait
<1>13. CASE Tick
  BY <1>0, <1>13 DEF Tick, Ripe, Requests
<1>14. CASE Enqueue
  BY <1>0, <1>14 DEF Enqueue
<1>15. ASSUME NEW w \in Workers, WorkerGet(w) PROVE Working'
  <2>1. /\ worker'[w].pc = "check" /\ worker[w].pc = "get" /\ cycle' = cycle
        /\ \A v \in Workers : v # w => worker'[v] = worker[v]
    BY <1>0, <1>15 DEF WorkerGet, ThreadTypes
  <2> QED
    BY <2>1
<1>16. ASSUME NEW w \in Workers, WorkerCheck(w) PROVE Working'
  <2>1. PICK p \in {"done", "reopen"} : Goto(w, p) /\ (p = "reopen" => worker[w].job # Stop)
    BY <1>16 DEF WorkerCheck
  <2>2. /\ worker'[w].pc = p /\ worker'[w].job = worker[w].job
        /\ \A v \in Workers : v # w => worker'[v] = worker[v]
    BY <1>0, <2>1, GotoMoves DEF Pcs
  <2>3. worker[w].job \in Streams \union {Stop} /\ worker[w].pc = "check" /\ cycle' = cycle
    BY <1>0, <1>16 DEF WorkerCheck, ThreadTypes, Crew
  <2> QED
    BY <2>1, <2>2, <2>3
<1>17. ASSUME NEW w \in Workers, WorkerClose(w) PROVE Working'
  <2>1. PICK p \in Pcs : Goto(w, p)
    BY <1>17 DEF WorkerClose, Pcs
  <2>2. /\ worker'[w].pc = p /\ worker'[w].job = worker[w].job
        /\ \A v \in Workers : v # w => worker'[v] = worker[v]
    BY <1>0, <2>1, GotoMoves
  <2>3. worker[w].pc = "reopen" /\ cycle' = cycle
    BY <1>17 DEF WorkerClose
  <2>4. worker[w].job \in Streams /\ ~(w > cycle)
    BY <2>3
  <2> QED
    BY <2>2, <2>3, <2>4
<1>18. ASSUME NEW w \in Workers, WorkerOpen(w) PROVE Working'
  <2>1. PICK p \in Pcs : Goto(w, p)
    BY <1>18 DEF WorkerOpen, Pcs
  <2>2. /\ worker'[w].pc = p /\ worker'[w].job = worker[w].job
        /\ \A v \in Workers : v # w => worker'[v] = worker[v]
    BY <1>0, <2>1, GotoMoves
  <2>3. worker[w].pc = "open" /\ cycle' = cycle
    BY <1>18 DEF WorkerOpen
  <2>4. worker[w].job \in Streams /\ ~(w > cycle)
    BY <2>3
  <2> QED
    BY <2>2, <2>3, <2>4
<1>19. ASSUME NEW w \in Workers, WorkerPhase(w) PROVE Working'
  <2>1. PICK p \in Pcs : Goto(w, p)
    BY <1>19 DEF WorkerPhase, Pcs
  <2>2. /\ worker'[w].pc = p /\ worker'[w].job = worker[w].job
        /\ \A v \in Workers : v # w => worker'[v] = worker[v]
    BY <1>0, <2>1, GotoMoves
  <2>3. worker[w].pc = "phase" /\ cycle' = cycle
    BY <1>19 DEF WorkerPhase
  <2>4. worker[w].job \in Streams /\ ~(w > cycle)
    BY <2>3
  <2> QED
    BY <2>2, <2>3, <2>4
<1>20. ASSUME NEW w \in Workers, WorkerArm(w) PROVE Working'
  <2>1. PICK p \in Pcs : Goto(w, p)
    BY <1>20 DEF WorkerArm, Pcs
  <2>2. /\ worker'[w].pc = p /\ worker'[w].job = worker[w].job
        /\ \A v \in Workers : v # w => worker'[v] = worker[v]
    BY <1>0, <2>1, GotoMoves
  <2>3. worker[w].pc = "arm" /\ cycle' = cycle
    BY <1>20 DEF WorkerArm
  <2>4. worker[w].job \in Streams /\ ~(w > cycle)
    BY <2>3
  <2> QED
    BY <2>2, <2>3, <2>4
<1>21. ASSUME NEW w \in Workers, WorkerOk(w) PROVE Working'
  <2>1. PICK p \in Pcs : Goto(w, p)
    BY <1>21 DEF WorkerOk, Pcs
  <2>2. /\ worker'[w].pc = p /\ worker'[w].job = worker[w].job
        /\ \A v \in Workers : v # w => worker'[v] = worker[v]
    BY <1>0, <2>1, GotoMoves
  <2>3. worker[w].pc = "ok" /\ cycle' = cycle
    BY <1>21 DEF WorkerOk
  <2>4. worker[w].job \in Streams /\ ~(w > cycle)
    BY <2>3
  <2> QED
    BY <2>2, <2>3, <2>4
<1>22. ASSUME NEW w \in Workers, WorkerFailed(w) PROVE Working'
  <2>1. PICK p \in Pcs : Goto(w, p)
    BY <1>22 DEF WorkerFailed, Pcs
  <2>2. /\ worker'[w].pc = p /\ worker'[w].job = worker[w].job
        /\ \A v \in Workers : v # w => worker'[v] = worker[v]
    BY <1>0, <2>1, GotoMoves
  <2>3. worker[w].pc = "failed" /\ cycle' = cycle
    BY <1>22 DEF WorkerFailed
  <2>4. worker[w].job \in Streams /\ ~(w > cycle)
    BY <2>3
  <2> QED
    BY <2>2, <2>3, <2>4
<1>23. ASSUME NEW s \in Streams, Sample(s) PROVE Working'
  BY <1>0, <1>23 DEF Sample, Recover
<1>24. ASSUME NEW s \in Streams, Die(s) PROVE Working'
  BY <1>0, <1>24 DEF Die
<1>25. ASSUME NEW s \in Streams, ReportCheck(s) PROVE Working'
  BY <1>0, <1>25 DEF ReportCheck
<1>26. ASSUME NEW s \in Streams, ReportNote(s) PROVE Working'
  BY <1>0, <1>26 DEF ReportNote, BeginReconnect
<1>27. ASSUME NEW s \in Streams, Ripen(s) PROVE Working'
  BY <1>0, <1>27 DEF Ripen
<1>28. ASSUME NEW s \in Streams, GrowQuiet(s) PROVE Working'
  BY <1>0, <1>28 DEF GrowQuiet
<1>29. CASE UNCHANGED vars
  BY <1>0, <1>29 DEF vars
<1> QED
  BY <1>1, <1>2, <1>3, <1>4, <1>5, <1>6, <1>7, <1>8, <1>9, <1>10, <1>11, <1>12, <1>13,
     <1>14, <1>15, <1>16, <1>17, <1>18, <1>19, <1>20, <1>21, <1>22, <1>23, <1>24, <1>25,
     <1>26, <1>27, <1>28, <1>29
     DEF Next, Call, CallStep, Monitor, Worker, Capture

LEMMA NeverForgottenStep ==
  ASSUME TypeOK, Queueing, Working, NeverForgotten, [Next]_vars PROVE NeverForgotten'
<1>0. SessionTypes /\ RecTypes /\ ThreadTypes
  BY TypeParts
<1> USE StopAssumption DEF sessionVars, recVars, threadVars, deviceVars, captureVars,
         Queueing, NeverForgotten, Supervising, Pending, Busy, On
<1>1. CASE Connect
  BY <1>0, <1>1 DEF Connect, At
<1>2. CASE StartArm
  BY <1>0, <1>2 DEF StartArm, At
<1>3. CASE StopBegin
  BY <1>0, <1>3 DEF StopBegin, At
<1>4. CASE Cancel
  BY <1>0, <1>4 DEF Cancel, At
<1>5. CASE Disconnect
  BY <1>0, <1>5 DEF Disconnect, At, RaiseStop
<1>6. CASE StartRecord
  BY <1>0, <1>6 DEF StartRecord, At
<1>7. CASE StartGate
  BY <1>0, <1>7 DEF StartGate, At
<1>8. CASE StopFinalize
  BY <1>0, <1>8 DEF StopFinalize, At
<1>9. CASE StopUngate
  BY <1>0, <1>9 DEF StopUngate, At, RaiseStop
<1>10. CASE Join
  BY <1>0, <1>10 DEF Join, At, JoinWorker
<1>11. CASE Close
  BY <1>0, <1>11 DEF Close, At
<1>12. CASE MonitorWait
  BY <1>0, <1>12 DEF MonitorWait
<1>13. CASE Tick
  BY <1>0, <1>13 DEF Tick, Ripe, Requests
<1>14. CASE Enqueue
  BY <1>0, <1>14 DEF Enqueue
<1>15. ASSUME NEW w \in Workers, WorkerGet(w) PROVE NeverForgotten'
  <2>1. /\ queue # <<>> /\ queue' = Tail(queue) /\ queue \in Seq(Streams \union {Stop})
        /\ worker'[w].pc = "check" /\ worker'[w].job = Head(queue) /\ worker[w].pc = "get"
        /\ \A v \in Workers : v # w => worker'[v] = worker[v]
        /\ UNCHANGED <<sessionVars, recVars, stopFlag, monitor, toEnqueue>>
    BY <1>0, <1>15 DEF WorkerGet, ThreadTypes
  <2>2. ASSUME NEW s \in Streams, Pending(s) PROVE Pending(s)'
    <3>1. CASE s \in toEnqueue \/ \E v \in Workers : Busy(v) /\ worker[v].job = s
      BY <2>1, <3>1
    <3>2. ASSUME NEW i \in 1..Len(queue), queue[i] = s PROVE Pending(s)'
      <4>1. PICK n : n = Len(queue) /\ n \in Nat \ {0} /\ Len(queue') = n - 1
        BY <2>1, HeadTailProperties, EmptySeq
      <4>2. CASE i = 1
        BY <2>1, <3>2, <4>2
      <4>3. CASE i # 1
        <5>1. i - 1 \in 1..(n - 1) /\ i = (i - 1) + 1
          BY <3>2, <4>1, <4>3
        <5>2. i - 1 \in 1..Len(queue') /\ queue'[i - 1] = s
          BY <2>1, <3>2, <4>1, <5>1, HeadTailProperties
        <5> QED
          BY <5>2
      <4> QED
        BY <4>2, <4>3
    <3> QED
      BY <2>2, <3>1, <3>2
  <2> QED
    BY <2>1, <2>2
<1>16. ASSUME NEW w \in Workers, WorkerCheck(w) PROVE NeverForgotten'
  BY <1>0, <1>16 DEF WorkerCheck, Goto
<1>17. ASSUME NEW w \in Workers, WorkerClose(w) PROVE NeverForgotten'
  BY <1>0, <1>17 DEF WorkerClose, Goto
<1>18. ASSUME NEW w \in Workers, WorkerOpen(w) PROVE NeverForgotten'
  <2>1. PICK p \in Pcs \ {"none", "get", "done"} : Goto(w, p)
    BY <1>18 DEF WorkerOpen, Pcs
  <2>2. /\ worker'[w].pc = p /\ worker'[w].job = worker[w].job
        /\ \A v \in Workers : v # w => worker'[v] = worker[v]
    BY <1>0, <2>1, GotoMoves
  <2>3. UNCHANGED <<sessionVars, recVars, stopFlag, monitor, toEnqueue, queue>>
    BY <1>18 DEF WorkerOpen
  <2>4. \A s \in Streams : Pending(s) => Pending(s)'
    BY <2>1, <2>2, <2>3
  <2> QED
    BY <2>3, <2>4
<1>19. ASSUME NEW w \in Workers, WorkerPhase(w) PROVE NeverForgotten'
  BY <1>0, <1>19 DEF WorkerPhase, Goto
<1>20. ASSUME NEW w \in Workers, WorkerArm(w) PROVE NeverForgotten'
  <2>1. PICK p \in Pcs \ {"none", "get", "done"} : Goto(w, p)
    BY <1>20 DEF WorkerArm, Pcs
  <2>2. /\ worker'[w].pc = p /\ worker'[w].job = worker[w].job
        /\ \A v \in Workers : v # w => worker'[v] = worker[v]
    BY <1>0, <2>1, GotoMoves
  <2>3. UNCHANGED <<sessionVars, recVars, stopFlag, monitor, toEnqueue, queue>>
    BY <1>20 DEF WorkerArm
  <2>4. \A s \in Streams : Pending(s) => Pending(s)'
    BY <2>1, <2>2, <2>3
  <2> QED
    BY <2>3, <2>4
<1>21. ASSUME NEW w \in Workers, WorkerOk(w) PROVE NeverForgotten'
  BY <1>0, <1>21 DEF WorkerOk, Goto, Recover
<1>22. ASSUME NEW w \in Workers, WorkerFailed(w) PROVE NeverForgotten'
  <2>1. /\ worker'[w].pc = "get" /\ worker'[w].job = worker[w].job
        /\ \A v \in Workers : v # w => worker'[v] = worker[v]
    BY <1>0, <1>22, GotoMoves DEF WorkerFailed, Pcs
  <2>2. PICK j \in Streams : j = worker[w].job
    BY <1>22 DEF WorkerFailed, Working
  <2>3. /\ UNCHANGED <<sessionVars, attempts, stopFlag, monitor, toEnqueue, queue>>
        /\ inFlight'[j] = FALSE
        /\ st'[j] = "failed" \/ due'[j] = "waiting"
        /\ \A s \in Streams :
             s # j => st'[s] = st[s] /\ due'[s] = due[s] /\ inFlight'[s] = inFlight[s]
    BY <1>0, <1>22, <2>2 DEF WorkerFailed, AfterFailure, RecTypes
  <2>4. \A s \in Streams : s # j /\ Pending(s) => Pending(s)'
    BY <2>1, <2>2, <2>3
  <2>5. SUFFICES ASSUME Supervising, NEW s \in Streams, st'[s] = "reconnecting"
        PROVE  IF inFlight'[s] THEN Pending(s)' ELSE due'[s] # "none"
    BY <2>3
  <2>6. CASE s = j
    BY <2>3, <2>5, <2>6
  <2>7. CASE s # j
    BY <2>3, <2>4, <2>5, <2>7
  <2> QED
    BY <2>6, <2>7
<1>23. ASSUME NEW s \in Streams, Sample(s) PROVE NeverForgotten'
  <2>1. UNCHANGED <<sessionVars, threadVars>>
    BY <1>23 DEF Sample
  <2>2. \A r \in Streams : Pending(r) <=> Pending(r)'
    BY <2>1
  <2>3. \A r \in Streams :
          st'[r] = "reconnecting" =>
            st[r] = "reconnecting" /\ inFlight'[r] = inFlight[r] /\ due'[r] = due[r]
    <3>1. CASE UNCHANGED <<st, inFlight, due>>
      BY <3>1
    <3>2. CASE Recover({s})
      <4>1. /\ st' = On(st, {s}, "connected") /\ inFlight' = On(inFlight, {s}, FALSE)
            /\ due' = On(due, {s}, "none")
            /\ DOMAIN st = Streams /\ DOMAIN inFlight = Streams /\ DOMAIN due = Streams
        BY <1>0, <3>2 DEF Recover, RecTypes
      <4> QED
        BY <4>1
    <3> QED
      BY <1>23, <3>1, <3>2 DEF Sample
  <2> QED
    BY <2>1, <2>2, <2>3
<1>24. ASSUME NEW s \in Streams, Die(s) PROVE NeverForgotten'
  BY <1>0, <1>24 DEF Die
<1>25. ASSUME NEW s \in Streams, ReportCheck(s) PROVE NeverForgotten'
  BY <1>0, <1>25 DEF ReportCheck
<1>26. ASSUME NEW s \in Streams, ReportNote(s) PROVE NeverForgotten'
  <2>1. UNCHANGED <<stopFlag, monitor, toEnqueue, queue, worker>>
    BY <1>26 DEF ReportNote
  <2>2. \A r \in Streams : Pending(r)' <=> Pending(r)
    BY <2>1
  <2>3. CASE BeginReconnect({s})
    BY <2>1, <2>2, <2>3 DEF BeginReconnect
  <2>4. CASE st' = [st EXCEPT ![s] = "failed"] /\ UNCHANGED <<inFlight, due>>
    BY <1>0, <2>1, <2>2, <2>4 DEF RecTypes
  <2> QED
    BY <1>26, <2>3, <2>4 DEF ReportNote
<1>27. ASSUME NEW s \in Streams, Ripen(s) PROVE NeverForgotten'
  BY <1>0, <1>27 DEF Ripen
<1>28. ASSUME NEW s \in Streams, GrowQuiet(s) PROVE NeverForgotten'
  BY <1>0, <1>28 DEF GrowQuiet
<1>29. CASE UNCHANGED vars
  BY <1>0, <1>29 DEF vars
<1> QED
  BY <1>1, <1>2, <1>3, <1>4, <1>5, <1>6, <1>7, <1>8, <1>9, <1>10, <1>11, <1>12, <1>13,
     <1>14, <1>15, <1>16, <1>17, <1>18, <1>19, <1>20, <1>21, <1>22, <1>23, <1>24, <1>25,
     <1>26, <1>27, <1>28, <1>29
     DEF Next, Call, CallStep, Monitor, Worker, Capture

LEMMA CountingStep ==
  ASSUME TypeOK, Counting, [Next]_vars PROVE Counting'
<1>0. SessionTypes /\ RecTypes /\ ThreadTypes
  BY TypeParts
<1> USE PolicyAssumption DEF sessionVars, recVars, threadVars, deviceVars, captureVars,
         RecTypes, Counting, On
<1>1. CASE Connect
  BY <1>0, <1>1 DEF Connect, At
<1>2. CASE StartArm
  BY <1>0, <1>2 DEF StartArm, At
<1>3. CASE StopBegin
  BY <1>0, <1>3 DEF StopBegin, At
<1>4. CASE Cancel
  BY <1>0, <1>4 DEF Cancel, At
<1>5. CASE Disconnect
  BY <1>0, <1>5 DEF Disconnect, At, RaiseStop
<1>6. CASE StartRecord
  BY <1>0, <1>6 DEF StartRecord, At
<1>7. CASE StartGate
  BY <1>0, <1>7 DEF StartGate, At
<1>8. CASE StopFinalize
  BY <1>0, <1>8 DEF StopFinalize, At
<1>9. CASE StopUngate
  BY <1>0, <1>9 DEF StopUngate, At, RaiseStop
<1>10. CASE Join
  BY <1>0, <1>10 DEF Join, At, JoinWorker
<1>11. CASE Close
  BY <1>0, <1>11 DEF Close, At
<1>12. CASE MonitorWait
  BY <1>0, <1>12 DEF MonitorWait
<1>13. CASE Tick
  BY <1>0, <1>13 DEF Tick, Ripe, Requests
<1>14. CASE Enqueue
  BY <1>0, <1>14 DEF Enqueue
<1>15. ASSUME NEW w \in Workers, WorkerGet(w) PROVE Counting'
  BY <1>0, <1>15 DEF WorkerGet
<1>16. ASSUME NEW w \in Workers, WorkerCheck(w) PROVE Counting'
  BY <1>0, <1>16 DEF WorkerCheck, Goto
<1>17. ASSUME NEW w \in Workers, WorkerClose(w) PROVE Counting'
  BY <1>0, <1>17 DEF WorkerClose, Goto
<1>18. ASSUME NEW w \in Workers, WorkerOpen(w) PROVE Counting'
  BY <1>0, <1>18 DEF WorkerOpen, Goto
<1>19. ASSUME NEW w \in Workers, WorkerPhase(w) PROVE Counting'
  BY <1>0, <1>19 DEF WorkerPhase, Goto
<1>20. ASSUME NEW w \in Workers, WorkerArm(w) PROVE Counting'
  BY <1>0, <1>20 DEF WorkerArm, Goto
<1>21. ASSUME NEW w \in Workers, WorkerOk(w) PROVE Counting'
  BY <1>0, <1>21 DEF WorkerOk, Goto, Recover
<1>22. ASSUME NEW w \in Workers, WorkerFailed(w) PROVE Counting'
  BY <1>0, <1>22 DEF WorkerFailed, Goto, AfterFailure
<1>23. ASSUME NEW s \in Streams, Sample(s) PROVE Counting'
  <2>1. UNCHANGED <<onStall, report>>
    BY <1>23 DEF Sample
  <2>2. CASE Recover({s})
    BY <1>0, <2>1, <2>2 DEF Recover
  <2>3. CASE UNCHANGED <<st, attempts, tries>>
    BY <1>0, <2>1, <2>3
  <2> QED
    BY <1>23, <2>2, <2>3 DEF Sample
<1>24. ASSUME NEW s \in Streams, Die(s) PROVE Counting'
  BY <1>0, <1>24 DEF Die
<1>25. ASSUME NEW s \in Streams, ReportCheck(s) PROVE Counting'
  BY <1>0, <1>25 DEF ReportCheck
<1>26. ASSUME NEW s \in Streams, ReportNote(s) PROVE Counting'
  <2>1. report[s] = "checked" /\ onStall' = onStall /\ report' = [report EXCEPT ![s] = "none"]
    BY <1>26 DEF ReportNote
  <2>2. CASE BeginReconnect({s})
    BY <1>0, <2>1, <2>2 DEF BeginReconnect
  <2>3. CASE st' = [st EXCEPT ![s] = "failed"] /\ UNCHANGED <<attempts, tries>>
    BY <1>0, <2>1, <2>3
  <2> QED
    BY <1>26, <2>2, <2>3 DEF ReportNote
<1>27. ASSUME NEW s \in Streams, Ripen(s) PROVE Counting'
  BY <1>0, <1>27 DEF Ripen
<1>28. ASSUME NEW s \in Streams, GrowQuiet(s) PROVE Counting'
  BY <1>0, <1>28 DEF GrowQuiet
<1>29. CASE UNCHANGED vars
  BY <1>0, <1>29 DEF vars
<1> QED
  BY <1>1, <1>2, <1>3, <1>4, <1>5, <1>6, <1>7, <1>8, <1>9, <1>10, <1>11, <1>12, <1>13,
     <1>14, <1>15, <1>16, <1>17, <1>18, <1>19, <1>20, <1>21, <1>22, <1>23, <1>24, <1>25,
     <1>26, <1>27, <1>28, <1>29
     DEF Next, Call, CallStep, Monitor, Worker, Capture

LEMMA LeftoverStep ==
  ASSUME TypeOK, Working, Leftover, [Next]_vars PROVE Leftover'
<1>0. SessionTypes /\ RecTypes /\ ThreadTypes
  BY TypeParts
<1> USE BoundsAssumption DEF sessionVars, recVars, threadVars, deviceVars, captureVars,
         ThreadTypes, Working, Leftover, Workers
<1>1. CASE Connect
  BY <1>0, <1>1 DEF Connect, At
<1>2. CASE StartArm
  BY <1>0, <1>2 DEF StartArm, At
<1>3. CASE StopBegin
  BY <1>0, <1>3 DEF StopBegin, At
<1>4. CASE Cancel
  BY <1>0, <1>4 DEF Cancel, At
<1>5. CASE Disconnect
  BY <1>0, <1>5 DEF Disconnect, At, RaiseStop
<1>6. CASE StartRecord
  BY <1>0, <1>6 DEF StartRecord, At
<1>7. CASE StartGate
  BY <1>0, <1>7 DEF StartGate, At
<1>8. CASE StopFinalize
  BY <1>0, <1>8 DEF StopFinalize, At
<1>9. CASE StopUngate
  BY <1>0, <1>9 DEF StopUngate, At, RaiseStop
<1>10. CASE Join
  <2>1. ~late' => ~late /\ worker[cycle].pc = "done"
    BY <1>10, Zenon DEF Join
  <2>2. UNCHANGED <<phase, cycle, worker>> /\ op' = "close" /\ op = "join"
    BY <1>10 DEF Join, At
  <2>3. \A w \in Workers : w <= cycle => w < cycle \/ w = cycle
    BY <1>0
  <2> QED
    BY <2>1, <2>2, <2>3
<1>11. CASE Close
  BY <1>0, <1>11 DEF Close, At
<1>12. CASE MonitorWait
  BY <1>0, <1>12 DEF MonitorWait
<1>13. CASE Tick
  BY <1>0, <1>13 DEF Tick, Ripe, Requests
<1>14. CASE Enqueue
  BY <1>0, <1>14 DEF Enqueue
<1>15. ASSUME NEW w \in Workers, WorkerGet(w) PROVE Leftover'
  BY <1>0, <1>15 DEF WorkerGet
<1>16. ASSUME NEW w \in Workers, WorkerCheck(w) PROVE Leftover'
  BY <1>0, <1>16 DEF WorkerCheck, Goto
<1>17. ASSUME NEW w \in Workers, WorkerClose(w) PROVE Leftover'
  BY <1>0, <1>17 DEF WorkerClose, Goto
<1>18. ASSUME NEW w \in Workers, WorkerOpen(w) PROVE Leftover'
  BY <1>0, <1>18 DEF WorkerOpen, Goto
<1>19. ASSUME NEW w \in Workers, WorkerPhase(w) PROVE Leftover'
  BY <1>0, <1>19 DEF WorkerPhase, Goto
<1>20. ASSUME NEW w \in Workers, WorkerArm(w) PROVE Leftover'
  BY <1>0, <1>20 DEF WorkerArm, Goto
<1>21. ASSUME NEW w \in Workers, WorkerOk(w) PROVE Leftover'
  BY <1>0, <1>21 DEF WorkerOk, Goto, Recover
<1>22. ASSUME NEW w \in Workers, WorkerFailed(w) PROVE Leftover'
  BY <1>0, <1>22 DEF WorkerFailed, Goto, AfterFailure
<1>23. ASSUME NEW s \in Streams, Sample(s) PROVE Leftover'
  BY <1>0, <1>23 DEF Sample, Recover
<1>24. ASSUME NEW s \in Streams, Die(s) PROVE Leftover'
  BY <1>0, <1>24 DEF Die
<1>25. ASSUME NEW s \in Streams, ReportCheck(s) PROVE Leftover'
  BY <1>0, <1>25 DEF ReportCheck
<1>26. ASSUME NEW s \in Streams, ReportNote(s) PROVE Leftover'
  BY <1>0, <1>26 DEF ReportNote, BeginReconnect
<1>27. ASSUME NEW s \in Streams, Ripen(s) PROVE Leftover'
  BY <1>0, <1>27 DEF Ripen
<1>28. ASSUME NEW s \in Streams, GrowQuiet(s) PROVE Leftover'
  BY <1>0, <1>28 DEF GrowQuiet
<1>29. CASE UNCHANGED vars
  BY <1>0, <1>29 DEF vars
<1> QED
  BY <1>1, <1>2, <1>3, <1>4, <1>5, <1>6, <1>7, <1>8, <1>9, <1>10, <1>11, <1>12, <1>13,
     <1>14, <1>15, <1>16, <1>17, <1>18, <1>19, <1>20, <1>21, <1>22, <1>23, <1>24, <1>25,
     <1>26, <1>27, <1>28, <1>29
     DEF Next, Call, CallStep, Monitor, Worker, Capture

LEMMA ListedStep ==
  ASSUME TypeOK, Working, Leftover, Listed, "connect" \notin Faults, [Next]_vars PROVE Listed'
<1>0. SessionTypes /\ RecTypes /\ ThreadTypes
  BY TypeParts
<1> USE BoundsAssumption DEF sessionVars, recVars, threadVars, deviceVars, captureVars,
         SessionTypes, ThreadTypes, Working, Leftover, Listed, On, Workers
<1>1. CASE Connect
  BY <1>0, <1>1 DEF Connect, At
<1>2. CASE StartArm
  BY <1>0, <1>2 DEF StartArm, At
<1>3. CASE StopBegin
  BY <1>0, <1>3 DEF StopBegin, At
<1>4. CASE Cancel
  BY <1>0, <1>4 DEF Cancel, At
<1>5. CASE Disconnect
  BY <1>0, <1>5 DEF Disconnect, At, RaiseStop
<1>6. CASE StartRecord
  BY <1>0, <1>6 DEF StartRecord, At
<1>7. CASE StartGate
  BY <1>0, <1>7 DEF StartGate, At
<1>8. CASE StopFinalize
  BY <1>0, <1>8 DEF StopFinalize, At
<1>9. CASE StopUngate
  BY <1>0, <1>9 DEF StopUngate, At, RaiseStop
<1>10. CASE Join
  BY <1>0, <1>10 DEF Join, At, JoinWorker
<1>11. CASE Close
  BY <1>0, <1>11 DEF Close, At
<1>12. CASE MonitorWait
  BY <1>0, <1>12 DEF MonitorWait
<1>13. CASE Tick
  BY <1>0, <1>13 DEF Tick, Ripe, Requests
<1>14. CASE Enqueue
  BY <1>0, <1>14 DEF Enqueue
<1>15. ASSUME NEW w \in Workers, WorkerGet(w) PROVE Listed'
  BY <1>0, <1>15 DEF WorkerGet
<1>16. ASSUME NEW w \in Workers, WorkerCheck(w) PROVE Listed'
  BY <1>0, <1>16 DEF WorkerCheck, Goto
<1>17. ASSUME NEW w \in Workers, WorkerClose(w) PROVE Listed'
  BY <1>0, <1>17 DEF WorkerClose, Goto
<1>18. ASSUME NEW w \in Workers, WorkerOpen(w) PROVE Listed'
  BY <1>0, <1>18 DEF WorkerOpen, Goto
<1>19. ASSUME NEW w \in Workers, WorkerPhase(w) PROVE Listed'
  BY <1>0, <1>19 DEF WorkerPhase, Goto
<1>20. ASSUME NEW w \in Workers, WorkerArm(w) PROVE Listed'
  BY <1>0, <1>20 DEF WorkerArm, Goto
<1>21. ASSUME NEW w \in Workers, WorkerOk(w) PROVE Listed'
  BY <1>0, <1>21 DEF WorkerOk, Goto, Recover
<1>22. ASSUME NEW w \in Workers, WorkerFailed(w) PROVE Listed'
  BY <1>0, <1>22 DEF WorkerFailed, Goto, AfterFailure
<1>23. ASSUME NEW s \in Streams, Sample(s) PROVE Listed'
  BY <1>0, <1>23 DEF Sample, Recover
<1>24. ASSUME NEW s \in Streams, Die(s) PROVE Listed'
  BY <1>0, <1>24 DEF Die
<1>25. ASSUME NEW s \in Streams, ReportCheck(s) PROVE Listed'
  BY <1>0, <1>25 DEF ReportCheck
<1>26. ASSUME NEW s \in Streams, ReportNote(s) PROVE Listed'
  BY <1>0, <1>26 DEF ReportNote, BeginReconnect
<1>27. ASSUME NEW s \in Streams, Ripen(s) PROVE Listed'
  BY <1>0, <1>27 DEF Ripen
<1>28. ASSUME NEW s \in Streams, GrowQuiet(s) PROVE Listed'
  BY <1>0, <1>28 DEF GrowQuiet
<1>29. CASE UNCHANGED vars
  BY <1>0, <1>29 DEF vars
<1> QED
  BY <1>1, <1>2, <1>3, <1>4, <1>5, <1>6, <1>7, <1>8, <1>9, <1>10, <1>11, <1>12, <1>13,
     <1>14, <1>15, <1>16, <1>17, <1>18, <1>19, <1>20, <1>21, <1>22, <1>23, <1>24, <1>25,
     <1>26, <1>27, <1>28, <1>29
     DEF Next, Call, CallStep, Monitor, Worker, Capture

-----------------------------------------------------------------------------
LEMMA SupervisionInit == Init => SInv /\ Listed
<1> SUFFICES ASSUME Init PROVE SInv /\ Listed
  OBVIOUS
<1>1. SessionTypes
  BY DEF Init, SessionTypes
<1>2. RecTypes
  BY PolicyAssumption DEF Init, RecTypes, States
<1>3. ThreadTypes
  <2>1. worker \in [Workers -> Crew]
    BY DEF Init, Crew, Pcs
  <2>2. queue \in Seq(Streams \union {Stop}) /\ cycle \in 0..MaxCycles
    BY BoundsAssumption, EmptySeq DEF Init
  <2> QED
    BY <2>1, <2>2 DEF Init, ThreadTypes
<1>4. \A w \in Workers : worker[w].pc = "none" /\ cycle = 0 /\ ~(w <= cycle) /\ ~(w < cycle)
  BY BoundsAssumption DEF Init, Workers
<1>5. Queueing /\ Working /\ Leftover
  <2>1. toEnqueue = {} /\ op = "none" /\ monitor = "none"
    BY DEF Init
  <2> QED
    BY <1>4, <2>1 DEF Queueing, Working, Leftover
<1>6. NeverForgotten
  BY DEF Init, NeverForgotten
<1>7. Counting
  <2>1. \A s \in Streams :
          tries[s] = 0 /\ attempts[s] = 0 /\ st[s] = "idle" /\ report[s] = "none"
    BY DEF Init
  <2>2. SUFFICES ASSUME NEW s \in Streams
        PROVE  /\ tries[s] <= attempts[s]
               /\ st[s] \in {"connected", "stalled"} => tries[s] = 0
               /\ report[s] = "checked" => st[s] # "reconnecting" /\ tries[s] = 0
    BY DEF Counting
  <2> QED
    BY <2>1
<1>8. Listed
  BY DEF Init, Listed
<1> QED
  BY <1>1, <1>2, <1>3, <1>5, <1>6, <1>7, <1>8, TypeParts DEF SInv

\* The inductive invariant: where a request is, what the counters of a recovery
\* episode say, and which threads are left (supervision.py; orchestrator.py:
\* _start_supervision, _stop_supervision, _reconnect_worker_loop).
THEOREM SupervisionInvariance == Spec => []SInv
<1>1. Init => SInv
  BY SupervisionInit
<1>2. SInv /\ [Next]_vars => SInv'
  <2> SUFFICES ASSUME SInv, [Next]_vars PROVE SInv'
    OBVIOUS
  <2>1. TypeOK /\ Queueing /\ Working /\ NeverForgotten /\ Counting /\ Leftover
    BY DEF SInv
  <2>2. SessionTypes' /\ RecTypes' /\ ThreadTypes'
    BY <2>1, SessionTypesStep, RecTypesStep, ThreadTypesStep
  <2>3. TypeOK'
    BY <2>2, Zenon DEF TypeOK, SessionTypes, RecTypes, ThreadTypes, Crew
  <2>4. Queueing' /\ Working' /\ NeverForgotten' /\ Counting' /\ Leftover'
    BY <2>1, QueueingStep, WorkingStep, NeverForgottenStep, CountingStep, LeftoverStep
  <2> QED
    BY <2>3, <2>4 DEF SInv
<1> QED
  BY <1>1, <1>2, PTL DEF Spec

\* The supervisor's records, the threads and the queue keep their types; above all,
\* no record has more than max_attempts attempts (supervision.py: _StreamRec).
THEOREM SupervisionTypeCorrect == Spec => []TypeOK
  BY SupervisionInvariance, PTL DEF SInv

\* A drop is retried until it is decided, and not more often than the policy allows,
\* also when samples, late answers and requests of an earlier connect cycle come
\* between (supervision.py: tick, note_sample, note_reconnect_result).
THEOREM NoDropIsForgotten == Spec => []DropsAreHandled
<1>1. ASSUME SInv PROVE RetriesBounded
  <2>1. SUFFICES ASSUME ~onStall, NEW s \in Streams PROVE tries[s] <= MaxAttempts
    BY DEF RetriesBounded
  <2>2. tries[s] <= attempts[s]
    BY <1>1, <2>1 DEF SInv, Counting
  <2>3. tries[s] \in Nat /\ attempts[s] \in 0..MaxAttempts /\ MaxAttempts \in Nat
    BY <1>1, PolicyAssumption DEF SInv, TypeOK
  <2> QED
    BY <2>2, <2>3
<1>2. SInv => DropsAreHandled
  BY <1>1 DEF SInv, DropsAreHandled
<1> QED
  BY <1>2, SupervisionInvariance, PTL

\* A session whose streams all connect leaves no device open and no worker behind when
\* it is torn down, unless a worker outlived its join (orchestrator.py: disconnect,
\* stop, _stop_supervision).  A connect() that left a stream out breaks it: a request
\* nobody served, or a late report, opens a device that _connected_streams lacks.
THEOREM TeardownIsClean ==
  ASSUME "connect" \notin Faults PROVE Spec => []CleanTeardown
<1>1. SInv /\ Listed /\ [Next]_vars => Listed'
  BY ListedStep DEF SInv
<1>2. Spec => []Listed
  BY <1>1, SupervisionInit, SupervisionInvariance, PTL DEF Spec
<1>3. ASSUME SInv, Listed PROVE CleanTeardown
  <2>1. SUFFICES ASSUME phase = "idle", ~late, NEW w \in Workers PROVE ~Alive(w)
    BY <1>3 DEF Listed, CleanTeardown
  <2>2. w <= cycle \/ w > cycle
    BY <1>3 DEF SInv, TypeOK, Workers
  <2> QED
    BY <1>3, <2>1, <2>2 DEF SInv, Working, Leftover, Alive
<1> QED
  BY <1>2, <1>3, SupervisionInvariance, PTL
=============================================================================
