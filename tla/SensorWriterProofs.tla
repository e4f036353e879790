------------------------- MODULE SensorWriterProofs -------------------------
(***************************************************************************)
(* Proofs about SensorWriter, for every number of threads, samples and      *)
(* recordings, every capacity and every batch size, with and without a      *)
(* queue.                                                                   *)
(*                                                                          *)
(* What is in the file follows from where the samples that are not in it    *)
(* are: in the worker's batch, then in the queue (Content), in this order   *)
(* and nowhere twice (Distinct).  That close() may rely on it is a matter   *)
(* of who is still there: no handler is active any more, so nothing comes   *)
(* after the sentinel, and the worker is gone (Closing down: Handlers and   *)
(* Phases).                                                                 *)
(***************************************************************************)
EXTENDS SensorWriter, SequenceTheorems, TLAPS

Backlog == (file \o pending) \o queue
Stopped == queue # <<>> /\ queue[Len(queue)] = Stop

\* TypeOK in three parts, and what it leaves open: the numbers of the samples.
Flags ==
  /\ buffered \in BOOLEAN /\ handle \in BOOLEAN /\ alive \in BOOLEAN
  /\ error \in BOOLEAN /\ raised \in BOOLEAN
  /\ closer \in {"idle", "closing", "putting", "joining", "finish"}
Emitters ==
  /\ active \in Seq(BOOLEAN) /\ lock \in {Free} \union Threads
  /\ at \in [Threads -> Nat] /\ sample \in [Threads -> Nat]
  /\ sent \in Nat /\ sent <= MaxSamples
Rows ==
  /\ queue \in Seq(Nat) /\ Len(queue) <= Capacity /\ pending \in Seq(Nat)
  /\ file \in Seq(Nat) /\ accepted \in Seq(Nat \ {0}) /\ count \in Nat
Types == Flags /\ Emitters /\ Rows

\* The only handler that writes is the last one, while its recording lasts; the lock
\* is held, between two steps, only by a handler that has put a sample.
Handlers ==
  /\ \A i \in 1..Len(active) : active[i] => i = Len(active) /\ handle /\ closer = "idle"
  /\ \A t \in Threads : at[t] <= Len(active)
  /\ handle => active # <<>>
  /\ lock # Free =>
       /\ handle /\ closer = "idle" /\ buffered
       /\ Len(active) \in Nat \ {0} /\ at[lock] = Len(active) /\ at[lock] # 0

\* Where close() is, whether the worker is there, and when the sentinel is queued.
Phases ==
  /\ ~handle => closer = "idle" /\ ~alive /\ raised = error
  /\ alive => ~error
  /\ closer \in {"putting", "joining"} => buffered
  /\ ~buffered => ~alive /\ ~error /\ queue = <<>> /\ pending = <<>>
  /\ closer \in {"idle", "closing", "putting"} /\ handle /\ buffered => alive \/ error
  /\ closer = "joining" /\ alive => Stopped
  /\ closer = "finish" => ~alive
  /\ ~error /\ ~alive => queue = <<>> /\ pending = <<>>

\* The sentinel is the last thing in the queue and never in the batch, and it is not
\* there while a recording goes on.
Queued ==
  /\ \A i \in 1..Len(queue) :
       queue[i] = Stop => i = Len(queue) /\ closer \in {"joining", "finish", "idle"}
  /\ Stopped /\ closer = "idle" => ~handle
  /\ \A i \in 1..Len(pending) : pending[i] # Stop
\* The samples the writer took over are those in the file, in the batch and in the
\* queue; once the worker has failed those in the file are still the first of them.
Order ==
  /\ ~error => Backlog = IF Stopped THEN Append(accepted, Stop) ELSE accepted
  /\ Len(file) <= Len(accepted)
  /\ \A i \in 1..Len(file) : file[i] = accepted[i]
\* A sample is counted after it was taken over, by the thread that has the lock.
Counted ==
  count + (IF lock = Free THEN 0 ELSE 1) <= Len(accepted)
Content == Queued /\ Order /\ Counted

\* A sample is taken over once: a thread that still carries it has not delivered it
\* to the present recording.
Carried ==
  /\ \A t \in Threads : at[t] # 0 => sample[t] \in 1..sent
  /\ \A t, u \in Threads : t # u /\ at[t] # 0 /\ at[u] # 0 => sample[t] # sample[u]
Once ==
  /\ \A i \in 1..Len(accepted) : accepted[i] <= sent
  /\ \A i, j \in 1..Len(accepted) : accepted[i] = accepted[j] => i = j
NotYet ==
  \A t \in Threads : at[t] # 0 /\ lock # t =>
    \A i \in 1..Len(accepted) : accepted[i] # sample[t]
Distinct == Carried /\ Once /\ NotYet

WInv == Types /\ Handlers /\ Phases /\ Content /\ Distinct
-----------------------------------------------------------------------------
\* Sequences

\* Appending to the last of two sequences appends to both.
LEMMA AppendMoves ==
  ASSUME NEW S, NEW b \in Seq(S), NEW q \in Seq(S), NEW x \in S
  PROVE  b \o Append(q, x) = Append(b \o q, x)
<1>1. <<x>> \in Seq(S) /\ b \o q \in Seq(S)
  BY ConcatProperties
<1>2. Append(q, x) = q \o <<x>> /\ Append(b \o q, x) = (b \o q) \o <<x>>
  BY <1>1, AppendIsConcat
<1> QED
  BY <1>1, <1>2, ConcatAssociative

\* A handler is registered behind the others.
LEMMA AppendFlag ==
  ASSUME NEW s \in Seq(BOOLEAN)
  PROVE  \A b \in BOOLEAN :
           /\ Len(Append(s, b)) = Len(s) + 1 /\ Append(s, b) # <<>>
           /\ \A i \in 1..Len(s) : Append(s, b)[i] = s[i]
<1>1. SUFFICES ASSUME NEW B, B = BOOLEAN, NEW b \in B
      PROVE  /\ Len(Append(s, b)) = Len(s) + 1 /\ Append(s, b) # <<>>
             /\ \A i \in 1..Len(s) : Append(s, b)[i] = s[i]
  OBVIOUS
<1>2. s \in Seq(B)
  BY <1>1
<1> QED
  BY <1>2, AppendProperties

-----------------------------------------------------------------------------
\* Types

LEMMA TypesInit == Init => Types
<1> SUFFICES ASSUME Init PROVE Types
  OBVIOUS
<1>1. Flags
  BY Zenon, ParametersAssumption DEF Init, Flags
<1>2. Emitters
  BY ParametersAssumption DEF Init, Emitters
<1>3. Rows
  BY ParametersAssumption DEF Init, Rows
<1> QED
  BY <1>1, <1>2, <1>3 DEF Types

\* The thread that writes a sample is in the last handler.
LEMMA WriterIsLast ==
  ASSUME Types, Handlers, NEW t \in Threads, Taken(t)
  PROVE  at[t] = Len(active) /\ at[t] # 0 /\ lock = Free /\ lock # t
<1>1. Len(active) \in Nat
  BY DEF Types, Emitters
<1>2. at[t] \in 1..Len(active) /\ lock = Free /\ active[at[t]]
  BY DEF Taken, InHandler
<1> QED
  BY <1>1, <1>2, ThreadsAssumption DEF Handlers

\* write() without a queue takes the sample over, with a row, or leaves no trace.
LEMMA WriteThroughWrites ==
  ASSUME Rows, NEW t \in Threads, WriteThrough(t)
  PROVE  \/ UNCHANGED <<file, accepted, count>>
         \/ /\ file' = Append(file, sample[t]) /\ accepted' = Append(accepted, sample[t])
            /\ count' \in {count, count + 1}
BY DEF WriteThrough, Mode

\* A sample that is taken over is one of a thread that has not delivered it yet.
LEMMA AcceptedIsNew ==
  ASSUME Types, Handlers, Distinct, NEW t \in Threads, Taken(t)
  PROVE  /\ at[t] # 0 /\ sample[t] \in Nat \ {0} /\ sample[t] <= sent
         /\ Append(accepted, sample[t]) \in Seq(Nat \ {0})
         /\ Len(Append(accepted, sample[t])) = Len(accepted) + 1
         /\ \A i \in 1..Len(accepted) :
              /\ Append(accepted, sample[t])[i] = accepted[i]
              /\ accepted[i] # sample[t]
         /\ Append(accepted, sample[t])[Len(accepted) + 1] = sample[t]
<1>1. at[t] # 0 /\ lock # t
  BY WriterIsLast
<1>2. sample[t] \in 1..sent /\ sent \in Nat
  BY <1>1 DEF Types, Emitters, Distinct, Carried
<1>3. sample[t] \in Nat \ {0} /\ sample[t] <= sent
  BY <1>2
<1>4. \A i \in 1..Len(accepted) : accepted[i] # sample[t]
  BY <1>1 DEF Distinct, NotYet
<1>5. accepted \in Seq(Nat \ {0})
  BY DEF Types, Rows
<1> QED
  BY <1>1, <1>3, <1>4, <1>5, AppendProperties

\* A sample that is new is taken over once.
LEMMA OnceGrows ==
  ASSUME Rows, Once, NEW x \in Nat \ {0}, x <= sent, sent \in Nat, sent' = sent,
         \A i \in 1..Len(accepted) : accepted[i] # x, accepted' = Append(accepted, x)
  PROVE  Once'
<1>1. /\ Len(accepted') = Len(accepted) + 1 /\ Len(accepted) \in Nat
      /\ \A i \in 1..Len(accepted) : accepted'[i] = accepted[i]
      /\ accepted'[Len(accepted) + 1] = x
  BY AppendProperties DEF Rows
<1>2. \A i \in 1..Len(accepted') : accepted'[i] <= sent'
  BY <1>1 DEF Once
<1>3. ASSUME NEW i \in 1..Len(accepted'), NEW j \in 1..Len(accepted'),
             accepted'[i] = accepted'[j]
      PROVE  i = j
  BY <1>1, <1>3 DEF Once
<1> QED
  BY <1>2, <1>3 DEF Once

LEMMA FlagsStep == ASSUME Types, [Next]_vars PROVE Flags'
<1> USE ParametersAssumption DEF Types, Flags, Rows, emitter, worker
<1>1. CASE Open
  BY <1>1 DEF Open
<1>2. CASE Deactivate
  BY <1>2 DEF Deactivate, Quiet
<1>3. CASE BeginClose
  BY <1>3 DEF BeginClose, Quiet
<1>4. CASE PutStop
  BY <1>4 DEF PutStop, Quiet
<1>5. CASE Join
  BY <1>5 DEF Join, Quiet
<1>6. CASE Finish
  BY <1>6 DEF Finish, Quiet
<1>7. CASE Take
  BY <1>7 DEF Take
<1>8. CASE Flush
  BY <1>8 DEF Flush, WriteBatch, Mode
<1>9. CASE WorkerEnds
  BY <1>9 DEF WorkerEnds
<1>10. ASSUME NEW t \in Threads, Emit(t) PROVE Flags'
  BY <1>10 DEF Emit
<1>11. ASSUME NEW t \in Threads, Inactive(t) PROVE Flags'
  BY <1>11 DEF Inactive, InHandler, Onward
<1>12. ASSUME NEW t \in Threads, Enqueue(t) PROVE Flags'
  BY <1>12 DEF Enqueue, Taken, InHandler, Closing
<1>13. ASSUME NEW t \in Threads, CountSample(t) PROVE Flags'
  BY <1>13 DEF CountSample, Onward
<1>14. ASSUME NEW t \in Threads, Refuse(t) PROVE Flags'
  BY <1>14 DEF Refuse, InHandler, Onward
<1>15. ASSUME NEW t \in Threads, WriteThrough(t) PROVE Flags'
  BY <1>15 DEF WriteThrough, Taken, InHandler, Closing, Onward, Mode
<1>16. CASE UNCHANGED vars
  BY <1>16 DEF vars
<1> QED
  BY <1>1, <1>2, <1>3, <1>4, <1>5, <1>6, <1>7, <1>8, <1>9, <1>10, <1>11, <1>12, <1>13,
     <1>14, <1>15, <1>16
     DEF Next, Handler, Worker, Close

LEMMA EmittersStep == ASSUME Types, Handlers, [Next]_vars PROVE Emitters'
<1> USE ParametersAssumption, ThreadsAssumption DEF Types, Flags, Emitters, emitter, worker
<1>1. CASE Open
  BY <1>1 DEF Open
<1>2. CASE Deactivate
  <2>1. Len(active) \in 1..Len(active)
    BY <1>2, EmptySeq DEF Deactivate, Handlers
  <2>2. active' \in Seq(BOOLEAN)
    BY <1>2, <2>1, ExceptSeq DEF Deactivate
  <2> QED
    BY <1>2, <2>2 DEF Deactivate, Quiet
<1>3. CASE BeginClose
  BY <1>3 DEF BeginClose, Quiet
<1>4. CASE PutStop
  BY <1>4 DEF PutStop, Quiet
<1>5. CASE Join
  BY <1>5 DEF Join, Quiet
<1>6. CASE Finish
  BY <1>6 DEF Finish, Quiet
<1>7. CASE Take
  BY <1>7 DEF Take
<1>8. CASE Flush
  BY <1>8 DEF Flush, WriteBatch, Mode
<1>9. CASE WorkerEnds
  BY <1>9 DEF WorkerEnds
<1>10. ASSUME NEW t \in Threads, Emit(t) PROVE Emitters'
  BY <1>10 DEF Emit
<1>11. ASSUME NEW t \in Threads, Inactive(t) PROVE Emitters'
  BY <1>11 DEF Inactive, InHandler, Onward
<1>12. ASSUME NEW t \in Threads, Enqueue(t) PROVE Emitters'
  BY <1>12 DEF Enqueue, Taken, InHandler, Closing
<1>13. ASSUME NEW t \in Threads, CountSample(t) PROVE Emitters'
  BY <1>13 DEF CountSample, Onward
<1>14. ASSUME NEW t \in Threads, Refuse(t) PROVE Emitters'
  BY <1>14 DEF Refuse, InHandler, Onward
<1>15. ASSUME NEW t \in Threads, WriteThrough(t) PROVE Emitters'
  BY <1>15 DEF WriteThrough, Taken, InHandler, Closing, Onward, Mode
<1>16. CASE UNCHANGED vars
  BY <1>16 DEF vars
<1> QED
  BY <1>1, <1>2, <1>3, <1>4, <1>5, <1>6, <1>7, <1>8, <1>9, <1>10, <1>11, <1>12, <1>13,
     <1>14, <1>15, <1>16
     DEF Next, Handler, Worker, Close

LEMMA RowsStep == ASSUME Types, Handlers, Distinct, [Next]_vars PROVE Rows'
<1> USE ParametersAssumption DEF Types, Emitters, Rows, Stop, emitter, worker
<1>1. CASE Open
  BY <1>1 DEF Open
<1>2. CASE Deactivate
  BY <1>2 DEF Deactivate, Quiet
<1>3. CASE BeginClose
  BY <1>3 DEF BeginClose, Quiet
<1>4. CASE PutStop
  BY <1>4 DEF PutStop, Quiet
<1>5. CASE Join
  BY <1>5 DEF Join, Quiet
<1>6. CASE Finish
  BY <1>6 DEF Finish, Quiet
<1>7. CASE Take
  BY <1>7 DEF Take
<1>8. CASE Flush
  <2>1. CASE file' = file \o pending /\ pending' = <<>>
    BY <1>8, <2>1 DEF Flush
  <2>2. ASSUME NEW n \in 0..Len(pending), file' = file \o SubSeq(pending, 1, n),
               pending' = pending PROVE Rows'
    <3>1. SubSeq(pending, 1, n) \in Seq(Nat)
      BY SubSeqProperties
    <3> QED
      BY <1>8, <2>2, <3>1 DEF Flush
  <2> QED
    BY <1>8, <2>1, <2>2 DEF Flush, WriteBatch
<1>9. CASE WorkerEnds
  BY <1>9 DEF WorkerEnds
<1>10. ASSUME NEW t \in Threads, Emit(t) PROVE Rows'
  BY <1>10 DEF Emit
<1>11. ASSUME NEW t \in Threads, Inactive(t) PROVE Rows'
  BY <1>11 DEF Inactive, InHandler, Onward
<1>12. ASSUME NEW t \in Threads, Enqueue(t) PROVE Rows'
  <2>1. sample[t] \in Nat /\ accepted' \in Seq(Nat \ {0})
    BY <1>12, AcceptedIsNew DEF Enqueue
  <2> QED
    BY <1>12, <2>1, AppendProperties DEF Enqueue
<1>13. ASSUME NEW t \in Threads, CountSample(t) PROVE Rows'
  BY <1>13 DEF CountSample, Onward
<1>14. ASSUME NEW t \in Threads, Refuse(t) PROVE Rows'
  BY <1>14 DEF Refuse, InHandler, Onward
<1>15. ASSUME NEW t \in Threads, WriteThrough(t) PROVE Rows'
  <2>1. sample[t] \in Nat /\ Append(accepted, sample[t]) \in Seq(Nat \ {0})
    BY <1>15, AcceptedIsNew DEF WriteThrough
  <2>2. Append(file, sample[t]) \in Seq(Nat)
    BY <2>1, AppendProperties
  <2>3. UNCHANGED <<queue, pending>>
    BY <1>15 DEF WriteThrough
  <2>4. count' \in Nat
    BY <1>15, WriteThroughWrites
  <2>5. file' \in Seq(Nat) /\ accepted' \in Seq(Nat \ {0})
    BY <1>15, <2>1, <2>2, WriteThroughWrites
  <2> QED
    BY <2>3, <2>4, <2>5
<1>16. CASE UNCHANGED vars
  BY <1>16 DEF vars
<1> QED
  BY <1>1, <1>2, <1>3, <1>4, <1>5, <1>6, <1>7, <1>8, <1>9, <1>10, <1>11, <1>12, <1>13,
     <1>14, <1>15, <1>16
     DEF Next, Handler, Worker, Close

LEMMA TypesStep == ASSUME Types, Handlers, Distinct, [Next]_vars PROVE Types'
  BY FlagsStep, EmittersStep, RowsStep DEF Types

-----------------------------------------------------------------------------
\* The handlers and the phases of close()

LEMMA HandlersStep == ASSUME Types, Handlers, [Next]_vars PROVE Handlers'
<1> USE ParametersAssumption, ThreadsAssumption DEF Types, Flags, Emitters, Handlers,
         emitter, worker
<1>1. CASE Open
  <2>1. active' = Append(active, TRUE) /\ Len(active) \in Nat /\ active \in Seq(BOOLEAN)
    BY <1>1 DEF Open
  <2>2. /\ Len(active') = Len(active) + 1 /\ active' # <<>>
        /\ \A i \in 1..Len(active) : active'[i] = active[i]
    BY <2>1, AppendFlag, Zenon
  <2>3. \A i \in 1..Len(active) : ~active[i]
    BY <1>1 DEF Open
  <2>4. \A i \in 1..Len(active') : active'[i] => i = Len(active')
    BY <2>1, <2>2, <2>3
  <2>5. \A u \in Threads : at'[u] <= Len(active')
    BY <1>1, <2>1, <2>2 DEF Open
  <2> QED
    BY <1>1, <2>2, <2>4, <2>5 DEF Open
<1>2. CASE Deactivate
  BY <1>2 DEF Deactivate, Quiet
<1>3. CASE BeginClose
  BY <1>3 DEF BeginClose, Quiet
<1>4. CASE PutStop
  BY <1>4 DEF PutStop, Quiet
<1>5. CASE Join
  BY <1>5 DEF Join, Quiet
<1>6. CASE Finish
  BY <1>6 DEF Finish, Quiet
<1>7. CASE Take
  BY <1>7 DEF Take
<1>8. CASE Flush
  BY <1>8 DEF Flush, WriteBatch, Mode
<1>9. CASE WorkerEnds
  BY <1>9 DEF WorkerEnds
<1>10. ASSUME NEW t \in Threads, Emit(t) PROVE Handlers'
  BY <1>10 DEF Emit
<1>11. ASSUME NEW t \in Threads, Inactive(t) PROVE Handlers'
  BY <1>11 DEF Inactive, InHandler, Onward
<1>12. ASSUME NEW t \in Threads, Enqueue(t) PROVE Handlers'
  BY <1>12 DEF Enqueue, Taken, InHandler, Closing
<1>13. ASSUME NEW t \in Threads, CountSample(t) PROVE Handlers'
  BY <1>13 DEF CountSample, Onward
<1>14. ASSUME NEW t \in Threads, Refuse(t) PROVE Handlers'
  BY <1>14 DEF Refuse, InHandler, Onward
<1>15. ASSUME NEW t \in Threads, WriteThrough(t) PROVE Handlers'
  BY <1>15 DEF WriteThrough, Taken, InHandler, Closing, Onward, Mode
<1>16. CASE UNCHANGED vars
  BY <1>16 DEF vars
<1> QED
  BY <1>1, <1>2, <1>3, <1>4, <1>5, <1>6, <1>7, <1>8, <1>9, <1>10, <1>11, <1>12, <1>13,
     <1>14, <1>15, <1>16
     DEF Next, Handler, Worker, Close

LEMMA PhasesStep == ASSUME Types, Handlers, Phases, Content, [Next]_vars PROVE Phases'
<1> USE ParametersAssumption, ThreadsAssumption DEF Types, Flags, Rows, Phases, Stopped,
         emitter, worker
<1>1. CASE Open
  BY <1>1 DEF Open
<1>2. CASE Deactivate
  BY <1>2 DEF Deactivate, Quiet
<1>3. CASE BeginClose
  BY <1>3 DEF BeginClose, Quiet
<1>4. CASE PutStop
  <2>1. handle /\ buffered
    BY <1>4 DEF PutStop
  <2>2. CASE alive
    <3>1. queue' = Append(queue, Stop)
      BY <1>4, <2>2 DEF PutStop
    <3>2. Stopped'
      BY <3>1, AppendProperties DEF Stop
    <3> QED
      BY <1>4, <2>1, <2>2, <3>2 DEF PutStop, Quiet
  <2>3. CASE ~alive
    BY <1>4, <2>1, <2>3 DEF PutStop, Quiet
  <2> QED
    BY <2>2, <2>3
<1>5. CASE Join
  BY <1>5 DEF Join, Quiet
<1>6. CASE Finish
  BY <1>6 DEF Finish, Quiet
<1>7. CASE Take
  <2>1. queue' = Tail(queue) /\ Len(queue') = Len(queue) - 1 /\ Len(queue) \in Nat \ {0}
    BY <1>7, HeadTailProperties, EmptySeq DEF Take
  <2>2. ASSUME Stopped PROVE Stopped'
    <3>1. Len(queue) # 1
      BY <1>7, <2>2 DEF Take
    <3>2. Len(queue) - 1 \in 1..Len(queue')
      BY <2>1, <3>1
    <3>3. queue'[Len(queue) - 1] = queue[Len(queue)]
      BY <1>7, <2>1, <3>2, HeadTailProperties DEF Take
    <3>4. Len(queue') # 0
      BY <2>1, <3>1
    <3>5. queue' # <<>>
      BY <3>4, EmptySeq
    <3> QED
      BY <2>1, <2>2, <3>3, <3>5
  <2> QED
    BY <1>7, <2>2 DEF Take
<1>8. CASE Flush
  BY <1>8 DEF Flush, WriteBatch, Mode
<1>9. CASE WorkerEnds
  <2>1. queue \in Seq(Nat) /\ Len(queue) \in Nat \ {0} /\ queue[1] = Stop
    BY <1>9, EmptySeq DEF WorkerEnds
  <2>2. 1 \in 1..Len(queue)
    BY <2>1
  <2>3. Len(queue) = 1 /\ closer \in {"joining", "finish", "idle"}
    BY <2>1, <2>2 DEF Content, Queued
  <2>4. Tail(queue) = <<>>
    <3>1. Tail(queue) = SubSeq(queue, 2, 1)
      BY <2>1, <2>3, TailIsSubSeq, EmptySeq
    <3> QED
      BY <3>1, SubSeqEmpty
  <2>5. handle /\ closer \in {"joining", "finish"}
    BY <1>9, <2>1, <2>3 DEF WorkerEnds, Content, Queued
  <2> QED
    BY <1>9, <2>4, <2>5 DEF WorkerEnds
<1>10. ASSUME NEW t \in Threads, Emit(t) PROVE Phases'
  BY <1>10 DEF Emit
<1>11. ASSUME NEW t \in Threads, Inactive(t) PROVE Phases'
  BY <1>11 DEF Inactive, InHandler, Onward
<1>12. ASSUME NEW t \in Threads, Enqueue(t) PROVE Phases'
  BY <1>12 DEF Enqueue, Taken, InHandler, Closing
<1>13. ASSUME NEW t \in Threads, CountSample(t) PROVE Phases'
  BY <1>13 DEF CountSample, Onward
<1>14. ASSUME NEW t \in Threads, Refuse(t) PROVE Phases'
  BY <1>14 DEF Refuse, InHandler, Onward
<1>15. ASSUME NEW t \in Threads, WriteThrough(t) PROVE Phases'
  BY <1>15 DEF WriteThrough, Taken, InHandler, Closing, Onward, Mode
<1>16. CASE UNCHANGED vars
  BY <1>16 DEF vars
<1> QED
  BY <1>1, <1>2, <1>3, <1>4, <1>5, <1>6, <1>7, <1>8, <1>9, <1>10, <1>11, <1>12, <1>13,
     <1>14, <1>15, <1>16
     DEF Next, Handler, Worker, Close

LEMMA CarriedStep == ASSUME Types, Handlers, Distinct, [Next]_vars PROVE Carried'
<1> USE ParametersAssumption, ThreadsAssumption DEF Types, Emitters, Rows, Handlers,
         emitter, worker, Distinct, Carried
<1>1. CASE Open
  BY <1>1 DEF Open
<1>2. CASE Deactivate
  BY <1>2 DEF Deactivate, Quiet
<1>3. CASE BeginClose
  BY <1>3 DEF BeginClose, Quiet
<1>4. CASE PutStop
  BY <1>4 DEF PutStop, Quiet
<1>5. CASE Join
  BY <1>5 DEF Join, Quiet
<1>6. CASE Finish
  BY <1>6 DEF Finish, Quiet
<1>7. CASE Take
  BY <1>7 DEF Take
<1>8. CASE Flush
  BY <1>8 DEF Flush, WriteBatch, Mode
<1>9. CASE WorkerEnds
  BY <1>9 DEF WorkerEnds
<1>10. ASSUME NEW t \in Threads, Emit(t) PROVE Carried'
  <2>1. /\ at' = [at EXCEPT ![t] = 1] /\ sample' = [sample EXCEPT ![t] = sent + 1]
        /\ sent' = sent + 1 /\ sent \in Nat
    BY <1>10 DEF Emit
  <2>2. \A u \in Threads : u # t => at'[u] = at[u] /\ sample'[u] = sample[u]
    BY <2>1
  <2>3. sample'[t] = sent + 1
    BY <2>1
  <2>4. \A u \in Threads : u # t /\ at'[u] # 0 => sample'[u] \in 1..sent
    BY <2>2
  <2>5. ASSUME NEW u \in Threads, at'[u] # 0 PROVE sample'[u] \in 1..sent'
    BY <2>1, <2>3, <2>4, <2>5
  <2>6. ASSUME NEW u \in Threads, NEW v \in Threads, u # v, at'[u] # 0, at'[v] # 0
        PROVE  sample'[u] # sample'[v]
    <3>1. CASE u = t
      BY <2>1, <2>3, <2>4, <2>6, <3>1
    <3>2. CASE v = t
      BY <2>1, <2>3, <2>4, <2>6, <3>2
    <3>3. CASE u # t /\ v # t
      BY <2>2, <2>6, <3>3
    <3> QED
      BY <3>1, <3>2, <3>3
  <2> QED
    BY <2>5, <2>6
<1>11. ASSUME NEW t \in Threads, Inactive(t) PROVE Carried'
  BY <1>11 DEF Inactive, InHandler, Onward
<1>12. ASSUME NEW t \in Threads, Enqueue(t) PROVE Carried'
  BY <1>12 DEF Enqueue, Taken, InHandler, Closing
<1>13. ASSUME NEW t \in Threads, CountSample(t) PROVE Carried'
  BY <1>13 DEF CountSample, Onward
<1>14. ASSUME NEW t \in Threads, Refuse(t) PROVE Carried'
  BY <1>14 DEF Refuse, InHandler, Onward
<1>15. ASSUME NEW t \in Threads, WriteThrough(t) PROVE Carried'
  BY <1>15 DEF WriteThrough, Taken, InHandler, Closing, Onward, Mode
<1>16. CASE UNCHANGED vars
  BY <1>16 DEF vars
<1> QED
  BY <1>1, <1>2, <1>3, <1>4, <1>5, <1>6, <1>7, <1>8, <1>9, <1>10, <1>11, <1>12, <1>13,
     <1>14, <1>15, <1>16
     DEF Next, Handler, Worker, Close

LEMMA OnceStep == ASSUME Types, Handlers, Distinct, [Next]_vars PROVE Once'
<1> USE ParametersAssumption, ThreadsAssumption DEF Types, Emitters, Rows, Handlers,
         emitter, worker, Distinct, Once
<1>1. CASE Open
  BY <1>1 DEF Open
<1>2. CASE Deactivate
  BY <1>2 DEF Deactivate, Quiet
<1>3. CASE BeginClose
  BY <1>3 DEF BeginClose, Quiet
<1>4. CASE PutStop
  BY <1>4 DEF PutStop, Quiet
<1>5. CASE Join
  BY <1>5 DEF Join, Quiet
<1>6. CASE Finish
  BY <1>6 DEF Finish, Quiet
<1>7. CASE Take
  BY <1>7 DEF Take
<1>8. CASE Flush
  BY <1>8 DEF Flush, WriteBatch, Mode
<1>9. CASE WorkerEnds
  BY <1>9 DEF WorkerEnds
<1>10. ASSUME NEW t \in Threads, Emit(t) PROVE Once'
  BY <1>10 DEF Emit
<1>11. ASSUME NEW t \in Threads, Inactive(t) PROVE Once'
  BY <1>11 DEF Inactive, InHandler, Onward
<1>12. ASSUME NEW t \in Threads, Enqueue(t) PROVE Once'
  <2>1. accepted' = Append(accepted, sample[t]) /\ sent' = sent /\ Taken(t)
    BY <1>12 DEF Enqueue
  <2>2. /\ sample[t] \in Nat \ {0} /\ sample[t] <= sent /\ sent \in Nat
        /\ \A i \in 1..Len(accepted) : accepted[i] # sample[t]
    BY <2>1, AcceptedIsNew
  <2> QED
    BY <2>1, <2>2, OnceGrows DEF Once
<1>13. ASSUME NEW t \in Threads, CountSample(t) PROVE Once'
  BY <1>13 DEF CountSample, Onward
<1>14. ASSUME NEW t \in Threads, Refuse(t) PROVE Once'
  BY <1>14 DEF Refuse, InHandler, Onward
<1>15. ASSUME NEW t \in Threads, WriteThrough(t) PROVE Once'
  <2>1. Taken(t) /\ sent' = sent
    BY <1>15 DEF WriteThrough
  <2>2. CASE accepted' = accepted
    BY <2>1, <2>2
  <2>3. CASE accepted' = Append(accepted, sample[t])
    <3>1. /\ sample[t] \in Nat \ {0} /\ sample[t] <= sent /\ sent \in Nat
          /\ \A i \in 1..Len(accepted) : accepted[i] # sample[t]
      BY <2>1, AcceptedIsNew
    <3> QED
      BY <2>1, <2>3, <3>1, OnceGrows DEF Once
  <2> QED
    BY <1>15, <2>2, <2>3, WriteThroughWrites
<1>16. CASE UNCHANGED vars
  BY <1>16 DEF vars
<1> QED
  BY <1>1, <1>2, <1>3, <1>4, <1>5, <1>6, <1>7, <1>8, <1>9, <1>10, <1>11, <1>12, <1>13,
     <1>14, <1>15, <1>16
     DEF Next, Handler, Worker, Close

LEMMA NotYetStep == ASSUME Types, Handlers, Distinct, [Next]_vars PROVE NotYet'
<1> USE ParametersAssumption, ThreadsAssumption DEF Types, Emitters, Rows, Handlers,
         emitter, worker, Distinct, NotYet
<1>1. CASE Open
  BY <1>1 DEF Open
<1>2. CASE Deactivate
  BY <1>2 DEF Deactivate, Quiet
<1>3. CASE BeginClose
  BY <1>3 DEF BeginClose, Quiet
<1>4. CASE PutStop
  BY <1>4 DEF PutStop, Quiet
<1>5. CASE Join
  BY <1>5 DEF Join, Quiet
<1>6. CASE Finish
  BY <1>6 DEF Finish, Quiet
<1>7. CASE Take
  BY <1>7 DEF Take
<1>8. CASE Flush
  BY <1>8 DEF Flush, WriteBatch, Mode
<1>9. CASE WorkerEnds
  BY <1>9 DEF WorkerEnds
<1>10. ASSUME NEW t \in Threads, Emit(t) PROVE NotYet'
  BY <1>10 DEF Emit, Once
<1>11. ASSUME NEW t \in Threads, Inactive(t) PROVE NotYet'
  BY <1>11 DEF Inactive, InHandler, Onward
<1>12. ASSUME NEW t \in Threads, Enqueue(t) PROVE NotYet'
  <2>1. /\ accepted' = Append(accepted, sample[t]) /\ UNCHANGED <<at, sample>>
        /\ lock' = t /\ Taken(t)
    BY <1>12 DEF Enqueue
  <2>2. lock = Free /\ at[t] # 0
    BY <2>1, WriterIsLast
  <2>3. /\ \A i \in 1..Len(accepted) : accepted'[i] = accepted[i]
        /\ accepted'[Len(accepted) + 1] = sample[t]
        /\ Len(accepted') = Len(accepted) + 1 /\ Len(accepted) \in Nat
    BY <2>1, AcceptedIsNew
  <2>4. ASSUME NEW u \in Threads, at[u] # 0, u # t, NEW i \in 1..Len(accepted')
        PROVE  accepted'[i] # sample[u]
    <3>1. sample[u] # sample[t]
      BY <2>2, <2>4 DEF Carried
    <3>2. i \in 1..Len(accepted) => accepted[i] # sample[u]
      BY <2>2, <2>4
    <3>3. CASE i = Len(accepted) + 1
      BY <2>3, <3>1, <3>3
    <3>4. CASE i \in 1..Len(accepted)
      BY <2>3, <3>2, <3>4
    <3> QED
      BY <2>3, <2>4, <3>3, <3>4
  <2> QED
    BY <2>1, <2>4
<1>13. ASSUME NEW t \in Threads, CountSample(t) PROVE NotYet'
  <2>1. UNCHANGED <<accepted, sample>> /\ lock = t /\ Onward(t)
    BY <1>13 DEF CountSample
  <2>2. at' = [at EXCEPT ![t] = 0]
    <3>1. at[t] = Len(active) /\ Len(active) \in Nat
      BY <2>1
    <3>2. ~(at[t] < Len(active))
      BY <3>1
    <3> QED
      BY <2>1, <3>2, Zenon DEF Onward
  <2>3. ASSUME NEW u \in Threads, at'[u] # 0 PROVE u # t /\ at[u] # 0 /\ lock # u
    BY <2>1, <2>2, <2>3
  <2> QED
    BY <2>1, <2>3
<1>14. ASSUME NEW t \in Threads, Refuse(t) PROVE NotYet'
  BY <1>14 DEF Refuse, InHandler, Onward
<1>15. ASSUME NEW t \in Threads, WriteThrough(t) PROVE NotYet'
  <2>1. Taken(t) /\ lock' = lock /\ sample' = sample /\ Onward(t)
    BY <1>15 DEF WriteThrough
  <2>2. at[t] = Len(active) /\ at[t] # 0 /\ lock = Free
    BY <2>1, WriterIsLast
  <2>3. ~(at[t] < Len(active))
    BY <2>2
  <2>4. at' = [at EXCEPT ![t] = 0]
    BY <2>1, <2>3 DEF Onward
  <2>5. CASE accepted' = accepted
    BY <2>1, <2>2, <2>4, <2>5
  <2>6. CASE accepted' = Append(accepted, sample[t])
    <3>1. /\ \A i \in 1..Len(accepted) : accepted'[i] = accepted[i]
          /\ accepted'[Len(accepted) + 1] = sample[t]
          /\ Len(accepted') = Len(accepted) + 1 /\ Len(accepted) \in Nat
      BY <2>1, <2>6, AcceptedIsNew
    <3>2. ASSUME NEW u \in Threads, at[u] # 0, u # t, NEW i \in 1..Len(accepted')
          PROVE  accepted'[i] # sample[u]
      <4>1. sample[u] # sample[t]
        BY <2>2, <3>2 DEF Carried
      <4>2. i \in 1..Len(accepted) => accepted[i] # sample[u]
        BY <2>2, <3>2
      <4>3. CASE i = Len(accepted) + 1
        BY <3>1, <4>1, <4>3
      <4>4. CASE i \in 1..Len(accepted)
        BY <3>1, <4>2, <4>4
      <4> QED
        BY <3>1, <3>2, <4>3, <4>4
    <3> QED
      BY <2>1, <2>4, <3>2
  <2> QED
    BY <1>15, <2>5, <2>6, WriteThroughWrites
<1>16. CASE UNCHANGED vars
  BY <1>16 DEF vars
<1> QED
  BY <1>1, <1>2, <1>3, <1>4, <1>5, <1>6, <1>7, <1>8, <1>9, <1>10, <1>11, <1>12, <1>13,
     <1>14, <1>15, <1>16
     DEF Next, Handler, Worker, Close

LEMMA DistinctStep == ASSUME Types, Handlers, Distinct, [Next]_vars PROVE Distinct'
  BY CarriedStep, OnceStep, NotYetStep DEF Distinct

-----------------------------------------------------------------------------
\* Where the samples are

\* While a recording goes on there is no sentinel.
LEMMA NotStopped ==
  ASSUME Types, Content, handle, closer \in {"idle", "closing", "putting"}
  PROVE  ~Stopped /\ \A i \in 1..Len(queue) : queue[i] # Stop
<1>1. \A i \in 1..Len(queue) : queue[i] # Stop
  <2>1. ASSUME NEW i \in 1..Len(queue), queue[i] = Stop PROVE FALSE
    <3>1. i = Len(queue) /\ closer = "idle"
      BY <2>1 DEF Content, Queued
    <3>2. queue # <<>>
      BY <2>1, EmptySeq
    <3> QED
      BY <2>1, <3>1, <3>2 DEF Content, Queued, Stopped
  <2> QED
    BY <2>1
<1>2. queue # <<>> => Len(queue) \in 1..Len(queue)
  BY EmptySeq DEF Types, Rows
<1> QED
  BY <1>1, <1>2 DEF Stopped

\* Taking the head of the queue into the batch moves no sample.
LEMMA TakeKeepsBacklog == ASSUME Types, Take PROVE Backlog' = Backlog
<1>1. PICK S, f, p, q : /\ f = file /\ p = pending /\ q = queue /\ q # <<>>
                        /\ f \in Seq(S) /\ p \in Seq(S) /\ q \in Seq(S)
  BY DEF Types, Rows, Take
<1>2. PICK h, r : /\ h = Head(q) /\ r = Tail(q) /\ h \in S /\ r \in Seq(S)
  BY <1>1, HeadTailProperties
<1>3. q = <<h>> \o r
  <2>1. /\ <<h>> \o r \in Seq(S) /\ Len(<<h>> \o r) = Len(q)
        /\ \A i \in 1..Len(q) : (<<h>> \o r)[i] = q[i]
    BY <1>1, <1>2, HeadTailProperties, LenProperties, ConcatProperties
  <2> QED
    BY <1>1, <2>1, SeqEqual
<1>4. /\ f \in Seq(S) /\ p \in Seq(S) /\ <<h>> \in Seq(S) /\ f \o p \in Seq(S)
  BY <1>1, <1>2, ConcatProperties
<1>5. Append(p, h) = p \o <<h>>
  BY <1>1, <1>2, AppendIsConcat
<1>6. f \o (p \o <<h>>) = (f \o p) \o <<h>>
  BY <1>4, ConcatAssociative
<1>7. ((f \o p) \o <<h>>) \o r = (f \o p) \o (<<h>> \o r)
  <2>1. \A x, y, z \in Seq(S) : (x \o y) \o z = x \o (y \o z)
    BY ConcatAssociative
  <2> QED
    BY <1>2, <1>4, <2>1
<1>8. file' = f /\ pending' = Append(p, h) /\ queue' = r
  BY <1>1, <1>2 DEF Take
<1>9. Backlog' = (f \o Append(p, h)) \o r /\ Backlog = (f \o p) \o q
  BY <1>1, <1>8, Zenon DEF Backlog
<1> QED
  BY <1>3, <1>5, <1>6, <1>7, <1>9, Zenon

\* The sentinel the worker meets is all there is in the queue.
LEMMA WorkerEndsQueue ==
  ASSUME Types, Content, WorkerEnds
  PROVE  queue = <<Stop>> /\ Tail(queue) = <<>> /\ Stopped
<1>1. queue \in Seq(Nat) /\ Len(queue) \in Nat \ {0} /\ queue[1] = Stop /\ queue # <<>>
  BY EmptySeq DEF WorkerEnds, Types, Rows
<1>2. 1 \in 1..Len(queue)
  BY <1>1
<1>3. Len(queue) = 1
  BY <1>1, <1>2 DEF Content, Queued
<1>4. Tail(queue) = SubSeq(queue, 2, 1)
  BY <1>1, <1>3, TailIsSubSeq
<1>5. Tail(queue) = <<>>
  BY <1>4, SubSeqEmpty
<1>6. queue = <<Stop>>
  BY <1>1, <1>3 DEF Stop
<1> QED
  BY <1>1, <1>3, <1>5, <1>6 DEF Stopped

\* Taking a sample leaves the sentinel where it is.
LEMMA TakeKeepsStop == ASSUME Types, Take PROVE Stopped' <=> Stopped
<1>1. /\ queue \in Seq(Nat) /\ queue # <<>> /\ queue' = Tail(queue) /\ queue[1] # Stop
      /\ Len(queue) \in Nat \ {0} /\ Len(queue') = Len(queue) - 1
  BY HeadTailProperties, EmptySeq DEF Types, Rows, Take
<1>2. CASE Len(queue) = 1
  <2>1. queue' = <<>>
    BY <1>1, <1>2, EmptySeq, HeadTailProperties
  <2> QED
    BY <1>1, <1>2, <2>1 DEF Stopped
<1>3. CASE Len(queue) # 1
  <2>1. Len(queue) - 1 \in 1..Len(Tail(queue)) /\ Len(queue') # 0
    BY <1>1, <1>3
  <2>2. queue'[Len(queue) - 1] = queue[Len(queue)]
    BY <1>1, <2>1, HeadTailProperties
  <2>3. queue' # <<>>
    BY <2>1, EmptySeq
  <2> QED
    BY <1>1, <2>2, <2>3 DEF Stopped
<1> QED
  BY <1>2, <1>3

\* What is in the tail was in the sequence, one place behind.
LEMMA TailShifts ==
  ASSUME NEW S, NEW q \in Seq(S), q # <<>>, NEW i \in 1..Len(Tail(q))
  PROVE  /\ i + 1 \in 1..Len(q) /\ Tail(q)[i] = q[i + 1]
         /\ i + 1 = Len(q) => i = Len(Tail(q))
<1>1. PICK n : n = Len(q) /\ n \in Nat \ {0}
  BY EmptySeq
<1>2. PICK m : m = Len(Tail(q)) /\ m = n - 1
  BY <1>1, HeadTailProperties
<1>3. i \in 1..m /\ Tail(q)[i] = q[i + 1]
  BY <1>2, HeadTailProperties
<1> QED
  BY <1>1, <1>2, <1>3

LEMMA QueuedStep ==
  ASSUME Types, Handlers, Distinct, Phases, Content, [Next]_vars PROVE Queued'
<1> USE DEF Content, Queued, Stopped, emitter, worker
<1>1. CASE Open
  BY <1>1, EmptySeq DEF Open
<1>2. CASE Deactivate
  <2>1. \A i \in 1..Len(queue) : queue[i] # Stop
    BY <1>2, NotStopped DEF Deactivate
  <2> QED
    BY <1>2, <2>1 DEF Deactivate, Quiet
<1>3. CASE BeginClose
  BY <1>3 DEF BeginClose, Quiet
<1>4. CASE PutStop
  <2>1. handle
    BY <1>4 DEF PutStop, Phases
  <2>2. \A i \in 1..Len(queue) : queue[i] # Stop
    BY <1>4, <2>1, NotStopped DEF PutStop
  <2>3. /\ Len(queue') \in {Len(queue), Len(queue) + 1}
        /\ \A i \in 1..Len(queue) : queue'[i] = queue[i]
    BY <1>4, AppendProperties DEF PutStop, Types, Rows, Stop
  <2> QED
    BY <1>4, <2>2, <2>3 DEF PutStop, Quiet, Types, Rows
<1>5. CASE Join
  BY <1>5 DEF Join, Quiet
<1>6. CASE Finish
  BY <1>6 DEF Finish, Quiet
<1>7. CASE Take
  <2>1. Stopped' <=> Stopped
    BY <1>7, TakeKeepsStop
  <2>2. /\ queue \in Seq(Nat) /\ queue # <<>> /\ queue' = Tail(queue)
        /\ Len(queue) \in Nat \ {0}
        /\ pending \in Seq(Nat) /\ Head(queue) \in Nat \ {Stop}
        /\ pending' = Append(pending, Head(queue))
        /\ UNCHANGED <<closer, handle>>
    BY <1>7, HeadTailProperties, EmptySeq DEF Take, Types, Rows
  <2>3. ASSUME NEW i \in 1..Len(queue'), queue'[i] = Stop
        PROVE  i = Len(queue') /\ closer' \in {"joining", "finish", "idle"}
    <3>1. /\ queue[i + 1] = Stop /\ i + 1 \in 1..Len(queue)
          /\ i + 1 = Len(queue) => i = Len(queue')
      BY <2>2, <2>3, TailShifts
    <3> QED
      BY <2>2, <3>1
  <2>4. \A i \in 1..Len(pending') : pending'[i] # Stop
    BY <2>2, AppendProperties
  <2>5. Stopped' /\ closer' = "idle" => ~handle'
    BY <2>1, <2>2
  <2> QED
    BY <2>3, <2>4, <2>5
<1>8. CASE Flush
  <2>1. UNCHANGED <<queue, closer, handle>> /\ pending' \in {pending, <<>>}
    BY <1>8 DEF Flush, WriteBatch
  <2> QED
    BY <2>1, EmptySeq
<1>9. CASE WorkerEnds
  <2>1. queue' = <<>> /\ UNCHANGED <<closer, handle, pending>>
    BY <1>9, WorkerEndsQueue DEF WorkerEnds
  <2> QED
    BY <2>1, EmptySeq
<1>10. ASSUME NEW t \in Threads, Emit(t) PROVE Queued'
  BY <1>10 DEF Emit
<1>11. ASSUME NEW t \in Threads, Inactive(t) PROVE Queued'
  BY <1>11 DEF Inactive, InHandler, Onward
<1>12. ASSUME NEW t \in Threads, Enqueue(t) PROVE Queued'
  <2>1. Taken(t) /\ queue' = Append(queue, sample[t]) /\ UNCHANGED <<closer, handle, pending>>
    BY <1>12 DEF Enqueue
  <2>2. handle /\ closer = "idle"
    BY <2>1 DEF Taken, InHandler, Handlers
  <2>3. sample[t] \in Nat \ {Stop}
    BY <2>1, AcceptedIsNew DEF Stop
  <2>4. \A i \in 1..Len(queue) : queue[i] # Stop
    BY <2>2, NotStopped
  <2>5. queue \in Seq(Nat) /\ Len(queue) \in Nat
    BY DEF Types, Rows
  <2>6. \A i \in 1..Len(queue') : queue'[i] # Stop
    BY <2>1, <2>3, <2>4, <2>5, AppendProperties
  <2>7. ~Stopped'
    BY <2>1, <2>3, <2>5, AppendProperties
  <2> QED
    BY <2>1, <2>6, <2>7
<1>13. ASSUME NEW t \in Threads, CountSample(t) PROVE Queued'
  BY <1>13 DEF CountSample, Onward
<1>14. ASSUME NEW t \in Threads, Refuse(t) PROVE Queued'
  BY <1>14 DEF Refuse, InHandler, Onward
<1>15. ASSUME NEW t \in Threads, WriteThrough(t) PROVE Queued'
  BY <1>15 DEF WriteThrough, Taken, InHandler, Closing, Onward, Mode
<1>16. CASE UNCHANGED vars
  BY <1>16 DEF vars
<1> QED
  BY <1>1, <1>2, <1>3, <1>4, <1>5, <1>6, <1>7, <1>8, <1>9, <1>10, <1>11, <1>12, <1>13,
     <1>14, <1>15, <1>16
     DEF Next, Handler, Worker, Close

\* Without a failure, what is in the file and in the batch are the first samples
\* taken over, and without a sentinel the queue has the others.
LEMMA FirstAccepted ==
  ASSUME Types, Content, ~error
  PROVE  /\ file \o pending \in Seq(Nat) /\ Len(file \o pending) <= Len(accepted)
         /\ \A i \in 1..Len(file \o pending) : (file \o pending)[i] = accepted[i]
<1> DEFINE b == file \o pending
<1>1. /\ file \in Seq(Nat) /\ pending \in Seq(Nat) /\ queue \in Seq(Nat)
      /\ accepted \in Seq(Nat) /\ Len(accepted) \in Nat
  BY SeqMonotonic DEF Types, Rows
<1>2. b \in Seq(Nat)
  BY <1>1, ConcatProperties
<1> DEFINE c == b \o queue
<1> HIDE DEF b
<1>3. /\ Len(c) = Len(b) + Len(queue) /\ Len(b) \in Nat /\ Len(queue) \in Nat
      /\ \A i \in 1..Len(b) : (c)[i] = b[i]
  BY <1>1, <1>2, ConcatProperties
<1> HIDE DEF c
<1>4. CASE Stopped
  <2>1. c = Append(accepted, Stop)
    BY <1>4 DEF b, c, Content, Order, Backlog
  <2>2. Len(queue) # 0
    BY <1>1, <1>4, EmptySeq DEF Stopped
  <2>3. /\ Len(c) = Len(accepted) + 1
        /\ \A i \in 1..Len(accepted) : (c)[i] = accepted[i]
    BY <1>1, <2>1, AppendProperties DEF Stop
  <2>4. Len(b) <= Len(accepted)
    BY <1>1, <1>3, <2>2, <2>3
  <2>5. \A i \in 1..Len(b) : b[i] = accepted[i]
    BY <1>1, <1>3, <2>3, <2>4
  <2> QED
    BY <1>2, <2>4, <2>5 DEF b
<1>5. CASE ~Stopped
  <2>1. c = accepted
    BY <1>5 DEF b, c, Content, Order, Backlog
  <2>2. Len(b) <= Len(accepted)
    BY <1>3, <2>1
  <2>3. \A i \in 1..Len(b) : b[i] = accepted[i]
    BY <1>1, <1>3, <2>1, <2>2
  <2> QED
    BY <1>2, <2>2, <2>3 DEF b
<1> QED
  BY <1>4, <1>5

\* A longer log has the same first samples.
LEMMA AppendKeepsFirst ==
  ASSUME NEW a \in Seq(Nat), NEW f \in Seq(Nat), NEW x \in Nat, Len(f) <= Len(a),
         \A i \in 1..Len(f) : f[i] = a[i]
  PROVE  /\ Len(f) <= Len(Append(a, x))
         /\ \A i \in 1..Len(f) : f[i] = Append(a, x)[i]
<1>1. /\ Len(Append(a, x)) = Len(a) + 1 /\ Len(a) \in Nat /\ Len(f) \in Nat
      /\ \A i \in 1..Len(a) : Append(a, x)[i] = a[i]
  BY AppendProperties
<1> QED
  BY <1>1

LEMMA AppendEnds ==
  ASSUME NEW a \in Seq(Nat), NEW x \in Nat
  PROVE  Append(a, x) # <<>> /\ Append(a, x)[Len(Append(a, x))] = x
<1>1. Len(Append(a, x)) = Len(a) + 1 /\ Append(a, x) # <<>> /\ Append(a, x)[Len(a) + 1] = x
  BY AppendProperties
<1> QED
  BY <1>1

LEMMA OrderStep ==
  ASSUME Types, Handlers, Distinct, Phases, Content, [Next]_vars PROVE Order'
<1> USE DEF Order, emitter, worker
<1>1. CASE Open
  <2>1. UNCHANGED closer /\ file' = <<>> /\ pending' = <<>> /\ queue' = <<>> /\ accepted' = <<>>
    BY <1>1 DEF Open
  <2>2. Backlog' = <<>>
    BY <2>1, ConcatEmptySeq, EmptySeq DEF Backlog
  <2> QED
    BY <2>1, <2>2, EmptySeq DEF Stopped
<1>2. CASE Deactivate
  BY <1>2 DEF Deactivate, Quiet, Content, Backlog, Stopped
<1>3. CASE BeginClose
  BY <1>3 DEF BeginClose, Quiet, Content, Backlog, Stopped
<1>4. CASE PutStop
  <2>1. UNCHANGED <<file, pending, accepted, error, alive>> /\ closer = "putting"
    BY <1>4 DEF PutStop, Quiet
  <2>2. handle
    BY <2>1 DEF Phases
  <2>3. ~Stopped
    BY <2>1, <2>2, NotStopped
  <2>4. CASE queue' = queue
    BY <2>1, <2>4 DEF Content, Backlog, Stopped
  <2>5. CASE queue' = Append(queue, Stop)
    <3>1. queue \in Seq(Nat) /\ file \o pending \in Seq(Nat) /\ Stop \in Nat
      BY ConcatProperties DEF Types, Rows, Stop
    <3>2. Backlog' = Append(Backlog, Stop)
      BY <2>1, <2>5, <3>1, AppendMoves DEF Backlog
    <3>3. queue' # <<>> /\ queue'[Len(queue')] = Stop
      BY <2>5, <3>1, AppendEnds
    <3>4. Stopped'
      BY <3>3 DEF Stopped
    <3> QED
      BY <2>1, <2>3, <3>2, <3>4 DEF Content
  <2> QED
    BY <1>4, <2>4, <2>5 DEF PutStop
<1>5. CASE Join
  BY <1>5 DEF Join, Quiet, Content, Backlog, Stopped
<1>6. CASE Finish
  BY <1>6 DEF Finish, Quiet, Content, Backlog, Stopped
<1>7. CASE Take
  <2>1. UNCHANGED <<file, accepted, error>> /\ (Stopped' <=> Stopped)
    BY <1>7, TakeKeepsStop DEF Take
  <2>2. Backlog' = Backlog
    BY <1>7, TakeKeepsBacklog
  <2> QED
    BY <2>1, <2>2 DEF Content
<1>8. CASE Flush
  <2>1. UNCHANGED <<queue, accepted>> /\ ~error
    BY <1>8 DEF Flush, Phases
  <2>2. PICK g : /\ g = file \o pending /\ g \in Seq(Nat) /\ Len(g) <= Len(accepted)
                 /\ \A i \in 1..Len(g) : g[i] = accepted[i]
    BY <2>1, FirstAccepted
  <2>3. CASE file' = file \o pending /\ pending' = <<>> /\ error' = error
    <3>1. Backlog' = Backlog
      BY <2>1, <2>2, <2>3, ConcatEmptySeq DEF Backlog
    <3> QED
      BY <2>1, <2>2, <2>3, <3>1 DEF Content, Stopped
  <2>4. ASSUME NEW n \in 0..Len(pending), file' = file \o SubSeq(pending, 1, n), error'
        PROVE  Order'
    <3>1. file \in Seq(Nat) /\ pending \in Seq(Nat) /\ Len(pending) \in Nat /\ Len(file) \in Nat
      BY DEF Types, Rows
    <3>2. /\ SubSeq(pending, 1, n) \in Seq(Nat) /\ Len(SubSeq(pending, 1, n)) = n
          /\ \A i \in 1..n : SubSeq(pending, 1, n)[i] = pending[i]
      BY <2>4, <3>1, SubSeqProperties
    <3>3. Len(file') = Len(file) + n /\ Len(g) = Len(file) + Len(pending)
      BY <2>2, <2>4, <3>1, <3>2, ConcatProperties
    <3>4. \A i \in 1..Len(file) + n : file'[i] = g[i]
      BY <2>2, <2>4, <3>1, <3>2, ConcatProperties
    <3>5. Len(accepted) \in Nat /\ accepted' = accepted
      BY <2>1 DEF Types, Rows
    <3>6. PICK f, k : f = file' /\ k = Len(f) /\ k = Len(file) + n
      BY <3>3
    <3>7. k <= Len(g) /\ k \in Nat /\ \A i \in 1..k : f[i] = g[i]
      BY <2>4, <3>1, <3>3, <3>4, <3>6
    <3>8. k <= Len(accepted) /\ \A i \in 1..k : f[i] = accepted[i]
      <4>1. PICK lg, la : lg = Len(g) /\ la = Len(accepted) /\ lg \in Nat /\ la \in Nat /\ lg <= la
        BY <2>2, <3>1, <3>3, <3>5
      <4>2. k <= lg /\ k <= la
        BY <3>7, <4>1
      <4>3. ASSUME NEW i \in 1..k PROVE f[i] = accepted[i]
        <5>1. i \in 1..Len(g)
          BY <3>7, <4>1, <4>2
        <5> QED
          BY <2>2, <3>7, <5>1, Zenon
      <4> QED
        BY <4>1, <4>2, <4>3
    <3> QED
      BY <2>4, <3>5, <3>6, <3>8
  <2> QED
    BY <1>8, <2>3, <2>4 DEF Flush, WriteBatch
<1>9. CASE WorkerEnds
  <2>1. /\ queue = <<Stop>> /\ queue' = <<>> /\ Stopped /\ pending = <<>> /\ ~error
        /\ UNCHANGED <<file, pending, accepted, error>>
    BY <1>9, WorkerEndsQueue DEF WorkerEnds, Phases
  <2>2. file \in Seq(Nat) /\ accepted \in Seq(Nat) /\ Stop \in Nat
    BY SeqMonotonic DEF Types, Rows, Stop
  <2>3. file \o <<>> = file /\ Backlog = Append(file, Stop) /\ Backlog' = file
    BY <2>1, <2>2, ConcatEmptySeq, AppendIsConcat DEF Backlog
  <2>4. file = accepted
    <3>1. Append(file, Stop) = Append(accepted, Stop)
      BY <2>1, <2>3 DEF Content
    <3> QED
      BY <2>2, <3>1, AppendInjective
  <2> QED
    BY <2>1, <2>3, <2>4 DEF Content, Stopped
<1>10. ASSUME NEW t \in Threads, Emit(t) PROVE Order'
  BY <1>10 DEF Emit, Content, Backlog, Stopped
<1>11. ASSUME NEW t \in Threads, Inactive(t) PROVE Order'
  BY <1>11 DEF Inactive, InHandler, Onward, Content, Backlog, Stopped
<1>12. ASSUME NEW t \in Threads, Enqueue(t) PROVE Order'
  <2>1. /\ Taken(t) /\ queue' = Append(queue, sample[t])
        /\ accepted' = Append(accepted, sample[t])
        /\ UNCHANGED <<file, pending, error>>
    BY <1>12 DEF Enqueue
  <2>2. handle /\ closer = "idle" /\ ~error
    BY <2>1 DEF Taken, InHandler, Handlers
  <2>3. sample[t] \in Nat \ {0}
    BY <2>1, AcceptedIsNew
  <2>4. /\ file \in Seq(Nat) /\ pending \in Seq(Nat) /\ queue \in Seq(Nat)
        /\ accepted \in Seq(Nat) /\ file \o pending \in Seq(Nat)
    BY SeqMonotonic, ConcatProperties DEF Types, Rows
  <2>5. ~Stopped /\ ~Stopped'
    BY <2>1, <2>2, <2>3, <2>4, NotStopped, AppendProperties DEF Stopped, Stop
  <2>6. Backlog' = Append(Backlog, sample[t])
    <3>1. PICK S : file \o pending \in Seq(S) /\ queue \in Seq(S) /\ sample[t] \in S
      BY <2>3, <2>4
    <3>2. (file \o pending) \o Append(queue, sample[t])
            = Append((file \o pending) \o queue, sample[t])
      BY <3>1, AppendMoves
    <3> QED
      BY <2>1, <3>2, Zenon DEF Backlog
  <2>7. /\ Len(file) <= Len(accepted')
        /\ \A i \in 1..Len(file) : file[i] = accepted'[i]
    BY <2>1, <2>3, <2>4, AppendKeepsFirst DEF Content
  <2> QED
    BY <2>1, <2>2, <2>5, <2>6, <2>7 DEF Content
<1>13. ASSUME NEW t \in Threads, CountSample(t) PROVE Order'
  BY <1>13 DEF CountSample, Onward, Content, Backlog, Stopped
<1>14. ASSUME NEW t \in Threads, Refuse(t) PROVE Order'
  BY <1>14 DEF Refuse, InHandler, Onward, Content, Backlog, Stopped
<1>15. ASSUME NEW t \in Threads, WriteThrough(t) PROVE Order'
  <2>1. Taken(t) /\ ~buffered /\ UNCHANGED <<queue, pending, error>>
    BY <1>15 DEF WriteThrough, worker
  <2>2. queue = <<>> /\ pending = <<>> /\ ~Stopped /\ ~Stopped' /\ ~error
    BY <2>1 DEF Phases, Stopped
  <2>3. file \in Seq(Nat) /\ accepted \in Seq(Nat) /\ sample[t] \in Nat
    BY <2>1, AcceptedIsNew, SeqMonotonic DEF Types, Rows
  <2>4. file = accepted
    BY <2>2, <2>3, ConcatEmptySeq DEF Content, Backlog
  <2>5. file' = accepted' /\ file' \in Seq(Nat)
    <3>1. Rows
      BY DEF Types
    <3>2. \/ file' = file /\ accepted' = accepted
          \/ file' = Append(file, sample[t]) /\ accepted' = Append(accepted, sample[t])
      BY <1>15, <3>1, WriteThroughWrites
    <3>3. Append(file, sample[t]) \in Seq(Nat)
      BY <2>3, AppendProperties
    <3> QED
      BY <2>3, <2>4, <3>2, <3>3, Zenon
  <2>6. Backlog' = file'
    BY <2>1, <2>2, <2>5, ConcatEmptySeq DEF Backlog
  <2> QED
    BY <2>2, <2>5, <2>6
<1>16. CASE UNCHANGED vars
  BY <1>16 DEF vars, Content, Backlog, Stopped
<1> QED
  BY <1>1, <1>2, <1>3, <1>4, <1>5, <1>6, <1>7, <1>8, <1>9, <1>10, <1>11, <1>12, <1>13,
     <1>14, <1>15, <1>16
     DEF Next, Handler, Worker, Close

LEMMA CountedStep ==
  ASSUME Types, Handlers, Distinct, Phases, Content, [Next]_vars PROVE Counted'
<1> USE ThreadsAssumption DEF Content, Counted, Types, Rows, emitter, worker
<1>1. CASE Open
  BY <1>1, EmptySeq DEF Open
<1>2. CASE Deactivate
  BY <1>2 DEF Deactivate, Quiet
<1>3. CASE BeginClose
  BY <1>3 DEF BeginClose, Quiet
<1>4. CASE PutStop
  BY <1>4 DEF PutStop, Quiet
<1>5. CASE Join
  BY <1>5 DEF Join, Quiet
<1>6. CASE Finish
  BY <1>6 DEF Finish, Quiet
<1>7. CASE Take
  BY <1>7 DEF Take
<1>8. CASE Flush
  BY <1>8 DEF Flush, WriteBatch, Mode
<1>9. CASE WorkerEnds
  BY <1>9 DEF WorkerEnds
<1>10. ASSUME NEW t \in Threads, Emit(t) PROVE Counted'
  BY <1>10 DEF Emit
<1>11. ASSUME NEW t \in Threads, Inactive(t) PROVE Counted'
  BY <1>11 DEF Inactive, InHandler, Onward
<1>12. ASSUME NEW t \in Threads, Enqueue(t) PROVE Counted'
  <2>1. Taken(t) /\ accepted' = Append(accepted, sample[t]) /\ count' = count /\ lock' = t
    BY <1>12 DEF Enqueue
  <2>2. lock = Free
    BY <2>1 DEF Taken, InHandler
  <2>3. Len(accepted') = Len(accepted) + 1
    BY <2>1, AcceptedIsNew
  <2> QED
    BY <2>1, <2>2, <2>3
<1>13. ASSUME NEW t \in Threads, CountSample(t) PROVE Counted'
  BY <1>13 DEF CountSample, Onward
<1>14. ASSUME NEW t \in Threads, Refuse(t) PROVE Counted'
  BY <1>14 DEF Refuse, InHandler, Onward
<1>15. ASSUME NEW t \in Threads, WriteThrough(t) PROVE Counted'
  <2>1. Taken(t) /\ lock' = lock
    BY <1>15 DEF WriteThrough
  <2>2. lock = Free
    BY <2>1 DEF Taken, InHandler
  <2>3. CASE UNCHANGED <<accepted, count>>
    BY <2>1, <2>3
  <2>4. CASE accepted' = Append(accepted, sample[t]) /\ count' \in {count, count + 1}
    <3>1. Len(accepted') = Len(accepted) + 1
      BY <2>1, <2>4, AcceptedIsNew
    <3> QED
      BY <2>1, <2>2, <2>4, <3>1
  <2> QED
    BY <1>15, <2>3, <2>4, WriteThroughWrites
<1>16. CASE UNCHANGED vars
  BY <1>16 DEF vars
<1> QED
  BY <1>1, <1>2, <1>3, <1>4, <1>5, <1>6, <1>7, <1>8, <1>9, <1>10, <1>11, <1>12, <1>13,
     <1>14, <1>15, <1>16
     DEF Next, Handler, Worker, Close

-----------------------------------------------------------------------------
\* The invariant

LEMMA WriterInit == Init => WInv
<1> SUFFICES ASSUME Init PROVE WInv
  OBVIOUS
<1>1. /\ active = <<>> /\ queue = <<>> /\ pending = <<>> /\ file = <<>> /\ accepted = <<>>
      /\ lock = Free /\ handle = FALSE /\ alive = FALSE /\ error = FALSE /\ raised = FALSE
      /\ closer = "idle" /\ count = 0 /\ at = [t \in Threads |-> 0]
  BY DEF Init
<1>2. Types
  BY TypesInit
<1>3. Len(<<>>) = 0
  BY EmptySeq
<1>4. Handlers
  BY <1>1, <1>3 DEF Handlers
<1>5. ~Stopped
  BY <1>1 DEF Stopped
<1>6. Phases
  BY <1>1, <1>5 DEF Phases
<1>7. Backlog = <<>>
  BY <1>1, ConcatEmptySeq, EmptySeq DEF Backlog
<1>8. Content
  BY <1>1, <1>3, <1>5, <1>7 DEF Content, Queued, Order, Counted
<1>9. Distinct
  BY <1>1, <1>3 DEF Distinct, Carried, Once, NotYet
<1> QED
  BY <1>2, <1>4, <1>6, <1>8, <1>9 DEF WInv

LEMMA WriterStep == ASSUME WInv, [Next]_vars PROVE WInv'
<1>1. Types /\ Handlers /\ Phases /\ Content /\ Distinct
  BY DEF WInv
<1>2. Types' /\ Handlers' /\ Distinct'
  BY <1>1, TypesStep, HandlersStep, DistinctStep
<1>3. Phases'
  BY <1>1, PhasesStep
<1>4. Content'
  BY <1>1, QueuedStep, OrderStep, CountedStep DEF Content
<1> QED
  BY <1>2, <1>3, <1>4 DEF WInv

\* The inductive invariant: where every sample is, and what close() may rely on
\* (writer.py: write, _run, close; orchestrator.py: the handlers of a session).
THEOREM WriterInvariance == Spec => []WInv
  BY WriterInit, WriterStep, PTL DEF Spec

\* The state of the writer keeps its type, and its queue never has more than its
\* capacity (writer.py: SensorWriter, queue.Queue(maxsize)).
THEOREM WriterTypeCorrect == Spec => []TypeOK
<1>1. WInv => TypeOK
  BY SeqMonotonic DEF WInv, Types, Flags, Emitters, Rows, TypeOK
<1> QED
  BY <1>1, WriterInvariance, PTL

\* No sample is written twice, however many recordings' handlers see it
\* (orchestrator.py: _close_sample_writer lowers the flag of the handler first).
THEOREM RowsAreWrittenOnce == Spec => []NoSampleTwice
<1>1. ASSUME WInv PROVE NoSampleTwice
  <2>1. Len(file) \in Nat /\ Len(accepted) \in Nat /\ Len(file) <= Len(accepted)
    BY <1>1 DEF WInv, Types, Rows, Content, Order
  <2>2. \A i \in 1..Len(file) : i \in 1..Len(accepted) /\ file[i] = accepted[i]
    BY <1>1, <2>1 DEF WInv, Content, Order
  <2> QED
    BY <1>1, <2>2 DEF WInv, Distinct, Once, NoSampleTwice
<1> QED
  BY <1>1, WriterInvariance, PTL

\* The totals of a stream that was closed without an error are rows of its file
\* (writer.py: write counts what it put, close drains before it closes the file).
THEOREM CountsAreTrue == Spec => []CountedIsWritten
<1>1. ASSUME WInv PROVE CountedIsWritten
  <2>1. SUFFICES ASSUME ~handle, ~raised PROVE count <= Len(file)
    BY DEF CountedIsWritten
  <2>2. ~error /\ ~alive /\ queue = <<>> /\ pending = <<>> /\ ~Stopped /\ lock = Free
    BY <1>1, <2>1 DEF WInv, Types, Flags, Phases, Handlers, Stopped
  <2>3. file \in Seq(Nat)
    BY <1>1 DEF WInv, Types, Rows
  <2>4. file = accepted
    BY <1>1, <2>2, <2>3, ConcatEmptySeq DEF WInv, Content, Order, Backlog
  <2> QED
    BY <1>1, <2>2, <2>4 DEF WInv, Content, Counted, Types, Rows
<1> QED
  BY <1>1, WriterInvariance, PTL

-----------------------------------------------------------------------------
\* The log the writer keeps

\* The first rows of a log, as a subsequence.
LEMMA FirstRows ==
  ASSUME NEW f \in Seq(Nat), NEW a \in Seq(Nat), Len(f) <= Len(a),
         \A i \in 1..Len(f) : f[i] = a[i]
  PROVE  Len(f) \in Nat /\ f = SubSeq(a, 1, Len(f))
<1>1. PICK n : n = Len(f) /\ n \in Nat
  OBVIOUS
<1>2. Len(a) \in Nat /\ \A i \in 1..n : i \in 1..Len(a) /\ a[i] \in Nat
  BY <1>1, ElementOfSeq
<1>3. /\ SubSeq(a, 1, n) \in Seq(Nat) /\ Len(SubSeq(a, 1, n)) = n
      /\ \A i \in 1..n : SubSeq(a, 1, n)[i] = a[i]
  BY <1>1, <1>2, SubSeqProperties
<1> QED
  BY <1>1, <1>3, SeqEqual

LEMMA LogTyped ==
  ASSUME WInv
  PROVE  /\ file \in Seq(Nat) /\ accepted \in Seq(Nat) /\ Len(file) \in Nat
         /\ Len(file) <= Len(accepted) /\ file = SubSeq(accepted, 1, Len(file))
<1>1. /\ file \in Seq(Nat) /\ accepted \in Seq(Nat) /\ Len(file) <= Len(accepted)
      /\ \A i \in 1..Len(file) : file[i] = accepted[i]
  BY SeqMonotonic DEF WInv, Types, Rows, Content, Order
<1> QED
  BY <1>1, FirstRows

\* With nothing waiting, every sample taken over has its row.
LEMMA Drained ==
  ASSUME WInv, ~error, queue = <<>>, pending = <<>> PROVE file = accepted
<1>1. file \in Seq(Nat) /\ ~Stopped
  BY DEF WInv, Types, Rows, Stopped
<1> QED
  BY <1>1, ConcatEmptySeq DEF WInv, Content, Order, Backlog

LEMMA SampleInRange ==
  ASSUME WInv, NEW t \in Threads, Taken(t) PROVE sample[t] \in 1..MaxSamples
<1>1. at[t] # 0
  BY WriterIsLast DEF WInv
<1>2. sample[t] \in 1..sent /\ sent \in Nat /\ sent <= MaxSamples
  BY <1>1 DEF WInv, Types, Emitters, Distinct, Carried
<1> QED
  BY <1>2, ParametersAssumption

LEMMA LogStep == ASSUME WInv, WInv', [Next]_vars PROVE [Log!Next]_(Log!vars)
<1> USE DEF Log!vars, Log!Next, emitter, worker
<1>1. CASE Open
  <2>1. Log!Open
    BY <1>1 DEF Open, Log!Open, WInv, Types, Flags
  <2> QED
    BY <2>1
<1>2. CASE Deactivate
  BY <1>2 DEF Deactivate, Quiet
<1>3. CASE BeginClose
  BY <1>3 DEF BeginClose, Quiet
<1>4. CASE PutStop
  BY <1>4 DEF PutStop, Quiet
<1>5. CASE Join
  BY <1>5 DEF Join, Quiet
<1>6. CASE Finish
  <2>1. handle /\ ~alive /\ UNCHANGED <<file, accepted, error>>
    BY <1>6 DEF Finish, Quiet, WInv, Phases
  <2>2. ~error => file = accepted
    BY <2>1, Drained DEF WInv, Phases
  <2>3. Log!Close
    BY <1>6, <2>1, <2>2 DEF Finish, Log!Close
  <2> QED
    BY <2>3
<1>7. CASE Take
  BY <1>7 DEF Take
<1>8. CASE Flush
  <2>1. handle /\ ~error /\ UNCHANGED <<handle, accepted, raised>>
    BY <1>8 DEF Flush, WInv, Phases
  <2>2. Len(file') \in Len(file)..Len(accepted) /\ file' = SubSeq(accepted, 1, Len(file'))
    <3>1. /\ file' \in Seq(Nat) /\ accepted \in Seq(Nat) /\ Len(file') <= Len(accepted)
          /\ \A i \in 1..Len(file') : file'[i] = accepted[i]
      BY <2>1, SeqMonotonic DEF WInv, Types, Rows, Content, Order
    <3>2. Len(file') \in Nat /\ file' = SubSeq(accepted, 1, Len(file'))
      BY <3>1, FirstRows
    <3>3. file \in Seq(Nat) /\ pending \in Seq(Nat)
      BY DEF WInv, Types, Rows
    <3>4. PICK more \in Seq(Nat) : file' = file \o more
      <4>1. \A n \in 0..Len(pending) : SubSeq(pending, 1, n) \in Seq(Nat)
        BY <3>3, SubSeqProperties
      <4> QED
        BY <1>8, <3>3, <4>1 DEF Flush, WriteBatch
    <3>5. Len(file) <= Len(file') /\ Len(file) \in Nat /\ Len(accepted) \in Nat
      BY <3>1, <3>3, <3>4, ConcatProperties
    <3> QED
      BY <3>1, <3>2, <3>5
  <2>3. CASE error' = error
    <3>1. Log!Persist
      BY <2>1, <2>2, <2>3 DEF Log!Persist
    <3> QED
      BY <3>1
  <2>4. CASE error'
    <3>1. Log!Fail
      BY <2>1, <2>2, <2>4 DEF Log!Fail
    <3> QED
      BY <3>1
  <2> QED
    BY <1>8, <2>3, <2>4 DEF Flush, WriteBatch
<1>9. CASE WorkerEnds
  BY <1>9 DEF WorkerEnds
<1>10. ASSUME NEW t \in Threads, Emit(t) PROVE [Log!Next]_(Log!vars)
  BY <1>10 DEF Emit
<1>11. ASSUME NEW t \in Threads, Inactive(t) PROVE [Log!Next]_(Log!vars)
  BY <1>11 DEF Inactive, InHandler, Onward
<1>12. ASSUME NEW t \in Threads, Enqueue(t) PROVE [Log!Next]_(Log!vars)
  <2>1. /\ Taken(t) /\ handle /\ ~error /\ UNCHANGED <<file, handle, error, raised>>
        /\ accepted' = Append(accepted, sample[t])
    BY <1>12 DEF Enqueue, Taken
  <2>2. sample[t] \in 1..MaxSamples
    BY <2>1, SampleInRange
  <2>3. Log!Accept
    BY <2>1, <2>2 DEF Log!Accept
  <2> QED
    BY <2>3
<1>13. ASSUME NEW t \in Threads, CountSample(t) PROVE [Log!Next]_(Log!vars)
  BY <1>13 DEF CountSample, Onward
<1>14. ASSUME NEW t \in Threads, Refuse(t) PROVE [Log!Next]_(Log!vars)
  BY <1>14 DEF Refuse, InHandler, Onward
<1>15. ASSUME NEW t \in Threads, WriteThrough(t) PROVE [Log!Next]_(Log!vars)
  <2>1. /\ Taken(t) /\ handle /\ ~error /\ UNCHANGED <<handle, error, raised>>
        /\ queue = <<>> /\ pending = <<>>
    BY <1>15 DEF WriteThrough, Taken, WInv, Phases
  <2>2. sample[t] \in 1..MaxSamples /\ file = accepted
    BY <2>1, SampleInRange, Drained
  <2>3. CASE file' = file /\ accepted' = accepted
    BY <2>1, <2>3
  <2>4. CASE file' = Append(file, sample[t]) /\ accepted' = Append(accepted, sample[t])
    <3>1. Log!AcceptAndPersist
      BY <2>1, <2>2, <2>4 DEF Log!AcceptAndPersist
    <3> QED
      BY <3>1
  <2> QED
    BY <1>15, <2>3, <2>4, WriteThroughWrites DEF WInv, Types
<1>16. CASE UNCHANGED vars
  BY <1>16 DEF vars
<1> QED
  BY <1>1, <1>2, <1>3, <1>4, <1>5, <1>6, <1>7, <1>8, <1>9, <1>10, <1>11, <1>12, <1>13,
     <1>14, <1>15, <1>16
     DEF Next, Handler, Worker, Close

\* The file of a stream is the log that SampleLog describes: every step of the writer,
\* its worker and its close() is a step of the log or leaves it alone (writer.py).
THEOREM WriterKeepsLog == Spec => LogSpec
<1>1. Init => Log!Init
  BY DEF Init, Log!Init
<1>2. WInv /\ WInv' /\ [Next]_vars => [Log!Next]_(Log!vars)
  BY LogStep
<1> QED
  BY <1>1, <1>2, WriterInvariance, PTL DEF Spec, LogSpec, Log!Spec
=============================================================================
