---------------------------- MODULE SensorWriter ----------------------------
(***************************************************************************)
(* The path of a sample from an adapter's thread to the file of its        *)
(* stream: the handlers the session has registered with the adapter, the   *)
(* lock they share, and SensorWriter, which writes at once or through a    *)
(* bounded queue and a worker of its own (writer.py).                      *)
(*                                                                         *)
(* Handlers are never unregistered: start() adds one, and its "active"     *)
(* flag is what keeps it from writing again.  Each looks the writer up by  *)
(* stream id, so it finds the one of the present recording.                *)
(***************************************************************************)
EXTENDS Integers, Sequences, FiniteSets

CONSTANTS
  Threads,        \* of the adapter that emits
  Modes,          \* subset of BOOLEAN: writers with a queue, without
  Capacity,       \* queue_capacity of a writer with a queue
  Batch,          \* batch_size
  DiskFails,      \* whether a write may fail
  MaxSamples,     \* bound
  MaxWindows      \* bound: recordings

ASSUME ParametersAssumption ==
  /\ Modes \subseteq BOOLEAN /\ DiskFails \in BOOLEAN
  /\ Capacity \in Nat \ {0} /\ Batch \in Nat \ {0}
  /\ MaxSamples \in Nat /\ MaxWindows \in Nat

Stop == 0         \* _SENSOR_WRITER_STOP; samples are 1, 2, ...
Free == "free"

\* A lock that is free has no thread for its holder.
ASSUME ThreadsAssumption == Free \notin Threads

VARIABLES
  buffered,       \* the writer has a queue
  active,         \* the flag of every handler registered so far
  lock,           \* _sample_writer_lock
  at,             \* the handler each thread is in, 0: none
  sample, sent,   \* the sample it delivers; samples emitted
  handle,         \* the file is open
  queue, pending, alive, error,    \* the worker: _queue, pending, is_alive, _worker_error
  file,           \* its rows
  count,          \* samples_enqueued_total
  closer,         \* where close() is
  raised,         \* the last close() raised
  accepted        \* history: samples the writer took over

emitter == <<at, sample, sent>>
worker == <<queue, pending, alive, error>>
vars == <<buffered, active, lock, emitter, handle, worker, file, count, closer, raised, accepted>>

Init ==
  /\ buffered \in Modes /\ active = <<>> /\ lock = Free
  /\ at = [t \in Threads |-> 0] /\ sample = [t \in Threads |-> 0] /\ sent = 0
  /\ handle = FALSE /\ queue = <<>> /\ pending = <<>> /\ alive = FALSE /\ error = FALSE
  /\ file = <<>> /\ count = 0 /\ closer = "idle" /\ raised = FALSE /\ accepted = <<>>

Mode == IF DiskFails THEN BOOLEAN ELSE {FALSE}
Closing == closer \in {"putting", "joining", "finish"}

-----------------------------------------------------------------------------
\* start(): a fresh writer, its handler, and the worker.
Open ==
  /\ closer = "idle" /\ ~handle /\ lock = Free /\ Len(active) < MaxWindows
  /\ active' = Append(active, TRUE)
  /\ handle' = TRUE /\ alive' = buffered /\ error' = FALSE
  /\ queue' = <<>> /\ pending' = <<>> /\ file' = <<>> /\ count' = 0
  /\ accepted' = <<>> /\ raised' = FALSE
  /\ UNCHANGED <<buffered, lock, emitter, closer>>

-----------------------------------------------------------------------------
\* A thread of the adapter

Emit(t) ==
  /\ at[t] = 0 /\ active # <<>> /\ sent < MaxSamples
  /\ sent' = sent + 1 /\ at' = [at EXCEPT ![t] = 1] /\ sample' = [sample EXCEPT ![t] = sent + 1]
  /\ UNCHANGED <<buffered, active, lock, handle, worker, file, count, closer, raised, accepted>>

\* The next handler, or back to the device.
Onward(t) == at' = [at EXCEPT ![t] = IF @ < Len(active) THEN @ + 1 ELSE 0]
InHandler(t) == at[t] \in 1..Len(active) /\ lock = Free

Inactive(t) ==
  /\ InHandler(t) /\ ~active[at[t]]
  /\ Onward(t)
  /\ UNCHANGED <<buffered, active, lock, sample, sent, handle, worker, file, count>>
  /\ UNCHANGED <<closer, raised, accepted>>

Taken(t) == InHandler(t) /\ active[at[t]] /\ handle /\ ~Closing /\ ~error

\* write() of a writer with a queue puts the sample and then counts it; a full
\* queue drops it (BufferError, which the handler logs).
Enqueue(t) ==
  /\ Taken(t) /\ buffered /\ Len(queue) < Capacity
  /\ queue' = Append(queue, sample[t]) /\ accepted' = Append(accepted, sample[t])
  /\ lock' = t
  /\ UNCHANGED <<buffered, active, emitter, handle, pending, alive, error, file, count>>
  /\ UNCHANGED <<closer, raised>>
CountSample(t) ==
  /\ lock = t /\ count' = count + 1 /\ lock' = Free /\ Onward(t)
  /\ UNCHANGED <<buffered, active, sample, sent, handle, worker, file>>
  /\ UNCHANGED <<closer, raised, accepted>>
\* Refused: the queue is full, or the worker has failed.
Refuse(t) ==
  /\ InHandler(t) /\ active[at[t]] /\ buffered
  /\ error \/ Len(queue) = Capacity
  /\ Onward(t)
  /\ UNCHANGED <<buffered, active, lock, sample, sent, handle, worker, file, count>>
  /\ UNCHANGED <<closer, raised, accepted>>

\* write() of a writer without a queue; one that raises may have written.
WriteThrough(t) ==
  /\ Taken(t) /\ ~buffered
  /\ \E broken \in Mode, kept \in BOOLEAN :
       /\ count' = IF broken THEN count ELSE count + 1
       /\ IF broken /\ ~kept
          THEN UNCHANGED <<file, accepted>>
          ELSE file' = Append(file, sample[t]) /\ accepted' = Append(accepted, sample[t])
  /\ Onward(t)
  /\ UNCHANGED <<buffered, active, lock, sample, sent, handle, worker, closer, raised>>

-----------------------------------------------------------------------------
\* The worker

Take ==
  /\ alive /\ queue # <<>> /\ Head(queue) # Stop /\ Len(pending) < Batch
  /\ pending' = Append(pending, Head(queue)) /\ queue' = Tail(queue)
  /\ UNCHANGED <<buffered, active, lock, emitter, handle, alive, error, file, count>>
  /\ UNCHANGED <<closer, raised, accepted>>

\* A batch that fails ends the worker, after a part of it perhaps.
\* (KeepBatch: a batch is kept after it was written.)
KeepBatch ==
  /\ file' = file \o pending /\ UNCHANGED <<pending, alive, error>>
WriteBatch ==
  \E broken \in Mode :
    IF broken
    THEN /\ \E n \in 0..Len(pending) : file' = file \o SubSeq(pending, 1, n)
         /\ alive' = FALSE /\ error' = TRUE /\ UNCHANGED pending
    ELSE /\ file' = file \o pending /\ pending' = <<>> /\ UNCHANGED <<alive, error>>
\* The batch is full, or its deadline has passed.
Flush ==
  /\ alive /\ pending # <<>> /\ WriteBatch
  /\ UNCHANGED <<buffered, active, lock, emitter, handle, queue, count, closer, raised, accepted>>

\* The sentinel: what is pending is written and the worker ends.
\* (ForgetPending: it ends at once.)
ForgetPending ==
  /\ alive /\ queue # <<>> /\ Head(queue) = Stop
  /\ queue' = Tail(queue) /\ alive' = FALSE
  /\ UNCHANGED <<buffered, active, lock, emitter, handle, pending, error, file, count>>
  /\ UNCHANGED <<closer, raised, accepted>>
WorkerEnds ==
  /\ alive /\ pending = <<>> /\ queue # <<>> /\ Head(queue) = Stop
  /\ queue' = Tail(queue) /\ alive' = FALSE
  /\ UNCHANGED <<buffered, active, lock, emitter, handle, pending, error, file, count>>
  /\ UNCHANGED <<closer, raised, accepted>>

-----------------------------------------------------------------------------
\* The end of a recording: the handler is deactivated under the lock, then close().

Quiet == UNCHANGED <<buffered, lock, emitter, pending, error, file, count, accepted>>
\* (StayActive: the flag is left as it is.)
StayActive ==
  /\ closer = "idle" /\ handle /\ lock = Free
  /\ closer' = "closing"
  /\ Quiet /\ UNCHANGED <<active, handle, queue, alive, raised>>
Deactivate ==
  /\ closer = "idle" /\ handle /\ lock = Free
  /\ active' = [active EXCEPT ![Len(active)] = FALSE] /\ closer' = "closing"
  /\ Quiet /\ UNCHANGED <<handle, queue, alive, raised>>
BeginClose ==
  /\ closer = "closing" /\ closer' = IF alive THEN "putting" ELSE "finish"
  /\ Quiet /\ UNCHANGED <<active, handle, queue, alive, raised>>
\* put() with a timeout, as long as the worker is there.
\* (PutForEver: put() without a timeout.)
PutForEver ==
  /\ closer = "putting" /\ Len(queue) < Capacity
  /\ queue' = Append(queue, Stop) /\ closer' = "joining"
  /\ Quiet /\ UNCHANGED <<active, handle, alive, raised>>
PutStop ==
  /\ closer = "putting" /\ (Len(queue) < Capacity \/ ~alive)
  /\ queue' = IF Len(queue) < Capacity THEN Append(queue, Stop) ELSE queue
  /\ closer' = "joining"
  /\ Quiet /\ UNCHANGED <<active, handle, alive, raised>>
Join ==
  /\ closer = "joining" /\ ~alive /\ closer' = "finish"
  /\ Quiet /\ UNCHANGED <<active, handle, queue, alive, raised>>
Finish ==
  /\ closer = "finish" /\ closer' = "idle"
  /\ handle' = FALSE /\ raised' = error
  /\ Quiet /\ UNCHANGED <<active, queue, alive>>

Handler(t) ==
  Inactive(t) \/ Enqueue(t) \/ CountSample(t) \/ Refuse(t) \/ WriteThrough(t)
Worker == Take \/ Flush \/ WorkerEnds
Close == BeginClose \/ PutStop \/ Join \/ Finish

Next ==
  \/ Open \/ Deactivate \/ Close \/ Worker
  \/ \E t \in Threads : Emit(t) \/ Handler(t)

Spec == Init /\ [][Next]_vars

\* The worker's thread runs, a call of close() that has begun goes on, and so does a
\* handler, which waits for nothing but the lock.
FairSpec ==
  /\ Spec /\ WF_vars(Worker) /\ WF_vars(Close)
  /\ \A t \in Threads : WF_vars(Handler(t))

-----------------------------------------------------------------------------
TypeOK ==
  /\ buffered \in BOOLEAN /\ active \in Seq(BOOLEAN) /\ lock \in {Free} \union Threads
  /\ handle \in BOOLEAN /\ alive \in BOOLEAN /\ error \in BOOLEAN /\ raised \in BOOLEAN
  /\ closer \in {"idle", "closing", "putting", "joining", "finish"}
  /\ queue \in Seq(Nat) /\ Len(queue) <= Capacity /\ pending \in Seq(Nat)
  /\ file \in Seq(Nat) /\ accepted \in Seq(Nat) /\ count \in Nat

\* The writer keeps the promise of a log: rows are the accepted samples in their
\* order, and a close() that does not raise leaves none behind, neither in the queue
\* nor in the batch (writer.py, close).
Log == INSTANCE SampleLog WITH
  Samples <- 1..MaxSamples, rows <- file,
  state <- IF handle THEN IF error THEN "failed" ELSE "open"
                     ELSE IF raised THEN "raised" ELSE "closed"
LogSpec == Log!Spec

\* No sample is written twice, though every handler ever registered sees it
\* (_close_sample_writer: the flag is down before the next recording begins).
NoSampleTwice ==
  \A i, j \in 1..Len(file) : file[i] = file[j] => i = j

\* A closed writer has a row for every sample it counted: the totals the host reports
\* are true, unless close() said otherwise.
CountedIsWritten == ~handle /\ ~raised => count <= Len(file)

\* close() returns, also with a full queue and a worker that has just failed.
CloseReturns == []<>(closer = "idle")
=============================================================================
