------------------------------- MODULE Go3SProofs -------------------------------
(***************************************************************************)
(* Proofs about Go3S and the Aggregation queue it extends, for every set of *)
(* cameras, any number of takes and jobs, crashes, retries and faults.      *)
(*                                                                          *)
(* The manifest of an episode is written from a job, so it is as true as    *)
(* the jobs are (Books); what a job calls done was renamed into place in    *)
(* this process or read in a manifest of an earlier one.  A job is only     *)
(* called complete at the end of a run that accounted for each of its       *)
(* cameras (Downloading), whoever enqueues or retries it meanwhile (Kept).  *)
(* That the host leaves the camera's network rests on the local of run()    *)
(* that remembers the one it found (Networks).  A take whose manifest could *)
(* not be written is remembered by its adapter only (Announced).            *)
(***************************************************************************)
EXTENDS Go3S, FiniteSetTheorems, SequenceTheorems, TLAPS

JobRecords ==
  [episode : Episodes, cams : SUBSET Cameras, state : States, done : SUBSET Cameras]
Manifests ==
  [job : SUBSET Cameras, state : States \union {"none"}, done : SUBSET Cameras]
HandleRecords == [job : Nat, event : Nat]

\* What a job calls done is in its episode; a completed one has every camera's file.
Collected(j, kept) ==
  /\ j.done \subseteq j.cams /\ {j.episode} \X j.done \subseteq kept
  /\ j.state = "completed" => j.done = j.cams
Books ==
  /\ manifest \in [Episodes -> Manifests] /\ jobs \in Seq(JobRecords)
  /\ \A e \in Episodes : manifest[e].done \subseteq manifest[e].job
  /\ \A i \in 1..Len(jobs) : Collected(jobs[i], Here)
  /\ ManifestIsTrue

\* The numbers by which jobs and handles are referred to.
Busy == {"next", "switch", "open", "copy", "restore", "note"}
Handled ==
  /\ handles \in Seq(HandleRecords)
  /\ \A h \in 1..Len(handles) : handles[h].job \in 1..Len(jobs)
  /\ queue \in Seq(Nat) /\ \A k \in 1..Len(queue) : queue[k] \in 1..Len(handles)
Held ==
  /\ job \in [Cameras -> Nat] /\ \A c \in Cameras : job[c] <= Len(jobs)
  /\ take \in Episodes
  /\ pc \in Busy => current \in 1..Len(handles)
Refs == Handled /\ Held

\* The locals of _run_job(): every camera of the job is done, to come, at work or failed;
\* and the .part at work.
Downloading ==
  /\ pc \in Busy \union {"get", "off"} /\ ok \in BOOLEAN /\ anyFailure \in BOOLEAN
  /\ pc \in Busy =>
       /\ Job.state \in {"pending", "running"} /\ todo \subseteq Job.cams
       /\ \/ anyFailure
          \/ Job.cams \subseteq
               Job.done \union todo \union (IF pc = "next" THEN {} ELSE {camera})
  /\ pc \in Busy \ {"next"} => camera \in Job.cams
  /\ pc \in {"restore", "note"} /\ ok => Target \in Here
  /\ parts \subseteq halves \union (IF pc = "copy" THEN {Target} ELSE {})

\* The locals of the WiFi download; and a process that is dead does nothing.
Networks ==
  /\ ~up => pc = "off"
  /\ stranded \in BOOLEAN /\ net \in {"home", "camera"}
  /\ previous \in {"home", "camera", "unknown"}
  /\ backend = "usb" => net = "home" /\ previous = "home" /\ pc \notin {"switch", "restore"}
  /\ "blind" \notin Faults /\ ~stranded =>
       /\ pc \in {"open", "copy", "restore"} => previous = "home"
       /\ pc \in {"get", "next", "note", "switch", "off"} => net = "home"
\* What a camera has on its card, by where the session's call to it is.
Carded ==
  /\ device \in [Cameras -> {"idle", "recording"}]
  /\ call \in [Cameras -> {"off", "on", "start", "rec", "stop", "retry", "build"}]
  /\ report \in [Cameras -> {"none", "failed"} \union Promised]
  /\ unsaved \in [Cameras -> {"no", "yes", "lost"}]
  /\ \A c \in Cameras :
       /\ call[c] \in {"rec", "stop"} => device[c] = "recording"
       /\ call[c] = "build" \/ report[c] \in Promised => <<take, c>> \in card

\* With one camera, every job and manifest is about it.
Alone == (\E c : Cameras = {c}) /\ "torn" \notin Faults
Remembered(c) ==
  manifest[take].state # "none" \/ unsaved[c] = "lost" \/ (unsaved[c] = "yes" /\ InMemory(c))
Announced ==
  /\ \A i \in 1..Len(jobs) : jobs[i].cams = Cameras
  /\ \A e \in Episodes : manifest[e].state # "none" => manifest[e].job = Cameras
  /\ \A c \in Cameras : report[c] \in Promised => Remembered(c)

GInv == Books /\ Refs /\ Downloading /\ Networks /\ Carded

-----------------------------------------------------------------------------
\* Lemmas about the jobs and their manifests

\* What recover_from_disk() found, in some order.
LEMMA FoundIsRecoverable ==
  Cardinality(Recoverable) \in Nat
    /\ SetToSeq(Recoverable) \in [1..Cardinality(Recoverable) -> Recoverable]
<1>1. IsFiniteSet(Recoverable)
  <2>1. IsFiniteSet(Episodes)
    BY FS_Interval, Assumption DEF Episodes
  <2>2. Recoverable \in SUBSET Episodes
    BY DEF Recoverable
  <2> QED
    BY <2>1, <2>2, FS_Subset
<1>2. PICK f : f \in Bijection(1..Cardinality(Recoverable), Recoverable)
  BY <1>1, FS_CardinalityType DEF ExistsBijection
<1>3. f \in [1..Cardinality(Recoverable) -> Recoverable] /\ IsInjective(f)
  BY <1>2 DEF Bijection, Injection
<1> QED
  BY <1>1, <1>3, FS_CardinalityType DEF SetToSeq

\* A job as its manifest says it.
Noted(j) == [job |-> j.cams, state |-> j.state, done |-> j.done]

\* Manifests stay true when each is left, lost, made pending again, or written from a true
\* job.
LEMMA BooksKept ==
  ASSUME Books, Here \subseteq Here', jobs' \in Seq(JobRecords),
         manifest' \in [Episodes -> Manifests],
         \A i \in 1..Len(jobs') : Collected(jobs'[i], Here'),
         \A e \in Episodes :
           \/ manifest'[e] = manifest[e] \/ manifest'[e] = None
           \/ manifest'[e] = [manifest[e] EXCEPT !.state = "pending"]
           \/ \E j \in JobRecords :
                Collected(j, Here') /\ j.episode = e /\ manifest'[e] = Noted(j)
  PROVE  Books'
<1>1. ASSUME NEW e \in Episodes
      PROVE  /\ manifest'[e].done \subseteq manifest'[e].job
             /\ {e} \X manifest'[e].done \subseteq Here'
             /\ manifest'[e].state = "completed" => manifest'[e].done = manifest'[e].job
  <2>1. manifest[e] \in Manifests
    BY DEF Books
  <2>2. /\ manifest[e].done \subseteq manifest[e].job
        /\ {e} \X manifest[e].done \subseteq Here'
        /\ manifest[e].state = "completed" => manifest[e].done = manifest[e].job
    BY DEF Books, ManifestIsTrue
  <2>3. CASE manifest'[e] = manifest[e] \/ manifest'[e] = None
    BY <2>2, <2>3 DEF None
  <2>4. CASE manifest'[e] = [manifest[e] EXCEPT !.state = "pending"]
    <3>1. /\ manifest'[e].done = manifest[e].done /\ manifest'[e].job = manifest[e].job
          /\ manifest'[e].state = "pending"
      BY <2>1, <2>4 DEF Manifests
    <3> QED
      BY <2>2, <3>1
  <2>5. ASSUME NEW j \in JobRecords,
               Collected(j, Here'), j.episode = e, manifest'[e] = Noted(j)
        PROVE  /\ manifest'[e].done \subseteq manifest'[e].job
               /\ {e} \X manifest'[e].done \subseteq Here'
               /\ manifest'[e].state = "completed" => manifest'[e].done = manifest'[e].job
    BY <2>5 DEF Collected, Noted
  <2> QED
    BY <2>3, <2>4, <2>5
<1> QED
  BY <1>1 DEF Books, ManifestIsTrue

\* write_manifest() of a true job.
LEMMA WrittenBooks ==
  ASSUME Books, Here \subseteq Here', jobs' \in Seq(JobRecords),
         \A i \in 1..Len(jobs') : Collected(jobs'[i], Here'),
         NEW j \in JobRecords, Collected(j, Here'), manifest' = Written(j)
  PROVE  Books' /\ manifest' = [manifest EXCEPT ![j.episode] = Noted(j)]
<1>1. Noted(j) \in Manifests /\ j.episode \in Episodes
  BY DEF Noted, Manifests, JobRecords
<1>2. manifest' = [manifest EXCEPT ![j.episode] = Noted(j)]
  BY DEF Written, Noted
<1>3. manifest' \in [Episodes -> Manifests]
  BY <1>1, <1>2 DEF Books
<1>4. manifest \in [Episodes -> Manifests]
  BY DEF Books
<1>5. ASSUME NEW e \in Episodes
      PROVE  manifest'[e] = manifest[e] \/ (e = j.episode /\ manifest'[e] = Noted(j))
  BY <1>1, <1>2, <1>4
<1> QED
  BY <1>2, <1>3, <1>5, BooksKept

\* A change of one job that is written to its manifest.
LEMMA ReplacedBooks ==
  ASSUME Books, Here \subseteq Here', NEW i \in 1..Len(jobs),
         NEW j \in JobRecords, Collected(j, Here'),
         jobs' = [jobs EXCEPT ![i] = j], manifest' = Written(j)
  PROVE  /\ Books' /\ Len(jobs') = Len(jobs) /\ jobs'[i] = j
         /\ \A k \in 1..Len(jobs) : k # i => jobs'[k] = jobs[k]
<1>1. /\ jobs' \in Seq(JobRecords) /\ Len(jobs') = Len(jobs)
      /\ \A k \in 1..Len(jobs) : jobs'[k] = IF k = i THEN j ELSE jobs[k]
  BY ExceptSeq DEF Books
<1>2. \A k \in 1..Len(jobs') : Collected(jobs'[k], Here')
  BY <1>1 DEF Books, Collected
<1> QED
  BY <1>1, <1>2, WrittenBooks

-----------------------------------------------------------------------------
\* Lemmas about the handles

\* A new handle, at the end of the queue or nowhere.
LEMMA EnqueueHandled ==
  ASSUME Handled, Len(jobs) \in Nat, Len(jobs') \in Nat, Len(jobs) <= Len(jobs'),
         NEW i \in 1..Len(jobs'), handles' = Append(handles, Handle(i)),
         queue' = queue \/ queue' = Append(queue, Len(handles) + 1)
  PROVE  /\ Handled' /\ Len(handles) <= Len(handles')
         /\ \A h \in 1..Len(handles) : handles'[h] = handles[h]
<1> DEFINE n == Len(handles)
<1>1. n \in Nat /\ n + 1 \in Nat /\ Handle(i) \in HandleRecords /\ Handle(i).job = i
  BY LenProperties DEF Handled, Handle, HandleRecords
<1>2. /\ handles' \in Seq(HandleRecords) /\ Len(handles') = n + 1
      /\ \A h \in 1..n : handles'[h] = handles[h]
      /\ handles'[n + 1] = Handle(i)
  BY <1>1, AppendProperties DEF Handled
<1>3. \A h \in 1..Len(handles') : handles'[h].job \in 1..Len(jobs')
  <2> SUFFICES ASSUME NEW h \in 1..(n + 1) PROVE handles'[h].job \in 1..Len(jobs')
    BY <1>2
  <2>1. CASE h \in 1..n
    <3>1. handles[h].job \in 1..Len(jobs)
      BY <2>1 DEF Handled
    <3> QED
      BY <1>2, <2>1, <3>1
  <2>2. CASE h = n + 1
    BY <1>1, <1>2, <2>2
  <2> QED
    BY <1>1, <2>1, <2>2
<1>4. /\ queue \in Seq(Nat) /\ Len(queue) \in Nat
      /\ \A k \in 1..Len(queue) : queue[k] \in 1..n
  BY LenProperties DEF Handled
<1>5. queue' \in Seq(Nat) /\ \A k \in 1..Len(queue') : queue'[k] \in 1..Len(handles')
  <2>1. CASE queue' = queue
    BY <1>1, <1>2, <1>4, <2>1
  <2>2. CASE queue' = Append(queue, n + 1)
    <3>1. /\ queue' \in Seq(Nat) /\ Len(queue') = Len(queue) + 1
          /\ \A k \in 1..Len(queue) : queue'[k] = queue[k]
          /\ queue'[Len(queue) + 1] = n + 1
      BY <1>1, <1>4, <2>2, AppendProperties
    <3>2. ASSUME NEW k \in 1..(Len(queue) + 1) PROVE queue'[k] \in 1..(n + 1)
      <4>1. k \in 1..Len(queue) => queue[k] \in 1..n
        BY <1>4
      <4>2. k \in 1..Len(queue) \/ k = Len(queue) + 1
        BY <1>4
      <4> QED
        BY <1>1, <3>1, <4>1, <4>2
    <3> QED
      BY <1>2, <3>1, <3>2
  <2> QED
    BY <2>1, <2>2
<1> QED
  BY <1>1, <1>2, <1>3, <1>4, <1>5 DEF Handled

LEMMA SameHandled ==
  ASSUME Handled, Len(jobs) \in Nat, Len(jobs') \in Nat, Len(jobs) <= Len(jobs'),
         UNCHANGED <<handles, queue>>
  PROVE  Handled'
<1>1. /\ handles \in Seq(HandleRecords)
      /\ \A h \in 1..Len(handles) : handles[h].job \in 1..Len(jobs')
  <2>1. ASSUME NEW h \in 1..Len(handles) PROVE handles[h].job \in 1..Len(jobs')
    <3>1. handles[h].job \in 1..Len(jobs)
      BY <2>1 DEF Handled
    <3> QED
      BY <3>1
  <2> QED
    BY <2>1 DEF Handled
<1> QED
  BY <1>1 DEF Handled

-----------------------------------------------------------------------------
\* What a step that is not the worker's leaves of the jobs and handles: no more than
\* their state or event changes, and new ones come behind them.
Same(a, b) ==
  /\ a.episode = b.episode /\ a.cams = b.cams /\ a.done = b.done
  /\ a.state = b.state \/ a.state = "pending"
Kept ==
  /\ Len(jobs) <= Len(jobs') /\ \A i \in 1..Len(jobs) : Same(jobs'[i], jobs[i])
  /\ Len(handles) <= Len(handles')
  /\ \A h \in 1..Len(handles) : handles'[h].job = handles[h].job

\* Sequences that grow by what a function of 1..n lists.
Listed(S, s, n, t, both) ==
  /\ both \in Seq(S) /\ Len(s) \in Nat /\ Len(both) = Len(s) + n
  /\ \A i \in 1..Len(s) : both[i] = s[i]
  /\ \A i \in 1..Len(both) : i \notin 1..Len(s) => \E k \in 1..n : both[i] = t[k]
LEMMA ListedBehind ==
  ASSUME NEW S, NEW s \in Seq(S), NEW n \in Nat, NEW t \in [1..n -> S]
  PROVE  Listed(S, s, n, t, s \o t)
<1> DEFINE both == s \o t
<1>1. t \in Seq(S) /\ Len(t) = n /\ Len(s) \in Nat
  BY LenProperties
<1>2. /\ both \in Seq(S) /\ Len(both) = Len(s) + n
      /\ \A i \in 1..Len(s) + n : both[i] = IF i <= Len(s) THEN s[i] ELSE t[i - Len(s)]
  BY <1>1, ConcatProperties
<1>3. ASSUME NEW i \in 1..Len(both), i \notin 1..Len(s) PROVE \E k \in 1..n : both[i] = t[k]
  <2>1. i - Len(s) \in 1..n /\ both[i] = t[i - Len(s)]
    BY <1>1, <1>2, <1>3
  <2> QED
    BY <2>1
<1> QED
  BY <1>1, <1>2, <1>3 DEF Listed

\* What recover_from_disk() makes of the manifests: jobs for the cameras they name.
Read ==
  /\ \A i \in 1..Len(jobs') :
       i \in 1..Len(jobs) \/ \E e \in Recoverable : jobs'[i].cams = manifest[e].job
  /\ \A e \in Episodes :
       \/ manifest'[e] = manifest[e]
       \/ /\ e \in Recoverable /\ manifest'[e].state = "pending"
          /\ manifest'[e].job = manifest[e].job

\* recover_from_disk(): new jobs, as true as the manifests they were read from.
LEMMA Recovered ==
  ASSUME Books, Handled, EnqueueRecovered(SetToSeq(Recoverable)), UNCHANGED backend
  PROVE  Books' /\ Handled' /\ Kept /\ Read
<1> DEFINE n == Cardinality(Recoverable)
           found == SetToSeq(Recoverable)
           fresh == [k \in 1..n |-> New(found[k], manifest[found[k]])]
           own == [k \in 1..n |-> Handle(Len(jobs) + k)]
           numbers == [k \in 1..n |-> Len(handles) + k]
<1>1. n \in Nat /\ found \in [1..n -> Recoverable] /\ Len(found) = n /\ DOMAIN found = 1..n
  <2>1. n \in Nat /\ found \in [1..n -> Recoverable]
    BY FoundIsRecoverable
  <2>2. found \in Seq(Recoverable)
    BY <2>1
  <2> QED
    BY <2>1, <2>2, LenProperties
<1>2. /\ jobs' = jobs \o fresh /\ handles' = handles \o own /\ queue' = queue \o numbers
      /\ manifest' = [e \in Episodes |->
           IF e \in ToSet(found) THEN [manifest[e] EXCEPT !.state = "pending"] ELSE manifest[e]]
      /\ UNCHANGED <<files, cut>>
  BY <1>1 DEF EnqueueRecovered
<1>3. ASSUME NEW k \in 1..n
      PROVE  fresh[k] \in JobRecords /\ Collected(fresh[k], Here)
  <2>1. found[k] \in Episodes /\ manifest[found[k]] \in Manifests
    BY <1>1, <1>3 DEF Recoverable, Books
  <2>2. /\ manifest[found[k]].done \subseteq manifest[found[k]].job
        /\ {found[k]} \X manifest[found[k]].done \subseteq Here
    BY <2>1 DEF Books, ManifestIsTrue
  <2>3. fresh[k] = New(found[k], manifest[found[k]])
    BY <1>3
  <2> HIDE DEF fresh, found
  <2> QED
    BY <2>1, <2>2, <2>3 DEF New, JobRecords, Manifests, Collected, States
<1>4. fresh \in [1..n -> JobRecords]
  BY <1>3
<1>5. jobs \in Seq(JobRecords) /\ handles \in Seq(HandleRecords) /\ queue \in Seq(Nat)
  BY DEF Books, Handled
<1>6. own \in [1..n -> HandleRecords] /\ numbers \in [1..n -> Nat]
  <2>1. Len(jobs) \in Nat /\ Len(handles) \in Nat
    BY <1>5, LenProperties
  <2> QED
    BY <1>1, <2>1 DEF Handle, HandleRecords
<1> HIDE DEF fresh, found, own, numbers, n
<1>7. /\ jobs' \in Seq(JobRecords) /\ Len(jobs) \in Nat /\ Len(jobs') = Len(jobs) + n
      /\ \A i \in 1..Len(jobs) : jobs'[i] = jobs[i]
      /\ \A i \in 1..Len(jobs') : i \notin 1..Len(jobs) => \E k \in 1..n : jobs'[i] = fresh[k]
  <2>1. Listed(JobRecords, jobs, n, fresh, jobs')
    BY <1>1, <1>2, <1>4, <1>5, ListedBehind
  <2> QED
    BY <2>1 DEF Listed
<1>17. UNCHANGED Here
  BY <1>2 DEF Here
<1>8. \A i \in 1..Len(jobs') : Collected(jobs'[i], Here')
  <2> SUFFICES ASSUME NEW i \in 1..Len(jobs') PROVE Collected(jobs'[i], Here)
    BY <1>17
  <2>1. CASE i \in 1..Len(jobs)
    BY <1>7, <2>1 DEF Books
  <2>2. CASE i \notin 1..Len(jobs)
    BY <1>3, <1>7, <2>2
  <2> QED
    BY <2>1, <2>2
<1>9. Books'
  <2>1. ASSUME NEW e \in Episodes
        PROVE  /\ manifest'[e] \in Manifests
               /\ \/ manifest'[e] = manifest[e]
                  \/ manifest'[e] = [manifest[e] EXCEPT !.state = "pending"]
    <3>1. manifest[e] \in Manifests
      BY DEF Books
    <3>2. [manifest[e] EXCEPT !.state = "pending"] \in Manifests
      BY <3>1 DEF Manifests, States
    <3> QED
      BY <1>2, <3>1, <3>2
  <2>2. manifest' \in [Episodes -> Manifests]
    BY <1>2, <2>1
  <2> QED
    BY <1>7, <1>8, <1>17, <2>1, <2>2, BooksKept
<1>10. /\ handles' \in Seq(HandleRecords) /\ Len(handles) \in Nat
       /\ Len(handles') = Len(handles) + n
       /\ \A h \in 1..Len(handles) : handles'[h] = handles[h]
       /\ \A h \in 1..Len(handles') :
            h \notin 1..Len(handles) => \E k \in 1..n : handles'[h] = own[k]
  <2>1. Listed(HandleRecords, handles, n, own, handles')
    BY <1>1, <1>2, <1>5, <1>6, ListedBehind
  <2> QED
    BY <2>1 DEF Listed
<1>11. /\ queue' \in Seq(Nat)
       /\ \A k \in 1..Len(queue) : queue'[k] = queue[k]
       /\ \A k \in 1..Len(queue') :
            k \notin 1..Len(queue) => \E m \in 1..n : queue'[k] = numbers[m]
  <2>1. Listed(Nat, queue, n, numbers, queue')
    BY <1>1, <1>2, <1>5, <1>6, ListedBehind
  <2> QED
    BY <2>1 DEF Listed
<1>12. \A k \in 1..n : own[k].job = Len(jobs) + k /\ numbers[k] = Len(handles) + k
  BY DEF own, numbers, Handle
<1>13. ASSUME NEW h \in 1..Len(handles') PROVE handles'[h].job \in 1..Len(jobs')
  <2>1. CASE h \in 1..Len(handles)
    <3>1. handles[h].job \in 1..Len(jobs)
      BY <2>1 DEF Handled
    <3> QED
      BY <1>1, <1>7, <1>10, <2>1, <3>1
  <2>2. CASE h \notin 1..Len(handles)
    <3>1. PICK k \in 1..n : handles'[h] = own[k]
      BY <1>10, <2>2
    <3>2. handles'[h].job = Len(jobs) + k
      BY <1>12, <3>1
    <3> QED
      BY <1>1, <1>7, <3>1, <3>2
  <2> QED
    BY <2>1, <2>2
<1>14. ASSUME NEW k \in 1..Len(queue') PROVE queue'[k] \in 1..Len(handles')
  <2>1. CASE k \in 1..Len(queue)
    <3>1. queue[k] \in 1..Len(handles)
      BY <2>1 DEF Handled
    <3> QED
      BY <1>1, <1>10, <1>11, <2>1, <3>1
  <2>2. CASE k \notin 1..Len(queue)
    <3>1. PICK m \in 1..n : queue'[k] = numbers[m]
      BY <1>11, <2>2
    <3>2. queue'[k] = Len(handles) + m
      BY <1>12, <3>1
    <3>3. Len(handles') = Len(handles) + n /\ Len(handles) \in Nat /\ n \in Nat
      BY <1>1, <1>10
    <3> QED
      BY <3>1, <3>2, <3>3
  <2> QED
    BY <2>1, <2>2
<1>15. Kept
  BY <1>1, <1>7, <1>10 DEF Kept, Same
<1>16. Read
  <2>1. ASSUME NEW i \in 1..Len(jobs'), i \notin 1..Len(jobs)
        PROVE  \E e \in Recoverable : jobs'[i].cams = manifest[e].job
    <3>1. PICK k \in 1..n : jobs'[i] = fresh[k]
      BY <1>7, <2>1
    <3>2. found[k] \in Recoverable /\ fresh[k] = New(found[k], manifest[found[k]])
      BY <1>1 DEF fresh
    <3> QED
      BY <3>1, <3>2 DEF New
  <2>2. ASSUME NEW e \in Episodes
        PROVE  manifest'[e] = manifest[e]
               \/ (e \in Recoverable /\ manifest'[e].state = "pending"
                   /\ manifest'[e].job = manifest[e].job)
    <3>1. manifest[e] \in Manifests
      BY DEF Books
    <3>2. CASE e \in ToSet(found)
      <4>1. e \in Recoverable
        BY <1>1, <3>2 DEF ToSet
      <4>2. manifest'[e] = [manifest[e] EXCEPT !.state = "pending"]
        BY <1>2, <3>2
      <4> QED
        BY <3>1, <4>1, <4>2 DEF Manifests
    <3>3. CASE e \notin ToSet(found)
      BY <1>2, <3>3
    <3> QED
      BY <3>2, <3>3
  <2> QED
    BY <2>1, <2>2 DEF Read
<1> QED
  BY <1>9, <1>10, <1>11, <1>13, <1>14, <1>15, <1>16 DEF Handled

-----------------------------------------------------------------------------
\* The books, the references and the worker's locals, by who takes the step.  Who changes a
\* job writes it.
Rewritten ==
  \E i \in 1..Len(jobs), j \in JobRecords :
    /\ j.cams = jobs[i].cams /\ j.episode = jobs[i].episode
    /\ jobs' = [jobs EXCEPT ![i] = j] /\ manifest' = Written(j)
Core == Books /\ Refs /\ Downloading

LEMMA Lengths ==
  ASSUME Core
  PROVE  /\ Len(jobs) \in Nat /\ Len(handles) \in Nat /\ Len(queue) \in Nat
         /\ pc \in Busy => Now \in 1..Len(jobs) /\ Job \in JobRecords /\ Collected(Job, Here)
<1>1. Len(jobs) \in Nat /\ Len(handles) \in Nat /\ Len(queue) \in Nat
  BY LenProperties DEF Core, Books, Refs, Handled
<1>2. ASSUME pc \in Busy
      PROVE  Now \in 1..Len(jobs) /\ Job \in JobRecords /\ Collected(Job, Here)
  <2>1. Now \in 1..Len(jobs)
    BY <1>2 DEF Core, Refs, Handled, Held, Now
  <2> QED
    BY <2>1, ElementOfSeq DEF Core, Books, Job
<1> QED
  BY <1>1, <1>2

\* Whoever enqueues, retries or builds a job leaves the one at work to the worker.
LEMMA KeptDownloading ==
  ASSUME Core, Kept, UNCHANGED <<Here, parts, halves, worker>>
  PROVE  Downloading' /\ (pc' \in Busy => current' \in 1..Len(handles'))
<1>1. UNCHANGED <<pc, current, todo, camera, ok, anyFailure, Here, parts, halves>>
  BY DEF worker
<1>2. CASE pc \notin Busy
  BY <1>1, <1>2 DEF Core, Downloading, Busy
<1>3. CASE pc \in Busy
  <2>1. current \in 1..Len(handles) /\ Now \in 1..Len(jobs)
    BY <1>3, Lengths DEF Core, Refs, Held
  <2>2. handles'[current].job = Now /\ Now' = Now
    BY <1>1, <2>1 DEF Kept, Now
  <2>3. Same(Job', Job)
    BY <2>1, <2>2 DEF Kept, Job
  <2>4. Target' = Target
    BY <1>1, <2>3 DEF Target, Same
  <2>5. current' \in 1..Len(handles')
    BY <1>1, <2>1, Lengths DEF Kept
  <2> HIDE DEF Job, Target
  <2> QED
    BY <1>1, <2>3, <2>4, <2>5 DEF Core, Downloading, Same
<1> QED
  BY <1>2, <1>3

LEMMA SessionHeld ==
  ASSUME Core, Kept, UNCHANGED <<Here, parts, halves, worker, job, take>>
  PROVE  Held' /\ Downloading'
<1>1. \A c \in Cameras : job[c] \in Nat /\ job[c] <= Len(jobs)
  BY DEF Core, Refs, Held
<1>2. Len(jobs) \in Nat /\ Len(jobs') \in Nat /\ Len(jobs) <= Len(jobs')
  BY Lengths DEF Kept
<1> QED
  BY <1>1, <1>2, KeptDownloading DEF Core, Refs, Held

LEMMA RecoverStep ==
  ASSUME Core, EnqueueRecovered(SetToSeq(Recoverable)),
         UNCHANGED <<backend, halves, worker, job, take>>
  PROVE  Core'
<1>1. Books' /\ Handled' /\ Kept
  BY Recovered DEF Core, Refs
<1>2. UNCHANGED <<Here, parts>>
  BY DEF EnqueueRecovered, Here
<1> QED
  BY <1>1, <1>2, SessionHeld DEF Core, Refs

LEMMA RestartStep ==
  ASSUME Core, Networks, Restart, UNCHANGED <<job, take>>
  PROVE  Core'
<1>1. Books' /\ Handled' /\ Len(jobs) <= Len(jobs')
  <2>1. CASE EnqueueRecovered(SetToSeq(Recoverable))
    BY <2>1, Recovered DEF Core, Refs, Kept, Restart
  <2>2. CASE UNCHANGED <<disk, jobs, handles, queue>>
    <3>1. UNCHANGED Here
      BY <2>2 DEF Restart, disk, Here
    <3> QED
      BY <2>2, <3>1, Lengths DEF Core, Books, ManifestIsTrue, Refs, Handled, disk
  <2> QED
    BY <2>1, <2>2, Zenon DEF Restart
<1>2. Held'
  <2>1. \A c \in Cameras : job[c] \in Nat /\ job[c] <= Len(jobs)
    BY DEF Core, Refs, Held
  <2> QED
    BY <1>1, <2>1, Lengths DEF Core, Refs, Held, Restart, Busy
<1>3. UNCHANGED <<parts, halves>> /\ pc' = "get" /\ UNCHANGED <<ok, anyFailure>> /\ pc = "off"
  BY DEF Networks, Restart, EnqueueRecovered, disk, wifi
<1>4. Downloading'
  BY <1>3 DEF Core, Downloading, Busy
<1> QED
  BY <1>1, <1>2, <1>4 DEF Core, Refs

\* A crash takes the jobs; at most a manifest that was being written is lost.
LEMMA CrashStep ==
  ASSUME Core, Crash, job' = [c \in Cameras |-> 0], UNCHANGED take
  PROVE  Core'
<1>1. jobs' = <<>> /\ handles' = <<>> /\ queue' = <<>> /\ pc' = "off" /\ UNCHANGED Here
      /\ ok' = TRUE /\ anyFailure' = FALSE /\ halves' = halves \union parts /\ parts' = parts
  BY DEF Crash, LocalsEnd, Here
<1>2. ASSUME NEW e \in Episodes PROVE manifest'[e] = manifest[e] \/ manifest'[e] = None
  <2>1. \/ UNCHANGED manifest
        \/ manifest' = [manifest EXCEPT ![Job.episode] = None]
    BY Zenon DEF Crash
  <2> QED
    BY <2>1 DEF Core, Books
<1>3. manifest' \in [Episodes -> Manifests]
  <2>1. None \in Manifests
    BY DEF None, Manifests
  <2>2. manifest \in [Episodes -> Manifests]
    BY DEF Core, Books
  <2>3. \/ UNCHANGED manifest
        \/ manifest' = [manifest EXCEPT ![Job.episode] = None]
    BY Zenon DEF Crash
  <2> QED
    BY <2>1, <2>2, <2>3
<1>4. Books'
  <2>1. ASSUME NEW e \in Episodes
        PROVE  /\ manifest'[e].done \subseteq manifest'[e].job
               /\ {e} \X manifest'[e].done \subseteq Here'
               /\ manifest'[e].state = "completed" => manifest'[e].done = manifest'[e].job
    <3>1. CASE manifest'[e] = manifest[e]
      BY <1>1, <3>1 DEF Core, Books, ManifestIsTrue
    <3>2. CASE manifest'[e] = None
      BY <3>2 DEF None
    <3> QED
      BY <1>2, <3>1, <3>2
  <2>2. jobs' \in Seq(JobRecords) /\ Len(jobs') = 0
    BY <1>1
  <2> QED
    BY <1>3, <2>1, <2>2 DEF Books, ManifestIsTrue
<1>5. Refs' /\ Downloading'
  <2>1. handles' \in Seq(HandleRecords) /\ Len(handles') = 0 /\ Len(jobs') = 0
    BY <1>1
  <2>2. queue' \in Seq(Nat) /\ Len(queue') = 0
    BY <1>1
  <2>3. Handled'
    BY <2>1, <2>2 DEF Handled
  <2>4. Held'
    BY <1>1, <2>1 DEF Core, Refs, Held, Busy
  <2>5. Downloading'
    BY <1>1 DEF Downloading, Busy
  <2> QED
    BY <2>3, <2>4, <2>5 DEF Refs
<1> QED
  BY <1>4, <1>5 DEF Core

LEMMA RetryStep ==
  ASSUME Core, NEW h \in 1..Len(handles), Retry(h), UNCHANGED <<job, take>>
  PROVE  Core' /\ Rewritten
<1> DEFINE i == handles[h].job
           j == [jobs[i] EXCEPT !.state = "pending"]
<1>1. /\ jobs' = [jobs EXCEPT ![i] = j] /\ manifest' = Written(j)
      /\ handles' = [handles EXCEPT ![h].event = 1] /\ queue' = Append(queue, h)
      /\ UNCHANGED <<Here, parts, halves, worker>>
  BY Zenon DEF Retry, wifi, Here
<1>2. i \in 1..Len(jobs) /\ handles[h] \in HandleRecords
  BY ElementOfSeq DEF Core, Refs, Handled
<1>3. jobs[i] \in JobRecords /\ Collected(jobs[i], Here)
  BY <1>2, ElementOfSeq DEF Core, Books
<1>4. j \in JobRecords /\ Collected(j, Here) /\ Same(j, jobs[i])
  BY <1>3 DEF JobRecords, Collected, Same, States
<1> HIDE DEF j, i
<1>5. /\ Books' /\ Len(jobs') = Len(jobs) /\ jobs'[i] = j
      /\ \A k \in 1..Len(jobs) : k # i => jobs'[k] = jobs[k]
  <2>1. Here \subseteq Here' /\ Collected(j, Here')
    BY <1>1, <1>4
  <2> QED
    BY <1>1, <1>2, <1>4, <2>1, ReplacedBooks DEF Core
<1>6. /\ handles' \in Seq(HandleRecords) /\ Len(handles') = Len(handles)
      /\ \A k \in 1..Len(handles) : handles'[k].job = handles[k].job
  <2>1. PICK r : r = [handles[h] EXCEPT !.event = 1]
    OBVIOUS
  <2>2. r \in HandleRecords /\ r.job = handles[h].job
    BY <1>2, <2>1 DEF HandleRecords
  <2>3. handles' = [handles EXCEPT ![h] = r]
    BY <1>1, <2>1
  <2>4. /\ handles' \in Seq(HandleRecords) /\ Len(handles') = Len(handles)
        /\ \A k \in 1..Len(handles) : handles'[k] = IF k = h THEN r ELSE handles[k]
    BY <2>2, <2>3, ExceptSeq DEF Core, Refs, Handled
  <2> QED
    BY <2>2, <2>4
<1>7. Handled'
  <2>1. /\ queue' \in Seq(Nat) /\ Len(queue') = Len(queue) + 1 /\ queue'[Len(queue) + 1] = h
        /\ \A k \in 1..Len(queue) : queue'[k] = queue[k]
    BY <1>1, AppendProperties DEF Core, Refs, Handled
  <2>2. ASSUME NEW k \in 1..Len(queue) + 1 PROVE queue'[k] \in 1..Len(handles')
    <3>1. k \in 1..Len(queue) => queue[k] \in 1..Len(handles)
      BY DEF Core, Refs, Handled
    <3>2. k \in 1..Len(queue) \/ k = Len(queue) + 1
      BY Lengths
    <3> QED
      BY <1>6, <2>1, <3>1, <3>2
  <2> QED
    BY <1>5, <1>6, <2>1, <2>2 DEF Core, Refs, Handled
<1>8. Kept
  <2>1. ASSUME NEW k \in 1..Len(jobs) PROVE Same(jobs'[k], jobs[k])
    BY <1>4, <1>5 DEF Same
  <2> QED
    BY <1>5, <1>6, <2>1, Lengths DEF Kept
<1>9. Rewritten
  BY <1>1, <1>2, <1>4 DEF Rewritten, Same
<1> QED
  BY <1>1, <1>5, <1>7, <1>8, <1>9, SessionHeld DEF Core, Refs

LEMMA AggregateEpisodeStep ==
  ASSUME Core, NEW e \in Episodes, AggregateEpisode(e)
  PROVE  Core'
<1>1. UNCHANGED <<Here, parts, halves, jobs, worker, job, take>>
  BY Zenon DEF AggregateEpisode, stream, wifi, Here
<1>2. PICK c \in Cameras :
        job[c] # 0 /\ Enqueue(job[c]) /\ manifest' = Written(jobs[job[c]])
  BY DEF AggregateEpisode
<1>3. job[c] \in 1..Len(jobs)
  BY <1>2, Lengths DEF Core, Refs, Held
<1>4. jobs[job[c]] \in JobRecords /\ Collected(jobs[job[c]], Here')
  BY <1>1, <1>3, ElementOfSeq DEF Core, Books
<1>5. Books'
  BY <1>1, <1>2, <1>4, WrittenBooks DEF Core, Books
<1>6. /\ Handled' /\ Len(handles) <= Len(handles')
      /\ \A h \in 1..Len(handles) : handles'[h] = handles[h]
  BY <1>1, <1>2, <1>3, Lengths, EnqueueHandled DEF Core, Refs, Enqueue
<1>7. Kept
  BY <1>1, <1>6, Lengths DEF Kept, Same
<1> QED
  BY <1>1, <1>5, <1>6, <1>7, SessionHeld DEF Core, Refs

LEMMA BuildJobStep ==
  ASSUME Core, NEW c \in Cameras, BuildJob(c)
  PROVE  Core'
<1> DEFINE j == [episode |-> take, cams |-> {c}, state |-> "pending", done |-> {}]
           n == Len(jobs) + 1
<1>1. /\ jobs' = Append(jobs, j) /\ job' = [job EXCEPT ![c] = n]
      /\ UNCHANGED <<Here, parts, halves, worker, take>>
      /\ Refused(jobs'[n]) \/ Save(jobs'[n])
      /\ \/ Enqueue(n)
         \/ UNCHANGED queue /\ (handles' = handles \/ handles' = Append(handles, Handle(n)))
  BY Zenon DEF BuildJob, Set, wifi, Here
<1>2. j \in JobRecords /\ Collected(j, Here')
  BY DEF Core, Refs, Held, JobRecords, Collected, States
<1> HIDE DEF j
<1>3. /\ jobs' \in Seq(JobRecords) /\ Len(jobs') = n /\ jobs'[n] = j
      /\ \A i \in 1..Len(jobs) : jobs'[i] = jobs[i]
  BY <1>1, <1>2, AppendProperties DEF Core, Books
<1>4. \A i \in 1..Len(jobs') : Collected(jobs'[i], Here')
  BY <1>1, <1>2, <1>3, Lengths DEF Core, Books
<1>5. Books'
  <2>1. CASE Save(jobs'[n])
    BY <1>1, <1>2, <1>3, <1>4, <2>1, WrittenBooks DEF Core, Save
  <2>2. CASE Refused(jobs'[n])
    <3>1. manifest \in [Episodes -> Manifests] /\ None \in Manifests
      BY DEF Core, Books, None, Manifests
    <3>2. manifest' = manifest \/ manifest' = [manifest EXCEPT ![j.episode] = None]
      BY <1>3, <2>2 DEF Refused
    <3>3. \A e \in Episodes : manifest'[e] = manifest[e] \/ manifest'[e] = None
      BY <3>1, <3>2
    <3>4. manifest' \in [Episodes -> Manifests]
      BY <3>1, <3>2
    <3> QED
      BY <1>1, <1>3, <1>4, <3>3, <3>4, BooksKept DEF Core
  <2> QED
    BY <1>1, <2>1, <2>2
<1>6. /\ Handled' /\ Len(handles) <= Len(handles')
      /\ \A h \in 1..Len(handles) : handles'[h] = handles[h]
  <2>1. CASE Enqueue(n) \/ (UNCHANGED queue /\ handles' = Append(handles, Handle(n)))
    BY <1>3, <2>1, Lengths, EnqueueHandled DEF Core, Refs, Enqueue
  <2>2. CASE UNCHANGED <<handles, queue>>
    BY <1>3, <2>2, Lengths, SameHandled DEF Core, Refs
  <2> QED
    BY <1>1, <2>1, <2>2
<1>7. Kept
  BY <1>3, <1>6, Lengths DEF Kept, Same
<1>8. Downloading' /\ (pc' \in Busy => current' \in 1..Len(handles'))
  BY <1>1, <1>7, KeptDownloading
<1>9. Held'
  <2>1. \A d \in Cameras : job[d] \in Nat /\ job[d] <= Len(jobs)
    BY DEF Core, Refs, Held
  <2> QED
    BY <1>1, <1>3, <1>8, <2>1, Lengths DEF Core, Refs, Held
<1> QED
  BY <1>5, <1>6, <1>8, <1>9 DEF Core, Refs

LEMMA BeginJobStep ==
  ASSUME Core, BeginJob, UNCHANGED <<job, take>>
  PROVE  Core' /\ Rewritten
<1> DEFINE i == handles[Head(queue)].job
           j == [jobs[i] EXCEPT !.state = "running"]
<1>1. /\ queue # <<>> /\ queue' = Tail(queue) /\ UNCHANGED <<Here, handles, ok>>
      /\ pc = "get" /\ UNCHANGED <<parts, halves>>
      /\ jobs' = [jobs EXCEPT ![i] = j] /\ manifest' = Written(j)
      /\ current' = Head(queue) /\ todo' = j.cams \ j.done
      /\ pc' = "next" /\ anyFailure' = FALSE
  BY Zenon DEF BeginJob, wifi, Here
<1>2. /\ Head(queue) \in 1..Len(handles) /\ queue' \in Seq(Nat)
      /\ \A k \in 1..Len(queue') : queue'[k] \in 1..Len(handles)
  <2>1. queue \in Seq(Nat) /\ \A k \in 1..Len(queue) : queue[k] \in 1..Len(handles)
    BY DEF Core, Refs, Handled
  <2>2. /\ queue' \in Seq(Nat) /\ Len(queue') = Len(queue) - 1
        /\ \A k \in 1..Len(queue') : queue'[k] = queue[k + 1]
    BY <1>1, <2>1, HeadTailProperties
  <2>3. Len(queue) \in Nat \ {0} /\ Head(queue) = queue[1]
    BY <1>1, <2>1, EmptySeq
  <2>4. ASSUME NEW k \in 1..Len(queue') PROVE queue'[k] \in 1..Len(handles)
    <3>1. k + 1 \in 1..Len(queue)
      BY <2>2, <2>3
    <3> QED
      BY <2>1, <2>2, <3>1
  <2> QED
    BY <2>1, <2>2, <2>3, <2>4
<1>3. i \in 1..Len(jobs)
  BY <1>2 DEF Core, Refs, Handled
<1>4. jobs[i] \in JobRecords /\ Collected(jobs[i], Here)
  BY <1>3, ElementOfSeq DEF Core, Books
<1>5. /\ j \in JobRecords /\ Collected(j, Here) /\ j.state = "running"
      /\ j.cams = jobs[i].cams /\ j.episode = jobs[i].episode
  BY <1>4 DEF JobRecords, Collected, States
<1> HIDE DEF j
<1>6. Books' /\ Len(jobs') = Len(jobs) /\ jobs'[i] = j
  <2>1. Here \subseteq Here' /\ Collected(j, Here')
    BY <1>1, <1>5
  <2> QED
    BY <1>1, <1>3, <1>5, <2>1, ReplacedBooks DEF Core
<1>7. Handled'
  BY <1>1, <1>2, <1>6 DEF Core, Refs, Handled
<1>8. Held'
  BY <1>1, <1>2, <1>6 DEF Core, Refs, Held
<1>9. Downloading'
  <2>1. Job' = j
    BY <1>1, <1>6 DEF Job, Now
  <2>2. ok \in BOOLEAN /\ parts \subseteq halves
    BY <1>1 DEF Core, Downloading
  <2> HIDE DEF Job, Target
  <2>3. todo' \subseteq j.cams /\ j.cams \subseteq j.done \union todo'
    BY <1>1
  <2> QED
    BY <1>1, <1>5, <2>1, <2>2, <2>3 DEF Downloading, Busy
<1>10. Rewritten
  BY <1>1, <1>3, <1>5 DEF Rewritten
<1> QED
  BY <1>6, <1>7, <1>8, <1>9, <1>10 DEF Core, Refs

\* The worker writes the job at work and its manifest.
LEMMA NotedBooks ==
  ASSUME Core, pc \in Busy, NEW j \in JobRecords, Collected(j, Here), j.cams = Job.cams,
         j.episode = Job.episode,
         jobs' = [jobs EXCEPT ![Now] = j], manifest' = Written(j),
         UNCHANGED <<Here, handles, queue, job, take>>,
         pc' \in Busy => current' = current
  PROVE  Books' /\ Refs' /\ Rewritten /\ (current' = current => Job' = j)
<1>1. Now \in 1..Len(jobs) /\ Here \subseteq Here' /\ Collected(j, Here')
  BY Lengths
<1>2. Books' /\ Len(jobs') = Len(jobs) /\ jobs'[Now] = j
  BY <1>1, ReplacedBooks DEF Core
<1>3. Handled'
  BY <1>2, Lengths, SameHandled DEF Core, Refs
<1>4. Held'
  BY <1>2 DEF Core, Refs, Held
<1>5. Rewritten
  BY <1>1 DEF Rewritten, Job
<1> QED
  BY <1>2, <1>3, <1>4, <1>5 DEF Refs, Job, Now

LEMMA NoteCameraStep ==
  ASSUME Core, NoteCamera, UNCHANGED <<job, take>>
  PROVE  Core' /\ Rewritten
<1> DEFINE j == [Job EXCEPT !.done = IF ok THEN @ \union {camera} ELSE @ \ {camera}]
<1>1. /\ pc = "note" /\ pc' = "next" /\ UNCHANGED <<Here, handles, queue, current, todo, ok>>
      /\ UNCHANGED <<parts, halves>>
      /\ jobs' = [jobs EXCEPT ![Now] = j] /\ manifest' = Written(j)
      /\ anyFailure' = (anyFailure \/ ~ok)
  BY Zenon DEF NoteCamera, wifi, Here
<1>2. Job \in JobRecords /\ Collected(Job, Here)
  BY <1>1, Lengths DEF Busy
<1>3. /\ Job.state \in {"pending", "running"} /\ todo \subseteq Job.cams /\ camera \in Job.cams
      /\ anyFailure \/ Job.cams \subseteq Job.done \union todo \union {camera}
      /\ ok => <<Job.episode, camera>> \in Here
      /\ ok \in BOOLEAN /\ anyFailure \in BOOLEAN /\ parts \subseteq halves
  BY <1>1 DEF Core, Downloading, Busy, Target
<1> HIDE DEF Job
<1>4. /\ j \in JobRecords /\ j.cams = Job.cams /\ j.state = Job.state /\ j.episode = Job.episode
      /\ j.done = IF ok THEN Job.done \union {camera} ELSE Job.done \ {camera}
  BY <1>2, <1>3 DEF JobRecords
<1> HIDE DEF j
<1>5. Collected(j, Here)
  BY <1>2, <1>3, <1>4 DEF Collected
<1>6. Books' /\ Refs' /\ Rewritten /\ Job' = j
  BY <1>1, <1>4, <1>5, NotedBooks DEF Busy
<1>7. anyFailure' \in BOOLEAN /\ (anyFailure' \/ (ok /\ ~anyFailure))
  BY <1>1, <1>3, Zenon
<1>8. Downloading'
  BY <1>1, <1>3, <1>4, <1>6, <1>7 DEF Downloading, Busy
<1> QED
  BY <1>6, <1>8 DEF Core

LEMMA EndJobStep ==
  ASSUME Core, EndJob, UNCHANGED <<job, take>>
  PROVE  Core' /\ Rewritten
<1> DEFINE j == [Job EXCEPT !.state = Outcome]
<1>1. /\ pc = "next" /\ todo = {} /\ pc' = "get" /\ UNCHANGED <<Here, handles, queue>>
      /\ UNCHANGED <<parts, halves>>
      /\ jobs' = [jobs EXCEPT ![Now] = j] /\ manifest' = Written(j)
      /\ ok' = TRUE /\ anyFailure' = FALSE
  BY Zenon DEF EndJob, LocalsEnd, wifi, Here
<1>2. Job \in JobRecords /\ Collected(Job, Here)
  BY <1>1, Lengths DEF Busy
<1>3. anyFailure \/ Job.cams \subseteq Job.done
  BY <1>1 DEF Core, Downloading, Busy
<1> HIDE DEF Job
<1>4. /\ j \in JobRecords /\ j.cams = Job.cams /\ j.episode = Job.episode /\ j.done = Job.done
      /\ j.state = Outcome
  BY <1>2 DEF JobRecords, Outcome, States
<1> HIDE DEF j
<1>5. Collected(j, Here)
  BY <1>2, <1>3, <1>4 DEF Collected, Outcome
<1>6. Books' /\ Refs' /\ Rewritten
  BY <1>1, <1>4, <1>5, NotedBooks DEF Busy
<1>7. parts \subseteq halves
  BY <1>1 DEF Core, Downloading
<1>8. Downloading'
  BY <1>1, <1>7 DEF Downloading, Busy
<1> QED
  BY <1>6, <1>8 DEF Core

\* A copy that ends takes no file away; one that counts as whole is there.
LEMMA CopyKeeps ==
  ASSUME CopyFile
  PROVE  /\ pc = "copy" /\ UNCHANGED <<todo, camera>> /\ Here \subseteq Here'
         /\ \/ pc' \in {"note", "restore"} /\ ok' = FALSE
            \/ pc' \in {"note", "restore"} /\ ok' = TRUE /\ Target \in Here'
         /\ \/ halves' = halves \union {Target} /\ parts' = parts
            \/ halves' = halves /\ parts' = parts \ {Target}
<1>1. PICK copy \in Copies : CopyEnds(copy, backend # "wifi")
  BY DEF CopyFile
<1>2. copy \in {"whole", "fail", "short", "disk"}
  BY DEF Copies
<1>3. PICK t : t = Target
  OBVIOUS
<1>4. /\ pc = "copy" /\ UNCHANGED <<backend, todo, camera>>
      /\ \/ halves' = halves \union {t} /\ parts' = parts
         \/ halves' = halves /\ parts' = parts \ {t}
  BY <1>1, <1>3, Zenon DEF CopyEnds
<1>5. \/ ok' = FALSE /\ pc' = Cleanup /\ UNCHANGED <<files, cut>>
      \/ /\ copy = "whole" /\ ok' = TRUE /\ pc' = Cleanup
         /\ files' = files \union {t} /\ cut' = cut \ {t}
      \/ /\ copy = "short" /\ backend = "wifi" /\ ok' = TRUE /\ pc' = Cleanup
         /\ files' = files \ {t} /\ cut' = cut \union {t}
  <2>1. CASE copy \in {"fail", "disk"} \/ (copy = "short" /\ backend # "wifi")
    BY <1>1, <1>3, <2>1, Zenon DEF CopyEnds, Raise
  <2>2. CASE copy = "whole"
    BY <1>1, <1>3, <2>2 DEF CopyEnds
  <2>3. CASE copy = "short" /\ backend = "wifi"
    BY <1>1, <1>3, <2>3 DEF CopyEnds
  <2> QED
    BY <1>2, <2>1, <2>2, <2>3
<1>6. Cleanup \in {"note", "restore"}
  BY DEF Cleanup
<1>7. Here \subseteq Here' /\ (ok' = TRUE => t \in Here')
  <2>1. CASE backend = "wifi"
    BY <1>4, <1>5, <2>1 DEF Here
  <2>2. CASE backend # "wifi"
    BY <1>4, <1>5, <2>2 DEF Here
  <2> QED
    BY <2>1, <2>2
<1> QED
  BY <1>3, <1>4, <1>5, <1>6, <1>7, Zenon

\* The other steps of the worker leave the jobs alone, and files are only added.
LEMMA DownloadStep ==
  ASSUME Core,
         UNCHANGED <<backend, jobs, handles, queue, manifest, job, take, current, anyFailure>>,
         Sleep \/ NextCamera \/ SwitchWifi \/ RestoreWifi \/ FindMount \/ WaitForAp \/ CopyFile
  PROVE  Core'
<1>1. Here \subseteq Here' /\ (Here' = Here \/ pc \in Busy)
  <2>1. CASE CopyFile
    BY <2>1, CopyKeeps DEF Busy
  <2>2. ASSUME Sleep \/ NextCamera \/ SwitchWifi \/ RestoreWifi \/ FindMount \/ WaitForAp
        PROVE  UNCHANGED Here
    BY <2>2, Zenon DEF Sleep, NextCamera, SwitchWifi, RestoreWifi, FindMount, WaitForAp,
         OpenTarget, disk, Here
  <2> QED
    BY <2>1, <2>2
<1>2. Books'
  <2>1. \A i \in 1..Len(jobs') : Collected(jobs'[i], Here')
    BY <1>1 DEF Core, Books, Collected
  <2> QED
    BY <1>1, <2>1, BooksKept DEF Core, Books
<1>3. pc' \in Busy => pc \in Busy
  BY DEF Sleep, NextCamera, SwitchWifi, RestoreWifi, FindMount, WaitForAp, OpenTarget,
         CopyFile, CopyEnds, Raise, Cleanup, Busy, worker
<1>4. Refs'
  <2>1. Handled'
    BY Lengths, SameHandled DEF Core, Refs
  <2> QED
    BY <1>3, <2>1 DEF Core, Refs, Held
<1>5. Job' = Job
  BY DEF Job, Now
<1> USE DEF Core, Downloading, Busy
<1> HIDE DEF Job
<1>6. CASE Sleep
  BY <1>1, <1>2, <1>4, <1>5, <1>6 DEF Sleep, worker, disk, wifi, Target
<1>7. CASE NextCamera
  BY <1>1, <1>2, <1>4, <1>5, <1>7 DEF NextCamera, disk, wifi
<1>8. CASE SwitchWifi
  <2>1. pc = "switch" /\ UNCHANGED <<todo, camera, parts, halves>>
    BY <1>8, Zenon DEF SwitchWifi, disk
  <2>2. \/ pc' \in {"note", "restore"} /\ ok' = FALSE
        \/ pc' = "open" /\ ok' = ok
    BY <1>8 DEF SwitchWifi, Raise, Cleanup
  <2> QED
    BY <1>2, <1>4, <1>5, <2>1, <2>2
<1>9. CASE RestoreWifi
  BY <1>1, <1>2, <1>4, <1>5, <1>9 DEF RestoreWifi, Target, disk
<1>10. CASE OpenTarget /\ pc = "open"
  <2>1. pc = "open" /\ UNCHANGED <<todo, camera>>
    BY <1>10, Zenon DEF OpenTarget
  <2>2. \/ pc' \in {"note", "restore"} /\ ok' = FALSE /\ parts' = parts /\ halves' = halves
        \/ /\ pc' = "copy" /\ ok' = ok
           /\ parts' = parts \union {Target} /\ halves' = halves \ {Target}
    BY <1>10 DEF OpenTarget, Raise, Cleanup
  <2> QED
    BY <1>2, <1>4, <1>5, <2>1, <2>2 DEF Target
<1>11. CASE CopyFile
  <2>1. pc = "copy" /\ UNCHANGED <<todo, camera>> /\ Target' = Target
    BY <1>5, <1>11, CopyKeeps DEF Target
  <2>2. \/ pc' \in {"note", "restore"} /\ ok' = FALSE
        \/ pc' \in {"note", "restore"} /\ ok' = TRUE /\ Target \in Here'
    BY <1>11, CopyKeeps, Zenon
  <2>3. \/ halves' = halves \union {Target} /\ parts' = parts
        \/ halves' = halves /\ parts' = parts \ {Target}
    BY <1>11, CopyKeeps, Zenon
  <2> QED
    BY <1>2, <1>4, <1>5, <2>1, <2>2, <2>3
<1> QED
  BY <1>6, <1>7, <1>8, <1>9, <1>10, <1>11 DEF FindMount, WaitForAp

-----------------------------------------------------------------------------
\* Every step is one of the worker's, of another's with its queue, or leaves both alone.
LEMMA CoreStep ==
  ASSUME Core, Networks, [Next]_vars
  PROVE  Core'
<1>1. CASE Quietly(Worker)
  <2>1. UNCHANGED <<job, take>>
    BY <1>1 DEF Quietly, stream
  <2>2. CASE BeginJob \/ NoteCamera \/ EndJob
    BY <2>1, <2>2, BeginJobStep, NoteCameraStep, EndJobStep
  <2>3. CASE \/ Sleep \/ NextCamera \/ SwitchWifi \/ RestoreWifi
             \/ FindMount \/ WaitForAp \/ CopyFile
    <3>1. UNCHANGED <<backend, jobs, handles, queue, manifest, current, anyFailure>>
      BY <2>3, Zenon DEF Sleep, NextCamera, SwitchWifi, RestoreWifi, FindMount, WaitForAp,
            OpenTarget, CopyFile, CopyEnds, disk, memory, worker
    <3> QED
      BY <2>1, <2>3, <3>1, DownloadStep
  <2> QED
    BY <1>1, <2>2, <2>3 DEF Quietly, Worker
<1>2. CASE Quietly(AggregateAllPending)
  BY <1>2, RecoverStep DEF Quietly, stream, AggregateAllPending, wifi
<1>3. CASE Quietly(Restart)
  BY <1>3, RestartStep DEF Quietly, stream
<1>4. ASSUME NEW h \in 1..Len(handles), Quietly(Retry(h)) PROVE Core'
  BY <1>4, RetryStep DEF Quietly, stream
<1>5. CASE SessionDies
  BY <1>5, CrashStep DEF SessionDies
<1>6. CASE UNCHANGED <<aggregation, job>> /\ take' \in Episodes
  BY <1>6 DEF Core, Books, ManifestIsTrue, Refs, Handled, Held, Downloading, Job, Now, Target,
     Here, aggregation, disk, memory, worker, wifi
<1>7. CASE BeginTake
  <2>1. UNCHANGED <<aggregation, job>> /\ take' = take + 1 /\ take < MaxTakes
    BY <1>7 DEF BeginTake
  <2>2. take' \in Episodes
    BY <2>1, Assumption DEF Core, Refs, Held, Episodes
  <2> QED
    BY <1>6, <2>1, <2>2
<1>8. ASSUME NEW e \in Episodes, AggregateEpisode(e) PROVE Core'
  BY <1>8, AggregateEpisodeStep
<1>9. ASSUME NEW c \in Cameras, BuildJob(c) PROVE Core'
  BY <1>9, BuildJobStep
<1>10. ASSUME NEW c \in Cameras,
              \/ StartRelinks(c) \/ StartCapture(c) \/ FirstStop(c) \/ RetryLink(c)
              \/ SecondStop(c) \/ NoJob(c) \/ Connect(c) \/ LinkDrops(c) \/ Disconnect(c)
              \/ EndTake(c)
       PROVE  UNCHANGED <<aggregation, job>> /\ take' \in Episodes
  <2>1. UNCHANGED <<aggregation, job, take>>
    BY <1>10, Zenon DEF StartRelinks, Relink, StartCapture, FirstStop, RetryLink, SecondStop,
         NoJob, Connect, LinkDrops, Disconnect, EndTake
  <2> QED
    BY <2>1 DEF Core, Refs, Held
<1>11. CASE UNCHANGED vars
  BY <1>6, <1>11 DEF vars, stream, Core, Refs, Held
<1>12. CASE Quietly(UserRejoins)
  BY <1>12 DEF Quietly, UserRejoins, Core, Books, ManifestIsTrue, Refs, Handled, Held,
     Downloading, Job, Now, Target, Here, disk, memory, worker, stream
<1> QED
  BY <1>1, <1>2, <1>3, <1>4, <1>5, <1>6, <1>7, <1>8, <1>9, <1>10, <1>11, <1>12 DEF Next, StreamStep

LEMMA NetworksStep ==
  ASSUME Networks, Downloading, [Next]_vars
  PROVE  Networks'
<1> USE DEF Networks, Downloading, Busy, wifi, worker
<1>1. CASE Quietly(Sleep)
  BY <1>1 DEF Quietly, Sleep
<1>2. CASE Quietly(BeginJob)
  BY <1>2 DEF Quietly, BeginJob
<1>3. CASE Quietly(NextCamera)
  BY <1>3 DEF Quietly, NextCamera
<1>4. CASE Quietly(SwitchWifi)
  BY <1>4 DEF Quietly, SwitchWifi, Raise, Cleanup, May
<1>5. CASE Quietly(RestoreWifi)
  <2>1. PICK stays \in BOOLEAN :
          /\ net' = IF stays \/ previous \in {"camera", "unknown"} THEN net ELSE previous
          /\ stranded' = (stranded \/ (stays /\ net = "camera" /\ previous = "home"))
    BY <1>5 DEF Quietly, RestoreWifi, May
  <2>2. stranded' \in BOOLEAN
    BY <2>1, Zenon
  <2>3. /\ ~stranded' => ~stranded /\ ~(stays /\ net = "camera" /\ previous = "home")
        /\ net' = net \/ net' = previous
    BY <2>1
  <2> QED
    BY <1>5, <2>1, <2>2, <2>3 DEF Quietly, RestoreWifi
<1>6. CASE Quietly(FindMount \/ WaitForAp)
  BY <1>6 DEF Quietly, FindMount, WaitForAp, OpenTarget, Raise, Cleanup
<1>7. CASE Quietly(CopyFile)
  BY <1>7 DEF Quietly, CopyFile, CopyEnds, Raise, Cleanup
<1>8. CASE Quietly(NoteCamera \/ EndJob)
  BY <1>8 DEF Quietly, NoteCamera, EndJob, LocalsEnd
<1>9. CASE Quietly(AggregateAllPending)
  BY <1>9 DEF Quietly, AggregateAllPending, EnqueueRecovered
<1>10. CASE Quietly(Restart)
  BY <1>10 DEF Quietly, Restart
<1>11. ASSUME NEW h \in 1..Len(handles), Quietly(Retry(h)) PROVE Networks'
  BY <1>11 DEF Quietly, Retry
<1>12. CASE SessionDies
  BY <1>12 DEF SessionDies, Crash, LocalsEnd
<1>13. ASSUME NEW e \in Episodes, AggregateEpisode(e) PROVE Networks'
  BY <1>13 DEF AggregateEpisode
<1>14. ASSUME NEW c \in Cameras, BuildJob(c) PROVE Networks'
  BY <1>14 DEF BuildJob
<1>15. CASE BeginTake
  BY <1>15 DEF BeginTake, aggregation
<1>16. ASSUME NEW c \in Cameras, 
        \/ StartRelinks(c) \/ StartCapture(c) \/ FirstStop(c) \/ RetryLink(c)
        \/ SecondStop(c) \/ NoJob(c) \/ Connect(c) \/ LinkDrops(c) \/ Disconnect(c) \/ EndTake(c)
       PROVE Networks'
  <2>1. UNCHANGED aggregation
    BY <1>16, Zenon DEF StartRelinks, Relink, StartCapture, FirstStop, RetryLink, SecondStop,
         NoJob, Connect, LinkDrops, Disconnect, EndTake
  <2> QED
    BY <2>1 DEF aggregation
<1>17. CASE UNCHANGED vars
  BY <1>17 DEF vars, aggregation
<1>18. CASE Quietly(UserRejoins)
  BY <1>18 DEF Quietly, UserRejoins
<1> QED
  BY <1>1, <1>2, <1>3, <1>4, <1>5, <1>6, <1>7, <1>8, <1>9, <1>10, <1>11, <1>12, <1>13,
     <1>14, <1>15, <1>16, <1>17, <1>18
     DEF Next, StreamStep, Quietly, Worker

LEMMA CardedStep ==
  ASSUME Carded, [Next]_vars
  PROVE  Carded'
<1> USE DEF Carded, Calling, Set, Promised
<1>1. CASE UNCHANGED <<take, call, device, card, report, unsaved>>
  BY <1>1
<1>2. CASE SessionDies
  BY <1>2 DEF SessionDies
<1>3. CASE BeginTake
  BY <1>3 DEF BeginTake
<1>4. ASSUME NEW e \in Episodes, AggregateEpisode(e) PROVE Carded'
  BY <1>4 DEF AggregateEpisode, stream
<1>5. ASSUME NEW c \in Cameras, StartRelinks(c) PROVE Carded'
  BY <1>5 DEF StartRelinks, Relink
<1>6. ASSUME NEW c \in Cameras, StartCapture(c) PROVE Carded'
  BY <1>6 DEF StartCapture, Command
<1>7. ASSUME NEW c \in Cameras, FirstStop(c) PROVE Carded'
  BY <1>7 DEF FirstStop, Command, Closes
<1>8. ASSUME NEW c \in Cameras, RetryLink(c) PROVE Carded'
  BY <1>8 DEF RetryLink, StopFails
<1>9. ASSUME NEW c \in Cameras, SecondStop(c) PROVE Carded'
  BY <1>9 DEF SecondStop, Command, StopFails, Closes
<1>10. ASSUME NEW c \in Cameras, BuildJob(c) PROVE Carded'
  BY <1>10 DEF BuildJob
<1>11. ASSUME NEW c \in Cameras, Connect(c) PROVE Carded'
  BY <1>11 DEF Connect
<1>12. ASSUME NEW c \in Cameras, LinkDrops(c) PROVE Carded'
  BY <1>12 DEF LinkDrops
<1>13. ASSUME NEW c \in Cameras, Disconnect(c) PROVE Carded'
  BY <1>13 DEF Disconnect
<1>14. ASSUME NEW c \in Cameras, EndTake(c) PROVE Carded'
  BY <1>14 DEF EndTake
<1>15. ASSUME NEW c \in Cameras, NoJob(c) PROVE Carded'
  BY <1>15 DEF NoJob, StopFails
<1> QED
  BY <1>1, <1>2, <1>3, <1>4, <1>5, <1>6, <1>7, <1>8, <1>9, <1>10, <1>11, <1>12, <1>13, <1>14, <1>15
     DEF Next, StreamStep, Quietly, stream, vars

-----------------------------------------------------------------------------
\* A job the adapter holds is not lost as long as the process lives.
LEMMA StaysInMemory ==
  ASSUME Core, NEW c \in Cameras, InMemory(c), UNCHANGED <<job, take>>,
         \A i \in 1..Len(jobs) :
           jobs'[i].episode = jobs[i].episode /\ jobs'[i].cams = jobs[i].cams
  PROVE  InMemory(c)'
<1>1. job[c] \in 1..Len(jobs)
  BY Lengths DEF Core, Refs, Held, InMemory
<1> QED
  BY <1>1 DEF InMemory

\* With one camera, a manifest that is written stays.
LEMMA AnnouncedKept ==
  ASSUME Announced, \A i \in 1..Len(jobs') : jobs'[i].cams = Cameras,
         \A e \in Episodes :
           \/ manifest'[e] = manifest[e]
           \/ manifest'[e].job = Cameras /\ manifest'[e].state # "none",
         \A c \in Cameras : report'[c] \in Promised =>
           /\ report[c] \in Promised /\ unsaved'[c] = unsaved[c]
           /\ InMemory(c) => InMemory(c)',
         take \in Episodes, take' = take
  PROVE  Announced'
<1>1. ASSUME NEW c \in Cameras, report'[c] \in Promised PROVE Remembered(c)'
  <2>1. Remembered(c)
    BY <1>1 DEF Announced
  <2> QED
    BY <1>1, <2>1 DEF Remembered
<1>2. \A e \in Episodes : manifest'[e].state # "none" => manifest'[e].job = Cameras
  BY DEF Announced
<1> QED
  BY <1>1, <1>2 DEF Announced, Promised

\* The manifest of a job is written, or a job is changed and written.
LEMMA AnnouncedWritten ==
  ASSUME Core, Announced, NEW j \in JobRecords, j.cams = Cameras, manifest' = Written(j),
         \A i \in 1..Len(jobs') : jobs'[i].cams = Cameras,
         \A i \in 1..Len(jobs) :
           jobs'[i].episode = jobs[i].episode /\ jobs'[i].cams = jobs[i].cams,
         UNCHANGED <<take, report, unsaved, job>>
  PROVE  Announced'
<1>1. /\ manifest' = [manifest EXCEPT ![j.episode] = Noted(j)] /\ j.episode \in Episodes
      /\ Noted(j).job = Cameras /\ Noted(j).state # "none"
  BY DEF Written, Noted, JobRecords, States
<1>2. manifest \in [Episodes -> Manifests] /\ take \in Episodes
  BY DEF Core, Books, Refs, Held
<1>3. PICK m : m = Noted(j)
  OBVIOUS
<1>4. \A e \in Episodes : manifest'[e] = IF e = j.episode THEN m ELSE manifest[e]
  BY <1>1, <1>2, <1>3
<1>5. ASSUME NEW e \in Episodes
      PROVE  \/ manifest'[e] = manifest[e]
             \/ manifest'[e].job = Cameras /\ manifest'[e].state # "none"
  <2>1. CASE e = j.episode
    <3>1. manifest'[e] = Noted(j)
      BY <1>3, <1>4, <2>1
    <3> QED
      BY <1>1, <3>1
  <2>2. CASE e # j.episode
    BY <1>4, <2>2
  <2> QED
    BY <2>1, <2>2
<1>6. \A c \in Cameras : InMemory(c) => InMemory(c)'
  BY StaysInMemory
<1> QED
  BY <1>2, <1>5, <1>6, AnnouncedKept, Zenon

LEMMA AnnouncedRewritten ==
  ASSUME Core, Announced, Rewritten, UNCHANGED stream
  PROVE  Announced'
<1>1. PICK i \in 1..Len(jobs), j \in JobRecords :
        /\ j.cams = jobs[i].cams /\ j.episode = jobs[i].episode
        /\ jobs' = [jobs EXCEPT ![i] = j] /\ manifest' = Written(j)
  BY DEF Rewritten
<1>2. /\ Len(jobs') = Len(jobs)
      /\ \A k \in 1..Len(jobs) : jobs'[k] = IF k = i THEN j ELSE jobs[k]
  BY <1>1, ExceptSeq DEF Core, Books
<1>3. j.cams = Cameras
  BY <1>1 DEF Announced
<1>4. /\ \A k \in 1..Len(jobs') : jobs'[k].cams = Cameras
      /\ \A k \in 1..Len(jobs) :
           jobs'[k].episode = jobs[k].episode /\ jobs'[k].cams = jobs[k].cams
  BY <1>1, <1>2, <1>3 DEF Announced
<1>5. UNCHANGED <<take, report, unsaved, job>>
  BY DEF stream
<1> QED
  BY <1>1, <1>3, <1>4, <1>5, AnnouncedWritten

LEMMA AnnouncedRead ==
  ASSUME Core, Announced, EnqueueRecovered(SetToSeq(Recoverable)), UNCHANGED <<backend, stream>>
  PROVE  Announced'
<1>1. Kept /\ Read
  BY Recovered DEF Core, Refs
<1>2. \A e \in Recoverable : e \in Episodes /\ manifest[e].job = Cameras
  BY DEF Announced, Recoverable
<1>3. \A i \in 1..Len(jobs') : jobs'[i].cams = Cameras
  BY <1>1, <1>2 DEF Kept, Read, Same, Announced
<1>4. ASSUME NEW e \in Episodes
      PROVE  \/ manifest'[e] = manifest[e]
             \/ manifest'[e].job = Cameras /\ manifest'[e].state # "none"
  <2>1. CASE manifest'[e] = manifest[e]
    BY <2>1
  <2>2. CASE /\ e \in Recoverable /\ manifest'[e].state = "pending"
             /\ manifest'[e].job = manifest[e].job
    BY <1>2, <2>2
  <2> QED
    BY <1>1, <2>1, <2>2 DEF Read
<1>5. UNCHANGED <<take, report, unsaved, job>> /\ take \in Episodes
  BY DEF stream, Core, Refs, Held
<1>6. \A c \in Cameras : InMemory(c) => InMemory(c)'
  BY <1>1, <1>5, StaysInMemory DEF Kept, Same
<1> QED
  BY <1>3, <1>4, <1>5, <1>6, AnnouncedKept, Zenon

\* The job of a take whose manifest the file system refuses is held by the adapter.
LEMMA AnnouncedBuilt ==
  ASSUME Alone, Core, Carded, Announced, NEW c \in Cameras, BuildJob(c)
  PROVE  Announced'
<1> DEFINE j == [episode |-> take, cams |-> {c}, state |-> "pending", done |-> {}]
           n == Len(jobs) + 1
<1>1. /\ jobs' = Append(jobs, j) /\ job' = [job EXCEPT ![c] = n] /\ UNCHANGED take
      /\ \/ Refused(jobs'[n]) /\ unsaved' = [unsaved EXCEPT ![c] = "yes"]
         \/ Save(jobs'[n])
  BY Zenon DEF BuildJob, Set
<1>2. j \in JobRecords /\ j.cams = Cameras /\ j.episode = take /\ {c} = Cameras
  BY DEF Alone, Core, Refs, Held, JobRecords, States
<1> HIDE DEF j
<1>3. /\ Len(jobs') = n /\ jobs'[n] = j /\ \A i \in 1..Len(jobs) : jobs'[i] = jobs[i]
  BY <1>1, <1>2, AppendProperties DEF Core, Books
<1>4. \A i \in 1..Len(jobs') : jobs'[i].cams = Cameras
  BY <1>2, <1>3, Lengths DEF Announced
<1>5. manifest \in [Episodes -> Manifests] /\ take \in Episodes /\ job \in [Cameras -> Nat]
  BY DEF Core, Books, Refs, Held
<1>6. CASE Save(jobs'[n])
  <2>1. PICK m : m = Noted(j)
    OBVIOUS
  <2>2. m.job = Cameras /\ m.state # "none"
    BY <1>2, <2>1 DEF Noted, JobRecords, States
  <2>3. \A e \in Episodes : manifest'[e] = IF e = take THEN m ELSE manifest[e]
    BY <1>2, <1>3, <1>5, <1>6, <2>1 DEF Save, Written, Noted
  <2>4. \A e \in Episodes : manifest'[e].state # "none" => manifest'[e].job = Cameras
    BY <2>2, <2>3 DEF Announced
  <2>5. manifest'[take'].state # "none"
    BY <1>1, <1>5, <2>2, <2>3
  <2> QED
    BY <1>4, <2>4, <2>5 DEF Announced, Remembered
<1>7. CASE Refused(jobs'[n]) /\ unsaved' = [unsaved EXCEPT ![c] = "yes"]
  <2>1. manifest' = manifest \/ manifest' = [manifest EXCEPT ![take] = None]
    BY <1>2, <1>3, <1>7 DEF Refused
  <2>2. \A e \in Episodes : manifest'[e] = manifest[e] \/ manifest'[e] = None
    BY <1>5, <2>1
  <2>3. \A e \in Episodes : manifest'[e].state # "none" => manifest'[e].job = Cameras
    BY <2>2 DEF Announced, None
  <2>4. InMemory(c)'
    <3>1. job'[c] = n /\ n # 0
      BY <1>1, <1>5, Lengths
    <3> QED
      BY <1>1, <1>2, <1>3, <3>1 DEF InMemory
  <2>5. unsaved'[c] = "yes"
    BY <1>7 DEF Carded
  <2>6. \A d \in Cameras : Remembered(d)'
    BY <1>2, <2>4, <2>5 DEF Remembered
  <2> QED
    BY <1>4, <2>3, <2>6 DEF Announced
<1> QED
  BY <1>1, <1>6, <1>7

\* A step that changes nothing of this.
LEMMA Unaffected ==
  ASSUME Announced, UNCHANGED <<manifest, jobs, take, unsaved, job>>,
         \A c \in Cameras : report'[c] \in Promised => report[c] \in Promised
  PROVE  Announced'
BY DEF Announced, Remembered, InMemory, Promised

LEMMA AnnouncedStep ==
  ASSUME Alone, Core, Carded, Announced, [Next]_vars
  PROVE  Announced'
<1>1. CASE Quietly(BeginJob \/ NoteCamera \/ EndJob)
  BY <1>1, BeginJobStep, NoteCameraStep, EndJobStep, AnnouncedRewritten DEF Quietly, stream
<1>2. CASE Quietly(AggregateAllPending)
  BY <1>2, AnnouncedRead DEF Quietly, AggregateAllPending
<1>3. CASE Quietly(Restart)
  <2>1. CASE EnqueueRecovered(SetToSeq(Recoverable))
    BY <1>3, <2>1, AnnouncedRead DEF Quietly, Restart
  <2>2. CASE UNCHANGED <<disk, jobs>>
    BY <1>3, <2>2, Unaffected DEF Quietly, disk, stream
  <2> QED
    BY <1>3, <2>1, <2>2, Zenon DEF Quietly, Restart
<1>4. ASSUME NEW h \in 1..Len(handles), Quietly(Retry(h)) PROVE Announced'
  BY <1>4, RetryStep, AnnouncedRewritten DEF Quietly, stream
<1>5. CASE SessionDies
  <2>1. /\ jobs' = <<>> /\ UNCHANGED <<take, report, manifest>>
        /\ unsaved' = [c \in Cameras |->
             IF unsaved[c] = "yes" THEN IF OnDisk(c) THEN "no" ELSE "lost" ELSE unsaved[c]]
    BY <1>5, Zenon DEF SessionDies, Crash, May, Alone
  <2>2. ASSUME NEW c \in Cameras, report[c] \in Promised PROVE Remembered(c)'
    <3>1. Remembered(c)
      BY <2>2 DEF Announced
    <3>2. OnDisk(c) => manifest[take].state # "none"
      BY DEF OnDisk
    <3> QED
      BY <2>1, <3>1, <3>2 DEF Remembered
  <2> QED
    BY <2>1, <2>2 DEF Announced
<1>6. CASE BeginTake
  <2>1. /\ UNCHANGED <<jobs, manifest>> /\ \A c \in Cameras : report'[c] = "none"
    BY <1>6 DEF BeginTake, aggregation, disk, memory
  <2> QED
    BY <2>1 DEF Announced, Promised
<1>7. ASSUME NEW e \in Episodes, AggregateEpisode(e) PROVE Announced'
  <2>1. PICK c \in Cameras : job[c] # 0 /\ manifest' = Written(jobs[job[c]])
    BY <1>7 DEF AggregateEpisode
  <2>2. job[c] \in 1..Len(jobs)
    BY <2>1, Lengths DEF Core, Refs, Held
  <2>3. jobs[job[c]] \in JobRecords /\ jobs[job[c]].cams = Cameras
    BY <2>2, ElementOfSeq DEF Core, Books, Announced
  <2> QED
    BY <1>7, <2>1, <2>3, AnnouncedWritten DEF AggregateEpisode, stream, Announced
<1>8. ASSUME NEW c \in Cameras, BuildJob(c) PROVE Announced'
  BY <1>8, AnnouncedBuilt
<1>9. ASSUME NEW c \in Cameras,
             \/ StartRelinks(c) \/ StartCapture(c) \/ Connect(c) \/ LinkDrops(c)
             \/ Disconnect(c) \/ EndTake(c)
      PROVE  Announced'
  <2>1. UNCHANGED <<aggregation, take, report, unsaved, job>>
    BY <1>9, Zenon DEF StartRelinks, Relink, StartCapture, Connect, LinkDrops, Disconnect,
         EndTake
  <2> QED
    BY <2>1, Unaffected DEF aggregation, disk, memory
<1>10. ASSUME NEW c \in Cameras, 
             FirstStop(c) \/ RetryLink(c) \/ SecondStop(c) \/ NoJob(c)
      PROVE  Announced'
  <2>1. UNCHANGED <<manifest, jobs, take, unsaved, job>>
    BY <1>10, Zenon DEF FirstStop, RetryLink, SecondStop, NoJob, aggregation, disk, memory
  <2>2. report' = report \/ report' = [report EXCEPT ![c] = "failed"]
    BY <1>10, Zenon DEF FirstStop, RetryLink, SecondStop, NoJob, StopFails, Set
  <2>3. \A d \in Cameras : report'[d] \in Promised => report[d] \in Promised
    BY <2>2 DEF Carded, Promised
  <2> QED
    BY <2>1, <2>3, Unaffected
<1>11. CASE Quietly(\/ Sleep \/ NextCamera \/ SwitchWifi \/ RestoreWifi
                     \/ FindMount \/ WaitForAp \/ CopyFile)
  <2>1. UNCHANGED <<manifest, jobs, take, report, unsaved, job>>
    BY <1>11, Zenon DEF Quietly, Sleep, NextCamera, SwitchWifi, RestoreWifi, FindMount,
         WaitForAp, OpenTarget, CopyFile, CopyEnds, disk, memory, stream
  <2> QED
    BY <2>1, Unaffected
<1>12. CASE UNCHANGED vars \/ Quietly(UserRejoins)
  <2>1. UNCHANGED <<manifest, jobs, take, report, unsaved, job>>
    BY <1>12, Zenon DEF Quietly, UserRejoins, vars, aggregation, disk, memory, stream
  <2> QED
    BY <2>1, Unaffected
<1> QED
  BY <1>1, <1>2, <1>3, <1>4, <1>5, <1>6, <1>7, <1>8, <1>9, <1>10, <1>11, <1>12
     DEF Next, StreamStep, Quietly, Worker

-----------------------------------------------------------------------------
LEMMA Go3SInit == Init => GInv
<1> SUFFICES ASSUME Init PROVE GInv
  OBVIOUS
<1>1. PICK s \in {"pending", "running"}, d \in SUBSET Cameras :
        /\ manifest = [e \in Episodes |->
             IF e = 0 THEN [job |-> Cameras, state |-> s, done |-> d] ELSE None]
        /\ Here = {0} \X d
  BY DEF Init, AggregationInit, Here
<1>2. \A e \in Episodes : manifest[e] = IF e = 0 THEN [job |-> Cameras, state |-> s, done |-> d]
                                                ELSE None
  BY <1>1
<1>3. 0 \in Episodes /\ None \in Manifests
  BY Assumption DEF Episodes, None, Manifests
<1>4. [job |-> Cameras, state |-> s, done |-> d] \in Manifests
  BY DEF Manifests, States
<1>5. manifest \in [Episodes -> Manifests]
  BY <1>1, <1>3, <1>4
<1>6. ASSUME NEW e \in Episodes
      PROVE  /\ manifest[e].done \subseteq manifest[e].job
             /\ {e} \X manifest[e].done \subseteq Here
             /\ manifest[e].state = "completed" => manifest[e].done = manifest[e].job
  BY <1>1, <1>2 DEF None
<1>7. Books
  BY <1>5, <1>6 DEF Init, AggregationInit, Books, ManifestIsTrue
<1>8. Refs
  BY <1>3 DEF Init, AggregationInit, Refs, Handled, Held, Busy
<1>9. Downloading /\ Networks /\ Carded
  BY DEF Init, AggregationInit, Downloading, Networks, Carded, Promised, Busy
<1> QED
  BY <1>7, <1>8, <1>9 DEF GInv

LEMMA AnnouncedInit == Init => Announced
  BY DEF Init, AggregationInit, Announced, Promised, None

\* The inductive invariant: true books, references that hold, a worker that accounts for
\* every camera, the network it found, and what is on the cards (queue.py: _run_job,
\* retry, recover_from_disk, run; stream.py: stop_recording).
THEOREM Go3SInvariance == Spec => []GInv
<1>1. GInv /\ [Next]_vars => GInv'
  BY CoreStep, NetworksStep, CardedStep DEF GInv, Core
<1> QED
  BY <1>1, Go3SInit, PTL DEF Spec

\* Whatever fails, crashes or is retried, what a manifest calls done is in its episode (and
\* whole, if it came over USB), and a transfer that fails leaves no half file; one that the
\* file system refuses does (queue.py: _run_job; usb_downloader.py: run; osc_client.py:
\* download).
THEOREM FilesStayTrue == Spec => []FilesAreTrue
<1>1. GInv => FilesAreTrue
  BY DEF GInv, Books, Downloading, FilesAreTrue, NoHalfFiles, Busy
<1> QED
  BY <1>1, Go3SInvariance, PTL

\* If the host learns its network, no job leaves it on the camera's, but one whose process
\* died there or whose restore failed (queue.py: the finally of run; switcher.py: restore).
THEOREM HostLeavesCamera ==
  ASSUME "blind" \notin Faults PROVE Spec => []HostReturns
<1>1. GInv => HostReturns
  BY DEF GInv, Networks, HostReturns
<1> QED
  BY <1>1, Go3SInvariance, PTL

\* A take whose stop was reported as collected later, or as one that could not be handed to
\* the queue, is on the card of its camera, for any cameras and faults (stream.py:
\* stop_recording).
THEOREM TakesAreOnCards ==
  Spec => [](\A c \in Cameras : report[c] \in Promised => <<take, c>> \in card)
<1>1. GInv => \A c \in Cameras : report[c] \in Promised => <<take, c>> \in card
  BY DEF GInv, Carded
<1> QED
  BY <1>1, Go3SInvariance, PTL

\* With one camera, and no crash while a manifest is written, its job is on disk as well;
\* where the manifest could not be written the adapter holds it, or died with it
\* (stream.py: stop_recording; queue.py: write_manifest).
THEOREM TakesAreRemembered == ASSUME Alone PROVE Spec => []NothingForgotten
<1>1. GInv /\ Announced /\ [Next]_vars => Announced'
  BY AnnouncedStep DEF GInv, Core
<1>2. GInv /\ Announced => NothingForgotten
  BY DEF GInv, Books, Refs, Held, Carded, Announced, Remembered,
     OnDisk, Alone, Promised, NothingForgotten
<1> QED
  BY <1>1, <1>2, AnnouncedInit, Go3SInvariance, PTL DEF Spec
=============================================================================
