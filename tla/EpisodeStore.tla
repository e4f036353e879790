---------------------------- MODULE EpisodeStore ----------------------------
(***************************************************************************)
(* What a recording session promises about the files it leaves on disk,    *)
(* without saying how: there is one current episode directory, sample rows *)
(* are only ever appended to, truncated in or deleted from that directory, *)
(* and only until its sync point and manifest are published.  From then on *)
(* the episode is a finished take that nothing touches again.              *)
(*                                                                         *)
(* Session.tla is shown to implement this module.              *)
(***************************************************************************)
EXTENDS Naturals

CONSTANT Streams      \* stream ids

VARIABLES
  current,            \* number of the directory session.output_dir names
  rows,               \* sample rows on disk: [episode, stream, take]
  published           \* published sync points: [episode, sync, start, stop]

vars == <<current, rows, published>>

Sealed(e) == \E p \in published : p.episode = e

Init == current = 1 /\ rows = {} /\ published = {}

\* A capture thread delivers a sample, of any take, to a file of the episode.
Append ==
  /\ ~Sealed(current)
  /\ \E r \in rows' : /\ r.episode = current /\ r.stream \in Streams
                     /\ rows' = rows \union {r}
  /\ UNCHANGED <<current, published>>

\* Some files of the current episode are truncated or deleted.
Erase(S) ==
  /\ ~Sealed(current)
  /\ rows' = {r \in rows : r.episode # current \/ r.stream \notin S}
  /\ UNCHANGED <<current, published>>

\* The episode becomes a finished take, once and for all.
Seal ==
  /\ ~Sealed(current)
  /\ \E p \in published' : /\ p.episode = current
                          /\ published' = published \union {p}
  /\ UNCHANGED <<current, rows>>

\* The session turns to a fresh directory, never to an old one.
Advance ==
  /\ current' > current
  /\ current' \in Nat
  /\ UNCHANGED <<rows, published>>

\* cancel(): the current episode is thrown away and a fresh one chosen.
Discard ==
  /\ ~Sealed(current)
  /\ rows' = {r \in rows : r.episode # current}
  /\ current' > current
  /\ current' \in Nat
  /\ UNCHANGED published

Next ==
  \/ Append
  \/ \E S \in SUBSET Streams : Erase(S)
  \/ Seal
  \/ Advance
  \/ Discard

Spec == Init /\ [][Next]_vars
=============================================================================
