------------------------------ MODULE SampleLog ------------------------------
(***************************************************************************)
(* What the file of one stream promises: its rows are the samples that were *)
(* accepted, in the order they were accepted; they may be late, and when    *)
(* the file is closed without a complaint none is missing.                  *)
(***************************************************************************)
EXTENDS Naturals, Sequences

CONSTANT Samples

VARIABLES
  accepted,       \* samples taken over, in order
  rows,           \* samples in the file
  state           \* "open", "failed": some rows are lost, "closed", "raised"

vars == <<accepted, rows, state>>

Init == accepted = <<>> /\ rows = <<>> /\ state = "closed"

Open ==
  /\ state \in {"closed", "raised"}
  /\ accepted' = <<>> /\ rows' = <<>> /\ state' = "open"
Accept ==
  /\ state \in {"open", "failed"}
  /\ \E s \in Samples : accepted' = Append(accepted, s)
  /\ UNCHANGED <<rows, state>>
\* Some more of what was accepted reaches the file.
Persist ==
  /\ state = "open"
  /\ \E n \in Len(rows)..Len(accepted) : rows' = SubSeq(accepted, 1, n)
  /\ UNCHANGED <<accepted, state>>
\* Accepted and in the file at once, when nothing is waiting.
AcceptAndPersist ==
  /\ state = "open" /\ rows = accepted
  /\ \E s \in Samples : accepted' = Append(accepted, s) /\ rows' = Append(rows, s)
  /\ UNCHANGED state
\* The disk refuses, maybe after a part of what was waiting.
Fail ==
  /\ state = "open" /\ state' = "failed"
  /\ \E n \in Len(rows)..Len(accepted) : rows' = SubSeq(accepted, 1, n)
  /\ UNCHANGED accepted
Close ==
  \/ state = "open" /\ rows = accepted /\ state' = "closed" /\ UNCHANGED <<accepted, rows>>
  \/ state = "failed" /\ state' = "raised" /\ UNCHANGED <<accepted, rows>>

Next == Open \/ Accept \/ Persist \/ AcceptAndPersist \/ Fail \/ Close
Spec == Init /\ [][Next]_vars
=============================================================================
