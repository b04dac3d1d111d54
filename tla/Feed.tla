------------------------------- MODULE Feed -------------------------------
(***************************************************************************)
(* What the integration promises about events, with nothing of how: of the *)
(* records each button writes, some are handed to its Event entity, each   *)
(* at most once and never one older than one already handed over.          *)
(***************************************************************************)
EXTENDS Integers

CONSTANTS Children, MaxRecords

VARIABLES written,  \* how many records each child has written
          times     \* how often each record was handed over

vars == <<written, times>>

Ids == 1..MaxRecords

Init == /\ written = [c \in Children |-> 0]
        /\ times = [c \in Children |-> [i \in Ids |-> 0]]

Write(c) == /\ written[c] < MaxRecords
            /\ written' = [written EXCEPT ![c] = @ + 1]
            /\ UNCHANGED times

\* Newer than everything this child has had delivered.
Deliverable(c) == {i \in 1..written[c] : \A j \in Ids : times[c][j] > 0 => j < i}

Deliver(c, batch) ==
  /\ times' = [times EXCEPT ![c] = [i \in Ids |-> IF i \in batch THEN 1 ELSE @[i]]]
  /\ UNCHANGED written

Next == \E c \in Children :
          Write(c) \/ \E batch \in SUBSET Deliverable(c) : Deliver(c, batch)

Spec == Init /\ [][Next]_vars

=============================================================================
