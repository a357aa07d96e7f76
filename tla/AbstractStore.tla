--------------------------- MODULE AbstractStore ---------------------------
(***************************************************************************)
(* What the overlay's persistence promises: a crash leaves the files as of *)
(* one instant between two operations, and not of an instant before the    *)
(* last one that was reported durable.  Once a write to the disk has       *)
(* failed, it promises less: what a crash leaves is the result of some of  *)
(* the operations, in their order.                                         *)
(***************************************************************************)
EXTENDS Naturals, Sequences

CONSTANT Records

VARIABLES
  history,   \* the operations the files are the result of, in order
  durable,   \* how many of them were reported durable
  damaged    \* a write has failed

vars == <<history, durable, damaged>>

Init == history = <<>> /\ durable = 0 /\ ~damaged

Write ==
  /\ \E r \in Records: history' = Append(history, r)
  /\ UNCHANGED <<durable, damaged>>

\* After a failure the number no longer says anything.
Sync ==
  /\ IF damaged THEN durable' \in Nat ELSE durable' \in durable..Len(history)
  /\ UNCHANGED <<history, damaged>>

Crash ==
  /\ ~damaged
  /\ \E n \in durable..Len(history): history' = SubSeq(history, 1, n)
  /\ durable' \in durable..Len(history')
  /\ UNCHANGED damaged

\* An operation is there once, or not at all.
DamagedCrash ==
  /\ damaged
  /\ \E S \in SUBSET Records:
       LET In(r) == r \in S
       IN  history' = SelectSeq(history, In)
  /\ durable' \in Nat
  /\ UNCHANGED damaged

Fail == damaged' = TRUE /\ UNCHANGED <<history, durable>>

Next == Write \/ Sync \/ Crash \/ DamagedCrash \/ Fail

Spec == Init /\ [][Next]_vars

=============================================================================
