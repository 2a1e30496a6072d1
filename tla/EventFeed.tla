------------------------------- MODULE EventFeed ------------------------------
(* What the events of a run promise: a log that only grows, and readers that *)
(* receive its entries one after the other, none skipped and none twice.     *)
EXTENDS Naturals, Sequences
CONSTANTS Readers, Kinds
VARIABLES log, cursor

Init == log = <<>> /\ cursor = [r \in Readers |-> 0]

Publish(kind) == log' = Append(log, kind) /\ UNCHANGED cursor

Receive(r) ==
  /\ cursor[r] < Len(log)
  /\ cursor' = [cursor EXCEPT ![r] = @ + 1]
  /\ UNCHANGED log

Next == (\E kind \in Kinds : Publish(kind)) \/ (\E r \in Readers : Receive(r))
Spec == Init /\ [][Next]_<<log, cursor>>
=============================================================================
