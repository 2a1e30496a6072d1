------------------------------ MODULE Occurrences -----------------------------
(***************************************************************************)
(* What the scheduler promises of each occurrence of each task: it is      *)
(* triggered at most once, taken by a worker at most once, and once        *)
(* settled it stays settled.  No trigger is ever forgotten.                *)
(***************************************************************************)
CONSTANT Keys
VARIABLES pending, executing, settled
ledger == <<pending, executing, settled>>

Init == pending = {} /\ executing = {} /\ settled = {}

\* new occurrences are triggered, all of them for the first time
Trigger ==
  /\ pending \subseteq pending' /\ pending' \subseteq Keys
  /\ pending' \cap (executing \cup settled) = {}
  /\ UNCHANGED <<executing, settled>>

Take(k) ==
  /\ k \in pending
  /\ pending' = pending \ {k} /\ executing' = executing \cup {k}
  /\ UNCHANGED settled

\* executions end; a pending occurrence is never settled without being taken
Settle ==
  /\ executing' \subseteq executing
  /\ settled' = settled \cup (executing \ executing')
  /\ UNCHANGED pending

Next == Trigger \/ (\E k \in Keys : Take(k)) \/ Settle
Spec == Init /\ [][Next]_ledger
=============================================================================
