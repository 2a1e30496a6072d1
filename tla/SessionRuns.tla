------------------------------ MODULE SessionRuns -----------------------------
(***************************************************************************)
(* What the table agent_runs promises of a session's runs: at most one is  *)
(* active, a run waits and resumes any number of times, and a terminal     *)
(* status is final.                                                        *)
(***************************************************************************)
CONSTANTS Runs, Owner
VARIABLE row

Active == {"running", "waiting"}
Final == {"completed", "failed", "cancelled"}

Init == row = [r \in Runs |-> "none"]

Start(r) ==
  /\ row[r] = "none"
  /\ \A q \in Runs : Owner[q] = Owner[r] => row[q] \notin Active
  /\ row' = [row EXCEPT ![r] = "running"]

Wait(r) == row[r] = "running" /\ row' = [row EXCEPT ![r] = "waiting"]
Resume(r) == row[r] = "waiting" /\ row' = [row EXCEPT ![r] = "running"]

\* a run that waits for an answer can only be cancelled
Finish(r, status) ==
  /\ row[r] \in Active /\ (row[r] = "waiting" => status = "cancelled")
  /\ row' = [row EXCEPT ![r] = status]

\* a restart ends the runs that were executing, and leaves the waiting ones
Restart == row' = [r \in Runs |-> IF row[r] = "running" THEN "failed" ELSE row[r]]

Next ==
  \/ Restart
  \/ \E r \in Runs : Start(r) \/ Wait(r) \/ Resume(r) \/ \E f \in Final : Finish(r, f)

Spec == Init /\ [][Next]_row
=============================================================================
