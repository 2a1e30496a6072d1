------------------------------- MODULE Migration -------------------------------
(* The start-up that moves the directories of old sessions into workspaces    *)
(* (services/workspace_service.py, migrate_legacy_layout), with the process   *)
(* ending or a step failing anywhere in it, and the next start going on from  *)
(* what the journal and the directories say.                                  *)
EXTENDS FiniteSets, Naturals
CONSTANTS Legacy,      \* the sessions with a directory of their own
          Merged,      \* those a member row calls subagents: they go into a subdirectory
          Things,      \* what such a directory holds besides metadata/session.json
          MaxStops     \* ends of the process and failed steps
VARIABLES source,      \* what is still in sessions/<id>/sandbox
          present,     \* whether that directory exists
          target,      \* what is in the workspace
          kept,        \* session-state/<id>/session.json: "none", "torn" or "whole"
          journal, member,
          boot,        \* "planning", "moving", "up" or "down"
          toPlan, at,  \* the directories not looked at yet; the entry in hand and its step
          rewritten,   \* ghost: states that a write with no legacy copy left was cut off in
          stops
migrationVars == <<source, present, target, kept, journal, member, boot, toPlan, at, rewritten, stops>>

Meta == "session.json"
ASSUME MergedAssumption == Merged \subseteq Legacy /\ Meta \notin Things
NoEntry == [session |-> Meta, step |-> "none"]

MigrationTypeOK ==
  /\ source \in [Legacy -> SUBSET (Things \cup {Meta})] /\ target \in [Legacy -> SUBSET (Things \cup {Meta})]
  /\ present \in [Legacy -> BOOLEAN] /\ member \in [Legacy -> BOOLEAN]
  /\ kept \in [Legacy -> {"none", "torn", "whole"}]
  /\ journal \in [Legacy -> {"none", "pending", "completed", "failed"}]
  /\ boot \in {"planning", "moving", "up", "down"} /\ toPlan \subseteq Legacy
  /\ at.step \in {"none", "state", "writing", "files", "clear", "close"}

MigrationInit ==
  /\ source = [s \in Legacy |-> Things \cup {Meta}] /\ present = [s \in Legacy |-> TRUE]
  /\ target = [s \in Legacy |-> {}] /\ kept = [s \in Legacy |-> "none"]
  /\ journal = [s \in Legacy |-> "none"] /\ member = [s \in Legacy |-> s \in Merged]
  /\ boot = "planning" /\ toPlan = Legacy /\ at = NoEntry /\ rewritten = {} /\ stops = 0

-------------------------------------------------------------------------------
\* _plan_legacy_sessions: a workspace for a session that has none ...
Adopt(s) ==
  /\ boot = "planning" /\ s \in toPlan /\ present[s] /\ ~member[s]
  /\ member' = [member EXCEPT ![s] = TRUE]
  /\ UNCHANGED <<source, present, target, kept, journal, boot, toPlan, at, rewritten, stops>>

\* ... and an entry, over whatever an earlier start left there
PlanEntry(s) ==
  /\ boot = "planning" /\ s \in toPlan /\ (present[s] => member[s])
  /\ journal' = IF present[s] THEN [journal EXCEPT ![s] = "pending"] ELSE journal
  /\ toPlan' = toPlan \ {s}
  /\ boot' = IF toPlan = {s} THEN "moving" ELSE boot
  /\ UNCHANGED <<source, present, target, kept, member, at, rewritten, stops>>

\* the next pending entry: _write_session_state reads the state there is and
\* fills in what the legacy copy has and it has not
Open(s) ==
  /\ boot = "moving" /\ at = NoEntry /\ journal[s] = "pending"
  /\ at' = [session |-> s, step |-> "state"]
  /\ UNCHANGED <<source, present, target, kept, journal, member, boot, toPlan, rewritten, stops>>

\* mutant: the state is filled from the legacy copy only
Payload_Overwrites(s) == IF Meta \in source[s] THEN "whole" ELSE "none"

Payload(s) == IF kept[s] = "whole" \/ Meta \in source[s] THEN "whole" ELSE "none"

\* write_text truncates the file and then writes it
Truncate ==
  /\ at.step = "state" /\ at' = [at EXCEPT !.step = "writing"]
  /\ kept' = [kept EXCEPT ![at.session] = IF Payload(at.session) = "whole" THEN "torn" ELSE "none"]
  /\ rewritten' = IF Meta \notin source[at.session] /\ Payload(at.session) = "whole"
                    THEN rewritten \cup {at.session} ELSE rewritten
  /\ UNCHANGED <<source, present, target, journal, member, boot, toPlan, stops>>

WriteState ==
  /\ at.step = "writing"
  /\ kept' = [kept EXCEPT ![at.session] = IF @ = "torn" THEN "whole" ELSE @]
  /\ rewritten' = IF kept[at.session] = "torn" THEN rewritten \ {at.session} ELSE rewritten
  /\ at' = [at EXCEPT !.step = IF present[at.session] THEN "files" ELSE "close"]
  /\ UNCHANGED <<source, present, target, journal, member, boot, toPlan, stops>>

\* _merge_directory: item by item, and then the empty directory.  What the
\* target has already is kept beside it under another name.
MoveItem(f) ==
  /\ at.step = "files" /\ f \in source[at.session]
  /\ source' = [source EXCEPT ![at.session] = @ \ {f}]
  /\ target' = [target EXCEPT ![at.session] = @ \cup {f}]
  /\ UNCHANGED <<present, kept, journal, member, boot, toPlan, at, rewritten, stops>>

Moved ==
  /\ at.step = "files" /\ source[at.session] = {}
  /\ present' = [present EXCEPT ![at.session] = FALSE] /\ at' = [at EXCEPT !.step = "clear"]
  /\ UNCHANGED <<source, target, kept, journal, member, boot, toPlan, rewritten, stops>>

\* the copy of session.json is no file of the workspace
Clear ==
  /\ at.step = "clear" /\ at' = [at EXCEPT !.step = "close"]
  /\ target' = IF at.session \in Merged THEN target ELSE [target EXCEPT ![at.session] = @ \ {Meta}]
  /\ UNCHANGED <<source, present, kept, journal, member, boot, toPlan, rewritten, stops>>

Close ==
  /\ at.step = "close" /\ at' = NoEntry
  /\ journal' = [journal EXCEPT ![at.session] = "completed"]
  /\ UNCHANGED <<source, present, target, kept, member, boot, toPlan, rewritten, stops>>

-------------------------------------------------------------------------------
\* an error: the entry says so, and the start-up ends with it
Fails ==
  /\ at # NoEntry /\ stops < MaxStops /\ stops' = stops + 1
  /\ journal' = [journal EXCEPT ![at.session] = "failed"]
  /\ at' = NoEntry /\ boot' = "down" /\ toPlan' = {}
  /\ UNCHANGED <<source, present, target, kept, member, rewritten>>

\* the process is killed
Killed ==
  /\ boot \in {"planning", "moving"} /\ stops < MaxStops /\ stops' = stops + 1
  /\ at' = NoEntry /\ boot' = "down" /\ toPlan' = {}
  /\ UNCHANGED <<source, present, target, kept, journal, member, rewritten>>

BootAgain ==
  /\ boot = "down" /\ boot' = "planning" /\ toPlan' = Legacy
  /\ UNCHANGED <<source, present, target, kept, journal, member, at, rewritten, stops>>

Serve ==
  /\ boot = "moving" /\ at = NoEntry /\ \A s \in Legacy : journal[s] # "pending"
  /\ boot' = "up"
  /\ UNCHANGED <<source, present, target, kept, journal, member, toPlan, at, rewritten, stops>>

MigrationNext ==
  \/ \E s \in Legacy : Adopt(s) \/ PlanEntry(s) \/ Open(s)
  \/ \E f \in Things \cup {Meta} : MoveItem(f)
  \/ Truncate \/ WriteState \/ Moved \/ Clear \/ Close \/ Fails \/ Killed \/ BootAgain \/ Serve

-------------------------------------------------------------------------------
\* Whatever start-ups are cut off, a file of an old session is in its directory
\* or in the workspace, and the session's own state is in one of the two places
\* it is read from; a retry that finds the legacy copy moved keeps what an
\* earlier one wrote (workspace_service.py:171).  Once the program serves,
\* nothing is left to move.  The exception is a retry that is itself cut off
\* while it rewrites the state in place.
LegacyIsKept ==
  \A s \in Legacy :
    /\ Things \subseteq source[s] \cup target[s]
    /\ Meta \in source[s] \/ kept[s] = "whole" \/ s \in rewritten
    /\ boot = "up" => ~present[s]
===============================================================================
