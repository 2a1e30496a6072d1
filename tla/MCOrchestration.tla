---------------------------- MODULE MCOrchestration ----------------------------
(* What starts work besides a user, for TLC: the scripts of the service,       *)
(* subagents, the calendar of schedules and their execution.  The four share   *)
(* no state: the initial state chooses the one a behaviour is about, and the   *)
(* others rest.                                                                *)
EXTENDS ServiceControl, Subagents, Recurrence, Execution
CONSTANTS p1, p2, s1, f1, f2, w1, w2
VARIABLE focus

\* fields of cron expressions
Every(low, high) == [star |-> TRUE, parts |-> {[from |-> low, to |-> high, step |-> 1]}]
Only(parts) == [star |-> FALSE, parts |-> {[from |-> p[1], to |-> p[2], step |-> p[3]] : p \in parts}]
Cron(minute, hour, day, month, weekday) ==
  [type |-> "cron", minute |-> minute, hour |-> hour, day |-> day, month |-> month, weekday |-> weekday]

\* the first run of the child may ask the user, the second one may not
MCEndings == <<{"completed", "waiting_input"}, {"completed"}>>

MCRules ==
  {[type |-> "interval", every |-> 3, anchor |-> Never], [type |-> "interval", every |-> 5, anchor |-> 12],
   [type |-> "daily", hour |-> 2, minute |-> 1], [type |-> "daily", hour |-> 0, minute |-> 0],
   [type |-> "workday", hour |-> 3, minute |-> 0],
   [type |-> "weekly", hour |-> 2, minute |-> 0, weekdays |-> {3, 7}],
   Cron(Every(0, 1), Every(0, 3), Every(1, 6), Every(1, 2), Every(0, 6)),
   Cron(Only({<<1, 1, 1>>}), Only({<<2, 3, 1>>}), Every(1, 6), Every(1, 2), Every(0, 6)),
   Cron(Every(0, 1), Only({<<2, 2, 1>>}), Only({<<1, 6, 2>>}), Every(1, 2), Only({<<0, 0, 1>>, <<5, 6, 1>>})),
   Cron(Only({<<0, 0, 1>>}), Only({<<0, 3, 3>>}), Only({<<5, 5, 1>>}), Only({<<2, 2, 1>>}), Every(0, 6)),
   Cron(Only({<<0, 0, 1>>}), Every(0, 3), Only({<<6, 6, 1>>}), Every(1, 2), Every(0, 6)),
   Cron(Every(0, 1), Only({<<3, 3, 1>>}), Every(1, 6), Every(1, 2), Only({<<4, 4, 1>>}))}

Init ==
  /\ focus \in {"service", "subagents", "recurrence", "execution"}
  /\ ServiceInit /\ SubagentsInit /\ RecurrenceInit /\ ExecutionInit
  \* a part that rests starts in one state
  /\ focus = "service" \/ port = Nobody
  /\ focus = "recurrence" \/ (rule.type = "workday" /\ clock = "steady" /\ cursor = 0)
  /\ focus = "execution" \/ plan = "fresh"

Next ==
  \/ focus = "service" /\ ServiceNext /\ UNCHANGED <<focus, subagentsVars, recurrenceVars, executionVars>>
  \/ focus = "subagents" /\ SubagentsNext /\ UNCHANGED <<focus, serviceVars, recurrenceVars, executionVars>>
  \/ focus = "recurrence" /\ RecurrenceNext /\ UNCHANGED <<focus, serviceVars, subagentsVars, executionVars>>
  \/ focus = "execution" /\ ExecutionNext /\ UNCHANGED <<focus, serviceVars, subagentsVars, recurrenceVars>>

FairSpec == Init /\ [][Next]_<<focus, serviceVars, subagentsVars, recurrenceVars, executionVars>>
              /\ SubagentsFairness

TypesOK ==
  CASE focus = "service" -> ServiceTypeOK
    [] focus = "subagents" -> SubagentsTypeOK
    [] focus = "recurrence" -> RecurrenceTypeOK
    [] focus = "execution" -> ExecutionTypeOK

\* A schedule asks for the instants it names, and its history says what became of them
\* (Recurrence.tla, Execution.tla).
SchedulesAreExact ==
  /\ focus = "recurrence" => RecurrenceIsExact
  /\ focus = "execution" => ExecutionIsRecorded
=============================================================================
