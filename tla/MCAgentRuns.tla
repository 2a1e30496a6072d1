----------------------------- MODULE MCAgentRuns ------------------------------
(* Instances of AgentRuns for TLC.  Requests are made of                     *)
(*   start    messages, schedules and subagents that start a run             *)
(*   ask      the agent asks the user a blocking question                    *)
(*   answer   the user answers it                                            *)
(*   abort    abort_session, and cancel_run on a live run                    *)
(*   force    an abort whose grace period runs out                           *)
(*   timeout  the timeout of a scheduled task                                *)
(*   orphan   a parent agent that cancels a run without a driver             *)
(*   fault    store and file operations that raise                           *)
EXTENDS AgentRunsProps
CONSTANTS s1, s2, r1, r2, r3

OneSession == [r \in Runs |-> s1]
TwoSessions == [r \in Runs |-> IF r = r2 THEN s2 ELSE s1]
=============================================================================
