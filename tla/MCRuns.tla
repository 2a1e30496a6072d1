-------------------------------- MODULE MCRuns --------------------------------
(* Runs and what they call, for TLC: AgentRuns with one session ("runs") and   *)
(* with two behind the same lock ("registry"), the shell and host tools of a   *)
(* run, and its workboard and questions.  They share no state: the initial     *)
(* state chooses the one a behaviour is about, and the others rest.            *)
EXTENDS MCAgentRuns, ShellCalls, HostCalls, RuntimeState
CONSTANTS x1, x2, l1, l2
VARIABLE focus

CallsInit ==
  /\ focus \in {"runs", "registry", "shell", "host", "state"}
  /\ Init /\ ShellInit /\ HostInit /\ StateInit
  /\ focus = "state" \/ board = << >>

\* Two runs of one session, where nobody cancels by the row alone, and a run of each of
\* two sessions, without questions.
OneSessionNext == SessionNext /\ row'[r2] = row[r2]
TwoSessionsNext == Next /\ row'[r3] = row[r3] /\ UNCHANGED question

CallsNext ==
  \/ focus = "runs" /\ OneSessionNext /\ UNCHANGED <<shellVars, hostVars, stateVars>>
  \/ focus = "registry" /\ TwoSessionsNext /\ UNCHANGED <<shellVars, hostVars, stateVars>>
  \/ focus = "shell" /\ ShellNext /\ UNCHANGED <<vars, hostVars, stateVars>>
  \/ focus = "host" /\ HostNext /\ UNCHANGED <<vars, shellVars, stateVars>>
  \/ focus = "state" /\ StateNext /\ UNCHANGED <<vars, shellVars, hostVars>>

CallsSpec ==
  CallsInit /\ [][CallsNext /\ UNCHANGED focus]_<<focus, vars, shellVars, hostVars, stateVars>>

ProgressSpec ==
  CallsInit /\ focus = "runs" /\ Fairness
    /\ [][Next /\ UNCHANGED <<focus, shellVars, hostVars, stateVars>>]_<<focus, vars, shellVars, hostVars, stateVars>>

\* What updates of one file by two sessions leave behind is not followed.
NotRaced == ~overlap

\* What tools, the host and the user tell a run reaches it whole (ShellCalls.tla,
\* HostCalls.tla, RuntimeState.tla).
CallsAreSound ==
  /\ focus = "shell" => ShellTypeOK /\ ShellOutputIsExact
  /\ focus = "host" => HostTypeOK /\ HostCallsAreSound
  /\ focus = "state" => StateTypeOK /\ StateIsKept
=============================================================================
