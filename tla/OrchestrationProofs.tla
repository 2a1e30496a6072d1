--------------------------- MODULE OrchestrationProofs --------------------------
(* Proofs about what starts work besides a user: ServiceControl, Subagents and *)
(* Execution, each for every value of its constants, and MCOrchestration, that *)
(* puts them beside each other.                                               *)
EXTENDS MCOrchestration, ListsProofs

-----------------------------------------------------------------------------
(* ServiceControl                                                            *)

\* DrainedIsIdle is kept by the drain: until a script that has drained a process signals
\* it, the drain is the script's own, so that nothing is admitted and nobody else can
\* cancel it; and a process that was drained is not one that is still to serve.
DrainIsHeld ==
  \A s \in Scripts :
    LET p == script[s].drained IN
    /\ script[s].step = "guard" => p = Nobody
    /\ script[s].step = "stop" /\ p # Nobody =>
         /\ proc[p] \notin {"none", "booting"}
         /\ proc[p] = "serving" => drainer[p] = s /\ work[p] = {}

ServiceInv == ServiceTypeOK /\ DrainIsHeld

LEMMA ServiceTypeInit == ServiceInit => ServiceTypeOK
BY NobodyAssumption DEF ServiceInit, ServiceTypeOK, Alive, ScriptState, ScriptSteps, Idle

\* a step of a process or of its environment
LEMMA ServiceTypeProcess ==
  ASSUME ServiceTypeOK, NEW p \in Pids,
         Acquire(p) \/ Release(p) \/ Expire(p) \/ Bind(p) \/ FailToBoot(p) \/ Exit(p) \/ ClosePort
  PROVE  ServiceTypeOK'
<1> USE DEF ServiceTypeOK, Alive
<1>1. CASE Acquire(p)
  BY <1>1 DEF Acquire
<1>2. CASE Release(p)
  BY <1>2 DEF Release
<1>3. CASE Expire(p)
  BY <1>3 DEF Expire
<1>4. CASE Bind(p)
  BY <1>4 DEF Bind
<1>5. CASE FailToBoot(p)
  BY <1>5 DEF FailToBoot
<1>6. CASE Exit(p)
  BY <1>6 DEF Exit, Closed
<1>7. CASE ClosePort
  BY <1>7 DEF ClosePort
<1> QED
  BY <1>1, <1>2, <1>3, <1>4, <1>5, <1>6, <1>7

\* where a script goes next
LEMMA ScriptMoves ==
  ASSUME ServiceTypeOK, NEW s \in Scripts, NEW step \in ScriptSteps,
         Goto(s, step) \/ Done(s) \/ GiveUp(s) \/ Stopped(s)
  PROVE  /\ script' \in [Scripts -> ScriptState]
         /\ \A t \in Scripts \ {s} : script'[t] = script[t]
         /\ \/ script'[s].step = "done" /\ script'[s].drained = Nobody
            \/ script'[s].step \in {step, "start", "cancel"} /\ script'[s].drained = script[s].drained
BY DEF ServiceTypeOK, Goto, Done, GiveUp, Stopped, Idle, ScriptState, ScriptSteps

LEMMA BeginsSomewhere ==
  ASSUME NEW s \in Scripts, Begin(s)
  PROVE  \E op \in {"start", "stop", "restart", "force"}, step \in {"start", "stop", "guard"} :
           script' = [script EXCEPT ![s] = [op |-> op, step |-> step, pid |-> Nobody, drained |-> Nobody]]
BY ScriptOpsAssumption DEF Begin

LEMMA ServiceTypeScript ==
  ASSUME ServiceTypeOK, NEW s \in Scripts, Begin(s) \/ Abandon(s) \/ ScriptStep(s)
  PROVE  ServiceTypeOK'
<1> USE NobodyAssumption DEF ServiceTypeOK, Alive
<1>0. Resolved \in Pids \cup {Nobody} /\ script[s] \in ScriptState
  BY DEF Resolved
<1>a. \A step \in ScriptSteps : Goto(s, step) => script' \in [Scripts -> ScriptState]
  BY ScriptMoves
<1>b. Done(s) \/ GiveUp(s) \/ Stopped(s) => script' \in [Scripts -> ScriptState]
  BY ScriptMoves DEF ScriptSteps
<1>1. CASE Begin(s)
  <2>1. PICK op \in {"start", "stop", "restart", "force"}, step \in {"start", "stop", "guard"} :
          script' = [script EXCEPT ![s] = [op |-> op, step |-> step, pid |-> Nobody, drained |-> Nobody]]
    BY <1>1, BeginsSomewhere
  <2> QED
    BY <1>1, <2>1 DEF Begin, ScriptState, ScriptSteps
<1>2. CASE Abandon(s)
  BY <1>2, <1>b DEF Abandon
<1>3. CASE Guard(s)
  BY <1>3, <1>0, <1>a, <1>b DEF Guard, ResolvedPidFile, ScriptState, ScriptSteps
<1>4. CASE Poll(s)
  BY SMTT(20), <1>4, <1>a DEF Poll, BeginDrain, ScriptState, ScriptSteps
<1>5. CASE Cancel(s)
  BY <1>5, <1>b DEF Cancel, CancelDrain
<1>6. CASE Stop(s)
  BY <1>6, <1>0, <1>b DEF Stop, ResolvedPidFile, ScriptState, ScriptSteps
<1>7. CASE Terminate(s)
  BY <1>7, <1>a DEF Terminate, Kill, Closed, ScriptSteps
<1>8. CASE AwaitRelease(s)
  BY <1>8, <1>b DEF AwaitRelease
<1>9. CASE Start(s)
  BY <1>9, <1>a, <1>b DEF Start, ScriptSteps, PortOpen
<1>10. CASE AwaitListening(s)
  BY <1>10, <1>b DEF AwaitListening
<1>11. CASE Launch(s)
  <2>1. PICK p \in Pids : /\ proc' = [proc EXCEPT ![p] = "booting"] /\ pidFile' = p
                          /\ script' = [script EXCEPT ![s] = [@ EXCEPT !.step = "booting", !.pid = p]]
    BY <1>11 DEF Launch
  <2> QED
    BY <1>11, <1>0, <2>1 DEF Launch, ScriptState, ScriptSteps
<1>12. CASE AwaitReady(s)
  BY <1>12, <1>b DEF AwaitReady, Kill, Closed
<1> QED
  BY <1>1, <1>2, <1>3, <1>4, <1>5, <1>6, <1>7, <1>8, <1>9, <1>10, <1>11, <1>12 DEF ScriptStep

LEMMA DrainInit == ServiceInit => DrainIsHeld
BY DEF ServiceInit, DrainIsHeld, Idle

\* nothing is admitted into a process that was drained, and its drain does not expire
LEMMA DrainProcess ==
  ASSUME ServiceInv, NEW p \in Pids,
         Acquire(p) \/ Release(p) \/ Expire(p) \/ Bind(p) \/ FailToBoot(p) \/ Exit(p) \/ ClosePort
  PROVE  DrainIsHeld'
<1> USE NobodyAssumption DEF ServiceInv, ServiceTypeOK, DrainIsHeld, Alive, ScriptState
<1>1. CASE Acquire(p)
  BY <1>1 DEF Acquire, MayAcquire
<1>2. CASE Release(p)
  BY <1>2 DEF Release
<1>3. CASE Expire(p)
  BY <1>3 DEF Expire
<1>4. CASE Bind(p)
  BY <1>4 DEF Bind
<1>5. CASE FailToBoot(p)
  BY <1>5 DEF FailToBoot
<1>6. CASE Exit(p)
  BY <1>6 DEF Exit
<1>7. CASE ClosePort
  BY <1>7 DEF ClosePort
<1> QED
  BY <1>1, <1>2, <1>3, <1>4, <1>5, <1>6, <1>7

\* a script that moves on without coming to "guard" or "stop", and leaves the drains alone
LEMMA DrainElsewhere ==
  ASSUME ServiceInv, NEW s \in Scripts,
         \A t \in Scripts \ {s} : script'[t] = script[t],
         script'[s].step \notin {"guard", "stop"},
         \A p \in Pids : \/ UNCHANGED <<proc[p], drainer[p], work[p]>>
                         \/ proc'[p] \in {"zombie", "exiting"}
                         \/ proc[p] = "none"
  PROVE  DrainIsHeld'
BY DEF ServiceInv, ServiceTypeOK, DrainIsHeld, ScriptState

LEMMA DrainScript ==
  ASSUME ServiceInv, NEW s \in Scripts, Begin(s) \/ Abandon(s) \/ ScriptStep(s)
  PROVE  DrainIsHeld'
<1> USE NobodyAssumption
<1>0. ServiceTypeOK /\ DrainIsHeld
  BY DEF ServiceInv
<1>a. \A step \in ScriptSteps \ {"guard", "stop"} :
        Goto(s, step) => /\ script'[s].step \notin {"guard", "stop"}
                         /\ \A t \in Scripts \ {s} : script'[t] = script[t]
  BY <1>0, ScriptMoves
<1>b. Done(s) \/ GiveUp(s) \/ Stopped(s) =>
        /\ script'[s].step \notin {"guard", "stop"}
        /\ \A t \in Scripts \ {s} : script'[t] = script[t]
  BY <1>0, ScriptMoves DEF ScriptSteps
<1>c. script[s] \in ScriptState
  BY <1>0 DEF ServiceTypeOK
<1> USE DEF ScriptSteps
<1>1. CASE Begin(s)
  <2>1. script'[s].drained = Nobody /\ \A t \in Scripts \ {s} : script'[t] = script[t]
    BY <1>0, <1>1, BeginsSomewhere DEF ServiceTypeOK
  <2> QED
    BY <1>0, <1>1, <2>1 DEF Begin, ServiceTypeOK, DrainIsHeld, ScriptState
<1>2. CASE Abandon(s)
  BY <1>2, <1>b, DrainElsewhere DEF Abandon
<1>3. CASE Guard(s)
  BY <1>0, <1>3, <1>b DEF Guard, Goto, ServiceTypeOK, DrainIsHeld, ScriptState
<1>4. CASE Poll(s)
  <2>1. CASE UNCHANGED script \/ Goto(s, "cancel")
    BY <1>0, <1>4, <2>1, <1>a DEF Poll, BeginDrain, ServiceTypeOK, DrainIsHeld, ScriptState
  <2>2. CASE Goto(s, "stop") /\ BeginDrain(script[s].drained, s) /\ work[script[s].drained] = {}
             /\ proc[script[s].drained] = "serving"
    BY <1>0, <1>4, <2>2 DEF Poll, BeginDrain, Goto, ServiceTypeOK, DrainIsHeld, ScriptState
  <2> QED
    BY <1>4, <2>1, <2>2 DEF Poll, Goto
<1>5. CASE Cancel(s)
  BY <1>0, <1>5, <1>b DEF Cancel, CancelDrain, ServiceTypeOK, DrainIsHeld, ScriptState
<1>6. CASE Stop(s)
  <2>1. script'[s].step \notin {"guard", "stop"} /\ \A t \in Scripts \ {s} : script'[t] = script[t]
    BY <1>0, <1>6, <1>b, <1>c DEF Stop, ServiceTypeOK, ScriptState
  <2>2. \A p \in Pids : proc'[p] = proc[p] \/ proc'[p] \in {"zombie", "exiting"}
    BY <1>0, <1>6 DEF Stop, ServiceTypeOK
  <2> QED
    BY <1>6, <2>1, <2>2, DrainElsewhere DEF Stop
<1>7. CASE Terminate(s)
  <2>1. \A p \in Pids : UNCHANGED <<proc[p], drainer[p], work[p]>> \/ proc'[p] = "zombie"
    BY <1>0, <1>7 DEF Terminate, Kill, ServiceTypeOK
  <2> QED
    BY <1>7, <1>a, <2>1, DrainElsewhere DEF Terminate
<1>8. CASE AwaitRelease(s)
  BY <1>8, <1>b, DrainElsewhere DEF AwaitRelease
<1>9. CASE Start(s)
  BY <1>9, <1>a, <1>b, DrainElsewhere DEF Start
<1>10. CASE AwaitListening(s)
  BY <1>10, <1>b, DrainElsewhere DEF AwaitListening
<1>11. CASE Launch(s)
  <2>1. script'[s].step = "booting" /\ \A t \in Scripts \ {s} : script'[t] = script[t]
    BY <1>0, <1>11, <1>c DEF Launch, ServiceTypeOK, ScriptState
  <2>2. \A p \in Pids : proc'[p] = proc[p] \/ proc[p] = "none"
    BY <1>0, <1>11 DEF Launch, ServiceTypeOK
  <2> QED
    BY <1>11, <2>1, <2>2, DrainElsewhere DEF Launch
<1>12. CASE AwaitReady(s)
  <2>1. \A p \in Pids : UNCHANGED <<proc[p], drainer[p], work[p]>> \/ proc'[p] = "zombie"
    BY <1>0, <1>12 DEF AwaitReady, Kill, ServiceTypeOK
  <2> QED
    BY <1>12, <1>b, <2>1, DrainElsewhere DEF AwaitReady
<1> QED
  BY <1>1, <1>2, <1>3, <1>4, <1>5, <1>6, <1>7, <1>8, <1>9, <1>10, <1>11, <1>12 DEF ScriptStep

LEMMA ServiceInvStep == ServiceInv /\ [ServiceNext]_serviceVars => ServiceInv'
<1> SUFFICES ASSUME ServiceInv, [ServiceNext]_serviceVars PROVE ServiceTypeOK' /\ DrainIsHeld'
  BY DEF ServiceInv
<1>0. ServiceTypeOK
  BY DEF ServiceInv
<1>1. ASSUME NEW p \in Pids,
             Acquire(p) \/ Release(p) \/ Expire(p) \/ Bind(p) \/ FailToBoot(p) \/ Exit(p)
      PROVE  ServiceTypeOK' /\ DrainIsHeld'
  BY <1>0, <1>1, ServiceTypeProcess, DrainProcess
<1>2. CASE ClosePort
  BY <1>0, <1>2 DEF ClosePort, ServiceTypeOK, ServiceInv, DrainIsHeld
<1>3. ASSUME NEW s \in Scripts, Begin(s) \/ Abandon(s) \/ ScriptStep(s)
      PROVE  ServiceTypeOK' /\ DrainIsHeld'
  BY <1>0, <1>3, ServiceTypeScript, DrainScript
<1>4. CASE UNCHANGED serviceVars
  BY <1>4 DEF serviceVars, ServiceInv, ServiceTypeOK, DrainIsHeld
<1> QED
  BY <1>1, <1>2, <1>3, <1>4 DEF ServiceNext

LEMMA ServiceInvAlways == ServiceSpec => []ServiceInv
<1>1. ServiceInit => ServiceInv
  BY ServiceTypeInit, DrainInit DEF ServiceInv
<1> QED
  BY <1>1, ServiceInvStep, PTL DEF ServiceSpec

\* A restart signals the process it has drained only when no work is left in it: nothing
\* is admitted between the answer and the signal (restart_guard, _acquire).
THEOREM DrainedStaysIdle == ServiceSpec => []DrainedIsIdle
<1>1. ServiceInv => DrainedIsIdle
  BY DEF ServiceInv, DrainIsHeld, DrainedIsIdle
<1> QED
  BY <1>1, ServiceInvAlways, PTL

-----------------------------------------------------------------------------
(* Subagents                                                                 *)

\* a call that starts a run: nobody else knows the run yet, and the child is not running
Starting == tool.op \in {"create", "send"}
StartsApart ==
  /\ \A r \in Kids : kid[r] = "none" =>
       context[r] = 0 /\ watch[r] = Absent /\ r \notin driven /\ r \notin loose
  /\ \A s \in Subs : Exists(s) => kid[sub[s].latest] # "none"
  /\ Starting =>
       /\ tool.sub \in Subs /\ tool.run \in Kids
       /\ Active(tool.run) /\ tool.run \notin driven /\ tool.run \notin loose
       /\ context[tool.run] = 0 /\ watch[tool.run] = Absent
       /\ \A s \in Subs : Exists(s) => sub[s].latest # tool.run
       /\ tool.op = "create" => ~Exists(tool.sub)
       /\ tool.op = "send" => /\ Exists(tool.sub) /\ kid[sub[tool.sub].latest] \in Over
                              /\ sub[tool.sub].latest \notin driven

\* a watcher that waits or was just woken, and a cancellation, are about the latest run
\* of their child; only a run that went past its watcher is active without one
FollowsLatest ==
  /\ \A r \in Kids : watch[r] # Absent =>
       /\ watch[r].sub \in Subs /\ Exists(watch[r].sub)
       /\ watch[r].step \in {"waiting", "woken"} => sub[watch[r].sub].latest = r /\ context[r] = 0
       /\ watch[r].step = "waiting" => r \in driven
  /\ \A s \in Subs : Exists(s) /\ Active(sub[s].latest) /\ sub[s].latest \notin loose =>
       Watches(sub[s].latest, "waiting") /\ watch[sub[s].latest].sub = s
  /\ \A c \in cancels : Exists(c.sub) /\ sub[c.sub].latest = c.run
  /\ \A s, t \in Subs : Exists(s) /\ Exists(t) /\ sub[s].latest = sub[t].latest => s = t

SubagentsInv == SubagentsTypeOK /\ StartsApart /\ FollowsLatest /\ RowFollowsRun

USE AbsentAssumption

LEMMA SubagentsStart == SubagentsInit => SubagentsInv
<1> SUFFICES ASSUME SubagentsInit PROVE SubagentsInv
  OBVIOUS
<1> USE DEF SubagentsInit
<1>0. NoTool \in Tools
  BY DEF NoTool, Tools
<1>1. SubagentsTypeOK
  <2>1. context \in [Kids -> 0 .. 2]
    OBVIOUS
  <2>2. restarted \in BOOLEAN /\ spoilt \subseteq Subs /\ cancels \subseteq Cancels /\ tool \in Tools
    BY <1>0
  <2>3. /\ parent \in [Parents -> {"none", "running", "stopping", "over"}]
        /\ kid \in [Kids -> {"none"} \cup Unfinished \cup Over]
    OBVIOUS
  <2>4. /\ watch \in [Kids -> Watcher \cup {Absent}]
        /\ sub \in [Subs -> Row \cup {Absent}]
        /\ future \in [Subs -> Kids \cup {Absent}]
    OBVIOUS
  <2> QED
    BY <2>1, <2>2, <2>3, <2>4 DEF SubagentsTypeOK
<1>2. StartsApart
  BY DEF StartsApart, Starting, NoTool, Exists, Active
<1>3. FollowsLatest
  BY DEF FollowsLatest, Exists
<1>4. RowFollowsRun
  BY DEF RowFollowsRun, Exists
<1> QED
  BY <1>1, <1>2, <1>3, <1>4 DEF SubagentsInv

LEMMA InRange ==
  ASSUME SubagentsTypeOK
  PROVE  /\ \A s \in Subs : Exists(s) => sub[s] \in Row /\ sub[s].latest \in Kids
         /\ \A c \in cancels : c.sub \in Subs /\ c.run \in Kids
BY DEF SubagentsTypeOK, Exists, Row, Cancels

\* what writing a status leaves of a row
RowsKept == \A s \in Subs : /\ (Exists(s)' <=> Exists(s))
                            /\ Exists(s) => UNCHANGED sub[s].latest

LEMMA RowsApart ==
  ASSUME FollowsLatest, RowsKept
  PROVE  \A s, t \in Subs : Exists(s)' /\ Exists(t)' /\ sub'[s].latest = sub'[t].latest => s = t
BY DEF FollowsLatest, RowsKept

LEMMA StatusWritten ==
  ASSUME SubagentsTypeOK, NEW s \in Subs, Exists(s), NEW status \in Unfinished \cup Over,
         sub' = [sub EXCEPT ![s].status = status]
  PROVE  /\ sub' \in [Subs -> Row \cup {Absent}]
         /\ RowsKept
         /\ sub'[s].status = status /\ \A t \in Subs \ {s} : sub'[t] = sub[t]
<1>1. sub[s] \in Row
  BY DEF SubagentsTypeOK, Exists
<1> QED
  BY <1>1 DEF SubagentsTypeOK, Exists, RowsKept, Row

LEMMA WatcherMoves ==
  ASSUME SubagentsTypeOK, NEW r \in Kids, watch[r] # Absent, NEW step \in {"publishing", "done", "failed"},
         watch' = [watch EXCEPT ![r].step = step]
  PROVE  /\ watch' \in [Kids -> Watcher \cup {Absent}]
         /\ watch'[r] # Absent /\ watch'[r].sub = watch[r].sub /\ watch'[r].step = step
         /\ \A q \in Kids \ {r} : watch'[q] = watch[q]
<1>1. watch[r] \in Watcher
  BY DEF SubagentsTypeOK
<1> QED
  BY <1>1 DEF SubagentsTypeOK, Watcher

LEMMA DriverReturns ==
  ASSUME SubagentsTypeOK, NEW r \in Kids, NEW step \in {"woken", "lost"}, WatcherGoes(r, step)
  PROVE  /\ watch' \in [Kids -> Watcher \cup {Absent}]
         /\ \A q \in Kids : /\ watch'[q] # Absent <=> watch[q] # Absent
                            /\ watch[q] # Absent => watch'[q].sub = watch[q].sub
                            /\ watch[q] # Absent => watch'[q].step = IF q = r /\ watch[q].step = "waiting"
                                                                    THEN step ELSE watch[q].step
<1>1. CASE Watches(r, "waiting")
  <2>1. watch[r] \in Watcher /\ watch' = [watch EXCEPT ![r].step = step]
    BY <1>1 DEF SubagentsTypeOK, Watches, WatcherGoes
  <2> QED
    BY <1>1, <2>1 DEF SubagentsTypeOK, Watcher, Watches
<1>2. CASE ~Watches(r, "waiting")
  BY <1>2 DEF SubagentsTypeOK, Watches, WatcherGoes
<1> QED
  BY <1>1, <1>2

\* a driver, and what the user does with the run of a child
LEMMA ChildRunStep ==
  ASSUME SubagentsInv, NEW r \in Kids,
         EndKid(r) \/ CloseKid(r) \/ CutKid(r) \/ AnswerKid(r) \/ SettleKid(r)
  PROVE  SubagentsInv'
<1>0. /\ SubagentsTypeOK /\ StartsApart /\ FollowsLatest /\ RowFollowsRun
      /\ \A s \in Subs : Exists(s) => sub[s] \in Row /\ sub[s].latest \in Kids
      /\ \A c \in cancels : c.sub \in Subs /\ c.run \in Kids
  BY InRange DEF SubagentsInv
<1> USE DEF Active, Starting, Watches
<1>1. CASE EndKid(r)
  <2> USE <1>1 DEF EndKid
  <2>0. PICK status \in Over \cup {"waiting_input"} : kid' = [kid EXCEPT ![r] = status]
    BY SubagentsAssumption DEF Over
  <2>a. \A q \in Kids : kid'[q] = IF q = r THEN status ELSE kid[q]
    BY <1>0, <2>0 DEF SubagentsTypeOK
  <2>b. status # "none" /\ status # "running" /\ kid[r] = "running"
    BY DEF Over
  <2>1. SubagentsTypeOK'
    BY <1>0, <2>0 DEF SubagentsTypeOK, Unfinished
  <2>2. StartsApart'
    BY <1>0, <2>a, <2>b DEF StartsApart, Exists, Over
  <2>3. FollowsLatest'
    BY <1>0, <2>a, <2>b DEF FollowsLatest, Exists
  <2>4. RowFollowsRun'
    BY <1>0, <2>a, <2>b DEF FollowsLatest, RowFollowsRun, Exists
  <2> QED
    BY <2>1, <2>2, <2>3, <2>4 DEF SubagentsInv
<1>2. CASE CloseKid(r)
  <2> USE <1>2 DEF CloseKid
  <2>a. /\ watch' \in [Kids -> Watcher \cup {Absent}]
        /\ \A q \in Kids : /\ watch'[q] # Absent <=> watch[q] # Absent
                           /\ watch[q] # Absent => watch'[q].sub = watch[q].sub
                           /\ watch[q] # Absent => watch'[q].step = IF q = r /\ watch[q].step = "waiting"
                                                                   THEN "woken" ELSE watch[q].step
    BY <1>0, DriverReturns
  <2>1. SubagentsTypeOK'
    BY <1>0, <2>a DEF SubagentsTypeOK
  <2>2. StartsApart'
    BY <1>0, <2>a DEF StartsApart, Exists
  <2>3. FollowsLatest'
    BY <1>0, <2>a DEF FollowsLatest, Exists
  <2>4. RowFollowsRun'
    BY <1>0, <2>a DEF RowFollowsRun, Exists
  <2> QED
    BY <2>1, <2>2, <2>3, <2>4 DEF SubagentsInv
<1>3. CASE CutKid(r)
  <2> USE <1>3 DEF CutKid
  <2>a. /\ watch' \in [Kids -> Watcher \cup {Absent}]
        /\ \A q \in Kids : /\ watch'[q] # Absent <=> watch[q] # Absent
                           /\ watch[q] # Absent => watch'[q].sub = watch[q].sub
                           /\ watch[q] # Absent => watch'[q].step = IF q = r /\ watch[q].step = "waiting"
                                                                   THEN "lost" ELSE watch[q].step
    BY <1>0, DriverReturns
  <2>b. future' \in [Subs -> Kids \cup {Absent}]
    BY <1>0 DEF SubagentsTypeOK
  <2>1. SubagentsTypeOK'
    BY <1>0, <2>a, <2>b DEF SubagentsTypeOK
  <2>2. StartsApart'
    BY <1>0, <2>a DEF StartsApart, Exists
  <2>3. FollowsLatest'
    BY <1>0, <2>a DEF FollowsLatest, Exists
  <2>4. RowFollowsRun'
    BY <1>0, <2>a DEF RowFollowsRun, FollowsLatest, Exists
  <2> QED
    BY <2>1, <2>2, <2>3, <2>4 DEF SubagentsInv
<1>4. CASE AnswerKid(r) \/ SettleKid(r)
  <2>0. PICK status \in {"running", "cancelled", "failed"} :
             /\ kid' = [kid EXCEPT ![r] = status]
             /\ driven' = (IF status = "running" THEN driven \cup {r} ELSE driven)
    BY <1>4 DEF AnswerKid, SettleKid
  <2>1. /\ kid[r] = "waiting_input" /\ r \notin driven /\ loose' = loose \cup {r}
        /\ UNCHANGED <<parent, aborting, sub, watch, future, context, tool, cancels, spoilt, restarted>>
    BY <1>4 DEF AnswerKid, SettleKid
  <2>a. \A q \in Kids : kid'[q] = IF q = r THEN status ELSE kid[q]
    BY <1>0, <2>0 DEF SubagentsTypeOK
  <2>2. SubagentsTypeOK'
    BY <1>0, <2>0, <2>1 DEF SubagentsTypeOK, Unfinished, Over
  <2>3. StartsApart'
    BY <1>0, <2>0, <2>1, <2>a DEF StartsApart, Exists, Over
  <2>4. FollowsLatest'
    BY <1>0, <2>0, <2>1, <2>a DEF FollowsLatest, Exists
  <2>5. RowFollowsRun'
    BY <1>0, <2>0, <2>1, <2>a DEF FollowsLatest, RowFollowsRun, Exists
  <2> QED
    BY <2>2, <2>3, <2>4, <2>5 DEF SubagentsInv
<1> QED
  BY <1>1, <1>2, <1>3, <1>4

\* the watcher of a run
LEMMA KidStep ==
  ASSUME SubagentsInv, NEW r \in Kids, WatchResult(r) \/ FinishWatch(r) \/ FailWatch(r)
  PROVE  SubagentsInv'
<1>0. /\ SubagentsTypeOK /\ StartsApart /\ FollowsLatest /\ RowFollowsRun
      /\ \A s \in Subs : Exists(s) => sub[s] \in Row /\ sub[s].latest \in Kids
      /\ \A c \in cancels : c.sub \in Subs /\ c.run \in Kids
  BY InRange DEF SubagentsInv
<1> USE DEF Active, Starting
<1>3. CASE WatchResult(r)
  <2> DEFINE s == watch[r].sub
  <2>0. s \in Subs /\ Exists(s) /\ sub[s].latest = r /\ context[r] = 0 /\ watch[r] # Absent
        /\ kid[r] \in Unfinished \cup Over
    BY <1>0, <1>3 DEF WatchResult, Watches, FollowsLatest, StartsApart, SubagentsTypeOK
  <2>a. /\ sub' \in [Subs -> Row \cup {Absent}]
        /\ RowsKept
        /\ sub'[s].status = kid[r] /\ \A t \in Subs \ {s} : sub'[t] = sub[t]
    BY <1>0, <1>3, <2>0, StatusWritten DEF WatchResult
  <2>b. PICK step \in {"publishing", "done", "failed"} : watch' = [watch EXCEPT ![r].step = step]
    BY <1>3 DEF WatchResult, Delivered, Finished
  <2>c. /\ watch' \in [Kids -> Watcher \cup {Absent}]
        /\ watch'[r] # Absent /\ watch'[r].sub = s /\ watch'[r].step = step
        /\ \A q \in Kids \ {r} : watch'[q] = watch[q]
    BY <1>0, <2>0, <2>b, WatcherMoves
  <2>d. \A q \in Kids \ {r} : context'[q] = context[q]
    BY <1>0, <1>3 DEF WatchResult, Delivered, SubagentsTypeOK
  <2>e. watch[r].step = "woken"
    BY <1>3 DEF WatchResult, Watches
  <2>1. SubagentsTypeOK'
    BY <1>0, <1>3, <2>0, <2>a, <2>c DEF SubagentsTypeOK, WatchResult, Delivered, Finished
  <2> USE <1>3 DEF WatchResult
  <2>2. StartsApart'
    BY SMTT(20), <1>0, <2>0, <2>a, <2>c, <2>d DEF SubagentsTypeOK, StartsApart, Exists, RowsKept, Over
  <2>3. FollowsLatest'
    <3>1. ASSUME NEW q \in Kids, watch'[q] # Absent
          PROVE  /\ watch'[q].sub \in Subs /\ Exists(watch[q].sub)'
                 /\ watch'[q].step \in {"waiting", "woken"} => sub'[watch'[q].sub].latest = q /\ context'[q] = 0
                 /\ watch'[q].step = "waiting" => q \in driven'
      BY <1>0, <2>0, <2>a, <2>c, <2>d, <3>1 DEF FollowsLatest, Exists, RowsKept
    <3>2. ASSUME NEW t \in Subs, Exists(t)', Active(sub[t].latest)', sub'[t].latest \notin loose'
          PROVE  Watches(sub[t].latest, "waiting")' /\ watch'[sub'[t].latest].sub = t
      <4>1. Exists(t) /\ sub'[t].latest = sub[t].latest /\ UNCHANGED kid
        BY <3>2, <2>a DEF Exists, RowsKept, Delivered
      <4>2. Watches(sub[t].latest, "waiting") /\ watch[sub[t].latest].sub = t
        BY <1>0, <3>2, <4>1 DEF FollowsLatest, Active
      <4>3. sub[t].latest \in Kids \ {r}
        <5>1. sub[t] \in Row
          BY <1>0, <4>1 DEF SubagentsTypeOK, Exists
        <5> QED
          BY <1>0, <2>e, <4>1, <4>2, <5>1 DEF Watches, Row
      <4> QED
        BY <2>c, <4>1, <4>2, <4>3 DEF Watches
    <3>3. ASSUME NEW c \in cancels PROVE Exists(c.sub)' /\ sub'[c.sub].latest = c.run
      BY <1>0, <2>a DEF FollowsLatest, Exists, RowsKept
    <3>4. \A u, t \in Subs : Exists(u)' /\ Exists(t)' /\ sub'[u].latest = sub'[t].latest => u = t
      BY <1>0, <2>a, RowsApart
    <3> QED
      BY <3>1, <3>2, <3>3, <3>4 DEF FollowsLatest
  <2>4. RowFollowsRun'
    BY <1>0, <2>0, <2>a, <2>c DEF SubagentsTypeOK, FollowsLatest, RowFollowsRun, Exists, RowsKept, Watches
  <2> QED
    BY <2>1, <2>2, <2>3, <2>4 DEF SubagentsInv
<1>4. CASE FinishWatch(r)
  <2> USE <1>4 DEF FinishWatch, Finished, Watches
  <2>0. watch[r].sub \in Subs
    BY <1>0 DEF FollowsLatest
  <2>a. /\ watch' \in [Kids -> Watcher \cup {Absent}]
        /\ watch'[r] # Absent /\ watch'[r].sub = watch[r].sub /\ watch'[r].step = "done"
        /\ \A q \in Kids \ {r} : watch'[q] = watch[q]
    BY <1>0, WatcherMoves
  <2>1. SubagentsTypeOK'
    BY <1>0, <2>0, <2>a DEF SubagentsTypeOK
  <2>2. StartsApart'
    BY <1>0, <2>a DEF SubagentsTypeOK, StartsApart, Exists
  <2>3. FollowsLatest' /\ RowFollowsRun'
    BY <1>0, <2>a DEF SubagentsTypeOK, FollowsLatest, RowFollowsRun, Exists
  <2> QED
    BY <2>1, <2>2, <2>3 DEF SubagentsInv
<1>5. CASE FailWatch(r)
  <2> USE <1>5 DEF FailWatch, Finished, Watches
  <2> DEFINE s == watch[r].sub
  <2>0. s \in Subs /\ Exists(s) /\ "failed" \in Over
    BY <1>0 DEF FollowsLatest, Over
  <2>a. /\ watch' \in [Kids -> Watcher \cup {Absent}]
        /\ watch'[r] # Absent /\ watch'[r].sub = s /\ watch'[r].step = "failed"
        /\ \A q \in Kids \ {r} : watch'[q] = watch[q]
    BY <1>0, WatcherMoves
  <2>b. /\ sub' \in [Subs -> Row \cup {Absent}]
        /\ RowsKept
        /\ \A t \in Subs \ {s} : sub'[t] = sub[t]
    BY <1>0, <2>0, StatusWritten
  <2>1. SubagentsTypeOK'
    BY <1>0, <2>0, <2>a, <2>b DEF SubagentsTypeOK
  <2>2. StartsApart'
    BY SMTT(20), <1>0, <2>0, <2>a, <2>b DEF SubagentsTypeOK, StartsApart, Exists, RowsKept
  <2>3. FollowsLatest'
    <3>1. ASSUME NEW q \in Kids, watch'[q] # Absent
          PROVE  /\ watch'[q].sub \in Subs /\ Exists(watch[q].sub)'
                 /\ watch'[q].step \in {"waiting", "woken"} => sub'[watch'[q].sub].latest = q /\ context'[q] = 0
                 /\ watch'[q].step = "waiting" => q \in driven'
      BY <1>0, <2>0, <2>a, <2>b, <3>1 DEF FollowsLatest, Exists, RowsKept
    <3>2. ASSUME NEW t \in Subs, Exists(t)', Active(sub[t].latest)', sub'[t].latest \notin loose'
          PROVE  Watches(sub[t].latest, "waiting")' /\ watch'[sub'[t].latest].sub = t
      <4>1. Exists(t) /\ sub'[t].latest = sub[t].latest /\ sub[t].latest \in Kids /\ kid[sub[t].latest] = "running"
        BY <1>0, <2>b, <3>2 DEF RowsKept, Exists
      <4>2. /\ watch[sub[t].latest] # Absent
            /\ watch[sub[t].latest].step = "waiting" /\ watch[sub[t].latest].sub = t
        BY <1>0, <3>2, <4>1 DEF FollowsLatest
      <4> QED
        BY <2>a, <4>1, <4>2
    <3>3. ASSUME NEW c \in cancels PROVE Exists(c.sub)' /\ sub'[c.sub].latest = c.run
      BY <1>0, <2>b DEF FollowsLatest, Exists, RowsKept
    <3>4. \A u, v \in Subs : Exists(u)' /\ Exists(v)' /\ sub'[u].latest = sub'[v].latest => u = v
      BY <1>0, <2>b, RowsApart
    <3> QED
      BY <3>1, <3>2, <3>3, <3>4 DEF FollowsLatest
  <2>4. RowFollowsRun'
    BY <1>0, <2>a, <2>b DEF SubagentsTypeOK, RowFollowsRun, Exists, RowsKept
  <2> QED
    BY <2>1, <2>2, <2>3, <2>4 DEF SubagentsInv
<1> QED
  BY <1>3, <1>4, <1>5

\* a call that starts a run: from the reservation of the run to the row of the child
LEMMA StartStep ==
  ASSUME SubagentsInv, NEW p \in Parents, NEW s \in Subs, NEW r \in Kids,
         BeginCreate(p, s, r) \/ BeginSend(p, s, r)
  PROVE  SubagentsInv'
<1>0. /\ SubagentsTypeOK /\ StartsApart /\ FollowsLatest /\ RowFollowsRun
      /\ \A t \in Subs : Exists(t) => sub[t] \in Row /\ sub[t].latest \in Kids
      /\ \A c \in cancels : c.sub \in Subs /\ c.run \in Kids
  BY InRange DEF SubagentsInv
<1>1. /\ kid[r] = "none" /\ kid' = [kid EXCEPT ![r] = "running"]
      /\ UNCHANGED <<parent, driven, aborting, sub, watch, loose, future, context, cancels, spoilt, restarted>>
  BY DEF BeginCreate, BeginSend, Fresh
<1>2. PICK op \in {"create", "send"} : tool' = [op |-> op, sub |-> s, run |-> r]
  BY DEF BeginCreate, BeginSend
<1>3. /\ tool'.op = "create" => ~Exists(s)
      /\ tool'.op = "send" => Exists(s) /\ kid[sub[s].latest] \in Over /\ sub[s].latest \notin driven
  BY DEF BeginCreate, BeginSend
<1>4. ~Starting
  BY DEF BeginCreate, BeginSend, Calling, NoTool, Starting
<1>5. \A q \in Kids : kid'[q] = IF q = r THEN "running" ELSE kid[q]
  BY <1>0, <1>1 DEF SubagentsTypeOK
<1> USE DEF Active, Exists, Watches
<1>6. SubagentsTypeOK'
  BY <1>0, <1>1, <1>2 DEF SubagentsTypeOK, Tools, Unfinished
<1>7. StartsApart'
  BY <1>0, <1>1, <1>2, <1>3, <1>4, <1>5 DEF StartsApart, Starting
<1>8. FollowsLatest'
  BY <1>0, <1>1, <1>5 DEF FollowsLatest, StartsApart
<1>9. RowFollowsRun'
  BY <1>0, <1>1, <1>5 DEF RowFollowsRun, StartsApart
<1> QED
  BY <1>6, <1>7, <1>8, <1>9 DEF SubagentsInv

\* Everybody who waited for the previous run of the child was woken (Woken), so that the
\* only watcher of the child that waits is the one of its latest run.
LEMMA LaunchStep ==
  ASSUME SubagentsInv, NEW p \in Parents, LaunchRun(p)
  PROVE  SubagentsInv'
<1>0. /\ SubagentsTypeOK /\ StartsApart /\ FollowsLatest /\ RowFollowsRun
      /\ \A t \in Subs : Exists(t) => sub[t] \in Row /\ sub[t].latest \in Kids
      /\ \A c \in cancels : c.sub \in Subs /\ c.run \in Kids
  BY InRange DEF SubagentsInv
<1> DEFINE s == tool.sub
<1> DEFINE r == tool.run
<1>1. s \in Subs /\ r \in Kids /\ kid[r] = "running" /\ Starting
  BY <1>0 DEF LaunchRun, StartsApart, Starting, Active
<1>2. /\ driven' = driven \cup {r} /\ tool' = NoTool /\ sub' = [sub EXCEPT ![s] = LaunchedRow(p)]
      /\ watch' = [watch EXCEPT ![r] = [sub |-> s, step |-> "waiting"]]
      /\ future' = [future EXCEPT ![s] = r]
      /\ UNCHANGED <<parent, kid, aborting, context, cancels, restarted>>
  BY DEF LaunchRun, StartWatcher
<1>3. ~Exists(s) \/ sub[s].latest \notin driven
  BY <1>0, <1>1 DEF StartsApart, Starting
<1>4. \A q \in Kids : watch[q] # Absent /\ watch[q].step \in {"waiting", "woken"} => watch[q].sub # s
  BY <1>0, <1>3 DEF LaunchRun, Woken, Watches, FollowsLatest
<1>b. /\ loose' \subseteq loose /\ spoilt' \subseteq spoilt /\ (\A t \in Subs \ {s} : t \in spoilt => t \in spoilt')
      /\ \A t \in Subs \ {s} : Exists(t) /\ sub[t].latest \in loose => sub[t].latest \in loose'
  <2>1. CASE Exists(s)
    <3>1. loose' = loose \ {sub[s].latest}
      BY <2>1 DEF LaunchRun
    <3>2. \A t \in Subs \ {s} : Exists(t) => sub[t].latest # sub[s].latest
      BY <1>0, <1>1, <2>1 DEF FollowsLatest
    <3> QED
      BY <3>1, <3>2 DEF LaunchRun
  <2>2. CASE ~Exists(s)
    BY <2>2 DEF LaunchRun
  <2> QED
    BY <2>1, <2>2
<1>5. \A c \in cancels : c.sub # s
  BY <1>0, <1>3 DEF LaunchRun, Woken, FollowsLatest
<1>6. LaunchedRow(p) \in Row /\ LaunchedRow(p).latest = r /\ LaunchedRow(p).status = "running"
  <2>1. CASE tool.op = "create"
    BY <1>1, <2>1 DEF LaunchedRow, Row, Unfinished
  <2>2. CASE tool.op # "create"
    <3>1. sub[s] \in Row
      BY <1>0, <1>1, <2>2 DEF StartsApart, Starting
    <3>2. LaunchedRow(p) = [sub[s] EXCEPT !.latest = r, !.status = "running"]
      BY <2>2 DEF LaunchedRow
    <3> HIDE DEF s, r
    <3> QED
      BY <1>1, <3>1, <3>2 DEF Row, Unfinished
  <2> QED
    BY <2>1, <2>2
<1>7. /\ sub' \in [Subs -> Row \cup {Absent}] /\ sub'[s] # Absent
      /\ sub'[s].latest = r /\ sub'[s].status = "running"
      /\ \A t \in Subs \ {s} : sub'[t] = sub[t]
  BY <1>0, <1>1, <1>2, <1>6 DEF SubagentsTypeOK
<1>8. [sub |-> s, step |-> "waiting"] \in Watcher
  BY <1>1 DEF Watcher
<1>9. /\ watch' \in [Kids -> Watcher \cup {Absent}] /\ watch'[r] # Absent
      /\ watch'[r].sub = s /\ watch'[r].step = "waiting"
      /\ \A q \in Kids \ {r} : watch'[q] = watch[q]
  BY <1>0, <1>1, <1>2, <1>8 DEF SubagentsTypeOK
<1> HIDE DEF s, r
<1>10. SubagentsTypeOK'
  BY <1>0, <1>1, <1>2, <1>7, <1>9, <1>b DEF SubagentsTypeOK, NoTool, Tools
<1>11. StartsApart'
  <2>1. tool'.op = "none"
    BY <1>2 DEF NoTool
  <2> QED
    BY <1>0, <1>1, <1>2, <1>7, <1>9, <1>b, <2>1 DEF StartsApart, Starting, Active, Exists
<1>12. FollowsLatest'
  <2>1. ASSUME NEW q \in Kids, watch'[q] # Absent
        PROVE  /\ watch'[q].sub \in Subs /\ sub'[watch'[q].sub] # Absent
               /\ watch'[q].step \in {"waiting", "woken"} => sub'[watch'[q].sub].latest = q /\ context[q] = 0
               /\ watch'[q].step = "waiting" => q \in driven'
    <3>1. CASE q = r
      BY <1>0, <1>1, <1>2, <1>7, <1>9, <3>1 DEF StartsApart, r
    <3>2. CASE q # r
      BY <1>0, <1>2, <1>4, <1>7, <1>9, <2>1, <3>2 DEF FollowsLatest, Exists, Watches
    <3> QED
      BY <3>1, <3>2
  <2>2. ASSUME NEW t \in Subs, sub'[t] # Absent, kid[sub'[t].latest] = "running", sub'[t].latest \notin loose'
        PROVE  /\ watch'[sub'[t].latest] # Absent /\ watch'[sub'[t].latest].step = "waiting"
               /\ watch'[sub'[t].latest].sub = t
    <3>1. CASE t = s
      BY <1>7, <1>9, <3>1
    <3>2. CASE t # s
      <4>1. Exists(t) /\ sub'[t] = sub[t] /\ sub[t].latest # r
        BY <1>0, <1>1, <1>7, <2>2, <3>2 DEF Exists, StartsApart, r
      <4> QED
        BY <1>0, <1>9, <1>b, <2>2, <3>2, <4>1 DEF FollowsLatest, Active, Watches
    <3> QED
      BY <3>1, <3>2
  <2>3. ASSUME NEW c \in cancels PROVE sub'[c.sub] # Absent /\ sub'[c.sub].latest = c.run
    BY <1>0, <1>5, <1>7 DEF FollowsLatest, Exists
  <2>4. ASSUME NEW t \in Subs, NEW u \in Subs, sub'[t] # Absent, sub'[u] # Absent, sub'[t].latest = sub'[u].latest
        PROVE  t = u
    BY <1>0, <1>1, <1>7, <2>4 DEF FollowsLatest, StartsApart, Exists, r
  <2> QED
    BY <1>2, <2>1, <2>2, <2>3, <2>4 DEF FollowsLatest, Exists, Active, Watches
<1>13. RowFollowsRun'
  <2>1. ASSUME NEW t \in Subs, sub'[t] # Absent, ~restarted, t \notin spoilt', sub'[t].latest \notin loose',
               \A c \in cancels : c.sub # t,
               \A q \in Kids : watch'[q] # Absent /\ watch'[q].sub = t =>
                 watch'[q].step # "woken" /\ (watch'[q].step = "waiting" => kid[q] = "running")
        PROVE  sub'[t].status = kid[sub'[t].latest]
    <3>1. CASE t = s
      BY <1>1, <1>7, <3>1
    <3>2. CASE t # s
      <4>1. sub'[t] = sub[t] /\ Exists(t) /\ t \notin spoilt /\ sub[t].latest \notin loose
        BY <1>7, <1>b, <2>1, <3>2 DEF Exists
      <4>2. \A q \in Kids : watch[q] # Absent /\ watch[q].sub = t =>
              watch[q].step # "woken" /\ (watch[q].step = "waiting" => kid[q] = "running")
        BY <1>0, <1>1, <1>9, <2>1 DEF StartsApart, r
      <4> QED
        BY <1>0, <2>1, <4>1, <4>2 DEF RowFollowsRun, Active, Watches
    <3> QED
      BY <3>1, <3>2
  <2> QED
    BY <1>2, <2>1 DEF RowFollowsRun, Exists, Active, Watches
<1> QED
  BY <1>10, <1>11, <1>12, <1>13 DEF SubagentsInv

\* a start that fails, and the calls that wait
LEMMA CallStep ==
  ASSUME SubagentsInv,
         AbandonStart \/ EndWait \/ BreakWait \/ \E p \in Parents, s \in Subs : BeginWait(p, s)
  PROVE  SubagentsInv'
<1>0. /\ SubagentsTypeOK /\ StartsApart /\ FollowsLatest /\ RowFollowsRun
      /\ \A t \in Subs : Exists(t) => sub[t] \in Row /\ sub[t].latest \in Kids
  BY InRange DEF SubagentsInv
<1> USE DEF Active, Exists, Watches
<1>1. CASE AbandonStart
  <2> USE <1>1 DEF AbandonStart
  <2>1. Starting /\ tool.run \in Kids /\ tool'.op = "none"
    BY <1>0 DEF Starting, StartsApart, NoTool
  <2>2. \A q \in Kids : kid'[q] = IF q = tool.run THEN "failed" ELSE kid[q]
    BY <1>0 DEF SubagentsTypeOK
  <2>3. SubagentsTypeOK'
    BY <1>0 DEF SubagentsTypeOK, NoTool, Tools, Over
  <2>4. StartsApart'
    BY <1>0, <2>1, <2>2 DEF StartsApart, Starting
  <2>5. FollowsLatest'
    BY <1>0, <2>2 DEF FollowsLatest
  <2>6. RowFollowsRun'
    BY <1>0, <2>1, <2>2 DEF RowFollowsRun, StartsApart
  <2> QED
    BY <2>3, <2>4, <2>5, <2>6 DEF SubagentsInv
<1>2. CASE ~AbandonStart
  <2>1. /\ ~Starting /\ ~Starting' /\ tool' \in Tools /\ future' \in [Subs -> Kids \cup {Absent}]
        /\ UNCHANGED <<parent, kid, driven, aborting, sub, watch, loose, context, cancels, spoilt, restarted>>
    <3>1. CASE EndWait
      BY <1>0, <3>1 DEF EndWait, Starting, NoTool, Tools, SubagentsTypeOK
    <3>2. CASE BreakWait
      BY <1>0, <3>2 DEF BreakWait, Starting, NoTool, Tools, SubagentsTypeOK
    <3>3. ASSUME NEW p \in Parents, NEW s \in Subs, BeginWait(p, s)
          PROVE  /\ ~Starting /\ ~Starting' /\ tool' \in Tools /\ future' \in [Subs -> Kids \cup {Absent}]
                 /\ UNCHANGED <<parent, kid, driven, aborting, sub, watch, loose, context, cancels, spoilt, restarted>>
      BY <1>0, <3>3 DEF BeginWait, Calling, Starting, NoTool, Tools, SubagentsTypeOK
    <3> QED
      BY <1>2, <3>1, <3>2, <3>3
  <2>2. SubagentsTypeOK'
    BY <1>0, <2>1 DEF SubagentsTypeOK
  <2> QED
    BY <1>0, <2>1, <2>2 DEF SubagentsInv, StartsApart, FollowsLatest, RowFollowsRun
<1> QED
  BY <1>1, <1>2

\* _cancel_row for a set of children: what is over is copied, what runs gets a cancellation
LEMMA CancelsRows ==
  ASSUME SubagentsInv, NEW S \in SUBSET Subs, \A s \in S : Exists(s),
         NEW by \in Parents \cup {Absent}, CancelRows(S, by),
         NEW STATE rows, rows \in [Subs -> Row \cup {Absent}], sub' = Copied(S, rows),
         \A t \in Subs : /\ rows[t] # Absent <=> Exists(t)
                         /\ Exists(t) => rows[t].latest = sub[t].latest /\ rows[t].status = sub[t].status,
         parent' \in [Parents -> {"none", "running", "stopping", "over"}],
         UNCHANGED <<driven, watch, loose, future, context, tool, spoilt, restarted>>
  PROVE  SubagentsInv'
<1>0. /\ SubagentsTypeOK /\ StartsApart /\ FollowsLatest /\ RowFollowsRun
      /\ \A t \in Subs : Exists(t) => sub[t] \in Row /\ sub[t].latest \in Kids
      /\ \A c \in cancels : c.sub \in Subs /\ c.run \in Kids
  BY InRange DEF SubagentsInv
<1> DEFINE live == {s \in S : Live(s)}
<1> DEFINE CallOf(s) == [sub |-> s, run |-> sub[s].latest, by |-> by]
<1>1. aborting' = aborting \cup {sub[s].latest : s \in live} /\ cancels' = cancels \cup {CallOf(s) : s \in live}
  BY DEF CancelRows
<1>k. ASSUME NEW q \in Kids
      PROVE  /\ kid'[q] \in {kid[q], "cancelled"}
             /\ (\A s \in S : Stray(s) => sub[s].latest # q) => kid'[q] = kid[q]
             /\ (\E s \in S : Stray(s) /\ sub[s].latest = q) =>
                  kid'[q] = "cancelled" /\ kid[q] \in Unfinished /\ q \notin driven
  BY <1>0 DEF CancelRows, Stray
<1>l. kid' \in [Kids -> {"none"} \cup Unfinished \cup Over]
  BY <1>0, <1>k DEF SubagentsTypeOK, CancelRows, Over
<1>2. ASSUME NEW t \in Subs
      PROVE  /\ sub'[t] \in Row \cup {Absent} /\ (sub'[t] # Absent <=> Exists(t))
             /\ Exists(t) => sub'[t].latest = sub[t].latest
             /\ Exists(t) /\ (t \notin S \/ Live(t)) => sub'[t].status = sub[t].status
             /\ t \in S /\ ~Live(t) => sub'[t].status = kid'[sub[t].latest]
  <2>1. CASE t \in S /\ ~Live(t)
    <3>1. sub'[t] = [rows[t] EXCEPT !.status = kid'[sub[t].latest]]
      BY <2>1 DEF Copied
    <3>2. rows[t] \in Row /\ Exists(t)
      BY <2>1
    <3>3. kid'[sub[t].latest] \in Unfinished \cup Over
      BY <1>0, <1>k, <1>l, <3>2 DEF StartsApart, Over
    <3> QED
      BY <2>1, <3>1, <3>2, <3>3 DEF Row
  <2>2. CASE ~(t \in S /\ ~Live(t))
    BY <2>2 DEF Copied
  <2> QED
    BY <2>1, <2>2
<1>3. sub' \in [Subs -> Row \cup {Absent}]
  BY <1>2 DEF Copied
<1>4. \A s \in live : CallOf(s) \in Cancels /\ CallOf(s).sub = s /\ CallOf(s).run = sub[s].latest
                        /\ sub[s].latest \in Kids /\ Exists(s)
  BY <1>0 DEF Cancels
<1> HIDE DEF CallOf, live
<1>5. SubagentsTypeOK'
  BY <1>0, <1>1, <1>3, <1>4, <1>l DEF SubagentsTypeOK
<1>6. StartsApart'
  <2>1. \A q \in Kids : (kid'[q] = "none" => kid[q] = "none") /\ (kid[q] \in Over => kid'[q] \in Over)
    BY <1>k DEF Over
  <2>2. Starting => kid'[tool.run] = kid[tool.run]
    BY <1>0, <1>k DEF StartsApart
  <2> QED
    BY <1>0, <1>2, <2>1, <2>2 DEF StartsApart, Exists, Active, Starting
<1>7. FollowsLatest'
  <2>1. ASSUME NEW c \in cancels' PROVE sub'[c.sub] # Absent /\ sub'[c.sub].latest = c.run
    <3>1. CASE c \in cancels
      BY <1>0, <1>2, <3>1 DEF FollowsLatest, Exists
    <3>2. CASE c \notin cancels
      <4>1. PICK s \in live : c = CallOf(s)
        BY <1>1, <3>2
      <4> QED
        BY <1>2, <1>4, <4>1 DEF live
    <3> QED
      BY <3>1, <3>2
  <2>2. ASSUME NEW q \in Kids, watch[q] # Absent
        PROVE  /\ watch[q].sub \in Subs /\ sub'[watch[q].sub] # Absent
               /\ watch[q].step \in {"waiting", "woken"} => sub'[watch[q].sub].latest = q /\ context[q] = 0
               /\ watch[q].step = "waiting" => q \in driven
    BY <1>0, <1>2, <2>2 DEF FollowsLatest, Exists
  <2>3. ASSUME NEW t \in Subs, sub'[t] # Absent, kid'[sub'[t].latest] = "running", sub'[t].latest \notin loose
        PROVE  /\ watch[sub'[t].latest] # Absent /\ watch[sub'[t].latest].step = "waiting"
               /\ watch[sub'[t].latest].sub = t
    <3>1. kid[sub[t].latest] = "running" /\ Exists(t) /\ sub'[t].latest = sub[t].latest
      BY <1>0, <1>2, <1>k, <2>3 DEF Exists
    <3> QED
      BY <1>0, <2>3, <3>1 DEF FollowsLatest, Active, Watches
  <2>4. ASSUME NEW t \in Subs, NEW u \in Subs, sub'[t] # Absent, sub'[u] # Absent, sub'[t].latest = sub'[u].latest
        PROVE  t = u
    BY <1>0, <1>2, <2>4 DEF FollowsLatest
  <2> QED
    BY <2>1, <2>2, <2>3, <2>4 DEF FollowsLatest, Exists, Active, Watches
<1>8. RowFollowsRun'
  <2>1. ASSUME NEW s \in Subs, Exists(s)', ~restarted, s \notin spoilt, sub'[s].latest \notin loose,
               \A c \in cancels' : c.sub # s,
               \A q \in Kids : watch[q] # Absent /\ watch[q].sub = s =>
                 ~Watches(q, "woken") /\ (Watches(q, "waiting") => kid'[q] = "running")
        PROVE  sub'[s].status = kid'[sub'[s].latest]
    <3>1. s \notin live
      BY <1>1, <1>4, <2>1
    <3>2. Exists(s) /\ sub'[s].latest = sub[s].latest
      BY <1>2, <2>1 DEF Exists
    <3>3. CASE s \in S
      BY <1>2, <3>1, <3>2, <3>3 DEF live
    <3>4. CASE s \notin S
      <4>1. kid'[sub[s].latest] = kid[sub[s].latest]
        BY <1>0, <1>k, <3>2, <3>4 DEF FollowsLatest
      <4>2. \A q \in Kids : watch[q] # Absent /\ watch[q].sub = s =>
              ~Watches(q, "woken") /\ (Watches(q, "waiting") => Active(q))
        BY <1>k, <2>1 DEF Active
      <4>3. sub[s].status = kid[sub[s].latest]
        BY <1>0, <1>1, <2>1, <3>2, <4>2 DEF RowFollowsRun
      <4> QED
        BY <1>2, <3>2, <3>4, <4>1, <4>3
    <3> QED
      BY <3>3, <3>4
  <2> QED
    BY <2>1 DEF RowFollowsRun, Exists, Active, Watches
<1> QED
  BY <1>5, <1>6, <1>7, <1>8 DEF SubagentsInv

LEMMA CancelStep ==
  ASSUME SubagentsInv,
         \/ \E s \in Subs : CancelChild(s) \/ Destroy(s)
         \/ \E p \in Parents : StopParent(p)
         \/ \E c \in cancels : CancelEnds(c)
  PROVE  SubagentsInv'
<1>0. /\ SubagentsTypeOK /\ StartsApart /\ FollowsLatest /\ RowFollowsRun
      /\ \A t \in Subs : Exists(t) => sub[t] \in Row /\ sub[t].latest \in Kids
      /\ \A c \in cancels : c.sub \in Subs /\ c.run \in Kids
  BY InRange DEF SubagentsInv
<1>1. ASSUME NEW s \in Subs, CancelChild(s) PROVE SubagentsInv'
  BY <1>0, <1>1, CancelsRows DEF CancelChild, SubagentsTypeOK, Exists
<1>2. ASSUME NEW s \in Subs, Destroy(s) PROVE SubagentsInv'
  <2> DEFINE rows == [sub EXCEPT ![s].destroyed = TRUE]
  <2>1. sub[s] \in Row /\ Exists(s)
    BY <1>0, <1>2 DEF Destroy
  <2>2. rows \in [Subs -> Row \cup {Absent}]
    BY <1>0, <2>1 DEF SubagentsTypeOK, Row
  <2>3. \A t \in Subs : /\ rows[t] # Absent <=> Exists(t)
                        /\ Exists(t) => rows[t].latest = sub[t].latest /\ rows[t].status = sub[t].status
    BY <1>0, <2>1 DEF SubagentsTypeOK, Row, Exists
  <2>4. /\ CancelRows({s}, Absent) /\ sub' = Copied({s}, rows)
        /\ UNCHANGED <<parent, driven, watch, loose, future, context, tool, spoilt, restarted>>
    BY <1>2 DEF Destroy
  <2> HIDE DEF rows
  <2> QED
    BY <1>0, <2>1, <2>2, <2>3, <2>4, CancelsRows DEF SubagentsTypeOK
<1>3. ASSUME NEW p \in Parents, StopParent(p) PROVE SubagentsInv'
  <2>1. Children(p) \in SUBSET Subs /\ \A s \in Children(p) : Exists(s)
    BY DEF Children
  <2>2. parent' \in [Parents -> {"none", "running", "stopping", "over"}]
    BY <1>0, <1>3 DEF StopParent, SubagentsTypeOK
  <2> QED
    BY <1>0, <1>3, <2>1, <2>2, CancelsRows DEF StopParent, SubagentsTypeOK, Exists
<1>4. ASSUME NEW c \in cancels, CancelEnds(c) PROVE SubagentsInv'
  <2> DEFINE s == c.sub
  <2>0. s \in Subs /\ Exists(s) /\ sub[s].latest = c.run /\ c.run \in Kids
    BY <1>0 DEF FollowsLatest
  <2>1. kid[c.run] \in Unfinished \cup Over
    BY <1>0, <2>0 DEF SubagentsTypeOK, StartsApart
  <2>2. /\ sub' \in [Subs -> Row \cup {Absent}]
        /\ RowsKept
        /\ sub'[s].status = kid[c.run] /\ \A t \in Subs \ {s} : sub'[t] = sub[t]
    BY <1>0, <1>4, <2>0, <2>1, StatusWritten DEF CancelEnds
  <2>3. /\ cancels' = cancels \ {c}
        /\ UNCHANGED <<parent, kid, driven, aborting, watch, loose, future, context, tool, spoilt, restarted>>
    BY <1>4 DEF CancelEnds
  <2>4. SubagentsTypeOK'
    BY <1>0, <2>2, <2>3 DEF SubagentsTypeOK
  <2>5. StartsApart'
    BY <1>0, <2>0, <2>2, <2>3 DEF StartsApart, Exists, RowsKept, Active, Starting
  <2>6. FollowsLatest'
    <3>1. ASSUME NEW t \in Subs, sub'[t] # Absent, kid[sub'[t].latest] = "running", sub'[t].latest \notin loose'
          PROVE  /\ watch[sub'[t].latest] # Absent /\ watch[sub'[t].latest].step = "waiting"
                 /\ watch[sub'[t].latest].sub = t
      BY <1>0, <2>2, <2>3, <3>1 DEF FollowsLatest, Exists, RowsKept, Active, Watches
    <3>2. ASSUME NEW d \in cancels PROVE sub'[d.sub] # Absent /\ sub'[d.sub].latest = d.run
      BY <1>0, <2>2 DEF FollowsLatest, Exists, RowsKept
    <3>3. ASSUME NEW q \in Kids, watch[q] # Absent
          PROVE  /\ watch[q].sub \in Subs /\ sub'[watch[q].sub] # Absent
                 /\ watch[q].step \in {"waiting", "woken"} => sub'[watch[q].sub].latest = q /\ context[q] = 0
                 /\ watch[q].step = "waiting" => q \in driven
      BY <1>0, <2>2, <3>3 DEF FollowsLatest, Exists, RowsKept
    <3>4. \A u, v \in Subs : Exists(u)' /\ Exists(v)' /\ sub'[u].latest = sub'[v].latest => u = v
      BY <1>0, <2>2, RowsApart
    <3> QED
      BY <2>3, <3>1, <3>2, <3>3, <3>4 DEF FollowsLatest, Exists, Active, Watches
  <2>7. RowFollowsRun'
    BY <1>0, <2>0, <2>2, <2>3 DEF RowFollowsRun, Exists, RowsKept, Active, Watches
  <2> QED
    BY <2>4, <2>5, <2>6, <2>7 DEF SubagentsInv
<1> QED
  BY <1>1, <1>2, <1>3, <1>4

LEMMA ParentStep ==
  ASSUME SubagentsInv,
         (\E p \in Parents : BeginParent(p) \/ CompleteParent(p) \/ EndParent(p)) \/ UNCHANGED subagentsVars
  PROVE  SubagentsInv'
<1>1. /\ parent' \in [Parents -> {"none", "running", "stopping", "over"}]
      /\ UNCHANGED <<kid, driven, aborting, sub, watch, loose, future, context, tool, cancels, spoilt, restarted>>
  BY DEF BeginParent, CompleteParent, EndParent, subagentsVars, SubagentsInv, SubagentsTypeOK
<1> QED
  BY <1>1 DEF SubagentsInv, SubagentsTypeOK, StartsApart, FollowsLatest, RowFollowsRun,
              Exists, Active, Watches, Starting

LEMMA RestartStep == ASSUME SubagentsInv, Restart PROVE SubagentsInv'
<1>0. /\ SubagentsTypeOK /\ StartsApart /\ FollowsLatest
      /\ \A t \in Subs : Exists(t) => sub[t] \in Row /\ sub[t].latest \in Kids
  BY InRange DEF SubagentsInv
<1> USE DEF Restart
<1>1. \A q \in Kids : /\ kid'[q] \in {"none", "waiting_input"} \cup Over
                      /\ kid'[q] = "none" => kid[q] = "none"
  BY <1>0 DEF SubagentsTypeOK, Active, Over, Unfinished
<1>2. ASSUME NEW t \in Subs
      PROVE  /\ sub'[t] \in Row \cup {Absent} /\ (sub'[t] # Absent <=> Exists(t))
             /\ Exists(t) => sub'[t].latest = sub[t].latest
  <2>1. CASE Exists(t) /\ sub[t].status \in Unfinished /\ Active(sub[t].latest)
    <3>1. sub'[t] = [sub[t] EXCEPT !.status = "failed"]
      BY <2>1
    <3> QED
      BY <1>0, <2>1, <3>1 DEF Row, Over
  <2>2. CASE ~(Exists(t) /\ sub[t].status \in Unfinished /\ Active(sub[t].latest))
    BY <1>0, <2>2 DEF SubagentsTypeOK, Exists
  <2> QED
    BY <2>1, <2>2
<1>3. NoTool \in Tools /\ NoTool.op = "none"
  BY DEF NoTool, Tools
<1>4. SubagentsTypeOK'
  <2>1. kid' \in [Kids -> {"none"} \cup Unfinished \cup Over] /\ sub' \in [Subs -> Row \cup {Absent}]
    BY <1>1, <1>2 DEF Unfinished
  <2>2. parent' \in [Parents -> {"none", "running", "stopping", "over"}]
    BY <1>0 DEF SubagentsTypeOK
  <2> QED
    BY <1>0, <1>3, <2>1, <2>2 DEF SubagentsTypeOK
<1>5. StartsApart'
  BY <1>0, <1>1, <1>2, <1>3 DEF StartsApart, Starting, Exists, Active, Over
<1>6. FollowsLatest'
  BY <1>0, <1>1, <1>2 DEF FollowsLatest, Exists, Active, Over
<1>7. RowFollowsRun'
  BY DEF RowFollowsRun
<1> QED
  BY <1>4, <1>5, <1>6, <1>7 DEF SubagentsInv

LEMMA SubagentsInvStep == SubagentsInv /\ [SubagentsNext]_subagentsVars => SubagentsInv'
BY ChildRunStep, KidStep, StartStep, LaunchStep, CallStep, CancelStep, ParentStep, RestartStep DEF SubagentsNext

LEMMA SubagentsInvAlways == SubagentsSpec => []SubagentsInv
BY SubagentsStart, SubagentsInvStep, PTL DEF SubagentsSpec

\* Once its watchers and its cancellations are through, the row of a child shows the status
\* of its latest run, in whatever order they came (watch, _cancel_row).
THEOREM RowsFollowRuns == SubagentsSpec => []RowFollowsRun
<1>1. SubagentsInv => RowFollowsRun
  BY DEF SubagentsInv
<1> QED
  BY <1>1, SubagentsInvAlways, PTL

LEMMA DeliveryStep ==
  ASSUME SubagentsInv, [SubagentsNext]_subagentsVars, NEW r \in Kids, context'[r] # context[r]
  PROVE  context[r] = 0 /\ watch[r] # Absent /\ ~sub[watch[r].sub].destroyed
<1>1. PICK q \in Kids : WatchResult(q)
  BY DEF SubagentsNext, subagentsVars, EndKid, CloseKid, CutKid, AnswerKid, SettleKid, FinishWatch, FailWatch,
         BeginParent, CompleteParent,
         StopParent, EndParent, LaunchRun, BeginCreate, BeginSend, BeginWait, AbandonStart, EndWait,
         BreakWait, CancelChild, Destroy, CancelEnds, Restart
<1>2. q = r
  BY <1>1 DEF WatchResult, Delivered, SubagentsInv, SubagentsTypeOK
<1> QED
  BY <1>1, <1>2 DEF WatchResult, Delivered, Watches, SubagentsInv, FollowsLatest

\* The result of a child run reaches the context of its parent once, and not after the child
\* was destroyed (_inject_result).
THEOREM ResultsStayApart == SubagentsSpec => NothingAfterDestroy
<1>1. SubagentsInv /\ [SubagentsNext]_subagentsVars =>
        [\A r \in Kids : context'[r] # context[r] =>
           context[r] = 0 /\ watch[r] # Absent /\ ~sub[watch[r].sub].destroyed]_subagentsVars
  BY DeliveryStep
<1> QED
  BY <1>1, SubagentsInvAlways, PTL DEF SubagentsSpec, NothingAfterDestroy

-----------------------------------------------------------------------------
(* Execution                                                                 *)

\* A trigger in hand is one that runs, in one hand, as far as the worker has come with it.
HandHolds(w) ==
  LET f == hand[w].trigger IN
  /\ hand[w].step \in {"idle", "gone"} <=> f = Unassigned
  /\ f # Unassigned => outcome[f] = "running" /\ \A v \in Crew \ {w} : hand[v].trigger # f
  /\ hand[w].step \in {"start", "sleep"} => agent[f] = "none" /\ task[f] = "none"
  /\ hand[w].step = "wait" => task[f] # "none"
  /\ hand[w].step \in {"timeout", "cancelled"} => task[f] = "dead"

HandsHold == \A w \in Crew : HandHolds(w)

\* The run of a trigger goes on in its driver, after an answer, or in the row that a driver
\* has left when it died of a cancellation, until the worker has settled that row.
RunIsAccounted(f) ==
  /\ outcome[f] \in {"queued", "skipped"} => agent[f] = "none" /\ task[f] = "none"
  /\ task[f] = "none" => agent[f] \in {"none", "failed"}
  /\ task[f] \in {"turn", "cleanup"} => outcome[f] = "running" /\ agent[f] = "running"
  /\ resumed[f] => task[f] \in {"done", "dead"}
  /\ task[f] = "cleanup" => verdict[f] # "none"
  /\ agent[f] = "running" => \/ resumed[f] \/ task[f] \in {"turn", "cleanup"}
                             \/ task[f] = "dead" /\ outcome[f] = "running"

SessionHasOneRun ==
  \A f \in Triggers : Shared /\ Busy(f) => ~guest /\ \A g \in Triggers \ {f} : ~Busy(g)

ExecutionInv ==
  /\ ExecutionTypeOK /\ ExecutionIsRecorded /\ HandsHold /\ SessionHasOneRun
  /\ \A f \in Triggers : RunIsAccounted(f)

LEMMA ExecutionStart == ExecutionInit => ExecutionInv
<1> SUFFICES ASSUME ExecutionInit PROVE ExecutionInv
  OBVIOUS
<1> USE DEF ExecutionInit, Hand, NoHand
<1>1. ExecutionTypeOK
  BY DEF ExecutionTypeOK
<1>2. ExecutionIsRecorded
  BY DEF ExecutionIsRecorded, Running, Settled, At
<1>3. HandsHold /\ SessionHasOneRun /\ \A f \in Triggers : RunIsAccounted(f)
  BY DEF HandsHold, HandHolds, SessionHasOneRun, RunIsAccounted, Busy
<1> QED
  BY <1>1, <1>2, <1>3 DEF ExecutionInv

Hands == [trigger : Triggers \cup {Unassigned}, expired : BOOLEAN,
          step : {"idle", "start", "sleep", "wait", "timeout", "cancelled", "gone"}]

\* One worker comes to another step, perhaps with another trigger; the others stay.
Moves(w, f, step) ==
  /\ hand' \in [Crew -> Hands]
  /\ hand'[w].trigger = f /\ hand'[w].step = step
  /\ \A v \in Crew \ {w} : hand'[v] = hand[v]

LEMMA HandWritten ==
  ASSUME hand \in [Crew -> Hands], NEW w \in Crew, NEW f \in Triggers \cup {Unassigned},
         NEW step \in {"idle", "start", "sleep", "wait", "timeout", "cancelled", "gone"},
         NEW expired \in BOOLEAN,
         hand' = [hand EXCEPT ![w] = [trigger |-> f, step |-> step, expired |-> expired]]
  PROVE  Moves(w, f, step)
BY DEF Moves, Hands

LEMMA HandStepWritten ==
  ASSUME hand \in [Crew -> Hands], NEW w \in Crew,
         NEW step \in {"idle", "start", "sleep", "wait", "timeout", "cancelled", "gone"},
         Proceed(w, step)
  PROVE  Moves(w, hand[w].trigger, step)
<1>1. hand' = [hand EXCEPT ![w] = [hand[w] EXCEPT !.step = step]]
  BY DEF Proceed
<1>2. [hand[w] EXCEPT !.step = step] = [trigger |-> hand[w].trigger, step |-> step, expired |-> hand[w].expired]
  BY DEF Hands
<1>3. hand[w].trigger \in Triggers \cup {Unassigned} /\ hand[w].expired \in BOOLEAN
  BY DEF Hands
<1>4. hand' = [hand EXCEPT ![w] = [trigger |-> hand[w].trigger, step |-> step, expired |-> hand[w].expired]]
  BY <1>1, <1>2
<1> QED
  BY <1>3, <1>4, HandWritten

LEMMA TakeMoves ==
  ASSUME ExecutionTypeOK, NEW w \in Crew, NEW f \in Triggers,
         hand' = [hand EXCEPT ![w] = Hand(f, "start")]
  PROVE  Moves(w, f, "start")
BY HandWritten DEF Hand, ExecutionTypeOK, Hands

LEMMA ProceedMoves ==
  ASSUME ExecutionTypeOK, NEW w \in Crew,
         NEW step \in {"idle", "start", "sleep", "wait", "timeout", "cancelled", "gone"},
         Proceed(w, step)
  PROVE  Moves(w, hand[w].trigger, step)
BY HandStepWritten DEF ExecutionTypeOK, Hands

LEMMA TimeOutMoves ==
  ASSUME ExecutionTypeOK, NEW w \in Crew, TimeOut(w)
  PROVE  Moves(w, hand[w].trigger, "wait")
<1>1. hand[w].trigger \in Triggers \cup {Unassigned}
  BY DEF ExecutionTypeOK
<1> QED
  BY <1>1, HandWritten DEF TimeOut, ExecutionTypeOK, Hands

LEMMA RecordMoves ==
  ASSUME ExecutionTypeOK, NEW w \in Crew, NEW status, Record(w, status)
  PROVE  Moves(w, Unassigned, "idle")
BY HandWritten DEF Record, Hand, NoHand, ExecutionTypeOK, Hands

LEMMA GoneMoves ==
  ASSUME ExecutionTypeOK, NEW w \in Crew, AfterCancel(w)
  PROVE  Moves(w, Unassigned, "gone")
BY HandWritten DEF AfterCancel, Hand, ExecutionTypeOK, Hands

LEMMA ExecutionTypeRun ==
  ASSUME ExecutionTypeOK, NEW f \in Triggers,
         EndTurn(f) \/ CleanUp(f) \/ Die(f) \/ Strike(f) \/ Resume(f) \/ EndResumed(f) \/ Withdraw(f)
  PROVE  ExecutionTypeOK'
<1> USE DEF ExecutionTypeOK
<1>1. CASE EndTurn(f)
  BY <1>1 DEF EndTurn
<1>2. CASE CleanUp(f)
  BY <1>2 DEF CleanUp
<1>3. CASE Die(f)
  BY <1>3 DEF Die
<1>4. CASE Strike(f)
  BY <1>4 DEF Strike
<1>5. CASE Resume(f)
  BY <1>5 DEF Resume
<1>6. CASE EndResumed(f)
  BY <1>6 DEF EndResumed
<1>7. CASE Withdraw(f)
  BY <1>7 DEF Withdraw
<1> QED
  BY <1>1, <1>2, <1>3, <1>4, <1>5, <1>6, <1>7

LEMMA ExecutionTypeGlobal ==
  ASSUME ExecutionTypeOK, Halt \/ Visit
  PROVE  ExecutionTypeOK'
<1> USE DEF ExecutionTypeOK
<1>1. CASE Halt
  BY <1>1 DEF Halt, Hand, NoHand, At, Settled
<1>2. CASE Visit
  BY <1>2 DEF Visit, runVars
<1> QED
  BY <1>1, <1>2

\* What an action of a worker does to the hands, the triggers and their runs.
LEMMA ExecutionTypeWorker ==
  ASSUME ExecutionTypeOK, HandsHold, NEW w \in Crew,
         \/ \E f \in Triggers : Take(w, f)
         \/ BeginRun(w) \/ Refused(w) \/ Awake(w) \/ TimeOut(w) \/ Answered(w)
         \/ Interrupted(w) \/ AfterTimeout(w) \/ AfterCancel(w)
  PROVE  ExecutionTypeOK'
<1> DEFINE g == hand[w].trigger
<1>0. hand[w].step \notin {"idle", "gone"} => g \in Triggers
  BY DEF HandsHold, HandHolds, ExecutionTypeOK
<1> USE DEF ExecutionTypeOK, At, Settled, runVars
<1>1. ASSUME hand' \in [Crew -> Hands],
             outcome' \in [Triggers -> {"queued", "running"} \cup Settled],
             agent' \in [Triggers -> {"none", "running", "waiting_input", "completed", "failed", "cancelled"}],
             task' \in [Triggers -> {"none", "turn", "cleanup", "done", "dead"}],
             struck' \in [Triggers -> BOOLEAN],
             UNCHANGED <<plan, verdict, resumed, guest, halted>>
      PROVE  ExecutionTypeOK'
  BY <1>1 DEF Hands
<1>2. ASSUME NEW f \in Triggers, Take(w, f) PROVE ExecutionTypeOK'
  <2>1. hand' \in [Crew -> Hands]
    BY <1>2, TakeMoves DEF Take, Moves, Hands
  <2> QED
    BY <1>1, <1>2, <2>1 DEF Take
<1>3. CASE BeginRun(w)
  <2>1. hand' \in [Crew -> Hands]
    BY <1>3, ProceedMoves, RecordMoves DEF BeginRun, Moves
  <2>2. g \in Triggers
    BY <1>0, <1>3 DEF BeginRun
  <2>3. CASE agent' = [agent EXCEPT ![g] = "running"] /\ task' = [task EXCEPT ![g] = "turn"] /\ UNCHANGED outcome
    BY <1>1, <1>3, <2>1, <2>2, <2>3 DEF BeginRun
  <2>4. CASE agent' = [agent EXCEPT ![g] = "failed"] /\ Record(w, "failed") /\ UNCHANGED task
    BY <1>1, <1>3, <2>1, <2>2, <2>4 DEF BeginRun, Record
  <2> QED
    BY <1>3, <2>3, <2>4 DEF BeginRun
<1>4. CASE Refused(w)
  <2>1. hand' \in [Crew -> Hands]
    BY <1>4, ProceedMoves, RecordMoves DEF Refused, Moves
  <2> QED
    BY <1>1, <1>4, <2>1 DEF Refused, Record
<1>5. CASE Awake(w)
  <2>1. hand' \in [Crew -> Hands]
    BY <1>5, ProceedMoves DEF Awake, Moves
  <2> QED
    BY <1>1, <1>5, <2>1 DEF Awake
<1>6. CASE TimeOut(w)
  <2>1. hand' \in [Crew -> Hands]
    BY <1>6, TimeOutMoves DEF Moves
  <2> QED
    BY <1>1, <1>6, <2>1 DEF TimeOut
<1>7. CASE Answered(w)
  <2>1. hand' \in [Crew -> Hands]
    BY <1>7, RecordMoves DEF Answered, Moves
  <2> QED
    BY <1>1, <1>7, <2>1 DEF Answered, Record
<1>8. CASE Interrupted(w)
  <2>1. hand' \in [Crew -> Hands]
    BY <1>8, ProceedMoves DEF Interrupted, Moves
  <2> QED
    BY <1>1, <1>8, <2>1 DEF Interrupted
<1>9. CASE AfterTimeout(w)
  <2>1. hand' \in [Crew -> Hands]
    BY <1>9, RecordMoves DEF AfterTimeout, Moves
  <2>2. g \in Triggers
    BY <1>0, <1>9 DEF AfterTimeout
  <2> QED
    BY <1>1, <1>9, <2>1, <2>2 DEF AfterTimeout, Record, CancelledRow
<1>10. CASE AfterCancel(w)
  <2>1. hand' \in [Crew -> Hands]
    BY <1>10, GoneMoves DEF Moves
  <2>2. g \in Triggers
    BY <1>0, <1>10 DEF AfterCancel
  <2> QED
    BY <1>1, <1>10, <2>1, <2>2 DEF AfterCancel, CancelledRow
<1> QED
  BY <1>2, <1>3, <1>4, <1>5, <1>6, <1>7, <1>8, <1>9, <1>10

\* The hands hold when one worker moves to a trigger of its own and the triggers of the others
\* are left as they are.
LEMMA HandsStep ==
  ASSUME ExecutionTypeOK, HandsHold, NEW w \in Crew, NEW f, NEW step,
         Moves(w, f, step), HandHolds(w)',
         \A v \in Crew \ {w} : LET g == hand[v].trigger IN
            g # Unassigned => /\ f # g
                              /\ outcome'[g] = outcome[g] /\ agent'[g] = agent[g] /\ task'[g] = task[g]
  PROVE  HandsHold'
<1> SUFFICES ASSUME NEW v \in Crew PROVE HandHolds(v)'
  BY DEF HandsHold
<1>1. CASE v = w
  BY <1>1
<1>2. CASE v # w
  <2> DEFINE g == hand[v].trigger
  <2>1. hand'[v] = hand[v] /\ hand'[w].trigger = f /\ \A u \in Crew \ {w} : hand'[u] = hand[u]
    BY <1>2 DEF Moves
  <2>2. HandHolds(v) /\ (g # Unassigned => \A u \in Crew \ {v} : hand[u].trigger # g)
    BY DEF HandsHold, HandHolds
  <2>3. g # Unassigned => \A u \in Crew \ {v} : hand'[u].trigger # g
    BY <1>2, <2>1, <2>2
  <2> QED
    BY <1>2, <2>1, <2>2, <2>3 DEF HandHolds
<1> QED
  BY <1>1, <1>2

\* Two hands never hold one trigger.
LEMMA HandsApart ==
  ASSUME HandsHold, NEW w \in Crew, NEW v \in Crew \ {w}, hand[v].trigger # Unassigned
  PROVE  hand[v].trigger # hand[w].trigger
BY DEF HandsHold, HandHolds

\* The parts of ExecutionIsRecorded that are about one trigger or one worker.
Recorded(f) ==
  /\ outcome[f] = "succeeded" => agent[f] = "completed"
  /\ outcome[f] = "skipped" => agent[f] = "none"
  /\ outcome[f] = "timed_out" => agent[f] \in {"failed", "cancelled"}
  /\ outcome[f] \in Settled => ~Running(f) \/ resumed[f]

InHand(f) == outcome[f] = "running" => \E w \in Crew : hand[w].trigger = f

LeftWithReason(w) ==
  At(w, "gone") => halted \/ \E f \in Triggers : task[f] = "dead" /\ outcome[f] = "cancelled"

LEMMA PartsRecorded ==
  ASSUME ExecutionIsRecorded
  PROVE  /\ \A f \in Triggers : Recorded(f) /\ InHand(f)
         /\ \A w \in Crew : LeftWithReason(w)
BY DEF Recorded, InHand, LeftWithReason, ExecutionIsRecorded

\* An action of a worker is sound when it is sound for its hand and its trigger, and leaves the
\* other triggers alone.
LEMMA WorkerStep ==
  ASSUME ExecutionInv, NEW w \in Crew, NEW f \in Triggers, NEW h, NEW step,
         hand[w].trigger \in {f, Unassigned},
         Moves(w, h, step), h \in {f, Unassigned},
         outcome[f] \in {"queued", "running"}, outcome[f] = "queued" => hand[w].trigger # f,
         hand[w].trigger # Unassigned \/ outcome[f] = "queued",
         \A g \in Triggers \ {f} :
           outcome'[g] = outcome[g] /\ agent'[g] = agent[g] /\ task'[g] = task[g],
         resumed' = resumed, halted' = halted, verdict' = verdict,
         task[f] = "dead" => task'[f] = "dead",
         HandHolds(w)', Recorded(f)', RunIsAccounted(f)', InHand(f)', LeftWithReason(w)',
         SessionHasOneRun', ExecutionTypeOK'
  PROVE  ExecutionInv'
<1>0. /\ ExecutionTypeOK /\ HandsHold /\ SessionHasOneRun
      /\ \A g \in Triggers : RunIsAccounted(g) /\ Recorded(g) /\ InHand(g)
      /\ \A v \in Crew : LeftWithReason(v)
  BY PartsRecorded DEF ExecutionInv
<1>1. \A v \in Crew \ {w} : hand[v].trigger # f
  <2> SUFFICES ASSUME NEW v \in Crew \ {w}, hand[v].trigger = f PROVE FALSE
    OBVIOUS
  <2>1. f # Unassigned
    BY ExecutionAssumption
  <2>2. outcome[f] = "running"
    BY <1>0, <2>1 DEF HandsHold, HandHolds
  <2>3. hand[w].trigger = f
    BY <2>2
  <2> QED
    BY <1>0, <2>1, <2>3, HandsApart
<1>2. HandsHold'
  <2>1. ASSUME NEW v \in Crew \ {w}, hand[v].trigger # Unassigned
        PROVE  /\ h # hand[v].trigger
               /\ hand[v].trigger \in Triggers \ {f}
    BY <1>0, <1>1, <2>1 DEF ExecutionTypeOK
  <2> QED
    BY <1>0, <2>1, HandsStep
<1>3. ASSUME NEW g \in Triggers \ {f} PROVE Recorded(g)' /\ RunIsAccounted(g)'
  BY <1>0, <1>3 DEF Recorded, RunIsAccounted, Running
<1>4. ASSUME NEW g \in Triggers \ {f} PROVE InHand(g)'
  <2> SUFFICES ASSUME outcome[g] = "running" PROVE \E v \in Crew : hand'[v].trigger = g
    BY DEF InHand
  <2>1. PICK v \in Crew : hand[v].trigger = g
    BY <1>0 DEF InHand
  <2>2. v # w
    BY <2>1, ExecutionAssumption
  <2> QED
    BY <2>1, <2>2 DEF Moves
<1>5. ASSUME NEW v \in Crew \ {w} PROVE LeftWithReason(v)'
  <2> SUFFICES ASSUME At(v, "gone")', ~halted
               PROVE  \E g \in Triggers : task'[g] = "dead" /\ outcome'[g] = "cancelled"
    BY DEF LeftWithReason
  <2>1. PICK g \in Triggers : task[g] = "dead" /\ outcome[g] = "cancelled"
    BY <1>0 DEF LeftWithReason, At, Moves
  <2>2. g # f
    BY <2>1
  <2> QED
    BY <2>1, <2>2
<1>6. ExecutionIsRecorded'
  BY <1>3, <1>4, <1>5
     DEF SessionHasOneRun, Recorded, InHand, LeftWithReason, ExecutionIsRecorded, Running, Busy
<1> QED
  BY <1>2, <1>3, <1>6 DEF ExecutionInv

\* While nothing becomes busy, a session that has one run at most still has.
LEMMA NoNewRun ==
  ASSUME SessionHasOneRun, UNCHANGED <<plan, guest>>, \A f \in Triggers : Busy(f)' => Busy(f)
  PROVE  SessionHasOneRun'
BY DEF SessionHasOneRun, Shared

LEMMA TakeStep ==
  ASSUME ExecutionInv, NEW w \in Crew, NEW f \in Triggers, Take(w, f), ExecutionTypeOK'
  PROVE  ExecutionInv'
<1> USE ExecutionAssumption
<1>0. ExecutionTypeOK /\ HandsHold /\ SessionHasOneRun
  BY DEF ExecutionInv
<1>1. hand[w].trigger = Unassigned /\ outcome[f] = "queued"
  BY <1>0 DEF Take, At, HandsHold, HandHolds
<1>2. agent[f] = "none" /\ task[f] = "none" /\ RunIsAccounted(f)
  BY <1>0, <1>1 DEF RunIsAccounted, ExecutionInv
<1>3. UNCHANGED <<plan, agent, task, verdict, resumed, guest, halted>>
  BY DEF Take, runVars
<1>4. SessionHasOneRun'
  BY <1>0, <1>3, NoNewRun DEF Busy
<1>5. ASSUME NEW status \in {"skipped", "failed"},
             outcome' = [outcome EXCEPT ![f] = status], UNCHANGED hand
      PROVE  ExecutionInv'
  <2>1. Moves(w, Unassigned, hand[w].step)
    BY <1>0, <1>1, <1>5 DEF Moves, ExecutionTypeOK, Hands
  <2>2. outcome'[f] = status /\ \A g \in Triggers \ {f} : outcome'[g] = outcome[g]
    BY <1>0, <1>1, <1>5 DEF ExecutionTypeOK
  <2>3. HandHolds(w) /\ HandHolds(w)'
    BY <1>0, <1>1, <1>3, <1>5 DEF HandsHold, HandHolds, At, Take
  <2>4. Recorded(f)' /\ RunIsAccounted(f)' /\ InHand(f)'
    BY <1>2, <1>3, <2>2 DEF Recorded, RunIsAccounted, InHand, Running, Settled
  <2>5. LeftWithReason(w)'
    BY <1>5 DEF Take, At, LeftWithReason
  <2> QED
    BY <1>0, <1>1, <1>2, <1>3, <1>4, <2>1, <2>2, <2>3, <2>4, <2>5, WorkerStep
<1>6. CASE outcome' = [outcome EXCEPT ![f] = "running"] /\ hand' = [hand EXCEPT ![w] = Hand(f, "start")]
  <2>1. Moves(w, f, "start")
    BY <1>0, <1>1, <1>6, TakeMoves
  <2>2. outcome'[f] = "running" /\ \A g \in Triggers \ {f} : outcome'[g] = outcome[g]
    BY <1>0, <1>1, <1>6 DEF ExecutionTypeOK
  <2>3. \A v \in Crew \ {w} : hand'[v].trigger # f
    BY <1>0, <1>1, <2>1 DEF HandsHold, HandHolds, Moves
  <2>4. HandHolds(w)'
    BY <1>2, <1>3, <2>1, <2>2, <2>3 DEF HandHolds, Moves
  <2>5. Recorded(f)' /\ RunIsAccounted(f)' /\ InHand(f)' /\ LeftWithReason(w)'
    BY <1>2, <1>3, <2>1, <2>2 DEF Recorded, RunIsAccounted, InHand, LeftWithReason, Running, Settled, Moves, At
  <2>6. \A g \in Triggers \ {f} :
          outcome'[g] = outcome[g] /\ agent'[g] = agent[g] /\ task'[g] = task[g]
    BY <1>3, <2>2
  <2>7. /\ hand[w].trigger \in {f, Unassigned} /\ hand[w].trigger # f
        /\ outcome[f] \in {"queued", "running"} /\ f \in {f, Unassigned}
        /\ (task[f] = "dead" => task'[f] = "dead")
        /\ resumed' = resumed /\ halted' = halted /\ verdict' = verdict
    BY <1>0, <1>1, <1>2, <1>3
  <2> QED
    BY <1>0, <1>1, <1>4, <2>1, <2>4, <2>5, <2>6, <2>7, WorkerStep
<1> QED
  BY <1>5, <1>6 DEF Take

\* A worker that has a trigger holds it alone, and the trigger runs.
LEMMA HasTrigger ==
  ASSUME ExecutionInv, NEW w \in Crew, hand[w].step \notin {"idle", "gone"}
  PROVE  /\ hand[w].trigger \in Triggers /\ outcome[hand[w].trigger] = "running"
         /\ \A v \in Crew \ {w} : hand[v].trigger # hand[w].trigger
         /\ RunIsAccounted(hand[w].trigger)
BY DEF ExecutionInv, HandsHold, HandHolds, ExecutionTypeOK

\* finish_schedule_run settles a trigger by a status that says what became of its run.
LEMMA Settles ==
  ASSUME ExecutionInv, ExecutionTypeOK', NEW w \in Crew, hand[w].step \notin {"idle", "gone"},
         NEW status \in Settled \ {"skipped"}, NEW f \in Triggers, f = hand[w].trigger,
         UNCHANGED <<plan, task, verdict, resumed, guest, halted>>,
         outcome' = [outcome EXCEPT ![f] = status],
         NEW a, agent' = [agent EXCEPT ![f] = a],
         status = "succeeded" => a = "completed",
         status = "timed_out" => a \in {"failed", "cancelled"},
         a = "running" => resumed[f], task[f] \notin {"turn", "cleanup"},
         task[f] = "none" => a \in {"none", "failed"},
         a \in {"running", "waiting_input"} => Busy(f),
         NEW step \in {"idle", "gone"}, Moves(w, Unassigned, step),
         step = "gone" => task[f] = "dead" /\ status = "cancelled"
  PROVE  ExecutionInv'
<1>0. ExecutionTypeOK /\ HandsHold /\ SessionHasOneRun
  BY DEF ExecutionInv
<1>1. outcome[f] = "running" /\ RunIsAccounted(f)
  BY HasTrigger
<1>2. /\ outcome'[f] = status /\ agent'[f] = a
      /\ \A g \in Triggers \ {f} : outcome'[g] = outcome[g] /\ agent'[g] = agent[g] /\ task'[g] = task[g]
  BY <1>0 DEF ExecutionTypeOK
<1>3. SessionHasOneRun'
  <2>1. ASSUME NEW g \in Triggers PROVE Busy(g)' => Busy(g)
    <3>1. CASE g = f
      BY <1>2, <3>1 DEF Busy
    <3>2. CASE g # f
      BY <1>2, <3>2 DEF Busy
    <3> QED
      BY <3>1, <3>2
  <2> QED
    BY <1>0, <2>1, NoNewRun
<1>4. Recorded(f)' /\ RunIsAccounted(f)' /\ InHand(f)'
  BY <1>1, <1>2 DEF Recorded, RunIsAccounted, InHand, Running, Settled
<1>5. HandHolds(w)'
  BY DEF Moves, HandHolds
<1>6. LeftWithReason(w)'
  BY <1>2 DEF Moves, LeftWithReason, At
<1>7. /\ hand[w].trigger \in {f, Unassigned} /\ hand[w].trigger # Unassigned
      /\ outcome[f] \in {"queued", "running"} /\ outcome[f] # "queued"
      /\ (task[f] = "dead" => task'[f] = "dead") /\ Unassigned \in {f, Unassigned}
      /\ resumed' = resumed /\ halted' = halted /\ verdict' = verdict
  BY <1>1, ExecutionAssumption
<1> QED
  BY <1>2, <1>3, <1>4, <1>5, <1>6, <1>7, WorkerStep

\* The same for the actions that record and take up the next trigger.
LEMMA RecordStep ==
  ASSUME ExecutionInv, ExecutionTypeOK', NEW w \in Crew, hand[w].step \notin {"idle", "gone"},
         NEW status \in Settled \ {"skipped"}, Record(w, status),
         UNCHANGED <<plan, task, verdict, resumed, guest, halted>>,
         NEW a, agent' = [agent EXCEPT ![hand[w].trigger] = a],
         status = "succeeded" => a = "completed",
         status = "timed_out" => a \in {"failed", "cancelled"},
         a = "running" => resumed[hand[w].trigger],
         task[hand[w].trigger] \notin {"turn", "cleanup"},
         task[hand[w].trigger] = "none" => a \in {"none", "failed"},
         a \in {"running", "waiting_input"} => Busy(hand[w].trigger)
  PROVE  ExecutionInv'
<1> DEFINE f == hand[w].trigger
<1>1. f \in Triggers /\ outcome[f] = "running"
  BY HasTrigger
<1>2. outcome' = [outcome EXCEPT ![f] = status]
  BY <1>1 DEF Record
<1>3. Moves(w, Unassigned, "idle")
  BY RecordMoves DEF ExecutionInv
<1> HIDE DEF f
<1> QED
  BY <1>1, <1>2, <1>3, Settles DEF f

\* A worker that only comes to another step with its trigger.
LEMMA HandMoved ==
  ASSUME ExecutionInv, ExecutionTypeOK', NEW w \in Crew, hand[w].step \notin {"idle", "gone"},
         NEW f \in Triggers, f = hand[w].trigger,
         NEW step \in {"start", "sleep", "wait", "timeout", "cancelled"}, Moves(w, f, step),
         UNCHANGED <<plan, outcome, agent, task, verdict, resumed, guest, halted>>,
         step \in {"start", "sleep"} => hand[w].step \in {"start", "sleep"},
         step = "wait" => task[f] # "none",
         step \in {"timeout", "cancelled"} => task[f] = "dead"
  PROVE  ExecutionInv'
<1>0. ExecutionTypeOK /\ HandsHold /\ SessionHasOneRun /\ Recorded(f) /\ RunIsAccounted(f) /\ HandHolds(w)
  BY PartsRecorded DEF ExecutionInv, HandsHold
<1>1. outcome[f] = "running" /\ \A v \in Crew \ {w} : hand[v].trigger # f
  BY HasTrigger
<1>2. SessionHasOneRun'
  BY <1>0, NoNewRun DEF Busy
<1>3. Recorded(f)' /\ RunIsAccounted(f)'
  BY <1>0, <1>1 DEF Recorded, RunIsAccounted, Running
<1>4. InHand(f)' /\ LeftWithReason(w)'
  BY DEF InHand, LeftWithReason, At, Moves
<1>5. HandHolds(w)'
  BY <1>0, <1>1, ExecutionAssumption DEF HandHolds, Moves
<1>6. /\ hand[w].trigger \in {f, Unassigned} /\ hand[w].trigger # Unassigned
      /\ outcome[f] \in {"queued", "running"} /\ outcome[f] # "queued" /\ f \in {f, Unassigned}
      /\ (task[f] = "dead" => task'[f] = "dead")
      /\ resumed' = resumed /\ halted' = halted /\ verdict' = verdict
      /\ \A g \in Triggers \ {f} : outcome'[g] = outcome[g] /\ agent'[g] = agent[g] /\ task'[g] = task[g]
  BY <1>1, ExecutionAssumption
<1> QED
  BY <1>2, <1>3, <1>4, <1>5, <1>6, WorkerStep

LEMMA BeginRunStep ==
  ASSUME ExecutionInv, ExecutionTypeOK', NEW w \in Crew, BeginRun(w)
  PROVE  ExecutionInv'
<1>f. PICK f \in Triggers : f = hand[w].trigger
  BY HasTrigger DEF BeginRun, At
<1>0. ExecutionTypeOK /\ HandsHold /\ SessionHasOneRun /\ HandHolds(w)
  BY DEF ExecutionInv, HandsHold
<1>1. /\ hand[w].step = "start" /\ outcome[f] = "running"
      /\ \A v \in Crew \ {w} : hand[v].trigger # f
  BY <1>f, HasTrigger DEF BeginRun, At
<1>2. agent[f] = "none" /\ task[f] = "none" /\ ~Occupied
  BY <1>f, <1>0, <1>1 DEF HandHolds, BeginRun
<1>3. UNCHANGED <<plan, verdict, resumed, guest, halted>>
  BY DEF BeginRun
<1>4. RunIsAccounted(f) /\ Recorded(f)
  BY <1>1, PartsRecorded DEF ExecutionInv
<1>5. CASE agent' = [agent EXCEPT ![f] = "running"] /\ task' = [task EXCEPT ![f] = "turn"]
           /\ Proceed(w, "wait") /\ UNCHANGED outcome
  <2>1. Moves(w, f, "wait")
    BY <1>f, <1>0, <1>5, ProceedMoves
  <2>2. /\ agent'[f] = "running" /\ task'[f] = "turn"
        /\ \A g \in Triggers \ {f} : outcome'[g] = outcome[g] /\ agent'[g] = agent[g] /\ task'[g] = task[g]
    BY <1>0, <1>1, <1>5 DEF ExecutionTypeOK
  <2>3. SessionHasOneRun'
    <3> SUFFICES ASSUME Shared', NEW g \in Triggers, Busy(g)'
                 PROVE  ~guest' /\ \A e \in Triggers \ {g} : ~Busy(e)'
      BY DEF SessionHasOneRun
    <3>1. ~guest /\ \A e \in Triggers : ~Busy(e)
      BY <1>2, <1>3 DEF Occupied, Shared
    <3>2. \A e \in Triggers \ {f} : ~Busy(e)'
      BY <2>2, <3>1 DEF Busy
    <3>3. g = f
      BY <3>2
    <3> QED
      BY <1>3, <3>1, <3>2, <3>3
  <2>4. Recorded(f)' /\ RunIsAccounted(f)'
    <3>1. outcome'[f] = "running" /\ ~resumed'[f]
      BY <1>1, <1>2, <1>3, <1>4, <1>5 DEF RunIsAccounted
    <3> QED
      BY <2>2, <3>1 DEF Recorded, RunIsAccounted, Settled
  <2>5. InHand(f)' /\ LeftWithReason(w)'
    BY <2>1 DEF InHand, LeftWithReason, At, Moves
  <2>6. HandHolds(w)'
    BY <1>1, <1>5, <2>1, <2>2, ExecutionAssumption DEF HandHolds, Moves
  <2>7. /\ hand[w].trigger \in {f, Unassigned} /\ hand[w].trigger # Unassigned
        /\ outcome[f] \in {"queued", "running"} /\ outcome[f] # "queued" /\ f \in {f, Unassigned}
        /\ (task[f] = "dead" => task'[f] = "dead")
        /\ resumed' = resumed /\ halted' = halted /\ verdict' = verdict
    BY <1>f, <1>1, <1>2, <1>3, ExecutionAssumption
  <2> QED
    BY <1>1, <2>1, <2>2, <2>3, <2>4, <2>5, <2>6, <2>7, WorkerStep
<1>6. CASE agent' = [agent EXCEPT ![f] = "failed"] /\ Record(w, "failed") /\ UNCHANGED task
  <2>1. "failed" \in Settled \ {"skipped"}
    BY DEF Settled
  <2> QED
    BY <1>f, <1>1, <1>2, <1>3, <1>6, <2>1, RecordStep
<1> QED
  BY <1>f, <1>5, <1>6 DEF BeginRun

LEMMA RefusedStep ==
  ASSUME ExecutionInv, ExecutionTypeOK', NEW w \in Crew, Refused(w) \/ Awake(w)
  PROVE  ExecutionInv'
<1> DEFINE f == hand[w].trigger
<1>0. ExecutionTypeOK /\ HandHolds(w)
  BY DEF ExecutionInv, HandsHold
<1>1. hand[w].step \in {"start", "sleep"} /\ f \in Triggers /\ outcome[f] = "running"
  BY HasTrigger DEF Refused, Awake, At
<1>2. /\ agent[f] = "none" /\ task[f] = "none"
      /\ agent \in [Triggers -> {"none", "running", "waiting_input", "completed", "failed", "cancelled"}]
  BY <1>0, <1>1 DEF HandHolds, ExecutionTypeOK
<1>3. UNCHANGED <<plan, agent, task, verdict, resumed, guest, halted>>
  BY DEF Refused, Awake, runVars
<1>4. CASE \E step \in {"start", "sleep"} : Proceed(w, step) /\ UNCHANGED outcome
  <2>1. PICK step \in {"start", "sleep"} : Proceed(w, step) /\ UNCHANGED outcome
    BY <1>4
  <2>2. Moves(w, f, step)
    BY <1>0, <2>1, ProceedMoves
  <2> HIDE DEF f
  <2> QED
    BY <1>1, <1>3, <2>1, <2>2, HandMoved DEF f
<1>5. CASE Record(w, "failed")
  <2>1. "failed" \in Settled \ {"skipped"}
    BY DEF Settled
  <2>2. agent' = [agent EXCEPT ![f] = "none"]
    BY <1>2, <1>3
  <2>3. UNCHANGED <<plan, task, verdict, resumed, guest, halted>>
    BY <1>3
  <2> QED
    BY <1>1, <1>2, <1>5, <2>1, <2>2, <2>3, RecordStep
<1> QED
  BY <1>4, <1>5 DEF Refused, Awake

LEMMA TimeOutStep ==
  ASSUME ExecutionInv, ExecutionTypeOK', NEW w \in Crew, TimeOut(w)
  PROVE  ExecutionInv'
<1>1. hand[w].step = "wait" /\ hand[w].trigger \in Triggers /\ task[hand[w].trigger] # "none"
  BY HasTrigger DEF TimeOut, At
<1>2. Moves(w, hand[w].trigger, "wait")
  BY TimeOutMoves DEF ExecutionInv
<1> QED
  BY <1>1, <1>2, HandMoved DEF TimeOut

LEMMA AnsweredStep ==
  ASSUME ExecutionInv, ExecutionTypeOK', NEW w \in Crew, Answered(w)
  PROVE  ExecutionInv'
<1> DEFINE f == hand[w].trigger
           status == IF agent[f] = "completed" THEN "succeeded" ELSE "failed"
<1>1. /\ hand[w].step = "wait" /\ f \in Triggers /\ task[f] = "done" /\ RunIsAccounted(f)
      /\ Record(w, status) /\ UNCHANGED <<plan, agent, task, verdict, resumed, guest, halted>>
  BY HasTrigger DEF Answered, At, runVars
<1>2. status \in Settled \ {"skipped"}
  BY DEF Settled
<1>3. agent' = [agent EXCEPT ![f] = agent[f]]
  BY <1>1 DEF ExecutionInv, ExecutionTypeOK
<1>4. /\ agent[f] = "running" => resumed[f]
      /\ agent[f] \in {"running", "waiting_input"} => Busy(f)
      /\ status = "succeeded" => agent[f] = "completed"
      /\ status # "timed_out"
  BY <1>1 DEF RunIsAccounted, Busy
<1> HIDE DEF status
<1> QED
  BY <1>1, <1>2, <1>3, <1>4, RecordStep

LEMMA InterruptedStep ==
  ASSUME ExecutionInv, ExecutionTypeOK', NEW w \in Crew, Interrupted(w)
  PROVE  ExecutionInv'
<1> DEFINE f == hand[w].trigger
<1>1. hand[w].step = "wait" /\ f \in Triggers /\ task[f] = "dead"
  BY HasTrigger DEF Interrupted, At
<1>2. PICK step \in {"timeout", "cancelled"} : Proceed(w, step)
  BY DEF Interrupted
<1>3. Moves(w, f, step)
  BY <1>2, ProceedMoves DEF ExecutionInv
<1>4. UNCHANGED <<plan, outcome, agent, task, verdict, resumed, guest, halted>>
  BY DEF Interrupted, runVars
<1> HIDE DEF f
<1> QED
  BY <1>1, <1>3, <1>4, HandMoved DEF f

LEMMA AfterTimeoutStep ==
  ASSUME ExecutionInv, ExecutionTypeOK', NEW w \in Crew, AfterTimeout(w)
  PROVE  ExecutionInv'
<1> DEFINE f == hand[w].trigger
           a == CancelledRow(f)
           status == IF a \in {"failed", "cancelled"} THEN "timed_out" ELSE "failed"
<1>1. /\ hand[w].step = "timeout" /\ f \in Triggers
      /\ Record(w, status) /\ UNCHANGED <<plan, task, verdict, resumed, guest, halted>>
      /\ agent' = [agent EXCEPT ![f] = a]
  BY HasTrigger DEF AfterTimeout, At
<1>2. task[f] = "dead"
  BY <1>1 DEF ExecutionInv, HandsHold, HandHolds
<1>3. status \in Settled \ {"skipped"}
  BY DEF Settled
<1>4. a \notin {"running", "waiting_input"} /\ (status = "timed_out" => a \in {"failed", "cancelled"})
      /\ status # "succeeded"
  BY DEF CancelledRow
<1> HIDE DEF status, a
<1> QED
  BY <1>1, <1>2, <1>3, <1>4, RecordStep

LEMMA AfterCancelStep ==
  ASSUME ExecutionInv, ExecutionTypeOK', NEW w \in Crew, AfterCancel(w)
  PROVE  ExecutionInv'
<1> DEFINE f == hand[w].trigger
           a == CancelledRow(f)
<1>1. /\ hand[w].step = "cancelled" /\ f \in Triggers
      /\ UNCHANGED <<plan, task, verdict, resumed, guest, halted>>
      /\ agent' = [agent EXCEPT ![f] = a] /\ outcome' = [outcome EXCEPT ![f] = "cancelled"]
  BY HasTrigger DEF AfterCancel, At
<1>2. task[f] = "dead"
  BY <1>1 DEF ExecutionInv, HandsHold, HandHolds
<1>3. "cancelled" \in Settled \ {"skipped"}
  BY DEF Settled
<1>4. a \notin {"running", "waiting_input"}
  BY DEF CancelledRow
<1>5. Moves(w, Unassigned, "gone")
  BY GoneMoves DEF ExecutionInv
<1>6. PICK g \in Triggers : g = f
  BY <1>1
<1> HIDE DEF f, a
<1> QED
  BY <1>1, <1>2, <1>3, <1>4, <1>5, <1>6, Settles DEF f

\* An action of the run of one trigger is sound when it is sound for that trigger, begins no
\* run and leaves the hand that waits for it its reason to wait.
LEMMA RunStep ==
  ASSUME ExecutionInv, ExecutionTypeOK', NEW f \in Triggers,
         UNCHANGED <<plan, outcome, hand, guest, halted>>,
         \A g \in Triggers \ {f} :
           agent'[g] = agent[g] /\ task'[g] = task[g] /\ verdict'[g] = verdict[g] /\ resumed'[g] = resumed[g],
         task[f] # "none" \/ agent[f] = "waiting_input", task'[f] # "none", task[f] = "dead" => task'[f] = "dead",
         Busy(f)' => Busy(f), Recorded(f)', RunIsAccounted(f)'
  PROVE  ExecutionInv'
<1>0. /\ ExecutionTypeOK /\ HandsHold /\ SessionHasOneRun
      /\ \A g \in Triggers : RunIsAccounted(g) /\ Recorded(g) /\ InHand(g)
      /\ \A v \in Crew : LeftWithReason(v)
  BY PartsRecorded DEF ExecutionInv
<1>1. task[f] # "none"
  BY <1>0 DEF RunIsAccounted
<1>2. HandsHold'
  <2> SUFFICES ASSUME NEW v \in Crew PROVE HandHolds(v)'
    BY DEF HandsHold
  <2>1. HandHolds(v) /\ hand[v].trigger \in Triggers \cup {Unassigned}
    BY <1>0 DEF HandsHold, ExecutionTypeOK
  <2>2. CASE hand[v].trigger = f
    BY <1>1, <2>1, <2>2 DEF HandHolds
  <2>3. CASE hand[v].trigger \in Triggers \ {f}
    BY <2>1, <2>3 DEF HandHolds
  <2>4. CASE hand[v].trigger = Unassigned
    BY <2>1, <2>4 DEF HandHolds
  <2> QED
    BY <2>1, <2>2, <2>3, <2>4
<1>3. ASSUME NEW g \in Triggers PROVE Recorded(g)' /\ RunIsAccounted(g)' /\ InHand(g)'
  <2>1. CASE g = f
    BY <1>0, <2>1 DEF InHand
  <2>2. CASE g # f
    BY <1>0, <2>2 DEF InHand, Recorded, RunIsAccounted, Running
  <2> QED
    BY <2>1, <2>2
<1>4. ASSUME NEW v \in Crew PROVE LeftWithReason(v)'
  <2> SUFFICES ASSUME At(v, "gone")', ~halted
               PROVE  \E g \in Triggers : task'[g] = "dead" /\ outcome'[g] = "cancelled"
    BY DEF LeftWithReason
  <2>1. PICK g \in Triggers : task[g] = "dead" /\ outcome[g] = "cancelled"
    BY <1>0 DEF LeftWithReason, At
  <2> QED
    BY <2>1
<1>5. SessionHasOneRun'
  <2>1. ASSUME NEW g \in Triggers PROVE Busy(g)' => Busy(g)
    <3>1. CASE g = f
      BY <3>1
    <3>2. CASE g # f
      BY <3>2 DEF Busy
    <3> QED
      BY <3>1, <3>2
  <2> QED
    BY <1>0, <2>1, NoNewRun
<1>6. ExecutionIsRecorded'
  BY <1>3, <1>4, <1>5
     DEF SessionHasOneRun, Recorded, InHand, LeftWithReason, ExecutionIsRecorded, Running, Busy
<1> QED
  BY <1>2, <1>3, <1>5, <1>6 DEF ExecutionInv

LEMMA DriverStep ==
  ASSUME ExecutionInv, ExecutionTypeOK', NEW f \in Triggers,
         EndTurn(f) \/ CleanUp(f) \/ Die(f) \/ Strike(f)
  PROVE  ExecutionInv'
<1>0. ExecutionTypeOK /\ RunIsAccounted(f) /\ Recorded(f)
  BY PartsRecorded DEF ExecutionInv
<1>1. /\ task[f] \in {"turn", "cleanup"} /\ outcome[f] = "running" /\ agent[f] = "running" /\ ~resumed[f]
      /\ UNCHANGED <<plan, outcome, hand, guest, halted, resumed>>
  BY <1>0 DEF EndTurn, CleanUp, Die, Strike, RunIsAccounted
<1>2. \A g \in Triggers \ {f} : agent'[g] = agent[g] /\ task'[g] = task[g] /\ verdict'[g] = verdict[g]
  BY <1>0 DEF EndTurn, CleanUp, Die, Strike, ExecutionTypeOK
<1>3. Busy(f) /\ outcome'[f] = "running" /\ ~resumed'[f]
  BY <1>1 DEF Busy
<1>4. CASE EndTurn(f)
  <2>1. task'[f] = "cleanup" /\ agent'[f] = "running" /\ verdict'[f] # "none"
    BY <1>0, <1>1, <1>4 DEF EndTurn, ExecutionTypeOK
  <2>2. Recorded(f)' /\ RunIsAccounted(f)'
    BY <1>3, <2>1 DEF Recorded, RunIsAccounted, Settled
  <2> QED
    BY <1>1, <1>2, <1>3, <2>1, <2>2, RunStep
<1>5. CASE CleanUp(f)
  <2>1. task'[f] = "done" /\ agent'[f] \notin {"none", "running"}
    BY <1>0, <1>1, <1>5 DEF CleanUp, ExecutionTypeOK, RunIsAccounted
  <2>2. Recorded(f)' /\ RunIsAccounted(f)'
    BY <1>3, <2>1 DEF Recorded, RunIsAccounted, Settled
  <2> QED
    BY <1>1, <1>2, <1>3, <2>1, <2>2, RunStep
<1>6. CASE Die(f)
  <2>1. task'[f] = "dead"
    BY <1>0, <1>1, <1>6 DEF Die, ExecutionTypeOK
  <2>2. Recorded(f)' /\ RunIsAccounted(f)'
    BY <1>3, <2>1 DEF Recorded, RunIsAccounted, Settled
  <2> QED
    BY <1>1, <1>2, <1>3, <2>1, <2>2, RunStep
<1>7. CASE Strike(f)
  <2>1. UNCHANGED <<agent, task, verdict>>
    BY <1>7 DEF Strike
  <2>2. Recorded(f)' /\ RunIsAccounted(f)'
    BY <1>0, <1>1, <2>1 DEF Recorded, RunIsAccounted, Running
  <2> QED
    BY <1>1, <1>2, <1>3, <2>1, <2>2, RunStep
<1> QED
  BY <1>4, <1>5, <1>6, <1>7

LEMMA AnswerStep ==
  ASSUME ExecutionInv, ExecutionTypeOK', NEW f \in Triggers,
         Resume(f) \/ EndResumed(f) \/ Withdraw(f)
  PROVE  ExecutionInv'
<1>0. ExecutionTypeOK /\ RunIsAccounted(f) /\ Recorded(f)
  BY PartsRecorded DEF ExecutionInv
<1>1. /\ task[f] \in {"done", "dead"} /\ agent[f] \in {"running", "waiting_input"} /\ Busy(f)
      /\ UNCHANGED <<plan, outcome, hand, guest, halted, task, verdict>>
  BY <1>0 DEF Resume, EndResumed, Withdraw, RunIsAccounted, Busy, ExecutionTypeOK
<1>2. \A g \in Triggers \ {f} : agent'[g] = agent[g] /\ resumed'[g] = resumed[g]
  BY <1>0 DEF Resume, EndResumed, Withdraw, ExecutionTypeOK
<1>3. agent'[f] = "running" => resumed'[f]
  BY <1>0 DEF Resume, EndResumed, Withdraw, ExecutionTypeOK
<1>4. outcome[f] \notin {"succeeded", "skipped", "timed_out", "queued"}
  BY <1>0, <1>1 DEF Recorded, RunIsAccounted
<1>5. Recorded(f)' /\ RunIsAccounted(f)'
  BY <1>0, <1>1, <1>3, <1>4 DEF Recorded, RunIsAccounted, Settled, Running
<1> QED
  BY <1>1, <1>2, <1>5, RunStep

LEMMA HaltStep ==
  ASSUME ExecutionInv, ExecutionTypeOK', Halt
  PROVE  ExecutionInv'
<1>0. /\ ExecutionTypeOK /\ HandsHold /\ SessionHasOneRun
      /\ \A g \in Triggers : RunIsAccounted(g) /\ Recorded(g) /\ InHand(g)
  BY PartsRecorded DEF ExecutionInv
<1>1. UNCHANGED <<plan, agent, task, verdict, resumed, guest>> /\ halted' = TRUE
  BY DEF Halt
<1>2. ASSUME NEW v \in Crew
      PROVE  /\ hand[v].step \in {"wait", "timeout", "cancelled"} => hand'[v] = hand[v]
             /\ hand[v].step \notin {"wait", "timeout", "cancelled"} =>
                  hand'[v].trigger = Unassigned /\ hand'[v].step = "gone"
  <2>1. hand[v].step \in {"idle", "start", "sleep", "wait", "timeout", "cancelled", "gone"}
    BY <1>0 DEF ExecutionTypeOK
  <2>2. hand'[v] = IF hand[v].step \in {"idle", "start", "sleep"} THEN Hand(Unassigned, "gone") ELSE hand[v]
    BY DEF Halt
  <2>3. hand[v].step = "gone" => hand[v].trigger = Unassigned
    BY <1>0 DEF HandsHold, HandHolds
  <2> QED
    BY <2>1, <2>2, <2>3 DEF Hand
<1>3. ASSUME NEW f \in Triggers
      PROVE  \/ outcome'[f] = outcome[f] /\ ~ \E w \in Crew : hand[w].trigger = f /\ hand[w].step \in {"start", "sleep"}
             \/ /\ outcome'[f] = "cancelled"
                /\ \E w \in Crew : hand[w].trigger = f /\ hand[w].step \in {"start", "sleep"}
  BY DEF Halt
<1>4. HandsHold'
  <2> SUFFICES ASSUME NEW v \in Crew PROVE HandHolds(v)'
    BY DEF HandsHold
  <2>1. CASE hand[v].step \notin {"wait", "timeout", "cancelled"}
    BY <1>2, <2>1 DEF HandHolds
  <2>2. CASE hand[v].step \in {"wait", "timeout", "cancelled"}
    <3>1. PICK f \in Triggers : f = hand[v].trigger
      BY <2>2, HasTrigger
    <3>2. outcome[f] = "running" /\ \A u \in Crew \ {v} : hand[u].trigger # f
      BY <2>2, <3>1, HasTrigger
    <3>3. outcome'[f] = "running"
      BY <1>3, <2>2, <3>1, <3>2
    <3>4. \A u \in Crew \ {v} : hand'[u].trigger # f
      BY <1>2, <3>2, ExecutionAssumption
    <3>5. hand'[v] = hand[v] /\ HandHolds(v)
      BY <1>0, <1>2, <2>2 DEF HandsHold
    <3> QED
      BY <1>1, <2>2, <3>1, <3>3, <3>4, <3>5, ExecutionAssumption DEF HandHolds
  <2> QED
    BY <2>1, <2>2
<1>5. ASSUME NEW f \in Triggers PROVE Recorded(f)' /\ RunIsAccounted(f)' /\ InHand(f)'
  <2>1. CASE outcome'[f] = outcome[f] /\ ~ \E w \in Crew : hand[w].trigger = f /\ hand[w].step \in {"start", "sleep"}
    <3>1. Recorded(f)' /\ RunIsAccounted(f)'
      BY <1>0, <1>1, <2>1 DEF Recorded, RunIsAccounted, Running
    <3>2. InHand(f)'
      <4> SUFFICES ASSUME outcome[f] = "running" PROVE \E w \in Crew : hand'[w].trigger = f
        BY <2>1 DEF InHand
      <4>1. PICK w \in Crew : hand[w].trigger = f
        BY <1>0 DEF InHand
      <4>2. hand[w].step \in {"wait", "timeout", "cancelled"}
        BY <1>0, <2>1, <4>1, ExecutionAssumption DEF HandsHold, HandHolds, ExecutionTypeOK
      <4> QED
        BY <1>2, <4>1, <4>2
    <3> QED
      BY <3>1, <3>2
  <2>2. CASE /\ outcome'[f] = "cancelled"
             /\ \E w \in Crew : hand[w].trigger = f /\ hand[w].step \in {"start", "sleep"}
    <3>1. agent[f] = "none" /\ task[f] = "none"
      BY <1>0, <2>2 DEF HandsHold, HandHolds
    <3> QED
      BY <1>0, <1>1, <2>2, <3>1 DEF Recorded, RunIsAccounted, Running, InHand
  <2> QED
    BY <1>3, <2>1, <2>2
<1>6. SessionHasOneRun'
  BY <1>0, <1>1, NoNewRun DEF Busy
<1>7. ExecutionIsRecorded'
  BY <1>1, <1>5, <1>6
     DEF SessionHasOneRun, Recorded, InHand, ExecutionIsRecorded, Running, Busy
<1> QED
  BY <1>4, <1>5, <1>6, <1>7 DEF ExecutionInv

LEMMA VisitStep ==
  ASSUME ExecutionInv, ExecutionTypeOK', Visit
  PROVE  ExecutionInv'
<1>0. /\ ExecutionTypeOK /\ HandsHold /\ SessionHasOneRun
      /\ \A g \in Triggers : RunIsAccounted(g) /\ Recorded(g) /\ InHand(g)
      /\ \A v \in Crew : LeftWithReason(v)
  BY PartsRecorded DEF ExecutionInv
<1>1. UNCHANGED <<plan, outcome, hand, agent, task, verdict, resumed, halted>>
  BY DEF Visit, runVars
<1>2. SessionHasOneRun'
  BY <1>0, <1>1 DEF Visit, SessionHasOneRun, Busy, Occupied, Shared
<1>3. HandsHold' /\ \A f \in Triggers : Recorded(f)' /\ RunIsAccounted(f)' /\ InHand(f)'
  BY <1>0, <1>1 DEF HandsHold, HandHolds, Recorded, RunIsAccounted, InHand, Running
<1>4. \A v \in Crew : LeftWithReason(v)'
  BY <1>0, <1>1 DEF LeftWithReason, At
<1>5. ExecutionIsRecorded'
  BY <1>2, <1>3, <1>4
     DEF SessionHasOneRun, Recorded, InHand, LeftWithReason, ExecutionIsRecorded, Running, Busy
<1> QED
  BY <1>2, <1>3, <1>5 DEF ExecutionInv

LEMMA ExecutionStutter == ExecutionInv /\ UNCHANGED executionVars => ExecutionInv'
<1> SUFFICES ASSUME ExecutionInv, UNCHANGED executionVars PROVE ExecutionInv'
  OBVIOUS
<1> USE DEF executionVars
<1>1. ExecutionTypeOK'
  BY DEF ExecutionInv, ExecutionTypeOK
<1>2. ExecutionIsRecorded'
  BY DEF ExecutionInv, ExecutionIsRecorded, Running, Shared, At
<1>3. HandsHold' /\ SessionHasOneRun' /\ \A f \in Triggers : RunIsAccounted(f)'
  BY DEF ExecutionInv, HandsHold, HandHolds, SessionHasOneRun, RunIsAccounted, Busy, Shared
<1> QED
  BY <1>1, <1>2, <1>3 DEF ExecutionInv

LEMMA ExecutionInvStep == ExecutionInv /\ [ExecutionNext]_executionVars => ExecutionInv'
<1> SUFFICES ASSUME ExecutionInv, ExecutionNext PROVE ExecutionInv'
  BY ExecutionStutter
<1>0. ExecutionTypeOK /\ HandsHold
  BY DEF ExecutionInv
<1>1. ASSUME NEW w \in Crew, NEW f \in Triggers, Take(w, f) PROVE ExecutionInv'
  BY <1>0, <1>1, ExecutionTypeWorker, TakeStep
<1>2. ASSUME NEW w \in Crew,
             BeginRun(w) \/ Refused(w) \/ Awake(w) \/ TimeOut(w) \/ Answered(w)
             \/ Interrupted(w) \/ AfterTimeout(w) \/ AfterCancel(w)
      PROVE  ExecutionInv'
  <2>1. ExecutionTypeOK'
    BY <1>0, <1>2, ExecutionTypeWorker
  <2> QED
    BY <1>2, <2>1, BeginRunStep, RefusedStep, TimeOutStep, AnsweredStep, InterruptedStep,
       AfterTimeoutStep, AfterCancelStep
<1>3. ASSUME NEW f \in Triggers,
             EndTurn(f) \/ CleanUp(f) \/ Die(f) \/ Strike(f) \/ Resume(f) \/ EndResumed(f) \/ Withdraw(f)
      PROVE  ExecutionInv'
  <2>1. ExecutionTypeOK'
    BY <1>0, <1>3, ExecutionTypeRun
  <2> QED
    BY <1>3, <2>1, DriverStep, AnswerStep
<1>4. CASE Halt
  BY <1>0, <1>4, ExecutionTypeGlobal, HaltStep
<1>5. CASE Visit
  BY <1>0, <1>5, ExecutionTypeGlobal, VisitStep
<1> QED
  BY <1>1, <1>2, <1>3, <1>4, <1>5 DEF ExecutionNext

LEMMA ExecutionInvAlways == ExecutionSpec => []ExecutionInv
  BY ExecutionStart, ExecutionInvStep, PTL DEF ExecutionSpec

\* The history of a task says what happened: by status, by run and by worker (execute,
\* finish_schedule_run, _start_with_policy).
THEOREM HistoryIsWhatHappened == ExecutionSpec => []ExecutionIsRecorded
<1>1. ExecutionInv => ExecutionIsRecorded
  BY DEF ExecutionInv
<1> QED
  BY <1>1, ExecutionInvAlways, PTL

-----------------------------------------------------------------------------
(* Recurrence                                                                *)

LEMMA MinLeast ==
  ASSUME NEW T, T \subseteq Nat, T # {}
  PROVE  Min(T) \in T /\ \A k \in T : Min(T) <= k
BY NatLeast DEF Min

LEMMA Division ==
  ASSUME NEW a \in Int, NEW d \in Nat \ {0}
  PROVE  /\ a \div d \in Int /\ a % d \in 0..(d-1)
         /\ a = d * (a \div d) + (a % d)
BY SMT
LEMMA DivisionIsUnique ==
  ASSUME NEW a \in Int, NEW d \in Nat \ {0}, NEW q \in Int, NEW r \in 0..(d-1), a = d*q + r
  PROVE  q = a \div d /\ r = a % d
BY SMT
LEMMA Grows ==
  ASSUME NEW q \in Int, NEW p \in Int, NEW d \in Nat \ {0}, q < p
  PROVE  d * q + d <= d * p
BY SMT

LEMMA Units ==
  /\ Minute = 2 /\ Hour \in Nat \ {0} /\ Day \in Nat \ {0} /\ Hour = 2 * MinutesPerHour
  /\ Day = Hour * HoursPerDay /\ Hour >= 2 /\ Hour <= Day
  /\ ChangeAt \in Nat /\ ChangeAt = Hour * (ChangeAt \div Hour) /\ ChangeAt \div Hour \in Int
  /\ ChangeAt % 2 = 0
<1>1. Hour \in Nat \ {0} /\ Hour = 2 * MinutesPerHour /\ Minute = 2 /\ Hour >= 2
  BY RecurrenceAssumption DEF Hour, Minute
<1>2. Day = Hour * HoursPerDay /\ HoursPerDay \in Nat \ {0}
  BY RecurrenceAssumption DEF Day
<1>3. Day \in Nat \ {0} /\ Hour <= Day
  BY <1>1, <1>2
<1>4. ChangeAt \in Nat /\ ChangeAt = Hour * (ChangeAt \div Hour) /\ ChangeAt \div Hour \in Int
  <2>1. ChangeAt \in Nat /\ ChangeAt % Hour = 0
    BY RecurrenceAssumption
  <2>2. /\ ChangeAt = Hour * (ChangeAt \div Hour) + (ChangeAt % Hour)
        /\ ChangeAt \div Hour \in Int
    <3>1. ChangeAt \in Int /\ Hour \in Nat \ {0}
      BY <1>1, <2>1
    <3> QED BY <3>1, Division, Zenon
  <2>3. Hour * (ChangeAt \div Hour) \in Int
    BY <1>1, <2>2
  <2> HIDE DEF Hour
  <2> QED BY <2>1, <2>2, <2>3
<1>5. ChangeAt % 2 = 0
  <2> DEFINE c == ChangeAt \div Hour
  <2>1. ChangeAt = 2 * (MinutesPerHour * c) + 0 /\ MinutesPerHour * c \in Int
    <3> HIDE DEF c
    <3>1. ChangeAt = Hour * c /\ c \in Int
      BY <1>4 DEF c
    <3>2. MinutesPerHour \in Nat
      BY RecurrenceAssumption
    <3> QED BY <3>1, <3>2, <1>1
  <2> QED BY <2>1, DivisionIsUnique, <1>4
<1> QED BY <1>1, <1>2, <1>3, <1>4, <1>5

LEMMA LocalTypes ==
  ASSUME NEW i \in Int
  PROVE  Local(i) \in [wall : Int, fold : {0, 1}]
BY Units DEF Local

\* The local clock shows a later time after the one it shows before, but for the second pass.
LEMMA LaterIsLater ==
  ASSUME NEW i \in Int, NEW a \in Int, a < i, ~SecondPass(i)
  PROVE  Local(a).wall < Local(i).wall
BY Units DEF Local, SecondPass

\* An instant is found by its wall time, unless the clock shows it twice.
LEMMA FoundByWall ==
  ASSUME NEW i \in Int, ~SecondPass(i)
  PROVE  i = Instant([wall |-> Local(i).wall, fold |-> 0])
BY Units DEF Local, SecondPass, Instant

\* A wall time by its day, hour and minute.
LEMMA WallByParts ==
  ASSUME NEW q \in Int, NEW h \in 0 .. HoursPerDay - 1, NEW m \in 0 .. MinutesPerHour - 1,
         NEW u, u = Day * q + (h * Hour + m * Minute)
  PROVE  /\ u \in Int /\ u % 2 = 0 /\ u \div Day = q
         /\ h * Hour + m * Minute \in 0 .. Day - 1
         /\ HourOf(u) = h /\ MinuteOf(u) = m
<1>1. MinutesPerHour \in Nat \ {0} /\ HoursPerDay \in Nat \ {0}
  BY RecurrenceAssumption
<1>2. m * Minute \in 0 .. Hour - 1 /\ h * Hour \in Int /\ Day * q \in Int
  BY <1>1, Units
<1>3. h * Hour + m * Minute \in 0 .. Day - 1
  <2>1. Hour * h + Hour <= Hour * HoursPerDay
    BY <1>1, Units, Grows
  <2> QED BY <1>2, <2>1, <1>1, Units
<1>4. u \in Int /\ u \div Day = q
  <2> DEFINE r == h * Hour + m * Minute
  <2>1. r \in 0 .. Day - 1 /\ u = Day * q + r
    BY <1>3
  <2> HIDE DEF r
  <2>2. u \in Int
    BY <1>2, <2>1, Units
  <2>3. Day \in Nat \ {0}
    BY Units
  <2>4. q = u \div Day
    BY <2>1, <2>2, <2>3, DivisionIsUnique, ZenonT(30)
  <2> QED BY <2>2, <2>4
<1>5. HourOf(u) = h
  <2>1. HoursPerDay * q + h \in Int /\ u = Hour * (HoursPerDay * q + h) + m * Minute
    BY <1>1, <1>2, Units
  <2>2. u \div Hour = HoursPerDay * q + h
    <3> DEFINE b == HoursPerDay * q + h
               r == m * Minute
    <3>1. b \in Int /\ r \in 0 .. Hour - 1 /\ u = Hour * b + r
      BY <1>2, <2>1
    <3> HIDE DEF b, r
    <3>2. u \div Hour = b
      <4>1. Hour \in Nat \ {0} /\ u \in Int
        BY <1>4, Units
      <4>2. b = u \div Hour
        BY <3>1, <4>1, DivisionIsUnique, ZenonT(30)
      <4> QED BY <4>2
    <3> QED BY <3>2 DEF b
  <2>3. h = (HoursPerDay * q + h) % HoursPerDay
    BY <1>1, <2>1, DivisionIsUnique
  <2> QED BY <2>2, <2>3 DEF HourOf
<1>6. u % 2 = 0 /\ MinuteOf(u) = m
  <2> DEFINE b == HoursPerDay * q + h
  <2>1. b \in Int /\ u = 2 * (MinutesPerHour * b + m) + 0 /\ MinutesPerHour * b + m \in Int
    BY <1>1, <1>2, Units
  <2>2. u \div 2 = MinutesPerHour * b + m /\ u % 2 = 0
    <3> HIDE DEF b
    <3> QED BY <1>4, <2>1, DivisionIsUnique
  <2>3. m = (MinutesPerHour * b + m) % MinutesPerHour
    <3> HIDE DEF b
    <3> QED BY <1>1, <2>1, DivisionIsUnique
  <2> QED BY <2>2, <2>3, Units DEF MinuteOf
<1> QED BY <1>3, <1>4, <1>5, <1>6

LEMMA PartsOfWall ==
  ASSUME NEW u \in Int, u % 2 = 0
  PROVE  /\ u \div Day \in Int
         /\ HourOf(u) \in 0 .. HoursPerDay - 1 /\ MinuteOf(u) \in 0 .. MinutesPerHour - 1
         /\ u = Day * (u \div Day) + (HourOf(u) * Hour + MinuteOf(u) * Minute)
<1>1. MinutesPerHour \in Nat \ {0} /\ HoursPerDay \in Nat \ {0}
  BY RecurrenceAssumption
<1> DEFINE a == u \div 2
           b == a \div MinutesPerHour
           q == b \div HoursPerDay
           h == b % HoursPerDay
           m == a % MinutesPerHour
<1>2. a \in Int /\ u = 2 * a
  BY Division
<1>3. b \in Int /\ m \in 0 .. MinutesPerHour - 1 /\ a = MinutesPerHour * b + m
  <2> HIDE DEF a
  <2> QED BY <1>1, <1>2, Division
<1>4. q \in Int /\ h \in 0 .. HoursPerDay - 1 /\ b = HoursPerDay * q + h
  <2> HIDE DEF b
  <2> QED BY <1>1, <1>3, Division
<1>5. u \div Hour = b
  <2> HIDE DEF a, b, m
  <2>1. u = Hour * b + 2 * m /\ 2 * m \in 0 .. Hour - 1
    BY <1>1, <1>2, <1>3, Units
  <2> QED BY <1>3, <2>1, Units, DivisionIsUnique
<1>6. u = Day * q + (h * Hour + m * Minute)
  <2> HIDE DEF a, b, q, h, m
  <2>1. u = (2 * MinutesPerHour) * (HoursPerDay * q + h) + 2 * m
    BY <1>1, <1>2, <1>3, <1>4
  <2>2. (2 * MinutesPerHour) * (HoursPerDay * q + h) = Day * q + h * Hour
    BY <1>1, <1>4, Units
  <2> QED BY <2>1, <2>2, <1>3, <1>4, Units
<1>7. HourOf(u) = h /\ MinuteOf(u) = m
  <2>1. HourOf(u) = b % HoursPerDay
    BY <1>5 DEF HourOf
  <2> QED BY <2>1, Units DEF MinuteOf
<1>8. u \div Day = q
  <2> HIDE DEF h, m, q
  <2> QED BY <1>3, <1>4, <1>6, WallByParts
<1> QED
  <2> HIDE DEF a, b, q, h, m
  <2> QED BY <1>3, <1>4, <1>6, <1>7, <1>8

\* What was answered, as Advance leaves it.
AnswerFollows == asked # Never => asked \in Int /\ cursor = NextOccurrence(rule, asked)

LEMMA IntervalIsExact ==
  ASSUME rule \in Rules, rule.type = "interval", asked \in Int, cursor = NextOccurrence(rule, asked)
  PROVE  cursor \in Int /\ RecurrenceIsExact
<1>1. rule.every \in Nat \ {0} /\ rule.anchor \in Int \cup {Never} /\ Never \notin Int
  BY RuleAssumption, RecurrenceAssumption
<1>2. cursor = NextInterval(rule, asked)
  BY DEF NextOccurrence
<1>3. CASE rule.anchor = Never
  <2>1. cursor = asked + rule.every /\ \A i : Due(rule, i) <=> i = asked + rule.every
    BY <1>2, <1>3 DEF NextInterval, Due
  <2>2. cursor \in Int /\ cursor > asked /\ Due(rule, cursor)
    BY <1>1, <2>1
  <2>3. \A i \in asked + 1 .. cursor - 1 : ~Due(rule, i)
    BY <1>1, <2>1
  <2> QED BY <1>1, <2>2, <2>3 DEF RecurrenceIsExact
<1>4. CASE rule.anchor # Never
  <2> DEFINE e == rule.every
             a == rule.anchor
             past == (asked - a) \div e
             k == IF asked > a THEN past + 1 ELSE 1
  <2>0. e \in Nat \ {0} /\ a \in Int
    BY <1>1, <1>4
  <2>1. cursor = a + e * k /\ \A i : Due(rule, i) <=> i > a /\ (i - a) % e = 0
    BY <1>2, <1>4 DEF NextInterval, Due
  <2> HIDE DEF e, a
  <2>2. past \in Int /\ asked - a < e * (past + 1) /\ e * past <= asked - a
    <3>1. asked - a \in Int
      BY <2>0
    <3>2. past \in Int /\ asked - a = e * past + ((asked - a) % e) /\ (asked - a) % e \in 0 .. e - 1
      BY <2>0, <3>1, Division, Zenon
    <3> HIDE DEF past
    <3>3. e * past \in Int /\ e * (past + 1) = e * past + e
      BY <2>0, <3>2
    <3> QED BY <2>0, <3>2, <3>3
  <2> HIDE DEF past
  <2>3. k \in Int /\ k >= 1 /\ e * k \in Int /\ e * k >= e
    <3>1. k \in Int /\ k >= 1
      <4>1. asked > a => past >= 0
        <5>1. ASSUME asked > a, past < 0 PROVE FALSE
          <6>1. e * (past + 1) <= 0
            BY <2>0, <2>2, <5>1
          <6> QED BY <2>0, <2>2, <5>1, <6>1
        <5> QED BY <5>1, <2>2
      <4> QED BY <2>2, <4>1
    <3> HIDE DEF k
    <3> QED BY <3>1, <2>0
  <2>4. cursor \in Int /\ cursor > a /\ cursor > asked
    BY <2>0, <2>1, <2>2, <2>3
  <2>5. Due(rule, cursor)
    <3>1. (cursor - a) % e = 0
      <4>1. cursor - a = e * k + 0 /\ cursor - a \in Int
        BY <2>0, <2>1, <2>3
      <4>2. 0 \in 0 .. e - 1
        BY <2>0
      <4> HIDE DEF k
      <4> QED BY <4>1, <4>2, <2>0, <2>3, DivisionIsUnique, Zenon
    <3> QED BY <2>1, <2>4, <3>1
  <2>6. ASSUME NEW i \in asked + 1 .. cursor - 1, Due(rule, i) PROVE FALSE
    <3> DEFINE q == (i - a) \div e
    <3>1. i \in Int /\ i > a /\ (i - a) % e = 0 /\ i < a + e * k
      BY <2>1, <2>4, <2>6
    <3>2. q \in Int /\ i - a = e * q
      <4>1. i - a \in Int
        BY <2>0, <3>1
      <4>2. q \in Int /\ i - a = e * q + ((i - a) % e)
        BY <2>0, <4>1, Division, Zenon
      <4> HIDE DEF q
      <4> QED BY <2>0, <3>1, <4>2
    <3> HIDE DEF q, k
    <3>3. q < k
      <4>1. ASSUME k <= q PROVE FALSE
        <5>1. e * k <= e * q
          BY <4>1, <2>0, <2>3, <3>2
        <5> QED BY <5>1, <2>0, <2>3, <3>1, <3>2
      <4> QED BY <4>1, <2>3, <3>2
    <3>4. q >= 1
      <4>1. ASSUME q <= 0 PROVE FALSE
        <5>1. e * q <= 0
          BY <4>1, <2>0, <3>2
        <5> QED BY <5>1, <2>0, <3>1, <3>2
      <4> QED BY <4>1, <3>2
    <3>5. asked > a /\ k = past + 1
      BY <3>2, <3>3, <3>4, <2>0 DEF k
    <3>6. e * q <= e * past
      BY <3>2, <3>3, <3>5, <2>0, <2>2
    <3> QED BY <3>2, <3>6, <2>2, <2>0, <2>6
  <2> QED BY <1>1, <2>4, <2>5, <2>6 DEF RecurrenceIsExact
<1> QED BY <1>3, <1>4

\* Of an hour the date is the same everywhere, and the minute counts within it.
LEMMA WithinAnHour ==
  ASSUME NEW v \in Int, NEW u \in Int, u \div Hour = v \div Hour
  PROVE  /\ HourOf(u) = HourOf(v) /\ MonthDay(u) = MonthDay(v)
         /\ MonthOf(u) = MonthOf(v) /\ Weekday(u) = Weekday(v)
<1>1. MinutesPerHour \in Nat \ {0} /\ HoursPerDay \in Nat \ {0} /\ DaysPerMonth \in Nat \ {0}
  BY RecurrenceAssumption
<1>2. ASSUME NEW w \in Int PROVE w \div Day = (w \div Hour) \div HoursPerDay
  <2> DEFINE b == w \div Hour
             q == b \div HoursPerDay
             h == b % HoursPerDay
             s == w % Hour
  <2>1. b \in Int /\ w = Hour * b + s /\ s \in 0 .. Hour - 1
    <3>1. Hour \in Nat \ {0}
      BY Units
    <3> QED BY <3>1, Division, Zenon
  <2>2. q \in Int /\ h \in 0 .. HoursPerDay - 1 /\ b = HoursPerDay * q + h
    <3> HIDE DEF b
    <3> QED BY <1>1, <2>1, Division, Zenon
  <2> HIDE DEF b, q, h, s
  <2>3. w = Day * q + (Hour * h + s)
    BY <1>1, <2>1, <2>2, Units
  <2>4. Hour * h + s \in 0 .. Day - 1
    <3>1. Hour * h + Hour <= Hour * HoursPerDay
      BY <1>1, <2>2, Units, Grows
    <3>2. Hour * h \in Int /\ Hour * h >= 0
      BY <2>2, Units
    <3> QED BY <3>1, <3>2, <2>1, <2>2, Units
  <2>5. Day \in Nat \ {0}
    BY Units
  <2>6. w \div Day = q
    BY <2>2, <2>3, <2>4, <2>5, DivisionIsUnique, Zenon
  <2> QED BY <2>6 DEF b, q
<1>3. u \div Day = v \div Day
  BY <1>2
<1>4. ASSUME NEW w \in Int PROVE w \div (Day * DaysPerMonth) = (w \div Day) \div DaysPerMonth
  <2> DEFINE b == w \div Day
             q == b \div DaysPerMonth
             h == b % DaysPerMonth
             s == w % Day
  <2>1. b \in Int /\ w = Day * b + s /\ s \in 0 .. Day - 1
    <3>1. Day \in Nat \ {0}
      BY Units
    <3> QED BY <3>1, Division, Zenon
  <2>2. q \in Int /\ h \in 0 .. DaysPerMonth - 1 /\ b = DaysPerMonth * q + h
    <3> HIDE DEF b
    <3> QED BY <1>1, <2>1, Division, Zenon
  <2> HIDE DEF b, q, h, s
  <2>3. w = (Day * DaysPerMonth) * q + (Day * h + s)
    BY <1>1, <2>1, <2>2, Units
  <2>4. Day * h + s \in 0 .. (Day * DaysPerMonth) - 1
    <3>1. Day * h + Day <= Day * DaysPerMonth
      BY <1>1, <2>2, Units, Grows
    <3>2. Day * h \in Int /\ Day * h >= 0
      BY <2>2, Units
    <3>3. Day \in Int /\ Day * DaysPerMonth \in Int
      BY <1>1, Units
    <3> QED BY <3>1, <3>2, <3>3, <2>1
  <2>5. Day * DaysPerMonth \in Nat \ {0}
    BY <1>1, Units
  <2>6. w \div (Day * DaysPerMonth) = q
    BY <2>2, <2>3, <2>4, <2>5, DivisionIsUnique, Zenon
  <2> QED BY <2>6 DEF b, q
<1> QED
  BY <1>3, <1>4 DEF HourOf, MonthDay, MonthOf, Weekday

\* An hour earlier it is the same minute.
LEMMA HourEarlier ==
  ASSUME NEW u \in Int, u % 2 = 0
  PROVE  MinuteOf(u - Hour) = MinuteOf(u) /\ (u - Hour) % 2 = 0 /\ u - Hour \in Int
<1> DEFINE a == u \div 2
           b == a \div MinutesPerHour
           m == a % MinutesPerHour
<1>1. MinutesPerHour \in Nat \ {0}
  BY RecurrenceAssumption
<1>2. a \in Int /\ u = 2 * a
  BY Division
<1>3. b \in Int /\ m \in 0 .. MinutesPerHour - 1 /\ a = MinutesPerHour * b + m
  <2> HIDE DEF a
  <2> QED BY <1>1, <1>2, Division, Zenon
<1>4. m = MinuteOf(u)
  BY Units DEF MinuteOf
<1> HIDE DEF a, b, m
<1>5. u - Hour = 2 * (MinutesPerHour * (b - 1) + m) + 0 /\ u - Hour \in Int
  BY <1>1, <1>2, <1>3, Units
<1>6. (u - Hour) % 2 = 0 /\ (u - Hour) \div 2 = MinutesPerHour * (b - 1) + m
  <2> DEFINE c == MinutesPerHour * (b - 1) + m
  <2>1. c \in Int /\ u - Hour = 2 * c + 0 /\ 0 \in 0 .. 2 - 1 /\ 2 \in Nat \ {0}
    BY <1>1, <1>3, <1>5
  <2> HIDE DEF c
  <2>2. c = (u - Hour) \div 2 /\ 0 = (u - Hour) % 2
    BY <1>5, <2>1, DivisionIsUnique
  <2> QED BY <2>2 DEF c
<1>7. (MinutesPerHour * (b - 1) + m) % MinutesPerHour = m
  <2> DEFINE c == MinutesPerHour * (b - 1) + m
             p == b - 1
  <2>1. c \in Int /\ p \in Int /\ c = MinutesPerHour * p + m
    BY <1>1, <1>3
  <2> HIDE DEF c, p
  <2>2. m = c % MinutesPerHour
    BY <1>1, <1>3, <2>1, DivisionIsUnique, Zenon
  <2> QED BY <2>2 DEF c
<1> QED BY <1>4, <1>5, <1>6, <1>7, Units DEF MinuteOf

LEMMA Shift ==
  ASSUME NEW a \in Int, NEW d \in Nat \ {0}, NEW k \in Int
  PROVE  (a + d * k) \div d = (a \div d) + k /\ (a + d * k) % d = a % d /\ a \div d \in Int
<1> DEFINE q == a \div d
           r == a % d
           b == a + d * k
           p == q + k
<1>1. q \in Int /\ r \in 0 .. d - 1 /\ a = d * q + r
  BY Division, Zenon
<1> HIDE DEF q, r
<1>2. b \in Int /\ p \in Int /\ b = d * p + r
  BY <1>1
<1>3. p = b \div d /\ r = b % d
  <2> HIDE DEF b, p
  <2> QED BY <1>1, <1>2, DivisionIsUnique, Zenon
<1> QED BY <1>3 DEF q, r

Years == 7 * MonthsPerYear * DaysPerMonth * HoursPerDay * MinutesPerHour

\* After seven years the calendar is the same.
LEMMA SevenYears ==
  ASSUME NEW u \in Int, u % 2 = 0, NEW r
  PROVE  /\ Years \in Nat \ {0} /\ Hour <= 2 * Years /\ Years <= SearchMinutes
         /\ u + 2 * Years \in Int /\ (u + 2 * Years) % 2 = 0
         /\ CronMatches(r, u) <=> CronMatches(r, u + 2 * Years)
<1>0. /\ MinutesPerHour \in Nat \ {0} /\ HoursPerDay \in Nat \ {0} /\ DaysPerMonth \in Nat \ {0}
      /\ MonthsPerYear \in Nat \ {0} /\ Years <= SearchMinutes
  BY RecurrenceAssumption DEF Years
<1> DEFINE dm == 7 * MonthsPerYear
           dd == dm * DaysPerMonth
           dh == dd * HoursPerDay
           t == u + 2 * Years
<1>1. dm \in Nat \ {0} /\ dd \in Nat \ {0} /\ dh \in Nat \ {0} /\ Years = dh * MinutesPerHour
  <2>1. dm \in Nat \ {0}
    BY <1>0
  <2>2. dd \in Nat \ {0}
    <3> HIDE DEF dm
    <3> QED BY <1>0, <2>1
  <2>3. dh \in Nat \ {0}
    <3> HIDE DEF dd
    <3> QED BY <1>0, <2>2
  <2> QED BY <2>1, <2>2, <2>3 DEF Years
<1> HIDE DEF dh
<1>2. Years \in Nat \ {0} /\ Hour <= 2 * Years /\ 2 * Years = Hour * dh
  BY <1>0, <1>1, Units
<1>3. t \in Int /\ t % 2 = 0
  <2>1. 2 \in Nat \ {0} /\ Years \in Int
    BY <1>2
  <2> HIDE DEF Years
  <2>2. (u + 2 * Years) % 2 = u % 2
    BY <2>1, Shift, Zenon
  <2> QED BY <2>1, <2>2
<1>4. MinuteOf(t) = MinuteOf(u)
  <2>1. t \div 2 = (u \div 2) + MinutesPerHour * dh
    <3>1. 2 \in Nat \ {0} /\ Years \in Int /\ Years = MinutesPerHour * dh
      BY <1>0, <1>1, <1>2
    <3> HIDE DEF Years
    <3>2. (u + 2 * Years) \div 2 = (u \div 2) + Years
      BY <3>1, Shift, Zenon
    <3> QED BY <3>1, <3>2
  <2>2. u \div 2 \in Int /\ dh \in Int
    BY <1>1
  <2>3. ((u \div 2) + MinutesPerHour * dh) % MinutesPerHour = (u \div 2) % MinutesPerHour
    BY <1>0, <2>2, Shift, Zenon
  <2> QED BY <2>1, <2>3, Units DEF MinuteOf
<1>5. t \div Hour = (u \div Hour) + dh /\ u \div Hour \in Int
  <2>1. Hour \in Nat \ {0} /\ dh \in Int
    BY <1>1, Units
  <2>2. (u + Hour * dh) \div Hour = (u \div Hour) + dh /\ u \div Hour \in Int
    BY <2>1, Shift, Zenon
  <2> QED BY <1>2, <2>2
<1>6. HourOf(t) = HourOf(u)
  <2>1. dd \in Int /\ dh = HoursPerDay * dd
    BY <1>0, <1>1 DEF dh
  <2> HIDE DEF dd
  <2>2. ((u \div Hour) + HoursPerDay * dd) % HoursPerDay = (u \div Hour) % HoursPerDay
    BY <1>0, <1>5, <2>1, Shift, Zenon
  <2> QED BY <1>5, <2>1, <2>2 DEF HourOf
<1>7. t \div Day = (u \div Day) + dd /\ u \div Day \in Int /\ dd \in Int
  <2>1. Day \in Nat \ {0} /\ dd \in Int
    BY <1>1, Units
  <2>2. Day * dd = 2 * Years
    <3>1. dh = HoursPerDay * dd
      BY <1>0, <2>1 DEF dh
    <3> HIDE DEF dd
    <3> QED BY <1>0, <1>2, <2>1, <3>1, Units
  <2> HIDE DEF dd
  <2>3. (u + Day * dd) \div Day = (u \div Day) + dd /\ u \div Day \in Int
    BY <2>1, Shift, Zenon
  <2> QED BY <2>1, <2>2, <2>3
<1>8. MonthDay(t) = MonthDay(u)
  <2>1. dm \in Int /\ dd = DaysPerMonth * dm
    BY <1>0, <1>1
  <2> HIDE DEF dm, dd
  <2>2. ((u \div Day) + DaysPerMonth * dm) % DaysPerMonth = (u \div Day) % DaysPerMonth
    BY <1>0, <1>7, <2>1, Shift, Zenon
  <2> QED BY <1>7, <2>1, <2>2 DEF MonthDay
<1>9. Weekday(t) = Weekday(u)
  <2> DEFINE k == MonthsPerYear * DaysPerMonth
  <2>1. k \in Int /\ dd = 7 * k /\ 7 \in Nat \ {0}
    BY <1>0
  <2> HIDE DEF k, dd
  <2>2. ((u \div Day) + 7 * k) % 7 = (u \div Day) % 7
    BY <1>7, <2>1, Shift, Zenon
  <2> QED BY <1>7, <2>1, <2>2 DEF Weekday
<1>10. MonthOf(t) = MonthOf(u)
  <2> DEFINE mm == Day * DaysPerMonth
  <2>1. mm \in Nat \ {0} /\ dm \in Int /\ mm * dm = 2 * Years
    <3>1. mm \in Nat \ {0} /\ dm \in Int
      BY <1>0, <1>1, Units
    <3>2. dh = HoursPerDay * (DaysPerMonth * dm)
      BY <1>0, <3>1 DEF dh
    <3> HIDE DEF dm
    <3> QED BY <1>0, <1>2, <3>1, <3>2, Units
  <2>2. t \div mm = (u \div mm) + dm /\ u \div mm \in Int
    <3> HIDE DEF mm, dm
    <3>1. (u + mm * dm) \div mm = (u \div mm) + dm /\ u \div mm \in Int
      BY <2>1, Shift, Zenon
    <3> QED BY <2>1, <3>1
  <2>3. dm = MonthsPerYear * 7 /\ 7 \in Int
    BY <1>0
  <2>4. ((u \div mm) + MonthsPerYear * 7) % MonthsPerYear = (u \div mm) % MonthsPerYear
    <3> HIDE DEF mm
    <3> QED BY <1>0, <2>2, <2>3, Shift, Zenon
  <2> HIDE DEF dm
  <2> QED BY <2>2, <2>3, <2>4 DEF MonthOf
<1> QED
  <2> HIDE DEF Years
  <2> QED BY <1>0, <1>2, <1>3, <1>4, <1>6, <1>8, <1>9, <1>10 DEF CronMatches, DayMatches

\* The search starts at the first full minute after the wall time of the question.
LEMMA FirstMinute ==
  ASSUME NEW w \in Int
  PROVE  LET first == ((w + Minute) \div Minute) * Minute
         IN  /\ first \in Int /\ first % 2 = 0 /\ first > w /\ first <= w + 2
             /\ \A u \in Int : u % 2 = 0 /\ u > w =>
                  \E n \in Nat : u = first + n * Minute
<1> DEFINE q == (w + 2) \div 2
<1>1. q \in Int /\ q * 2 > w /\ q * 2 <= w + 2 /\ (q * 2) % 2 = 0
  OBVIOUS
<1>2. ASSUME NEW u \in Int, u % 2 = 0, u > w PROVE \E n \in Nat : u = q * 2 + n * 2
  <2>1. PICK p \in Int : u = 2 * p
    BY <1>2
  <2> HIDE DEF q
  <2>2. p >= q
    BY <1>1, <1>2, <2>1
  <2>3. p - q \in Nat /\ u = q * 2 + (p - q) * 2
    BY <1>1, <2>1, <2>2
  <2> QED BY <2>3
<1> QED BY <1>1, <1>2, Units
LEMMA CronIsExact ==
  ASSUME rule \in Rules, rule.type = "cron", asked \in Int, cursor = NextOccurrence(rule, asked)
  PROVE  cursor \in Int \cup {Never} /\ RecurrenceIsExact
<1> DEFINE w == Local(asked).wall
           first == ((w + Minute) \div Minute) * Minute
           found == {n \in 0 .. SearchMinutes - 1 : CronMatches(rule, first + n * Minute)}
           v == first + Min(found) * Minute
<1>1. /\ w \in Int /\ first \in Int /\ first % 2 = 0 /\ first > w /\ first <= w + 2
      /\ \A u \in Int : u % 2 = 0 /\ u > w => \E n \in Nat : u = first + n * 2
  <2>1. w \in Int
    BY LocalTypes
  <2> HIDE DEF w
  <2>2. /\ first \in Int /\ first % 2 = 0 /\ first > w /\ first <= w + 2
        /\ \A u \in Int : u % 2 = 0 /\ u > w => \E n \in Nat : u = first + n * Minute
    BY <2>1, FirstMinute, Zenon
  <2> HIDE DEF first
  <2> QED BY <2>1, <2>2 DEF Minute
<1>2. cursor = IF found = {} THEN Never ELSE Instant([wall |-> v, fold |-> 0])
  BY DEF NextOccurrence, NextCron
<1>3. Never \notin Int /\ SearchMinutes \in Nat \ {0} /\ found \subseteq Nat
  BY RecurrenceAssumption
<1>4. \A i : Due(rule, i) <=> (Local(i).wall % 2 = 0 /\ CronMatches(rule, Local(i).wall))
  BY Units DEF Due, DueAt
<1>5. ASSUME NEW u \in Int, u % 2 = 0, u > w, CronMatches(rule, u), u <= first + 2 * (SearchMinutes - 1)
      PROVE  found # {} /\ v <= u
  <2>1. PICK n \in Nat : u = first + n * 2
    BY <1>1, <1>5
  <2> HIDE DEF w, first
  <2>2. n \in found
    BY <1>1, <1>3, <1>5, <2>1, Units
  <2> HIDE DEF found
  <2>3. Min(found) \in found /\ Min(found) <= n
    BY <1>3, <2>2, MinLeast, Zenon
  <2> DEFINE m == Min(found)
  <2>4. v = first + m * 2 /\ m \in Nat /\ m <= n
    BY <1>3, <2>3 DEF Minute
  <2> HIDE DEF m, v
  <2> QED BY <1>1, <2>1, <2>2, <2>4
<1>6. CASE found = {}
  <2>1. cursor = Never
    BY <1>2, <1>6
  <2>2. ASSUME NEW i \in asked + 1 .. asked + Minute * (SearchMinutes - 1) - Hour, Due(rule, i)
        PROVE  FALSE
    <3> DEFINE u == Local(i).wall
    <3>1. u \in Int /\ u % 2 = 0 /\ CronMatches(rule, u)
      BY <1>4, <2>2, LocalTypes, Units
    <3>2. u <= w + 2 * (SearchMinutes - 1) /\ u > w - Hour
      BY <2>2, <1>3, Units DEF Local
    <3> HIDE DEF u, w, first
    <3>3. CASE u > w
      <4> HIDE DEF found, v
      <4>1. u <= first + 2 * (SearchMinutes - 1)
        BY <1>1, <1>3, <3>1, <3>2
      <4> QED BY <1>5, <1>6, <3>1, <3>3, <4>1
    <3>4. CASE u <= w
      <4> DEFINE t == u + 2 * Years
      <4>1. /\ Years \in Nat \ {0} /\ Hour <= 2 * Years /\ Years <= SearchMinutes
            /\ t \in Int /\ t % 2 = 0 /\ CronMatches(rule, t)
        BY <3>1, SevenYears
      <4>2. t > w /\ t <= first + 2 * (SearchMinutes - 1)
        <5> HIDE DEF Years
        <5>1. t % 2 = 0 /\ first % 2 = 0 /\ t <= w + 2 * SearchMinutes
          BY <1>1, <1>3, <3>1, <3>4, <4>1
        <5>2. t > w
          BY <1>1, <3>1, <3>2, <4>1, Units
        <5> QED BY <1>1, <1>3, <4>1, <5>1, <5>2
      <4> HIDE DEF t
      <4> QED BY <1>5, <1>6, <4>1, <4>2
    <3> QED BY <1>1, <3>1, <3>3, <3>4
  <2> QED BY <1>3, <2>1, <2>2 DEF RecurrenceIsExact
<1>7. CASE found # {}
  <2>1. /\ v \in Int /\ v % 2 = 0 /\ v > w /\ CronMatches(rule, v)
        /\ v <= first + 2 * (SearchMinutes - 1)
    <3>1. Min(found) \in found
      <4> HIDE DEF found
      <4> QED BY <1>3, <1>7, MinLeast
    <3> DEFINE n == Min(found)
    <3>2. n \in 0 .. SearchMinutes - 1 /\ CronMatches(rule, v) /\ v = first + n * 2
      BY <3>1, Units
    <3> HIDE DEF n, w, first, v
    <3> QED BY <1>1, <1>3, <3>2
  <2>2. cursor = Instant([wall |-> v, fold |-> 0])
    BY <1>2, <1>7
  <2> DEFINE gap == clock = "forward" /\ v >= ChangeAt /\ v < ChangeAt + Hour
  <2>3. /\ cursor \in Int
        /\ gap => cursor = v
        /\ ~gap => Local(cursor).wall = v
    <3> HIDE DEF v
    <3> QED BY <2>1, <2>2, Units DEF Instant, Local
  <2>4. Due(rule, cursor) \/ LeftOut(rule, cursor)
    <3>1. CASE gap
      <4>1. DueAt(rule, v)
        BY <2>1, Units DEF DueAt
      <4> HIDE DEF v
      <4>2. cursor \in ChangeAt .. ChangeAt + Hour - 1
        <5>1. Hour \in Int /\ ChangeAt \in Int
          BY Units
        <5>2. cursor = v /\ v \in Int /\ v >= ChangeAt /\ v < ChangeAt + Hour
          BY <3>1, <2>1, <2>3
        <5> QED BY <5>1, <5>2
      <4> QED BY <4>1, <4>2, <3>1, <2>3 DEF LeftOut
    <3>2. CASE ~gap
      BY <3>2, <1>4, <2>1, <2>3
    <3> QED BY <3>1, <3>2
  <2>5. SecondPass(asked) \/ cursor > asked
    <3> HIDE DEF v
    <3> QED BY <2>1, <2>2, Units DEF Instant, Local, SecondPass
  <2>6. ASSUME NEW i \in asked + 1 .. cursor - 1, Due(rule, i), ~SecondPass(i)
        PROVE  FALSE
    <3> DEFINE u == Local(i).wall
    <3>1. i \in Int /\ asked < i /\ i < cursor
      BY <2>3
    <3>2. u \in Int /\ u % 2 = 0 /\ CronMatches(rule, u)
      BY <1>4, <2>6, <3>1, LocalTypes, Units
    <3>3. w < u
      BY <2>6, <3>1, LaterIsLater
    <3>4. i = Instant([wall |-> u, fold |-> 0])
      BY <2>6, <3>1, FoundByWall
    <3>5. v <= u
      <4> HIDE DEF u, w, first, found
      <4>1. CASE u <= first + 2 * (SearchMinutes - 1)
        <5> HIDE DEF v
        <5> QED BY <1>5, <3>2, <3>3, <4>1
      <4>2. CASE u > first + 2 * (SearchMinutes - 1)
        <5> HIDE DEF v
        <5> QED BY <1>1, <1>3, <2>1, <3>2, <4>2
      <4> QED BY <1>1, <1>3, <3>2, <4>1, <4>2
    <3>6. CASE ~gap
      <4> HIDE DEF v
      <4> QED BY <2>1, <2>2, <2>3, <3>1, <3>2, <3>5, <3>6, Units DEF Instant, Local
    <3>7. CASE gap
      <4>1. i >= ChangeAt /\ i < v /\ u = i + Hour /\ v < ChangeAt + Hour
        <5> HIDE DEF v
        <5> QED BY <2>1, <2>3, <3>1, <3>5, <3>7, Units DEF Local
      <4>2. w < i
        <5> HIDE DEF v
        <5> QED BY <2>1, <3>1, <3>7, <4>1, Units DEF Local
      <4>3. i \div Hour = v \div Hour
        <5> DEFINE c == ChangeAt \div Hour
        <5>1. c \in Int /\ ChangeAt = Hour * c /\ Hour \in Nat \ {0}
          BY Units
        <5> HIDE DEF c, v, u, w
        <5>2. i = Hour * c + (i - Hour * c) /\ i - Hour * c \in 0 .. Hour - 1
          BY <5>1, <4>1, <3>1, <2>1
        <5>3. v = Hour * c + (v - Hour * c) /\ v - Hour * c \in 0 .. Hour - 1
          BY <5>1, <4>1, <3>1, <2>1
        <5>4. c = i \div Hour
          BY <3>1, <5>1, <5>2, DivisionIsUnique, Zenon
        <5>5. c = v \div Hour
          BY <2>1, <5>1, <5>3, DivisionIsUnique, Zenon
        <5> QED BY <5>4, <5>5
      <4>4. MinuteOf(i) = MinuteOf(u) /\ i % 2 = 0
        <5>1. i = u - Hour
          BY <3>1, <3>2, <4>1, Units
        <5> HIDE DEF u
        <5> QED BY <5>1, <3>2, HourEarlier
      <4>5. CronMatches(rule, i)
        <5> HIDE DEF u, v, w
        <5>1. /\ HourOf(i) = HourOf(v) /\ MonthDay(i) = MonthDay(v)
              /\ MonthOf(i) = MonthOf(v) /\ Weekday(i) = Weekday(v)
          BY <2>1, <3>1, <4>3, WithinAnHour
        <5> QED BY <2>1, <3>2, <4>4, <5>1 DEF CronMatches, DayMatches
      <4> HIDE DEF u, w, first, found
      <4>6. v <= i
        <5>1. i <= first + 2 * (SearchMinutes - 1)
          <6> HIDE DEF v
          <6> QED BY <1>1, <1>3, <2>1, <3>1, <4>1
        <5> HIDE DEF v
        <5> QED BY <1>5, <3>1, <4>2, <4>4, <4>5, <5>1
      <4> HIDE DEF v
      <4> QED BY <2>1, <3>1, <4>1, <4>6
    <3> QED BY <3>6, <3>7
  <2>7. rule.type # "interval"
    OBVIOUS
  <2> HIDE DEF w, first, found, v, gap
  <2> QED BY <1>3, <2>3, <2>4, <2>5, <2>6, <2>7 DEF RecurrenceIsExact
<1> QED BY <1>6, <1>7

LEMMA TimeIsExact ==
  ASSUME rule \in Rules, rule.type \notin {"cron", "interval"}, asked \in Int,
         cursor = NextOccurrence(rule, asked)
  PROVE  cursor \in Int /\ RecurrenceIsExact
<1> DEFINE local == Local(asked)
           w == local.wall
           f == local.fold
           D == w \div Day
           T == rule.hour * Hour + rule.minute * Minute
           today == [wall |-> D * Day + T, fold |-> f]
           later == IF Passed(today, local) THEN 1 ELSE 0
           first == DaysLater(today, later)
           N == {n \in 0 .. 6 : IsoWeekday(first.wall + n * Day) \in Weekdays(rule)}
           n == Min(N)
           E == D + later + n
           v == Day * E + T
           g == IF later = 0 /\ n = 0 THEN f ELSE 0
<1>0. rule.hour \in 0 .. HoursPerDay - 1 /\ rule.minute \in 0 .. MinutesPerHour - 1 /\ Weekdays(rule) \cap 1 .. 7 # {}
  BY RuleAssumption
<1>1. /\ local \in [wall : Int, fold : {0, 1}] /\ w \in Int /\ f \in {0, 1}
      /\ D \in Int /\ w >= Day * D /\ w < Day * D + Day /\ Day * D \in Int
  <2>1. local \in [wall : Int, fold : {0, 1}]
    BY LocalTypes
  <2> HIDE DEF local
  <2>2. w \in Int /\ f \in {0, 1}
    BY <2>1
  <2>3. Day \in Nat \ {0}
    BY Units
  <2> HIDE DEF w
  <2>4. D \in Int /\ w % Day \in 0 .. Day - 1 /\ w = Day * D + (w % Day)
    BY <2>2, <2>3, Division, Zenon
  <2> HIDE DEF D
  <2>5. Day * D \in Int
    BY <2>3, <2>4
  <2> QED BY <2>1, <2>2, <2>3, <2>4, <2>5 DEF w
<1>2. T \in 0 .. Day - 1
  <2>1. 0 \in Int
    OBVIOUS
  <2>2. Day * 0 + T = Day * 0 + (rule.hour * Hour + rule.minute * Minute)
    OBVIOUS
  <2> HIDE DEF T
  <2>3. rule.hour * Hour + rule.minute * Minute \in 0 .. Day - 1
    BY <1>0, <2>1, WallByParts
  <2> QED BY <2>3 DEF T
<1> HIDE DEF T
<1>3. /\ later \in {0, 1} /\ later = 0 => Day * D + T > w
      /\ later = 1 => Day * D + T <= w
      /\ first.wall = Day * (D + later) + T
      /\ first.fold = IF later = 0 THEN f ELSE 0
  <2>0. today.wall = Day * D + T /\ today.fold = f
    <3>1. D * Day = Day * D
      <4> HIDE DEF D
      <4> QED BY <1>1, Units
    <3> QED BY <3>1
  <2>1. Passed(today, local) <=> Day * D + T <= w
    BY <2>0 DEF Passed
  <2>2. later \in {0, 1} /\ (later = 1 <=> Day * D + T <= w)
    BY <2>1
  <2> HIDE DEF later
  <2>3. CASE later = 0
    <3>1. first = today
      BY <2>3 DEF DaysLater
    <3> HIDE DEF D, first, today, w, f
    <3> QED BY <1>1, <1>2, <2>0, <2>2, <2>3, <3>1
  <2>4. CASE later = 1
    <3>1. first = [wall |-> today.wall + 1 * Day, fold |-> 0]
      BY <2>4 DEF DaysLater
    <3>2. first.wall = today.wall + Day /\ first.fold = 0
      <4> HIDE DEF today
      <4> QED BY <3>1, Units
    <3>3. Day * (D + 1) = Day * D + Day
      <4> HIDE DEF D
      <4> QED BY <1>1, Units
    <3>4. D + later = D + 1
      BY <2>4
    <3>5. Day * (D + later) = Day * D + Day
      BY <3>3, <3>4
    <3>6. Day \in Int
      BY Units
    <3> DEFINE b == Day * D
    <3>7. b \in Int /\ today.wall = b + T /\ Day * (D + later) = b + Day /\ w \in Int
      BY <1>1, <2>0, <3>5
    <3>8. first.wall = b + Day + T
      <4> HIDE DEF b, D, first, today, w, f
      <4> QED BY <1>2, <3>2, <3>6, <3>7
    <3> HIDE DEF D, first, today, w, f
    <3> QED BY <1>2, <2>2, <2>4, <3>2, <3>6, <3>7, <3>8
  <2> QED BY <2>2, <2>3, <2>4
<1>t. D \in Int /\ later \in Int /\ later >= 0 /\ later \in {0, 1} /\ D + later \in Int
  <2>1. D \in Int
    BY <1>1
  <2> HIDE DEF D
  <2>2. later \in Int /\ later >= 0 /\ later \in {0, 1}
    OBVIOUS
  <2> HIDE DEF later
  <2> QED BY <2>1, <2>2
<1> HIDE DEF today, later
<1>4. ASSUME NEW k \in Int
      PROVE  /\ Day * (D + later + k) + T \in Int
             /\ (Day * (D + later + k) + T) % 2 = 0
             /\ first.wall + k * Day = Day * (D + later + k) + T
             /\ IsoWeekday(first.wall + k * Day) = ((D + later + k) % 7) + 1
             /\ HourOf(first.wall + k * Day) = rule.hour
             /\ MinuteOf(first.wall + k * Day) = rule.minute
  <2> DEFINE q == D + later + k
             u == Day * q + T
  <2>1. q \in Int
    <3> HIDE DEF D
    <3> QED BY <1>t
  <2>2. first.wall + k * Day = u
    <3> DEFINE F == D + later
               b == Day * F
    <3>1. F \in Int /\ Day \in Int
      BY <1>t, Units
    <3>2. q = F + k /\ first.wall = b + T
      BY <1>3
    <3>3. b \in Int /\ Day * (F + k) = b + k * Day /\ k * Day \in Int
      <4> HIDE DEF F
      <4> QED BY <3>1
    <3> HIDE DEF b, F, q, first
    <3> QED BY <1>2, <3>2, <3>3
  <2> HIDE DEF q
  <2>3. /\ u \in Int /\ u % 2 = 0 /\ u \div Day = q
        /\ HourOf(u) = rule.hour /\ MinuteOf(u) = rule.minute
    <3>1. u = Day * q + (rule.hour * Hour + rule.minute * Minute)
      BY DEF T
    <3> HIDE DEF u
    <3> QED BY <1>0, <2>1, <3>1, WallByParts
  <2> HIDE DEF u
  <2>4. IsoWeekday(u) = (q % 7) + 1
    BY <2>3 DEF IsoWeekday, Weekday
  <2> QED BY <2>2, <2>3, <2>4 DEF u, q
<1>5. n \in 0 .. 6 /\ n \in N /\ \A k \in N : n <= k
  <2>1. N # {}
    <3>1. PICK d \in 1 .. 7 : d \in Weekdays(rule)
      BY <1>0
    <3> DEFINE F == D + later
               k == (d - 1 - F) % 7
               z == (d - 1 - F) \div 7
    <3>2. F \in Int
      BY <1>t
    <3> HIDE DEF F
    <3>3. k \in 0 .. 6 /\ z \in Int /\ d - 1 - F = 7 * z + k
      BY <3>2
    <3>4. (F + k) % 7 = d - 1
      <4> HIDE DEF k, z
      <4> DEFINE y == F + k
                 x == 0 - z
                 e == d - 1
      <4>1. y \in Int /\ x \in Int /\ e \in 0 .. 7 - 1 /\ y = 7 * x + e /\ 7 \in Nat \ {0}
        BY <3>2, <3>3
      <4> HIDE DEF y, x, e
      <4>2. e = y % 7
        BY <4>1, DivisionIsUnique, Zenon
      <4> QED BY <4>2 DEF e, y
    <3> HIDE DEF k
    <3>5. IsoWeekday(first.wall + k * Day) = ((D + later + k) % 7) + 1
      <4>1. k \in Int
        BY <3>3
      <4> QED BY <4>1, <1>4
    <3>6. IsoWeekday(first.wall + k * Day) = d
      BY <3>4, <3>5 DEF F
    <3>7. k \in N
      BY <3>1, <3>3, <3>6
    <3> QED BY <3>7
  <2>2. N \subseteq Nat /\ N \subseteq 0 .. 6
    OBVIOUS
  <2> HIDE DEF N
  <2> QED BY <2>1, <2>2, MinLeast
<1>6. /\ v \in Int /\ v % 2 = 0 /\ DueAt(rule, v)
      /\ v = first.wall + n * Day
  <2>1. n \in Int /\ IsoWeekday(first.wall + n * Day) \in Weekdays(rule)
    <3>1. n \in Int
      <4> HIDE DEF n
      <4> QED BY <1>5
    <3> QED BY <3>1, <1>5
  <2> HIDE DEF n, first, N
  <2>2. /\ v \in Int /\ v % 2 = 0 /\ v = first.wall + n * Day
        /\ HourOf(v) = rule.hour /\ MinuteOf(v) = rule.minute
    BY <2>1, <1>4
  <2> HIDE DEF v
  <2> QED BY <2>1, <2>2 DEF DueAt, Minute
<1>7. cursor = Instant([wall |-> v, fold |-> g])
  <2>1. cursor = Instant(DaysLater(first, n))
    <3>1. cursor = NextTime(rule, asked)
      BY DEF NextOccurrence
    <3> DEFINE a == D * Day
               b == rule.hour * Hour
               c == rule.minute * Minute
    <3>2. a + b + c = a + T
      <4>1. a \in Int /\ b \in Int /\ c \in Int /\ T = b + c
        BY <1>t, <1>0, Units DEF T
      <4> HIDE DEF a, b, c
      <4> QED BY <4>1
    <3>3. today = [wall |-> D * Day + rule.hour * Hour + rule.minute * Minute, fold |-> f]
      BY <3>2 DEF today
    <3> DEFINE early == [wall |-> D * Day + rule.hour * Hour + rule.minute * Minute, fold |-> f]
               other == DaysLater(early, IF Passed(early, local) THEN 1 ELSE 0)
    <3>4. cursor = Instant(DaysLater(other, Min({k \in 0 .. 6 : IsoWeekday(other.wall + k * Day) \in Weekdays(rule)})))
      BY <3>1, Zenon DEF NextTime
    <3>5. first = other
      BY <3>3 DEF later
    <3> HIDE DEF first, other
    <3> QED BY <3>4, <3>5
  <2> DEFINE k == n
  <2>2. first = [wall |-> first.wall, fold |-> first.fold]
    <3> HIDE DEF local, D
    <3> QED BY DEF DaysLater, today
  <2>3. DaysLater(first, k) = [wall |-> v, fold |-> g]
    <3>1. v = first.wall + k * Day /\ (k = 0 => v = first.wall)
      <4>1. v = first.wall + k * Day
        BY <1>6
      <4>2. first.wall \in Int
        <5> DEFINE F == D + later
        <5>1. F \in Int /\ Day \in Int /\ T \in Int
          BY <1>t, <1>2, Units
        <5>2. first.wall = Day * F + T
          BY <1>3
        <5> HIDE DEF F, first
        <5> QED BY <5>1, <5>2
      <4> HIDE DEF k, v, first
      <4> QED BY <4>1, <4>2, Units
    <3> HIDE DEF first, v
    <3>2. k = 0 => first.fold = g
      BY <1>3
    <3>3. k # 0 => g = 0
      OBVIOUS
    <3> HIDE DEF k, g
    <3> QED BY <2>2, <3>1, <3>2, <3>3 DEF DaysLater
  <2> QED BY <2>1, <2>3
<1> HIDE DEF N, first
<1>8. n \in Int /\ n >= 0 /\ E \in Int
  <2>1. n \in 0 .. 6
    BY <1>5
  <2> HIDE DEF n, D
  <2> QED BY <2>1, <1>t
<1>9. /\ v > w
      /\ later = 0 /\ n = 0 => v < Day * D + Day
      /\ ~(later = 0 /\ n = 0) => v >= Day * D + Day
  <2> DEFINE l == later + n
  <2>1. l \in Int /\ l >= 0 /\ (l = 0 <=> later = 0 /\ n = 0) /\ E = D + l
    <3> HIDE DEF n, D
    <3> QED BY <1>t, <1>8
  <2>2. Day * E = Day * D + Day * l /\ Day * l \in Int /\ (l >= 1 => Day * l >= Day) /\ (l = 0 => Day * l = 0)
    <3> HIDE DEF l, D, E
    <3> QED BY <1>1, <2>1, Units
  <2>3. later = 1 => l >= 1
    <3> HIDE DEF n
    <3> QED BY <1>8
  <2> HIDE DEF l, E, D, w, n
  <2> QED BY <1>1, <1>2, <1>3, <2>1, <2>2, <2>3, Units
<1>10. g \in {0, 1} /\ (g = 1 => SecondPass(asked) /\ v < Day * D + Day)
       /\ (g = 0 /\ SecondPass(asked) => v >= Day * D + Day)
  <2>1. f = 1 <=> SecondPass(asked)
    BY DEF SecondPass
  <2> HIDE DEF v, f, w, D, n
  <2> QED BY <1>1, <1>9, <2>1
\* in the second pass of an hour, the next day begins after that hour
<1>11. ASSUME SecondPass(asked) PROVE Day * D + Day >= ChangeAt /\ clock = "back" /\ w >= ChangeAt - Hour
  <2>1. clock = "back" /\ w >= ChangeAt - Hour /\ w < ChangeAt
    BY <1>11, Units DEF SecondPass, Local
  <2> DEFINE c == ChangeAt \div Hour
             m == HoursPerDay * (D + 1)
  <2>2. /\ c \in Int /\ m \in Int /\ ChangeAt = Hour * c /\ Hour \in Nat \ {0}
        /\ Day * D + Day = Hour * m
    <3>1. c \in Int /\ ChangeAt = Hour * c /\ Hour \in Nat \ {0} /\ HoursPerDay \in Nat \ {0}
      BY Units, RecurrenceAssumption
    <3> HIDE DEF c, D
    <3>2. m \in Int /\ Day * D + Day = Hour * m
      BY <1>1, <3>1, Units
    <3> QED BY <3>1, <3>2
  <2> HIDE DEF c, m, D, w
  <2>3. ASSUME m < c PROVE FALSE
    <3>1. Hour * m + Hour <= Hour * c
      BY <2>2, <2>3, Grows
    <3> QED BY <1>1, <2>1, <2>2, <3>1, Units
  <2>4. Hour * c <= Hour * m
    BY <2>2, <2>3
  <2> QED BY <2>1, <2>2, <2>4
<1> DEFINE gap == clock = "forward" /\ v >= ChangeAt /\ v < ChangeAt + Hour
<1>12. /\ cursor \in Int /\ cursor > asked
       /\ gap => cursor = v
       /\ ~gap => Local(cursor).wall = v
       /\ g = 1 => cursor = v + Hour
       /\ g = 0 /\ SecondPass(asked) => v >= ChangeAt
  <2>1. g = 0 /\ SecondPass(asked) => v >= ChangeAt
    <3> HIDE DEF v, w, D, g
    <3> QED BY <1>1, <1>6, <1>10, <1>11, Units
  <2>2. w = Local(asked).wall
    OBVIOUS
  <2>3. Instant([wall |-> v, fold |-> g]) =
          CASE clock = "back" /\ (v >= ChangeAt \/ (v >= ChangeAt - Hour /\ g = 1)) -> v + Hour
            [] clock = "forward" /\ v >= ChangeAt + Hour -> v - Hour
            [] OTHER -> v
    <3> HIDE DEF v, g
    <3> QED BY DEF Instant
  <2> HIDE DEF v, w, D, g, f
  <2>4. g = 1 => cursor = v + Hour
    BY <1>1, <1>6, <1>7, <1>9, <1>10, <1>11, <2>3, Units
  <2>5. cursor \in Int /\ (gap => cursor = v) /\ (~gap => Local(cursor).wall = v)
    BY <1>1, <1>6, <1>7, <1>9, <1>10, <1>11, <2>3, <2>4, Units DEF Local
  <2>6. cursor > asked
    <3>1. CASE g = 1
      BY <1>1, <1>6, <1>9, <1>10, <1>11, <2>2, <2>4, <3>1, Units DEF Local, SecondPass
    <3>2. CASE g = 0
      BY <1>1, <1>6, <1>7, <1>9, <2>1, <2>2, <2>3, <3>2, Units DEF Local, SecondPass
    <3> QED BY <3>1, <3>2, <1>10
  <2> QED BY <2>1, <2>4, <2>5, <2>6
<1>13. Due(rule, cursor) \/ LeftOut(rule, cursor)
  <2> HIDE DEF v, w, D, g, f
  <2>1. CASE gap
    <3>1. Hour \in Int /\ ChangeAt \in Int
      BY Units
    <3>2. cursor \in ChangeAt .. ChangeAt + Hour - 1
      BY <1>6, <1>12, <2>1, <3>1
    <3> QED BY <1>6, <1>12, <2>1, <3>2 DEF LeftOut
  <2>2. CASE ~gap
    BY <2>2, <1>6, <1>12 DEF Due
  <2> QED BY <2>1, <2>2
<1>14. ASSUME NEW i \in asked + 1 .. cursor - 1, Due(rule, i), ~SecondPass(i)
       PROVE  FALSE
  <2> DEFINE u == Local(i).wall
             q == u \div Day
  <2>1. i \in Int /\ asked < i /\ i < cursor
    BY <1>12
  <2>2. /\ u \in Int /\ u % 2 = 0 /\ HourOf(u) = rule.hour /\ MinuteOf(u) = rule.minute
        /\ IsoWeekday(u) \in Weekdays(rule)
    BY <1>14, <2>1, LocalTypes DEF Due, DueAt, Minute
  <2>3. w < u
    BY <1>14, <2>1, LaterIsLater
  <2>4. i = Instant([wall |-> u, fold |-> 0])
    BY <1>14, <2>1, FoundByWall
  <2> HIDE DEF w, D, n, v, g, f
  <2>5. q \in Int /\ u = Day * q + T
    <3> HIDE DEF u
    <3> QED BY <2>2, PartsOfWall DEF T
  <2> HIDE DEF u, q
  <2>6. q >= D + later
    <3>1. ASSUME q < D + later PROVE FALSE
      <4> DEFINE F == D + later
                 a == Day * q
                 b == Day * D
      <4>0. F \in Int /\ Day \in Nat \ {0} /\ q < F
        BY <1>t, <3>1, Units
      <4>1. a + Day <= Day * F
        <5> HIDE DEF F
        <5> QED BY <2>5, <4>0, Grows, Zenon
      <4>2. later = 0 => Day * F = b
        BY <1>t
      <4>3. later = 1 => Day * F = b + Day
        <5>1. Day * (D + 1) = Day * D + Day
          BY <1>t, <4>0
        <5> QED BY <5>1
      <4>4. a \in Int /\ b \in Int /\ u = a + T
        BY <1>t, <2>5, <4>0
      <4>5. w \in Int /\ w >= b /\ (later = 1 => b + T <= w) /\ later \in {0, 1}
        <5>1. w \in Int /\ w >= Day * D
          BY <1>1, Zenon
        <5>2. later = 1 => Day * D + T <= w
          BY <1>3, Zenon
        <5>3. later \in {0, 1}
          BY <1>t
        <5> QED BY <5>1, <5>2, <5>3
      <4>6. a + Day <= IF later = 0 THEN b ELSE b + Day
        BY <4>1, <4>2, <4>3, <4>5
      <4> HIDE DEF a, b, F
      <4> QED BY <1>2, <2>2, <2>3, <4>0, <4>4, <4>5, <4>6
    <3> QED BY <3>1, <1>t, <2>5
  <2> DEFINE k == q - D - later
  <2>7. k \in Nat /\ D + later + k = q
    BY <1>t, <2>5, <2>6
  <2> HIDE DEF k
  <2>8. n <= k
    <3>1. CASE k > 6
      BY <1>5, <1>8, <2>7, <3>1
    <3>2. CASE k <= 6
      <4>1. u = first.wall + k * Day
        <5>1. k \in Int
          BY <2>7
        <5>2. first.wall + k * Day = Day * (D + later + k) + T
          BY <5>1, <1>4
        <5> QED BY <5>2, <2>5, <2>7
      <4>2. k \in N
        BY <2>2, <2>7, <3>2, <4>1 DEF N
      <4> QED BY <1>5, <4>2
    <3> QED BY <2>7, <3>1, <3>2
  <2>9. E <= q /\ v <= u
    <3>1. E <= q
      BY <1>t, <1>8, <2>7, <2>8
    <3> HIDE DEF E
    <3>2. Day * E <= Day * q /\ Day * E \in Int /\ Day * q \in Int
      <4>1. E = q \/ Day * E + Day <= Day * q
        BY <1>8, <2>5, <3>1, Grows, Units
      <4> QED BY <4>1, <1>8, <2>5, Units
    <3> QED BY <1>2, <1>6, <2>2, <2>5, <3>1, <3>2 DEF v
  <2>10. CASE gap
    <3>1. i >= ChangeAt /\ i < v /\ u = i + Hour
      BY <1>6, <1>12, <2>1, <2>2, <2>9, <2>10, Units DEF u, Local
    <3>2. u < v + Hour /\ u >= ChangeAt + Hour
      BY <1>6, <2>1, <2>2, <3>1, Units
    <3>3. E = q
      <4>1. ASSUME E < q PROVE FALSE
        <5> HIDE DEF E
        <5>1. Day * E + Day <= Day * q
          BY <1>8, <2>5, <4>1, Grows, Units
        <5>2. Day * E \in Int /\ Day * q \in Int /\ Day \in Int /\ Hour \in Int /\ Hour <= Day
          BY <1>8, <2>5, Units
        <5> DEFINE a == Day * q
                   b == Day * E
        <5>3. v = b + T /\ u = a + T /\ b + Day <= a /\ a \in Int /\ b \in Int
          BY <2>5, <5>1, <5>2 DEF v
        <5> HIDE DEF a, b
        <5> QED BY <1>2, <1>6, <2>2, <3>2, <5>2, <5>3
      <4> HIDE DEF E
      <4> QED BY <4>1, <1>8, <2>5, <2>9
    <3>4. u = v
      BY <3>3, <2>5 DEF v
    <3> QED BY <3>2, <3>4, <2>10, <1>6, Units
  <2>11. CASE ~gap /\ g = 0
    BY <1>6, <1>7, <2>1, <2>2, <2>4, <2>9, <2>11, Units DEF Instant, Local, u
  <2>12. CASE ~gap /\ g = 1
    BY <1>1, <1>6, <1>10, <1>11, <1>12, <2>1, <2>2, <2>9, <2>12, Units DEF Local, SecondPass, u
  <2> QED BY <2>10, <2>11, <2>12, <1>10
<1> QED
  <2>1. cursor # Never /\ rule.type # "interval"
    BY <1>12, RecurrenceAssumption
  <2> QED BY <1>12, <1>13, <1>14, <2>1 DEF RecurrenceIsExact

RecurrenceInv == RecurrenceTypeOK /\ AnswerFollows

LEMMA RecurrenceStart == RecurrenceInit => RecurrenceInv
BY RecurrenceAssumption DEF RecurrenceInit, RecurrenceInv, RecurrenceTypeOK, AnswerFollows

LEMMA AnswersAreExact == RecurrenceInv => RecurrenceIsExact
<1> SUFFICES ASSUME RecurrenceInv, asked # Never PROVE RecurrenceIsExact
  BY DEF RecurrenceIsExact
<1>1. rule \in Rules /\ asked \in Int /\ cursor = NextOccurrence(rule, asked)
  BY DEF RecurrenceInv, RecurrenceTypeOK, AnswerFollows
<1> QED
  BY <1>1, IntervalIsExact, CronIsExact, TimeIsExact

\* The answer is an instant, or that there is none.
LEMMA AnswerType == AnswerFollows /\ rule \in Rules /\ asked # Never => cursor \in Int \cup {Never}
<1> SUFFICES ASSUME rule \in Rules, asked \in Int, cursor = NextOccurrence(rule, asked)
             PROVE  cursor \in Int \cup {Never}
  BY DEF AnswerFollows
<1> QED
  BY IntervalIsExact, CronIsExact, TimeIsExact

LEMMA RecurrenceStep == RecurrenceInv /\ [RecurrenceNext]_recurrenceVars => RecurrenceInv'
<1> SUFFICES ASSUME RecurrenceInv, [RecurrenceNext]_recurrenceVars PROVE RecurrenceInv'
  OBVIOUS
<1>1. (AnswerFollows /\ rule \in Rules /\ asked # Never => cursor \in Int \cup {Never})'
  BY AnswerType, PTL
<1>2. CASE UNCHANGED recurrenceVars
  <2>1. clock' = clock /\ rule' = rule /\ asked' = asked /\ cursor' = cursor
    BY <1>2 DEF recurrenceVars
  <2>2. NextOccurrence(rule, asked)' = NextOccurrence(rule, asked)
    BY <2>1 DEF NextOccurrence, NextCron, NextInterval, NextTime, Local, Instant
  <2> QED
    BY <2>1, <2>2 DEF RecurrenceInv, RecurrenceTypeOK, AnswerFollows
<1>3. CASE Advance
  <2>1. AnswerFollows'
    <3>1. clock' = clock /\ rule' = rule /\ asked' = cursor /\ cursor' = NextOccurrence(rule, cursor) /\ cursor \in Int
      BY <1>3 DEF Advance
    <3>2. NextOccurrence(rule, asked)' = NextOccurrence(rule, cursor)
      <4>1. NextCron(rule, asked)' = NextCron(rule, cursor)
        BY <3>1 DEF NextCron, Local, Instant
      <4>2. NextInterval(rule, asked)' = NextInterval(rule, cursor)
        BY <3>1 DEF NextInterval
      <4>3. NextTime(rule, asked)' = NextTime(rule, cursor)
        BY <3>1 DEF NextTime, Local, Instant
      <4> QED BY <3>1, <4>1, <4>2, <4>3 DEF NextOccurrence
    <3> QED
      BY <3>1, <3>2 DEF AnswerFollows
  <2>2. rule' \in Rules /\ clock' \in Clocks /\ asked' \in Int
    BY <1>3 DEF RecurrenceInv, RecurrenceTypeOK, Advance
  <2>3. asked' # Never
    BY <2>2, RecurrenceAssumption
  <2>4. cursor' \in Int \cup {Never}
    BY <1>1, <2>1, <2>2, <2>3
  <2> QED
    BY <2>1, <2>2, <2>4 DEF RecurrenceInv, RecurrenceTypeOK
<1> QED BY <1>2, <1>3 DEF RecurrenceNext

\* Whatever instant a schedule is asked from, the answer is the next instant that its rule
\* names (next_occurrence): for every rule, every clock and every calendar of the assumptions.
THEOREM OccurrencesAreExact == RecurrenceSpec => []RecurrenceIsExact
BY RecurrenceStart, RecurrenceStep, AnswersAreExact, PTL DEF RecurrenceSpec

-----------------------------------------------------------------------------
(* The parts beside each other: each behaves as its own specification says,  *)
(* whichever of them a behaviour is about.                                   *)

LEMMA PartsAlone == FairSpec => ServiceSpec /\ SubagentsSpec /\ RecurrenceSpec /\ ExecutionSpec
<1> DEFINE vars == <<focus, serviceVars, subagentsVars, recurrenceVars, executionVars>>
<1>1. Init => ServiceInit /\ SubagentsInit /\ RecurrenceInit /\ ExecutionInit
  BY DEF Init
<1>2. [Next]_vars => [ServiceNext]_serviceVars
  BY DEF Next
<1>3. [Next]_vars => [SubagentsNext]_subagentsVars
  BY DEF Next
<1>4. [Next]_vars => [RecurrenceNext]_recurrenceVars
  BY DEF Next
<1>5. [Next]_vars => [ExecutionNext]_executionVars
  BY DEF Next
<1> QED
  BY <1>1, <1>2, <1>3, <1>4, <1>5, PTL
     DEF FairSpec, ServiceSpec, SubagentsSpec, RecurrenceSpec, ExecutionSpec

\* What the runs of MCOrchestration check of the scripts and of the subagents holds for any
\* number of processes, scripts, children and parents.
THEOREM PartsAreSound == FairSpec => []DrainedIsIdle /\ []RowFollowsRun /\ NothingAfterDestroy
BY PartsAlone, DrainedStaysIdle, RowsFollowRuns, ResultsStayApart

\* A schedule asks for the instants it names, and its history says what became of them: for
\* every rule, clock and calendar, and for any number of triggers and workers.
THEOREM SchedulesStayExact == FairSpec => []SchedulesAreExact
<1>1. RecurrenceIsExact /\ ExecutionIsRecorded => SchedulesAreExact
  BY DEF SchedulesAreExact
<1> QED
  BY <1>1, PartsAlone, OccurrencesAreExact, HistoryIsWhatHappened, PTL

\* The four parts keep their types together.
THEOREM PartsAreTyped == FairSpec => []TypesOK
<1> DEFINE vars == <<focus, serviceVars, subagentsVars, recurrenceVars, executionVars>>
           InFocus == focus \in {"service", "subagents", "recurrence", "execution"}
<1>1. Init => InFocus
  BY DEF Init
<1>2. InFocus /\ [Next]_vars => InFocus'
  BY DEF Next
<1>3. InFocus /\ ServiceInv /\ SubagentsInv /\ RecurrenceInv /\ ExecutionInv => TypesOK
  BY DEF TypesOK, ServiceInv, SubagentsInv, RecurrenceInv, ExecutionInv
<1> HIDE DEF InFocus
<1>4. FairSpec => []InFocus
  BY <1>1, <1>2, PTL DEF FairSpec
<1>5. RecurrenceSpec => []RecurrenceInv
  BY RecurrenceStart, RecurrenceStep, PTL DEF RecurrenceSpec
<1> QED
  BY <1>3, <1>4, <1>5, PartsAlone, ServiceInvAlways, SubagentsInvAlways, ExecutionInvAlways, PTL
=============================================================================
