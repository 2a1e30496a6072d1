----------------------------- MODULE ServiceControl ----------------------------
(***************************************************************************)
(* The scripts of process_control.py and the service they start and stop:  *)
(* the pid file, the control file and the port on one side, and            *)
(* LifecycleService (admitted work, a drain with an owner and a lease) of  *)
(* each process on the other.                                              *)
(*                                                                         *)
(* A script is suspended between two looks at the system.  Time is         *)
(* abstract: a wait ends because its condition holds or because it timed   *)
(* out.  What is assumed of time stands at Expire.                         *)
(***************************************************************************)
EXTENDS Naturals, FiniteSets

CONSTANTS
  Pids,           \* processes of the service that may ever exist
  Scripts,        \* the runs of a script, each once
  Work,           \* identifiers of admitted work
  ScriptOps,      \* what the scripts may be asked to do
  Nobody

ASSUME NobodyAssumption == Nobody \notin Pids \cup Scripts
ASSUME ScriptOpsAssumption == ScriptOps \subseteq {"start", "stop", "restart", "force"}

VARIABLES
  proc,           \* the life of each process
  port,           \* the process that listens
  pidFile,        \* .runtime/pids/backend.pid
  controlFile,    \* the instance the control file identifies
  work,           \* LifecycleService._work of each process
  drainer,        \* LifecycleService._owner of each process, while its lease lasts
  script          \* what each script is doing, to which process

serviceVars == <<proc, port, pidFile, controlFile, work, drainer, script>>

Alive == {"booting", "serving", "exiting"}
ScriptSteps == {"idle", "done", "guard", "poll", "stop", "term", "kill", "release",
                "start", "wait", "launch", "booting", "cancel"}
ScriptState == [op : {"none", "start", "stop", "restart", "force"}, step : ScriptSteps,
                pid : Pids \cup {Nobody},       \* the process it looks at
                drained : Pids \cup {Nobody}]   \* the process it drains, or has drained

Idle == [op |-> "none", step |-> "idle", pid |-> Nobody, drained |-> Nobody]

ServiceTypeOK ==
  /\ proc \in [Pids -> {"none", "zombie"} \cup Alive]
  /\ port \in Pids \cup {Nobody}
  /\ pidFile \in Pids \cup {Nobody}
  /\ controlFile \in Pids \cup {Nobody}
  /\ work \in [Pids -> SUBSET Work]
  /\ drainer \in [Pids -> Scripts \cup {Nobody}]
  /\ script \in [Scripts -> ScriptState]

\* nothing runs, or a service that an earlier script has started
ServiceInit ==
  /\ \E up \in Pids \cup {Nobody} :
       /\ proc = [p \in Pids |-> IF p = up THEN "serving" ELSE "none"]
       /\ port = up /\ pidFile = up /\ controlFile = up
  /\ work = [p \in Pids |-> {}]
  /\ drainer = [p \in Pids |-> Nobody]
  /\ script = [s \in Scripts |-> Idle]

IsAlive(p) == p # Nobody /\ proc[p] \in Alive
PortOpen == port # Nobody
Closed(p) == port' = IF port = p THEN Nobody ELSE port

-----------------------------------------------------------------------------
(* LifecycleService and its HTTP interface                                   *)

\* mutant: a drain refuses nothing
MayAcquire_Always(p, kind) == TRUE

\* _acquire: a drain refuses new work, but not what admitted work goes on to do,
\* and not a cancellation while there is something to cancel
MayAcquire(p, kind) ==
  \/ drainer[p] = Nobody
  \/ kind \in {"child", "cancellation"} /\ work[p] # {}

Acquire(p) ==
  /\ proc[p] = "serving"
  /\ \E kind \in {"request", "child", "cancellation"}, w \in Work \ work[p] :
       /\ kind = "child" => work[p] # {}       \* called by work that is registered
       /\ MayAcquire(p, kind)
       /\ work' = [work EXCEPT ![p] = @ \cup {w}]
  /\ UNCHANGED <<proc, port, pidFile, controlFile, drainer, script>>

Release(p) ==
  /\ proc[p] \in {"serving", "exiting"}
  /\ \E w \in work[p] : work' = [work EXCEPT ![p] = @ \ {w}]
  /\ UNCHANGED <<proc, port, pidFile, controlFile, drainer, script>>

\* begin_drain: for its owner the lease begins again, anybody else is refused
BeginDrain(p, s) == drainer[p] \in {Nobody, s} /\ drainer' = [drainer EXCEPT ![p] = s]

\* cancel_drain, where a refusal and a process that is gone are ignored
CancelDrain(p, s) ==
  drainer' = IF p # Nobody /\ proc[p] = "serving" /\ drainer[p] = s
             THEN [drainer EXCEPT ![p] = Nobody] ELSE drainer

\* The lease ends.  A script that has the confirmation signals the process with
\* its next statements, so that 30 seconds do not pass in between.
Expire(p) ==
  /\ drainer[p] # Nobody
  /\ \A s \in Scripts : ~(script[s].step = "stop" /\ script[s].drained = p)
  /\ drainer' = [drainer EXCEPT ![p] = Nobody]
  /\ UNCHANGED <<proc, port, pidFile, controlFile, work, script>>

-----------------------------------------------------------------------------
(* A process of the service                                                  *)

\* the lifespan starts (start: the control file) and the port is bound; when it is
\* taken, the lifespan ends again (stop: the control file, if it is its own)
Bind(p) ==
  /\ proc[p] = "booting"
  /\ \/ /\ port = Nobody
        /\ proc' = [proc EXCEPT ![p] = "serving"] /\ port' = p /\ controlFile' = p
     \/ /\ port # Nobody
        /\ proc' = [proc EXCEPT ![p] = "zombie"] /\ controlFile' = Nobody
        /\ UNCHANGED port
  /\ UNCHANGED <<pidFile, work, drainer, script>>

FailToBoot(p) ==
  /\ proc[p] = "booting" /\ proc' = [proc EXCEPT ![p] = "zombie"]
  /\ UNCHANGED <<port, pidFile, controlFile, work, drainer, script>>

\* uvicorn after SIGTERM: the lifespan ends, what is left of the work is lost
Exit(p) ==
  /\ proc[p] = "exiting"
  /\ proc' = [proc EXCEPT ![p] = "zombie"]
  /\ controlFile' = IF controlFile = p THEN Nobody ELSE controlFile
  /\ work' = [work EXCEPT ![p] = {}]
  /\ drainer' = [drainer EXCEPT ![p] = Nobody]
  /\ Closed(p)
  /\ UNCHANGED <<pidFile, script>>

\* the first thing a process does about SIGTERM is to close the port
ClosePort ==
  /\ port # Nobody /\ proc[port] = "exiting"
  /\ port' = Nobody
  /\ UNCHANGED <<proc, pidFile, controlFile, work, drainer, script>>

-----------------------------------------------------------------------------
(* Looking for the process                                                   *)

\* resolve_service_pid: the pid file if its process lives, otherwise who listens
Resolved ==
  IF IsAlive(pidFile) THEN pidFile
  ELSE IF PortOpen THEN port ELSE Nobody

\* a stale pid file is removed, and rewritten with who listens
ResolvedPidFile == Resolved

Goto(s, step) == script' = [script EXCEPT ![s].step = step]
Done(s) == script' = [script EXCEPT ![s] = [Idle EXCEPT !.step = "done"]]

\* a script that ends with its own drain still on cancels it first
GiveUp(s) == IF script[s].drained # Nobody THEN Goto(s, "cancel") ELSE Done(s)

Begin(s) ==
  /\ script[s] = Idle
  /\ \E op \in ScriptOps :
       script' = [script EXCEPT ![s] =
         [op |-> op, pid |-> Nobody, drained |-> Nobody,
          step |-> CASE op = "start" -> "start"
                     [] op \in {"stop", "force"} -> "stop"
                     [] op = "restart" -> "guard"]]
  /\ UNCHANGED <<proc, port, pidFile, controlFile, work, drainer>>

\* a script is killed: its clean-up does not run
Abandon(s) ==
  /\ script[s].step \notin {"idle", "done"} /\ Done(s)
  /\ UNCHANGED <<proc, port, pidFile, controlFile, work, drainer>>

-----------------------------------------------------------------------------
(* restart_guard                                                             *)

Guard(s) ==
  /\ script[s].step = "guard"
  /\ pidFile' = ResolvedPidFile
  /\ \/ Resolved = Nobody /\ Goto(s, "stop")
     \/ /\ Resolved # Nobody /\ controlFile = Resolved
        /\ script' = [script EXCEPT ![s].step = "poll", ![s].pid = Resolved,
                                    ![s].drained = Resolved]
     \/ Resolved # Nobody /\ controlFile # Resolved /\ Done(s)
  /\ UNCHANGED <<proc, port, controlFile, work, drainer>>

\* mutant: the answer is not read
Poll_Unread(s) ==
  LET p == script[s].drained IN
  /\ script[s].step = "poll"
  /\ proc[p] = "serving" /\ BeginDrain(p, s) /\ Goto(s, "stop")
  /\ UNCHANGED <<proc, port, pidFile, controlFile, work>>

\* one request for the drain: drained, not yet, not yet and too late, or refused
Poll(s) ==
  LET p == script[s].drained IN
  /\ script[s].step = "poll"
  /\ \/ /\ proc[p] = "serving" /\ BeginDrain(p, s)
        /\ \/ work[p] = {} /\ Goto(s, "stop")
           \/ work[p] # {} /\ script' \in {script, [script EXCEPT ![s].step = "cancel"]}
     \/ /\ ~(proc[p] = "serving" /\ drainer[p] \in {Nobody, s})
        /\ Goto(s, "cancel") /\ UNCHANGED drainer
  /\ UNCHANGED <<proc, port, pidFile, controlFile, work>>

Cancel(s) ==
  /\ script[s].step = "cancel"
  /\ CancelDrain(script[s].drained, s)
  /\ Done(s)
  /\ UNCHANGED <<proc, port, pidFile, controlFile, work>>

-----------------------------------------------------------------------------
(* stop_service                                                              *)

\* SIGKILL: no clean-up of the process runs
Kill(p) ==
  /\ proc' = [proc EXCEPT ![p] = "zombie"]
  /\ work' = [work EXCEPT ![p] = {}]
  /\ drainer' = [drainer EXCEPT ![p] = Nobody]
  /\ Closed(p)

\* what follows a stop: nothing, or the start of a restart
Stopped(s) == IF script[s].op = "stop" THEN Done(s) ELSE Goto(s, "start")

\* nobody to stop, or SIGTERM
Stop(s) ==
  LET p == Resolved IN
  /\ script[s].step = "stop"
  /\ pidFile' = ResolvedPidFile
  /\ \/ /\ p = Nobody /\ Stopped(s) /\ UNCHANGED proc
     \/ /\ p # Nobody
        /\ proc' = [proc EXCEPT ![p] = IF @ = "booting" THEN "zombie" ELSE "exiting"]
        /\ script' = [script EXCEPT ![s].step = "term", ![s].pid = p]
  /\ UNCHANGED <<port, controlFile, work, drainer>>

\* the process ends within the grace period, or it is killed
Terminate(s) ==
  LET p == script[s].pid IN
  /\ script[s].step = "term" /\ Goto(s, "release")
  /\ IF IsAlive(p) THEN Kill(p) ELSE UNCHANGED <<proc, work, drainer, port>>
  /\ UNCHANGED <<pidFile, controlFile>>

\* the port is free, or it is not in time and the script ends
AwaitRelease(s) ==
  /\ script[s].step = "release"
  /\ \/ ~PortOpen /\ pidFile' = Nobody /\ Stopped(s)
     \/ PortOpen /\ GiveUp(s) /\ UNCHANGED pidFile
  /\ UNCHANGED <<proc, port, controlFile, work, drainer>>

-----------------------------------------------------------------------------
(* start_service                                                             *)

\* the port decides; then the pid file
Start(s) ==
  /\ script[s].step = "start"
  /\ \/ /\ PortOpen /\ pidFile' = port /\ GiveUp(s)
     \/ /\ ~PortOpen /\ IsAlive(pidFile)
        /\ Goto(s, "wait") /\ UNCHANGED pidFile
     \/ /\ ~PortOpen /\ ~IsAlive(pidFile)
        /\ pidFile' = Nobody /\ Goto(s, "launch")
  /\ UNCHANGED <<proc, port, controlFile, work, drainer>>

\* a live process that does not listen yet: it does in time, or it is called wedged
AwaitListening(s) ==
  /\ script[s].step = "wait" /\ GiveUp(s)
  /\ UNCHANGED <<proc, port, pidFile, controlFile, work, drainer>>

Launch(s) ==
  /\ script[s].step = "launch"
  /\ \E p \in Pids :
       /\ proc[p] = "none"
       /\ proc' = [proc EXCEPT ![p] = "booting"]
       /\ pidFile' = p
       /\ script' = [script EXCEPT ![s].step = "booting", ![s].pid = p]
  /\ UNCHANGED <<port, controlFile, work, drainer>>

\* it is ready, or it has ended, or it is not ready in time and is killed
AwaitReady(s) ==
  LET p == script[s].pid IN
  /\ script[s].step = "booting" /\ GiveUp(s)
  /\ \/ /\ PortOpen /\ port = p /\ controlFile = p
        /\ UNCHANGED <<proc, work, drainer, pidFile, port>>
     \/ /\ ~(PortOpen /\ port = p /\ controlFile = p)
        /\ IF IsAlive(p) THEN Kill(p) ELSE UNCHANGED <<proc, work, drainer, port>>
        /\ pidFile' = Nobody
  /\ UNCHANGED controlFile

-----------------------------------------------------------------------------
ScriptStep(s) ==
  \/ Guard(s) \/ Poll(s) \/ Cancel(s)
  \/ Stop(s) \/ Terminate(s) \/ AwaitRelease(s)
  \/ Start(s) \/ AwaitListening(s) \/ Launch(s) \/ AwaitReady(s)

ServiceNext ==
  \/ \E p \in Pids : Acquire(p) \/ Release(p) \/ Expire(p) \/ Bind(p) \/ FailToBoot(p) \/ Exit(p)
  \/ ClosePort
  \/ \E s \in Scripts : Begin(s) \/ Abandon(s) \/ ScriptStep(s)

ServiceSpec == ServiceInit /\ [][ServiceNext]_serviceVars

-----------------------------------------------------------------------------
(* Properties                                                                *)

\* A restart signals the process it has drained only when no work is left in it,
\* whatever other scripts do: nothing is admitted between the answer "drained" and
\* the signal (restart_guard, lifecycle_service._acquire).
DrainedIsIdle ==
  \A s \in Scripts :
    script[s].step = "stop" /\ script[s].drained # Nobody /\ proc[script[s].drained] = "serving"
      => work[script[s].drained] = {}
=============================================================================
