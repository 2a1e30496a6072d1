------------------------------- MODULE HostCalls ------------------------------
(* Calls of the tools of a host, with the credentials the host gave the       *)
(* session, the refresh after a 401 and the one repetition it allows          *)
(* (services/tool_service.py).  The page may bind new credentials at any      *)
(* time, and a subagent starts with a copy of its parent's.                   *)
EXTENDS Integers
CONSTANTS Callers, Helpers, MaxIssued
ASSUME HelpersAssumption == Helpers \subseteq Callers /\ MaxIssued \in Nat
VARIABLES held,     \* host_context["auth"] of each session: [token, refresh]
          call,     \* the call of each session: [at, carried, grant, tries, effects, result]
          accepted, \* the tokens the host takes
          renews,   \* the refresh tokens the host takes
          issued,   \* how many the host has issued
          spoiled   \* ghost: sessions whose refresh token another one may have used
hostVars == <<held, call, accepted, renews, issued, spoiled>>

NoAuth == [token |-> 0, refresh |-> 0]
HostCall(at, carried, grant, tries, effects, result) ==
  [at |-> at, carried |-> carried, grant |-> grant, tries |-> tries, effects |-> effects, result |-> result]
NoHostCall == HostCall("idle", 0, NoAuth, 0, 0, "none")

HostTypeOK ==
  /\ \A s \in Callers :
       /\ held[s].token \in 0..issued /\ held[s].refresh \in 0..issued
       /\ call[s].at \in {"idle", "sent", "performed", "refused", "refreshing", "granted", "done"}
       /\ call[s].tries \in 0..2 /\ call[s].effects \in 0..2
       /\ call[s].result \in {"none", "success", "failed", "refused", "unknown", "forbidden"}
  /\ accepted \subseteq 1..issued /\ renews \subseteq 1..issued /\ issued \in 0..MaxIssued /\ spoiled \subseteq Callers

HostInit ==
  /\ held = [s \in Callers |-> NoAuth] /\ call = [s \in Callers |-> NoHostCall]
  /\ accepted = {} /\ renews = {} /\ issued = 0 /\ spoiled = {}

-------------------------------------------------------------------------------
\* bind_host replaces the whole context, with credentials or without
BindAuth(s) ==
  /\ s \notin Helpers /\ issued < MaxIssued /\ issued' = issued + 1
  /\ accepted' = accepted \cup {issued'} /\ renews' = renews \cup {issued'}
  /\ held' = [held EXCEPT ![s] = [token |-> issued', refresh |-> issued']]
  /\ spoiled' = spoiled \ {s} /\ UNCHANGED call

BindNothing(s) ==
  /\ s \notin Helpers /\ held' = [held EXCEPT ![s] = NoAuth] /\ spoiled' = spoiled \ {s} /\ UNCHANGED <<call, accepted, renews, issued>>

\* clone_host_state: a subagent has its own copy of the credentials
CopyAuth(s, c) ==
  /\ s \notin Helpers /\ c \in Helpers /\ call[c] = NoHostCall /\ held[c] = NoAuth /\ held[s] # NoAuth
  /\ held' = [held EXCEPT ![c] = held[s]]
  /\ spoiled' = spoiled \cup {s, c} /\ UNCHANGED <<call, accepted, renews, issued>>

\* a token of the host runs out
Expire(n) ==
  /\ n \in accepted /\ accepted' = accepted \ {n} /\ UNCHANGED <<held, call, renews, issued, spoiled>>

-------------------------------------------------------------------------------
To(s, at, carried, grant, tries, effects) ==
  call' = [call EXCEPT ![s] = HostCall(at, carried, grant, tries, effects, "none")]
Ended(s, result, effects) == call' = [call EXCEPT ![s] = HostCall("done", 0, NoAuth, 0, effects, result)]
Done(s, result) == Ended(s, result, call[s].effects)

\* _invoke_host_tool: a tool that requires auth is not called without it
CallHost(s, requiresAuth) ==
  /\ call[s].at \in {"idle", "done"}
  /\ IF requiresAuth /\ held[s] = NoAuth
     THEN Ended(s, "forbidden", 0)
     ELSE To(s, "sent", IF requiresAuth THEN held[s].token ELSE -1, NoAuth, 1, 0)
  /\ UNCHANGED <<held, accepted, renews, issued, spoiled>>

\* the host does what it is asked; a request without credentials is for anyone
HostPerforms(s) ==
  /\ call[s].at = "sent" /\ call[s].carried \in accepted \cup {-1}
  /\ To(s, "performed", call[s].carried, call[s].grant, call[s].tries, call[s].effects + 1)
  /\ UNCHANGED <<held, accepted, renews, issued, spoiled>>

HostAnswers(s) ==
  /\ call[s].at = "performed" /\ Done(s, "success")
  /\ UNCHANGED <<held, accepted, renews, issued, spoiled>>

\* what the code makes of an error status: mutant: any error is met with a new token
IsRefused_Any(status) == TRUE
IsRefused(status) == status = 401

\* any error but a 401 is passed on, with what the host says of it
HostFails(s) ==
  /\ call[s].at \in {"sent", "performed"}
  /\ IF IsRefused(503) /\ call[s].tries = 1
     THEN To(s, "refused", 0, call[s].grant, call[s].tries, call[s].effects)
     ELSE Done(s, "failed")
  /\ UNCHANGED <<held, accepted, renews, issued, spoiled>>

HostRefuses(s) ==
  /\ call[s].at = "sent" /\ call[s].carried \notin accepted \cup {-1}
  /\ IF IsRefused(401) /\ call[s].tries = 1
     THEN To(s, "refused", 0, call[s].grant, call[s].tries, call[s].effects)
     ELSE Done(s, "refused")
  /\ UNCHANGED <<held, accepted, renews, issued, spoiled>>

\* _refresh_token: with the refresh token the session holds now, if it has one
AskRefresh(s) ==
  /\ call[s].at = "refused"
  /\ IF held[s].refresh = 0 THEN Done(s, "refused")
     ELSE To(s, "refreshing", held[s].refresh, call[s].grant, call[s].tries, call[s].effects)
  /\ UNCHANGED <<held, accepted, renews, issued, spoiled>>

\* the host gives a new token; with rotation it gives a new refresh token as
\* well, and does not take the old one again
HostGrants(s, rotates) ==
  /\ call[s].at = "refreshing" /\ call[s].carried \in renews /\ issued < MaxIssued
  /\ issued' = issued + 1 /\ accepted' = accepted \cup {issued'}
  /\ renews' = IF rotates THEN (renews \ {call[s].carried}) \cup {issued'} ELSE renews
  /\ To(s, "granted", call[s].carried, [token |-> issued', refresh |-> IF rotates THEN issued' ELSE 0],
         call[s].tries, call[s].effects)
  /\ UNCHANGED <<held, spoiled>>

HostDenies(s) ==
  /\ call[s].at = "refreshing" /\ call[s].carried \notin renews /\ Done(s, "refused")
  /\ UNCHANGED <<held, accepted, renews, issued, spoiled>>

\* mutant: only the token of the answer is kept
Granted_TokenOnly(old, grant) == [old EXCEPT !.token = grant.token]
Granted(old, grant) ==
  [token |-> grant.token, refresh |-> IF grant.refresh = 0 THEN old.refresh ELSE grant.refresh]

\* the answer goes into the context the session has by now, and the request is
\* repeated; a context without credentials is an error that counts as no token
RepeatCall(s) ==
  /\ call[s].at = "granted"
  /\ IF held[s] = NoAuth THEN Done(s, "refused") /\ UNCHANGED <<held, spoiled>>
     ELSE /\ held' = [held EXCEPT ![s] = Granted(held[s], call[s].grant)]
          /\ spoiled' = IF call[s].grant.refresh = 0 THEN spoiled ELSE spoiled \ {s}
          /\ To(s, "sent", Granted(held[s], call[s].grant).token, call[s].grant, 2, call[s].effects)
  /\ UNCHANGED <<accepted, renews, issued>>

\* the refresh gets no answer, or an invalid one
RefreshLost(s) ==
  /\ call[s].at \in {"refreshing", "granted"} /\ Done(s, "refused")
  /\ spoiled' = spoiled \cup {s} /\ UNCHANGED <<held, accepted, renews, issued>>

\* the time limit of the call, or of a request to the host, or an abort: the
\* host may still perform what it was sent
GiveUpCall(s) ==
  /\ call[s].at \notin {"idle", "done"}
  /\ \E late \in {0, IF call[s].at = "sent" /\ call[s].carried \in accepted \cup {-1} THEN 1 ELSE 0} :
       Ended(s, "unknown", call[s].effects + late)
  /\ spoiled' = IF call[s].at \in {"refreshing", "granted"} THEN spoiled \cup {s} ELSE spoiled
  /\ UNCHANGED <<held, accepted, renews, issued>>

HostNext ==
  \/ \E s \in Callers :
       \/ BindAuth(s) \/ BindNothing(s) \/ HostPerforms(s) \/ HostAnswers(s) \/ HostFails(s) \/ HostRefuses(s)
       \/ AskRefresh(s) \/ HostDenies(s) \/ RepeatCall(s) \/ RefreshLost(s) \/ GiveUpCall(s)
       \/ \E b \in BOOLEAN : CallHost(s, b) \/ HostGrants(s, b)
  \/ \E s, c \in Callers : CopyAuth(s, c)
  \/ \E n \in 1..MaxIssued : Expire(n)

HostSpec == HostInit /\ [][HostNext]_hostVars

-------------------------------------------------------------------------------
\* One call of the model is at most one effect at the host, although a call may
\* be sent twice; what is reported as done was done, and what is reported as
\* refused was not.  Only an unknown or failed outcome leaves it open.
EffectsOnce ==
  \A s \in Callers :
    /\ call[s].effects <= 1
    /\ call[s].result = "success" => call[s].effects = 1
    /\ call[s].result \in {"refused", "forbidden"} => call[s].effects = 0

\* A session that shares its credentials with no subagent, and got the answers
\* to its refreshes, can refresh again: whatever the page binds meanwhile, it
\* never keeps a refresh token the host has replaced.
StillRefreshable ==
  \A s \in Callers \ spoiled : held[s] # NoAuth /\ call[s].at # "granted" => held[s].refresh \in renews

HostCallsAreSound == EffectsOnce /\ StillRefreshable
===============================================================================
