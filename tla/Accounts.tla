------------------------------ MODULE Accounts ------------------------------
(* Who may administer the system and its platforms: the roles of the users,   *)
(* the platforms with their owners and administrators, and the requests to     *)
(* register a platform (api/routes/auth.py, api/routes/platforms.py and their  *)
(* calls of the store).  A route runs on a thread of its own and each call of   *)
(* the store is a transaction of its own, so what one checked may no longer    *)
(* hold when it writes.  A platform is known by its key, which is unique.      *)
EXTENDS Naturals, FiniteSets

CONSTANTS
  People, Seed,        \* the accounts, and the one every start creates or restores
  Keys, Standalone,   \* the platforms, and the one that is built in
  Filings,            \* the rows of registration requests
  MaxCalls,           \* bound: calls that were begun
  MaxBoots            \* bound: restarts of the server

ASSUME AccountsAssumption ==
  /\ Seed \in People /\ Standalone \in Keys
  /\ {"roles", "none", "page", "boot"} \cap (Keys \cup Filings) = {}

VARIABLES
  role,       \* [People -> the role of the account, "none" before its first login]
  platform,   \* [Keys -> its row and its administrators]
  filing,     \* [Filings -> the request]
  act,        \* [People -> the call the user has under way]
  overlaps,   \* ghost: what two calls that do not see each other have changed
  calls, boots

accountsVars == <<role, platform, filing, act, overlaps, calls, boots>>

NoPlatform == [owner |-> Seed, admins |-> {}, primary |-> {}, from |-> "none"]
NoFiling == [key |-> Standalone, by |-> Seed, status |-> "none"]
NoAct == [op |-> "none"]

Exists(k) == platform[k].admins # {} \/ platform[k].from # "none"
Admins == {u \in People : role[u] = "system_admin"}
Known(u) == role[u] # "none"

\* A platform is created together with the row of its first administrator.
Owned(u, from) == [owner |-> u, admins |-> {u}, primary |-> {u}, from |-> from]

AccountsInit ==
  /\ role \in {f \in [People -> {"none", "user", "system_admin"}] : f[Seed] = "system_admin"}
  /\ platform = [k \in Keys |-> IF k = Standalone THEN Owned(Seed, "boot") ELSE NoPlatform]
  /\ filing = [f \in Filings |-> NoFiling]
  /\ act = [u \in People |-> NoAct]
  /\ overlaps = {} /\ calls = 0 /\ boots = 0

Starts(u) == act[u] = NoAct /\ calls < MaxCalls /\ calls' = calls + 1 /\ UNCHANGED boots
Stays == UNCHANGED <<calls, boots>>
Doing(u, a) == act' = [act EXCEPT ![u] = a]
Ends(u) == Doing(u, NoAct)

----------------------------------------------------------------------------
(* The roles. *)

Changing == {u \in People : act[u].op = "role"}

BeginRole(a, u, new) ==
  /\ role[a] = "system_admin" /\ Known(u) /\ Starts(a)
  /\ Doing(a, [op |-> "role", user |-> u, new |-> new, seen |-> role[u], at |-> "count"])
  /\ overlaps' = IF Changing = {} THEN overlaps ELSE overlaps \cup {"roles"}
  /\ UNCHANGED <<role, platform, filing>>

\* mutant: the count is compared with zero
IsLastAdmin_Zero(c) == c.seen = "system_admin" /\ c.new # "system_admin" /\ Cardinality(Admins) <= 0
\* The last administrator of the system keeps the role.
IsLastAdmin(c) == c.seen = "system_admin" /\ c.new # "system_admin" /\ Cardinality(Admins) <= 1

CountAdmins(a) ==
  /\ act[a].op = "role" /\ act[a].at = "count"
  /\ IF IsLastAdmin(act[a]) THEN Ends(a) ELSE Doing(a, [act[a] EXCEPT !.at = "write"])
  /\ Stays /\ UNCHANGED <<role, platform, filing, overlaps>>

WriteRole(a) ==
  /\ act[a].op = "role" /\ act[a].at = "write"
  /\ role' = [role EXCEPT ![act[a].user] = act[a].new]
  /\ Ends(a) /\ Stays /\ UNCHANGED <<platform, filing, overlaps>>

FirstLogin(u) ==
  /\ ~Known(u) /\ Starts(u)
  /\ role' = [role EXCEPT ![u] = "user"]
  /\ UNCHANGED <<platform, filing, act, overlaps>>

\* A login of a user the store knows writes back the role it has read.
LaterLogin(u) ==
  /\ u # Seed /\ Known(u) /\ Starts(u)
  /\ Doing(u, [op |-> "role", user |-> u, new |-> role[u], seen |-> role[u], at |-> "write"])
  /\ overlaps' = IF Changing = {} THEN overlaps ELSE overlaps \cup {"roles"}
  /\ UNCHANGED <<role, platform, filing>>

----------------------------------------------------------------------------
(* The platforms. *)

CreatePlatform(a, k, u) ==
  /\ role[a] = "system_admin" /\ k # Standalone /\ Known(u) /\ ~Exists(k) /\ Starts(a)
  /\ platform' = [platform EXCEPT ![k] = Owned(u, "page")]
  /\ UNCHANGED <<role, filing, act, overlaps>>

AssignAdmin(a, k, u) ==
  /\ role[a] = "system_admin" /\ Exists(k) /\ Known(u) /\ Starts(a)
  /\ platform' = [platform EXCEPT ![k].admins = @ \cup {u}]
  /\ UNCHANGED <<role, filing, act, overlaps>>

\* mutant: the owner is removed like the others
MayRemove_Owner(k, u) == u \in platform[k].admins /\ Cardinality(platform[k].admins) > 1
\* Neither the last administrator nor the owner is removed.
MayRemove(k, u) == /\ u \in platform[k].admins /\ Cardinality(platform[k].admins) > 1
                   /\ platform[k].owner # u

BeginRemove(a, k, u) ==
  /\ role[a] = "system_admin" /\ Exists(k) /\ MayRemove(k, u) /\ Starts(a)
  /\ Doing(a, [op |-> "remove", key |-> k, user |-> u])
  /\ UNCHANGED <<role, platform, filing, overlaps>>

RemoveAdmin(a) ==
  /\ act[a].op = "remove"
  /\ platform' = [platform EXCEPT ![act[a].key].admins = @ \ {act[a].user},
                                  ![act[a].key].primary = @ \ {act[a].user}]
  /\ Ends(a) /\ Stays /\ UNCHANGED <<role, filing, overlaps>>

\* A call that has checked the administrators of k, or the owner it will have, and not written.
Rests(k) == {a \in People : \/ act[a].op = "remove" /\ act[a].key = k
                            \/ act[a].op = "approve" /\ filing[act[a].of].key = k}

NewOwner(k, u) == [platform EXCEPT ![k].owner = u, ![k].admins = @ \cup {u}, ![k].primary = {u}]

SetOwner(a, k, u) ==
  /\ role[a] = "system_admin" /\ Exists(k) /\ Known(u) /\ Starts(a)
  /\ platform' = NewOwner(k, u)
  /\ overlaps' = IF Rests(k) = {} THEN overlaps ELSE overlaps \cup {k}
  /\ UNCHANGED <<role, filing, act>>

----------------------------------------------------------------------------
(* The requests to register a platform. *)

\* The unique index over the requests that are pending or approved.
Taken(k) == {f \in Filings : filing[f].key = k /\ filing[f].status \in {"pending", "approved"}}

BeginFile(u, k) ==
  /\ Known(u) /\ k # Standalone /\ ~Exists(k) /\ Starts(u)
  /\ Doing(u, [op |-> "file", key |-> k])
  /\ UNCHANGED <<role, platform, filing, overlaps>>

FileRequest(u) ==
  /\ act[u].op = "file"
  /\ IF Taken(act[u].key) = {}
       THEN \E f \in {g \in Filings : filing[g] = NoFiling} :
              filing' = [filing EXCEPT ![f] = [key |-> act[u].key, by |-> u, status |-> "pending"]]
       ELSE UNCHANGED filing
  /\ Ends(u) /\ Stays /\ UNCHANGED <<role, platform, overlaps>>

\* Both reviews read the request before they write.
Reviews(f) == {a \in People : act[a].op \in {"approve", "reject"} /\ act[a].of = f}
\* mutant: what was approved may still be reviewed
IsOpen_Approved(f) == filing[f].status \in {"pending", "approved"}
IsOpen(f) == filing[f].status = "pending"

BeginReview(a, f, op) ==
  /\ role[a] = "system_admin" /\ IsOpen(f) /\ (op = "approve" => ~Exists(filing[f].key))
  /\ Starts(a)
  /\ Doing(a, [op |-> op, of |-> f, at |-> "checked"])
  /\ overlaps' = IF Reviews(f) = {} THEN overlaps ELSE overlaps \cup {f}
  /\ UNCHANGED <<role, platform, filing>>

\* Another platform of that key: the approval is refused.
CreateApproved(a) ==
  /\ act[a].op = "approve" /\ act[a].at = "checked"
  /\ LET f == act[a].of  k == filing[f].key
     IN IF Exists(k) THEN Ends(a) /\ UNCHANGED platform
        ELSE /\ platform' = [platform EXCEPT ![k] = Owned(filing[f].by, f)]
             /\ Doing(a, [act[a] EXCEPT !.at = "created"])
  /\ Stays /\ UNCHANGED <<role, filing, overlaps>>

AddApplicant(a) ==
  /\ act[a].op = "approve" /\ act[a].at = "created"
  /\ LET f == act[a].of
     IN platform' = [platform EXCEPT ![filing[f].key].admins = @ \cup {filing[f].by},
                                     ![filing[f].key].primary = @ \cup {filing[f].by}]
  /\ Doing(a, [act[a] EXCEPT !.at = "added"])
  /\ Stays /\ UNCHANGED <<role, filing, overlaps>>

\* The index may refuse the status: the route fails and the platform stays.
Approve(a) ==
  /\ act[a].op = "approve" /\ act[a].at = "added"
  /\ LET f == act[a].of
     IN filing' = IF Taken(filing[f].key) \subseteq {f}
                    THEN [filing EXCEPT ![f].status = "approved"] ELSE filing
  /\ Ends(a) /\ Stays /\ UNCHANGED <<role, platform, overlaps>>

Reject(a) ==
  /\ act[a].op = "reject"
  /\ filing' = [filing EXCEPT ![act[a].of].status = "rejected"]
  /\ Ends(a) /\ Stays /\ UNCHANGED <<role, platform, overlaps>>

----------------------------------------------------------------------------
\* An approval that is past the creation of its platform.
Approving(f) == {a \in Reviews(f) : act[a].op = "approve" /\ act[a].at # "checked"}

\* A restart cuts every call off.  The start makes the seed account an administrator and a
\* primary one of the built-in platform, and every owner who is one a primary one.
Reboot ==
  /\ boots < MaxBoots /\ boots' = boots + 1
  /\ role' = [role EXCEPT ![Seed] = "system_admin"]
  /\ platform' = [k \in Keys |->
       LET p == platform[k]
           backfilled == p.primary \cup ({p.owner} \cap p.admins)
           seeded == IF k = Standalone THEN {Seed} ELSE {}
       IN [p EXCEPT !.admins = @ \cup seeded, !.primary = backfilled \cup seeded]]
  /\ act' = [u \in People |-> NoAct]
  /\ overlaps' = overlaps \cup {f \in Filings : Approving(f) # {}}
  /\ UNCHANGED <<filing, calls>>

AccountsNext ==
  \/ \E a, u \in People, new \in {"user", "system_admin"} : BeginRole(a, u, new)
  \/ \E a \in People : \/ CountAdmins(a) \/ WriteRole(a) \/ FirstLogin(a) \/ LaterLogin(a)
                       \/ RemoveAdmin(a) \/ FileRequest(a) \/ CreateApproved(a) \/ AddApplicant(a)
                       \/ Approve(a) \/ Reject(a)
  \/ \E a, u \in People, k \in Keys :
       \/ CreatePlatform(a, k, u) \/ AssignAdmin(a, k, u) \/ BeginRemove(a, k, u)
       \/ SetOwner(a, k, u)
  \/ \E u \in People, k \in Keys : BeginFile(u, k)
  \/ \E a \in People, f \in Filings, op \in {"approve", "reject"} : BeginReview(a, f, op)
  \/ Reboot

AccountsTypeOK ==
  /\ role \in [People -> {"none", "user", "system_admin"}]
  /\ \A k \in Keys : platform[k].owner \in People /\ platform[k].primary \subseteq platform[k].admins
  /\ filing \in [Filings -> [key : Keys, by : People,
                              status : {"none", "pending", "approved", "rejected"}]]
  /\ overlaps \subseteq Keys \cup Filings \cup {"roles"}

----------------------------------------------------------------------------
\* The system keeps an administrator (api/routes/auth.py:91), unless two changes of roles, or
\* a change and a login, went on at the same time.
AdminRemains == "roles" \in overlaps \/ Admins # {}

\* The owner of a platform is one of its administrators and its primary one, the only one but
\* for the seed account on the built-in platform, unless the owner was changed while another
\* call rested on who it was (api/routes/platforms.py:122, 140).
PlatformsAreOwned == \A k \in Keys \ overlaps : Exists(k) =>
  /\ platform[k].owner \in platform[k].primary
  /\ platform[k].primary \subseteq {platform[k].owner} \cup (IF k = Standalone THEN {Seed} ELSE {})

\* A platform that comes from a request belongs to one that is approved, or is about to be,
\* and an approved request has its platform (platforms.py:213), unless two reviews of the
\* request went on together or a restart cut the approval off.
RequestsAreSettled == \A f \in Filings \ overlaps :
  /\ (\E k \in Keys : platform[k].from = f) => filing[f].status = "approved" \/ Approving(f) # {}
  /\ filing[f].status = "approved" => platform[filing[f].key].from = f

AccountsAreSound == AdminRemains /\ PlatformsAreOwned /\ RequestsAreSettled
=============================================================================
