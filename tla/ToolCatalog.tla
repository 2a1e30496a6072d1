------------------------------ MODULE ToolCatalog ------------------------------
(***************************************************************************)
(* ToolCatalogService: the tools that the sources of a host (its page, the *)
(* cache of what it fetches on demand, other integrations) give to one     *)
(* session.  Mutations run under a lock and may name the revision they     *)
(* were computed from; a run works with a snapshot of the catalog and, by  *)
(* its refresh policy, takes a new one between its rounds.                 *)
(*                                                                         *)
(* A descriptor is its execution contract: the schema of its input, and    *)
(* all the rest (route, method, credentials) as one value.                 *)
(***************************************************************************)
EXTENDS Naturals

CONSTANTS
  Tools, Schemas, Routes,
  Clients,        \* requests that read the catalog and then change it
  MaxChanges      \* revisions

ASSUME CatalogAssumption == MaxChanges \in Nat

Absence == [schema |-> 0, route |-> 0]       \* no such tool of that source
Descriptors == [schema : Schemas, route : Routes]
Sources == {"page", "cache", "other"}         \* in the order of _source_priority
Before(a, b) == \/ a = "page" /\ b # "page"
                \/ a = "cache" /\ b = "other"

VARIABLES
  collections,    \* session.host_tool_collections
  revision,       \* session.host_tools_revision
  view,           \* what the clients have read: revision and collections
  snapshot,       \* the catalog of the run, when there is one: policy, revision, tools
  superseded      \* per tool, the cached descriptors that the page has replaced since the
                  \* cache last brought the tool
catalogVars == <<collections, revision, view, snapshot, superseded>>

Catalogs == [Sources -> [Tools -> Descriptors \cup {Absence}]]
NoTools == [s \in Sources |-> [t \in Tools |-> Absence]]
NoRun == [policy |-> "none", revision |-> 0, tools |-> [t \in Tools |-> Absence]]

CatalogTypeOK ==
  /\ collections \in Catalogs
  /\ revision \in 0..MaxChanges
  /\ view \in [Clients -> [revision : 0..MaxChanges, collections : Catalogs]]
  /\ snapshot \in [policy : {"none", "static_run", "round_boundary"}, revision : 0..MaxChanges,
                   tools : [Tools -> Descriptors \cup {Absence}]]
  /\ superseded \in [Tools -> SUBSET Descriptors]

CatalogInit ==
  /\ collections = NoTools /\ revision = 0
  /\ view = [c \in Clients |-> [revision |-> 0, collections |-> NoTools]]
  /\ snapshot = NoRun
  /\ superseded = [t \in Tools |-> {}]

Has(k, s, t) == k[s][t] # Absence

\* the page of a host stands for an entry of the cache that differs in the schema only
Stale(k, t) ==
  /\ Has(k, "page", t) /\ Has(k, "cache", t)
  /\ k["page"][t].schema # k["cache"][t].schema /\ k["page"][t].route = k["cache"][t].route

\* mutant: the stale entries are hidden and stay where they are
Cleaned_Hidden(k) == k

\* _commit drops them from what is stored
Cleaned(k) ==
  [k EXCEPT !["cache"] = [t \in Tools |-> IF Stale(k, t) THEN Absence ELSE @[t]]]

\* what _compose serves: the first source in order of priority
Served(k) ==
  [t \in Tools |->
     IF \E s \in Sources : Has(k, s, t)
     THEN k[CHOOSE s \in Sources : Has(k, s, t) /\ \A a \in Sources : Has(k, a, t) => ~Before(a, s)][t]
     ELSE Absence]

\* mutant: a schema may differ between any two sources
Agreeing_Routes(k) ==
  \A s \in Sources, t \in Tools : Has(k, s, t) => k[s][t].route = Served(k)[t].route

\* ... and _compose refuses any other difference from it
Agreeing(k) ==
  \A s \in Sources, t \in Tools : Has(k, s, t) =>
    k[s][t] = Served(k)[t] \/ (s = "cache" /\ Stale(k, t))

-----------------------------------------------------------------------------
\* mutant: the revision counts the changes of what is served
Revision_Served(k) == IF Served(k) = Served(collections) THEN revision ELSE revision + 1

\* every change of the stored collections has a revision of its own
Revision(k) == IF k = collections THEN revision ELSE revision + 1

\* _commit: k is what the mutation asks for; an invalid catalog changes nothing
Commit(k) ==
  /\ revision < MaxChanges /\ Agreeing(k)
  /\ collections' = Cleaned(k)
  /\ revision' = Revision(Cleaned(k))
  /\ superseded' = [t \in Tools |->
       IF Stale(k, t) THEN superseded[t] \cup {k["cache"][t]}
       ELSE IF k["cache"][t] # collections["cache"][t] THEN {} ELSE superseded[t]]

\* replace: all the tools of a source, or of every source
ReplaceTools(s, tools, all) ==
  LET kept == IF all THEN NoTools ELSE collections IN
  /\ Commit([kept EXCEPT ![s] = tools])
  /\ UNCHANGED <<view, snapshot>>

ReadCatalog(c) ==
  /\ view' = [view EXCEPT ![c] = [revision |-> revision, collections |-> collections]]
  /\ UNCHANGED <<collections, revision, snapshot, superseded>>

\* apply_operations: one tool of a source, on the revision that was read
PatchTool(c, s, t, d) ==
  /\ view[c].revision = revision
  /\ Commit([collections EXCEPT ![s][t] = d])
  /\ UNCHANGED <<view, snapshot>>

-----------------------------------------------------------------------------
\* create_catalog_snapshot at the start of a run
BeginRun(policy) ==
  /\ snapshot.policy = "none"
  /\ snapshot' = [policy |-> policy, revision |-> revision, tools |-> Served(collections)]
  /\ UNCHANGED <<collections, revision, view, superseded>>

\* ... and between its rounds
RefreshRound ==
  /\ snapshot.policy = "round_boundary"
  /\ snapshot' = [policy |-> snapshot.policy, revision |-> revision, tools |-> Served(collections)]
  /\ UNCHANGED <<collections, revision, view, superseded>>

EndRun ==
  /\ snapshot.policy # "none"
  /\ snapshot' = NoRun
  /\ UNCHANGED <<collections, revision, view, superseded>>

CatalogNext ==
  \/ \E s \in Sources, tools \in [Tools -> Descriptors \cup {Absence}], all \in BOOLEAN :
       ReplaceTools(s, tools, all)
  \/ \E c \in Clients, s \in Sources, t \in Tools, d \in Descriptors \cup {Absence} :
       PatchTool(c, s, t, d)
  \/ \E c \in Clients : ReadCatalog(c)
  \/ \E policy \in {"static_run", "round_boundary"} : BeginRun(policy)
  \/ RefreshRound \/ EndRun

CatalogSpec == CatalogInit /\ [][CatalogNext]_catalogVars

-----------------------------------------------------------------------------
(* Properties                                                                *)

\* A revision names one content: what a client read, or a run took, under the current
\* revision is the current catalog, so that the compare-and-swap of a mutation loses no
\* update (expected_revision, and revision in the manifest of an attempt).
RevisionNamesContent ==
  /\ \A c \in Clients : view[c].revision = revision => view[c].collections = collections
  /\ snapshot.policy # "none" /\ snapshot.revision = revision => snapshot.tools = Served(collections)

\* The page replaces an outdated entry of the cache for good: when the page withdraws
\* the tool later, the old schema is not served again (tool_catalog_service.py:289).
SupersededStaysGone ==
  \A t \in Tools : ~Has(collections, "page", t) /\ Has(collections, "cache", t) =>
    collections["cache"][t] \notin superseded[t]

\* What is stored can be composed again: no order of updates of the sources leaves a
\* session whose every later snapshot raises.
StoredComposes ==
  \A s \in Sources, t \in Tools : Has(collections, s, t) => collections[s][t] = Served(collections)[t]

CatalogIsCoherent == RevisionNamesContent /\ SupersededStaysGone /\ StoredComposes
=============================================================================
