------------------------------- MODULE Extensions ------------------------------
(***************************************************************************)
(* One entry of the extension store (ExtensionStoreService): its immutable *)
(* versions, the artifact of each on disk, and two authors who publish and *)
(* manage it from what they have read.  publish and manage hold the write  *)
(* lock of the database from BEGIN IMMEDIATE to the commit, so each is one *)
(* step; the file is written before the commit, which may fail.            *)
(***************************************************************************)
EXTENDS Naturals, Sequences

CONSTANTS
  Makers,          \* users and hosts that publish
  Creator,         \* the one whose key the identifier of the entry is made from
  Labels,          \* version numbers
  Bundles,         \* contents of an artifact
  Tokens,          \* idempotency keys
  MaxTrail,        \* bound: changes of the entry
  NoExtension

VARIABLES
  shelf,           \* the row of extension_entries
  release,         \* rows of extension_versions
  disk,            \* the artifact below the directory of a version
  form,            \* the request each maker composed, sent once or again
  trail            \* extension_audit_events
extensionsVars == <<shelf, release, disk, form, trail>>

Policies == {"creator_only", "platform_members"}
Entry == [author : Makers, policy : Policies, status : {"active", "unlisted"},
          revision : 1 .. MaxTrail, current : Labels]
Publication == [op : {"publish"}, by : Makers, label : Labels, bundle : Bundles, token : Tokens,
                expected : 0 .. MaxTrail, base : Labels \cup {NoExtension}]
Administration == [op : {"manage"}, by : Makers, policy : Policies, status : {"active", "unlisted"},
                   expected : 0 .. MaxTrail]

ASSUME ExtensionsAssumption ==
  /\ Creator \in Makers /\ MaxTrail \in Nat
  /\ NoExtension \notin Makers \cup Labels \cup Bundles \cup Tokens
  /\ NoExtension \notin Entry \cup Publication \cup Administration \cup [form : Publication, policy : Policies]

ExtensionsTypeOK ==
  /\ shelf \in Entry \cup {NoExtension}
  /\ release \in [Labels -> [form : Publication, policy : Policies] \cup {NoExtension}]
  /\ disk \in [Labels -> Bundles \cup {NoExtension}]
  /\ form \in [Makers -> Publication \cup Administration \cup {NoExtension}]
  /\ trail \in Seq(Publication \cup Administration)

ExtensionsInit ==
  /\ shelf = NoExtension
  /\ release = [v \in Labels |-> NoExtension] /\ disk = [v \in Labels |-> NoExtension]
  /\ form = [m \in Makers |-> NoExtension]
  /\ trail = << >>

\* inspect, then the request: the revision and the version it was made from
ComposePublication(m) ==
  /\ form[m] = NoExtension /\ (shelf = NoExtension => m = Creator)
  /\ \E label \in Labels, bundle \in Bundles, token \in Tokens :
       form' = [form EXCEPT ![m] =
         [op |-> "publish", by |-> m, label |-> label, bundle |-> bundle, token |-> token,
          expected |-> IF shelf = NoExtension THEN 0 ELSE shelf.revision,
          base |-> IF shelf = NoExtension THEN NoExtension ELSE shelf.current]]
  /\ UNCHANGED <<shelf, release, disk, trail>>

ComposeAdministration(m) ==
  /\ form[m] = NoExtension /\ shelf # NoExtension
  /\ \E policy \in Policies, status \in {"active", "unlisted"} :
       form' = [form EXCEPT ![m] = [op |-> "manage", by |-> m, policy |-> policy, status |-> status,
                                    expected |-> shelf.revision]]
  /\ UNCHANGED <<shelf, release, disk, trail>>

\* mutant: the check is left to the page
May_Anyone(q) == shelf # NoExtension => shelf.status = "active"

\* who may publish into an entry that exists
May(q) ==
  shelf # NoExtension =>
    /\ q.by = shelf.author \/ shelf.policy = "platform_members"
    /\ shelf.status = "active"

\* the fingerprint covers the policy that holds when the request is served
Repeated(q) ==
  /\ shelf # NoExtension /\ release[q.label] # NoExtension
  /\ release[q.label] = [form |-> q, policy |-> shelf.policy]

\* mutant: the version of the entry is compared, not its revision or its base
UpToDate_LabelOnly(q) == release[q.label] = NoExtension

\* the entry is what the request was made from, and the version is new
UpToDate(q) ==
  /\ shelf # NoExtension => q.expected = shelf.revision /\ q.base = shelf.current
  /\ release[q.label] = NoExtension

\* the client may not hear the answer and keep its request
Reply(q) ==
  form' = form \/ form' = [form EXCEPT ![q.by] = NoExtension]

Accept(q) ==
  /\ disk' = [disk EXCEPT ![q.label] = q.bundle]
  /\ shelf' = IF shelf = NoExtension
              THEN [author |-> q.by, policy |-> "creator_only", status |-> "active", revision |-> 1, current |-> q.label]
              ELSE [shelf EXCEPT !.revision = @ + 1, !.current = q.label]
  /\ release' = [release EXCEPT ![q.label] = [form |-> q, policy |-> shelf'.policy]]
  /\ trail' = Append(trail, q)

PublishVersion(m) ==
  LET q == form[m] IN
  /\ q # NoExtension /\ q.op = "publish"
  /\ \/ May(q) /\ Repeated(q) /\ Reply(q) /\ UNCHANGED <<shelf, release, disk, trail>>
     \/ May(q) /\ ~Repeated(q) /\ UpToDate(q) /\ Len(trail) < MaxTrail /\ Accept(q) /\ Reply(q)
     \* the transaction fails after the file was written
     \/ /\ May(q) /\ ~Repeated(q) /\ UpToDate(q)
        /\ disk' = [disk EXCEPT ![q.label] = q.bundle]
        /\ UNCHANGED <<shelf, release, form, trail>>
     \/ /\ ~May(q) \/ (~Repeated(q) /\ ~UpToDate(q))
        /\ form' = [form EXCEPT ![m] = NoExtension]
        /\ UNCHANGED <<shelf, release, disk, trail>>

\* only the author, or an administrator, and only what the request has seen
Manage(m) ==
  LET q == form[m] IN
  /\ q # NoExtension /\ q.op = "manage"
  /\ IF q.by = shelf.author /\ q.expected = shelf.revision /\ Len(trail) < MaxTrail
     THEN /\ shelf' = [shelf EXCEPT !.policy = q.policy, !.status = q.status, !.revision = @ + 1]
          /\ trail' = Append(trail, q)
          /\ Reply(q)
     ELSE form' = [form EXCEPT ![m] = NoExtension] /\ UNCHANGED <<shelf, trail>>
  /\ UNCHANGED <<release, disk>>

ExtensionsNext ==
  \E m \in Makers : ComposePublication(m) \/ ComposeAdministration(m) \/ PublishVersion(m) \/ Manage(m)

\* the state of the entry after the first n changes, by the audit trail
PolicyAfter(n) ==
  LET set == {i \in 1 .. n : trail[i].op = "manage"}
  IN  IF set = {} THEN "creator_only" ELSE trail[CHOOSE i \in set : \A j \in set : j <= i].policy
StatusAfter(n) ==
  LET set == {i \in 1 .. n : trail[i].op = "manage"}
  IN  IF set = {} THEN "active" ELSE trail[CHOOSE i \in set : \A j \in set : j <= i].status

\* Nobody's version is lost or changed (publish, manage): each was made from the one before
\* it, by someone who was allowed to when it was accepted; what its row names is on disk,
\* whatever failed meanwhile; a request that is sent again counts once, and the revision
\* counts the changes.
ExtensionsAreSound ==
  /\ \A i \in DOMAIN trail :
       LET q == trail[i]
           before == {j \in 1 .. i - 1 : trail[j].op = "publish"}
       IN  /\ q.expected = i - 1
           /\ i > 1 /\ q.by # trail[1].by => q.op = "publish" /\ PolicyAfter(i - 1) = "platform_members"
           /\ q.op = "publish" =>
                /\ StatusAfter(i - 1) = "active"
                /\ release[q.label] # NoExtension /\ release[q.label].form = q /\ disk[q.label] = q.bundle
                /\ IF before = {} THEN q.base = NoExtension
                   ELSE q.base = trail[CHOOSE j \in before : \A k \in before : k <= j].label
  /\ shelf # NoExtension => shelf.revision = Len(trail)
=============================================================================
