------------------------------ MODULE MCSessions ------------------------------
(* What belongs to sessions and to the platforms they are opened on, for TLC:  *)
(* thirteen modules that share no state.  The initial state chooses the part a   *)
(* behaviour is about (focus), the others rest.                                 *)
EXTENDS Checkpoints, Conversations, Compaction, ToolCatalog, WorkspaceRuntime, WorkspaceSync,
        SharedSkills, Migration, Accounts, Images, ModelStream, ModelConfig, Extensions
CONSTANTS o1, o2, r1, r2, r3, u1, u2, c1, c2, k1, t1, page, x1, x2, f1, f2, d1, d2, b1, b2, l1, l2,
          w1, w2, k0, g1, g2
VARIABLE focus

Init ==
  /\ focus \in {"checkpoints", "conversations", "compaction", "catalog", "runtime", "sync", "skills", "migration",
                "accounts", "images", "stream", "config", "extensions"}
  /\ CheckpointsInit /\ ConversationsInit /\ CompactionInit /\ CatalogInit /\ RuntimeInit /\ SyncInit /\ SkillsInit
  /\ MigrationInit /\ AccountsInit /\ ImagesInit /\ StreamInit /\ ConfigInit
  /\ ExtensionsInit
  \* a part that rests starts in one state
  /\ focus = "compaction" \/ mode = "client"
  /\ focus = "skills" \/ (baseline = d1 /\ known = {b1})
  /\ focus = "accounts" \/ role = [u \in People |-> "system_admin"]
  /\ focus = "stream" \/ (answer = <<"text">> /\ style.protocol = "chat")

Next ==
  \/ focus = "checkpoints" /\ CheckpointsNext
  \/ focus = "conversations" /\ ConversationsNext
  \/ focus = "compaction" /\ CompactionNext
  \/ focus = "catalog" /\ CatalogNext
  \/ focus = "runtime" /\ RuntimeNext
  \/ focus = "sync" /\ SyncNext
  \/ focus = "skills" /\ SkillsNext
  \/ focus = "migration" /\ MigrationNext
  \/ focus = "accounts" /\ AccountsNext
  \/ focus = "images" /\ ImagesNext
  \/ focus = "stream" /\ StreamNext
  \/ focus = "config" /\ ConfigNext
  \/ focus = "extensions" /\ ExtensionsNext

Rest ==
  /\ UNCHANGED focus
  /\ IF focus = "checkpoints" THEN TRUE ELSE UNCHANGED checkpointsVars
  /\ IF focus = "conversations" THEN TRUE ELSE UNCHANGED conversationsVars
  /\ IF focus = "compaction" THEN TRUE ELSE UNCHANGED compactionVars
  /\ IF focus = "catalog" THEN TRUE ELSE UNCHANGED catalogVars
  /\ IF focus = "runtime" THEN TRUE ELSE UNCHANGED runtimeVars
  /\ IF focus = "sync" THEN TRUE ELSE UNCHANGED syncVars
  /\ IF focus = "skills" THEN TRUE ELSE UNCHANGED skillsVars
  /\ IF focus = "migration" THEN TRUE ELSE UNCHANGED migrationVars
  /\ IF focus = "accounts" THEN TRUE ELSE UNCHANGED accountsVars
  /\ IF focus = "images" THEN TRUE ELSE UNCHANGED imagesVars
  /\ IF focus = "stream" THEN TRUE ELSE UNCHANGED streamVars
  /\ IF focus = "config" THEN TRUE ELSE UNCHANGED configVars
  /\ IF focus = "extensions" THEN TRUE ELSE UNCHANGED extensionsVars

allVars == <<focus, checkpointsVars, conversationsVars, compactionVars, catalogVars, runtimeVars,
             syncVars, skillsVars, migrationVars, accountsVars, imagesVars, streamVars, configVars, extensionsVars>>
Spec == Init /\ [][Next /\ Rest]_allVars
SyncSpec == Spec /\ focus = "sync"

\* Nothing tells the commands apart but their names.
CommandSymmetry == Permutations(Commands)

\* What comes after a divergence is not followed: after a command that starts during a
\* recovery, a container made too late, a listing that writes back a replaced row (while
\* nothing fails it is), a copy that another writer overtook, a creation that was given up,
\* calls about accounts that do not see each other.  Nobody lists after a fault.
NotRaced ==
  /\ {"recovery", "late"} \cap raced = {} /\ (raced = {} \/ faults = 0)
  /\ (faults > 0 => listing = NoRow)
  /\ torn = {} /\ abandoned = 0 /\ overlaps = {}

TypesOK ==
  CASE focus = "checkpoints" -> CheckpointsTypeOK
    [] focus = "conversations" -> ConversationsTypeOK
    [] focus = "compaction" -> CompactionTypeOK
    [] focus = "catalog" -> CatalogTypeOK
    [] focus = "runtime" -> RuntimeTypeOK
    [] focus = "sync" -> SyncTypeOK
    [] focus = "skills" -> SkillsTypeOK
    [] focus = "migration" -> MigrationTypeOK
    [] focus = "accounts" -> AccountsTypeOK
    [] focus = "images" -> ImagesTypeOK
    [] focus = "stream" -> StreamTypeOK
    [] focus = "config" -> ConfigTypeOK
    [] focus = "extensions" -> ExtensionsTypeOK

\* A session that is held can be saved, and one that was deleted stays deleted
\* (Checkpoints.tla).
SessionsAreKept == LiveSessionCanSave /\ DeletedStaysDeleted

\* What a host asks for is done once, and its tools stay what it said last
\* (Conversations.tla, ToolCatalog.tla).
HostsAreServed == RequestsKeepApart /\ CatalogIsCoherent

\* The stores of files that outlive a command lose nothing (SharedSkills.tla, Migration.tla
\* and WorkspaceSync.tla): the versions workspaces refer to, the directories of old sessions,
\* and what a command has deleted stays deleted.
FilesAreKept ==
  /\ focus = "skills" => SharedSkillsAreKept
  /\ focus = "migration" => LegacyIsKept
  /\ focus = "sync" => DeletionsLast

\* Accounts, platforms, their images and the extensions of their store (Accounts.tla,
\* Images.tla, Extensions.tla).
PlatformsAreSound ==
  /\ focus = "accounts" => AccountsAreSound
  /\ focus = "images" => ImagesAreSound
  /\ focus = "extensions" => ExtensionsAreSound

\* What a model says, and which one is asked (ModelStream.tla, ModelConfig.tla).
ModelIsSound ==
  /\ focus = "stream" => StreamIsFaithful
  /\ focus = "config" => ConfigIsWhatIsShown
=============================================================================
