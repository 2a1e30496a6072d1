---------------------------- MODULE ModelConfig ----------------------------
(* Which model a conversation runs with, and what its settings page shows     *)
(* (services/llm_config_service.py and the llm_configs tables).  The server     *)
(* has a deployment of its own; a platform and a user may each store another.   *)
(* The user's row wins as a whole, but a sampling parameter is inherited        *)
(* through the layers: a layer leaves it unset, gives a value, or asks for the   *)
(* default of the model.  The run (resolve_for_conversation) and the page        *)
(* (resolve_summary_for_user) compute this along two paths.  The rows of         *)
(* accounts and of embedded users are treated alike: one row here.               *)
EXTENDS Naturals

CONSTANTS
  Deployments, Own,   \* model, base_url and api_format of a row; those of the server
  Revisions,          \* deployment_revision, which a row may leave out
  ApiKeys             \* the keys a user may give

ASSUME ConfigAssumption == Own \in Deployments /\ {"none"} \cap (Revisions \cup ApiKeys) = {}

VARIABLES
  config,     \* [Layers -> the row]
  secret,     \* the api_key of the user's row
  saving,     \* a save of the user that has read the key it keeps
  wanted,     \* ghost: the key the user asked for last
  overtaken     \* ghost: another save was written while `saving` was under way

configVars == <<config, secret, saving, wanted, overtaken>>

Layers == {"platform", "user"}
NoConfig == [state |-> "absent"]
\* Of a disabled row nothing else counts.
Disabled == [state |-> "disabled"]
Settings ==
  {Disabled} \cup [state : {"enabled"}, deployment : Deployments,
                   parameter : {"unset", "value", "default"}, revision : Revisions \cup {"none"}]

ConfigInit ==
  /\ config = [l \in Layers |-> NoConfig] /\ secret = "none"
  /\ saving = "nothing" /\ wanted = "none" /\ overtaken = FALSE

Enabled(l) == config[l].state = "enabled"

-----------------------------------------------------------------------------
(* The pages save the whole form. *)

\* What a save under way has read is now stale.
Crosses == overtaken' = (saving # "nothing")

SavePlatform(s) ==
  /\ config' = [config EXCEPT !["platform"] = s]
  /\ UNCHANGED <<secret, saving, wanted, overtaken>>

SaveUser(s, k) ==
  /\ config' = [config EXCEPT !["user"] = s]
  /\ secret' = k /\ wanted' = k /\ Crosses /\ UNCHANGED saving

\* No key in the form: the row keeps the one it has.
BeginKeep ==
  /\ saving = "nothing" /\ config["user"] # NoConfig
  /\ saving' = secret
  /\ UNCHANGED <<config, secret, wanted, overtaken>>

\* mutant: a form without a key clears the key
Kept_None == "none"
Kept == saving

EndKeep(s) ==
  /\ saving # "nothing"
  /\ config' = [config EXCEPT !["user"] = s]
  /\ secret' = Kept /\ saving' = "nothing"
  /\ UNCHANGED <<wanted, overtaken>>

DeletePlatform ==
  /\ config' = [config EXCEPT !["platform"] = NoConfig]
  /\ UNCHANGED <<secret, saving, wanted, overtaken>>

DeleteUser ==
  /\ config' = [config EXCEPT !["user"] = NoConfig]
  /\ secret' = "none" /\ wanted' = "none" /\ Crosses /\ UNCHANGED saving

ConfigNext ==
  \/ \E s \in Settings : SavePlatform(s) \/ EndKeep(s)
  \/ \E s \in Settings, k \in ApiKeys \cup {"none"} : SaveUser(s, k)
  \/ BeginKeep \/ DeletePlatform \/ DeleteUser

-----------------------------------------------------------------------------
(* The sampling of a deployment: the layer its value comes from, and its         *)
(* revision.                                                                     *)

Global(deployment) ==
  [value |-> IF deployment = Own THEN "global" ELSE "none", revision |-> "none"]

\* _merge_sampling
Merge(base, l) ==
  LET row == config[l]
  IN [value |-> CASE row.parameter = "unset" -> base.value
                  [] row.parameter = "default" -> "none"
                  [] row.parameter = "value" -> l,
      revision |-> IF row.revision = "none" THEN base.revision ELSE row.revision]

\* mutant: revisions are not compared
SameDeployment_AnyRevision(l, deployment, revision) == config[l].deployment = deployment
SameDeployment(l, deployment, revision) ==
  /\ config[l].deployment = deployment
  /\ "none" \in {revision, config[l].revision} \/ revision = config[l].revision

\* resolve_for_conversation
Winner == IF Enabled("user") THEN "user" ELSE IF Enabled("platform") THEN "platform" ELSE "global"

\* mutant: the platform's parameters apply to every deployment
Inherits_Always == Enabled("platform")
Inherits == /\ Enabled("platform")
            /\ SameDeployment("platform", config[Winner].deployment, config[Winner].revision)

Sampling ==
  IF Winner = "global" THEN Global(Own)
  ELSE LET base == Global(config[Winner].deployment)
           platform == IF Inherits THEN Merge(base, "platform") ELSE base
       IN IF Enabled("user") THEN Merge(platform, "user") ELSE platform

\* _resolve_merged_sampling: the target is the user's row if it is enabled, else the
\* platform's, enabled or not, or none at all
ShownSampling ==
  LET target == IF Enabled("user") THEN "user" ELSE "platform"
      base == IF Enabled(target) THEN Global(config[target].deployment) ELSE Global(Own)
      inherits == /\ Enabled("platform")
                  /\ SameDeployment("platform", config[target].deployment, config[target].revision)
      platform == IF inherits THEN Merge(base, "platform") ELSE base
  IN IF Enabled("user") THEN Merge(platform, "user") ELSE platform

\* _sampling_sources: the last layer of this deployment that says something of the parameter
Label(values, deployment) ==
  LET Speaks(l) == /\ Enabled(l) /\ SameDeployment(l, deployment, values.revision)
                   /\ config[l].parameter # "unset"
      Says(l) == [layer |-> l, what |-> config[l].parameter]
  IN IF Speaks("user") THEN Says("user")
     ELSE IF Speaks("platform") THEN Says("platform")
     ELSE IF values.value = "none" THEN [layer |-> "model", what |-> "default"]
     ELSE [layer |-> "global", what |-> "value"]

ConfigTypeOK ==
  /\ config \in [Layers -> Settings \cup {NoConfig}]
  /\ {secret, wanted} \subseteq ApiKeys \cup {"none"} /\ overtaken \in BOOLEAN

-----------------------------------------------------------------------------
\* The page shows what the next run uses; its label names the layer the value comes from, or
\* says that the model decides; a value of a layer reaches only its own deployment; and the
\* key that is used is the one the user asked for last, unless two saves overlapped
\* (llm_config_service.py:157, 204, 265, 381).
ConfigIsWhatIsShown ==
  LET deployment == IF Winner = "global" THEN Own ELSE config[Winner].deployment
      label == Label(Sampling, deployment)
  IN /\ ShownSampling = Sampling
     /\ Sampling.value = (IF label.what = "value" THEN label.layer ELSE "none")
     /\ Sampling.value \in Layers =>
          LET row == config[Sampling.value]
          IN /\ row.deployment = deployment
             /\ row.revision \in {"none", Sampling.revision}
     /\ Sampling.value = "global" => deployment = Own
     /\ overtaken \/ secret = wanted
=============================================================================
