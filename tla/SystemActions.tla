--------------------------- MODULE SystemActions ---------------------------
(***************************************************************************)
(* The deployment of the system actions: a call of wsk that is tried again *)
(* with growing pauses until a deadline (nuv_retry).                       *)
(***************************************************************************)
EXTENDS GithubApp

CONSTANTS
  Deadline,    \* deadline_seconds, in units of time
  MaxBackoff,  \* max_backoff
  MaxDuration  \* bound: how long an attempt takes

ASSUME RetryAssumption == {Deadline, MaxBackoff, MaxDuration} \subseteq Nat \ {0}

prepare_system_actions ==
  {"login", "secrets", "content", "redis", "psql", "minio", "devel_upload",
   "ferretdb", "devel_download"}

VARIABLES
  deployed,  \* the system actions there are
  listed,    \* what wsk has answered in the present attempt
  retry      \* how far the deployment is

deploymentVars == <<deployed, listed, retry>>

backoff_delay(n, random) ==
  LET delay == 2 ^ n + random IN IF delay < MaxBackoff THEN delay ELSE MaxBackoff

\* Mutant: the pause is not counted.
in_time_without_pause(now, delay) == now < Deadline

in_time(now, delay) == now + delay < Deadline

----------------------------------------------------------------------------

deploy_whisk_system_action ==
  /\ scenario.deployments
  /\ retry' = [at |-> "deploy", n |-> 0, time |-> 0]
  /\ UNCHANGED <<scenario, faults, deployed, listed>>

whisk_post_create == retry.at = "none" /\ deploy_whisk_system_action

\* The operator, started again, deploys the actions again; an attempt the
\* former process was at is over.
whisk_post_resume == retry.at # "none" /\ deploy_whisk_system_action

\* An attempt raises; nuv_retry pauses or gives up.
Raises(duration) ==
  LET now == retry.time + duration
  IN \E random \in {0, 1} :
       LET delay == backoff_delay(retry.n, random)
       IN IF in_time(now, delay)
            THEN retry' = [at |-> "deploy", n |-> retry.n + 1, time |-> now + delay]
            ELSE retry' = [retry EXCEPT !.at = "failed"]

\* wsk project deploy, and then wsk action list if it has succeeded.
wsk_project_deploy(duration) ==
  /\ retry.at = "deploy"
  /\ \/ /\ deployed' = prepare_system_actions
        /\ retry' = [retry EXCEPT !.at = "list"]
     \/ \* It exits with an error, or without the word Success.
        /\ \E some \in {{}, {"login", "content"}} : deployed' = deployed \union some
        /\ Raises(duration)
  /\ UNCHANGED <<scenario, faults, listed>>

process_wsk_result(ok, names) == ok /\ "login" \in names

wsk_action_list(duration) ==
  /\ retry.at = "list"
  /\ \E ok \in BOOLEAN :
       /\ listed' = IF ok THEN deployed ELSE {}
       /\ IF process_wsk_result(ok, listed')
            THEN retry' = [retry EXCEPT !.at = "created"]
            ELSE Raises(duration)
  /\ UNCHANGED <<scenario, faults, deployed>>

DeploymentInit ==
  /\ listed = {}
  /\ retry = [at |-> "none", n |-> 0, time |-> 0]

DeploymentNext ==
  \/ whisk_post_create
  \/ whisk_post_resume
  \/ \E duration \in 0 .. MaxDuration :
       wsk_project_deploy(duration) \/ wsk_action_list(duration)

DeploymentTypeOK ==
  /\ deployed \subseteq prepare_system_actions
  /\ listed \subseteq prepare_system_actions
  /\ retry \in [at : {"none", "deploy", "list", "created", "failed"}, n : Nat,
                time : Nat]
=============================================================================
