------------------------------ MODULE Platform ------------------------------
(***************************************************************************)
(* The platform around the operator: who gets an account and loses it      *)
(* (GithubApp), the web actions that work on behalf of the accounts        *)
(* (SystemActions, WebActions), the executor of their actions              *)
(* (CronExecutor), the limits it meets (NamespaceLimits), the databases    *)
(* below all of them (DatabaseInit), and the workflows beside them         *)
(* (Workflows).  They share the accounts, and the failures that are spent  *)
(* on them.                                                                *)
(***************************************************************************)
EXTENDS WebActions, CronExecutor, DatabaseInit, Workflows

CONSTANT Scenarios  \* what may happen, and how often

ASSUME ScenariosAssumption ==
  \A s \in Scenarios :
    /\ s.logins \subseteq Login
    /\ s.accounts \subseteq Login
    /\ s.given \subseteq [Limit -> Allows \union {Unset}]
    /\ \A t \in s.templates : t \in Template /\ t.cmd \in Command[t.action]

vars ==
  <<scenario, faults, appVars, deploymentVars, webVars, limitVars, cronVars,
    databaseVars, workflowVars>>

NotApp == UNCHANGED appVars
NotDeployment == UNCHANGED deploymentVars
NotWeb == UNCHANGED webVars
NotLimits == UNCHANGED limitVars
NotCron == UNCHANGED cronVars
NotDatabases == UNCHANGED databaseVars
NotWorkflows == UNCHANGED workflowVars
NotBeside == NotDatabases /\ NotWorkflows

----------------------------------------------------------------------------

\* An administrator makes, and makes anew, a user without the app; the new
\* resource has another password and other keys.
ApplyUser(l) ==
  /\ wsku[l] = 0 /\ updates < scenario.updates
  /\ updates' = updates + 1
  /\ wsku' = [wsku EXCEPT ![l] = MaxVisits + updates']
  /\ disturbed' = disturbed \union underway_of(l)
  /\ UNCHANGED <<scenario, faults, setup, leaving, users, made, clock, actions,
                 job, expected, served>>

DeleteUser(l) ==
  /\ wsku[l] # 0 /\ l \notin leaving /\ updates < scenario.updates
  /\ updates' = updates + 1
  /\ leaving' = leaving \union {l}
  /\ UNCHANGED <<scenario, faults, setup, wsku, users, appHistory, clock,
                 actions, job, expected, served>>

Administrator(l) ==
  /\ ApplyUser(l) \/ DeleteUser(l)
  /\ NotDeployment /\ NotWeb /\ NotLimits /\ NotBeside

\* Deleting a user removes neither its actions nor its limits.
Operator(l) ==
  /\ \/ whisk_user_create(l) /\ NotWeb
     \/ whisk_user_delete(l) /\ Cleared(l)
  /\ expected' = {e \in expected : owner_of[e[1]] # l}
  /\ UNCHANGED <<clock, actions, updates, job, served>>
  /\ NotDeployment /\ NotLimits /\ NotBeside

App ==
  AppNext /\ NotDeployment /\ NotWeb /\ NotLimits /\ NotCron /\ NotBeside

Deployment ==
  DeploymentNext /\ NotApp /\ NotWeb /\ NotLimits /\ NotCron /\ NotBeside

\* A request by the holder of the key of an account, present or past.
Ask(r) ==
  /\ \E t \in scenario.templates : t.key <= MaxVisits + updates /\ Asks(r, t)
  /\ NotApp /\ NotDeployment /\ NotLimits /\ NotCron /\ NotBeside

Web(r) ==
  Answering(r) /\ NotApp /\ NotDeployment /\ NotLimits /\ NotCron /\ NotBeside

Limits ==
  LimitsNext /\ NotApp /\ NotDeployment /\ NotWeb /\ NotCron /\ NotBeside

ExceptCron == NotApp /\ NotDeployment /\ NotWeb /\ NotLimits /\ NotBeside
Cron == CronNext /\ ExceptCron

ExceptDatabases ==
  NotApp /\ NotDeployment /\ NotWeb /\ NotLimits /\ NotCron /\ NotWorkflows
Databases == DatabasesNext /\ ExceptDatabases

ExceptWorkflows ==
  NotApp /\ NotDeployment /\ NotWeb /\ NotLimits /\ NotCron /\ NotDatabases
Workflow == WorkflowsNext /\ ExceptWorkflows

Next ==
  \/ App
  \/ \E l \in Login : Operator(l) \/ Administrator(l)
  \/ Deployment
  \/ \E r \in Request : Ask(r) \/ Web(r)
  \/ Limits
  \/ Cron
  \/ Databases
  \/ Workflow

Init ==
  /\ scenario \in Scenarios
  /\ AppInit /\ DeploymentInit /\ WebInit /\ LimitsInit /\ CronInit
  /\ DatabasesInit /\ WorkflowsInit
  /\ wsku = [l \in Login |-> IF l \in scenario.accounts THEN MaxVisits ELSE 0]
  /\ users = wsku
  /\ deployed = IF scenario.deployments THEN {} ELSE prepare_system_actions

\* The operator handles what there is, time passes, and the jobs run.
Fairness ==
  /\ \A l \in Login : WF_vars(Operator(l))
  /\ WF_vars(Tick /\ ExceptCron)
  /\ \A j \in Job : WF_vars(Running(j) /\ ExceptCron)
  /\ WF_vars(Dbinit /\ ExceptDatabases)
  /\ WF_vars(WorkflowHandler /\ ExceptWorkflows)
  /\ WF_vars(config_from_spec /\ ExceptWorkflows)

Spec == Init /\ [][Next]_vars /\ Fairness

----------------------------------------------------------------------------
(* Properties.                                                             *)

TypeOK ==
  /\ scenario \in Scenarios
  /\ AppTypeOK /\ DeploymentTypeOK /\ WebTypeOK /\ LimitsTypeOK /\ CronTypeOK
  /\ DatabasesTypeOK /\ WorkflowsTypeOK

\* The page of the callback that congratulates a user shows the password of
\* an account that was made: however often it is loaded, whatever the webhook
\* and the operator do meanwhile, unless one of its calls failed or the app
\* was installed twice at the same time.
ShownPasswordIsTheAccounts ==
  \A v \in Visit \ disturbed : visit[v].page = "account" => v \in made

\* What a web action has reported as stored is kept until something else is
\* stored in its place or its user removes it: moving, copying and cleaning
\* up lose nothing, whatever calls of the store fail.
ContentIsKept ==
  \A r \in reported \ given_up : \E p \in Place : objects[p] = r

\* An action is invoked for every instant of its cron expression, by the job
\* of the first instant of the executor's schedule from there, however the
\* jobs overlap, and though each may start one instant late: unless a request
\* of that job failed, it died, or the action or its owner changed.  Of a job
\* that starts later than that, only what it still looks back on is claimed.
EveryInstantIsServed ==
  \A e \in expected :
    LET t == served_at(e[2])
    IN \/ from_to(e[2], clock) < from_to(e[2], t)
       \/ \E j \in Job : job[j].at # "none" /\ job[j].scheduled = t
       \/ e \in served

\* An action that is to be executed once is not executed for ever: in the
\* end the executor takes the annotation away, if the owner has an account
\* and the limits of the namespace let it be invoked.
AutoexecIsRetired ==
  \A a \in Action :
    scenario.clock /\ actions[a].autoexec
      ~> \/ ~actions[a].autoexec
         \/ users[owner_of[a]] = 0
         \/ throttled(owner_of[a])

\* The limits of a namespace are those wskadmin has said to be set, whichever
\* of its commands overlap, unless a request failed.
LimitsAccumulate ==
  \A ns \in Login \ spoilt : limits[ns].says = granted[ns]

\* The deployment of the system actions ends: no attempt begins after the
\* deadline.  And the status it reports is true: when it is "created" the
\* actions are there.
DeploymentIsTimely ==
  /\ retry.at = "deploy" => retry.time < Deadline
  /\ retry.at = "created" => "login" \in deployed

\* The job that prepares CouchDB is complete only when all that it puts on the
\* volume is there, whatever attempts failed or died before and whatever an
\* earlier deployment has left.
CompleteIsPrepared ==
  dbinit.status = "complete" =>
    \A c \in Range(calls_of_init) : on_the_volume(c) => c \in couch

\* And on an empty volume it does complete, unless a call fails, a pod dies or
\* CouchDB is deleted.
DatabasesAreInitialised ==
  dbinit.status = "pending" /\ couch = {}
    ~> dbinit.status \in {"complete", "none"} \/ marred

\* The jobs that create and delete a workflow never exist at the same time, and
\* a workflow whose creation is handled has a job of its own, not one that an
\* earlier resource of the same name has left, unless the removal of a job
\* failed, which the handlers ignore.
WorkflowsHaveTheirJobs ==
  /\ exists("create") /\ exists("delete") =>
       {jobs["create"].of, jobs["delete"].of} \intersect lingering # {}
  /\ workflow.at = "live" /\ workflow.handled =>
       jobs["create"].of \in lingering \union {workflow.number}

\* A creation or a deletion of a workflow is handled in the end, unless the
\* resource lacks what a job is rendered from, or its job was applied when it,
\* or the configuration map, said something else.
WorkflowsAreHandled == to_be_handled ~> ~to_be_handled \/ hopeless

\* What the operator has begun beside the Whisk resource is completed: CouchDB is
\* prepared and the workflows are handled.
WorkIsCompleted == DatabasesAreInitialised /\ WorkflowsAreHandled
=============================================================================
