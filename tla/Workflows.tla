------------------------------ MODULE Workflows ------------------------------
(***************************************************************************)
(* A Workflows resource and its two Kubernetes jobs.  The handlers of the  *)
(* operator remove the job of the opposite handler and apply their own,    *)
(* rendered from the resource and from the configuration map; kopf calls a *)
(* handler that raised, or that died with the process, again.              *)
(***************************************************************************)
EXTENDS GithubApp

\* The schema requires nothing: an image, the list of the workflows or the
\* parameters of one may be missing.
CONSTANTS
  Complete,   \* specifications that have all that a job is rendered from
  Incomplete  \* one that has not

VARIABLES
  workflow,      \* the resource: its state, its number, its specification,
                 \* and whether its creation has been handled
  jobs,          \* the job of each handler: for which resource it was made and
                 \* the template it was made from
  running,       \* the handler kopf runs, with the resource it was called with
  configured,    \* what the configuration map has: the key, the address
  requests,      \* how many requests of users there were
  lingering      \* history: the resources of which the removal of a job failed

workflowVars ==
  <<workflow, jobs, running, configured, requests, lingering>>

NoWorkflow == [at |-> "absent", number |-> 0, spec |-> Incomplete, handled |-> FALSE]

Undone == [of |-> 0, spec |-> Incomplete, known |-> {}]

Idle == [step |-> "idle", action |-> "create", number |-> 0, spec |-> Incomplete]

exists(action) == jobs[action].of # 0

\* Mutant: a handler removes its own job.
opposite_own(action) == action

opposite(action) == IF action = "create" THEN "delete" ELSE "create"

----------------------------------------------------------------------------
(* Requests of users.                                                      *)

Request_of_user ==
  /\ requests < scenario.workflows /\ requests' = requests + 1
  /\ UNCHANGED <<scenario, faults, jobs, running, configured, lingering>>

\* A resource is made anew, or edited; no handler is called for an edit.
ApplyWorkflow(s) ==
  /\ Request_of_user
  /\ workflow' = CASE workflow.at = "absent" ->
                        [at |-> "live", number |-> workflow.number + 1,
                         spec |-> s, handled |-> FALSE]
                   [] OTHER -> [workflow EXCEPT !.spec = s]
  /\ workflow.at = "absent" \/ (workflow.at = "live" /\ workflow.spec # s)

DeleteWorkflow ==
  /\ Request_of_user
  /\ workflow.at = "live" /\ workflow' = [workflow EXCEPT !.at = "deleting"]

----------------------------------------------------------------------------
(* The handlers.                                                           *)

Called(action) ==
  /\ running.step = "idle"
  /\ running' = [step |-> "remove", action |-> action,
                 number |-> workflow.number, spec |-> workflow.spec]
  /\ UNCHANGED <<scenario, faults, workflow, jobs, configured, requests, lingering>>

workflows_create ==
  workflow.at = "live" /\ ~workflow.handled /\ Called("create")

workflows_delete == workflow.at = "deleting" /\ Called("delete")

Goes_to(step) == running' = [running EXCEPT !.step = step]

\* kubectl delete of the other job, whose failure is ignored.
removes_other_job ==
  LET job_name == opposite(running.action)
  IN /\ running.step = "remove"
     /\ Goes_to("apply")
     /\ \/ /\ jobs' = [jobs EXCEPT ![job_name] = Undone]
           /\ UNCHANGED <<faults, lingering>>
        \/ /\ Fault /\ exists(job_name)
           /\ lingering' = lingering \union {jobs[job_name].of}
           /\ UNCHANGED jobs
     /\ UNCHANGED <<scenario, workflow, configured, requests>>

\* What the configuration map does not have is undefined in the job.
generate_job == [of |-> running.number, spec |-> running.spec, known |-> configured]

same_template(j, k) == j.spec = k.spec /\ j.known = k.known

\* The template of a job that exists can not be changed.
applies_job ==
  LET job == generate_job
      there == exists(running.action)
      fits == ~there \/ same_template(job, jobs[running.action])
      applied == [jobs EXCEPT ![running.action] = IF there THEN @ ELSE job]
  IN /\ running.step = "apply"
     /\ IF running.spec \in Complete /\ fits
          THEN \/ /\ jobs' = applied
                  /\ Goes_to("status")
                  /\ UNCHANGED faults
               \/ /\ Fault /\ running' = Idle
                  /\ jobs' \in {jobs, applied}
          ELSE running' = Idle /\ UNCHANGED <<faults, jobs>>
     /\ UNCHANGED <<scenario, workflow, configured, requests, lingering>>

\* Mutant: kopf is told of a creation only.
succeeded_created(action) == [workflow EXCEPT !.handled = TRUE]

\* kopf lets the resource go, or does not call the handler again.
succeeded(action) ==
  IF action = "delete" THEN [workflow EXCEPT !.at = "absent"]
  ELSE [workflow EXCEPT !.handled = TRUE]

\* The jobs are counted; only then has the handler succeeded.
status ==
  /\ running.step = "status"
  /\ running' = Idle
  /\ \/ /\ workflow' = succeeded(running.action)
        /\ UNCHANGED faults
     \/ Fault /\ UNCHANGED workflow
  /\ UNCHANGED <<scenario, jobs, configured, requests, lingering>>

\* The process dies, at any moment, and knows nothing of the Whisk resource.
operator_restarts ==
  /\ Fault /\ running' = Idle /\ configured' = {}
  /\ UNCHANGED <<scenario, workflow, jobs, requests, lingering>>

\* The Whisk resource is resumed: the key is its own, the address is published.
config_from_spec ==
  /\ configured = {} /\ configured' = {"key", "apihost"}
  /\ UNCHANGED <<scenario, faults, workflow, jobs, running, requests, lingering>>

\* It is edited: the map is cleaned, and the address is not put back.
whisk_update ==
  /\ configured # {} /\ configured' = {"key"}
  /\ requests < scenario.workflows /\ requests' = requests + 1
  /\ UNCHANGED <<scenario, faults, workflow, jobs, running, lingering>>

\* Unless the edit is one of the endpoint, which is then deployed again.
endpoint_create ==
  /\ configured = {"key"} /\ configured' = {"key", "apihost"}
  /\ UNCHANGED <<scenario, faults, workflow, jobs, running, requests, lingering>>

WorkflowsInit ==
  /\ workflow = NoWorkflow
  /\ jobs = [action \in {"create", "delete"} |-> Undone]
  /\ running = Idle /\ configured = {"key", "apihost"}
  /\ requests = 0 /\ lingering = {}

\* To be handled, and never handled if nothing changes: the configuration map
\* that a restart has emptied will be filled.
to_be_handled ==
  workflow.at = "deleting" \/ (workflow.at = "live" /\ ~workflow.handled)

hopeless ==
  \/ workflow.spec \notin Complete
  \/ LET action == IF workflow.at = "live" THEN "create" ELSE "delete"
         known == IF configured = {} THEN {"key", "apihost"} ELSE configured
         job == [jobs[action] EXCEPT !.spec = workflow.spec, !.known = known]
     IN exists(action) /\ ~same_template(job, jobs[action])

WorkflowHandler ==
  \/ workflows_create \/ workflows_delete
  \/ removes_other_job \/ applies_job \/ status

WorkflowsNext ==
  \/ \E s \in Complete \union {Incomplete} : ApplyWorkflow(s)
  \/ DeleteWorkflow
  \/ WorkflowHandler \/ operator_restarts
  \/ config_from_spec \/ whisk_update \/ endpoint_create

WorkflowsTypeOK ==
  /\ workflow.at \in {"absent", "live", "deleting"}
  /\ running.step \in {"idle", "remove", "apply", "status"}
  /\ \A action \in DOMAIN jobs : jobs[action].of \in 0 .. workflow.number
  /\ configured \subseteq {"key", "apihost"}
  /\ lingering \subseteq 1 .. workflow.number
=============================================================================
