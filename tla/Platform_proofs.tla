--------------------------- MODULE Platform_proofs ---------------------------
(***************************************************************************)
(* Theorems about Platform: the limits wskadmin reports are those that are *)
(* set (LimitsAccumulate), the deployment of the system actions ends and   *)
(* reports the truth (DeploymentIsTimely), the page of the callback shows  *)
(* the password of an account (ShownPasswordIsTheAccounts), the web        *)
(* actions lose nothing that they have reported as stored (ContentIsKept), *)
(* a complete job has prepared CouchDB (CompleteIsPrepared), a workflow has *)
(* the job of its handler (WorkflowsHaveTheirJobs), and every part keeps   *)
(* its type (TypeOK).  For every value of the constants.                   *)
(***************************************************************************)
EXTENDS Platform, FiniteSetTheorems, SequenceTheorems, TLAPS

----------------------------------------------------------------------------
(* The parts of the platform: a step of one leaves the others alone.       *)

\* The scenario is chosen once.
LEMMA ScenarioStays == [Next]_vars => scenario' = scenario
<1> SUFFICES ASSUME [Next]_vars PROVE scenario' = scenario
  OBVIOUS
<1>1. CASE App
  BY <1>1 DEF App, AppNext, Install, Reload, Visits, Callback, github_code_exchange,
     github_user_detail, get_whisk_user, create_whisk_user, Uninstall, Push, webhook
<1>2. CASE \E l \in Login : Operator(l) \/ Administrator(l)
  BY <1>2 DEF Operator, Administrator, whisk_user_create, whisk_user_delete,
     ApplyUser, DeleteUser
<1>3. CASE Deployment
  BY <1>3 DEF Deployment, DeploymentNext, whisk_post_create, whisk_post_resume,
     deploy_whisk_system_action, wsk_project_deploy, wsk_action_list
<1>4. CASE \E r \in Request : Ask(r) \/ Web(r)
  BY <1>4 DEF Ask, Asks, Web, Answering, fetch_subject, fetch_user_data, Serve, List
<1>5. CASE Limits
  BY <1>5 DEF Limits, LimitsNext, limitsCmd, getDocumentFromDb, Write
<1>6. CASE Cron
  BY <1>6 DEF Cron, CronNext, Update, RemoveAction, Tick, Running, die, start,
     get_cron_aware_actions, get_subjects, handle_action,
     unschedule_autoexec_action, finish
<1>7. CASE Databases
  BY <1>7 DEF Databases, DatabasesNext, couchdb_create, couchdb_delete, Dbinit,
     init, asks_couchdb, exits, dies, Restarts
<1>8. CASE Workflow
  BY <1>8 DEF Workflow, WorkflowsNext, ApplyWorkflow, DeleteWorkflow,
     Request_of_user, WorkflowHandler, workflows_create, workflows_delete, Called,
     removes_other_job, applies_job, status, operator_restarts, config_from_spec,
     whisk_update, endpoint_create
<1>9. CASE UNCHANGED vars
  BY <1>9 DEF vars
<1> QED
  BY <1>1, <1>2, <1>3, <1>4, <1>5, <1>6, <1>7, <1>8, <1>9 DEF Next

\* The scenario is one of those there are.
LEMMA ScenarioType == Spec => [](scenario \in Scenarios)
<1>1. Init => scenario \in Scenarios
  BY DEF Init
<1>2. scenario \in Scenarios /\ [Next]_vars => (scenario \in Scenarios)'
  BY ScenarioStays
<1> QED
  BY <1>1, <1>2, PTL DEF Spec

\* Only wskadmin touches the limits.
LEMMA LimitsSteps == [Next]_vars => LimitsNext \/ UNCHANGED limitVars
BY DEF Next, vars, App, Operator, Administrator, Deployment, Ask, Web, Limits, Cron,
   ExceptCron, Databases, ExceptDatabases, Workflow, ExceptWorkflows, NotLimits

\* Only the deployment touches the system actions.
LEMMA DeploymentSteps ==
  [Next]_vars => DeploymentNext \/ UNCHANGED deploymentVars
BY DEF Next, vars, App, Operator, Administrator, Deployment, Ask, Web, Limits, Cron,
   ExceptCron, Databases, ExceptDatabases, Workflow, ExceptWorkflows, NotDeployment

\* Only the app, the operator and an administrator touch the accounts.
LEMMA AppSteps ==
  [Next]_vars =>
    \/ AppNext
    \/ \E l \in Login : ApplyUser(l) \/ DeleteUser(l) \/ whisk_user_create(l)
                        \/ whisk_user_delete(l)
    \/ UNCHANGED appVars
BY DEF Next, vars, App, Operator, Administrator, Deployment, Ask, Web, Limits, Cron,
   ExceptCron, Databases, ExceptDatabases, Workflow, ExceptWorkflows, NotApp

\* Only the job, and what is done to CouchDB, touch the databases.
LEMMA DatabasesSteps == [Next]_vars => DatabasesNext \/ UNCHANGED databaseVars
BY DEF Next, vars, App, Operator, Administrator, Deployment, Ask, Web, Limits, Cron,
   ExceptCron, Databases, Workflow, ExceptWorkflows, NotBeside, NotDatabases

\* Only the users, the handlers and the jobs of the workflow touch it.
LEMMA WorkflowsSteps == [Next]_vars => WorkflowsNext \/ UNCHANGED workflowVars
BY DEF Next, vars, App, Operator, Administrator, Deployment, Ask, Web, Limits, Cron,
   ExceptCron, Databases, ExceptDatabases, Workflow, NotBeside, NotWorkflows

\* Only requests, and the removal of a user, touch the stores.
LEMMA WebSteps ==
  [Next]_vars =>
    \/ \E r \in Request : (\E t \in scenario.templates : Asks(r, t)) \/ Answering(r)
    \/ \E l \in Login : Cleared(l)
    \/ UNCHANGED webVars
BY DEF Next, vars, App, Operator, Administrator, Deployment, Ask, Web, Limits, Cron,
   ExceptCron, Databases, ExceptDatabases, Workflow, ExceptWorkflows, NotWeb

----------------------------------------------------------------------------
(* The limits of the namespaces.                                           *)

Says == [Limit -> Allows \union {Unset}]

CommandType ==
  [cmd : {"none", "set", "get", "delete"}, ns : Login \union {NoCommand.ns},
   given : Says, at : {"none", "read", "write", "done"}, rev : Nat, base : Says]

LimitsType ==
  /\ limits \in [Login -> [rev : Nat, exists : BOOLEAN, says : Says]]
  /\ admin \in [Admin -> CommandType]
  /\ granted \in [Login -> Says]

\* A document that was written has a revision, one that is not there says
\* nothing, and one of which no request failed says what was granted.
DocumentsAgree ==
  \A ns \in Login :
    /\ limits[ns].exists => limits[ns].rev > 0
    /\ ~limits[ns].exists => limits[ns].says = NoLimits
    /\ ns \notin spoilt => granted[ns] = limits[ns].says

\* What an invocation of wskadmin has read: nothing, or a revision the document
\* has had; if the document still has it, it says what was read.
ReadingsAgree ==
  \A c \in Admin :
    LET a == admin[c]
        doc == limits[a.ns]
    IN /\ a.at \in {"read", "write"} => a.ns \in Login /\ a.cmd # "none"
       /\ a.at = "write" =>
            /\ a.cmd \in {"set", "delete"}
            /\ a.cmd = "delete" => a.rev > 0
            /\ a.rev = 0 => a.base = NoLimits
            /\ a.rev <= doc.rev
            /\ a.rev > 0 /\ doc.exists /\ doc.rev = a.rev => doc.says = a.base

LimitsInv == LimitsType /\ DocumentsAgree /\ ReadingsAgree

LEMMA NothingIsSaid == NoLimits \in Says
BY DEF NoLimits, Says

\* Merged limits, over what was granted, are the limits that are granted.
LEMMA Merges ==
  ASSUME NEW old \in Says, NEW given \in Says
  PROVE  /\ merged(old, given) \in Says
         /\ merged(old, given) =
              [limit \in Limit |-> IF given[limit] = Unset THEN old[limit]
                                   ELSE given[limit]]
<1>1. \A limit \in Limit : old[limit] \in Allows \union {Unset}
                           /\ given[limit] \in Allows \union {Unset}
  BY DEF Says
<1>2. merged(old, given) \in Says
  BY <1>1 DEF merged, Says
<1>3. merged(old, given) =
        [limit \in Limit |-> IF given[limit] = Unset THEN old[limit]
                             ELSE given[limit]]
  BY DEF merged
<1> QED
  BY <1>2, <1>3

LEMMA NoCommandType ==
  /\ NoCommand \in CommandType
  /\ NoCommand.at = "none" /\ NoCommand.rev = 0 /\ NoCommand.base = NoLimits
BY NothingIsSaid DEF NoCommand, CommandType

LEMMA LimitsBegin == Init => LimitsInv
<1> SUFFICES ASSUME Init PROVE LimitsInv
  OBVIOUS
<1>1. /\ limits = [ns \in Login |-> [rev |-> 0, exists |-> FALSE, says |-> NoLimits]]
      /\ admin = [c \in Admin |-> NoCommand]
      /\ granted = [ns \in Login |-> NoLimits]
  BY DEF Init, LimitsInit
<1>2. LimitsType
  BY <1>1, NothingIsSaid, NoCommandType DEF LimitsType
<1>3. DocumentsAgree
  BY <1>1 DEF DocumentsAgree
<1>4. ReadingsAgree
  BY <1>1 DEF ReadingsAgree, NoCommand
<1> QED
  BY <1>2, <1>3, <1>4 DEF LimitsInv

\* A command begins.
LEMMA LimitsCommand ==
  ASSUME LimitsInv, NEW c \in Admin, NEW cmd \in {"set", "get", "delete"},
         NEW ns \in Login, NEW given \in Says, limitsCmd(c, cmd, ns, given)
  PROVE  LimitsInv'
<1>1. PICK none \in CommandType :
        none = NoCommand /\ none.rev = 0 /\ none.base = NoLimits
  BY NoCommandType
<1>2. /\ UNCHANGED <<limits, granted, spoilt>>
      /\ admin' = [admin EXCEPT ![c] =
           [none EXCEPT !.cmd = cmd, !.ns = ns, !.given = given, !.at = "read"]]
  BY <1>1 DEF limitsCmd
<1>3. /\ LimitsType'
      /\ admin'[c].cmd = cmd /\ admin'[c].ns = ns /\ admin'[c].at = "read"
      /\ \A d \in Admin \ {c} : admin'[d] = admin[d]
  BY <1>2 DEF LimitsInv, LimitsType, CommandType
<1>4. ReadingsAgree'
  BY <1>2, <1>3 DEF LimitsInv, ReadingsAgree
<1>5. DocumentsAgree'
  BY <1>2 DEF LimitsInv, DocumentsAgree
<1> QED
  BY <1>3, <1>4, <1>5 DEF LimitsInv

\* A command has read the document, or has taken a failure for no document.
LEMMA LimitsRead ==
  ASSUME LimitsInv, NEW c \in Admin, getDocumentFromDb(c)
  PROVE  LimitsInv'
<1>1. UNCHANGED <<limits, granted, spoilt>> /\ admin[c].at = "read"
  BY DEF getDocumentFromDb
<1> DEFINE a == admin[c]
           doc == limits[a.ns]
<1>2. a.ns \in Login /\ doc.rev \in Nat /\ doc.says \in Says
  BY <1>1 DEF LimitsInv, LimitsType, CommandType, ReadingsAgree
<1>3. PICK found \in {doc.exists, FALSE} :
        IF ~goes_on(a, found) THEN Ends(c)
        ELSE admin' = [admin EXCEPT
               ![c].at = "write",
               ![c].rev = IF found THEN doc.rev ELSE 0,
               ![c].base = IF found THEN doc.says ELSE NoLimits]
  BY DEF getDocumentFromDb
<1>4. DocumentsAgree'
  BY <1>1 DEF LimitsInv, DocumentsAgree
<1>5. CASE ~goes_on(a, found)
  <2>1. admin' = [admin EXCEPT ![c].at = "done"]
    BY <1>3, <1>5 DEF Ends
  <2>2. LimitsType'
    BY <1>1, <2>1 DEF LimitsInv, LimitsType, CommandType
  <2>3. ReadingsAgree'
    BY <1>1, <2>1 DEF LimitsInv, LimitsType, CommandType, ReadingsAgree
  <2> QED
    BY <1>4, <2>2, <2>3 DEF LimitsInv
<1>6. CASE goes_on(a, found)
  <2>1. admin' = [admin EXCEPT
               ![c].at = "write",
               ![c].rev = IF found THEN doc.rev ELSE 0,
               ![c].base = IF found THEN doc.says ELSE NoLimits]
    BY <1>3, <1>6
  <2>2. PICK rev \in Nat, base \in Says :
          /\ rev = (IF found THEN doc.rev ELSE 0)
          /\ base = (IF found THEN doc.says ELSE NoLimits)
          /\ admin' = [admin EXCEPT ![c].at = "write", ![c].rev = rev,
                                    ![c].base = base]
    <3>1. CASE found
      <4>1. admin' = [admin EXCEPT ![c].at = "write", ![c].rev = doc.rev,
                                   ![c].base = doc.says]
        BY <2>1, <3>1, Zenon
      <4> QED
        BY <1>2, <3>1, <4>1, Zenon
    <3>2. CASE ~found
      <4>1. admin' = [admin EXCEPT ![c].at = "write", ![c].rev = 0,
                                   ![c].base = NoLimits]
        BY <2>1, <3>2, Zenon
      <4>2. 0 \in Nat
        OBVIOUS
      <4> QED
        BY NothingIsSaid, <3>2, <4>1, <4>2, Zenon
    <3> QED
      BY <3>1, <3>2
  <2>3. /\ LimitsType'
        /\ admin'[c].at = "write" /\ admin'[c].ns = a.ns /\ admin'[c].cmd = a.cmd
        /\ admin'[c].rev = rev /\ admin'[c].base = base
    <3>1. admin' = [admin EXCEPT ![c].at = "write", ![c].rev = rev,
                                 ![c].base = base]
      BY <2>2
    <3>2. admin \in [Admin -> CommandType] /\ a \in CommandType
      BY DEF LimitsInv, LimitsType
    <3>3. /\ admin'[c].at = "write" /\ admin'[c].ns = a.ns /\ admin'[c].cmd = a.cmd
          /\ admin'[c].rev = rev /\ admin'[c].base = base
      BY <3>1, <3>2 DEF CommandType
    <3>4. admin' \in [Admin -> CommandType]
      BY <3>1, <3>2 DEF CommandType
    <3> QED
      BY <1>1, <3>3, <3>4 DEF LimitsInv, LimitsType
  <2>4. \A d \in Admin \ {c} : admin'[d] = admin[d]
    BY <2>1 DEF LimitsInv, LimitsType, CommandType
  <2>5. a.cmd \in {"set", "delete"} /\ (a.cmd = "delete" => found)
    BY <1>6 DEF goes_on
  <2>6. found => doc.rev > 0
    BY <1>2 DEF LimitsInv, DocumentsAgree
  <2>7. ReadingsAgree'
    <3> SUFFICES ASSUME NEW d \in Admin
                 PROVE  LET b == admin[d]
                            of == limits[b.ns]
                        IN (/\ b.at \in {"read", "write"} => b.ns \in Login /\ b.cmd # "none"
                            /\ b.at = "write" =>
                                 /\ b.cmd \in {"set", "delete"}
                                 /\ b.cmd = "delete" => b.rev > 0
                                 /\ b.rev = 0 => b.base = NoLimits
                                 /\ b.rev <= of.rev
                                 /\ b.rev > 0 /\ of.exists /\ of.rev = b.rev =>
                                      of.says = b.base)'
      BY DEF ReadingsAgree
    <3>1. CASE d = c
      <4>1. /\ rev <= doc.rev /\ (rev = 0 => base = NoLimits)
            /\ (a.cmd = "delete" => rev > 0)
            /\ (rev > 0 => doc.says = base)
        BY <1>2, <2>2, <2>5, <2>6
      <4> QED
        BY <1>1, <1>2, <2>3, <2>5, <3>1, <4>1
    <3>2. CASE d # c
      BY <1>1, <2>4, <3>2 DEF LimitsInv, ReadingsAgree
    <3> QED
      BY <3>1, <3>2
  <2> QED
    BY <1>4, <2>3, <2>7 DEF LimitsInv
<1> QED
  BY <1>5, <1>6

\* The revision of the document that a command changes goes up; whoever has
\* read an earlier one can not write any more.
LEMMA LimitsChange ==
  ASSUME LimitsInv, NEW c \in Admin, admin[c].at = "write",
         NEW ns \in Login, ns = admin[c].ns,
         NEW says \in Says, NEW exists_then \in BOOLEAN,
         ~exists_then => says = NoLimits,
         limits' = [limits EXCEPT ![ns] =
           [rev |-> limits[ns].rev + 1, exists |-> exists_then, says |-> says]],
         admin' = [admin EXCEPT ![c].at = "done"]
  PROVE  /\ limits' \in [Login -> [rev : Nat, exists : BOOLEAN, says : Says]]
         /\ admin' \in [Admin -> CommandType]
         /\ \A l \in Login :
              /\ limits'[l].exists => limits'[l].rev > 0
              /\ ~limits'[l].exists => limits'[l].says = NoLimits
         /\ limits'[ns].says = says
         /\ \A l \in Login \ {ns} : limits'[l] = limits[l]
         /\ ReadingsAgree'
<1>1. /\ limits \in [Login -> [rev : Nat, exists : BOOLEAN, says : Says]]
      /\ admin \in [Admin -> CommandType]
  BY DEF LimitsInv, LimitsType
<1>2. /\ limits' \in [Login -> [rev : Nat, exists : BOOLEAN, says : Says]]
      /\ limits'[ns].rev = limits[ns].rev + 1 /\ limits'[ns].exists = exists_then
      /\ limits'[ns].says = says
      /\ \A l \in Login \ {ns} : limits'[l] = limits[l]
  BY <1>1
<1>3. /\ admin' \in [Admin -> CommandType]
      /\ admin'[c].at = "done"
      /\ \A d \in Admin \ {c} : admin'[d] = admin[d]
  BY <1>1 DEF CommandType
<1>4. \A l \in Login : /\ limits'[l].exists => limits'[l].rev > 0
                       /\ ~limits'[l].exists => limits'[l].says = NoLimits
  BY <1>1, <1>2 DEF LimitsInv, DocumentsAgree
<1>5. ReadingsAgree'
  <2> SUFFICES ASSUME NEW d \in Admin \ {c}
               PROVE  LET b == admin[d]
                          of == limits[b.ns]
                      IN (/\ b.at \in {"read", "write"} => b.ns \in Login /\ b.cmd # "none"
                          /\ b.at = "write" =>
                               /\ b.cmd \in {"set", "delete"}
                               /\ b.cmd = "delete" => b.rev > 0
                               /\ b.rev = 0 => b.base = NoLimits
                               /\ b.rev <= of.rev
                               /\ b.rev > 0 /\ of.exists /\ of.rev = b.rev =>
                                    of.says = b.base)'
    BY <1>3 DEF ReadingsAgree
  <2>1. admin'[d] = admin[d] /\ admin[d].rev \in Nat
    BY <1>1, <1>3 DEF CommandType
  <2>2. CASE admin[d].ns = ns
    BY <1>1, <1>2, <2>1, <2>2 DEF LimitsInv, ReadingsAgree
  <2>3. CASE admin[d].ns # ns
    BY <1>2, <2>1, <2>3 DEF LimitsInv, ReadingsAgree
  <2> QED
    BY <2>2, <2>3
<1> QED
  BY <1>2, <1>3, <1>4, <1>5

\* A command writes what it has read, changed as it was told to, and CouchDB
\* takes it only if nobody has written since.
LEMMA LimitsWrite ==
  ASSUME LimitsInv, NEW c \in Admin, Write(c)
  PROVE  LimitsInv'
<1> DEFINE a == admin[c]
           doc == limits[a.ns]
           Writes == limits' = [limits EXCEPT ![a.ns] =
                       IF a.cmd = "set" THEN sets(doc, a) ELSE deletes(doc)]
           Grants == granted' = [granted EXCEPT ![a.ns] =
                IF a.cmd = "set"
                  THEN [limit \in Limit |->
                          IF a.given[limit] = Unset THEN @[limit] ELSE a.given[limit]]
                  ELSE NoLimits]
<1>1. a.at = "write" /\ admin' = [admin EXCEPT ![c].at = "done"]
  BY DEF Write, Ends
<1>2. PICK ns \in Login : ns = a.ns
  BY <1>1 DEF LimitsInv, ReadingsAgree
<1>3. /\ limits \in [Login -> [rev : Nat, exists : BOOLEAN, says : Says]]
      /\ granted \in [Login -> Says] /\ a \in CommandType
      /\ admin \in [Admin -> CommandType]
  BY DEF LimitsInv, LimitsType
<1>4. /\ a.cmd \in {"set", "delete"}
      /\ a.cmd = "delete" => a.rev > 0
      /\ a.rev = 0 => a.base = NoLimits
      /\ a.rev > 0 /\ doc.exists /\ doc.rev = a.rev => doc.says = a.base
  BY <1>1 DEF LimitsInv, ReadingsAgree
<1>5. /\ doc.exists => doc.rev > 0
      /\ ~doc.exists => doc.says = NoLimits
      /\ ns \notin spoilt => granted[ns] = doc.says
  BY <1>2 DEF LimitsInv, DocumentsAgree
<1>6. PICK says \in Says :
        says = IF a.cmd = "set" THEN merged(a.base, a.given) ELSE NoLimits
  <2>1. a.base \in Says /\ a.given \in Says
    BY <1>3 DEF CommandType
  <2> QED
    BY <2>1, Merges, NothingIsSaid
<1>7. ASSUME Writes
      PROVE  /\ limits' \in [Login -> [rev : Nat, exists : BOOLEAN, says : Says]]
             /\ admin' \in [Admin -> CommandType]
             /\ \A l \in Login :
                  /\ limits'[l].exists => limits'[l].rev > 0
                  /\ ~limits'[l].exists => limits'[l].says = NoLimits
             /\ limits'[ns].says = says
             /\ \A l \in Login \ {ns} : limits'[l] = limits[l]
             /\ ReadingsAgree'
  <2>1. CASE a.cmd = "set"
    <3>1. limits' = [limits EXCEPT ![ns] =
             [rev |-> limits[ns].rev + 1, exists |-> TRUE, says |-> says]]
      BY <1>2, <1>6, <1>7, <2>1, Zenon DEF sets
    <3> QED
      BY <1>1, <1>2, <3>1, LimitsChange
  <2>2. CASE a.cmd # "set"
    <3>1. says = NoLimits
      BY <1>6, <2>2
    <3>2. limits' = [limits EXCEPT ![ns] =
             [rev |-> limits[ns].rev + 1, exists |-> FALSE, says |-> says]]
      BY <1>2, <1>7, <2>2, <3>1, Zenon DEF deletes
    <3> QED
      BY <1>1, <1>2, <3>1, <3>2, LimitsChange
  <2> QED
    BY <2>1, <2>2
<1>8. CASE accepted(c) /\ Writes /\ Grants /\ UNCHANGED spoilt
  <2>1. ns \notin spoilt => doc.says = a.base
    <3>1. a.rev = IF doc.exists THEN doc.rev ELSE 0
      BY <1>8 DEF accepted, revision
    <3> QED
      BY <1>4, <1>5, <3>1
  <2>2. granted' \in [Login -> Says] /\ \A l \in Login \ {ns} : granted'[l] = granted[l]
    <3>1. granted[ns] \in Says /\ a.given \in Says
      BY <1>3 DEF CommandType
    <3>2. PICK new \in Says : new =
            IF a.cmd = "set"
              THEN [limit \in Limit |-> IF a.given[limit] = Unset
                                          THEN granted[ns][limit] ELSE a.given[limit]]
              ELSE NoLimits
      BY <3>1, Merges, NothingIsSaid
    <3>3. granted' = [granted EXCEPT ![ns] = new]
      BY <1>2, <1>8, <3>2, Zenon
    <3> QED
      BY <1>3, <3>3
  <2>3. ns \notin spoilt => granted'[ns] = says
    <3>1. SUFFICES ASSUME ns \notin spoilt PROVE granted'[ns] = says
      OBVIOUS
    <3>2. granted[ns] = a.base /\ a.base \in Says /\ a.given \in Says
      BY <1>3, <1>5, <2>1, <3>1 DEF CommandType
    <3>3. granted'[ns] = IF a.cmd = "set"
              THEN [limit \in Limit |-> IF a.given[limit] = Unset
                                          THEN granted[ns][limit] ELSE a.given[limit]]
              ELSE NoLimits
      BY <1>2, <1>3, <1>8
    <3> QED
      BY <1>6, <3>2, <3>3, Merges
  <2>4. LimitsType' /\ ReadingsAgree'
    BY <1>7, <1>8, <2>2 DEF LimitsType
  <2>5. DocumentsAgree'
    BY <1>7, <1>8, <2>2, <2>3 DEF LimitsInv, DocumentsAgree
  <2> QED
    BY <2>4, <2>5 DEF LimitsInv
<1>9. CASE Writes /\ spoilt' = spoilt \union {a.ns} /\ UNCHANGED granted
  <2>1. LimitsType' /\ ReadingsAgree'
    BY <1>3, <1>7, <1>9 DEF LimitsType
  <2>2. DocumentsAgree'
    BY <1>2, <1>7, <1>9 DEF LimitsInv, DocumentsAgree
  <2> QED
    BY <2>1, <2>2 DEF LimitsInv
<1>10. CASE UNCHANGED <<limits, granted>> /\ spoilt \subseteq spoilt'
  <2>1. /\ admin' \in [Admin -> CommandType] /\ admin'[c].at = "done"
        /\ \A d \in Admin \ {c} : admin'[d] = admin[d]
    BY <1>1, <1>3 DEF CommandType
  <2>2. LimitsType'
    BY <1>3, <1>10, <2>1 DEF LimitsType
  <2>3. ReadingsAgree'
    BY <1>10, <2>1 DEF LimitsInv, ReadingsAgree
  <2>4. DocumentsAgree'
    BY <1>10 DEF LimitsInv, DocumentsAgree
  <2> QED
    BY <2>2, <2>3, <2>4 DEF LimitsInv
<1> QED
  BY <1>8, <1>9, <1>10 DEF Write

LEMMA LimitsStep == scenario \in Scenarios /\ LimitsInv /\ [Next]_vars => LimitsInv'
<1> SUFFICES ASSUME scenario \in Scenarios, LimitsInv, [Next]_vars PROVE LimitsInv'
  OBVIOUS
<1>1. CASE UNCHANGED limitVars
  BY <1>1 DEF limitVars, LimitsInv, LimitsType, DocumentsAgree, ReadingsAgree
<1>2. CASE LimitsNext
  <2>1. Acceptable \subseteq Login /\ scenario.given \subseteq Says
    BY LoginAssumption, ScenariosAssumption DEF Says
  <2>2. ASSUME NEW c \in Admin, NEW ns \in Acceptable, NEW given \in scenario.given,
               limitsCmd(c, "set", ns, given)
        PROVE  LimitsInv'
    <3>1. "set" \in {"set", "get", "delete"} /\ ns \in Login /\ given \in Says
      BY <2>1
    <3> QED
      BY <2>2, <3>1, LimitsCommand
  <2>3. ASSUME NEW c \in Admin, NEW ns \in Acceptable, NEW cmd \in {"get", "delete"},
               limitsCmd(c, cmd, ns, NoLimits)
        PROVE  LimitsInv'
    <3>1. cmd \in {"set", "get", "delete"} /\ ns \in Login
      BY <2>1
    <3> QED
      BY <2>3, <3>1, LimitsCommand, NothingIsSaid
  <2> QED
    BY <1>2, <2>2, <2>3, LimitsRead, LimitsWrite DEF LimitsNext
<1> QED
  BY <1>1, <1>2, LimitsSteps

\* The limits of a namespace are those wskadmin has said to be set, however
\* many of its commands read, merge and write at the same time: CouchDB takes
\* a write only with the revision that was read (LimitsAccumulate).
THEOREM LimitsAreThoseGranted == Spec => []LimitsAccumulate
<1>1. LimitsInv => LimitsAccumulate
  BY DEF LimitsInv, DocumentsAgree, LimitsAccumulate
<1> QED
  BY <1>1, LimitsBegin, LimitsStep, ScenarioType, PTL DEF Spec
----------------------------------------------------------------------------
(* The deployment of the system actions.                                   *)

IsRetry(r) == r = [at |-> r.at, n |-> r.n, time |-> r.time]

DeploymentInv == IsRetry(retry) /\ DeploymentIsTimely

\* Trying again is in time; giving up is no success.
LEMMA RaisesInTime ==
  ASSUME IsRetry(retry), NEW duration, Raises(duration)
  PROVE  /\ IsRetry(retry') /\ retry'.at \in {"deploy", "failed"}
         /\ retry'.at = "deploy" => retry'.time < Deadline
<1> DEFINE now == retry.time + duration
<1>1. PICK random \in {0, 1} :
        IF in_time(now, backoff_delay(retry.n, random))
          THEN retry' = [at |-> "deploy", n |-> retry.n + 1,
                         time |-> now + backoff_delay(retry.n, random)]
          ELSE retry' = [retry EXCEPT !.at = "failed"]
  BY DEF Raises
<1> DEFINE delay == backoff_delay(retry.n, random)
<1> HIDE DEF delay, now
<1>2. CASE in_time(now, delay)
  <2>1. retry' = [at |-> "deploy", n |-> retry.n + 1, time |-> now + delay]
    BY <1>1, <1>2 DEF now, delay
  <2> QED
    BY <1>2, <2>1 DEF IsRetry, in_time
<1>3. CASE ~in_time(now, delay)
  <2>1. retry' = [retry EXCEPT !.at = "failed"]
    BY <1>1, <1>3 DEF now, delay
  <2>2. retry' = [at |-> "failed", n |-> retry.n, time |-> retry.time]
    BY <2>1 DEF IsRetry
  <2> QED
    BY <2>2 DEF IsRetry
<1> QED
  BY <1>2, <1>3

LEMMA DeploymentBegins == Init => DeploymentInv
BY DEF Init, DeploymentInit, DeploymentInv, IsRetry, DeploymentIsTimely

LEMMA DeploymentStep == DeploymentInv /\ [Next]_vars => DeploymentInv'
<1> SUFFICES ASSUME DeploymentInv, [Next]_vars PROVE DeploymentInv'
  OBVIOUS
<1>1. CASE UNCHANGED deploymentVars
  BY <1>1 DEF deploymentVars, DeploymentInv, IsRetry, DeploymentIsTimely
<1>2. CASE deploy_whisk_system_action
  <2>1. retry' = [at |-> "deploy", n |-> 0, time |-> 0] /\ 0 < Deadline
    BY <1>2, RetryAssumption DEF deploy_whisk_system_action
  <2> QED
    BY <2>1 DEF DeploymentInv, IsRetry, DeploymentIsTimely
<1>3. ASSUME NEW duration, wsk_project_deploy(duration) PROVE DeploymentInv'
  <2>1. CASE retry' = [retry EXCEPT !.at = "list"]
    BY <2>1 DEF DeploymentInv, IsRetry, DeploymentIsTimely
  <2>2. CASE Raises(duration)
    BY <2>2, RaisesInTime DEF DeploymentInv, IsRetry, DeploymentIsTimely
  <2> QED
    BY <1>3, <2>1, <2>2 DEF wsk_project_deploy
<1>4. ASSUME NEW duration, wsk_action_list(duration) PROVE DeploymentInv'
  <2>1. CASE Raises(duration)
    BY <2>1, RaisesInTime DEF DeploymentInv, IsRetry, DeploymentIsTimely
  <2>2. CASE retry' = [retry EXCEPT !.at = "created"] /\ "login" \in deployed'
    BY <2>2 DEF DeploymentInv, IsRetry, DeploymentIsTimely
  <2>3. PICK ok \in BOOLEAN :
          /\ listed' = IF ok THEN deployed ELSE {}
          /\ IF process_wsk_result(ok, listed')
               THEN retry' = [retry EXCEPT !.at = "created"]
               ELSE Raises(duration)
    BY <1>4 DEF wsk_action_list
  <2>4. deployed' = deployed
    BY <1>4 DEF wsk_action_list
  <2>5. process_wsk_result(ok, listed') => "login" \in deployed'
    BY <2>3, <2>4 DEF process_wsk_result
  <2> QED
    BY <2>1, <2>2, <2>3, <2>5
<1> QED
  BY <1>1, <1>2, <1>3, <1>4, DeploymentSteps
     DEF DeploymentNext, whisk_post_create, whisk_post_resume

\* No attempt to deploy the system actions begins after the deadline, however
\* long the attempts take, and "created" is reported only of actions that are
\* there (DeploymentIsTimely).
THEOREM DeploymentIsInTime == Spec => []DeploymentIsTimely
<1>1. DeploymentInv => DeploymentIsTimely
  BY DEF DeploymentInv
<1> QED
  BY <1>1, DeploymentBegins, DeploymentStep, PTL DEF Spec
----------------------------------------------------------------------------
(* The page of the callback.                                               *)

VisitKind ==
  [login : Login \union {NoVisit.login}, code : Visit \union {0},
   at : {"none", "exchange", "detail", "check", "create", "answered"},
   page : {"none", "error", "account"}]

VisitType == visit \in [Visit -> VisitKind] /\ DOMAIN wsku = Login

\* A visit has a user, and its code is that of the installation that came
\* first; nothing is shown before the answer.
VisitsBegun ==
  \A v \in Visit :
    /\ visit[v].at # "none" =>
         /\ visit[v].login \in Login
         /\ visit[v].code \in Visit /\ visit[visit[v].code].at # "none"
    /\ visit[v].at # "answered" => visit[v].page = "none"

\* The visit has its token, and is on its way to an account.
Past(v) == visit[v].at \in {"detail", "check", "create"}

\* The visit may still make an account.
Active(v) == Past(v) \/ (visit[v].at = "exchange" /\ visit[v].code \notin used)

\* A code is used up by the visit that has got past the exchange, and by the
\* one that was answered, unless a call of it failed.
CodesAreUsed ==
  /\ \A code \in used : code \in Visit /\ visit[code].at # "none"
  /\ \A v \in Visit :
       /\ Past(v) => visit[v].code \in used
       /\ visit[v].at = "answered" /\ v \notin disturbed => visit[v].code \in used

\* A visit that is not disturbed has no rival: others of its user have the
\* same code, and none of them has got a token for it yet.
NoRivals ==
  \A v \in Visit \ disturbed, w \in Visit :
    /\ v # w /\ visit[v].login = visit[w].login /\ Active(v) /\ Active(w)
    => /\ visit[v].at = "exchange" /\ visit[w].at = "exchange"
       /\ visit[v].code = visit[w].code

\* When it is about to make the account there is still none.
NameIsFree ==
  \A v \in Visit \ disturbed :
    visit[v].at = "create" => wsku[visit[v].login] = 0

VisitsInv ==
  VisitType /\ VisitsBegun /\ CodesAreUsed /\ NoRivals /\ NameIsFree
  /\ ShownPasswordIsTheAccounts
LEMMA VisitsBegin == Init => VisitsInv
<1> SUFFICES ASSUME Init PROVE VisitsInv
  OBVIOUS
<1>1. /\ visit = [v \in Visit |-> NoVisit]
      /\ used = {} /\ disturbed = {} /\ DOMAIN wsku = Login
  BY DEF Init, AppInit
<1>2. NoVisit \in VisitKind /\ NoVisit.at = "none" /\ NoVisit.page = "none"
  BY DEF NoVisit, VisitKind
<1>3. VisitType
  BY <1>1, <1>2 DEF VisitType
<1>4. \A v \in Visit : visit[v].at = "none" /\ visit[v].page = "none"
  BY <1>1, <1>2
<1>5. VisitsBegun
  BY <1>4 DEF VisitsBegun
<1>6. CodesAreUsed
  BY <1>1, <1>4 DEF CodesAreUsed, Past
<1>7. NoRivals
  BY <1>4 DEF NoRivals, Active, Past
<1>8. NameIsFree /\ ShownPasswordIsTheAccounts
  BY <1>4 DEF NameIsFree, ShownPasswordIsTheAccounts
<1> QED
  BY <1>3, <1>5, <1>6, <1>7, <1>8 DEF VisitsInv

\* What a visit becomes when it goes on, and when it is answered.
LEMMA GoingOn ==
  ASSUME VisitType, NEW v \in Visit, NEW at \in {"detail", "check", "create"},
         Goes_on(v, at)
  PROVE  /\ visit' \in [Visit -> VisitKind]
         /\ visit'[v].at = at /\ visit'[v].page = visit[v].page
         /\ visit'[v].login = visit[v].login /\ visit'[v].code = visit[v].code
         /\ \A w \in Visit \ {v} : visit'[w] = visit[w]
BY DEF VisitType, VisitKind, Goes_on

LEMMA Showing ==
  ASSUME VisitType, NEW v \in Visit, NEW page \in {"error", "account"},
         Shows(v, page)
  PROVE  /\ visit' \in [Visit -> VisitKind]
         /\ visit'[v].at = "answered" /\ visit'[v].page = page
         /\ visit'[v].login = visit[v].login /\ visit'[v].code = visit[v].code
         /\ \A w \in Visit \ {v} : visit'[w] = visit[w]
BY DEF VisitType, VisitKind, Shows

\* A visit goes on: it was on its way, and its code is used up.
LEMMA VisitGoesOn ==
  ASSUME VisitsInv, NEW v \in Visit, NEW at \in {"detail", "check", "create"},
         Active(v), Goes_on(v, at),
         used' = used \union {visit[v].code}, disturbed \subseteq disturbed',
         UNCHANGED <<wsku, made>>,
         at = "create" => v \in disturbed' \/ wsku[visit[v].login] = 0
  PROVE  VisitsInv'
<1>1. /\ visit' \in [Visit -> VisitKind]
      /\ visit'[v].at = at /\ visit'[v].page = visit[v].page
      /\ visit'[v].login = visit[v].login /\ visit'[v].code = visit[v].code
      /\ \A w \in Visit \ {v} : visit'[w] = visit[w]
  BY GoingOn DEF VisitsInv
<1>2. visit[v].at \notin {"none", "answered"}
  BY DEF Active, Past
<1>3. VisitType'
  BY <1>1 DEF VisitsInv, VisitType
<1>4. VisitsBegun'
  BY <1>1, <1>2 DEF VisitsInv, VisitsBegun
<1>5. CodesAreUsed'
  BY <1>1, <1>2 DEF VisitsInv, VisitsBegun, CodesAreUsed, Past
<1>6. \A w \in Visit : Active(w)' => Active(w)
  BY <1>1 DEF Active, Past
<1>7. NoRivals'
  <2> SUFFICES ASSUME NEW w \in Visit, NEW x \in Visit, w \notin disturbed', w # x,
                      visit'[w].login = visit'[x].login, Active(w)', Active(x)'
               PROVE  /\ visit'[w].at = "exchange" /\ visit'[x].at = "exchange"
                      /\ visit'[w].code = visit'[x].code
    BY DEF NoRivals
  <2>1. visit[w].login = visit[x].login /\ w \notin disturbed
    BY <1>1
  <2>2. /\ visit[w].at = "exchange" /\ visit[x].at = "exchange"
        /\ visit[w].code = visit[x].code
    BY <1>6, <2>1 DEF VisitsInv, NoRivals
  <2>3. w # v /\ x # v
    BY <1>1, <2>2 DEF Active, Past
  <2> QED
    BY <1>1, <2>2, <2>3
<1>8. NameIsFree'
  BY <1>1, <1>2 DEF VisitsInv, NameIsFree
<1>9. ShownPasswordIsTheAccounts'
  BY <1>1, <1>2 DEF VisitsInv, VisitsBegun, ShownPasswordIsTheAccounts
<1> QED
  BY <1>3, <1>4, <1>5, <1>7, <1>8, <1>9 DEF VisitsInv

\* A visit is answered.
LEMMA VisitIsAnswered ==
  ASSUME VisitsInv, NEW v \in Visit, NEW page \in {"error", "account"},
         underway(v), Shows(v, page),
         used \subseteq used', used' \subseteq used \union {visit[v].code},
         disturbed \subseteq disturbed', made \subseteq made',
         v \in disturbed' \/ visit[v].code \in used',
         page = "account" => v \in disturbed' \union made',
         DOMAIN wsku' = Login,
         \A w \in Visit \ {v} :
           w \notin disturbed' /\ visit[w].at = "create" => wsku'[visit[w].login] = 0
  PROVE  VisitsInv'
<1>1. /\ visit' \in [Visit -> VisitKind]
      /\ visit'[v].at = "answered" /\ visit'[v].page = page
      /\ visit'[v].login = visit[v].login /\ visit'[v].code = visit[v].code
      /\ \A w \in Visit \ {v} : visit'[w] = visit[w]
  BY Showing DEF VisitsInv
<1>2. visit[v].at \notin {"none", "answered"}
  BY DEF underway
<1>3. VisitType'
  BY <1>1 DEF VisitType
<1>4. VisitsBegun'
  BY <1>1, <1>2 DEF VisitsInv, VisitsBegun
<1>5. CodesAreUsed'
  BY <1>1, <1>2 DEF VisitsInv, VisitsBegun, CodesAreUsed, Past
<1>6. \A w \in Visit : Active(w)' => w # v /\ Active(w)
  BY <1>1 DEF Active, Past
<1>7. NoRivals'
  BY <1>1, <1>6 DEF VisitsInv, NoRivals
<1>8. NameIsFree'
  BY <1>1 DEF NameIsFree
<1>9. ShownPasswordIsTheAccounts'
  BY <1>1 DEF VisitsInv, ShownPasswordIsTheAccounts
<1> QED
  BY <1>3, <1>4, <1>5, <1>7, <1>8, <1>9 DEF VisitsInv

\* The accounts change without the callback: they go, or those who were about
\* to make one are disturbed.
LEMMA AccountsChange ==
  ASSUME VisitsInv, UNCHANGED <<visit, used, made>>, disturbed \subseteq disturbed',
         DOMAIN wsku' = Login,
         \A v \in Visit \ disturbed' :
           visit[v].at = "create" => wsku'[visit[v].login] \in {0, wsku[visit[v].login]}
  PROVE  VisitsInv'
<1>1. VisitType' /\ VisitsBegun' /\ CodesAreUsed'
  BY DEF VisitsInv, VisitType, VisitsBegun, CodesAreUsed, Past
<1>2. NoRivals'
  BY DEF VisitsInv, NoRivals, Active, Past
<1>3. NameIsFree' /\ ShownPasswordIsTheAccounts'
  BY DEF VisitsInv, NameIsFree, ShownPasswordIsTheAccounts
<1> QED
  BY <1>1, <1>2, <1>3 DEF VisitsInv
\* A visit begins: it disturbs those of its user, or finds none of them, or
\* has the code of one that is not disturbed.
LEMMA VisitBegins ==
  ASSUME VisitsInv, NEW v \in Visit, NEW l \in Login, NEW code \in Visit,
         visit[v].at = "none", code = v \/ visit[code].at # "none",
         visit' = [visit EXCEPT ![v] =
           [login |-> l, code |-> code, at |-> "exchange", page |-> "none"]],
         UNCHANGED <<used, wsku, made>>, disturbed \subseteq disturbed',
         \/ underway_of(l) \union {v} \subseteq disturbed'
         \/ underway_of(l) = {}
         \/ \E o \in Visit \ disturbed :
              visit[o].at # "none" /\ visit[o].login = l /\ visit[o].code = code
  PROVE  VisitsInv'
<1>1. /\ visit' \in [Visit -> VisitKind]
      /\ visit'[v].at = "exchange" /\ visit'[v].page = "none"
      /\ visit'[v].login = l /\ visit'[v].code = code
      /\ \A w \in Visit \ {v} : visit'[w] = visit[w]
  BY DEF VisitsInv, VisitType, VisitKind
<1>2. VisitType'
  BY <1>1 DEF VisitsInv, VisitType
<1>3. VisitsBegun'
  <2>1. visit'[code].at # "none"
    BY <1>1
  <2>2. \A w \in Visit \ {v} : visit[w].at # "none" =>
          visit[w].code \in Visit /\ visit'[visit[w].code].at # "none"
    BY <1>1 DEF VisitsInv, VisitsBegun
  <2> QED
    BY <1>1, <2>1, <2>2 DEF VisitsInv, VisitsBegun
<1>4. CodesAreUsed'
  <2>1. \A c \in used : c \in Visit /\ visit'[c].at # "none"
    BY <1>1 DEF VisitsInv, CodesAreUsed
  <2>2. \A w \in Visit :
          /\ Past(w)' => visit'[w].code \in used
          /\ visit'[w].at = "answered" /\ w \notin disturbed' => visit'[w].code \in used
    BY <1>1 DEF VisitsInv, CodesAreUsed, Past
  <2> QED
    BY <2>1, <2>2 DEF CodesAreUsed
<1>5. \A w \in Visit \ {v} : Active(w)' = Active(w)
  BY <1>1 DEF Active, Past
<1>6. NoRivals'
  <2> SUFFICES ASSUME NEW w \in Visit, NEW x \in Visit, w \notin disturbed', w # x,
                      visit'[w].login = visit'[x].login, Active(w)', Active(x)'
               PROVE  /\ visit'[w].at = "exchange" /\ visit'[x].at = "exchange"
                      /\ visit'[w].code = visit'[x].code
    BY DEF NoRivals
  <2>1. ASSUME NEW y \in Visit \ {v}, Active(y), visit[y].login = l, Active(v)',
               y \notin disturbed' \/ v \notin disturbed'
        PROVE  visit[y].at = "exchange" /\ visit[y].code = code
    <3>1. y \in underway_of(l)
      BY <2>1 DEF Active, Past, underway_of, underway
    <3>2. PICK o \in Visit \ disturbed :
            visit[o].at # "none" /\ visit[o].login = l /\ visit[o].code = code
      BY <2>1, <3>1
    <3>3. code \notin used
      BY <1>1, <2>1 DEF Active, Past
    <3>4. visit[o].at = "exchange"
      BY <3>2, <3>3 DEF VisitsInv, VisitType, VisitKind, CodesAreUsed, Past
    <3>5. Active(o)
      BY <3>2, <3>3, <3>4 DEF Active
    <3> QED
      BY <2>1, <3>2, <3>4, <3>5 DEF VisitsInv, NoRivals
  <2>2. CASE w = v
    <3>1. Active(x) /\ visit[x].login = l /\ x \in Visit \ {v}
      BY <1>1, <1>5, <2>2
    <3> QED
      BY <1>1, <2>1, <2>2, <3>1
  <2>3. CASE x = v
    <3>1. Active(w) /\ visit[w].login = l /\ w \in Visit \ {v}
      BY <1>1, <1>5, <2>3
    <3> QED
      BY <1>1, <2>1, <2>3, <3>1
  <2>4. CASE w # v /\ x # v
    BY <1>1, <1>5, <2>4 DEF VisitsInv, NoRivals
  <2> QED
    BY <2>2, <2>3, <2>4
<1>7. NameIsFree'
  BY <1>1 DEF VisitsInv, NameIsFree
<1>8. ShownPasswordIsTheAccounts'
  BY <1>1 DEF VisitsInv, ShownPasswordIsTheAccounts
<1> QED
  BY <1>2, <1>3, <1>4, <1>6, <1>7, <1>8 DEF VisitsInv

LEMMA InstallStep ==
  ASSUME VisitsInv, NEW v \in Visit, NEW l \in Login, Install(v, l)
  PROVE  VisitsInv'
<1>1. /\ visit' = [visit EXCEPT ![v] =
           [login |-> l, code |-> v, at |-> "exchange", page |-> "none"]]
      /\ UNCHANGED <<used, wsku, made>> /\ visit[v].at = "none"
  BY DEF Install, Visits, accounts, Visit
<1>2. disturbed' = IF underway_of(l) = {} THEN disturbed
                   ELSE disturbed \union underway_of(l) \union {v}
  BY DEF Install
<1> QED
  BY <1>1, <1>2, VisitBegins

LEMMA ReloadStep ==
  ASSUME VisitsInv, NEW v \in Visit, NEW w \in Visit, Reload(v, w)
  PROVE  VisitsInv'
<1>1. PICK l \in Login, code \in Visit :
        l = visit[w].login /\ code = visit[w].code /\ visit[code].at # "none"
  BY DEF Reload, VisitsInv, VisitsBegun
<1>2. /\ visit' = [visit EXCEPT ![v] =
           [login |-> l, code |-> code, at |-> "exchange", page |-> "none"]]
      /\ UNCHANGED <<used, wsku, made>> /\ visit[v].at = "none"
  BY <1>1 DEF Reload, Visits, accounts, Visit
<1>3. disturbed' = IF w \notin disturbed THEN disturbed
                   ELSE disturbed \union underway_of(l) \union {v}
  BY <1>1 DEF Reload
<1>4. visit[w].at # "none"
  BY DEF Reload
<1> QED
  BY <1>1, <1>2, <1>3, <1>4, VisitBegins

\* The code is taken, or not, or nobody knows.
LEMMA ExchangeStep ==
  ASSUME VisitsInv, NEW v \in Visit, github_code_exchange(v)
  PROVE  VisitsInv'
<1>1. visit[v].at = "exchange" /\ UNCHANGED <<wsku, made>>
  BY DEF github_code_exchange, accounts
<1>2. DOMAIN wsku = Login
  BY DEF VisitsInv, VisitType
<1>3. \A w \in Visit \ disturbed : visit[w].at = "create" => wsku[visit[w].login] = 0
  BY DEF VisitsInv, NameIsFree
<1>4. CASE /\ visit[v].code \notin used /\ Goes_on(v, "detail")
           /\ used' = used \union {visit[v].code} /\ UNCHANGED disturbed
  BY <1>1, <1>4, VisitGoesOn DEF Active
<1>5. CASE visit[v].code \in used /\ Shows(v, "error") /\ UNCHANGED <<used, disturbed>>
  BY <1>1, <1>2, <1>3, <1>5, VisitIsAnswered DEF underway
<1>6. CASE /\ disturbed' = disturbed \union {v} /\ Shows(v, "error")
           /\ used' \in {used, used \union {visit[v].code}}
  BY <1>1, <1>2, <1>3, <1>6, VisitIsAnswered DEF underway
<1> QED
  BY <1>4, <1>5, <1>6 DEF github_code_exchange

\* What the steps after the exchange have in common.
LEMMA PastVisit ==
  ASSUME VisitsInv, NEW v \in Visit, Past(v)
  PROVE  /\ Active(v) /\ underway(v)
         /\ visit[v].code \in used /\ used = used \union {visit[v].code}
         /\ DOMAIN wsku = Login
         /\ \A w \in Visit \ disturbed : visit[w].at = "create" =>
              wsku[visit[w].login] = 0
BY DEF VisitsInv, VisitType, CodesAreUsed, NameIsFree, Active, Past, underway

LEMMA DetailStep ==
  ASSUME VisitsInv, NEW v \in Visit, github_user_detail(v)
  PROVE  VisitsInv'
<1>1. Past(v) /\ UNCHANGED <<used, wsku, made>>
  BY DEF github_user_detail, accounts, Past
<1>2. disturbed' = disturbed \/ disturbed' = disturbed \union {v}
  BY DEF github_user_detail
<1>3. CASE Goes_on(v, "check")
  BY <1>1, <1>2, <1>3, PastVisit, VisitGoesOn
<1>4. CASE Shows(v, "error")
  BY <1>1, <1>2, <1>4, PastVisit, VisitIsAnswered
<1> QED
  BY <1>3, <1>4 DEF github_user_detail

LEMMA CheckStep ==
  ASSUME VisitsInv, NEW v \in Visit, get_whisk_user(v)
  PROVE  VisitsInv'
<1>1. Past(v) /\ UNCHANGED <<used, wsku, made>>
  BY DEF get_whisk_user, accounts, Past
<1>2. disturbed' = disturbed \/ disturbed' = disturbed \union {v}
  BY DEF get_whisk_user
<1>3. CASE Goes_on(v, "create")
  <2>1. v \in disturbed' \/ wsku[visit[v].login] = 0
    <3>1. ~has_account(v) \/ v \in disturbed' \/ Shows(v, "error")
      BY DEF get_whisk_user
    <3>2. ~Shows(v, "error")
      <4>1. VisitType
        BY DEF VisitsInv
      <4>2. visit'[v].at = "create"
        BY <1>3, <4>1, GoingOn
      <4> QED
        BY <4>1, <4>2, Showing
    <3> QED
      BY <3>1, <3>2 DEF has_account
  <2> QED
    BY <1>1, <1>2, <1>3, <2>1, PastVisit, VisitGoesOn
<1>4. CASE Shows(v, "error")
  BY <1>1, <1>2, <1>4, PastVisit, VisitIsAnswered
<1> QED
  BY <1>3, <1>4 DEF get_whisk_user

\* The page congratulates whoever has come so far.
LEMMA CreateStep ==
  ASSUME VisitsInv, NEW v \in Visit, create_whisk_user(v)
  PROVE  VisitsInv'
<1> DEFINE l == visit[v].login
<1>1. /\ visit[v].at = "create" /\ Past(v) /\ Shows(v, "account")
      /\ UNCHANGED used
  BY DEF create_whisk_user, Past
<1>2. l \in Login
  BY <1>1 DEF VisitsInv, VisitsBegun
<1>3. /\ disturbed \subseteq disturbed' /\ made \subseteq made'
      /\ DOMAIN wsku' = Login
      /\ \A k \in Login \ {l} : wsku'[k] = wsku[k]
  BY <1>2 DEF create_whisk_user, VisitsInv, VisitType
<1>4. v \in disturbed' \union made'
  <2>1. v \notin disturbed => wsku[l] = 0
    BY <1>1 DEF VisitsInv, NameIsFree
  <2> QED
    BY <1>3, <2>1 DEF create_whisk_user
<1>5. ASSUME NEW w \in Visit \ {v}, w \notin disturbed', visit[w].at = "create"
      PROVE  wsku'[visit[w].login] = 0
  <2>1. Active(v) /\ Active(w)
    BY <1>1, <1>5 DEF Active, Past
  <2>2. visit[w].login # l /\ visit[w].login \in Login
    BY <1>1, <1>3, <1>5, <2>1 DEF VisitsInv, NoRivals, VisitsBegun
  <2> QED
    BY <1>3, <1>5, <2>2 DEF VisitsInv, NameIsFree
<1> QED
  BY <1>1, <1>3, <1>4, <1>5, PastVisit, VisitIsAnswered

LEMMA VisitsStep == scenario \in Scenarios /\ VisitsInv /\ [Next]_vars => VisitsInv'
<1> SUFFICES ASSUME scenario \in Scenarios, VisitsInv, [Next]_vars PROVE VisitsInv'
  OBVIOUS
<1>1. DOMAIN wsku = Login /\ scenario.logins \subseteq Login
  BY ScenariosAssumption DEF VisitsInv, VisitType
<1>2. ASSUME UNCHANGED <<visit, used, made, disturbed, wsku>> PROVE VisitsInv'
  BY <1>1, <1>2, AccountsChange
<1>3. CASE AppNext
  <2>1. ASSUME NEW l \in Login, Uninstall(l) \/ Push(l) PROVE VisitsInv'
    BY <1>2, <2>1 DEF Uninstall, Push, accounts, appHistory
  <2>2. ASSUME NEW event \in undelivered, webhook(event) PROVE VisitsInv'
    BY <1>2, <2>2 DEF webhook, appHistory
  <2> QED
    BY <1>1, <1>3, <2>1, <2>2, InstallStep, ReloadStep, ExchangeStep, DetailStep,
       CheckStep, CreateStep DEF AppNext, Callback
<1>4. ASSUME NEW l \in Login, ApplyUser(l) PROVE VisitsInv'
  <2>1. /\ UNCHANGED <<visit, used, made>>
        /\ wsku' = [wsku EXCEPT ![l] = MaxVisits + updates']
        /\ disturbed' = disturbed \union underway_of(l)
    BY <1>4 DEF ApplyUser, setup
  <2>2. \A v \in Visit \ disturbed' : visit[v].at = "create" =>
          visit[v].login # l /\ visit[v].login \in Login
    BY <2>1 DEF underway_of, underway, VisitsInv, VisitsBegun
  <2>3. /\ DOMAIN wsku' = Login
        /\ \A v \in Visit \ disturbed' :
             visit[v].at = "create" => wsku'[visit[v].login] = wsku[visit[v].login]
    BY <1>1, <2>1, <2>2
  <2> QED
    BY <2>1, <2>3, AccountsChange
<1>5. ASSUME NEW l \in Login, DeleteUser(l) PROVE VisitsInv'
  BY <1>2, <1>5 DEF DeleteUser, setup, appHistory
<1>6. ASSUME NEW l \in Login, whisk_user_create(l) PROVE VisitsInv'
  BY <1>2, <1>6 DEF whisk_user_create, setup, appHistory
<1>7. ASSUME NEW l \in Login, whisk_user_delete(l) PROVE VisitsInv'
  <2>1. /\ UNCHANGED <<visit, used, made, disturbed>>
        /\ wsku' = [wsku EXCEPT ![l] = 0]
    BY <1>7 DEF whisk_user_delete, setup, appHistory
  <2>2. /\ DOMAIN wsku' = Login
        /\ \A v \in Visit \ disturbed' :
             visit[v].at = "create" => wsku'[visit[v].login] \in {0, wsku[visit[v].login]}
    <3>1. \A v \in Visit : visit[v].at = "create" => visit[v].login \in Login
      BY DEF VisitsInv, VisitsBegun
    <3> QED
      BY <1>1, <2>1, <3>1
  <2> QED
    BY <2>1, <2>2, AccountsChange
<1>8. CASE UNCHANGED appVars
  BY <1>2, <1>8 DEF appVars, setup, accounts, appHistory
<1> QED
  BY <1>3, <1>4, <1>5, <1>6, <1>7, <1>8, AppSteps

\* Whoever is congratulated by the page of the callback has the account whose
\* password it shows: the page may be loaded again, the app removed and
\* installed again, and users deleted, unless a call of the visit failed or
\* another way to an account of that user was open meanwhile
\* (ShownPasswordIsTheAccounts).
THEOREM CongratulationIsTrue == Spec => []ShownPasswordIsTheAccounts
<1>1. VisitsInv => ShownPasswordIsTheAccounts
  BY DEF VisitsInv
<1> QED
  BY <1>1, VisitsBegin, VisitsStep, ScenarioType, PTL DEF Spec
----------------------------------------------------------------------------
(* The web actions.                                                        *)

\* The accounts, of which the web actions take the keys.
AccountsType ==
  updates \in Nat /\ wsku \in [Login -> Nat] /\ users \in [Login -> Nat]

\* A call of a store.
StoreCall ==
  [op : {"put", "get", "remove", "copy", "rollback"}, from : Place, to : Place]

RequestKind ==
  [action : DOMAIN Command \union {"none"}, cmd : (UNION Range(Command)) \union {"none"},
   user : Login \union {NoRequest.user}, key : Nat, header : BOOLEAN, body : BOOLEAN,
   from : Place \union {NoRequest.from}, to : Place \union {NoRequest.to},
   at : {"none", "subject", "user_data", "store", "answered"}, data : Nat,
   todo : Seq(StoreCall), answer : {"none", "200", "204", "400"}]

WebType ==
  /\ request \in [Request -> RequestKind]
  /\ \A r \in Request : request[r].at # "none" =>
       request[r].user \in Login /\ {request[r].from, request[r].to} \subseteq Place
  /\ objects \in [Place -> Nat]
  /\ reported \subseteq Request

\* Only so much can be listed, whatever paths there are.
FewObjects == IsFiniteSet({p \in Place : objects[p] # 0})

ToMove(q) ==
  Len(q.todo) = 2 /\ q.todo[1] = CopyObject(q.from, q.to)
  /\ q.todo[2] = RemoveObject(q.from)

ToRemove(q) == q.at = "store" /\ Len(q.todo) = 1 /\ q.todo[1] = RemoveObject(q.from)

\* Whoever moves an object copies it before it removes it.
MovesInOrder ==
  \A r \in Request :
    request[r].at \in {"subject", "user_data", "store"} /\ request[r].cmd = "mv"
    => ToMove(request[r]) \/ ToRemove(request[r])

\* The copy of an object that is about to be removed is somewhere else and is
\* still the same, unless somebody got in the way.
CopyIsThere ==
  \A r \in Request : moving(r) =>
    LET q == request[r]
    IN /\ q.from # q.to
       /\ \/ objects[q.to] = objects[q.from]
          \/ objects[q.from] \in {0} \union given_up

WebInv == WebType /\ FewObjects /\ MovesInOrder /\ CopyIsThere /\ ContentIsKept
LEMMA AccountsBegin == Init => AccountsType
<1> SUFFICES ASSUME Init PROVE AccountsType
  OBVIOUS
<1>1. \A l \in Login : (IF l \in scenario.accounts THEN MaxVisits ELSE 0) \in Nat
  BY VisitsAssumption
<1>2. wsku \in [Login -> Nat]
  BY <1>1 DEF Init
<1> QED
  BY <1>2 DEF Init, CronInit, AccountsType

LEMMA AccountsStep == AccountsType /\ [Next]_vars => AccountsType'
<1> SUFFICES ASSUME AccountsType, [Next]_vars PROVE AccountsType'
  OBVIOUS
<1>1. updates' \in Nat
  <2>1. updates' \in {updates, updates + 1}
    BY DEF Next, vars, App, Operator, Administrator, ApplyUser, DeleteUser, Deployment,
       Ask, Web, Limits, Cron, CronNext, Update, RemoveAction, Tick, Running, die,
       start, get_cron_aware_actions, get_subjects, handle_action,
       unschedule_autoexec_action, finish, Databases, ExceptDatabases, Workflow,
       ExceptWorkflows, NotCron, cronVars
  <2> QED
    BY <2>1 DEF AccountsType
<1>2. CASE UNCHANGED appVars
  BY <1>1, <1>2 DEF appVars, accounts, AccountsType
<1>3. CASE AppNext
  <2>1. users' = users
    BY <1>3 DEF AppNext, Install, Reload, Visits, Callback, github_code_exchange,
       github_user_detail, get_whisk_user, create_whisk_user, Uninstall, Push,
       webhook, accounts
  <2>2. ASSUME NEW v \in Visit, create_whisk_user(v) PROVE wsku' \in [Login -> Nat]
    BY <2>2 DEF create_whisk_user, generate_whisk_user_yaml, Visit, AccountsType
  <2>3. wsku' = wsku \/ \E v \in Visit : create_whisk_user(v)
    BY <1>3 DEF AppNext, Install, Reload, Visits, Callback, github_code_exchange,
       github_user_detail, get_whisk_user, Uninstall, Push, webhook, accounts
  <2> QED
    BY <1>1, <2>1, <2>2, <2>3 DEF AccountsType
<1>4. ASSUME NEW l \in Login, ApplyUser(l) PROVE AccountsType'
  <2>1. PICK number \in Nat : number = MaxVisits + updates'
    <3>1. \A m, n \in Nat : m + n \in Nat
      OBVIOUS
    <3> QED
      BY <1>1, <3>1, VisitsAssumption, Zenon
  <2>2. wsku' = [wsku EXCEPT ![l] = number] /\ users' = users
    BY <1>4, <2>1 DEF ApplyUser
  <2> QED
    BY <1>1, <2>2 DEF AccountsType
<1>5. ASSUME NEW l \in Login, DeleteUser(l) PROVE AccountsType'
  BY <1>1, <1>5 DEF DeleteUser, AccountsType
<1>6. ASSUME NEW l \in Login, whisk_user_create(l) PROVE AccountsType'
  BY <1>1, <1>6 DEF whisk_user_create, AccountsType
<1>7. ASSUME NEW l \in Login, whisk_user_delete(l) PROVE AccountsType'
  BY <1>1, <1>7 DEF whisk_user_delete, AccountsType
<1> QED
  BY <1>2, <1>3, <1>4, <1>5, <1>6, <1>7, AppSteps

LEMMA WebBegins == Init => WebInv
<1> SUFFICES ASSUME Init PROVE WebInv
  OBVIOUS
<1>1. /\ request = [r \in Request |-> NoRequest]
      /\ objects = [p \in Place |-> 0]
      /\ reported = {}
  BY DEF Init, WebInit
<1>2. /\ NoRequest.at = "none" /\ NoRequest.cmd = "none" /\ NoRequest.todo = <<>>
      /\ NoRequest \in RequestKind
  <2>1. PICK none \in Seq(StoreCall) : none = <<>>
    BY EmptySeq
  <2>2. PICK user, from, to : /\ user = NoRequest.user
                              /\ from = NoRequest.from /\ to = NoRequest.to
    OBVIOUS
  <2>3. NoRequest = [action |-> "none", cmd |-> "none", user |-> user, key |-> 0,
                     header |-> FALSE, body |-> FALSE, from |-> from, to |-> to,
                     at |-> "none", data |-> 0, todo |-> none, answer |-> "none"]
    BY <2>1, <2>2 DEF NoRequest
  <2> QED
    BY <2>1, <2>2, <2>3 DEF RequestKind
<1>3. \A r \in Request : request[r].at = "none" /\ request[r].cmd = "none"
  BY <1>1, <1>2
<1>4. WebType
  BY <1>1, <1>2, <1>3 DEF WebType
<1>5. FewObjects
  <2>1. {p \in Place : objects[p] # 0} = {}
    BY <1>1
  <2> QED
    BY <2>1, FS_EmptySet DEF FewObjects
<1>6. MovesInOrder /\ CopyIsThere
  BY <1>3 DEF MovesInOrder, CopyIsThere, moving
<1>7. ContentIsKept
  BY <1>1 DEF ContentIsKept
<1> QED
  BY <1>4, <1>5, <1>6, <1>7 DEF WebInv

\* The stores do not change while a request is made, authorized or refused.
LEMMA RequestGoesOn ==
  ASSUME WebInv, NEW r \in Request, NEW q \in RequestKind,
         request' = [request EXCEPT ![r] = q],
         UNCHANGED <<objects, reported, given_up>>,
         q.user \in Login, {q.from, q.to} \subseteq Place,
         q.at \in {"subject", "user_data", "store"} /\ q.cmd = "mv" => ToMove(q)
  PROVE  WebInv'
<1>1. /\ request' \in [Request -> RequestKind] /\ request'[r] = q
      /\ \A s \in Request \ {r} : request'[s] = request[s]
  BY DEF WebInv, WebType
<1>2. WebType' /\ FewObjects' /\ ContentIsKept'
  BY <1>1 DEF WebInv, WebType, FewObjects, ContentIsKept
<1>3. MovesInOrder'
  BY <1>1 DEF WebInv, MovesInOrder
<1>4. CopyIsThere'
  <2>1. ~moving(r)'
    BY <1>1 DEF moving, ToMove
  <2>2. \A s \in Request \ {r} : moving(s)' => moving(s)
    BY <1>1 DEF moving
  <2> QED
    BY <1>1, <2>1, <2>2 DEF WebInv, CopyIsThere
<1> QED
  BY <1>2, <1>3, <1>4 DEF WebInv

\* A request that is answered.
LEMMA RequestAnswered ==
  ASSUME WebType, NEW r \in Request, NEW answer \in {"none", "200", "204", "400"},
         Answers(r, answer)
  PROVE  /\ request' \in [Request -> RequestKind]
         /\ request'[r].at = "answered"
         /\ request'[r].user = request[r].user
         /\ request'[r].from = request[r].from /\ request'[r].to = request[r].to
         /\ \A s \in Request \ {r} : request'[s] = request[s]
<1>1. PICK none \in Seq(StoreCall) : none = <<>>
  BY EmptySeq
<1>2. request' = [request EXCEPT ![r].at = "answered", ![r].answer = answer,
                                 ![r].todo = none]
  BY <1>1, Zenon DEF Answers
<1>3. request \in [Request -> RequestKind] /\ request[r] \in RequestKind
  BY DEF WebType
<1>4. /\ request'[r].at = "answered" /\ request'[r].user = request[r].user
      /\ request'[r].from = request[r].from /\ request'[r].to = request[r].to
  BY <1>2, <1>3 DEF RequestKind
<1>5. \A s \in Request \ {r} : request'[s] = request[s]
  BY <1>2, <1>3
<1>6. request' \in [Request -> RequestKind]
  BY <1>1, <1>2, <1>3 DEF RequestKind
<1> QED
  BY <1>4, <1>5, <1>6

LEMMA RequestEnds ==
  ASSUME WebInv, NEW r \in Request, NEW answer \in {"none", "200", "204", "400"},
         request[r].at # "none",
         Answers(r, answer), UNCHANGED <<objects, reported, given_up>>
  PROVE  WebInv'
<1>1. /\ request' \in [Request -> RequestKind]
      /\ request'[r].at = "answered" /\ request'[r].user = request[r].user
      /\ request'[r].from = request[r].from /\ request'[r].to = request[r].to
      /\ \A s \in Request \ {r} : request'[s] = request[s]
  BY RequestAnswered DEF WebInv
<1>2. WebType' /\ FewObjects' /\ ContentIsKept'
  BY <1>1 DEF WebInv, WebType, FewObjects, ContentIsKept
<1>3. MovesInOrder'
  BY <1>1 DEF WebInv, MovesInOrder
<1>4. CopyIsThere'
  BY <1>1 DEF WebInv, CopyIsThere, moving
<1> QED
  BY <1>2, <1>3, <1>4 DEF WebInv
\* Sequences of one and of two calls, and of none.
LEMMA Calls ==
  ASSUME NEW a \in StoreCall, NEW b \in StoreCall
  PROVE  /\ <<>> \in Seq(StoreCall) /\ <<a>> \in Seq(StoreCall)
         /\ <<a, b>> \in Seq(StoreCall)
         /\ Len(<<a, b>>) = 2 /\ <<a, b>>[1] = a /\ <<a, b>>[2] = b
OBVIOUS

LEMMA CallType ==
  ASSUME NEW p \in Place, NEW q \in Place
  PROVE  /\ PutObject(p) \in StoreCall /\ GetObject(p) \in StoreCall
         /\ RemoveObject(p) \in StoreCall /\ RollBack(p) \in StoreCall
         /\ CopyObject(p, q) \in StoreCall
BY DEF StoreCall, PutObject, GetObject, RemoveObject, RollBack, CopyObject

\* The calls of what is asked for.
LEMMA CallsOfTemplate ==
  ASSUME NEW t \in Template, t.cmd \in Command[t.action]
  PROVE  /\ calls(t) \in Seq(StoreCall)
         /\ t.cmd = "mv" => ToMove([t EXCEPT !.todo = calls(t)])
<1>1. t.from \in Place /\ t.to \in Place
  BY DEF Template
<1> DEFINE S == Seq(StoreCall)
<1>2. /\ <<>> \in S /\ <<PutObject(t.from)>> \in S /\ <<GetObject(t.from)>> \in S
      /\ <<RemoveObject(t.from)>> \in S /\ <<RollBack(t.from)>> \in S
      /\ <<CopyObject(t.from, t.to)>> \in S
      /\ <<CopyObject(t.from, t.to), RemoveObject(t.from)>> \in S
  BY <1>1, CallType, Calls
<1>3. t.action \in DOMAIN Command
  BY DEF Template
<1>4. CASE t.action = "minio"
  <2>1. calls(t) = minio_calls(t)
    BY <1>4 DEF calls
  <2>2. t.cmd \in {"ls", "rm", "cp", "mv", "clean", "dry-run"}
    BY <1>4 DEF Command
  <2>3. CASE t.cmd = "mv"
    <3>1. PICK todo \in S :
            todo = <<CopyObject(t.from, t.to), RemoveObject(t.from)>>
      BY <1>2
    <3>2. calls(t) = todo
      BY <2>1, <2>3, <3>1 DEF minio_calls, mv_file
    <3>3. Len(todo) = 2 /\ todo[1] = CopyObject(t.from, t.to)
          /\ todo[2] = RemoveObject(t.from)
      BY <1>1, <3>1, CallType, Calls
    <3>4. PICK q : q = [t EXCEPT !.todo = todo]
      OBVIOUS
    <3>5. q.todo = todo /\ q.from = t.from /\ q.to = t.to
      BY <3>4 DEF Template
    <3>6. ToMove(q)
      BY <3>3, <3>5 DEF ToMove
    <3> QED
      BY <3>2, <3>4, <3>6
  <2>4. CASE t.cmd \in {"ls", "clean", "dry-run"}
    BY <1>2, <2>1, <2>4 DEF minio_calls
  <2>5. CASE t.cmd \in {"rm", "cp"}
    BY <1>2, <2>1, <2>5 DEF minio_calls
  <2> QED
    BY <2>2, <2>3, <2>4, <2>5
<1>5. CASE t.action = "psql"
  <2>1. t.cmd \in {"script", "query", "returning-query", "writing-query"}
    BY <1>5 DEF Command
  <2> QED
    BY <1>2, <1>5, <2>1 DEF calls, psql_calls
<1>6. CASE t.action \in {"content", "devel_upload"}
  <2>1. t.cmd # "mv"
    <3>1. CASE t.action = "content"
      BY <3>1 DEF Command
    <3>2. CASE t.action = "devel_upload"
      BY <3>2 DEF Command
    <3> QED
      BY <1>6, <3>1, <3>2
  <2>2. calls(t) = <<IF t.cmd = "put" THEN PutObject(t.from) ELSE RemoveObject(t.from)>>
    BY <1>6 DEF calls, content_calls
  <2>3. calls(t) = <<PutObject(t.from)>> \/ calls(t) = <<RemoveObject(t.from)>>
    BY <2>2
  <2> QED
    BY <1>2, <2>1, <2>3
<1>7. CASE t.action \in {"redis", "ferretdb"}
  <2>1. t.cmd # "mv"
    <3>1. CASE t.action = "redis"
      BY <3>1 DEF Command
    <3>2. CASE t.action = "ferretdb"
      BY <3>2 DEF Command
    <3> QED
      BY <1>7, <3>1, <3>2
  <2>2. calls(t) = <<IF t.cmd = "put" THEN PutObject(t.from) ELSE GetObject(t.from)>>
    BY <1>7 DEF calls, redis_calls, ferretdb_calls
  <2>3. calls(t) = <<PutObject(t.from)>> \/ calls(t) = <<GetObject(t.from)>>
    BY <2>2
  <2> QED
    BY <1>2, <2>1, <2>3
<1>8. CASE t.action \in {"login", "devel_download"}
  <2>1. t.cmd # "mv"
    <3>1. CASE t.action = "login"
      BY <3>1 DEF Command
    <3>2. CASE t.action = "devel_download"
      BY <3>2 DEF Command
    <3> QED
      BY <1>8, <3>1, <3>2
  <2>2. calls(t) = <<>>
    BY <1>8 DEF calls
  <2> QED
    BY <1>2, <2>1, <2>2
<1> QED
  BY <1>3, <1>4, <1>5, <1>6, <1>7, <1>8 DEF Command
\* A request is made.
LEMMA AsksStep ==
  ASSUME WebInv, NEW r \in Request, NEW t \in Template,
         t.cmd \in Command[t.action], Asks(r, t)
  PROVE  WebInv'
<1>1. UNCHANGED <<objects, reported, given_up>>
  BY DEF Asks
<1>2. PICK todo \in Seq(StoreCall) : todo = calls(t)
  BY CallsOfTemplate
<1>3. t.cmd = "mv" =>
        /\ Len(todo) = 2 /\ todo[1] = CopyObject(t.from, t.to)
        /\ todo[2] = RemoveObject(t.from)
  <2>1. PICK q : q = [t EXCEPT !.todo = todo]
    OBVIOUS
  <2>2. q.todo = todo /\ q.from = t.from /\ q.to = t.to
    BY <2>1 DEF Template
  <2>3. t.cmd = "mv" => ToMove(q)
    BY <1>2, <2>1, CallsOfTemplate
  <2> QED
    BY <2>2, <2>3 DEF ToMove
<1>4. PICK none \in Seq(StoreCall) : none = <<>>
  BY EmptySeq
<1>5. t.todo = none /\ t.data = 0
  BY <1>4 DEF Template
<1>6. CASE refused(t)
  <2>1. PICK q : q = [t EXCEPT !.at = "answered", !.answer = "400"]
    OBVIOUS
  <2>2. /\ q \in RequestKind /\ q.at = "answered" /\ q.user = t.user
        /\ q.from = t.from /\ q.to = t.to
    <3>1. t \in RequestKind
      <4>1. PICK u : u = [t EXCEPT !.todo = none]
        OBVIOUS
      <4>2. u \in RequestKind
        BY <4>1 DEF Template, RequestKind
      <4>3. u = t
        BY <1>5, <4>1 DEF Template
      <4> QED
        BY <4>2, <4>3
    <3> QED
      BY <2>1, <3>1 DEF RequestKind
  <2>3. request' = [request EXCEPT ![r] = q]
    BY <1>6, <2>1 DEF Asks
  <2>4. q.user \in Login /\ {q.from, q.to} \subseteq Place
    BY <2>2 DEF Template
  <2> QED
    BY <1>1, <2>2, <2>3, <2>4, RequestGoesOn
<1>7. CASE ~refused(t)
  <2>1. PICK at \in {"user_data", "store", "subject"} :
          at = CASE t.action = "login" -> "user_data"
                 [] t.action = "content" -> "store"
                 [] OTHER -> "subject"
    OBVIOUS
  <2>2. PICK q : q = [t EXCEPT !.at = at, !.data = t.key, !.todo = todo]
    OBVIOUS
  <2>3. /\ q \in RequestKind /\ q.from = t.from /\ q.to = t.to /\ q.todo = todo
        /\ q.cmd = t.cmd /\ q.user = t.user
    BY <2>2 DEF Template, RequestKind
  <2>4. request' = [request EXCEPT ![r] = q]
    BY <1>2, <1>7, <2>1, <2>2 DEF Asks
  <2>5. q.user \in Login /\ {q.from, q.to} \subseteq Place
    BY <2>3 DEF Template
  <2>6. q.cmd = "mv" => ToMove(q)
    BY <1>3, <2>3 DEF ToMove
  <2> QED
    BY <1>1, <2>3, <2>4, <2>5, <2>6, RequestGoesOn
<1> QED
  BY <1>6, <1>7

\* A request that is authorized goes on; its calls stay what they were.
LEMMA RequestMoves ==
  ASSUME WebInv, NEW r \in Request, NEW q \in RequestKind,
         request[r].at \in {"subject", "user_data"},
         q.user = request[r].user, q.from = request[r].from, q.to = request[r].to,
         q.todo = request[r].todo, q.cmd = request[r].cmd,
         request' = [request EXCEPT ![r] = q],
         UNCHANGED <<objects, reported, given_up>>
  PROVE  WebInv'
<1>1. q.user \in Login /\ {q.from, q.to} \subseteq Place
  BY DEF WebInv, WebType
<1>2. q.cmd = "mv" => ToMove(q)
  BY DEF WebInv, MovesInOrder, ToMove, ToRemove
<1> QED
  BY <1>1, <1>2, RequestGoesOn

LEMMA SubjectStep ==
  ASSUME WebInv, NEW r \in Request, fetch_subject(r)
  PROVE  WebInv'
<1>1. request[r].at = "subject" /\ UNCHANGED <<objects, reported, given_up>>
  BY DEF fetch_subject
<1>2. failure(request[r]) \in {"none", "200", "204", "400"}
  BY DEF failure
<1>3. CASE request' = [request EXCEPT ![r].at = "user_data"]
  <2>1. request \in [Request -> RequestKind] /\ request[r] \in RequestKind
    BY DEF WebInv, WebType
  <2>2. PICK q : q = [request[r] EXCEPT !.at = "user_data"]
    OBVIOUS
  <2>3. /\ q \in RequestKind /\ q.user = request[r].user
        /\ q.from = request[r].from /\ q.to = request[r].to
        /\ q.todo = request[r].todo /\ q.cmd = request[r].cmd
    BY <2>1, <2>2 DEF RequestKind
  <2>4. request' = [request EXCEPT ![r] = q]
    BY <1>3, <2>1, <2>2
  <2> QED
    BY <1>1, <2>3, <2>4, RequestMoves
<1>4. CASE Answers(r, failure(request[r]))
  BY <1>1, <1>2, <1>4, RequestEnds
<1> QED
  BY <1>3, <1>4 DEF fetch_subject

LEMMA UserDataStep ==
  ASSUME AccountsType, WebInv, NEW r \in Request, fetch_user_data(r)
  PROVE  WebInv'
<1>1. request[r].at = "user_data" /\ UNCHANGED <<objects, reported, given_up>>
  BY DEF fetch_user_data
<1>2. ASSUME NEW answer \in {"none", "200", "204", "400"}, Answers(r, answer)
      PROVE  WebInv'
  BY <1>1, <1>2, RequestEnds
<1>3. failure(request[r]) \in {"none", "200", "204", "400"}
  BY DEF failure
<1>4. CASE request' = [request EXCEPT ![r].at = "store",
                                      ![r].data = users[request[r].user]]
  <2>1. request \in [Request -> RequestKind] /\ request[r] \in RequestKind
    BY DEF WebInv, WebType
  <2>2. PICK data \in Nat : data = users[request[r].user]
    BY <1>1 DEF AccountsType, WebInv, WebType
  <2>3. PICK q : q = [request[r] EXCEPT !.at = "store", !.data = data]
    OBVIOUS
  <2>4. /\ q \in RequestKind /\ q.user = request[r].user
        /\ q.from = request[r].from /\ q.to = request[r].to
        /\ q.todo = request[r].todo /\ q.cmd = request[r].cmd
    BY <2>1, <2>3 DEF RequestKind
  <2>5. request' = [request EXCEPT ![r].at = "store", ![r].data = data]
    BY <1>4, <2>2, Zenon
  <2>6. request' = [request EXCEPT ![r] = q]
    BY <2>1, <2>3, <2>5
  <2> QED
    BY <1>1, <2>4, <2>6, RequestMoves
<1>5. \/ request' = [request EXCEPT ![r].at = "store",
                                    ![r].data = users[request[r].user]]
      \/ Answers(r, failure(request[r]))
      \/ Answers(r, "200") \/ Answers(r, "400")
  BY Zenon DEF fetch_user_data
<1> QED
  BY <1>2, <1>3, <1>4, <1>5
\* A finite set of calls can be done one after the other.
LEMMA CallsInSequence ==
  ASSUME NEW S \in SUBSET StoreCall, IsFiniteSet(S)
  PROVE  SetToSeq(S) \in Seq(StoreCall)
<1>1. Cardinality(S) \in Nat /\ ExistsBijection(1 .. Cardinality(S), S)
  BY FS_CardinalityType
<1>2. \E f \in [1 .. Cardinality(S) -> S] : IsInjective(f)
  BY <1>1 DEF ExistsBijection, Bijection, Injection
<1>3. SetToSeq(S) \in [1 .. Cardinality(S) -> S]
  BY <1>2, Zenon DEF SetToSeq
<1>4. SetToSeq(S) \in [1 .. Cardinality(S) -> StoreCall]
  BY <1>3
<1> QED
  BY <1>1, <1>4, SeqDef

\* What clean is going to remove are objects of the bucket, and not too many.
LEMMA CleaningIsFinite ==
  ASSUME FewObjects, NEW q
  PROVE  /\ clean_bucket_content(q) \subseteq StoreCall
         /\ IsFiniteSet(clean_bucket_content(q))
<1> DEFINE here == {p \in Place : p.user = q.user /\ p.store = q.from.store
                                  /\ objects[p] # 0}
           removals == {RemoveObject(p) : p \in here}
<1>1. IsFiniteSet(here)
  BY FS_Subset DEF FewObjects
<1>2. [p \in here |-> RemoveObject(p)] \in Surjection(here, removals)
  BY DEF Surjection
<1>3. IsFiniteSet(removals)
  <2> HIDE DEF here, removals
  <2> QED
    BY <1>1, <1>2, FS_Surjection
<1>4. removals \subseteq StoreCall
  BY CallType
<1>5. IsFiniteSet({})
  BY FS_EmptySet
<1> QED
  BY <1>3, <1>4, <1>5 DEF clean_bucket_content

LEMMA ListStep ==
  ASSUME WebInv, NEW r \in Request, List(r)
  PROVE  WebInv'
<1>1. /\ request[r].at = "store" /\ request[r].todo = <<>>
      /\ UNCHANGED <<objects, reported, given_up>>
  BY DEF List
<1>2. CASE /\ clean_bucket_content(request[r]) # {}
           /\ request' = [request EXCEPT ![r].todo =
                            SetToSeq(clean_bucket_content(request[r]))]
  <2>1. PICK todo \in Seq(StoreCall) :
          todo = SetToSeq(clean_bucket_content(request[r]))
    BY CleaningIsFinite, CallsInSequence DEF WebInv
  <2>2. request \in [Request -> RequestKind] /\ request[r] \in RequestKind
    BY DEF WebInv, WebType
  <2>3. PICK q : q = [request[r] EXCEPT !.todo = todo]
    OBVIOUS
  <2>4. /\ q \in RequestKind /\ q.user = request[r].user
        /\ q.from = request[r].from /\ q.to = request[r].to
        /\ q.cmd = request[r].cmd
    BY <2>2, <2>3 DEF RequestKind
  <2>5. request' = [request EXCEPT ![r].todo = todo]
    BY <1>2, <2>1, Zenon
  <2>6. request' = [request EXCEPT ![r] = q]
    BY <2>2, <2>3, <2>5
  <2>7. q.user \in Login /\ {q.from, q.to} \subseteq Place
    BY <1>1, <2>4 DEF WebInv, WebType
  <2>8. q.cmd # "mv"
    BY <1>2, <2>4 DEF clean_bucket_content
  <2> QED
    BY <1>1, <2>4, <2>6, <2>7, <2>8, RequestGoesOn
<1>3. ASSUME NEW answer \in {"none", "200", "204", "400"}, Answers(r, answer)
      PROVE  WebInv'
  BY <1>1, <1>3, RequestEnds
<1>4. \/ /\ clean_bucket_content(request[r]) # {}
         /\ request' = [request EXCEPT ![r].todo =
                          SetToSeq(clean_bucket_content(request[r]))]
      \/ Answers(r, "200") \/ Answers(r, "400")
  BY Zenon DEF List
<1> QED
  BY <1>2, <1>3, <1>4

\* What a call does to the store.  What it overwrites or removes is given up,
\* unless it is the original of an object that was moved; and so is what
\* another request is moving to or from that place.
LEMMA EffectOfCall ==
  ASSUME WebType, NEW r \in Request, NEW call \in StoreCall, Effect(r, call)
  PROVE  /\ objects' \in [Place -> Nat]
         /\ \A p \in Place \ {call.to} : objects'[p] = objects[p]
         /\ given_up \subseteq given_up'
         /\ call.op = "put" => objects'[call.to] = r
         /\ call.op = "copy" => objects'[call.to] = objects[call.from]
         /\ \/ objects[call.to] \in {0, objects'[call.to]} \union given_up'
            \/ call.op = "remove" /\ request[r].cmd = "mv"
         /\ \A s \in Request \ {r} :
              moving(s) /\ call.to \in {request[s].from, request[s].to} =>
                \/ objects' = objects
                \/ {objects[request[s].from], objects'[call.to]}
                     \subseteq {0} \union given_up'
<1>1. call.to \in Place /\ call.from \in Place
  BY DEF StoreCall
<1>2. objects \in [Place -> Nat] /\ r \in Nat
  BY DEF WebType, Request
<1>3. CASE call.op \in {"get", "rollback"}
  BY <1>1, <1>2, <1>3 DEF Effect
<1>4. CASE call.op \in {"put", "copy", "remove"}
  <2> DEFINE q == request[r]
             raced == in_the_way(r, call.to)
             value == CASE call.op = "put" -> r
                        [] call.op = "copy" -> objects[call.from]
                        [] call.op = "remove" -> 0
  <2>1. PICK new \in Nat : new = value
    BY <1>1, <1>2, <1>4
  <2>2. /\ call.op = "put" => new = r
        /\ call.op = "copy" => new = objects[call.from]
        /\ call.op = "remove" => new = 0
    BY <2>1
  <2>3. /\ objects' = [objects EXCEPT ![call.to] = new]
        /\ given_up' = given_up
             \union (IF ignores_failure(q, call) /\ q.cmd = "mv" THEN {}
                     ELSE {objects[call.to]} \ {0, new})
             \union (IF raced = {} THEN {}
                     ELSE ({objects[p] : p \in raced} \union {new}) \ {0})
    <3> HIDE DEF raced
    <3>1. call.op \notin {"get", "rollback"}
      BY <1>4
    <3> QED
      BY <2>1, <3>1, Zenon DEF Effect, raced
  <2>4. /\ objects' \in [Place -> Nat] /\ objects'[call.to] = new
        /\ \A p \in Place \ {call.to} : objects'[p] = objects[p]
    BY <1>1, <1>2, <2>3
  <2>5. \/ objects[call.to] \in {0, new} \union given_up'
        \/ call.op = "remove" /\ q.cmd = "mv"
    BY <2>3 DEF ignores_failure
  <2>6. ASSUME NEW s \in Request \ {r}, moving(s),
               call.to \in {request[s].from, request[s].to}
        PROVE  {objects[request[s].from], new} \subseteq {0} \union given_up'
    <3>1. request[s].from \in raced
      BY <2>6 DEF in_the_way
    <3> HIDE DEF raced
    <3> QED
      BY <2>3, <3>1
  <2>7. given_up \subseteq given_up'
    BY <2>3
  <2> QED
    BY <2>2, <2>4, <2>5, <2>6, <2>7
<1> QED
  BY <1>3, <1>4 DEF StoreCall
\* How a call of the store ends: the request is answered, or goes on with the
\* next call, which after a copy it does only if that has been made; and a
\* success is reported of something only if it is there.
LEMMA ServeEnds ==
  ASSUME NEW r \in Request, Serve(r)
  PROVE  LET q == request[r]
             call == Head(q.todo)
         IN /\ q.at = "store" /\ q.todo # <<>>
            /\ Effect(r, call) \/ UNCHANGED <<objects, given_up>>
            /\ \/ /\ \E answer \in {"200", "204", "400"} : Answers(r, answer)
                  /\ \/ reported' = reported
                     \/ /\ reported' = reported \union {r}
                        /\ call.op = "put" /\ Effect(r, call)
               \/ /\ Len(q.todo) > 1
                  /\ request' = [request EXCEPT ![r].todo = Tail(@)]
                  /\ reported' = reported
                  /\ \/ possible(q, call) /\ Effect(r, call)
                     \/ call.op = "remove"
<1> DEFINE q == request[r]
           call == Head(q.todo)
           Over == \E answer \in {"200", "204", "400"} : Answers(r, answer)
           Goes == /\ Len(q.todo) > 1
                   /\ request' = [request EXCEPT ![r].todo = Tail(@)]
                   /\ reported' = reported
<1>1. q.at = "store" /\ q.todo # <<>>
  BY DEF Serve
<1>2. success(q) \in {"200", "204", "400"} /\ "400" \in {"200", "204", "400"}
  BY DEF success
<1>3. Succeeds(r) => \/ Over /\ (reported' = reported
                                 \/ (reported' = reported \union {r} /\ call.op = "put"))
                     \/ Goes
  BY <1>2, Zenon DEF Succeeds
<1>4. Fails(r, call) => \/ Over /\ reported' = reported
                        \/ Goes /\ call.op = "remove"
                        \/ Succeeds(r) /\ call.op = "remove"
  BY <1>2, Zenon DEF Fails, ignores_failure
<1>5. call.op = "remove" => call.op # "put"
  OBVIOUS
<1>6. \/ possible(q, call) /\ Effect(r, call) /\ Succeeds(r)
      \/ ~possible(q, call) /\ Fails(r, call) /\ UNCHANGED <<objects, given_up>>
      \/ /\ Fails(r, call)
         /\ \/ possible(q, call) /\ Effect(r, call)
            \/ UNCHANGED <<objects, given_up>>
  BY Zenon DEF Serve
<1> HIDE DEF q, call, Over, Goes
<1>7. /\ q.at = "store" /\ q.todo # <<>>
      /\ Effect(r, call) \/ UNCHANGED <<objects, given_up>>
      /\ \/ /\ Over
            /\ \/ reported' = reported
               \/ /\ reported' = reported \union {r}
                  /\ call.op = "put" /\ Effect(r, call)
         \/ /\ Goes
            /\ \/ possible(q, call) /\ Effect(r, call)
               \/ call.op = "remove"
  BY <1>1, <1>3, <1>4, <1>5, <1>6
<1> QED
  BY <1>7, Zenon DEF q, call, Over, Goes

\* A call of the store, its answer, or its failure.
LEMMA ServeStep ==
  ASSUME WebInv, NEW r \in Request, Serve(r)
  PROVE  WebInv'
<1> DEFINE q == request[r]
<1>1. q.at = "store" /\ q.todo # <<>>
  BY ServeEnds
<1>2. request \in [Request -> RequestKind] /\ q \in RequestKind /\ q.todo \in Seq(StoreCall)
  BY DEF WebInv, WebType, RequestKind
<1>3. PICK call \in StoreCall : call = Head(q.todo) /\ call = q.todo[1]
  BY <1>1, <1>2, HeadTailProperties
<1>4. PICK effect \in BOOLEAN : effect <=> Effect(r, call)
  <2>1. CASE Effect(r, call)
    BY <2>1
  <2>2. CASE ~Effect(r, call)
    BY <2>2
  <2> QED
    BY <2>1, <2>2
<1>5. effect \/ UNCHANGED <<objects, given_up>>
  BY <1>3, <1>4, ServeEnds
<1>6. \/ /\ \E answer \in {"200", "204", "400"} : Answers(r, answer)
         /\ \/ reported' = reported
            \/ reported' = reported \union {r} /\ call.op = "put" /\ effect
      \/ /\ Len(q.todo) > 1
         /\ request' = [request EXCEPT ![r].todo = Tail(@)]
         /\ reported' = reported
         /\ (possible(q, call) /\ effect) \/ call.op = "remove"
  BY <1>3, <1>4, ServeEnds
<1>7. {q.from, q.to} \subseteq Place /\ q.user \in Login /\ objects \in [Place -> Nat]
      /\ {call.from, call.to} \subseteq Place
  BY <1>1 DEF WebInv, WebType, StoreCall
<1>8. /\ objects' \in [Place -> Nat]
      /\ \A p \in Place \ {call.to} : objects'[p] = objects[p]
      /\ given_up \subseteq given_up'
      /\ call.op = "put" /\ effect => objects'[call.to] = r
      /\ call.op = "copy" /\ effect => objects'[call.to] = objects[call.from]
      /\ \/ objects[call.to] \in {0, objects'[call.to]} \union given_up'
         \/ call.op = "remove" /\ q.cmd = "mv"
      /\ \A s \in Request \ {r} :
           moving(s) /\ call.to \in {request[s].from, request[s].to} =>
             \/ objects' = objects
             \/ {objects[request[s].from], objects'[call.to]}
                  \subseteq {0} \union given_up'
  <2>1. CASE effect
    <3>1. WebType /\ Effect(r, call)
      BY <1>4, <2>1 DEF WebInv
    <3> QED
      BY <3>1, EffectOfCall
  <2>2. CASE ~effect
    BY <1>5, <1>7, <2>2
  <2> QED
    BY <2>1, <2>2
<1>9. PICK new \in RequestKind :
        /\ new = request'[r] /\ request' \in [Request -> RequestKind]
        /\ \A s \in Request \ {r} : request'[s] = request[s]
        /\ new.user = q.user /\ new.from = q.from /\ new.to = q.to
        /\ \/ new.at = "answered"
           \/ /\ new.at = "store" /\ new.cmd = q.cmd /\ new.todo = Tail(q.todo)
              /\ Len(q.todo) > 1
              /\ (possible(q, call) /\ effect) \/ call.op = "remove"
  <2>1. CASE \E answer \in {"200", "204", "400"} : Answers(r, answer)
    <3>1. PICK answer \in {"none", "200", "204", "400"} : Answers(r, answer)
      BY <2>1
    <3>2. WebType
      BY DEF WebInv
    <3> QED
      BY <3>1, <3>2, RequestAnswered
  <2>2. CASE /\ Len(q.todo) > 1
             /\ request' = [request EXCEPT ![r].todo = Tail(@)]
             /\ (possible(q, call) /\ effect) \/ call.op = "remove"
    <3>1. PICK todo \in Seq(StoreCall) : todo = Tail(q.todo)
      BY <1>1, <1>2, HeadTailProperties
    <3>2. request' = [request EXCEPT ![r].todo = todo]
      BY <2>2, <3>1, Zenon
    <3>3. PICK n : n = [q EXCEPT !.todo = todo]
      OBVIOUS
    <3>4. /\ n \in RequestKind /\ n.user = q.user /\ n.from = q.from /\ n.to = q.to
          /\ n.at = q.at /\ n.cmd = q.cmd /\ n.todo = todo
      BY <1>2, <3>3 DEF RequestKind
    <3>5. /\ request' = [request EXCEPT ![r] = n]
          /\ request' \in [Request -> RequestKind] /\ request'[r] = n
          /\ \A s \in Request \ {r} : request'[s] = request[s]
      BY <1>2, <3>2, <3>3, <3>4
    <3> QED
      BY <1>1, <2>2, <3>1, <3>4, <3>5
  <2> QED
    BY <1>6, <2>1, <2>2
<1>10. q.cmd = "mv" => ToMove(q) \/ ToRemove(q)
  BY <1>1 DEF WebInv, MovesInOrder
<1>11. q.cmd = "mv" /\ call.op = "remove" => moving(r) /\ call.to = q.from
  BY <1>1, <1>3, <1>10 DEF ToMove, ToRemove, moving, CopyObject, RemoveObject
<1>12. WebType'
  <2>1. reported' \subseteq Request
    BY <1>6 DEF WebInv, WebType
  <2>2. \A s \in Request : request'[s].at # "none" =>
          request'[s].user \in Login /\ {request'[s].from, request'[s].to} \subseteq Place
    <3>1. new.user \in Login /\ {new.from, new.to} \subseteq Place
      BY <1>7, <1>9
    <3>2. \A s \in Request \ {r} : request'[s].at # "none" =>
            request'[s].user \in Login /\ {request'[s].from, request'[s].to} \subseteq Place
      BY <1>9 DEF WebInv, WebType
    <3> QED
      BY <1>9, <3>1, <3>2
  <2> QED
    BY <1>8, <1>9, <2>1, <2>2 DEF WebType
<1>13. FewObjects'
  <2>1. {p \in Place : objects'[p] # 0} \subseteq
          {p \in Place : objects[p] # 0} \union {call.to}
    BY <1>8
  <2>2. IsFiniteSet({p \in Place : objects[p] # 0} \union {call.to})
    BY FS_AddElement DEF WebInv, FewObjects
  <2>3. IsFiniteSet({p \in Place : objects'[p] # 0})
    BY <2>1, <2>2, FS_Subset
  <2> QED
    BY <2>3 DEF FewObjects
<1>14. new.at = "store" /\ new.cmd = "mv" =>
         /\ Len(new.todo) = 1 /\ new.todo[1] = RemoveObject(q.from)
         /\ call = CopyObject(q.from, q.to)
         /\ possible(q, call) /\ effect
  <2> SUFFICES ASSUME new.at = "store", new.cmd = "mv"
               PROVE  /\ Len(new.todo) = 1 /\ new.todo[1] = RemoveObject(q.from)
                      /\ call = CopyObject(q.from, q.to)
                      /\ possible(q, call) /\ effect
    OBVIOUS
  <2>1. /\ q.cmd = "mv" /\ new.todo = Tail(q.todo) /\ Len(q.todo) > 1
        /\ (possible(q, call) /\ effect) \/ call.op = "remove"
    BY <1>9
  <2>2. ToMove(q)
    <3>1. q.cmd = "mv" /\ Len(q.todo) > 1
      BY <2>1
    <3>2. PICK n \in Nat : n = Len(q.todo)
      BY <1>2, LenProperties
    <3>3. n > 1
      BY <3>1, <3>2, Zenon
    <3>4. n # 1
      BY <3>3
    <3>5. ~ToRemove(q)
      BY <3>2, <3>4, Zenon DEF ToRemove
    <3> QED
      BY <1>10, <3>1, <3>5, Zenon
  <2>3. call = CopyObject(q.from, q.to) /\ call.op # "remove"
    BY <1>3, <2>2 DEF ToMove, CopyObject
  <2>4. Len(new.todo) = 1 /\ new.todo[1] = RemoveObject(q.from)
    BY <1>1, <1>2, <2>1, <2>2, HeadTailProperties DEF ToMove
  <2> QED
    BY <2>1, <2>3, <2>4
<1>15. MovesInOrder'
  <2>1. ASSUME new.at = "store", new.cmd = "mv" PROVE ToRemove(new)
    BY <1>9, <1>14, <2>1 DEF ToRemove
  <2>2. ASSUME NEW s \in Request \ {r},
               request'[s].at \in {"subject", "user_data", "store"},
               request'[s].cmd = "mv"
        PROVE  ToMove(request'[s]) \/ ToRemove(request'[s])
    BY <1>9, <2>2 DEF WebInv, MovesInOrder
  <2> QED
    BY <1>9, <2>1, <2>2 DEF MovesInOrder
<1>16. CopyIsThere'
  <2> SUFFICES ASSUME NEW s \in Request, moving(s)'
               PROVE  /\ request'[s].from # request'[s].to
                      /\ \/ objects'[request'[s].to] = objects'[request'[s].from]
                         \/ objects'[request'[s].from] \in {0} \union given_up'
    BY DEF CopyIsThere
  <2>1. CASE s = r
    <3>1. new.at = "store" /\ new.cmd = "mv"
      BY <1>9, <2>1 DEF moving
    <3>2. call = CopyObject(q.from, q.to) /\ possible(q, call) /\ effect
      BY <1>14, <3>1
    <3>3. q.from # q.to /\ call.to = q.to /\ call.from = q.from /\ call.op = "copy"
      BY <3>2 DEF possible, CopyObject
    <3>4. objects'[q.to] = objects[q.from] /\ objects'[q.from] = objects[q.from]
      BY <1>7, <1>8, <3>2, <3>3
    <3> QED
      BY <1>9, <2>1, <3>3, <3>4
  <2>2. CASE s # r
    <3>1. request'[s] = request[s] /\ moving(s)
      BY <1>9, <2>2 DEF moving
    <3>2. /\ request[s].from # request[s].to
          /\ \/ objects[request[s].to] = objects[request[s].from]
             \/ objects[request[s].from] \in {0} \union given_up
      BY <3>1 DEF WebInv, CopyIsThere
    <3>3. request[s].from \in Place /\ request[s].to \in Place
      BY <3>1 DEF moving, WebInv, WebType
    <3>4. CASE call.to \notin {request[s].from, request[s].to}
      BY <1>8, <3>1, <3>2, <3>3, <3>4
    <3>5. CASE call.to \in {request[s].from, request[s].to} /\ objects' # objects
      <4>1. {objects[request[s].from], objects'[call.to]} \subseteq {0} \union given_up'
        BY <1>8, <2>2, <3>1, <3>5
      <4>2. objects'[request[s].from] \in {0} \union given_up'
        BY <1>8, <3>3, <4>1
      <4> QED
        BY <3>1, <3>2, <4>2
    <3>6. CASE objects' = objects
      BY <1>8, <3>1, <3>2, <3>6
    <3> QED
      BY <3>4, <3>5, <3>6
  <2> QED
    BY <2>1, <2>2
<1>17. ContentIsKept'
  <2> SUFFICES ASSUME NEW k \in reported', k \notin given_up'
               PROVE  \E p \in Place : objects'[p] = k
    BY DEF ContentIsKept
  <2>1. CASE k \notin reported
    <3>1. k = r /\ call.op = "put" /\ effect
      BY <1>6, <2>1
    <3> QED
      BY <1>7, <1>8, <3>1
  <2>2. CASE k \in reported
    <3>1. PICK p \in Place : objects[p] = k
      BY <1>8, <2>2 DEF WebInv, ContentIsKept
    <3>2. k # 0
      BY <2>2 DEF WebInv, WebType, Request
    <3>3. CASE p # call.to
      BY <1>8, <3>1, <3>3
    <3>4. CASE p = call.to /\ k = objects'[call.to]
      BY <3>4
    <3>5. CASE p = call.to /\ k # objects'[call.to]
      <4>1. moving(r) /\ call.to = q.from
        BY <1>8, <1>11, <3>1, <3>2, <3>5
      <4>2. /\ q.from # q.to
            /\ objects[q.to] = objects[q.from] \/ objects[q.from] \in {0} \union given_up
        BY <4>1 DEF WebInv, CopyIsThere
      <4>3. objects[q.to] = k
        BY <1>8, <3>1, <3>2, <3>5, <4>1, <4>2
      <4>4. objects'[q.to] = k
        BY <1>7, <1>8, <4>1, <4>2, <4>3
      <4> QED
        BY <1>7, <4>4
    <3> QED
      BY <3>3, <3>4, <3>5
  <2> QED
    BY <2>1, <2>2
<1> QED
  BY <1>12, <1>13, <1>15, <1>16, <1>17 DEF WebInv
\* What a deleted user has stored is given up; it may have been moved.
LEMMA ClearedStep ==
  ASSUME WebInv, NEW l \in Login, Cleared(l)
  PROVE  WebInv'
<1>1. /\ objects' = [p \in Place |-> IF p.user = l THEN 0 ELSE objects[p]]
      /\ given_up' = given_up
           \union ({objects[p] : p \in {p \in Place : p.user = l}} \ {0})
      /\ UNCHANGED <<request, reported>>
  BY DEF Cleared
<1>2. /\ objects \in [Place -> Nat]
      /\ \A p \in Place : objects'[p] \in {0, objects[p]}
      /\ \A p \in Place : objects[p] \in {0, objects'[p]} \union given_up'
      /\ given_up \subseteq given_up'
  BY <1>1 DEF WebInv, WebType
<1>3. WebType'
  <2>1. objects' \in [Place -> Nat]
    BY <1>1, <1>2
  <2> QED
    BY <1>1, <2>1 DEF WebInv, WebType
<1>4. FewObjects'
  <2>1. {p \in Place : objects'[p] # 0} \subseteq {p \in Place : objects[p] # 0}
    BY <1>2
  <2>2. IsFiniteSet({p \in Place : objects'[p] # 0})
    BY <2>1, FS_Subset DEF WebInv, FewObjects
  <2> QED
    BY <2>2 DEF FewObjects
<1>5. MovesInOrder'
  BY <1>1 DEF WebInv, MovesInOrder
<1>6. CopyIsThere'
  <2> SUFFICES ASSUME NEW s \in Request, moving(s)
               PROVE  /\ request[s].from # request[s].to
                      /\ \/ objects'[request[s].to] = objects'[request[s].from]
                         \/ objects'[request[s].from] \in {0} \union given_up'
    BY <1>1 DEF CopyIsThere, moving
  <2>1. PICK from \in Place, to \in Place :
          from = request[s].from /\ to = request[s].to
    BY DEF moving, WebInv, WebType
  <2>2. from # to /\ (objects[to] = objects[from] \/ objects[from] \in {0} \union given_up)
    BY <2>1 DEF WebInv, CopyIsThere
  <2>3. objects'[to] = objects'[from] \/ objects'[from] \in {0} \union given_up'
    BY <1>2, <2>2
  <2> QED
    BY <2>1, <2>2, <2>3
<1>7. ContentIsKept'
  <2> SUFFICES ASSUME NEW k \in reported, k \notin given_up'
               PROVE  \E p \in Place : objects'[p] = k
    BY <1>1 DEF ContentIsKept
  <2>1. PICK p \in Place : objects[p] = k
    BY <1>2 DEF WebInv, ContentIsKept
  <2>2. k # 0
    BY DEF WebInv, WebType, Request
  <2> QED
    BY <1>2, <2>1, <2>2
<1> QED
  BY <1>3, <1>4, <1>5, <1>6, <1>7 DEF WebInv

LEMMA WebStep ==
  scenario \in Scenarios /\ AccountsType /\ WebInv /\ [Next]_vars => WebInv'
<1> SUFFICES ASSUME scenario \in Scenarios, AccountsType, WebInv, [Next]_vars
             PROVE  WebInv'
  OBVIOUS
<1>1. CASE UNCHANGED webVars
  <2>1. UNCHANGED <<request, objects, reported, given_up>>
    BY <1>1 DEF webVars
  <2> QED
    BY <2>1 DEF WebInv, WebType, FewObjects, MovesInOrder, CopyIsThere, moving,
       ContentIsKept
<1>2. \A t \in scenario.templates : t \in Template /\ t.cmd \in Command[t.action]
  BY ScenariosAssumption
<1>3. ASSUME NEW r \in Request, NEW t \in scenario.templates, Asks(r, t)
      PROVE  WebInv'
  BY <1>2, <1>3, AsksStep
<1>4. ASSUME NEW r \in Request, Answering(r) PROVE WebInv'
  BY <1>4, SubjectStep, UserDataStep, ServeStep, ListStep DEF Answering
<1> QED
  BY <1>1, <1>3, <1>4, ClearedStep, WebSteps

\* What a web action has reported as stored stays in the stores, in its place or
\* where it was moved to, until something else is put in its place, it is removed
\* on request or with its user, or another request comes in the way of a move:
\* whatever calls fail, and in whatever order requests are served (ContentIsKept).
THEOREM ReportedContentIsKept == Spec => []ContentIsKept
<1>1. WebInv => ContentIsKept
  BY DEF WebInv
<1>2. AccountsType /\ WebInv /\ scenario \in Scenarios /\ [Next]_vars
        => AccountsType' /\ WebInv'
  BY AccountsStep, WebStep
<1> QED
  BY <1>1, <1>2, AccountsBegin, WebBegins, ScenarioType, PTL DEF Spec
----------------------------------------------------------------------------
(* The job that prepares CouchDB.                                          *)

\* The calls of the job are a sequence: each part of it is one of its elements,
\* whatever they are, and so is what is joined of two.
IsSequence(s) == s \in Seq(Range(s))

LEMMA SequenceOfItsElements == ASSUME NEW S, NEW s \in Seq(S) PROVE IsSequence(s)
<1>1. s \in [1 .. Len(s) -> Range(s)]
  BY DEF Range
<1>2. Len(s) \in Nat
  OBVIOUS
<1> QED
  BY <1>1, <1>2 DEF IsSequence

LEMMA JoinedSequences ==
  ASSUME NEW s, NEW t, IsSequence(s), IsSequence(t)
  PROVE  IsSequence(s \o t)
<1> PICK S, T : S = Range(s) /\ T = Range(t)
  OBVIOUS
<1>1. s \in Seq(S \union T) /\ t \in Seq(S \union T)
  BY DEF IsSequence
<1>2. s \o t \in Seq(S \union T)
  BY <1>1
<1> QED
  BY <1>2, SequenceOfItsElements

LEMMA ShortSequences ==
  \A c, d : IsSequence(<<c>>) /\ IsSequence(<<c, d>>)
<1> SUFFICES ASSUME NEW c, NEW d PROVE IsSequence(<<c>>) /\ IsSequence(<<c, d>>)
  OBVIOUS
<1>1. <<c>> \in Seq({c}) /\ <<c, d>> \in Seq({c, d})
  OBVIOUS
<1> QED
  BY <1>1, SequenceOfItsElements

LEMMA DocumentSequences ==
  ASSUME NEW db, NEW docs, Len(docs) \in Nat
  PROVE  IsSequence([i \in 1 .. Len(docs) |-> update_templated_doc(db, docs[i])])
<1> DEFINE s == [i \in 1 .. Len(docs) |-> update_templated_doc(db, docs[i])]
<1>1. s \in [1 .. Len(docs) -> Range(s)]
  BY DEF Range
<1> HIDE DEF s
<1>2. IsSequence(s)
  BY <1>1 DEF IsSequence
<1> QED
  BY <1>2 DEF s

LEMMA CallsOfInit == IsSequence(calls_of_init)
<1>1. IsSequence(wait_db_ready)
  BY ShortSequences DEF wait_db_ready
<1>2. \A of : /\ IsSequence(create_db(of)) /\ IsSequence(add_role(of))
              /\ IsSequence(add_user(of)) /\ IsSequence(enable_db_compaction(of))
  BY ShortSequences DEF create_db, add_role, add_user, enable_db_compaction
<1>3. ASSUME NEW db, NEW docs, Len(docs) \in Nat PROVE IsSequence(designs(db, docs))
  <2>1. IsSequence(wait_db_ready \o create_db(db))
    BY <1>1, <1>2, JoinedSequences
  <2>2. IsSequence(wait_db_ready \o create_db(db) \o add_role(db))
    BY <1>2, <2>1, JoinedSequences
  <2> QED
    BY <1>3, <2>2, DocumentSequences, JoinedSequences DEF designs
<1>4. IsSequence(init_system)
  <2> DEFINE configure == <<Call("configure_single_node", <<>>),
                            Call("configure_no_reduce_limit", <<>>)>>
  <2>1. IsSequence(configure)
    BY ShortSequences
  <2> HIDE DEF configure
  <2>2. IsSequence(wait_db_ready \o configure)
    BY <1>1, <2>1, JoinedSequences
  <2>3. IsSequence(wait_db_ready \o configure \o add_user("controller"))
    BY <1>2, <2>2, JoinedSequences
  <2>4. IsSequence(wait_db_ready \o configure \o add_user("controller")
                     \o add_user("invoker"))
    BY <1>2, <2>3, JoinedSequences
  <2> QED
    BY <2>4 DEF init_system, configure
<1>5. IsSequence(init_subjects)
  <2>1. Len(<<"auth_v2.0.0", "filter", "namespace_throttlings">>) \in Nat
    OBVIOUS
  <2> QED
    BY <1>3, <2>1 DEF init_subjects
<1>6. IsSequence(init_activations)
  <2>1. Len(<<"whisks_v2.1.0", "filters_v2.1.1", "filter", "activations",
              "logCleanup">>) \in Nat
    OBVIOUS
  <2> QED
    BY <1>3, <2>1 DEF init_activations
<1>7. IsSequence(init_actions)
  <2>1. Len(<<"whisks_v2.1.0", "filter">>) \in Nat
    OBVIOUS
  <2> QED
    BY <1>3, <2>1 DEF init_actions
<1>8. IsSequence(add_initial_subjects)
  <2>1. Len(Namespace) \in Nat
    BY NamespaceAssumption
  <2> QED
    BY <1>1, <2>1, DocumentSequences, JoinedSequences DEF add_initial_subjects
<1>9. IsSequence(init_users_metadata)
  BY <1>1, <1>2, JoinedSequences DEF init_users_metadata
<1>10. IsSequence(init_compactions_config)
  <2>1. IsSequence(wait_db_ready \o enable_db_compaction("users_metadata"))
    BY <1>1, <1>2, JoinedSequences
  <2>2. IsSequence(wait_db_ready \o enable_db_compaction("users_metadata")
                     \o enable_db_compaction("users_subjects"))
    BY <1>2, <2>1, JoinedSequences
  <2> QED
    BY <1>2, <2>2, JoinedSequences DEF init_compactions_config
<1>11. IsSequence(init_system \o init_subjects)
  BY <1>4, <1>5, JoinedSequences
<1>12. IsSequence(init_system \o init_subjects \o init_activations)
  BY <1>6, <1>11, JoinedSequences
<1>13. IsSequence(init_system \o init_subjects \o init_activations \o init_actions)
  BY <1>7, <1>12, JoinedSequences
<1>14. IsSequence(init_system \o init_subjects \o init_activations \o init_actions
                    \o add_initial_subjects)
  BY <1>8, <1>13, JoinedSequences
<1>15. IsSequence(init_system \o init_subjects \o init_activations \o init_actions
                    \o add_initial_subjects \o init_users_metadata)
  BY <1>9, <1>14, JoinedSequences
<1> QED
  BY <1>10, <1>15, JoinedSequences DEF calls_of_init

CouchCall == Range(calls_of_init)

DatabasesType ==
  dbinit \in [status : {"none", "pending", "running", "complete", "failed"},
              attempt : Nat, left : Seq(CouchCall), res : BOOLEAN]

\* What the job puts on the volume is there, but for what its attempt has yet to
\* put there, as long as none of the calls before was refused.
DatabasesInv ==
  /\ DatabasesType
  /\ dbinit.status = "running" /\ dbinit.res =>
       \A c \in CouchCall :
         on_the_volume(c) => c \in couch \/ c \in Range(dbinit.left)
  /\ CompleteIsPrepared

LEMMA JobBegins == Init => DatabasesInv
<1>1. <<>> \in Seq(CouchCall)
  BY EmptySeq
<1> QED
  BY <1>1 DEF Init, DatabasesInit, NoDbinit, DatabasesInv, DatabasesType,
     CompleteIsPrepared

\* A call is answered, and only one that is not refused leaves the result.
LEMMA CallOfJob ==
  ASSUME DatabasesInv, asks_couchdb
  PROVE  DatabasesInv'
<1> PICK S : S = CouchCall
  OBVIOUS
<1> PICK s \in Seq(S) : s = dbinit.left
  BY DEF DatabasesInv, DatabasesType
<1> DEFINE c == Head(s)
<1>1. s # <<>> /\ dbinit.status = "running"
  BY DEF asks_couchdb
<1>2. c \in S /\ Tail(s) \in Seq(S) /\ Range(s) = {c} \union Range(Tail(s))
  <2>1. Len(s) \in Nat \ {0} /\ Len(Tail(s)) = Len(s) - 1
    BY <1>1
  <2>2. \A i \in 1 .. Len(s) - 1 : Tail(s)[i] = s[i + 1]
    BY <1>1
  <2>3. DOMAIN s = 1 .. Len(s) /\ DOMAIN Tail(s) = 1 .. Len(s) - 1 /\ c = s[1]
    BY <1>1, <2>1
  <2>4. \A i \in 1 .. Len(s) : i = 1 \/ (i - 1 \in 1 .. Len(s) - 1 /\ Tail(s)[i - 1] = s[i])
    BY <2>1, <2>2
  <2>5. Range(s) = {c} \union Range(Tail(s))
    <3>1. ASSUME NEW d \in Range(s), d # c PROVE d \in Range(Tail(s))
      <4>1. PICK i \in 1 .. Len(s) : d = s[i]
        BY <2>3 DEF Range
      <4>2. i - 1 \in 1 .. Len(s) - 1 /\ d = Tail(s)[i - 1]
        BY <2>3, <2>4, <3>1, <4>1
      <4> QED
        BY <2>3, <4>2 DEF Range
    <3>2. \A i \in 1 .. Len(s) - 1 : i + 1 \in 1 .. Len(s)
      BY <2>1
    <3>3. c \in Range(s) /\ \A d \in Range(Tail(s)) : d \in Range(s)
      BY <2>1, <2>2, <2>3, <3>2 DEF Range
    <3> QED
      BY <3>1, <3>3
  <2>6. Tail(s) \in Seq(S)
    BY <1>1
  <2>7. c \in S
    BY <1>1
  <2> QED
    BY <2>5, <2>6, <2>7, Zenon
<1>3. PICK f \in BOOLEAN : /\ dbinit' = [dbinit EXCEPT !.left = Tail(s), !.res = f]
                           /\ f => dbinit.res /\ couch' = met(c) /\ takes(c)
                           /\ couch \subseteq couch'
  BY DEF asks_couchdb, check, met, DatabasesInv, DatabasesType
<1> HIDE DEF c
<1>4. DatabasesType'
  BY <1>2, <1>3 DEF DatabasesInv, DatabasesType
<1>5. dbinit'.status = "running" /\ dbinit'.left = Tail(s) /\ dbinit'.res = f
  BY <1>1, <1>3 DEF DatabasesInv, DatabasesType
<1>6. f => \A d \in CouchCall : on_the_volume(d) => d \in couch' \/ d \in Range(Tail(s))
  <2> SUFFICES ASSUME f, NEW d \in CouchCall, on_the_volume(d), d \notin Range(Tail(s))
               PROVE  d \in couch'
    OBVIOUS
  <2>1. CASE d = c
    BY <1>3, <2>1 DEF met, on_the_volume
  <2>2. CASE d # c
    BY <1>1, <1>2, <1>3, <2>2 DEF DatabasesInv
  <2> QED
    BY <2>1, <2>2
<1> QED
  BY <1>4, <1>5, <1>6 DEF DatabasesInv, CompleteIsPrepared

LEMMA JobStep == DatabasesInv /\ [Next]_vars => DatabasesInv'
<1> SUFFICES ASSUME DatabasesInv, [Next]_vars PROVE DatabasesInv'
  OBVIOUS
<1> USE DEF DatabasesInv, DatabasesType, CompleteIsPrepared
<1>1. CASE UNCHANGED databaseVars
  BY <1>1 DEF databaseVars
<1>2. CASE couchdb_create
  BY <1>2, EmptySeq DEF couchdb_create, NoDbinit
<1>3. CASE couchdb_delete
  BY <1>3, EmptySeq DEF couchdb_delete, NoDbinit
<1>4. CASE init
  BY <1>4, CallsOfInit DEF init, IsSequence, CouchCall
<1>5. CASE asks_couchdb
  BY <1>5, CallOfJob
<1>6. CASE exits
  <2>1. CASE dbinit.res
    <3>1. dbinit' = [dbinit EXCEPT !.status = "complete"] /\ couch' = couch
      BY <1>6, <2>1 DEF exits
    <3>2. Range(dbinit.left) = {}
      BY <1>6 DEF exits, Range
    <3> QED
      BY <1>6, <2>1, <3>1, <3>2 DEF exits, CouchCall
  <2>2. CASE ~dbinit.res
    <3>1. PICK none \in Seq(CouchCall) : none = <<>>
      BY EmptySeq
    <3>2. PICK to \in {"failed", "pending"} :
            dbinit' = [dbinit EXCEPT !.left = none, !.status = to]
      BY <1>6, <2>2, <3>1, Zenon DEF exits, Pod_fails
    <3> QED
      BY <3>2
  <2> QED
    BY <2>1, <2>2
<1>7. CASE dies
  <2>1. PICK none \in Seq(CouchCall) : none = <<>>
    BY EmptySeq
  <2>2. PICK to \in {"failed", "pending"} :
          dbinit' = [dbinit EXCEPT !.left = none, !.status = to]
    BY <1>7, <2>1, Zenon DEF dies, Pod_fails
  <2> QED
    BY <2>2
<1>8. CASE Restarts
  BY <1>8 DEF Restarts, CouchCall
<1> QED
  BY <1>1, <1>2, <1>3, <1>4, <1>5, <1>6, <1>7, <1>8, DatabasesSteps
     DEF DatabasesNext, Dbinit

\* For every list of the initial namespaces, however often CouchDB is deployed
\* and its pod replaced, and however many calls and pods of the job fail: a job
\* that is complete has put on the volume all that it has to.
THEOREM CompleteJobHasPrepared == Spec => []CompleteIsPrepared
<1>1. DatabasesInv => CompleteIsPrepared
  BY DEF DatabasesInv
<1> QED
  BY JobBegins, JobStep, <1>1, PTL DEF Spec
----------------------------------------------------------------------------
(* The workflow and its jobs.                                              *)

Handler == {"create", "delete"}
Specification == Complete \union {Incomplete}
Known == SUBSET {"key", "apihost"}

WorkflowsType ==
  /\ workflow \in [at : {"absent", "live", "deleting"}, number : Nat,
                   spec : Specification, handled : BOOLEAN]
  /\ jobs \in [Handler -> [of : Nat, spec : Specification, known : Known]]
  /\ running \in [step : {"idle", "remove", "apply", "status"}, action : Handler,
                  number : Nat, spec : Specification]
  /\ configured \in Known

\* A handler works for the resource that there is; its resource does not go
\* before the handler of its deletion has said so.
HandlerIsOfTheResource ==
  /\ workflow.at # "absent" => workflow.number # 0
  /\ running.step # "idle" =>
       /\ workflow.at # "absent" /\ running.number = workflow.number
       /\ running.action = "delete" => workflow.at = "deleting"

\* The other job is away once a handler has removed it, and no job that creates
\* a workflow outlives its resource, unless its removal failed.
OtherJobIsGone ==
  /\ running.step \in {"apply", "status"} =>
       jobs[opposite(running.action)].of \in lingering \union {0}
  /\ jobs["create"].of \in lingering \union {0, workflow.number}
  /\ workflow.at = "absent" => jobs["create"].of \in lingering \union {0}
  /\ running.step = "status" => exists(running.action)

WorkflowsInv ==
  WorkflowsType /\ HandlerIsOfTheResource /\ OtherJobIsGone /\ WorkflowsHaveTheirJobs

LEMMA TwoHandlers ==
  ASSUME NEW a \in Handler
  PROVE  /\ opposite(a) \in Handler /\ opposite(a) # a
         /\ \A b \in Handler : b \in {a, opposite(a)}
BY DEF Handler, opposite

LEMMA WorkflowBegins == Init => WorkflowsInv
BY DEF Init, WorkflowsInit, NoWorkflow, Undone, Idle, WorkflowsInv, WorkflowsType,
   HandlerIsOfTheResource, OtherJobIsGone, WorkflowsHaveTheirJobs, Handler,
   Specification, Known, exists, opposite

LEMMA UserOfWorkflow ==
  ASSUME WorkflowsInv,
         DeleteWorkflow \/ \E s \in Specification : ApplyWorkflow(s)
  PROVE  WorkflowsInv'
<1> USE DEF WorkflowsInv, HandlerIsOfTheResource, OtherJobIsGone,
        WorkflowsHaveTheirJobs, exists, Request_of_user
<1>1. PICK w \in [at : {"absent", "live", "deleting"}, number : Nat,
                  spec : Specification, handled : BOOLEAN] : w = workflow
  BY DEF WorkflowsType
<1>2. CASE DeleteWorkflow
  <2>1. WorkflowsType'
    BY <1>2 DEF DeleteWorkflow, WorkflowsType
  <2> QED
    BY <1>1, <1>2, <2>1 DEF DeleteWorkflow
<1>3. ASSUME NEW s \in Specification, ApplyWorkflow(s) PROVE WorkflowsInv'
  <2>1. CASE w.at = "absent"
    <3>1. workflow' = [at |-> "live", number |-> w.number + 1, spec |-> s,
                       handled |-> FALSE]
      BY <1>1, <1>3, <2>1 DEF ApplyWorkflow
    <3>2. WorkflowsType'
      BY <1>1, <1>3, <3>1 DEF ApplyWorkflow, WorkflowsType
    <3> QED
      BY <1>1, <1>3, <2>1, <3>1, <3>2 DEF ApplyWorkflow
  <2>2. CASE w.at # "absent"
    <3>1. workflow' = [w EXCEPT !.spec = s] /\ w.at = "live"
      BY <1>1, <1>3, <2>2 DEF ApplyWorkflow
    <3>2. WorkflowsType'
      BY <1>1, <1>3, <3>1 DEF ApplyWorkflow, WorkflowsType
    <3> QED
      BY <1>1, <1>3, <3>1, <3>2 DEF ApplyWorkflow
  <2> QED
    BY <2>1, <2>2
<1> QED
  BY <1>2, <1>3

LEMMA RemovalStep ==
  ASSUME WorkflowsInv, removes_other_job
  PROVE  WorkflowsInv'
<1> USE DEF WorkflowsInv, Goes_to
<1> PICK a \in Handler, b \in Handler :
      a = running.action /\ b = opposite(a) /\ a # b /\ Handler = {a, b}
  BY TwoHandlers DEF WorkflowsType, Handler
<1>1. /\ running.step = "remove" /\ running' = [running EXCEPT !.step = "apply"]
      /\ running'.action = a /\ workflow' = workflow /\ configured' = configured
      /\ running'.step = "apply" /\ running'.number = running.number
  BY DEF removes_other_job, WorkflowsType
<1>2. lingering \subseteq lingering'
  BY DEF removes_other_job
<1>3. CASE jobs' = [jobs EXCEPT ![b] = Undone]
  <2>1. Undone \in [of : Nat, spec : Specification, known : Known] /\ Undone.of = 0
    BY DEF Undone, Specification, Known
  <2>2. WorkflowsType'
    BY <1>1, <1>3, <2>1 DEF WorkflowsType
  <2>3. jobs'[b].of = 0 /\ jobs'[a] = jobs[a]
    BY <1>3, <2>1 DEF WorkflowsType
  <2>4. workflow.at = "live" => a = "create" /\ b = "delete"
    BY <1>1 DEF HandlerIsOfTheResource, Handler, opposite
  <2>5. OtherJobIsGone'
    BY <1>1, <1>2, <2>3 DEF OtherJobIsGone, Handler
  <2>6. WorkflowsHaveTheirJobs'
    BY <1>1, <1>2, <2>3, <2>4 DEF WorkflowsHaveTheirJobs, exists, Handler
  <2> QED
    BY <1>1, <2>2, <2>5, <2>6 DEF HandlerIsOfTheResource
<1>4. CASE jobs' = jobs /\ lingering' = lingering \union {jobs[b].of}
  <2>1. WorkflowsType'
    BY <1>1, <1>4 DEF WorkflowsType
  <2>2. OtherJobIsGone'
    BY <1>1, <1>4 DEF OtherJobIsGone, Handler
  <2>3. WorkflowsHaveTheirJobs'
    BY <1>1, <1>4 DEF WorkflowsHaveTheirJobs, exists
  <2> QED
    BY <1>1, <2>1, <2>2, <2>3 DEF HandlerIsOfTheResource
<1> QED
  BY <1>3, <1>4 DEF removes_other_job

LEMMA ApplicationStep ==
  ASSUME WorkflowsInv, applies_job
  PROVE  WorkflowsInv'
<1> USE DEF WorkflowsInv, Goes_to
<1> PICK a \in Handler, b \in Handler :
      a = running.action /\ b = opposite(a) /\ a # b /\ Handler = {a, b}
  BY TwoHandlers DEF WorkflowsType, Handler
<1> PICK applied : applied = [jobs EXCEPT ![a] = IF exists(a) THEN @ ELSE generate_job]
  OBVIOUS
<1>1. /\ running.step = "apply" /\ lingering' = lingering
      /\ workflow' = workflow /\ configured' = configured
      /\ \/ jobs' = applied /\ running' = [running EXCEPT !.step = "status"]
         \/ jobs' \in {jobs, applied} /\ running' = Idle
  BY DEF applies_job
<1>2. /\ running.number = workflow.number /\ workflow.number \in Nat \ {0}
      /\ workflow.at # "absent"
  BY <1>1 DEF HandlerIsOfTheResource, WorkflowsType
<1>3. /\ generate_job \in [of : Nat, spec : Specification, known : Known]
      /\ generate_job.of = workflow.number
  BY <1>2 DEF generate_job, WorkflowsType
<1>4. /\ applied \in [Handler -> [of : Nat, spec : Specification, known : Known]]
      /\ applied[b] = jobs[b] /\ applied[a].of # 0
      /\ applied[a].of \in {jobs[a].of, workflow.number}
      /\ jobs[a].of # 0 => applied[a].of = jobs[a].of
  BY <1>2, <1>3 DEF WorkflowsType, exists
<1>5. jobs[b].of \in lingering \union {0}
  BY <1>1 DEF OtherJobIsGone
<1>6. Idle \in [step : {"idle", "remove", "apply", "status"}, action : Handler,
                number : Nat, spec : Specification] /\ Idle.step = "idle"
  BY DEF Idle, Handler, Specification
<1>7. WorkflowsType'
  BY <1>1, <1>4, <1>6 DEF WorkflowsType
<1>8. jobs'[b] = jobs[b] /\ jobs'[a].of \in {jobs[a].of, applied[a].of}
  BY <1>1, <1>4
<1>9. \/ running'.step = "idle"
      \/ /\ running'.step = "status" /\ running'.action = a
         /\ running'.number = running.number /\ jobs'[a] = applied[a]
  BY <1>1, <1>6 DEF WorkflowsType
<1>10. HandlerIsOfTheResource'
  BY <1>1, <1>9 DEF HandlerIsOfTheResource
<1>11. OtherJobIsGone'
  BY <1>1, <1>2, <1>4, <1>5, <1>8, <1>9 DEF OtherJobIsGone, Handler, exists
<1>12. WorkflowsHaveTheirJobs'
  <2>1. \A h \in {"create", "delete"} : h = a \/ h = b
    BY DEF Handler
  <2>2. exists("create")' /\ exists("delete")' => jobs'[b].of \in lingering
    BY <1>5, <1>8, <2>1 DEF exists
  <2>3. workflow.at = "live" /\ workflow.handled =>
          jobs'["create"].of \in lingering \union {workflow.number}
    <3>1. CASE a = "create"
      BY <1>4, <1>8, <3>1 DEF WorkflowsHaveTheirJobs
    <3>2. CASE b = "create"
      BY <1>8, <3>2 DEF WorkflowsHaveTheirJobs
    <3> QED
      BY <2>1, <3>1, <3>2
  <2> QED
    BY <1>1, <2>1, <2>2, <2>3 DEF WorkflowsHaveTheirJobs
<1> QED
  BY <1>7, <1>10, <1>11, <1>12

LEMMA StatusStep ==
  ASSUME WorkflowsInv, status
  PROVE  WorkflowsInv'
<1> USE DEF WorkflowsInv
<1> PICK a \in Handler : a = running.action
  BY DEF WorkflowsType
<1>1. /\ running.step = "status" /\ running' = Idle /\ jobs' = jobs
      /\ lingering' = lingering /\ configured' = configured
      /\ workflow' \in {workflow, succeeded(a)}
  BY DEF status
<1>2. Idle \in [step : {"idle", "remove", "apply", "status"}, action : Handler,
                number : Nat, spec : Specification] /\ Idle.step = "idle"
  BY DEF Idle, Handler, Specification
<1>3. /\ workflow' \in [at : {"absent", "live", "deleting"}, number : Nat,
                        spec : Specification, handled : BOOLEAN]
      /\ workflow'.number = workflow.number
      /\ workflow'.at = workflow.at \/ (workflow'.at = "absent" /\ a = "delete")
      /\ (workflow'.handled = workflow.handled) \/ a = "create"
  <2>1. PICK w \in [at : {"absent", "live", "deleting"}, number : Nat,
                    spec : Specification, handled : BOOLEAN] : w = workflow
    BY DEF WorkflowsType
  <2>2. CASE workflow' = w
    BY <2>1, <2>2
  <2>3. CASE a = "delete" /\ workflow' = [w EXCEPT !.at = "absent"]
    BY <2>1, <2>3
  <2>4. CASE a = "create" /\ workflow' = [w EXCEPT !.handled = TRUE]
    BY <2>1, <2>4
  <2> QED
    BY <1>1, <2>1, <2>2, <2>3, <2>4 DEF succeeded, Handler
<1>4. WorkflowsType'
  BY <1>1, <1>2, <1>3 DEF WorkflowsType
<1>5. HandlerIsOfTheResource'
  BY <1>1, <1>2, <1>3 DEF HandlerIsOfTheResource
<1>6. OtherJobIsGone'
  BY <1>1, <1>2, <1>3 DEF OtherJobIsGone, opposite
<1>7. WorkflowsHaveTheirJobs'
  BY <1>1, <1>3 DEF OtherJobIsGone, WorkflowsHaveTheirJobs, exists
<1> QED
  BY <1>4, <1>5, <1>6, <1>7

LEMMA WorkflowStep == WorkflowsInv /\ [Next]_vars => WorkflowsInv'
<1> SUFFICES ASSUME WorkflowsInv, [Next]_vars PROVE WorkflowsInv'
  OBVIOUS
<1> USE DEF WorkflowsInv
<1>1. CASE UNCHANGED workflowVars
  BY <1>1 DEF workflowVars, WorkflowsType, HandlerIsOfTheResource, OtherJobIsGone,
     WorkflowsHaveTheirJobs, exists
<1>2. CASE DeleteWorkflow \/ \E s \in Specification : ApplyWorkflow(s)
  BY <1>2, UserOfWorkflow
<1>3. ASSUME NEW a \in Handler, Called(a), workflow.at # "absent",
             a = "delete" => workflow.at = "deleting"
      PROVE  WorkflowsInv'
  <2>1. running' \in [step : {"idle", "remove", "apply", "status"}, action : Handler,
                      number : Nat, spec : Specification]
    BY <1>3 DEF Called, WorkflowsType
  <2> QED
    BY <1>3, <2>1 DEF Called, WorkflowsType, HandlerIsOfTheResource, OtherJobIsGone,
       WorkflowsHaveTheirJobs, exists
<1>4. CASE removes_other_job
  BY <1>4, RemovalStep
<1>5. CASE applies_job
  BY <1>5, ApplicationStep
<1>6. CASE status
  BY <1>6, StatusStep
<1>7. CASE operator_restarts
  <2>1. Idle \in [step : {"idle", "remove", "apply", "status"}, action : Handler,
                  number : Nat, spec : Specification] /\ Idle.step = "idle"
    BY DEF Idle, Handler, Specification
  <2> QED
    BY <1>7, <2>1 DEF operator_restarts, WorkflowsType, HandlerIsOfTheResource,
       OtherJobIsGone, WorkflowsHaveTheirJobs, exists, Known
<1>8. CASE config_from_spec \/ whisk_update \/ endpoint_create
  BY <1>8 DEF config_from_spec, whisk_update, endpoint_create, WorkflowsType,
     HandlerIsOfTheResource, OtherJobIsGone, WorkflowsHaveTheirJobs, exists, Known
<1> QED
  BY <1>1, <1>2, <1>3, <1>4, <1>5, <1>6, <1>7, <1>8, WorkflowsSteps
     DEF WorkflowsNext, WorkflowHandler, workflows_create, workflows_delete, Handler,
     Specification

\* For every number of resources, requests and faults and for all specifications:
\* the jobs of a workflow exclude each other, and one whose creation is handled
\* has the job that was made for it, unless the removal of a job failed.
THEOREM HandledWorkflowHasItsJob == Spec => []WorkflowsHaveTheirJobs
<1>1. WorkflowsInv => WorkflowsHaveTheirJobs
  BY DEF WorkflowsInv
<1> QED
  BY WorkflowBegins, WorkflowStep, <1>1, PTL DEF Spec

----------------------------------------------------------------------------
(* The types of the platform: those of its parts, which a step changes one *)
(* at a time.                                                              *)

\* With a user there are users and places to begin with.
LEMMA Beginnings ==
  /\ NoVisit.login \in Login /\ NoCommand.ns \in Login /\ NoRequest.user \in Login
  /\ NoRequest.from \in Place /\ NoRequest.to \in Place
<1>1. PICK l \in Login : TRUE
  BY LoginAssumption
<1>2. (CHOOSE k \in Login : TRUE) \in Login
  BY <1>1
<1>3. [user |-> l, store |-> "redis", file |-> <<>>] \in Place
  BY DEF Place, Store
<1>4. (CHOOSE p \in Place : TRUE) \in Place
  BY <1>3
<1> QED
  BY <1>2, <1>4 DEF NoVisit, NoCommand, NoRequest

AppSets ==
  /\ installed \in [Login -> BOOLEAN]
  /\ undelivered \subseteq [action : {"deleted", "push"}, login : Login]
  /\ used \subseteq Visit /\ leaving \subseteq Login
  /\ disturbed \subseteq Visit /\ made \subseteq Visit

\* Every failure is counted.
LEMMA FaultsAreCounted == [Next]_vars => faults' \in {faults, faults + 1}
<1> SUFFICES ASSUME [Next]_vars PROVE faults' \in {faults, faults + 1}
  OBVIOUS
<1>1. CASE App
  BY <1>1 DEF App, AppNext, Install, Reload, Visits, Callback, github_code_exchange,
     github_user_detail, get_whisk_user, create_whisk_user, Uninstall, Push, webhook, Fault
<1>2. CASE \E l \in Login : Operator(l) \/ Administrator(l)
  BY <1>2 DEF Operator, Administrator, whisk_user_create, whisk_user_delete,
     ApplyUser, DeleteUser
<1>3. CASE Deployment
  BY <1>3 DEF Deployment, DeploymentNext, whisk_post_create, whisk_post_resume,
     deploy_whisk_system_action, wsk_project_deploy, wsk_action_list
<1>4. CASE \E r \in Request : Ask(r) \/ Web(r)
  BY <1>4 DEF Ask, Asks, Web, Answering, fetch_subject, fetch_user_data, Serve, List, Fault
<1>5. CASE Limits
  BY <1>5 DEF Limits, LimitsNext, limitsCmd, getDocumentFromDb, Write, Fault
<1>6. CASE Cron
  <2>1. ASSUME NEW j \in Job, Running(j) \/ die(j) PROVE faults' \in {faults, faults + 1}
    <3>1. \A a \in Action :
            handle_action(j, a) \/ unschedule_autoexec_action(j, a) =>
              faults' \in {faults, faults + 1}
      BY Zenon DEF handle_action, unschedule_autoexec_action, Fault
    <3>2. start(j) \/ get_cron_aware_actions(j) \/ get_subjects(j) \/ finish(j) \/ die(j) =>
            faults' \in {faults, faults + 1}
      BY Zenon DEF start, get_cron_aware_actions, get_subjects, finish, die, Fault
    <3> QED
      BY <2>1, <3>1, <3>2 DEF Running
  <2>2. (\E a \in Action, cron \in Crons, autoexec \in BOOLEAN : Update(a, cron, autoexec))
          \/ (\E a \in Action : RemoveAction(a)) \/ Tick => faults' = faults
    BY Zenon DEF Update, RemoveAction, Tick
  <2> QED
    BY <1>6, <2>1, <2>2 DEF Cron, CronNext
<1>7. CASE Databases
  BY <1>7 DEF Databases, DatabasesNext, couchdb_create, couchdb_delete, Dbinit,
     init, asks_couchdb, exits, dies, Restarts, Fault
<1>8. CASE Workflow
  BY <1>8 DEF Workflow, WorkflowsNext, ApplyWorkflow, DeleteWorkflow,
     Request_of_user, WorkflowHandler, workflows_create, workflows_delete, Called,
     removes_other_job, applies_job, status, operator_restarts, config_from_spec,
     whisk_update, endpoint_create, Fault
<1>9. CASE UNCHANGED vars
  BY <1>9 DEF vars
<1> QED
  BY <1>1, <1>2, <1>3, <1>4, <1>5, <1>6, <1>7, <1>8, <1>9 DEF Next

LEMMA AppSetsBegin == Init => AppSets
BY DEF Init, AppInit, AppSets

LEMMA AppSetsStep ==
  scenario \in Scenarios /\ VisitsInv /\ AppSets /\ [Next]_vars => AppSets'
<1> SUFFICES ASSUME scenario \in Scenarios, VisitsInv, AppSets, [Next]_vars PROVE AppSets'
  OBVIOUS
<1>1. /\ scenario.logins \subseteq Login
      /\ \A l : underway_of(l) \subseteq Visit
  BY ScenariosAssumption DEF underway_of
<1>2. ASSUME NEW v \in Visit, NEW l \in scenario.logins, Install(v, l) PROVE AppSets'
  <2>1. /\ v \in Visit /\ l \in Login
        /\ UNCHANGED <<undelivered, used, leaving, made>>
        /\ installed' = [installed EXCEPT ![l] = TRUE]
        /\ disturbed' = IF underway_of(l) = {} THEN disturbed
                        ELSE disturbed \union underway_of(l) \union {v}
    BY <1>1, <1>2 DEF Install, Visits, accounts
  <2> QED
    BY <1>1, <2>1 DEF AppSets
<1>3. ASSUME NEW v \in Visit, NEW w \in Visit, Reload(v, w) PROVE AppSets'
  BY <1>1, <1>3 DEF Reload, Visits, accounts, AppSets
<1>4. ASSUME NEW v \in Visit, Callback(v) PROVE AppSets'
  <2>1. CASE github_code_exchange(v)
    <3>1. visit[v].code \in Visit
      BY <2>1 DEF github_code_exchange, VisitsInv, VisitsBegun
    <3> QED
      BY <2>1, <3>1 DEF github_code_exchange, accounts, AppSets
  <2>2. CASE github_user_detail(v)
    BY <2>2 DEF github_user_detail, accounts, AppSets
  <2>3. CASE get_whisk_user(v)
    BY <2>3 DEF get_whisk_user, accounts, AppSets
  <2>4. CASE create_whisk_user(v)
    BY <2>4 DEF create_whisk_user, AppSets
  <2> QED
    BY <1>4, <2>1, <2>2, <2>3, <2>4 DEF Callback
<1>5. ASSUME NEW l \in Login, Uninstall(l) \/ Push(l) PROVE AppSets'
  <2>1. PICK event \in [action : {"deleted", "push"}, login : Login], in \in BOOLEAN :
          /\ undelivered' = undelivered \union {event}
          /\ installed' \in {installed, [installed EXCEPT ![l] = in]}
    <3>1. ASSUME NEW action \in {"deleted", "push"}
          PROVE  [action |-> action, login |-> l]
                   \in [action : {"deleted", "push"}, login : Login]
      OBVIOUS
    <3> QED
      BY <1>5, <3>1, Zenon DEF Uninstall, Push
  <2>2. UNCHANGED <<used, leaving, disturbed, made>>
    BY <1>5 DEF Uninstall, Push, accounts, appHistory
  <2>3. undelivered' \subseteq [action : {"deleted", "push"}, login : Login]
    BY <2>1, Zenon DEF AppSets
  <2>4. installed' \in [Login -> BOOLEAN]
    BY <2>1 DEF AppSets
  <2> QED
    BY <2>2, <2>3, <2>4 DEF AppSets
<1>6. ASSUME NEW event \in undelivered, webhook(event) PROVE AppSets'
  BY <1>6 DEF webhook, delete_whisk_user, appHistory, AppSets
<1>7. ASSUME NEW l \in Login,
             ApplyUser(l) \/ DeleteUser(l) \/ whisk_user_create(l) \/ whisk_user_delete(l)
      PROVE  AppSets'
  BY <1>1, <1>7 DEF ApplyUser, DeleteUser, whisk_user_create, whisk_user_delete, setup,
     appHistory, AppSets
<1>8. CASE UNCHANGED appVars
  BY <1>8 DEF appVars, setup, accounts, appHistory, AppSets
<1> QED
  BY <1>2, <1>3, <1>4, <1>5, <1>6, <1>7, <1>8, AppSteps DEF AppNext

LEMMA AppTypes ==
  faults \in Nat /\ AppSets /\ AccountsType /\ VisitsInv => AppTypeOK
BY Beginnings DEF AppSets, AccountsType, VisitsInv, VisitType, VisitKind, AppTypeOK

\* A power of two is a natural number: as many as there are sets of n numbers.
LEMMA PowersOfTwo == \A n \in Nat : 2 ^ n \in Nat
<1> SUFFICES ASSUME NEW n \in Nat PROVE 2 ^ n \in Nat
  OBVIOUS
<1>1. 1 \in Int /\ n \in Int /\ (IF 1 > n THEN 0 ELSE n - 1 + 1) = n
  OBVIOUS
<1>2. IsFiniteSet(1 .. n) /\ Cardinality(1 .. n) = n
  BY <1>1, FS_Interval, Zenon
<1>3. IsFiniteSet(SUBSET (1 .. n)) /\ Cardinality(SUBSET (1 .. n)) = 2 ^ Cardinality(1 .. n)
  BY <1>2, FS_SUBSET, Zenon
<1>4. Cardinality(SUBSET (1 .. n)) \in Nat
  BY <1>3, FS_CardinalityType, Zenon
<1> QED
  BY <1>2, <1>3, <1>4, Zenon

\* The pause before another attempt is a number.
LEMMA Pauses == \A n \in Nat, random \in {0, 1} : backoff_delay(n, random) \in Nat
<1> SUFFICES ASSUME NEW n \in Nat, NEW random \in {0, 1}
             PROVE  backoff_delay(n, random) \in Nat
  OBVIOUS
<1>1. PICK power \in Nat : power = 2 ^ n
  BY PowersOfTwo, Zenon
<1>2. PICK delay \in Nat : delay = power + random
  OBVIOUS
<1>3. backoff_delay(n, random) = IF delay < MaxBackoff THEN delay ELSE MaxBackoff
  BY <1>1, <1>2, Zenon DEF backoff_delay
<1> QED
  BY <1>3, RetryAssumption

RetryKind ==
  [at : {"none", "deploy", "list", "created", "failed"}, n : Nat, time : Nat]

LEMMA RaisesType ==
  ASSUME retry \in RetryKind, NEW duration \in 0 .. MaxDuration, Raises(duration)
  PROVE  retry' \in RetryKind
<1>1. PICK now \in Nat : now = retry.time + duration
  BY RetryAssumption DEF RetryKind
<1>2. retry.n \in Nat /\ retry.n + 1 \in Nat
  BY DEF RetryKind
<1>3. PICK random \in {0, 1} :
        IF in_time(now, backoff_delay(retry.n, random))
          THEN retry' = [at |-> "deploy", n |-> retry.n + 1,
                         time |-> now + backoff_delay(retry.n, random)]
          ELSE retry' = [retry EXCEPT !.at = "failed"]
  BY <1>1, Zenon DEF Raises
<1>4. PICK delay \in Nat : delay = backoff_delay(retry.n, random)
  BY <1>2, Pauses, Zenon
<1>5. \/ retry' = [at |-> "deploy", n |-> retry.n + 1, time |-> now + delay]
      \/ retry' = [retry EXCEPT !.at = "failed"]
  BY <1>3, <1>4, Zenon
<1> QED
  BY <1>2, <1>5 DEF RetryKind

LEMMA DeploymentTypeBegins == Init => DeploymentTypeOK
BY DEF Init, DeploymentInit, DeploymentTypeOK, prepare_system_actions

LEMMA DeploymentTypeStep == DeploymentTypeOK /\ [Next]_vars => DeploymentTypeOK'
<1> SUFFICES ASSUME DeploymentTypeOK, [Next]_vars PROVE DeploymentTypeOK'
  OBVIOUS
<1> DEFINE deployable == prepare_system_actions
<1>1. retry \in RetryKind /\ deployed \subseteq deployable /\ listed \subseteq deployable
  BY DEF DeploymentTypeOK, RetryKind
<1> SUFFICES retry' \in RetryKind /\ deployed' \subseteq deployable /\ listed' \subseteq deployable
  BY DEF DeploymentTypeOK, RetryKind
<1>2. CASE UNCHANGED deploymentVars
  BY <1>1, <1>2 DEF deploymentVars
<1>3. CASE deploy_whisk_system_action
  BY <1>1, <1>3 DEF deploy_whisk_system_action, RetryKind
<1>4. ASSUME NEW duration \in 0 .. MaxDuration, wsk_project_deploy(duration)
      PROVE  retry' \in RetryKind /\ deployed' \subseteq deployable /\ listed' \subseteq deployable
  <2>1. retry' \in RetryKind
    <3>1. CASE retry' = [retry EXCEPT !.at = "list"]
      BY <1>1, <3>1 DEF RetryKind
    <3>2. CASE Raises(duration)
      BY <1>1, <3>2, RaisesType
    <3> QED
      BY <1>4, <3>1, <3>2 DEF wsk_project_deploy
  <2>2. listed' = listed
    BY <1>4 DEF wsk_project_deploy
  <2>3. deployed' \subseteq deployable
    BY <1>1, <1>4 DEF wsk_project_deploy, prepare_system_actions
  <2> QED
    BY <1>1, <2>1, <2>2, <2>3
<1>5. ASSUME NEW duration \in 0 .. MaxDuration, wsk_action_list(duration)
      PROVE  retry' \in RetryKind /\ deployed' \subseteq deployable /\ listed' \subseteq deployable
  <2>1. retry' \in RetryKind
    <3>1. CASE retry' = [retry EXCEPT !.at = "created"]
      BY <1>1, <3>1 DEF RetryKind
    <3>2. CASE Raises(duration)
      BY <1>1, <3>2, RaisesType
    <3> QED
      BY <1>5, <3>1, <3>2 DEF wsk_action_list
  <2>2. deployed' = deployed /\ listed' \in {deployed, {}}
    BY <1>5 DEF wsk_action_list
  <2> QED
    BY <1>1, <2>1, <2>2
<1> QED
  BY <1>2, <1>3, <1>4, <1>5, DeploymentSteps
     DEF DeploymentNext, whisk_post_create, whisk_post_resume

\* What the stores hold, and what was given up, are requests.
StoresType ==
  objects \in [Place -> Request \union {0}] /\ given_up \subseteq Request

LEMMA StoresBegin == Init => StoresType
BY DEF Init, WebInit, StoresType

LEMMA EffectType ==
  ASSUME WebType, StoresType, NEW r \in Request, NEW call \in StoreCall, Effect(r, call)
  PROVE  StoresType'
<1>1. call.to \in Place /\ call.from \in Place
  BY DEF StoreCall
<1>2. CASE call.op \in {"get", "rollback"}
  BY <1>2 DEF Effect, StoresType
<1>3. CASE call.op \in {"put", "copy", "remove"}
  <2> DEFINE q == request[r]
             raced == in_the_way(r, call.to)
             value == CASE call.op = "put" -> r
                        [] call.op = "copy" -> objects[call.from]
                        [] call.op = "remove" -> 0
  <2>1. PICK new \in Request \union {0} : new = value
    BY <1>1, <1>3 DEF StoresType
  <2>2. raced \subseteq Place
    BY DEF in_the_way, moving, WebType
  <2>3. /\ objects' = [objects EXCEPT ![call.to] = new]
        /\ given_up' = given_up
             \union (IF ignores_failure(q, call) /\ q.cmd = "mv" THEN {}
                     ELSE {objects[call.to]} \ {0, new})
             \union (IF raced = {} THEN {}
                     ELSE ({objects[p] : p \in raced} \union {new}) \ {0})
    <3> HIDE DEF raced
    <3>1. call.op \notin {"get", "rollback"}
      BY <1>3
    <3> QED
      BY <2>1, <3>1, Zenon DEF Effect, raced
  <2> HIDE DEF raced
  <2>4. {objects[p] : p \in raced} \subseteq Request \union {0}
    BY <2>2 DEF StoresType
  <2>5. objects' \in [Place -> Request \union {0}]
    BY <1>1, <2>3 DEF StoresType
  <2>6. objects[call.to] \in Request \union {0}
    BY <1>1 DEF StoresType
  <2>7. given_up' \subseteq Request
    BY <2>3, <2>4, <2>6 DEF StoresType
  <2> QED
    BY <2>5, <2>7 DEF StoresType
<1> QED
  BY <1>2, <1>3 DEF StoreCall

LEMMA ClearedType ==
  ASSUME StoresType, NEW l \in Login, Cleared(l)
  PROVE  StoresType'
<1>1. /\ objects' = [p \in Place |-> IF p.user = l THEN 0 ELSE objects[p]]
      /\ given_up' = given_up
           \union ({objects[p] : p \in {p \in Place : p.user = l}} \ {0})
  BY DEF Cleared
<1>2. \A p \in Place : objects[p] \in Request \union {0}
  BY DEF StoresType
<1>3. objects' \in [Place -> Request \union {0}]
  BY <1>1, <1>2
<1>4. given_up' \subseteq Request
  BY <1>1, <1>2 DEF StoresType
<1> QED
  BY <1>3, <1>4 DEF StoresType

LEMMA StoresStep == WebInv /\ StoresType /\ [Next]_vars => StoresType'
<1> SUFFICES ASSUME WebInv, StoresType, [Next]_vars PROVE StoresType'
  OBVIOUS
<1>1. ASSUME UNCHANGED <<objects, given_up>> PROVE StoresType'
  BY <1>1 DEF StoresType
<1>2. ASSUME NEW r \in Request, Serve(r) PROVE StoresType'
  <2>1. PICK call : call = Head(request[r].todo)
    OBVIOUS
  <2>2. /\ request[r].todo # <<>>
        /\ Effect(r, call) \/ UNCHANGED <<objects, given_up>>
    BY <1>2, <2>1, ServeEnds
  <2>3. request[r].todo \in Seq(StoreCall)
    BY DEF WebInv, WebType, RequestKind
  <2>4. call \in StoreCall
    BY <2>1, <2>2, <2>3, HeadTailProperties
  <2>5. WebType
    BY DEF WebInv
  <2> QED
    BY <1>1, <2>2, <2>4, <2>5, EffectType
<1>3. ASSUME NEW r \in Request, NEW t, Asks(r, t) PROVE StoresType'
  BY <1>1, <1>3 DEF Asks
<1>4. ASSUME NEW r \in Request, Answering(r) PROVE StoresType'
  <2>1. fetch_subject(r) \/ fetch_user_data(r) \/ List(r) => UNCHANGED <<objects, given_up>>
    BY DEF fetch_subject, fetch_user_data, List
  <2> QED
    BY <1>1, <1>2, <1>4, <2>1 DEF Answering
<1> QED
  BY <1>1, <1>3, <1>4, ClearedType, WebSteps DEF webVars

LEMMA WebTypes == WebType /\ StoresType => WebTypeOK
<1> SUFFICES ASSUME WebType, StoresType PROVE WebTypeOK
  OBVIOUS
<1>1. ASSUME NEW r \in Request
      PROVE  LET q == request[r]
             IN /\ q.user \in Login /\ {q.key, q.data} \subseteq Nat
                /\ {q.from, q.to} \subseteq Place
                /\ q.at \in {"none", "subject", "user_data", "store", "answered"}
                /\ q.answer \in {"none", "200", "204", "400"}
                /\ \A i \in DOMAIN q.todo : {q.todo[i].from, q.todo[i].to} \subseteq Place
  <2>1. PICK q \in RequestKind : q = request[r]
    BY DEF WebType
  <2>2. q.user \in Login /\ {q.from, q.to} \subseteq Place
    BY <2>1, Beginnings DEF RequestKind
  <2>3. PICK todo \in Seq(StoreCall) : todo = q.todo
    BY <2>1 DEF RequestKind
  <2>4. \A i \in DOMAIN todo : todo[i] \in StoreCall
    BY <2>3
  <2>5. \A i \in DOMAIN q.todo : {q.todo[i].from, q.todo[i].to} \subseteq Place
    BY <2>3, <2>4 DEF StoreCall
  <2>6. /\ {q.key, q.data} \subseteq Nat
        /\ q.at \in {"none", "subject", "user_data", "store", "answered"}
        /\ q.answer \in {"none", "200", "204", "400"}
    BY <2>1 DEF RequestKind
  <2> QED
    BY <2>1, <2>2, <2>5, <2>6
<1> QED
  BY <1>1 DEF WebTypeOK, WebType, StoresType

\* The limits, and whose document a request failed of.
LEMMA SpoiltStep ==
  LimitsInv /\ spoilt \subseteq Login /\ [Next]_vars => spoilt' \subseteq Login
<1> SUFFICES ASSUME LimitsInv, spoilt \subseteq Login, [Next]_vars
             PROVE  spoilt' \subseteq Login
  OBVIOUS
<1>1. ASSUME NEW c \in Admin, Write(c) PROVE spoilt' \subseteq Login
  <2>1. admin[c].ns \in Login
    BY Beginnings DEF LimitsInv, LimitsType, CommandType
  <2> QED
    BY <1>1, <2>1 DEF Write
<1> QED
  BY <1>1, LimitsSteps DEF LimitsNext, limitsCmd, getDocumentFromDb, limitVars

LEMMA LimitsTypes == LimitsInv /\ spoilt \subseteq Login => LimitsTypeOK
BY Beginnings DEF LimitsInv, LimitsType, CommandType, Says, LimitsTypeOK

----------------------------------------------------------------------------
(* The jobs of the executor.                                               *)

Annotated == [exists : BOOLEAN, cron : Crons, autoexec : BOOLEAN]

\* What a job has read of the actions.
Tasks == UNION {[A -> Annotated] : A \in SUBSET Action}

JobKind ==
  [at : {"none", "pending", "actions", "subjects", "handle", "unschedule"},
   scheduled : Instant, window : SUBSET Instant, covers : SUBSET Instant,
   todo : Tasks, keys : [Login -> Nat], invoking : SUBSET Action]

\* A job covers of what it looks back on, and invokes what it has read.
InOrder(q) ==
  /\ q.covers \subseteq q.window /\ q.invoking \subseteq DOMAIN q.todo
  /\ q.at # "unschedule" => q.invoking = {}

JobsType == job \in [Job -> JobKind] /\ \A j \in Job : InOrder(job[j])

CronType ==
  /\ clock \in Instant /\ actions \in [Action -> Annotated] /\ JobsType
  /\ expected \subseteq Action \X Instant /\ served \subseteq Action \X Instant

LEMMA Instants ==
  /\ 0 \in Instant /\ Schedule \subseteq Instant
  /\ \A t \in Nat : t % Period \in Instant
BY ClockAssumption DEF Instant

LEMMA LookingBack ==
  ASSUME NEW current \in Instant, NEW interval
  PROVE  looks_back_on(current, interval) \subseteq Instant
<1>1. \A u \in current .. current + Period : u \in Nat
  BY ClockAssumption DEF Instant
<1> QED
  BY <1>1, Instants DEF looks_back_on

LEMMA TaskSets ==
  /\ <<>> \in Tasks
  /\ \A A \in SUBSET Action : \A f \in [A -> Annotated] : f \in Tasks /\ DOMAIN f = A
  /\ \A f \in Tasks : /\ DOMAIN f \subseteq Action
                      /\ \A a \in DOMAIN f : f[a] \in Annotated
<1>1. <<>> \in [{} -> Annotated]
  OBVIOUS
<1>2. \A A \in SUBSET Action : \A f \in [A -> Annotated] : f \in Tasks /\ DOMAIN f = A
  BY DEF Tasks
<1>3. ASSUME NEW f \in Tasks
      PROVE  /\ DOMAIN f \subseteq Action
             /\ \A a \in DOMAIN f : f[a] \in Annotated
  <2>1. PICK A \in SUBSET Action : f \in [A -> Annotated]
    BY <1>3 DEF Tasks
  <2> QED
    BY <2>1
<1>4. <<>> \in Tasks
  BY <1>1, <1>2
<1> QED
  BY <1>2, <1>3, <1>4

LEMMA NoJobType == NoJob \in JobKind /\ InOrder(NoJob) /\ NoJob.at = "none"
<1>1. [l \in Login |-> 0] \in [Login -> Nat]
  OBVIOUS
<1>2. PICK none \in Tasks, no \in [Login -> Nat] : none = <<>> /\ no = [l \in Login |-> 0]
  BY <1>1, TaskSets
<1>3. NoJob = [at |-> "none", scheduled |-> 0, window |-> {}, covers |-> {},
               todo |-> none, keys |-> no, invoking |-> {}]
  BY <1>2, Zenon DEF NoJob
<1> QED
  BY <1>3, Instants DEF JobKind, InOrder

\* A new job, or one that is begun again.
LEMMA PendingType ==
  ASSUME NEW t \in Instant
  PROVE  LET q == [NoJob EXCEPT !.at = "pending", !.scheduled = t]
         IN q \in JobKind /\ InOrder(q)
BY NoJobType DEF JobKind, InOrder

\* A job that goes on.
LEMMA JobGoesOn ==
  ASSUME JobsType, NEW j \in Job, NEW q \in JobKind, InOrder(q),
         job' = [job EXCEPT ![j] = q]
  PROVE  JobsType'
BY DEF JobsType, InOrder

LEMMA CronBegins == Init => CronType
<1> SUFFICES ASSUME Init PROVE CronType
  OBVIOUS
<1>1. NoAction \in Annotated
  BY ActionsAssumption DEF NoAction, Annotated
<1>2. JobsType
  BY NoJobType DEF Init, CronInit, JobsType
<1> QED
  BY <1>1, <1>2, Instants DEF Init, CronInit, CronType

\* A job works through what it has read, and may end.
LEMMA JobEnds ==
  ASSUME JobsType, NEW j \in Job, Ended(j)
  PROVE  JobsType'
BY NoJobType, JobGoesOn DEF Ended

LEMMA JobHandles ==
  ASSUME JobsType, NEW j \in Job, NEW a, Handled(j, a)
  PROVE  JobsType'
<1> PICK q \in JobKind : q = job[j]
  BY DEF JobsType
<1>1. PICK f : f = [b \in DOMAIN q.todo \ {a} |-> q.todo[b]]
  OBVIOUS
<1>2. f \in Tasks /\ DOMAIN f = DOMAIN q.todo \ {a}
  <2>1. q.todo \in Tasks
    BY DEF JobKind
  <2>2. PICK A : A = DOMAIN q.todo \ {a} /\ A \in SUBSET Action
    <3>1. DOMAIN q.todo \subseteq Action
      BY <2>1, TaskSets, Zenon
    <3> QED
      BY <3>1
  <2>3. f \in [A -> Annotated]
    <3>1. \A b \in A : q.todo[b] \in Annotated
      BY <2>1, <2>2, TaskSets
    <3>2. f = [b \in A |-> q.todo[b]]
      BY <1>1, <2>2
    <3> QED
      BY <3>1, <3>2
  <2> QED
    BY <2>2, <2>3, TaskSets
<1>3. PICK new : new = [q EXCEPT !.at = "handle", !.invoking = {}, !.todo = f]
  OBVIOUS
<1>4. new \in JobKind /\ InOrder(new)
  BY <1>2, <1>3 DEF JobKind, InOrder, JobsType
<1>5. job' = [job EXCEPT ![j] = new]
  BY <1>1, <1>3 DEF Handled
<1> QED
  BY <1>4, <1>5, JobGoesOn

LEMMA StartType ==
  ASSUME clock \in Instant, JobsType, NEW j \in Job, start(j)
  PROVE  JobsType'
<1> PICK q \in JobKind : q = job[j]
  BY DEF JobsType
<1>1. CASE Ended(j)
  BY <1>1, JobEnds
<1>2. PICK window \in SUBSET Instant :
        window = looks_back_on(clock, from_cron_to_seconds(clock))
  BY LookingBack
<1>3. CASE job' = [job EXCEPT ![j].at = "actions", ![j].window = window,
                              ![j].covers = window]
  <2>1. PICK new : new = [q EXCEPT !.at = "actions", !.window = window, !.covers = window]
    OBVIOUS
  <2>2. q.at = "pending" /\ InOrder(q)
    BY DEF start, JobsType
  <2>3. new \in JobKind /\ InOrder(new)
    BY <2>1, <2>2 DEF JobKind, InOrder
  <2>4. job' = [job EXCEPT ![j] = new]
    BY <1>3, <2>1
  <2> QED
    BY <2>3, <2>4, JobGoesOn
<1> QED
  BY <1>1, <1>2, <1>3, Zenon DEF start

LEMMA ReadingType ==
  ASSUME JobsType, actions \in [Action -> Annotated], NEW j \in Job,
         get_cron_aware_actions(j)
  PROVE  JobsType'
<1> PICK q \in JobKind : q = job[j]
  BY DEF JobsType
<1>1. q.at = "actions" /\ InOrder(q)
  BY DEF get_cron_aware_actions, JobsType
<1>2. PICK A \in SUBSET Action :
        \/ Ended(j)
        \/ job' = [job EXCEPT ![j].at = "subjects", ![j].todo = [a \in A |-> actions[a]]]
  BY DEF get_cron_aware_actions, answers
<1>3. CASE Ended(j)
  BY <1>3, JobEnds
<1>4. CASE job' = [job EXCEPT ![j].at = "subjects", ![j].todo = [a \in A |-> actions[a]]]
  <2>1. PICK f \in [A -> Annotated] : f = [a \in A |-> actions[a]]
    OBVIOUS
  <2>2. PICK new : new = [q EXCEPT !.at = "subjects", !.todo = f]
    OBVIOUS
  <2>3. f \in Tasks
    BY TaskSets
  <2>4. new \in JobKind /\ InOrder(new)
    BY <1>1, <2>2, <2>3 DEF JobKind, InOrder
  <2>5. job' = [job EXCEPT ![j] = new]
    BY <1>4, <2>1, <2>2
  <2> QED
    BY <2>4, <2>5, JobGoesOn
<1> QED
  BY <1>2, <1>3, <1>4

LEMMA KeysType ==
  ASSUME JobsType, users \in [Login -> Nat], NEW j \in Job, get_subjects(j)
  PROVE  JobsType'
<1> PICK q \in JobKind : q = job[j]
  BY DEF JobsType
<1>1. q.at = "subjects" /\ InOrder(q)
  BY DEF get_subjects, JobsType
<1>2. PICK L : job' = [job EXCEPT ![j].at = "handle",
                         ![j].keys = [l \in Login |-> IF l \in L THEN users[l] ELSE 0]]
  BY DEF get_subjects
<1>3. PICK keys \in [Login -> Nat] :
        keys = [l \in Login |-> IF l \in L THEN users[l] ELSE 0]
  OBVIOUS
<1>4. PICK new : new = [q EXCEPT !.at = "handle", !.keys = keys]
  OBVIOUS
<1>5. new \in JobKind /\ InOrder(new)
  BY <1>1, <1>4 DEF JobKind, InOrder
<1>6. job' = [job EXCEPT ![j] = new]
  BY <1>2, <1>3, <1>4
<1> QED
  BY <1>5, <1>6, JobGoesOn

LEMMA InvocationType ==
  ASSUME JobsType, served \subseteq Action \X Instant, NEW j \in Job, NEW a \in Action,
         handle_action(j, a)
  PROVE  JobsType' /\ served' \subseteq Action \X Instant
<1> PICK q \in JobKind : q = job[j]
  BY DEF JobsType
<1>1. q.at = "handle" /\ a \in DOMAIN q.todo /\ InOrder(q)
  BY DEF handle_action, JobsType
<1>2. JobsType'
  <2>1. CASE Handled(j, a)
    BY <2>1, JobHandles
  <2>2. CASE job' = [job EXCEPT ![j].at = "unschedule", ![j].invoking = {a}]
    <3>1. PICK new : new = [q EXCEPT !.at = "unschedule", !.invoking = {a}]
      OBVIOUS
    <3>2. new \in JobKind /\ InOrder(new)
      BY <1>1, <3>1 DEF JobKind, InOrder
    <3>3. job' = [job EXCEPT ![j] = new]
      BY <2>2, <3>1
    <3> QED
      BY <3>2, <3>3, JobGoesOn
  <2> QED
    BY <2>1, <2>2, Zenon DEF handle_action
<1>3. served' \subseteq Action \X Instant
  <2>1. PICK S : S = q.covers \cap q.todo[a].cron
    OBVIOUS
  <2>2. served' \subseteq served \union ({a} \X S)
    BY <2>1 DEF handle_action
  <2>3. S \subseteq Instant
    BY <2>1 DEF JobKind
  <2> QED
    BY <2>2, <2>3
<1> QED
  BY <1>2, <1>3

LEMMA RetirementType ==
  ASSUME JobsType, actions \in [Action -> Annotated], NEW j \in Job, NEW a \in Action,
         unschedule_autoexec_action(j, a)
  PROVE  JobsType' /\ actions' \in [Action -> Annotated]
<1>1. JobsType'
  BY JobHandles DEF unschedule_autoexec_action
<1>2. \/ actions' = actions
      \/ actions' = [actions EXCEPT ![a].cron = NoCron, ![a].autoexec = FALSE]
  BY DEF unschedule_autoexec_action
<1>3. actions' \in [Action -> Annotated]
  BY <1>2, ActionsAssumption DEF Annotated
<1> QED
  BY <1>1, <1>3

LEMMA DeathType ==
  ASSUME JobsType, NEW j \in Job, die(j)
  PROVE  JobsType'
<1>1. job[j].scheduled \in Instant
  BY DEF JobsType, JobKind
<1>2. PICK new \in JobKind :
        InOrder(new) /\ new = [NoJob EXCEPT !.at = "pending", !.scheduled = job[j].scheduled]
  BY <1>1, PendingType
<1> QED
  BY <1>2, JobGoesOn DEF die

LEMMA TickType ==
  ASSUME CronType, Tick
  PROVE  CronType'
<1> DEFINE t == (clock + 1) % Period
<1>0. t \in Instant
  <2>1. clock + 1 \in Nat
    BY ClockAssumption DEF CronType, Instant
  <2> QED
    BY <2>1, Instants
<1> HIDE DEF t
<1>1. ASSUME NEW q \in JobKind, InOrder(q)
      PROVE  [q EXCEPT !.covers = @ \ {t}] \in JobKind /\ InOrder([q EXCEPT !.covers = @ \ {t}])
  BY <1>1 DEF JobKind, InOrder
<1>2. /\ [NoJob EXCEPT !.at = "pending", !.scheduled = t] \in JobKind
      /\ InOrder([NoJob EXCEPT !.at = "pending", !.scheduled = t])
  BY <1>0, PendingType
<1>3. \A i \in Job : job[i] \in JobKind /\ InOrder(job[i])
  BY DEF CronType, JobsType
<1>4. JobsType'
  <2>1. \/ job' = [i \in Job |-> [job[i] EXCEPT !.covers = @ \ {t}]]
        \/ \E j \in Job :
             job' = [i \in Job |->
               IF i = j THEN [NoJob EXCEPT !.at = "pending", !.scheduled = t]
               ELSE [job[i] EXCEPT !.covers = @ \ {t}]]
    BY Zenon DEF Tick, t
  <2>2. \A i \in Job :
          \/ job'[i] = [job[i] EXCEPT !.covers = @ \ {t}]
          \/ job'[i] = [NoJob EXCEPT !.at = "pending", !.scheduled = t]
    BY <2>1, Zenon
  <2>3. \A i \in Job : job'[i] \in JobKind /\ InOrder(job'[i])
    BY <1>1, <1>2, <1>3, <2>2, Zenon
  <2>4. DOMAIN job' = Job /\ job' = [i \in Job |-> job'[i]]
    BY <2>1, Zenon
  <2> QED
    BY <2>3, <2>4 DEF JobsType
<1>5. expected' \subseteq Action \X Instant
  <2>1. expected' = {e \in expected : e[2] # t} \union (due(t) \X {t})
    BY Zenon DEF Tick, t
  <2>2. due(t) \subseteq Action
    BY DEF due
  <2> QED
    BY <1>0, <2>1, <2>2 DEF CronType
<1>6. clock' = t /\ actions' = actions /\ served' \subseteq served
  BY DEF Tick, t
<1> QED
  BY <1>0, <1>4, <1>5, <1>6 DEF CronType

LEMMA CronStep == AccountsType /\ CronType /\ [Next]_vars => CronType'
<1> SUFFICES ASSUME AccountsType, CronType, [Next]_vars PROVE CronType'
  OBVIOUS
<1>1. CASE UNCHANGED cronVars
  BY <1>1 DEF cronVars, CronType, JobsType
<1>2. ASSUME UNCHANGED <<clock, actions, job, served>>, expected' \subseteq expected
      PROVE  CronType'
  BY <1>2 DEF CronType, JobsType
<1>3. ASSUME NEW l \in Login, Operator(l) PROVE CronType'
  BY <1>2, <1>3 DEF Operator
<1>4. ASSUME NEW l \in Login, Administrator(l) PROVE CronType'
  <2>1. UNCHANGED <<clock, actions, job, expected, served>>
    BY <1>4 DEF Administrator, ApplyUser, DeleteUser, cronVars
  <2> QED
    BY <1>2, <2>1
<1>5. ASSUME NEW a \in Action, NEW cron \in Crons, NEW autoexec \in BOOLEAN,
             Update(a, cron, autoexec)
      PROVE  CronType'
  BY <1>5 DEF Update, CronType, JobsType, Annotated
<1>6. ASSUME NEW a \in Action, RemoveAction(a) PROVE CronType'
  <2>1. NoAction \in Annotated
    BY ActionsAssumption DEF NoAction, Annotated
  <2> QED
    BY <1>6, <2>1 DEF RemoveAction, CronType, JobsType
<1>7. ASSUME NEW j \in Job, Running(j) \/ die(j) PROVE CronType'
  <2>1. JobsType /\ clock \in Instant /\ actions \in [Action -> Annotated]
        /\ users \in [Login -> Nat] /\ served \subseteq Action \X Instant
        /\ expected \subseteq Action \X Instant
    BY DEF CronType, AccountsType
  <2>2. ASSUME JobsType', UNCHANGED <<clock, actions, served>>, expected' \subseteq expected
        PROVE  CronType'
    BY <2>1, <2>2 DEF CronType
  <2>3. CASE start(j)
    <3>1. expected' \subseteq expected
      BY <2>3, Zenon DEF start, Hindered, Overslept
    <3> QED
      BY <2>1, <2>2, <2>3, <3>1, StartType DEF start
  <2>4. CASE get_cron_aware_actions(j)
    <3>1. expected' \subseteq expected
      BY <2>4 DEF get_cron_aware_actions, Hindered
    <3> QED
      BY <2>1, <2>2, <2>4, <3>1, ReadingType DEF get_cron_aware_actions
  <2>5. CASE get_subjects(j)
    <3>1. expected' \subseteq expected
      BY <2>5 DEF get_subjects, Hindered
    <3> QED
      BY <2>1, <2>2, <2>5, <3>1, KeysType DEF get_subjects
  <2>6. ASSUME NEW a \in Action, handle_action(j, a) PROVE CronType'
    <3>1. expected' \subseteq expected /\ clock' = clock /\ actions' = actions
      BY <2>6, Zenon DEF handle_action, Hindered
    <3>2. JobsType' /\ served' \subseteq Action \X Instant
      BY <2>1, <2>6, InvocationType
    <3> QED
      BY <2>1, <3>1, <3>2 DEF CronType
  <2>7. ASSUME NEW a \in Action, unschedule_autoexec_action(j, a) PROVE CronType'
    <3>1. expected' \subseteq expected /\ clock' = clock /\ served' = served
      BY <2>7, Zenon DEF unschedule_autoexec_action
    <3>2. JobsType' /\ actions' \in [Action -> Annotated]
      BY <2>1, <2>7, RetirementType
    <3> QED
      BY <2>1, <3>1, <3>2 DEF CronType
  <2>8. CASE finish(j)
    BY <2>1, <2>2, <2>8, JobEnds DEF finish
  <2>9. CASE die(j)
    <3>1. expected' \subseteq expected
      BY <2>9 DEF die, Hindered
    <3> QED
      BY <2>1, <2>2, <2>9, <3>1, DeathType DEF die
  <2> QED
    BY <1>7, <2>3, <2>4, <2>5, <2>6, <2>7, <2>8, <2>9 DEF Running
<1>8. CronNext \/ UNCHANGED cronVars \/ \E l \in Login : Operator(l) \/ Administrator(l)
  BY DEF Next, vars, App, Deployment, Ask, Web, Limits, Cron, Databases,
     ExceptDatabases, Workflow, ExceptWorkflows, NotCron
<1> QED
  BY <1>1, <1>3, <1>4, <1>5, <1>6, <1>7, <1>8, TickType DEF CronNext

LEMMA CronTypes == AccountsType /\ CronType => CronTypeOK
<1> SUFFICES ASSUME AccountsType, CronType PROVE CronTypeOK
  OBVIOUS
<1>1. ASSUME NEW j \in Job
      PROVE  /\ job[j].at \in {"none", "pending", "actions", "subjects", "handle",
                               "unschedule"}
             /\ job[j].scheduled \in Instant
             /\ job[j].covers \subseteq job[j].window /\ job[j].window \subseteq Instant
             /\ \A a \in DOMAIN job[j].todo : a \in Action /\ job[j].todo[a] \in Annotated
             /\ job[j].invoking \subseteq DOMAIN job[j].todo
  <2>1. PICK q \in JobKind : q = job[j] /\ InOrder(q)
    BY DEF CronType, JobsType
  <2>2. \A a \in DOMAIN q.todo : a \in Action /\ q.todo[a] \in Annotated
    BY TaskSets DEF JobKind
  <2> QED
    BY <2>1, <2>2 DEF JobKind, InOrder
<1> QED
  BY <1>1 DEF CronType, AccountsType, CronTypeOK, Annotated

----------------------------------------------------------------------------
(* The databases and the workflows.                                        *)

\* s is what is left of t when its beginning is cut off.
IsEnd(s, t) ==
  /\ Len(s) <= Len(t)
  /\ \A i \in 1 .. Len(s) : s[i] = t[Len(t) - Len(s) + i]

LEMMA Reversed ==
  ASSUME NEW S, NEW s \in Seq(S)
  PROVE  /\ Len(Reverse(s)) = Len(s) /\ Reverse(s) \in Seq(S)
         /\ \A i \in 1 .. Len(s) : Reverse(s)[i] = s[Len(s) - i + 1]
<1>1. \A i \in 1 .. Len(s) : Len(s) - i + 1 \in 1 .. Len(s)
  OBVIOUS
<1>2. Reverse(s) = [i \in 1 .. Len(s) |-> s[Len(s) - i + 1]]
  BY DEF Reverse
<1> QED
  BY <1>1, <1>2

LEMMA EndIsSuffix ==
  ASSUME NEW S, NEW s \in Seq(S), NEW t \in Seq(S), IsEnd(s, t)
  PROVE  IsSuffix(s, t)
<1> PICK r \in Seq(S) :
      /\ r = Reverse(s) /\ Len(r) = Len(s)
      /\ \A i \in 1 .. Len(s) : r[i] = s[Len(s) - i + 1]
  BY Reversed
<1> PICK q \in Seq(S) :
      /\ q = Reverse(t) /\ Len(q) = Len(t)
      /\ \A i \in 1 .. Len(t) : q[i] = t[Len(t) - i + 1]
  BY Reversed
<1>1. /\ Len(r) = Len(s) /\ Len(q) = Len(t)
      /\ \A i \in 1 .. Len(s) : r[i] = s[Len(s) - i + 1]
      /\ \A i \in 1 .. Len(t) : q[i] = t[Len(t) - i + 1]
  OBVIOUS
<1>2. ASSUME NEW i \in 1 .. Len(s) PROVE r[i] = q[i]
  <2>1. PICK j \in 1 .. Len(s) : j = Len(s) - i + 1
    OBVIOUS
  <2>2. Len(t) - Len(s) + j = Len(t) - i + 1 /\ i \in 1 .. Len(t)
    BY <2>1 DEF IsEnd
  <2> QED
    BY <1>1, <2>1, <2>2 DEF IsEnd
<1>3. Len(r) <= Len(q)
  BY <1>1 DEF IsEnd
<1>4. SubSeq(r, 1, Len(r)) = SubSeq(q, 1, Len(r))
  BY <1>1, <1>2, <1>3
<1> QED
  BY <1>3, <1>4 DEF IsSuffix, IsPrefix

LEMMA EndOfTail ==
  ASSUME NEW S, NEW s \in Seq(S), NEW t \in Seq(S), IsEnd(s, t), s # <<>>
  PROVE  IsEnd(Tail(s), t)
<1>1. PICK n \in Nat : n = Len(s) /\ Len(Tail(s)) = n - 1 /\ n > 0
  OBVIOUS
<1>2. ASSUME NEW i \in 1 .. n - 1 PROVE Tail(s)[i] = t[Len(t) - (n - 1) + i]
  <2>1. Tail(s)[i] = s[i + 1] /\ i + 1 \in 1 .. n
    BY <1>1
  <2>2. Len(t) - n + (i + 1) = Len(t) - (n - 1) + i
    OBVIOUS
  <2> QED
    BY <1>1, <2>1, <2>2 DEF IsEnd
<1> QED
  BY <1>1, <1>2 DEF IsEnd

LEMMA EndsOf ==
  ASSUME NEW S, NEW t \in Seq(S)
  PROVE  IsEnd(<<>>, t) /\ IsEnd(t, t)
BY DEF IsEnd

\* What CouchDB has are calls of the job; an attempt has yet to do an end of them,
\* and there are only so many attempts.
InitType ==
  /\ couch \subseteq CouchCall
  /\ dbinit.attempt \in 0 .. 4
  /\ dbinit.status = "pending" => dbinit.attempt <= 3
  /\ IsEnd(dbinit.left, calls_of_init)

LEMMA CallsAreCalls == calls_of_init \in Seq(CouchCall)
BY CallsOfInit DEF IsSequence, CouchCall

LEMMA InitTypeBegins == Init => InitType
<1> SUFFICES ASSUME Init PROVE InitType
  OBVIOUS
<1>1. IsEnd(<<>>, calls_of_init)
  BY CallsAreCalls, EndsOf
<1> QED
  BY <1>1 DEF Init, DatabasesInit, NoDbinit, InitType

LEMMA InitTypeStep == DatabasesInv /\ InitType /\ [Next]_vars => InitType'
<1> SUFFICES ASSUME DatabasesInv, InitType, [Next]_vars PROVE InitType'
  OBVIOUS
<1> PICK S : S = CouchCall
  OBVIOUS
<1> PICK t \in Seq(S) : t = calls_of_init
  BY CallsAreCalls
<1>1. /\ couch \subseteq S /\ dbinit.left \in Seq(S) /\ IsEnd(dbinit.left, t)
      /\ dbinit \in [status : {"none", "pending", "running", "complete", "failed"},
                     attempt : Nat, left : Seq(S), res : BOOLEAN]
      /\ dbinit.attempt \in 0 .. 4
      /\ dbinit.status = "pending" => dbinit.attempt <= 3
  BY DEF InitType, DatabasesInv, DatabasesType
<1>2. IsEnd(<<>>, t) /\ IsEnd(t, t)
  BY EndsOf
<1> SUFFICES /\ couch' \subseteq S /\ IsEnd(dbinit'.left, t)
             /\ dbinit'.attempt \in 0 .. 4
             /\ dbinit'.status = "pending" => dbinit'.attempt <= 3
  BY DEF InitType, CouchCall
<1>3. CASE UNCHANGED databaseVars
  BY <1>1, <1>3 DEF databaseVars
<1>4. CASE couchdb_create \/ couchdb_delete
  <2>1. couch' \subseteq S
    BY <1>1, <1>4 DEF couchdb_create, couchdb_delete
  <2>2. dbinit'.left = <<>> /\ dbinit'.attempt = 0
    BY <1>4 DEF couchdb_create, couchdb_delete, NoDbinit
  <2> QED
    BY <1>2, <2>1, <2>2
<1>5. CASE init
  BY <1>1, <1>2, <1>5 DEF init
<1>6. ASSUME Pod_fails
      PROVE  /\ dbinit'.left = <<>> /\ dbinit'.attempt = dbinit.attempt
             /\ dbinit'.status = "pending" => dbinit.attempt <= 3
  <2>1. PICK none \in Seq(S) : none = <<>>
    BY EmptySeq
  <2>2. PICK to \in {"failed", "pending"} :
          /\ dbinit' = [dbinit EXCEPT !.left = none, !.status = to]
          /\ to = IF dbinit.attempt > 3 THEN "failed" ELSE "pending"
    BY <1>6, <2>1, Zenon DEF Pod_fails, backoffLimit
  <2> QED
    BY <1>1, <2>1, <2>2
<1>7. ASSUME dbinit.left # <<>>, NEW c, c = Head(dbinit.left)
      PROVE  met(c) \subseteq S /\ IsEnd(Tail(dbinit.left), t)
  <2>1. PICK s \in Seq(S) : s = dbinit.left
    BY <1>1
  <2>2. c \in S
    BY <1>7, <2>1, HeadTailProperties
  <2>3. IsEnd(Tail(s), t)
    BY <1>1, <1>7, <2>1, EndOfTail
  <2> QED
    BY <1>1, <2>1, <2>2, <2>3 DEF met
<1>8. CASE asks_couchdb
  <2>1. PICK c : c = Head(dbinit.left) /\ dbinit.left # <<>> /\ dbinit.status = "running"
    BY <1>8 DEF asks_couchdb
  <2>2. couch' \in {couch, met(c)}
    BY <1>8, <2>1 DEF asks_couchdb
  <2>3. PICK f \in BOOLEAN, left \in Seq(S) :
          /\ left = Tail(dbinit.left)
          /\ dbinit' = [dbinit EXCEPT !.left = left, !.res = f]
    <3>1. Tail(dbinit.left) \in Seq(S)
      BY <1>1, <2>1, HeadTailProperties
    <3>2. PICK f : dbinit' = [dbinit EXCEPT !.left = Tail(@), !.res = check(f, @)] /\ f \in BOOLEAN
      BY <1>8, Zenon DEF asks_couchdb
    <3>3. check(f, dbinit.res) \in BOOLEAN
      BY <1>1, <3>2 DEF check
    <3>4. dbinit' = [dbinit EXCEPT !.left = Tail(dbinit.left), !.res = check(f, dbinit.res)]
      BY <3>2, Zenon
    <3> QED
      BY <3>1, <3>3, <3>4, Zenon
  <2>4. dbinit'.left = left /\ dbinit'.attempt = dbinit.attempt /\ dbinit'.status = "running"
    BY <1>1, <2>1, <2>3
  <2> QED
    BY <1>1, <1>7, <2>1, <2>2, <2>3, <2>4
<1>9. CASE dies
  <2>1. couch' \subseteq S
    BY <1>1, <1>7, <1>9 DEF dies
  <2>2. Pod_fails
    BY <1>9 DEF dies
  <2> QED
    BY <1>1, <1>2, <1>6, <2>1, <2>2
<1>10. CASE exits
  <2>1. couch' = couch
    BY <1>10 DEF exits
  <2>2. CASE dbinit' = [dbinit EXCEPT !.status = "complete"]
    BY <1>1, <2>1, <2>2
  <2>3. CASE Pod_fails
    BY <1>1, <1>2, <1>6, <2>1, <2>3
  <2> QED
    BY <1>10, <2>2, <2>3 DEF exits
<1>11. CASE Restarts
  BY <1>1, <1>11 DEF Restarts
<1> QED
  BY <1>3, <1>4, <1>5, <1>8, <1>9, <1>10, <1>11, DatabasesSteps DEF DatabasesNext, Dbinit

LEMMA DatabasesTypes == DatabasesInv /\ InitType => DatabasesTypeOK
<1> SUFFICES ASSUME DatabasesInv, InitType PROVE DatabasesTypeOK
  OBVIOUS
<1>1. dbinit.left \in Seq(CouchCall) /\ calls_of_init \in Seq(CouchCall)
  BY CallsAreCalls DEF DatabasesInv, DatabasesType
<1>2. IsSuffix(dbinit.left, calls_of_init)
  <2>1. PICK s \in Seq(CouchCall), t \in Seq(CouchCall) :
          s = dbinit.left /\ t = calls_of_init
    BY <1>1
  <2>2. IsEnd(s, t)
    BY <2>1 DEF InitType
  <2>3. IsSuffix(s, t)
    BY <2>2, EndIsSuffix
  <2> QED
    BY <2>1, <2>3
<1> QED
  BY <1>2 DEF DatabasesInv, DatabasesType, InitType, DatabasesTypeOK, CouchCall, backoffLimit

\* The jobs, and the resources whose jobs may linger, are of resources there have been.
JobsAreOfResources ==
  /\ \A a \in Handler : jobs[a].of \in 0 .. workflow.number
  /\ lingering \subseteq 1 .. workflow.number

LEMMA JobsBegin == Init => JobsAreOfResources
BY DEF Init, WorkflowsInit, NoWorkflow, Undone, JobsAreOfResources, Handler

LEMMA JobsOfResourcesStep ==
  WorkflowsInv /\ JobsAreOfResources /\ [Next]_vars => JobsAreOfResources'
<1> SUFFICES ASSUME WorkflowsInv, JobsAreOfResources, [Next]_vars
             PROVE  JobsAreOfResources'
  OBVIOUS
<1> PICK n \in Nat : n = workflow.number
  BY DEF WorkflowsInv, WorkflowsType
<1> USE DEF JobsAreOfResources
<1>1. ASSUME UNCHANGED <<jobs, lingering>>, workflow'.number \in {n, n + 1}
      PROVE  JobsAreOfResources'
  BY <1>1
<1>2. CASE UNCHANGED workflowVars
  BY <1>1, <1>2 DEF workflowVars
<1>3. ASSUME NEW s, ApplyWorkflow(s) PROVE JobsAreOfResources'
  <2>1. workflow'.number \in {n, n + 1}
    BY <1>3 DEF ApplyWorkflow, WorkflowsInv, WorkflowsType
  <2> QED
    BY <1>1, <1>3, <2>1 DEF ApplyWorkflow, Request_of_user
<1>4. CASE DeleteWorkflow
  <2>1. workflow'.number = n
    BY <1>4 DEF DeleteWorkflow, WorkflowsInv, WorkflowsType
  <2> QED
    BY <1>1, <1>4, <2>1 DEF DeleteWorkflow, Request_of_user
<1>5. CASE \/ workflows_create \/ workflows_delete \/ operator_restarts
           \/ config_from_spec \/ whisk_update \/ endpoint_create
  BY <1>1, <1>5 DEF workflows_create, workflows_delete, Called, operator_restarts,
     config_from_spec, whisk_update, endpoint_create
<1>6. CASE removes_other_job
  <2>1. PICK b \in Handler : b = opposite(running.action)
    BY TwoHandlers DEF WorkflowsInv, WorkflowsType
  <2>2. /\ workflow' = workflow
        /\ \/ jobs' = [jobs EXCEPT ![b] = Undone] /\ lingering' = lingering
           \/ /\ jobs' = jobs /\ lingering' = lingering \union {jobs[b].of}
              /\ jobs[b].of # 0
    BY <1>6, <2>1 DEF removes_other_job, exists
  <2>3. \A a \in Handler : jobs'[a].of \in 0 .. n
    <3>1. Undone.of = 0 /\ \A a \in Handler : jobs'[a].of \in {jobs[a].of, 0}
      BY <2>2 DEF Undone, WorkflowsInv, WorkflowsType
    <3> QED
      BY <3>1
  <2>4. lingering' \subseteq 1 .. n
    <3>1. jobs[b].of # 0 => jobs[b].of \in 1 .. n
      OBVIOUS
    <3>2. lingering' \subseteq lingering \union ({jobs[b].of} \ {0})
      BY <2>2
    <3> QED
      BY <3>1, <3>2
  <2> QED
    BY <2>2, <2>3, <2>4
<1>7. CASE applies_job
  <2>1. PICK a \in Handler : a = running.action
    BY DEF WorkflowsInv, WorkflowsType
  <2>2. generate_job.of = n
    BY <1>7 DEF applies_job, generate_job, WorkflowsInv, HandlerIsOfTheResource
  <2>3. /\ workflow' = workflow /\ lingering' = lingering
        /\ jobs' \in {jobs, [jobs EXCEPT ![a] = IF exists(a) THEN @ ELSE generate_job]}
    BY <1>7, <2>1 DEF applies_job
  <2>4. \A h \in Handler : jobs'[h].of \in 0 .. n
    <3>1. \A h \in Handler : jobs'[h] \in {jobs[h], generate_job}
      BY <2>3 DEF WorkflowsInv, WorkflowsType
    <3> QED
      BY <2>2, <3>1
  <2> QED
    BY <2>3, <2>4
<1>8. CASE status
  <2>1. workflow'.number = n
    BY <1>8 DEF status, succeeded, WorkflowsInv, WorkflowsType
  <2> QED
    BY <1>1, <1>8, <2>1 DEF status
<1> QED
  BY <1>2, <1>3, <1>4, <1>5, <1>6, <1>7, <1>8, WorkflowsSteps
     DEF WorkflowsNext, WorkflowHandler

LEMMA WorkflowsTypes == WorkflowsInv /\ JobsAreOfResources => WorkflowsTypeOK
<1> SUFFICES ASSUME WorkflowsInv, JobsAreOfResources PROVE WorkflowsTypeOK
  OBVIOUS
<1>1. DOMAIN jobs = Handler
  BY DEF WorkflowsInv, WorkflowsType
<1> QED
  BY <1>1 DEF WorkflowsInv, WorkflowsType, JobsAreOfResources, WorkflowsTypeOK, Known

----------------------------------------------------------------------------

\* The types of all parts, with what they rest on.
TypesInv ==
  /\ scenario \in Scenarios
  /\ faults \in Nat /\ AppSets /\ AccountsType /\ VisitsInv
  /\ DeploymentTypeOK
  /\ WebInv /\ StoresType
  /\ LimitsInv /\ spoilt \subseteq Login
  /\ CronType
  /\ DatabasesInv /\ InitType
  /\ WorkflowsInv /\ JobsAreOfResources

LEMMA TypesBegin == Init => TypesInv
<1> SUFFICES ASSUME Init PROVE TypesInv
  OBVIOUS
<1>1. scenario \in Scenarios /\ faults \in Nat /\ spoilt \subseteq Login
  BY DEF Init, AppInit, LimitsInit
<1> QED
  BY <1>1, AppSetsBegin, AccountsBegin, VisitsBegin, DeploymentTypeBegins, WebBegins,
     StoresBegin, LimitsBegin, CronBegins, JobBegins, InitTypeBegins, WorkflowBegins,
     JobsBegin DEF TypesInv

LEMMA TypesStep == TypesInv /\ [Next]_vars => TypesInv'
<1> SUFFICES ASSUME TypesInv, [Next]_vars PROVE TypesInv'
  OBVIOUS
<1>1. scenario' \in Scenarios
  BY ScenarioStays DEF TypesInv
<1>2. faults' \in Nat
  BY FaultsAreCounted DEF TypesInv
<1>3. AppSets' /\ AccountsType' /\ VisitsInv'
  BY AppSetsStep, AccountsStep, VisitsStep DEF TypesInv
<1>4. DeploymentTypeOK'
  BY DeploymentTypeStep DEF TypesInv
<1>5. WebInv' /\ StoresType'
  BY WebStep, StoresStep DEF TypesInv
<1>6. LimitsInv' /\ spoilt' \subseteq Login
  BY LimitsStep, SpoiltStep DEF TypesInv
<1>7. CronType'
  BY CronStep DEF TypesInv
<1>8. DatabasesInv' /\ InitType'
  BY JobStep, InitTypeStep DEF TypesInv
<1>9. WorkflowsInv' /\ JobsAreOfResources'
  BY WorkflowStep, JobsOfResourcesStep DEF TypesInv
<1> QED
  BY <1>1, <1>2, <1>3, <1>4, <1>5, <1>6, <1>7, <1>8, <1>9 DEF TypesInv

\* Every variable of the platform keeps its type, whoever acts: a request never
\* leaves the places of the stores, a job of the executor covers no instant it does
\* not look back on, the job that prepares CouchDB has an end of its calls to do,
\* and no workflow job is of a resource there never was (TypeOK).
THEOREM PartsKeepTheirTypes == Spec => []TypeOK
<1>1. TypesInv => TypeOK
  BY AppTypes, WebTypes, LimitsTypes, CronTypes, DatabasesTypes, WorkflowsTypes
     DEF TypesInv, WebInv, TypeOK
<1> QED
  BY <1>1, TypesBegin, TypesStep, PTL DEF Spec
=============================================================================
