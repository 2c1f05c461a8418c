---------------------------- MODULE DatabaseInit ----------------------------
(***************************************************************************)
(* The Kubernetes job that prepares CouchDB: its requests in their order,  *)
(* the attempts Kubernetes makes when a pod of the job fails, and the      *)
(* databases that an earlier attempt, or an earlier deployment of CouchDB, *)
(* has left on the volume.                                                 *)
(***************************************************************************)
EXTENDS GithubApp, Sequences, SequencesExt

CONSTANT
  Namespace  \* openwhisk.namespaces: the subjects there are from the start

ASSUME NamespaceAssumption == Namespace \in Seq(Range(Namespace))

VARIABLES
  couch,        \* the calls whose effect CouchDB still has
  dbinit,       \* the job: its status, its attempt, the calls of the attempt
                \* that are left, and whether all of the others went well
  deployments,  \* how often CouchDB was deployed
  marred        \* history: a call failed or a pod died since it was

databaseVars == <<couch, dbinit, deployments, marred>>

backoffLimit == 3

Call(name, of) == <<name, of>>

wait_db_ready == <<Call("wait_db_ready", <<>>)>>
create_db(db) == <<Call("create_db", <<db>>)>>
add_role(db) == <<Call("add_role", <<db>>)>>
add_user(user) == <<Call("add_user", <<user>>)>>
update_templated_doc(db, doc) == Call("update_doc", <<db, doc>>)
enable_db_compaction(db) == <<Call("enable_db_compaction", <<db>>)>>

designs(db, docs) ==
  wait_db_ready \o create_db(db) \o add_role(db)
    \o [i \in 1 .. Len(docs) |-> update_templated_doc(db, docs[i])]

\* Mutant: the users are added before the node is configured.
init_system_users_first ==
  wait_db_ready \o add_user("controller") \o add_user("invoker")
    \o <<Call("configure_single_node", <<>>),
         Call("configure_no_reduce_limit", <<>>)>>

init_system ==
  wait_db_ready \o <<Call("configure_single_node", <<>>),
                     Call("configure_no_reduce_limit", <<>>)>>
    \o add_user("controller") \o add_user("invoker")

init_subjects ==
  designs("subjects", <<"auth_v2.0.0", "filter", "namespace_throttlings">>)

init_activations ==
  designs("activations", <<"whisks_v2.1.0", "filters_v2.1.1", "filter",
                           "activations", "logCleanup">>)

init_actions == designs("whisks", <<"whisks_v2.1.0", "filter">>)

add_initial_subjects ==
  wait_db_ready
    \o [i \in 1 .. Len(Namespace) |->
          update_templated_doc("subjects", Namespace[i])]

init_users_metadata == wait_db_ready \o create_db("users_metadata")

init_compactions_config ==
  wait_db_ready \o enable_db_compaction("users_metadata")
    \o enable_db_compaction("users_subjects") \o enable_db_compaction("whisks")

calls_of_init ==
  init_system \o init_subjects \o init_activations \o init_actions
    \o add_initial_subjects \o init_users_metadata \o init_compactions_config

----------------------------------------------------------------------------

there(c) == c \in couch

\* CouchDB refuses to make a database or a user again; it has no users before
\* the node is configured, and nothing can be put into a database before it
\* is made.
takes(c) ==
  CASE c[1] = "create_db" -> ~there(c)
    [] c[1] = "add_user" ->
         there(Call("configure_single_node", <<>>)) /\ ~there(c)
    [] c[1] \in {"add_role", "update_doc"} ->
         there(Call("create_db", <<c[2][1]>>))
    [] OTHER -> TRUE

\* What CouchDB has done when it has met a call.
met(c) ==
  IF takes(c) /\ c[1] # "wait_db_ready" THEN couch \union {c} ELSE couch

\* Mutant: the result of a step replaces that of the steps before it.
check_forgetful(f, res) == f

check(f, res) == f /\ res

\* One request of the job: after one that is refused the job goes on.
asks_couchdb ==
  LET c == Head(dbinit.left)
      Goes_on_with(f) ==
        dbinit' = [dbinit EXCEPT !.left = Tail(@), !.res = check(f, @)]
  IN /\ dbinit.status = "running" /\ dbinit.left # <<>>
     /\ \/ /\ takes(c) /\ Goes_on_with(TRUE)
           /\ couch' = met(c)
           /\ UNCHANGED <<faults, marred>>
        \/ \* A node that is configured may refuse to be configured again.
           /\ ~takes(c) \/ (c[1] = "configure_single_node" /\ there(c))
           /\ Goes_on_with(FALSE)
           /\ UNCHANGED <<couch, faults, marred>>
        \/ \* The answer is an error, whatever CouchDB has done.
           /\ Fault /\ marred' = TRUE
           /\ Goes_on_with(FALSE)
           /\ couch' \in {couch, met(c)}
     /\ UNCHANGED <<scenario, deployments>>

\* Kubernetes starts another pod unless it has tried often enough.
Pod_fails ==
  dbinit' = [dbinit EXCEPT
    !.left = <<>>,
    !.status = IF dbinit.attempt > backoffLimit THEN "failed" ELSE "pending"]

\* There is no answer, and nobody catches the exception; or the pod is killed.
dies ==
  /\ dbinit.status = "running"
  /\ Fault /\ marred' = TRUE
  /\ Pod_fails
  /\ \/ UNCHANGED couch
     \/ dbinit.left # <<>> /\ couch' = met(Head(dbinit.left))
  /\ UNCHANGED <<scenario, deployments>>

\* The process exits with 0 if the result is TRUE.
exits ==
  /\ dbinit.status = "running" /\ dbinit.left = <<>>
  /\ IF dbinit.res THEN dbinit' = [dbinit EXCEPT !.status = "complete"]
                   ELSE Pod_fails
  /\ UNCHANGED <<scenario, faults, couch, deployments, marred>>

init ==
  /\ dbinit.status = "pending"
  /\ dbinit' = [status |-> "running", attempt |-> dbinit.attempt + 1,
                left |-> calls_of_init, res |-> TRUE]
  /\ UNCHANGED <<scenario, faults, couch, deployments, marred>>

\* The configuration is not on the volume.
on_the_volume(c) ==
  c[1] \notin {"wait_db_ready", "configure_no_reduce_limit", "enable_db_compaction"}

\* The pod of CouchDB is replaced.
Restarts ==
  /\ dbinit.status # "none"
  /\ Fault /\ marred' = TRUE
  /\ couch' = {c \in couch : on_the_volume(c)}
  /\ UNCHANGED <<scenario, dbinit, deployments>>

NoDbinit == [status |-> "none", attempt |-> 0, left |-> <<>>, res |-> TRUE]

\* The operator applies CouchDB and its job.
couchdb_create ==
  /\ dbinit.status = "none" /\ deployments < scenario.couchdbs
  /\ dbinit' = [NoDbinit EXCEPT !.status = "pending"]
  /\ deployments' = deployments + 1
  /\ marred' = FALSE
  /\ UNCHANGED <<scenario, faults, couch>>

\* The operator deletes what it has applied.  The claim of the volume is not
\* part of that; an administrator may delete it.
couchdb_delete ==
  /\ dbinit.status # "none" /\ deployments < scenario.couchdbs
  /\ dbinit' = NoDbinit
  /\ couch' \in {{c \in couch : on_the_volume(c)}, {}}
  /\ UNCHANGED <<scenario, faults, deployments, marred>>

DatabasesInit ==
  couch = {} /\ dbinit = NoDbinit /\ deployments = 0 /\ marred = FALSE

Dbinit == init \/ asks_couchdb \/ exits

DatabasesNext ==
  couchdb_create \/ couchdb_delete \/ Dbinit \/ dies \/ Restarts

DatabasesTypeOK ==
  /\ couch \subseteq Range(calls_of_init)
  /\ dbinit.status \in {"none", "pending", "running", "complete", "failed"}
  /\ dbinit.attempt \in 0 .. backoffLimit + 1
  /\ dbinit.res \in BOOLEAN
  /\ IsSuffix(dbinit.left, calls_of_init)
=============================================================================
