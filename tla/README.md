# A TLA+ model of the OpenServerless operator

The operator (`nuvolaris/`) is a Python process built on the kopf framework. It
watches three kinds of custom resources and turns them into Kubernetes objects
by calling `kubectl`. This directory holds TLA+ modules translated from that
source, the TLC configurations that check them on small instances, and proofs
that TLAPS checks for every instance.

## 1. The system

### Components

| Component | Source | State it keeps | Operations |
|---|---|---|---|
| Whisk lifecycle handlers | `main.py`, `operator_util.py` | `status.whisk_create` of the resource | `whisk_create`, `whisk_update`, `whisk_resume`, `whisk_delete`, the watcher of `cm/openwhisk-runtimes` |
| Patcher and kopf diff | `patcher.py`, `kopf_util.py` | none; a map `what_to_do` for each edit | `patch`, `detect_component_changes`, `redeploy_whisk`, `patch_preloader` |
| Configuration map | `config.py` | `_config`, a module global shared by every handler thread | `clean`, `configure`, `detect`, `get`, `put` |
| Deployed components | `redis.py`, `etcd.py`, `milvus_standalone.py`, `postgres_operator.py`, `ferretdb.py`, `minio_deploy.py`, `seaweedfs_deploy.py`, `storage_static.py`, `endpoint.py`, `issuer.py`, `cronjob.py`, `quota_checker_job.py`, `registry_deploy.py`, `couchdb.py`, `kafka.py`, `zookeeper.py`, `invoker.py`, `openwhisk*.py`, `monitoring.py`, `runtimes_preloader.py` | objects in the namespace, ingresses, `state.<name>.spec` in the map, annotations of `cm/config` | `create(owner)`, `delete(owner)`, `patch(status, action, owner)`, `patch_ingresses` |
| kubectl wrapper, kustomize | `kube.py`, `kustomize.py` | none | `kubectl` (raises on a non-zero exit), `apply`, `delete`, `get` (None on any error) |
| Apihost calculation | `apihost_util.py` | none | `calculate_apihost`, `get_apihost` |
| CouchDB initialisation | `couchdb.py`, `templates/couchdb-init.yaml` | databases, users and documents on the volume | a Kubernetes job that makes them, with a back-off limit |
| User lifecycle handlers | `user_handlers.py`, `user_patcher.py`, `user_config.py`, `user_metadata.py` | status and conditions of a user resource; accounts inside the components | create, delete, update, resume |
| User database | `userdb_util.py`, `couchdb_util.py` | documents with revisions in CouchDB | find, get, update, delete, save of a user |
| Secrets and login actions | `actions/secrets`, `actions/login` | the same documents | merge an environment, authenticate |
| Quota checker | `quota_checker.py`, `redis_client.py`, `postgres_client.py` | quota annotations of users, grants in the databases | one periodic job |
| Store clients | `minio_util.py`, `seaweedfs_util.py`, `milvus_*_client.py`, ... | accounts, buckets, policies, grants | make and remove each |
| Cron executor | `actionexecutor.py`, `cronjob.py` | cron and autoexec annotations of actions | one periodic job |
| Workflows | `workflows.py` | two jobs for each workflow resource | create, delete |
| System actions, retry | `whisk_actions_deployer.py`, `util.py` (`nuv_retry`) | the deployed actions | deploy, retry with a deadline |
| Nuvolaris metadata | `nuvolaris_metadata.py`, `operator_util.py` | a document that copies annotations of `cm/config` | save |
| GitHub app | `actions/github/callback`, `actions/github/webhook` | user resources | make one for who installs the app, delete it |
| Developer and content actions | `actions/devel/*`, `actions/content`, `actions/common` | objects, rows and keys of users | authorize, then one command of a store |
| wskadmin | `tools/cli/wsk/wskadmin.py` | subjects and limits of namespaces | user create, delete, block, unblock; limits set, get, delete |
| Templates, spare deployments | the rest | none of their own | text |

### How they interact

- **kopf calls handlers** in threads. Handlers of one resource are serialised;
  handlers of different resources, and event watchers, run at the same time. A
  handler that raises is called again with the spec of that moment; one that
  raises `PermanentError`, or returns, has handled the spec. An update gets the
  differences between the last handled spec and the present one. After a restart
  of the process `resume` is called once for each listed resource. A resource
  with a delete handler has a finalizer, so that deletion waits for it.
- **The configuration map** is how handlers speak to component modules: each
  `config_from_spec` empties it and fills it from the spec, and everything
  else only reads it. It is not persistent.
- **Owner references** decide who removes objects. `create(owner)` adds a
  reference to the resource, and the cluster collects the objects with it; a
  `create` without an owner records the manifest in the map, and `delete` without
  an owner uses that record. Ingresses and routes never have a reference. The
  certificate issuer is cluster wide and always recorded, never owned.
- **The status** is written once by `whisk_create`, through kopf, and amended key
  by key by each `patch`.
- **`cm/config`** carries the apihost users connect to; `endpoint.create`
  writes it and `whisk_resume` reads it.

### What is hard

- A handler is a sequence of up to twenty calls, each of which may raise; some
  are in a `try`, others are not, and the whole handler is run again from its
  first step with a map that was emptied.
- The same edit may be handled several times, with further edits between the
  attempts.
- What is deleted, and how, depends on state that a restart or an update
  loses.
- Action words mean different things to different modules ("update" is a create for
  the issuer and the endpoint, a delete for the others).
- Watchers, user handlers, jobs and web actions run beside the handlers and share
  the map, the documents and the annotations with them.

`PROJECT.json` lists each of these at its line under `hazards`, with the properties
that would show it going wrong, what those properties excuse, or why none covers it.

### What makes each component correct

- *Lifecycle*: what the status says is so in the cluster; no edit takes down what
  it keeps enabled; the published apihost is that of the spec; every edit, resume
  and deletion completes; a deletion leaves nothing behind.
- *Configuration map*: between handlers it is that of the resource; its apihost
  is the published one.
- *Deployed components*: one whose status is "on" has all that its creation brings; one
  that is "off" has nothing left; creation and deletion come to an end.
- *User database*: a write of one writer is not lost to another that did not overlap
  it; a deleted user stays deleted; the requests implement abstract documents.
- *Users*: a variable leads to an account that exists, as far as the operator can know
  (the exit status of a script does not tell whether its statements succeeded); a user
  who is Ready has the variables of what it asked for; no account outlives its user.
- *Quota checker*: annotation and rights agree between jobs; a user over quota does not
  write for ever.
- *Cron executor*: every instant that some job still looks back on is served although
  jobs are late and overlap, and on a regular schedule that is every instant whose job
  is at most one instant late; an autoexec action is retired.
- *GitHub app*: the password shown is that of the account.
- *Web actions*: what was reported as stored is kept.
- *Limits*: what an administrator was told to be set is set.
- *CouchDB initialisation*: complete means that all is there.
- *Workflows*: a handled workflow has its own job, and never both jobs.
- *Retry*: no attempt after the deadline, and "created" is true.

## 2. The modules

| Module | Models |
|---|---|
| `KopfUtil` | `kopf_util.py`: the map `what_to_do` of an edit. Pure operators. |
| `WhiskOperator` | `main.py`, `patcher.py`, `operator_util.py`, `config.py` and the create, delete and patch functions of every component, each as one step with outcomes. EXTENDS `KopfUtil`. |
| `MCWhiskOperator` | Small sets of specs for TLC. |
| `WhiskOperator_proofs` | The inductive invariants of the type, the map and the apihost, with their lemmas and theorems. |
| `WhiskDeployment_proofs` | That the status and the edits are true of the cluster. |
| `WhiskDeletion_proofs` | That a deletion leaves nothing. |
| `ComponentCalls` | What `create` and `delete` of each component ask of the cluster, call by call. Pure operators. |
| `Components` | The handlers again, with those calls as the steps. EXTENDS `ComponentCalls`; `MCComponents` has the scenarios. |
| `Components_proofs` | The calls of each component, and the types of the handlers that make them. |
| `UserDocuments` | The abstract specification of the user databases. |
| `UserDB` | The requests of the operator, the secrets action and wskadmin on those databases; refines `UserDocuments`. `MCUserDB` instantiates it. |
| `UserDB_proofs` | The inductive invariant of the requests and the proof of the refinement. |
| `UserSafety_proofs` | The other safety properties of the user's documents. |
| `ServiceClients` | What the functions for a user's account do in six services, call by call. Pure operators. |
| `UserServices` | The handlers of a user over those services, the configuration map and the quota checker. EXTENDS `ServiceClients`; `MCUserServices` instantiates it. |
| `UserServices_proofs` | What the clients of the services answer, and the inductive invariant of the accounts, their variables and their rights. |
| `GithubApp` | The callback and the webhook of the GitHub app, and the accounts. |
| `SystemActions` | The deployment of the system actions with `nuv_retry`. |
| `NamespaceLimits` | wskadmin on the limits of namespaces. |
| `WebActions` | Login, content and the devel actions. EXTENDS `SystemActions`. |
| `CronExecutor` | The jobs that invoke the actions of users. EXTENDS `NamespaceLimits`. |
| `DatabaseInit` | The job that prepares CouchDB. |
| `Workflows` | The handlers of a workflow resource and their jobs. |
| `Platform` | The composition of the last seven over the accounts of `GithubApp`; `MCPlatform` has its scenarios. |
| `Platform_proofs` | The app, the web actions, the limits, the deployment, the CouchDB job and the workflows: their safety properties; and the types of all parts. |

There are three views of the operator because no single instance of all of it can be
checked: `WhiskOperator` has every component and every interleaving of whole calls,
`Components` has every call and failure in it for a few components at a time,
and the user modules have what lives inside the components. `Platform` composes
what shares the accounts; `UserDB` and `UserServices` share only the resource with
each other, and each is composed with what shares its state (the secrets action and
wskadmin; the configuration map and the quota checker).

### `KopfUtil`

A spec is a record of what the operator tells apart: the set of enabled components,
the host, the `configs` subtree as an opaque value, and the stores with an ingress
enabled. `detect_component_changes(old, new)` is the *set* of maps the code may
build: for static two differences write the same entry and the order in which kopf
lists them decides.

### `WhiskOperator`

State:

- `wsk`, `spec`, `lastHandled`: the resource, as kopf and the cluster keep it;
  `status` and `reported` are `status.whisk_create` and whether it was ever set.
- `handler`: the running handler, the steps it has `left`, its map `todo`, whether
  it found an `owner`, the spec it works for and the status it is building.
- `cfg`: the spec in the map, its `config.apihost`, and the components whose
  manifest is `held` under `state.<name>.spec`.
- `watcher`: the watcher of the runtimes, in its own thread; `stale` says that
  the owner it has read is gone.
- `objects`, `ingresses`, `annotation`: the cluster. `objects[k]` is "none",
  "owned" or "unowned".
- `attempt`, `abandoned`: history of specs that a handler began and did not handle.
- `edits`, `faults`, `restarts`, `runtimeChanges`: counters for the bounds of TLC.

Each handler is one action that begins it (`whisk_create`, `whisk_update`,
`whisk_resume`, `whisk_delete`: configuration, owner, the list of steps), one action
for each component call (`create_step`, `patch_create`, `patch_delete`,
`patch_ingresses`, `delete_step`), and one that ends it (`create_done`,
`update_done`, `resume_done`, `delete_done`). Other actors, `Restart`, `ApplyWhisk`
and `DeleteWhisk` included, may act between any two of these. `config_raises` is a
handler that raises while it detects the cluster.

A component call has an outcome: it succeeds, raises before anything is applied
("build"), in `kubectl apply` or `delete` ("apply"), after it ("late"), gives up
without raising ("refused", milvus), or leaves its ingresses ("left").
`create_raises`, `delete_raises` and `Unguarded` say which outcomes end the
handler, which end the step, and which nobody notices.

Abstractions, each of which a reader should know:

- the objects of one manifest are applied and deleted together;
- the call of a component is one step: two threads interleave between calls, not
  inside one, and `clean`, `configure`, `detect` are one step;
- the contents of manifests, and what lives inside a component (databases, users,
  buckets), are left out;
- `status` is written at once, as the code uses it; what kopf does between the
  handler and the API server is external;
- the mechanics of kopf described above, the garbage collector and the user are
  external and marked so in the map.

### `ComponentCalls` and `Components`

`ComponentCalls` translates each function into a sequence of calls: apply a
kustomization (`Deploy`), apply or delete an ingress, put something into a store,
annotate `cm/config`, and so on. Each call says in which block of the code it stands
and which block its failure `ends`: the handler, a `try`, or what depends on a
tested answer. `Components` walks through them. State:

- `settings`: what the spec and the cluster ask for, one record for each scenario;
- `present`, `owned`: what exists in the cluster, in the stores and as annotations,
  and which manifests belong to the resource;
- `memory`: the recorded and generated manifests of the process, and whether it has
  a configuration; `Restart` empties it;
- `handler`, `queue`, `todo`, `failed`: the handler, the set of the components it has
  left (`place` is their order, `current` the first), the calls left of the present one,
  and the blocks that failed; `watching`: the watcher;
- `report`: what the status says; `promised`, `clean`, `partial`: history.

`HandlerCall` is a call that succeeds or is refused for what the cluster is (`works`:
a bucket that exists, an object that does not); `CallDisturbed` is one that fails for
another reason, before or after it took effect; `ComponentDone` is the end of a
component, where `Unguarded` decides whether an exception leaves the handler.
`update_queue` is what an edit goes through: one of a component or of OpenWhisk ends
with `whisk_post_create`, which saves the metadata of nuvolaris again, and outside of any
`try`; `edited` is what such an edit was of, for `whisk_update_again`, the call of kopf
that follows a raise or a restart.
An owner reference makes `Collect` remove an object when the resource has gone.
Abstractions: one manifest is one object; an edit changes one thing at a time (the
whole diff is in `WhiskOperator`); the outcome of a wait for a pod is that of its call.

### `UserDocuments` and `UserDB`

`UserDocuments` is what a reader of the databases may rely on: a document is rendered,
edited in one field *starting from a version that was once stored*, or removed, and an
edit never makes one that is not there. `UserDB` has what the code does: `find_doc`,
`get_doc` and the PUT or DELETE as three requests, each of which may fail (after it
was served, too). `update_doc` sends the revision it has read a moment before,
wskadmin that of the document it edited. The writers are the handlers of a user
(`add_subject`, `save_user_metadata`, password, quota, the deletions), invocations of
the secrets action and of wskadmin. `ImplementsDocuments` is the refinement,
with `current <- [d \in Doc |-> store[d].body]`. It does not say that no update
is lost, because the code loses them; `marred` is the history of what may have cost a
document one, and `SecretsAreKept` and the others say that nothing else does.

### `ServiceClients` and `UserServices`

An account is the set of its parts that exist (a bucket, a role, a grant, ...).
`ServiceClients` has one operator for each function that makes or removes an account
or changes its rights: from the parts there are and the calls that fail (`F`) to the
parts it leaves, the variables it records and whether it raises. A failure may be
*silent*: `psql -f` (without `ON_ERROR_STOP`), `redis-cli` and `weed shell` exit with 0
when a statement fails, so that the rest of the script is run and the function goes on
as if nothing had happened, and the client of Milvus ignores HTTP errors but 403. Then
the single statement has no effect, nor has what needs it (`effective`, `manage_user`,
`manage_schema`), and the variables are recorded all the same. `UserServices` has
the handlers, one service at a step: `SkipService` when the map is empty at that
moment, `CallService` with no failure, one failing call, or the death of the process
after some calls, where the failing call may be a silent one; `SaveMetadata` at the end. A handler is `at` a place of the order
in which its function goes through the services, and the next place is that of the
next service the Whisk resource and the user ask for (`place`). `clean` and `configure` empty and fill the
map beside them. The quota checker is `start`, `get_wsk_users`, `check_quota`,
`annotate`, one user at a time, over sizes that were read earlier. A size is
abstracted to exceeding the quota or not (the quota of redis and ferretdb is computed
with a factor of 1014 instead of 1024, `quota_checker.py:85`, which that hides).

### `Platform` and its parts

- `GithubApp`: `github_code_exchange`, `github_user_detail`, `get_whisk_user`,
  `create_whisk_user` of the callback; `webhook`; the resource, its deletion and what
  the databases have. An account is named by the visit that made it, which stands for
  its password and keys.
- `SystemActions`: `wsk_project_deploy` and `wsk_action_list` under `nuv_retry`, with
  the time attempts take and the random part of the pause.
- `NamespaceLimits`: `limits set`, `get` and `delete` of wskadmin in two requests.
- `WebActions`: `fetch_subject` and the metadata query of `authorize`, then the calls
  of the command one at a time. `process_path_param` and `Object` have what becomes of a
  path; the formats of bodies and answers are left out.
- `CronExecutor`: a clock that goes round, jobs that start up to `MaxDelay` late, with
  a window computed as the code does, back from the moment of the start; reading actions, reading keys, invoking and
  taking an annotation away are separate requests.
- `DatabaseInit`: the requests of `couchdb.init` in their order, the attempts of the
  Kubernetes job, and the volume.
- `Workflows`: removing the opposite job, applying the own one, counting, and the
  retries of kopf. A job is rendered from the configuration map too, of which the model
  has the key and the apihost: a restart empties it until the resume, and an edit of the
  Whisk resource loses the apihost until the endpoint is deployed again (`whisk_update`,
  `endpoint_create`), or the operator restarts.

`scenario` is chosen in `Init` and says which of these happen and how often:
the parts share the accounts, the limits, the deployed actions and the failures.

## 3. The runs

The first seven use `Runtime = "microk8s"`, a kind of cluster where the issuer is
deployed (kind and openshift skip it). `CHECK_DEADLOCK FALSE`: an operator with
nothing left to handle stops. `FaultyHandlers` names the handlers whose calls may
fail, so that each run spends its faults where its question is.

| Run | Bounds | Checks | Shows |
|---|---|---|---|
| `Edits` | 3 edits among 3 specs, 2 faults in create or update | `TypeOK`, `OnMeansDeployed`, `OffMeansGone`, `PublishedApihost`, `EnabledNotDeleted` | the status, the url and the cluster agree once an edit is handled, through retries and edits made meanwhile |
| `Restarts` | 2 edits, 2 restarts, 1 fault, 1 change of the runtimes | `CfgCoherent`, `ApihostCoherent` | the shared map is coherent again after every restart, and its apihost at every step |
| `Progress` | 2 edits, 2 faults in any handler, 1 restart | `EditsAreHandled`, `ResumeCompletes`, `DeletionCompletes` | every edit and deletion completes, and every resume unless no apihost was ever published and the status says so |
| `Deletion` | 4 edits, no fault | `NothingLeftBehind` | a deleted resource leaves no object and no ingress, the issuer excepted |
| `StaticUpdate` | 2 edits | `StaticNotDeleted` | *violated*: moving the host deletes static |
| `RegistryEdit` | 2 edits | `EditsAreHandled` | *violated*: switching the registry is never handled |
| `StuckDeletion` | 2 edits, 1 fault | `DeletionCompletes` | *violated*: an issuer whose apply failed blocks the deletion |
| `Components` | 24 settings of 9 groups of components, with and without owner, 2 edits, 1 failing call or restart | `TypeOK`, `OnIsComplete`, `OffIsGone`, `DeletedLeavesNothing`, `HandlingCompletes` | what the status says is so call by call, and creation and deletion end |
| `Users` | 1 user, 2 specs, 2 invocations, 4 events | `TypeOK`, `PasswordIsHandled`, `SecretsAreKept`, `BlockedStaysBlocked`, `AuthIsOfTheSubject`, `NothingOfTheDeleted`, `UsersAreHandled`, `ImplementsDocuments` | writers lose nothing but where they overlap, a deleted user stays deleted, the documents are implemented |
| `Services` | 1 user, 2 specs over six services, 2 events (failing calls, silent or not, deaths, edits) | `TypeOK`, `VariablesAreBacked`, `VariablesAreComplete`, `NothingOfTheDeleted`, `QuotaMarks`, `QuotaIsEnforced` | variables lead to accounts, deletion leaves none, annotations are the rights, a quota is enforced |
| `PostgresQuota` | 1 user whose database is not named like its namespace | `QuotaIsEnforced` | *violated*: the user is never restricted |
| `Platform` | 13 scenarios, below | `TypeOK`, `ShownPasswordIsTheAccounts`, `ContentIsKept`, `EveryInstantIsServed`, `AutoexecIsRetired`, `LimitsAccumulate`, `DeploymentIsTimely`, `CompleteIsPrepared`, `WorkflowsHaveTheirJobs`, `WorkIsCompleted` | the programs around the operator keep what they tell their users |

Why the bounds of the first seven are enough: the hazards are about one attempt that fails, another
that follows it with the same or a newer spec, and a third that meets what the
first two left. Two faults and three edits (a create, an edit that fails, an edit
that replaces or reverts it) contain those histories; two restarts contain one
in the middle of the recovery from the other. Three specs that differ in an owned
store with an ingress, a plain component, one whose patch may raise (etcd), tls, the
host and the configs reach each kind of step. The first specs of `Restarts`
are refused (minio with seaweedfs), which is the one way to an update without a
status.

The bounds of the others:

- `Components`: a hazard here is a call that fails in the middle of a component, the
  run that follows it over what it left, and a deletion over what both left. One
  disturbance and two edits (off and on again, or an edit beside the watcher) contain
  those, for each call of each component. The scenarios group components that look at
  each other (a store, the web content and Milvus in it; PostgreSQL and FerretDB),
  on the three kinds of ingress.
- `Users`: two invocations make every pair of writers besides the handler; four events
  allow an edit, a deletion, an invocation and a failure, or a creation twice with an
  invocation in between. Documents of different users never meet.
- `Services`: one disturbance is in the middle of each call; a second one is a
  second failure, a restart while the first is repeated, or the deletion of what a
  failure left. Between them the two specs have all services of a cluster with MinIO.
- `Platform`: the scenarios are an app that is installed, removed and installed again
  with pages loaded again and a call that fails (three visits are the least in which the
  page of a failed visit is loaded again while another installation is underway); the
  same beside an administrator who makes and deletes the user; two users who install the
  app; a login of a
  user who comes and goes while actions are deployed; moves, copies and clean-ups of two
  objects by three requests; the commands on buckets and the commands on databases of
  two requests; jobs of the executor, late and overlapping, with an action that is
  edited, or with failures; limits set by two administrators, and limits while
  the executor runs; CouchDB deployed twice; a workflow made, edited, deleted and
  made again, while the Whisk resource is edited. A round of four instants with a job at
  every second one and a delay of up to two has jobs in time, jobs that are one instant
  late and still look back on all they are to serve, and jobs that start together with
  the next one and no longer do. `Acceptable` has one of the two logins, so that the
  other is refused.

What the properties of these excuse is written as a named condition beside each of
them, and it is there because the code has no protection: two writers of a metadata
document that overlap lose one update (`update_doc` reads the revision just before it
writes); a service is passed over while the map is empty; MinIO, kubectl and Milvus
refuse what a first attempt made or removed (`excused`, `abandoned`, `irretrievable` in
`Components`); a session keeps a database; a failing request of the secrets action
or of an update of a password is never repeated; a failing look-up of the callback
counts as "no account"; the removal of an old workflow job is not checked, and the
template of an existing job cannot be changed.

What the properties do not promise, because the code does not:

- `OnMeansDeployed` and `OffMeansGone` speak of a *quiescent* operator: the spec is
  handled and no begun spec was replaced before it was. A spec edited while
  `whisk_create` is being retried leaves components of the first spec that no
  difference mentions. They leave out milvus and quota, which do not tell that they
  failed, and mongodb, whose patch reports under `ferretdb`. `OffMeansGone` also needs
  the owner to be found: `Edits` makes no call of `kube.get` fail.
- `NothingLeftBehind` leaves out the issuer and assumes no failing call and no
  restart: ingress deletion is best effort, and `whisk_delete` asks a map that a
  restart empties.
- `whisk_resume` raises for ever while `cm/config` has no apihost. Every spec of
  `Progress` enables OpenWhisk, but that does not suffice: `whisk_create` catches what
  the deployment of OpenWhisk and of its endpoint raises, the resource counts as handled,
  and nothing publishes an apihost until an edit of the endpoint does. `ResumeCompletes`
  leaves out exactly that (`unpublished`): the status calls the endpoint an error *and*
  no apihost was ever published.
- `Progress` has neither issuer nor minio ingress, whose deletion can be stuck
  (`StuckDeletion` shows the former).
- `VariablesAreBacked` speaks of the failures the operator is told of. After a silent
  one the variables of a database, of a Redis user or of a bucket may be saved, and the
  user be Ready, without what they name (`postgres_operator.py:187`, `redis.py:163`,
  `seaweedfs_util.py:89`); the property leaves out a service in which that happened.
- `EveryInstantIsServed` is not a promise to jobs that are late by more than one instant.
  The comment above `action_should_trigger` says "since the last execution", but the code
  looks one interval back from the actual start, and what lies between the window of the
  job before and that is missed. Both ends of a window count, which is the one instant of
  slack. `cron-init.yaml` bounds no delay. `Overslept` takes back what the model expects
  of such a job, and only that; what it still looks back on it has to serve.
- A workflow whose job was rendered with the apihost, and whose handler is called again
  after an edit of the Whisk resource lost it, fails at each call, for the template of a
  job cannot be changed: `WorkIsCompleted` leaves it out while that is so (`hopeless`).
- The edit of a seaweedfs ingress always ends in the status "error": the code reads a key
  of the data of MinIO that is not there (`seaweedfs_deploy.py:269`). It is modelled so in
  `WhiskOperator`; no spec of the runs asks for it.

### Fairness

- `WhiskOperator`: weak fairness of the four handlers and of the steps of the running
  one. kopf queues a handler for a resource with something to handle and calls a raised
  one again with a delay, for ever (no handler sets a retry limit), which justifies
  the former; the calls of a handler are subprocesses that end, which justifies the
  latter. `wait_for_pod_ready` waits for ever for a pod that never becomes ready: the
  models assume that pods do. Faults and restarts are bounded, that is, each call
  fails finitely often. No fairness is assumed of the user, the watcher or restarts.
- `Components`: the same of `Handler`, and of a call of the watcher that has begun.
- `UserDB`: the handlers of a user. None of the secrets action or wskadmin.
- `UserServices`: the handlers; `configure`, which is the rest of a `config_from_spec`
  or the resume that kopf calls after a restart; the quota checker, which a CronJob
  starts for ever.
- `Platform`: the operator's handlers; the clock and the jobs of the executor (a job is a
  pod of a CronJob that Kubernetes starts and restarts); the CouchDB job (a pod that runs
  until it exits); the handlers of a workflow and the resume after a restart. No fairness of
  users, administrators, GitHub, or of web requests.

## 4. What is proved

### `WhiskOperator_proofs`

It holds for every set of specs, hosts and configurations, every
runtime and every bound. It assumes only the three named assumptions of
`WhiskOperator`: specs are records of their type and differ from `NoSpec`
(`SpecsAssumption`), the model values for no host are not urls (`HostAssumption`),
and bounds are numbers (`BoundsAssumption`).

- `BaseInvariant`: `Base == TypeOK /\ Lifecycle /\ HandlerConfig` is inductive.
  `TypeOK` alone is not: that `endpoint.create` writes a url needs the map to have
  a spec while a handler of an edit runs (`HandlerConfig`), and this needs to
  know which handlers run in which phase of the resource (`Lifecycle`). One lemma
  for each handler; `CreateFacts` and `DeleteFacts` say once what a component
  call leaves alone. `TypeCorrect` follows.
- `ApihostIsCoherent`: an apihost in the map is the published one. Only the
  endpoint writes either, both at once; resume reads the annotation; nothing else
  sets one.
- `ConfigIsCoherent`: `CfgCoherent`, through `ConfigHistory`: while no spec has been
  begun since the last handled one, the map of a resumed process is that of the last
  handled spec.
- `PublishedApihostIsCurrent`: `PublishedApihost`, through `PublishedHistory`: the url
  in `cm/config` is that of the last handled spec or of the one begun since, and
  of the latter once its handler is past the endpoint. The step that matters is
  `EndpointChange`: an edit that does not ask for the endpoint has the url of the
  spec before it.

### `WhiskDeployment_proofs`

Under the same assumptions; where a theorem needs more, it is a hypothesis of the theorem.

- `EnabledComponentsStay`: `EnabledNotDeleted`. `EditInv` says that the handler of an
  edit works with the map `detect_component_changes` built from the last handled spec
  and its own, so that "delete" stands only for what the new spec lacks or what the
  diff restarts on purpose.
- `OnIsDeployed`: `OnMeansDeployed`. `DeployedInv` follows each component that is told
  of (`Told` leaves out those whose patch does not tell) through a creation and through
  edits that are repeated, replaced and reverted: a status that says "on" of a
  component that is not there belongs to an edit that is not handled, and the step
  that repairs it is still `left` or the spec was abandoned.
- `OffIsUndeployed`: `OffMeansGone`, as long as the owner can be read
  (`"owner" \notin FaultyHandlers`): `kube.get` answers None on any error, the handler
  then deletes by the recorded manifest, finds none and reports "off". `OwnedInv` says
  that what has been created with an owner is owned, `UndeployedInv` that what was
  switched off has been deleted with one.

### `WhiskDeletion_proofs`

- `DeletionIsComplete`: `NothingLeftBehind`, for an operator that is `Undisturbed` (no
  call fails, no restart, no change of the runtimes) and specs that are `Followable`.
  These hypotheses are what the code needs: `whisk_delete` asks the configuration map
  which components there are, an ingress has no owner, and the patcher has no step for
  the switches of OpenWhisk, the registry and seaweedfs; each of them dropped, TLC
  finds what stays behind. The run `Deletion` is an instance of them. `QuietInv` says
  that between handlers the map is that of the last handled spec, `IngressInv` that
  every ingress is of a component the map enables or the running edit has yet to delete.

### `UserDB_proofs`

It holds for every set of users, keys, variables and specs, and for any number of
invocations, failing requests and restarts. It assumes what `UserDB` says of its
constants: the specs and the variables that may be asked for have their type, the
model values are none of them, no user is a number (an invocation is), the bounds are
numbers.

- `DocumentInvariant`: `IInv` is inductive. That a handler writes a body of the right
  database needs it to work for a spec, which is so because kopf starts one only for
  a resource that is there (`HandlerInv`), while the resource may be edited and
  deleted before it writes: the task keeps to `handler[w].spec`, not to `spec[w]`.
  That an update brings nothing back needs `HasRead`: from its read to its write, the
  body it edits is one the document has had and the revision it will send is not 0,
  so CouchDB takes it only if there is a document. `update_doc` keeps this because it
  falls back on the revision it was given when its own read finds nothing.
- `DocumentsAreImplemented`: `ImplementsDocuments`. A step that is not a write leaves
  `store` and `past` alone (`Kept`); a write that is taken is `Render`, `Edit` or
  `Remove` (`StoresRefine`), by what `BodyWritten` says of its body. One lemma for
  each action (`FindInv`, `GetInv`, `WriteInv`, `HandlersInv`, ...).

### `UserSafety_proofs`

Every other safety property of `UserDB`, under the assumptions of `UserDB_proofs`.
`SafetyInvariant` proves `SafetyInv` inductive; the six theorems after it follow.

- `Reads` is what a task knows: as long as the document has the revision the task has
  seen, it has the body the task has read, and CouchDB takes what the task will write.
  A write that meets another revision marks the document (`overlap`), which is what
  the properties excuse.
- `Course` is how far a handler is: which requests it has behind it and which to come.
- `SecretsInv`, `BlockedInv`, `PasswordInv`, `AuthInv` and `GoneInv` are what the
  document says at that point of the handler; between handlers they give
  `AcknowledgedSecretsAreKept`, `BlockedUsersStayBlocked`, `HandledPasswordIsAccepted`,
  `RecordedAuthIsTheSubjects` and `DeletedUsersLeaveNothing`. `PasswordIsHandled`, for
  instance, is not inductive: the invariant has to say which of the fields of a spec
  that is being handled are written, and that a spec that was begun and abandoned may
  have left one of them.
- `DocumentsTypeCorrect`: `TypeOK`, if there is a user at all (`Login # {}`); without
  one the type of a task would have no member, not even the idle one.

### `UserServices_proofs`

Every safety property of `UserServices`, for any number of users, any specs, ingress,
components, quotas and bound on the events, from `ConfigurationAssumption`. Only
`TypesAreKept` assumes a user besides (`Login # {}`), because `NoJob` names one.

First the clients: from the calls that fail, `upto` is the set of calls a function
reaches and `effective` that of those with an effect, and a lemma for each function of `ServiceClients` says which parts its answer
leaves, which variables it records and when it raises (`ShapeCreated`, `GoneRemoved`,
`CreatedComplete`, ...); `Managed`, `DatabaseMade`, `RedisMade` and `BucketsMade` say what
a script is sure to have made when no statement of it failed silently. Then `IInv`, which `Begins` and `Step` show to be inductive (`Invariance`): the
types, and `Own(l)` for each user, the conjunction of

- `Course`: where the resource and its handler can be together, and that a handler is
  at a service it is to call;
- `Traces`: what is in a service has the shape that the deletion undoes, and is gone
  once the deletion has passed the service. It is `NothingOfTheDeleted` carried through
  creations that raise, die and are called again; the history excuses the rest;
- `Backed`: the variables the *running* handler has recorded lead to accounts too, not
  only the saved ones, except for a service in which a failure was silent; and whoever comes to the web content has made the bucket it is
  served from, as the stores stand before it in the order;
- `Complete`: the variables of a service are recorded once the handler has passed it and
  saved once it has passed the metadata, and the spec of the handler is that of the
  resource unless the resource was edited;
- `Marks`: the annotation, or the one the quota checker *is about to write*, is what the
  rights are; an account is only made for a resource that is not annotated.

A step of one user changes nothing of another's (`OtherSteps`), so each action is proved
for its own user, part by part. The handlers had a list of services left before, which
`SelectSeq` filtered, and the provers know nothing of `SelectSeq`; the place in the
order says the same.

### `Components_proofs`

`TypesAreKept`: `TypeOK`, for any scenarios (of their type), any bounds. That a handler
without a component has no call to make, and that `current` is a component, is the order
of the components: the least of a set of places is found by the library's theorem on
well-founded relations (`Least`, `FirstOne`). That *only what exists has an owner* takes
what each of the 45 functions of `ComponentCalls` asks for. A save replaces all that is
in CouchDB and may fail half-way, a store takes with it what is in it, and neither asks
who has an owner; so nothing that lies in a database or a store may be owned, which is
because an owner comes only with a kustomization. `Made` and `Unmade` say what the calls of
a creation and a deletion can be (`CreationIsOfItsOwn`, `DeletionIsOfItsOwn`, put together
from a lemma for each operator that combines calls), `Watched` what those of the watcher
are; a run that goes on has an end of those calls left (`CallsGoOn`), whatever fails.

An attempt at `OnIsComplete` by hand and with TLC found the invariant it needs: what a run
still has to bring and every manifest it relies on are there or before it in its calls.
On the way it showed that the property had been stated too strongly for four edits: MinIO
is switched off and its deletion raises, it is switched on again, and Milvus meets the
bucket that the first of them left. `partial` has had such stores since.

### `Platform_proofs`

Each theorem is about one part of the composition; a lemma for each part
(`LimitsSteps`, `AppSteps`, ...) says that the actions of the others leave its state
alone. It assumes what the modules say of their constants; `ScenariosAssumption` (the
scenarios have the users, limits and commands there are) and `NamespaceAssumption`
(the initial namespaces are a sequence) among it.

- `LimitsAreThoseGranted`: `LimitsAccumulate`. `ReadingsAgree`: an invocation of
  wskadmin sends a revision the document has had, and if it still has it, it says what
  was read. So a write that is taken adds to what was granted.
- `DeploymentIsInTime`: `DeploymentIsTimely`, for every deadline, pause and duration.
- `CongratulationIsTrue`: `ShownPasswordIsTheAccounts`. A visit that is not disturbed has
  no rival (`NoRivals`): another visit of its user has the same code, and only one of
  them gets past the exchange of it (`CodesAreUsed`); so the name that was free when it
  looked is free when it makes the account (`NameIsFree`). An attempt at this proof
  showed that the property had been stated too strongly for three visits: the page of a
  visit that *failed* can be loaded again while another installation is underway, and
  both find no account. `disturbed` has both since, and the scenario `Signup` the bounds
  in which it happens.
- `ReportedContentIsKept`: `ContentIsKept`, for all paths. Whoever moves an object copies
  it first (`MovesInOrder`), and as long as nobody got in the way the copy is the same
  (`CopyIsThere`). That a list of a bucket is a sequence needs it to be finite
  (`FewObjects`).
- `CompleteJobHasPrepared`: `CompleteIsPrepared`. While the result of an attempt is still
  good, what it puts on the volume is there or among the calls it has left
  (`DatabasesInv`); what an earlier attempt left can only help, because CouchDB refuses
  it and a refusal spoils the result.
- `HandledWorkflowHasItsJob`: `WorkflowsHaveTheirJobs`. `OtherJobIsGone`: once a handler has
  removed the other job it stays away until the handler ends, and no job of a creation
  outlives its resource; `HandlerIsOfTheResource`: kopf keeps the resource while a
  handler of it runs.
- `PartsKeepTheirTypes`: `TypeOK`, if there is at least one login. Four things are no
  matter of looking at the assignments. A pause of the retry is a number because `2^n` is
  the number of subsets of `1..n` (`PowersOfTwo`), which the library has proved; what is
  left of the preparation of CouchDB is an end of its calls (`EndIsSuffix`); a job of the
  executor is pending, running or done in an order (`InOrder`) that keeps what it covers
  within what it looks back on; and no job of a workflow is of a resource there never was
  (`JobsAreOfResources`).

### Only model-checked

- Every property with fairness, which is out of reach of the prover: `EditsAreHandled`,
  `ResumeCompletes`, `DeletionCompletes`, `HandlingCompletes`, `UsersAreHandled`,
  `QuotaIsEnforced`, `AutoexecIsRetired`, `WorkIsCompleted`.
- `OnIsComplete`, `OffIsGone` and `DeletedLeavesNothing` of `Components`, for the reasons
  given under `Components_proofs`.
- `EveryInstantIsServed`: its windows are arithmetic modulo a `Period` that is a
  constant, beyond the SMT solver; and it holds of regular schedules only.

## 5. Not modelled

- Text: templates, manifests, kustomize patches, the data that `util.py`,
  `enterprise_util.py` and `apihost_util.py` collect for them, the formats of requests and
  answers, logging. Of the detection of the cluster only that it may raise.
- `apihost_util.py` calculates the address of an ingress and then, whenever no host is
  configured, overwrites it with "miniops.me" (line 117), although the comment above
  says that the calculated address is used; the url is abstracted to host and tls.
- `mongodb_operator.py`, `mongodb_standalone.py`, `mongodb.py`, `milvus_operator.py`,
  `kvrocks.py`, `certmanager.py`, `ingress.py`: no handler calls them. `restart_sts`,
  `etcd.create_db_user` and `delete_db_user`, `s3_client.py` and `service_update`
  (its decorator is commented out) have no caller either.
- `flatdict.py` under `actions/`, a vendored library, and the copies of `common/` and
  `nuvolaris/` under `actions/devel/*`, which are those of `src/actions/common` and
  `src/nuvolaris`.
- The commands of wskadmin that only read (`list`, `whois`, `db get`, `syslog`), and
  `wskutil.py`, `wskprop.py` beneath them.
- The login and settings handlers of `main.py`: they configure kopf.

## 6. Plan

1. `KopfUtil`, `WhiskOperator`, their runs and first theorems. *Done.*
2. `UserDocuments`, `UserDB` and the refinement, with its proof. *Done.*
3. `ServiceClients`, `UserServices` with the quota checker. *Done.*
4. `ComponentCalls`, `Components`. *Done.*
5. `GithubApp`, `SystemActions`, `NamespaceLimits`, `WebActions`, `CronExecutor`,
   `DatabaseInit`, `Workflows` and `Platform`. *Done.*
6. Proofs of `WhiskOperator` (every safety property), of `UserDB` (every safety property
   and the refinement), of `UserServices` (every safety property), of the parts of
   `Platform` (every safety property but `EveryInstantIsServed`), and of the types of
   `Components`. *Done.*
7. Proofs of `OnIsComplete`, `OffIsGone` and `DeletedLeavesNothing`: *open*, see
   `Components_proofs` in section 4.
