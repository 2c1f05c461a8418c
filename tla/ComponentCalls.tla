--------------------------- MODULE ComponentCalls ---------------------------
(***************************************************************************)
(* What the functions create and delete of each component ask of the       *)
(* cluster, call by call and in the order of the code: the manifests they  *)
(* apply, the ingresses, the accounts in a store, the annotations of       *)
(* cm/config.  A call says what a failure of it ends: the handler, or the  *)
(* block of the code that catches the exception or tests the answer.       *)
(***************************************************************************)
EXTENDS SequencesExt

Store == {"minio", "seaweedfs"}

Option == {"owner", "backup", "s3-ingress", "console-ingress",
           "registry-ingress", "external-registry", "alert-manager", "www"}

----------------------------------------------------------------------------
(* Calls and the blocks they stand in.                                     *)

Call(do, what) == <<[do |-> do, what |-> what, in |-> {}, ends |-> "handler"]>>

\* A kustomization of the directory deploy/x, applied as a whole.
Deploy(x) == Call("deploy", <<"set", x>>)
Apply(kind, x) == Call("apply", <<kind, x>>)
Delete(kind, x) == Call("delete", <<kind, x>>)
Put(store, x) == Call("put", <<store, x>>)        \* repeatable
Make(store, x) == Call("make", <<store, x>>)      \* refused when x exists
Discard(store, x) == Call("discard", <<store, x>>)
Note(x) == Call("annotate", <<"note", x>>)
Look(kind, x) == Call("look", <<kind, x>>)
Rollout(x) == Call("rollout", <<"set", x>>)

\* By owner the kustomization is built again, otherwise the recorded one is used.
Undeploy(x, owner) ==
  Call(IF owner THEN "delete built" ELSE "delete recorded", <<"set", x>>)

Within(b, calls) ==
  [i \in DOMAIN calls |-> [calls[i] EXCEPT !.in = @ \cup {b}]]

Caught(b, calls) ==
  [i \in DOMAIN calls |->
     [calls[i] EXCEPT !.ends = IF @ = "handler" THEN b ELSE @]]

Try(b, calls) == Within(b, Caught(b, calls))

\* The calls that follow the test of the answer of the first ones.
If(b, first, then) == Try(b, first) \o Within(b, then)

\* The answer is not looked at.
Unchecked(calls) == Caught("nothing", calls)

\* Adding the answer of a block up raises when it is None.
Add(block) == Call("add up", <<"answer", block>>)

When(condition, calls) == IF condition THEN calls ELSE <<>>

----------------------------------------------------------------------------
(* Ingresses, which are routes on OpenShift.  A Traefik middleware goes     *)
(* with those that rewrite the path.                                       *)

OnOpenShift(s) == s.ingress = "openshift"

route(name) == Apply("route", name)

middleware(s, name) ==
  When(s.ingress = "traefik", Apply("middleware", name))

ingress(s, name) == middleware(s, name) \o Apply("ingress", name)

delete_middleware(s, name) ==
  When(s.ingress = "traefik", Delete("middleware", name))

\* The middleware is deleted whether or not the ingress needed one.
delete_by_kind(s, name) ==
  IF OnOpenShift(s) THEN Delete("route", name)
  ELSE Delete("ingress", name) \o delete_middleware(s, name)

DeleteEach(kind, names) == [i \in DOMAIN names |-> Delete(kind, names[i])[1]]

\* All the middlewares, and then all the ingresses, of some names.
delete_in_groups(s, names) ==
  When(s.ingress = "traefik", DeleteEach("middleware", names))
    \o DeleteEach(IF OnOpenShift(s) THEN "route" ELSE "ingress", names)

----------------------------------------------------------------------------
(* The endpoint of the APIs.                                               *)

Www(s, then) == When("www" \in s.options, then)

deploy_info_route == route("apihost-info")

deploy_info_ingress(s) == ingress(s, "apihost-info")

deploy_api_routes(s) ==
  route("apihost") \o route("apihost-my") \o Www(s, route("apihost-www-my"))

deploy_api_ingresses(s) ==
  middleware(s, "apihost") \o middleware(s, "apihost-my")
    \o Apply("ingress", "apihost") \o Apply("ingress", "apihost-my")
    \o Www(s, ingress(s, "apihost-www-my"))

endpoint_create(s) ==
  Note("apihost")
    \o IF OnOpenShift(s) THEN deploy_info_route \o deploy_api_routes(s)
       ELSE deploy_info_ingress(s) \o deploy_api_ingresses(s)

endpoint_delete(s) ==
  Try("endpoint",
      delete_in_groups(s, <<"apihost", "apihost-my", "apihost-info">>
                            \o Www(s, <<"apihost-www-my">>)))

----------------------------------------------------------------------------
(* The ingresses of the static content and of the stores.                  *)

deploy_content(s, name) ==
  IF OnOpenShift(s) THEN route(name) ELSE ingress(s, name)

create_nuv_static_ingress(s) ==
  Look("note", "s3_bucket_static")
    \o deploy_content(s, "static") \o Www(s, deploy_content(s, "www-static"))

\* Mutant: the www ingress is forgotten.
delete_nuv_ingresses_no_www(s) == Try("static", delete_in_groups(s, <<"static">>))

delete_nuv_ingresses(s) ==
  Try("static", delete_in_groups(s, <<"static">> \o Www(s, <<"www-static">>)))

deploy_minio_upload_route == route("minio-upload")

deploy_minio_upload_ingress(s) == ingress(s, "minio-upload")

create_api_uploader_endpoint(s) ==
  IF OnOpenShift(s) THEN deploy_minio_upload_route
  ELSE deploy_minio_upload_ingress(s)

deploy_minio_route(name) == route(name)

\* These do not rewrite the path.
deploy_minio_ingress(name) == Apply("ingress", name)

expose_minio(s, name) ==
  IF OnOpenShift(s) THEN deploy_minio_route(name) ELSE deploy_minio_ingress(name)

create_minio_ingresses(s) ==
  create_api_uploader_endpoint(s)
    \o When("s3-ingress" \in s.options,
            expose_minio(s, "minio-s3") \o Note("s3_api_url"))
    \o When("console-ingress" \in s.options,
            expose_minio(s, "minio-console") \o Note("s3_console_url"))

delete_minio_ingress(s, name) == Try(name, delete_by_kind(s, name))

delete_minio_ingresses(s) ==
  delete_minio_ingress(s, "minio-upload")
    \o When("s3-ingress" \in s.options,
            delete_minio_ingress(s, "minio-s3")
              \o Add("minio-upload") \o Add("minio-s3"))
    \o When("console-ingress" \in s.options,
            delete_minio_ingress(s, "minio-console")
              \o Add("minio-upload") \o Add("minio-console"))

deploy_seaweedfs_route(name) == route(name)

deploy_seaweedfs_ingress(name) == Apply("ingress", name)

expose_seaweedfs(s, name) ==
  IF OnOpenShift(s) THEN deploy_seaweedfs_route(name)
  ELSE deploy_seaweedfs_ingress(name)

create_seaweedfs_ingresses(s) ==
  When("s3-ingress" \in s.options,
       expose_seaweedfs(s, "seaweedfs-s3") \o Note("s3_api_url"))
    \o When("console-ingress" \in s.options,
            expose_seaweedfs(s, "seaweedfs-filer") \o Note("s3_console_url"))

delete_seaweedfs_ingress(s, name) == Try(name, delete_by_kind(s, name))

delete_seaweedfs_ingresses(s) ==
  When("s3-ingress" \in s.options,
       delete_seaweedfs_ingress(s, "seaweedfs-s3") \o Add("seaweedfs-s3"))
    \o When("console-ingress" \in s.options,
            delete_seaweedfs_ingress(s, "seaweedfs-filer")
              \o Add("seaweedfs-filer"))

deploy_registry_route == route("registry")

deploy_registry_ingress == Apply("ingress", "registry")

create_registry_ingress(s) ==
  IF OnOpenShift(s) THEN deploy_registry_route ELSE deploy_registry_ingress

\* Mutant: nothing catches what the deletion of the ingress raises.
delete_registry_ingress_unguarded(s) == delete_by_kind(s, "registry")

delete_registry_ingress(s) == Try("registry", delete_by_kind(s, "registry"))

----------------------------------------------------------------------------
(* The object stores and what is served from them.                         *)

minio_annotate == Try("service", Look("set", "minio") \o Note("s3_host"))

minio_create_nuv_storage ==
  If("user", Put("minio", "user"),
     minio_annotate
       \o If("data", Make("minio", "nuvolaris-data"), Note("s3_bucket_data"))
       \o If("web", Make("minio", "nuvolaris-web"),
             Note("s3_bucket_static") \o Unchecked(Put("minio", "content")))
       \o Unchecked(Put("minio", "policy")))

minio_create(s) ==
  Deploy("minio") \o minio_create_nuv_storage \o create_minio_ingresses(s)

minio_delete(s, owner) == delete_minio_ingresses(s) \o Undeploy("minio", owner)

seaweedfs_annotate ==
  Try("service", Look("set", "seaweedfs") \o Note("s3_host"))

seaweedfs_create_nuv_storage ==
  Put("seaweedfs", "nuvolaris-data") \o Note("s3_bucket_data")
    \o Put("seaweedfs", "anonymous")
    \o Put("seaweedfs", "nuvolaris-web") \o Put("seaweedfs", "public")
    \o Note("s3_bucket_static")
    \o Put("seaweedfs", "content")
    \o Put("seaweedfs", "user")
    \o seaweedfs_annotate

seaweedfs_create(s) ==
  Deploy("seaweedfs") \o create_seaweedfs_ingresses(s)
    \o seaweedfs_create_nuv_storage

seaweedfs_delete(s, owner) ==
  delete_seaweedfs_ingresses(s) \o Undeploy("seaweedfs", owner)

static_create(s) == Deploy("static") \o create_nuv_static_ingress(s)

static_delete(s, owner) == delete_nuv_ingresses(s) \o Undeploy("static", owner)

create_minio_milvus_account ==
  Put("minio", "milvus") \o Make("minio", "milvus-bucket")
    \o Put("minio", "milvus-policy")

create_seaweedfs_milvus_account ==
  Put("seaweedfs", "milvus-bucket") \o Put("seaweedfs", "milvus")

\* Without a store there are no accounts, and create then does nothing.
create_milvus_accounts(s) ==
  IF "minio" \in s.on THEN create_minio_milvus_account
  ELSE create_seaweedfs_milvus_account

milvus_annotate == Try("service", Look("set", "milvus") \o Note("milvus"))

create_default_milvus_database ==
  Make("milvus", "user") \o Make("milvus", "database") \o Make("milvus", "role")

milvus_create(s) ==
  When(Store \cap s.on # {},
       If("accounts", create_milvus_accounts(s),
          Deploy("milvus")
            \o If("database", create_default_milvus_database, milvus_annotate)))

\* The policy is kept, and the first answer is not tested before the second call.
delete_minio_milvus_account ==
  Unchecked(Discard("minio", "milvus") \o Discard("minio", "milvus-bucket"))

delete_seaweedfs_milvus_account ==
  Try("accounts",
      Discard("seaweedfs", "milvus") \o Discard("seaweedfs", "milvus-bucket"))

delete_milvus_accounts(s) ==
  IF "minio" \in s.on THEN delete_minio_milvus_account
  ELSE When("seaweedfs" \in s.on, delete_seaweedfs_milvus_account)

milvus_delete(s, owner) == Undeploy("milvus", owner) \o delete_milvus_accounts(s)

----------------------------------------------------------------------------
(* The other services.                                                     *)

create_nuvolaris_db_user ==
  Try("user", Put("redis", "user") \o Look("set", "redis") \o Note("redis"))

\* Mutant: the user is made before Redis is there.
redis_create_user_first == create_nuvolaris_db_user \o Deploy("redis")

redis_create == Deploy("redis") \o create_nuvolaris_db_user

redis_delete(owner) == Undeploy("redis", owner)

update_system_cm_for_pdb ==
  Try("service", Look("set", "postgres") \o Note("postgres"))

postgres_create(s) ==
  Deploy("postgres-operator") \o Deploy("postgres")
    \o When("backup" \in s.options, Deploy("postgres-backup"))
    \o update_system_cm_for_pdb

\* Mutant: the backup is forgotten.
postgres_delete_no_backup(s, owner) ==
  Undeploy("postgres", owner) \o Undeploy("postgres-operator", owner)

\* By owner the backup is deleted even when there is none.
postgres_delete(s, owner) ==
  Undeploy("postgres-backup", owner) \o Undeploy("postgres", owner)
    \o Undeploy("postgres-operator", owner)

\* The address of PostgreSQL, or none.
enrich_ferretdb_data == Unchecked(Look("set", "postgres"))

update_system_cm_for_mdb ==
  Try("service", Look("set", "ferretdb") \o Note("mongodb_url"))

ferretdb_create ==
  enrich_ferretdb_data \o Deploy("ferretdb") \o update_system_cm_for_mdb

ferretdb_delete(owner) == Undeploy("ferretdb", owner)

annotate_registry_metadata == Try("notes", Note("registry"))

\* A registry elsewhere needs two secrets, which have no owner.
create_external_registry ==
  Apply("secret", "registry-auth") \o Apply("secret", "registry-pull")
    \o annotate_registry_metadata

create_internal_registry(s) ==
  Deploy("registry") \o annotate_registry_metadata
    \o When("registry-ingress" \in s.options, create_registry_ingress(s))

registry_create(s) ==
  IF "external-registry" \in s.options THEN create_external_registry
  ELSE create_internal_registry(s)

registry_delete(s, owner) ==
  delete_registry_ingress(s) \o Undeploy("registry", owner)

\* A variable is set only on the way of the alert manager and read on both.
monitoring_create(s) ==
  IF "alert-manager" \in s.options
    THEN Deploy("alert-manager") \o Deploy("monitoring")
    ELSE Call("raise", <<"error", "data">>)

monitoring_delete(s, owner) ==
  Undeploy("monitoring", owner)
    \o When(~owner \/ "alert-manager" \in s.options,
            Undeploy("alert-manager", owner))

quota_create == Try("quota", Deploy("quota"))

quota_delete(owner) == Try("quota", Undeploy("quota", owner))

cron_create == Deploy("cron")
cron_delete(owner) == Undeploy("cron", owner)

etcd_create == Deploy("etcd")
etcd_delete(owner) == Undeploy("etcd", owner)

\* The issuer belongs to no namespace and has no owner; what to delete is recorded.
issuer_create == Call("record", <<"set", "issuer">>) \o Apply("set", "issuer")
issuer_delete(owner) == Undeploy("issuer", owner)

----------------------------------------------------------------------------
(* OpenWhisk and what it needs.  The last two are deleted by what is        *)
(* recorded only, and the specification is forgotten once it is deleted.   *)

preloader_create == Deploy("preloader")
preloader_delete(owner) == Undeploy("preloader", owner)

couchdb_create == Deploy("couchdb")
couchdb_delete == Undeploy("couchdb", FALSE)

zookeeper_create == Deploy("zookeeper")
zookeeper_delete == Undeploy("zookeeper", FALSE)

kafka_create == Deploy("kafka")
kafka_delete == Undeploy("kafka", FALSE)

invoker_create == Deploy("invoker")
invoker_delete == Call("delete once", <<"set", "invoker">>)

\* The controller runs the actions itself, or leaves them to the invoker.
standalone_create == Deploy("controller")
enterprise_create == Deploy("enterprise-controller")

openwhisk_create(s) ==
  IF "invoker" \in s.on THEN enterprise_create ELSE standalone_create

standalone_delete == Call("delete once", <<"set", "controller">>)
enterprise_delete == Call("delete once", <<"set", "enterprise-controller">>)

openwhisk_delete(s) ==
  IF "invoker" \in s.on THEN enterprise_delete ELSE standalone_delete

controller(s) ==
  IF "invoker" \in s.on THEN "enterprise-controller" ELSE "controller"

redeploy_invoker == Try("invoker", invoker_create \o Rollout("invoker"))

redeploy_controller(s) ==
  Try("controller", openwhisk_create(s) \o Rollout(controller(s)))

redeploy_whisk(s) ==
  When("invoker" \in s.on, redeploy_invoker) \o redeploy_controller(s)

restart_whisk(s) ==
  When("invoker" \in s.on, Rollout("invoker")) \o Rollout(controller(s))

patch_preloader(owner) ==
  Try("preloader", preloader_delete(owner) \o preloader_create)

----------------------------------------------------------------------------
(* What follows the creation of the components.                            *)

\* The annotations that are copied into the metadata of nuvolaris.
metadata_keys ==
  {"mongodb_url", "postgres", "redis", "s3_host", "s3_api_url", "s3_console_url",
   "s3_bucket_static", "s3_bucket_data", "milvus"}

\* One document of CouchDB, replaced as a whole.
save_nuvolaris_metadata == Call("save", <<"couchdb", "metadata">>)

update_nuvolaris_metadata == Try("metadata", save_nuvolaris_metadata)

annotate_operator_components_version == Try("versions", Note("versions"))

\* The system actions are deployed in between.
whisk_post_create ==
  update_nuvolaris_metadata \o annotate_operator_components_version
    \o Note("system_action_status")

\* What the watcher of the runtimes does.
watcher_calls(s) ==
  patch_preloader("owner" \in s.options)
    \o When("openwhisk" \in s.on, restart_whisk(s))
=============================================================================
