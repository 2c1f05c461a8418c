----------------------------- MODULE Components -----------------------------
(***************************************************************************)
(* The components of a Whisk resource, created, edited and deleted by the  *)
(* handlers of the operator through the calls of ComponentCalls, while     *)
(* calls fail, the process dies, and the watcher of the runtimes deploys   *)
(* the preloader anew.  WhiskOperator has the handlers with a component's  *)
(* creation or deletion as one step; this module has what is in the step.  *)
(***************************************************************************)
EXTENDS ComponentCalls

CONSTANTS
  Scenarios,       \* the settings of the resource, one record each
  MaxEdits,        \* bound on the edits, and on the changes of the runtimes
  MaxDisturbances  \* bound on the calls that fail and the deaths of the process

CreateOrder ==
  <<"preloader", "couchdb", "redis", "registry", "issuer", "cron", "minio",
    "seaweedfs", "static", "postgres", "mongodb", "zookeeper", "kafka",
    "invoker", "openwhisk", "endpoint", "monitoring", "quota", "etcd", "milvus",
    "whisk_post_create">>

DeleteOrder ==
  <<"preloader", "openwhisk", "endpoint", "invoker", "issuer", "redis",
    "couchdb", "mongodb", "cron", "static", "minio", "seaweedfs", "postgres",
    "kafka", "zookeeper", "monitoring", "quota", "etcd", "milvus", "registry">>

Component == ToSet(CreateOrder)

\* The order of each handler; an update goes as the creation.
order_of(h) ==
  CASE h = "create" -> CreateOrder
    [] h = "update" -> <<"redeployment">> \o CreateOrder
    [] h = "delete" -> DeleteOrder

\* The places of the components in it.
place ==
  [h \in {"create", "update", "delete"} |->
     LET order == order_of(h)
     IN [c \in ToSet(order) |-> CHOOSE i \in DOMAIN order : order[i] = c]]

\* Mutant: what monitoring raises leaves whisk_create too.
Unguarded_monitoring ==
  {"minio", "seaweedfs", "static", "postgres", "mongodb", "monitoring",
   "whisk_post_create"}

\* The exceptions of these leave whisk_create, and kopf calls it again.
Unguarded ==
  {"minio", "seaweedfs", "static", "postgres", "mongodb", "whisk_post_create"}

Patchable ==
  {"postgres", "mongodb", "redis", "cron", "minio", "static", "quota", "etcd",
   "milvus"}

\* The edits that only deploy again, and what they do.
Updates == {"endpoint", "redeployment", "minio-ingresses", "seaweedfs-ingresses"}

\* Mutant: the metadata is not saved again after an edit.
update_queue_unsaved(u) == IF u = "endpoint" THEN {"issuer", "endpoint"} ELSE {u}

\* What an edit goes through: one of a component, or of OpenWhisk, ends with what
\* follows the creation.
update_queue(u) ==
  CASE u = "endpoint" -> {"issuer", "endpoint"}
    [] u \in Patchable \cup {"redeployment"} -> {u, "whisk_post_create"}
    [] OTHER -> {u}

\* The patch of these reports no errors.
Silent == {"cron", "quota"}

ASSUME BoundsAssumption == MaxEdits \in Nat /\ MaxDisturbances \in Nat
ASSUME ScenariosAssumption ==
  Scenarios \subseteq
    [on : SUBSET (Component \cup {"tls"}), options : SUBSET Option,
     ingress : {"nginx", "traefik", "openshift"}, edits : SUBSET (Patchable \cup Updates)]

----------------------------------------------------------------------------

enabled(c, s) ==
  CASE c \in {"preloader", "endpoint"} -> "openwhisk" \in s.on
    [] c = "issuer" -> "tls" \in s.on /\ s.ingress # "openshift"
    [] OTHER -> c \in s.on

\* PostgreSQL is created for FerretDB too, and deleted only for itself.
create_enabled(c, s) ==
  enabled(c, s) \/ (c = "postgres" /\ "mongodb" \in s.on)
                \/ c = "whisk_post_create"

create_calls(c, s) ==
  CASE c = "preloader" -> preloader_create
    [] c = "couchdb" -> couchdb_create
    [] c = "redis" -> redis_create
    [] c = "registry" -> registry_create(s)
    [] c = "issuer" -> issuer_create
    [] c = "cron" -> cron_create
    [] c = "minio" -> minio_create(s)
    [] c = "seaweedfs" -> seaweedfs_create(s)
    [] c = "static" -> static_create(s)
    [] c = "postgres" -> postgres_create(s)
    [] c = "mongodb" -> ferretdb_create
    [] c = "zookeeper" -> zookeeper_create
    [] c = "kafka" -> kafka_create
    [] c = "invoker" -> invoker_create
    [] c = "openwhisk" -> openwhisk_create(s)
    [] c = "endpoint" -> endpoint_create(s)
    [] c = "monitoring" -> monitoring_create(s)
    [] c = "quota" -> quota_create
    [] c = "etcd" -> etcd_create
    [] c = "milvus" -> milvus_create(s)
    [] c = "whisk_post_create" -> whisk_post_create
    [] c = "redeployment" -> redeploy_whisk(s)
    [] c = "minio-ingresses" -> create_minio_ingresses(s)
    \* seaweedfs.patch_ingresses reads the settings of minio.
    [] c = "seaweedfs-ingresses" -> Call("raise", <<"error", "key">>)

delete_calls(c, s, owner) ==
  CASE c = "preloader" -> preloader_delete(owner)
    [] c = "openwhisk" -> openwhisk_delete(s)
    [] c = "endpoint" -> endpoint_delete(s)
    [] c = "invoker" -> invoker_delete
    [] c = "issuer" -> issuer_delete(owner)
    [] c = "redis" -> redis_delete(owner)
    [] c = "couchdb" -> couchdb_delete
    [] c = "mongodb" -> ferretdb_delete(owner)
    [] c = "cron" -> cron_delete(owner)
    [] c = "static" -> static_delete(s, owner)
    [] c = "minio" -> minio_delete(s, owner)
    [] c = "seaweedfs" -> seaweedfs_delete(s, owner)
    [] c = "postgres" -> postgres_delete(s, owner)
    [] c = "kafka" -> kafka_delete
    [] c = "zookeeper" -> zookeeper_delete
    [] c = "monitoring" -> monitoring_delete(s, owner)
    [] c = "quota" -> quota_delete(owner)
    [] c = "etcd" -> etcd_delete(owner)
    [] c = "milvus" -> milvus_delete(s, owner)
    [] c = "registry" -> registry_delete(s, owner)

\* The calls that bring something about, and what they bring about.
Brings == {"deploy", "apply", "put", "make", "annotate"}

promise(c, s) ==
  {call.what : call \in {k \in ToSet(create_calls(c, s)) : k.do \in Brings}}

----------------------------------------------------------------------------

VARIABLES
  settings,      \* the specification of the resource, as the handlers read it
  present,       \* what exists in the cluster, in the stores and as annotations
  owned,         \* the manifests that belong to the resource
  memory,        \* of the process: the recorded and the generated manifests
  report,        \* what the last run for each component reported
  handler,       \* the handler kopf runs, or has to call again
  edited,        \* what the last edit was of
  queue,         \* the components the handler has still to do
  todo,          \* the calls left of the present component
  failed,        \* the blocks of the code that have failed for it
  watching,      \* the calls left of the watcher of the runtimes
  edits,         \* how many edits there were
  disturbances,  \* how many calls failed, and deaths of the process, there were
  promised,      \* history: what the last creation of each component was to bring
  clean,         \* history: the components whose last run nothing disturbed
  partial        \* history: the components of which a run was ever disturbed, and
                 \* the stores of which one failed

handling == <<handler, edited, queue, todo, failed>>
history == <<promised, clean, partial>>
vars == <<settings, present, owned, memory, report, handling, watching, edits,
          disturbances, history>>

NoMemory == [recorded |-> {}, built |-> {}, configured |-> TRUE]

Owner == "owner" \in settings.options

\* The component of q that the handler h comes to first.
first(h, q) == CHOOSE c \in q : \A d \in q \ {c} : place[h][c] < place[h][d]

current == first(handler, queue)

----------------------------------------------------------------------------
(* One call.                                                               *)

\* The call succeeds if nothing disturbs it.
works(call) ==
  CASE call.do \in {"put", "discard", "save"} -> <<"set", call.what[1]>> \in present
    [] call.do = "make" -> /\ <<"set", call.what[1]>> \in present
                           /\ call.what \notin present
    [] call.do \in {"look", "delete", "rollout"} -> call.what \in present
    [] call.do = "delete built" -> call.what \in memory.built \cap present
    [] call.do \in {"delete recorded", "delete once"} ->
         call.what \in memory.recorded => call.what \in present
    [] call.do = "add up" -> call.what[2] \notin failed
    [] call.do = "raise" -> FALSE
    [] OTHER -> TRUE

\* A store goes with what is in it.
removes(call) ==
  CASE call.do \in {"delete", "discard"} -> {call.what}
    [] \/ call.do = "delete built"
       \/ call.do \in {"delete recorded", "delete once"}
          /\ call.what \in memory.recorded ->
         {call.what} \cup {o \in present : o[1] = call.what[2]}
    [] call.do = "save" -> {o \in present : o[1] = call.what[1]}
    [] OTHER -> {}

\* A document has the annotations that could be read.
saves(call, unread) ==
  IF call.do = "save"
    THEN {call.what[1]} \X
         {o[2] : o \in {n \in present \ unread : n[1] = "note"
                                              /\ n[2] \in metadata_keys}}
    ELSE {}

\* Mutant: what is deleted still has its owner.
carry_out_owned(call) ==
  /\ present' = (present \ removes(call))
                  \cup (IF call.do \in Brings THEN {call.what} ELSE {})
                  \cup saves(call, {})
  /\ owned' = owned \cup (IF call.do = "deploy" /\ Owner THEN {call.what} ELSE {})

carry_out(call) ==
  /\ present' = (present \ removes(call))
                  \cup (IF call.do \in Brings THEN {call.what} ELSE {})
                  \cup saves(call, {})
  /\ owned' = (owned \ removes(call))
                \cup (IF call.do = "deploy" /\ Owner THEN {call.what} ELSE {})

\* The manifests are generated and recorded before they are applied.
remembered(call) ==
  LET records == call.do = "record" \/ (call.do = "deploy" /\ ~Owner)
      built == call.do \in {"record", "deploy"}
  IN [memory EXCEPT !.recorded = IF records THEN @ \cup {call.what} ELSE @,
                    !.built = IF built THEN @ \cup {call.what} ELSE @]

forgotten(call) ==
  IF call.do = "delete once"
    THEN [memory EXCEPT !.recorded = @ \ {call.what}] ELSE remembered(call)

\* What is left to do once the blocks in f have failed.
left(calls, f) ==
  LET open == {i \in DOMAIN calls : calls[i].in \cap f = {}}
  IN IF open = {} THEN <<>>
     ELSE SubSeq(calls, CHOOSE i \in open : \A j \in open : i <= j, Len(calls))

----------------------------------------------------------------------------
(* The handlers.                                                           *)

\* Waiting for kopf to call the handler (again).
Pending(h) == handler = h /\ queue = {}

creates(h, c, s) == h # "delete" /\ (h = "update" /\ c \in Patchable => enabled(c, s))

calls_of(h, c, s) ==
  IF creates(h, c, s) THEN create_calls(c, s)
  ELSE delete_calls(c, s, h # "delete" /\ "owner" \in s.options)

\* The handler h comes to the first of the components q, or is done; nothing has
\* disturbed those in calm.
GoesTo(h, q, calm) ==
  /\ queue' = q
  /\ failed' = {}
  /\ IF queue' = {}
       THEN /\ handler' = IF h = "delete" THEN "gone" ELSE "idle"
            /\ todo' = <<>>
            /\ clean' = calm
            /\ UNCHANGED promised
       ELSE LET c == first(h, queue')
            IN /\ handler' = h
               /\ todo' = calls_of(h, c, settings')
               /\ clean' = calm \cup {c}
               /\ promised' = IF c \in Component /\ creates(h, c, settings')
                               THEN [promised EXCEPT ![c] = promise(c, settings')]
                               ELSE promised

ApplyWhisk ==
  /\ handler = "absent"
  /\ handler' = "create"
  /\ UNCHANGED <<settings, present, owned, memory, report, edited, queue, todo,
                 failed, watching, edits, disturbances, history>>

whisk_create ==
  /\ Pending("create")
  /\ UNCHANGED settings
  /\ GoesTo("create", {c \in Component : create_enabled(c, settings)}, clean)
  /\ UNCHANGED <<present, owned, memory, report, edited, watching, edits,
                 disturbances, partial>>

\* One component is switched, an ingress of a store is asked for, whether or not
\* the store is there, the endpoint changes, or the configuration of OpenWhisk.
whisk_update ==
  /\ handler = "idle" /\ edits < MaxEdits
  /\ edits' = edits + 1
  /\ \E u \in settings.edits :
       /\ CASE u \in Patchable ->
                 /\ settings' = [settings EXCEPT !.on = IF u \in @ THEN @ \ {u}
                                                                  ELSE @ \cup {u}]
                 /\ Cardinality(Store \cap settings'.on) < 2
            [] u \in {"endpoint", "redeployment"} -> UNCHANGED settings
            [] OTHER ->
                 \E o \in {"s3-ingress", "console-ingress"} \ settings.options :
                   settings' = [settings EXCEPT !.options = @ \cup {o}]
       /\ edited' = u
       /\ GoesTo("update", update_queue(u), clean)
  /\ UNCHANGED <<present, owned, memory, report, watching, disturbances, partial>>

\* kopf calls it again when it has raised, or when the process has died.
whisk_update_again ==
  /\ Pending("update")
  /\ UNCHANGED settings
  /\ GoesTo("update", update_queue(edited), clean)
  /\ UNCHANGED <<present, owned, memory, report, edited, watching, edits,
                 disturbances, partial>>

DeleteWhisk ==
  /\ handler = "idle"
  /\ handler' = "delete"
  /\ UNCHANGED <<settings, present, owned, memory, report, edited, queue, todo,
                 failed, watching, edits, disturbances, history>>

\* A process that started since the deletion was asked for has no settings.
whisk_delete ==
  /\ Pending("delete")
  /\ UNCHANGED settings
  /\ GoesTo("delete",
            {c \in ToSet(DeleteOrder) : memory.configured /\ enabled(c, settings)}, clean)
  /\ UNCHANGED <<present, owned, memory, report, edited, watching, edits,
                 disturbances, partial>>

\* A call succeeds, or is refused for what the cluster is.
HandlerCall ==
  /\ todo # <<>>
  /\ LET call == Head(todo)
         blocks == IF works(call) THEN failed ELSE failed \cup {call.ends}
     IN /\ IF works(call)
             THEN carry_out(call) /\ memory' = forgotten(call)
             ELSE UNCHANGED <<present, owned>> /\ memory' = remembered(call)
        /\ failed' = blocks
        /\ todo' = IF "handler" \in blocks THEN <<>> ELSE left(Tail(todo), blocks)
  /\ UNCHANGED <<settings, report, handler, edited, queue, watching, edits,
                 disturbances, history>>

\* A call fails for another reason, before or after it is carried out.
CallDisturbed ==
  /\ todo # <<>> /\ Head(todo).do \notin {"add up", "record", "raise"}
  /\ disturbances < MaxDisturbances
  /\ disturbances' = disturbances + 1
  /\ LET call == Head(todo)
         blocks == failed \cup {call.ends}
     IN /\ memory' = remembered(call)
        /\ \/ UNCHANGED <<present, owned>>
           \/ works(call) /\ carry_out(call)
           \/ /\ call.do = "save" /\ works(call)
              /\ \E o \in present :
                   present' = (present \ removes(call)) \cup saves(call, {o})
              /\ UNCHANGED owned
        /\ failed' = blocks
        /\ todo' = IF "handler" \in blocks THEN <<>> ELSE left(Tail(todo), blocks)
  /\ clean' = clean \ {current}
  /\ partial' = partial \cup {current}
  /\ UNCHANGED <<settings, report, handler, edited, queue, watching, edits, promised>>

\* OpenWhisk and the endpoint stand in one try block of whisk_create.
tried_with(c) ==
  IF handler = "create" /\ c \in {"openwhisk", "endpoint"}
    THEN {"openwhisk", "endpoint"} ELSE {c}

\* An exception that nothing catches leaves the handler.
raises(c) ==
  \/ handler = "delete"
  \/ handler = "create" /\ c \in Unguarded
  \/ handler = "update" /\ c = "whisk_post_create"

\* What the status says of a component once its calls are made.
says(c) ==
  IF handler = "delete" \/ (handler = "update" /\ c = "whisk_post_create")
    THEN report[c]
  ELSE IF "handler" \in failed
    THEN IF handler = "update" /\ c \in Silent THEN report[c] ELSE "error"
    ELSE IF creates(handler, c, settings) THEN "on" ELSE "off"

ComponentDone ==
  /\ queue # {} /\ todo = <<>>
  /\ UNCHANGED settings
  /\ LET c == current
         raised == "handler" \in failed
         with == IF raised THEN tried_with(c) ELSE {c}
     IN /\ IF raised /\ raises(c)
             THEN /\ queue' = {} /\ failed' = {}
                  /\ UNCHANGED <<report, todo, handler, promised, clean>>
             ELSE /\ GoesTo(handler, queue \ with, clean)
                  /\ report' = [d \in Component |-> IF d \in with \cap Component
                                                      THEN says(c) ELSE report[d]]
        /\ partial' = partial \cup (IF raised THEN {c} \cap Store ELSE {})
  /\ UNCHANGED <<present, owned, memory, edited, watching, edits, disturbances>>

\* Kubernetes removes what belongs to a resource that is gone.
Collect ==
  /\ handler = "gone" /\ present \cap owned # {}
  /\ present' = {o \in present : o \notin owned /\ <<"set", o[1]>> \notin owned}
  /\ owned' = {}
  /\ UNCHANGED <<settings, memory, report, handling, watching, edits,
                 disturbances, history>>

----------------------------------------------------------------------------
(* The watcher of the runtimes runs beside the handlers.                   *)

runtimes_cm_event_watcher ==
  /\ watching = <<>> /\ handler \notin {"absent", "gone"} /\ edits < MaxEdits
  /\ edits' = edits + 1
  /\ watching' = watcher_calls(settings)
  /\ UNCHANGED <<settings, present, owned, memory, report, handling,
                 disturbances, history>>

\* What follows a call of the watcher that fails.
stopped(call) ==
  IF call.ends = "handler" THEN <<>> ELSE left(Tail(watching), {call.ends})

WatcherCall ==
  /\ watching # <<>>
  /\ LET call == Head(watching)
     IN IF works(call)
          THEN /\ carry_out(call) /\ memory' = forgotten(call)
               /\ watching' = Tail(watching)
          ELSE /\ UNCHANGED <<present, owned>> /\ memory' = remembered(call)
               /\ watching' = stopped(call)
  /\ UNCHANGED <<settings, report, handling, edits, disturbances, history>>

WatcherDisturbed ==
  /\ watching # <<>> /\ disturbances < MaxDisturbances
  /\ disturbances' = disturbances + 1
  /\ LET call == Head(watching)
     IN /\ \/ UNCHANGED <<present, owned>>
           \/ works(call) /\ carry_out(call)
        /\ memory' = remembered(call)
        /\ watching' = stopped(call)
  /\ clean' = clean \ {"preloader"}
  /\ partial' = partial \cup {"preloader"}
  /\ UNCHANGED <<settings, report, handling, edits, promised>>

----------------------------------------------------------------------------
(* The process, and the whole.                                             *)

\* The process dies.  kopf calls the handler it ran once more, and resumes a
\* resource that is not being deleted; only then are the settings read again.
Restart ==
  /\ handler \notin {"absent", "gone"} /\ disturbances < MaxDisturbances
  /\ disturbances' = disturbances + 1
  /\ memory' = [NoMemory EXCEPT !.configured = handler # "delete"]
  /\ watching' = <<>>
  /\ queue' = {} /\ todo' = <<>> /\ failed' = {}
  /\ clean' = clean \ queue
  /\ partial' = partial
       \cup (IF handler = "delete" THEN Component ELSE queue)
       \cup (IF watching = <<>> THEN {} ELSE {"preloader"})
       \cup {c \in Component : promised[c] \cap memory.recorded # {}}
       \cup {c \in {"quota"} : promised[c] \cap memory.built # {}}
  /\ UNCHANGED <<settings, present, owned, report, handler, edited, edits, promised>>

Init ==
  /\ settings \in Scenarios
  /\ present = {} /\ owned = {}
  /\ memory = NoMemory
  /\ report = [c \in Component |-> "none"]
  /\ handler = "absent" /\ edited = "none"
  /\ queue = {} /\ todo = <<>> /\ failed = {} /\ watching = <<>>
  /\ edits = 0 /\ disturbances = 0
  /\ promised = [c \in Component |-> {}]
  /\ clean = {} /\ partial = {}

Handler ==
  whisk_create \/ whisk_update_again \/ whisk_delete \/ HandlerCall \/ ComponentDone \/ Collect

Next ==
  \/ ApplyWhisk \/ DeleteWhisk \/ whisk_update \/ Handler
  \/ runtimes_cm_event_watcher \/ WatcherCall
  \/ CallDisturbed \/ WatcherDisturbed \/ Restart

\* A handler that runs goes on, and kopf calls one that raised again.
Spec == Init /\ [][Next]_vars /\ WF_vars(Handler) /\ WF_vars(WatcherCall)

----------------------------------------------------------------------------

\* The variables have their types, only what exists has an owner, and a handler
\* that has no component to do has no call to make.
TypeOK ==
  /\ settings.on \subseteq Component \cup {"tls"}
  /\ owned \subseteq present
  /\ report \in [Component -> {"none", "on", "off", "error"}]
  /\ handler \in {"absent", "create", "idle", "update", "delete", "gone"}
  /\ edited \in Patchable \cup Updates \cup {"none"}
  /\ queue \subseteq Component \cup Updates
  /\ queue = {} => todo = <<>>
  /\ edits \in 0 .. MaxEdits /\ disturbances \in 0 .. MaxDisturbances
  /\ clean \cup partial \subseteq Component \cup Updates

\* No run for the component is under way.
settled(c) ==
  /\ queue = {} \/ current # c
  /\ c = "preloader" => watching = <<>>

\* What a component has in a store belongs to the store.
own(c) == {o \in promised[c] : o[1] \in Store => o[1] = c}

\* A bucket that exists already is refused: what follows its making is never
\* done for MinIO, and for Milvus nothing is.  Neither the watcher nor the
\* patches of cron and quota report that they failed.
excused(c) ==
  IF c = "milvus" /\ Store \cap partial # {} THEN own(c)
  ELSE IF c \notin partial THEN {}
  ELSE CASE c = "minio" -> {<<"note", "s3_bucket_data">>,
                            <<"note", "s3_bucket_static">>, <<"minio", "content">>}
         [] c \in {"milvus", "preloader"} \cup Silent -> own(c)
         [] OTHER -> {}

\* A component the status calls "on" has all that its creation was to bring, each
\* manifest, ingress, account and annotation, when no call of its last run failed
\* for a reason of its own, however the runs before it ended.  And between the
\* handlers the metadata of nuvolaris has what was annotated, by whisk_create and
\* by the edits after it, which save it again.
OnIsComplete ==
  /\ handler \in {"create", "idle", "update"} =>
       \A c \in clean \cap Component :
         report[c] = "on" /\ settled(c) => own(c) \ excused(c) \subseteq present
  /\ /\ handler = "idle"
     /\ {"couchdb", "whisk_post_create"} \subseteq clean /\ report["couchdb"] = "on"
     => \A c \in clean \cap Component : \A o \in own(c) \ excused(c) :
          report[c] = "on" /\ o[1] = "note" /\ o[2] \in metadata_keys =>
            <<"couchdb", o[2]>> \in present

\* Annotations are never removed.
objects(c) == {o \in own(c) : o[1] # "note"}

\* An edit may have asked for the ingresses of a store that is off.
astray(c, o) ==
  /\ c \in Store /\ ~enabled(c, settings)
  /\ o[1] \in {"ingress", "route", "middleware"}
  /\ Updates \cap (clean \cup partial) # {}

\* A component that an edit switched off, and whose status says so, has nothing
\* left in the cluster of what its creation brought, ingresses included, when no
\* run for it was disturbed: the deletion of ingresses ends at the first one that
\* is missing, and what is deleted is what the process recorded.
OffIsGone ==
  handler \in {"create", "idle", "update"} =>
    \A c \in clean \cap Component :
      report[c] = "off" /\ settled(c) /\ c \notin partial =>
        \A o \in objects(c) \cap present : astray(c, o)

\* No one deletes the secrets of a registry elsewhere, an issuer or ingresses
\* that an edit of the endpoint deployed without TLS or OpenWhisk, or a
\* PostgreSQL without owner that only FerretDB asked for, or a component that an
\* edit switched off and failed to delete; and the watcher may deploy the
\* preloader when whisk_delete has deleted it.
abandoned(c) ==
  \/ report[c] = "error" /\ ~enabled(c, settings)
  \/ c = "registry" /\ "external-registry" \in settings.options
  \/ c \in {"issuer", "endpoint"} /\ ~enabled(c, settings)
  \/ c = "postgres" /\ ~enabled(c, settings) /\ ~Owner
  \/ c = "preloader" /\ edits > 0 /\ ~Owner

\* When whisk_delete has gone through and Kubernetes has collected what the
\* resource owned, nothing is left of a component whose runs were not disturbed.
DeletedLeavesNothing ==
  handler = "gone" /\ watching = <<>> /\ present \cap owned = {} =>
    \A c \in Component \ partial :
      ~abandoned(c) => \A o \in objects(c) \cap present : astray(c, o)

\* Without a bucket for the web content nothing can be served from it.  What
\* the creation of MinIO skips once the buckets exist includes its annotation.
bucketless ==
  /\ "static" \in settings.on
  /\ Store \cap settings.on = {} \/ "minio" \in partial

\* whisk_create comes to its end, though kopf has to call it again when a store, a
\* database or the web content raises: what a run before it made does not stop it.
CreationCompletes ==
  handler = "create" ~> handler # "create" \/ bucketless

\* The ingresses of the stores whose deletions are added up.
counted ==
  {call.what[2] : call \in {k \in UNION {ToSet(delete_calls(c, settings, FALSE)) :
                                           c \in Store \cap settings.on} :
                               k.do = "add up"}}

\* A run of whisk_delete that begins with a recorded manifest gone, or an ingress
\* whose answer is added up, or with Traefik, whose ingresses to the stores have no
\* middleware to delete, raises, and the runs after it raise again.
irretrievable ==
  /\ Pending("delete")
  /\ \/ ~(memory.recorded \subseteq present)
     \/ \E name \in counted :
          \/ settings.ingress = "traefik"
          \/ \A kind \in {"ingress", "route"} : <<kind, name>> \notin present

\* whisk_delete comes to its end, whatever creations and edits left, unless a run of
\* it begins with something gone that it has to find.
DeletionCompletes ==
  handler = "delete" ~> handler = "gone" \/ irretrievable

\* Neither handler is repeated for ever.
HandlingCompletes == CreationCompletes /\ DeletionCompletes
=============================================================================
