---------------------------- MODULE WhiskOperator ----------------------------
(***************************************************************************)
(* The lifecycle of the Whisk resource: the kopf handlers of               *)
(* nuvolaris/main.py, the patcher, and what they leave in the cluster.     *)
(*                                                                         *)
(* Every handler is a sequence of calls on component modules, each of      *)
(* which may raise.  kopf (not part of the repository) runs one handler of *)
(* the resource at a time, runs a handler again when it raised, and        *)
(* remembers the spec of the last handled edit; the cluster collects owned *)
(* objects when the resource is gone.  The process may die between any two *)
(* steps and then loses the configuration map of nuvolaris/config.py.      *)
(***************************************************************************)
EXTENDS KopfUtil, FiniteSets

CONSTANTS
  Specs,              \* the specs a user may apply
  Runtime,            \* the detected kind of cluster (nuvolaris.kube)
  FaultyHandlers,     \* bound: the handlers whose calls may fail
  MaxEdits,           \* bound: specs applied
  MaxFaults,          \* bound: failing calls
  MaxRestarts,        \* bound: restarts of the operator
  MaxRuntimeChanges,  \* bound: edits of cm/openwhisk-runtimes
  NoSpec, NoHost, Pending  \* model values

ASSUME SpecsAssumption == Specs \subseteq SpecType /\ NoSpec \notin Specs
ASSUME HostAssumption ==
  NoHost # Pending /\ {NoHost, Pending} \cap (Host \X BOOLEAN) = {}
ASSUME BoundsAssumption ==
  {MaxEdits, MaxFaults, MaxRestarts, MaxRuntimeChanges} \subseteq Nat

VARIABLES
  wsk,         \* the resource: "absent", "live" or "deleting"
  spec,        \* its spec
  lastHandled, \* the spec of the last completed create or update (kopf)
  attempt,     \* history: the spec an unfinished handler has begun to apply
  abandoned,   \* history: such a spec was replaced before it was handled
  status,      \* status.whisk_create, as the handlers write it
  reported,    \* whether whisk_create has ever returned that status
  handler,     \* the running handler and what it has left to do
  watcher,     \* the event handler of cm/openwhisk-runtimes
  cfg,         \* config._config, shared by every thread of the process
  resumed,     \* whether whisk_resume is done in this process
  objects,     \* what kubectl apply left of each component
  ingresses,   \* ingresses and routes, which never have an owner reference
  annotation,  \* the apihost annotation of cm/config
  edits, faults, restarts, runtimeChanges

crVars == <<wsk, spec, lastHandled, attempt, abandoned, status, reported>>
processVars == <<handler, watcher, cfg, resumed>>
clusterVars == <<objects, ingresses, annotation>>
bounds == <<edits, faults, restarts, runtimeChanges>>
vars == <<crVars, processVars, clusterVars, bounds>>

----------------------------------------------------------------------------
(* The steps of whisk_create, of whisk_delete and of patch, in order.      *)

CreateOrder ==
  <<"preloader", "couchdb", "redis", "registry", "issuer", "cron", "minio",
    "seaweedfs", "static", "postgres", "mongodb", "zookeeper", "kafka",
    "invoker", "openwhisk", "endpoint", "monitoring", "quota", "etcd",
    "milvus">>

DeleteOrder ==
  <<"preloader", "openwhisk", "endpoint", "invoker", "issuer", "redis",
    "couchdb", "mongodb", "cron", "static", "minio", "seaweedfs", "postgres",
    "kafka", "zookeeper", "monitoring", "quota", "etcd", "milvus",
    "registry">>

PatchOrder ==
  <<"postgres", "mongodb", "redis", "cron", "minio", "static", "quota",
    "etcd", "milvus", "registry", "invoker", "openwhisk", "issuer",
    "endpoint", "minio-ingresses", "seaweedfs-ingresses">>

Step == { CreateOrder[i] : i \in DOMAIN CreateOrder }
PatchStep == { PatchOrder[i] : i \in DOMAIN PatchOrder }

\* The step of left that comes first in the order of the code.
IsNext(order, left, k) ==
  /\ k \in left
  /\ \E i \in DOMAIN order :
       order[i] = k /\ \A h \in 1 .. i - 1 : order[h] \notin left

\* whisk_create stops at the first of these that raises; the others are
\* each in a try of their own and end up as "error" in the status.
Unguarded == {"minio", "seaweedfs", "static", "postgres", "mongodb"}

\* Components the patcher switches on and off.
Patched ==
  {"postgres", "mongodb", "redis", "cron", "minio", "static", "quota",
   "etcd", "milvus"}

\* Components that also deploy ingresses, by name and without an owner.
WithIngress == {"static", "minio", "seaweedfs", "registry", "endpoint"}

configured(c) == cfg.spec # NoSpec /\ c \in cfg.spec.components

\* Mutant: the switch of OpenWhisk does not bring its endpoint.
CreateWanted_alone(components, k) == k \in components

CreateWanted(components, k) ==
  CASE k \in {"preloader", "endpoint"} -> "openwhisk" \in components
    [] k = "issuer" -> "tls" \in components
                       /\ Runtime \notin {"kind", "openshift"}
    [] k = "postgres" -> components \cap {"postgres", "mongodb"} # {}
    [] OTHER -> k \in components

\* Mutant: nor take it away.
DeleteWanted_alone(k) == configured(k)

DeleteWanted(k) ==
  CASE k \in {"preloader", "endpoint"} -> configured("openwhisk")
    [] k = "issuer" -> configured("tls") /\ Runtime # "kind"
    [] OTHER -> configured(k)

\* The apihost url the endpoint publishes follows the host and tls.
apihost_of(s) == <<s.apihost, "tls" \in s.components>>

Code == {"?", "on", "off", "updated", "error"}
StatusKey == Step \union {"ferretdb", "minio-ingresses", "seaweedfs-ingresses"}
\* ferretdb.patch reports under a key of its own.
status_key(k) == IF k = "mongodb" THEN "ferretdb" ELSE k

Idle ==
  [kind |-> "idle", left |-> {}, todo |-> [k \in WhatKey |-> "none"],
   owner |-> FALSE, of |-> NoSpec, report |-> [k \in Step |-> "?"]]

NoConfig == [spec |-> NoSpec, apihost |-> NoHost, held |-> {}]
Unwatched == [at |-> "idle", owner |-> FALSE, stale |-> FALSE]
NoStatus == [k \in StatusKey |-> "?"]

----------------------------------------------------------------------------
(* Faults.                                                                 *)

NoFault == UNCHANGED faults
Fault(kind) ==
  /\ kind \in FaultyHandlers
  /\ faults < MaxFaults
  /\ faults' = faults + 1

(* kube.get answers None on any error: the handler then goes on without an *)
(* owner.                                                                  *)
get_owner(found) ==
  \/ found /\ wsk # "absent" /\ NoFault
  \/ ~found /\ wsk = "absent" /\ NoFault
  \/ ~found /\ wsk # "absent" /\ Fault("owner")

(* How far a create goes: it raises before the spec is built, in kubectl   *)
(* apply, or after it; milvus also gives up without raising when its       *)
(* accounts cannot be made.                                                *)
Outcome == {"ok", "build", "apply", "late", "refused"}

outcome(kind, k, o) ==
  \/ o = "ok" /\ NoFault
  \/ o \in {"build", "apply", "late"} /\ Fault(kind)
  \/ o = "refused" /\ k = "milvus" /\ Fault(kind)

\* Mutant: a failing kubectl apply is not raised.
create_raises_not_on_apply(k, o) == o \in {"build", "late"} /\ k # "quota"

\* quota_checker_job catches every exception of its own.
create_raises(k, o) == o \in {"build", "apply", "late"} /\ k # "quota"

(* X.create(owner): with an owner the objects carry a reference to it,     *)
(* without one their spec is kept in the configuration map.  The issuer is *)
(* cluster wide: always kept, never owned.  The endpoint is ingresses and  *)
(* the apihost, written to cm/config and then to the map.                  *)
create(k, owner, o) ==
  LET applied == o \in {"ok", "late"}
      kept == k # "endpoint" /\ o \in {"ok", "late", "apply"}
                             /\ (~owner \/ k = "issuer")
  IN /\ objects' =
          IF applied /\ k # "endpoint"
          THEN [objects EXCEPT ![k] =
                  IF owner /\ k # "issuer" THEN "owned" ELSE "unowned"]
          ELSE objects
     /\ ingresses' =
          IF o = "ok" /\ k \in WithIngress THEN ingresses \union {k}
                                           ELSE ingresses
     /\ annotation' =
          IF applied /\ k = "endpoint" THEN apihost_of(cfg.spec) ELSE annotation
     /\ cfg' = [cfg EXCEPT
          !.held = IF kept THEN @ \union {k} ELSE @,
          !.apihost = IF applied /\ k = "endpoint" THEN apihost_of(cfg.spec)
                                                   ELSE @]

\* Mutant: there is no delete_by_owner.
deletes_objects_by_spec(k, owner) == k # "endpoint" /\ k \in cfg.held

\* Mutant: delete_by_spec does not look whether there is a spec.
deletes_objects_always(k, owner) == k # "endpoint"

(* X.delete(owner): the ingresses go first, by name, and a failure there   *)
(* is ignored; then the objects: with an owner those of the kustomization, *)
(* without one those of the spec in the map, if there is one.  kubectl     *)
(* delete raises when there is nothing to delete, and so does minio when   *)
(* an ingress that the spec enables is no longer there.                    *)
deletes_objects(k, owner) == k # "endpoint" /\ (owner \/ k \in cfg.held)

DeleteOutcome == {"ok", "build", "left", "apply", "late"}

delete_outcome(kind, k, owner, o) ==
  \/ o = "ok" /\ NoFault
  \/ o \in {"build", "left"} /\ k \in WithIngress /\ Fault(kind)
  \/ o = "apply" /\ deletes_objects(k, owner) /\ Fault(kind)
  \/ o = "late" /\ k = "openwhisk" /\ Fault(kind)

delete_stuck(k, owner, o) ==
  \/ k = "minio" /\ (o = "left" \/ "minio" \notin ingresses)
                 /\ "minio" \in cfg.spec.ingress
  \/ deletes_objects(k, owner) /\ objects[k] = "none"

delete_raises(k, owner, o) ==
  k # "quota" /\ (o \notin {"ok", "left"} \/ delete_stuck(k, owner, o))

delete(k, owner, o) ==
  LET gone == /\ deletes_objects(k, owner)
              /\ o \in {"ok", "left", "late"}
              /\ ~delete_stuck(k, owner, o)
  IN /\ ingresses' = IF o \in {"build", "left"} THEN ingresses ELSE ingresses \ {k}
     /\ objects' = IF gone THEN [objects EXCEPT ![k] = "none"] ELSE objects
     /\ cfg' = IF gone /\ k \in {"openwhisk", "invoker"}
               THEN [cfg EXCEPT !.held = @ \ {k}] ELSE cfg
     /\ UNCHANGED annotation

----------------------------------------------------------------------------
(* The user.                                                               *)

ApplyWhisk(s) ==
  /\ edits < MaxEdits
  /\ edits' = edits + 1
  /\ \/ /\ wsk = "absent"
        /\ wsk' = "live"
        /\ resumed' = TRUE        \* not listed when the process started
     \/ wsk = "live" /\ s # spec /\ UNCHANGED <<wsk, resumed>>
  /\ spec' = s
  /\ UNCHANGED <<lastHandled, attempt, abandoned, status, reported, handler,
                 watcher, cfg, clusterVars, faults, restarts, runtimeChanges>>

DeleteWhisk ==
  /\ wsk = "live"
  /\ wsk' = "deleting"
  /\ UNCHANGED <<spec, lastHandled, attempt, abandoned, status, reported,
                 processVars, clusterVars, bounds>>

----------------------------------------------------------------------------
(* config_from_spec: clean, configure and detect replace the whole map, so *)
(* that the specs kept by creates without an owner are forgotten; the      *)
(* apihost then depends on the kind of handler, and an update sets none.   *)

\* Mutant: a handler that has no apihost keeps the map it finds.
configured_with_stale(s, apihost) ==
  [spec |-> IF apihost = NoHost /\ cfg.spec # NoSpec THEN cfg.spec ELSE s,
   apihost |-> apihost, held |-> {}]

configured_with(s, apihost) == [spec |-> s, apihost |-> apihost, held |-> {}]

\* Mutant: every handler computes the apihost instead of reading cm/config.
config_from_spec_computes(handler_type) ==
  cfg' = configured_with(spec, apihost_of(spec))

config_from_spec(handler_type) ==
  cfg' = configured_with(spec,
           CASE handler_type = "on_create" -> Pending
             [] handler_type = "on_update" -> NoHost
             [] handler_type = "on_resume" -> annotation)

\* The history of specs that were begun and not completely handled.
begins(s) ==
  /\ attempt' = s
  /\ abandoned' = (abandoned \/ attempt \notin {NoSpec, s})

Ready == handler = Idle /\ wsk = "live"

(* detect reads the labels of the nodes with kubectl and may raise: the    *)
(* handler has then done no more than replace the map.  A resume always    *)
(* raises there while cm/config has no apihost.                            *)
config_raises ==
  /\ Ready
  /\ \/ lastHandled = NoSpec /\ Fault("create") /\ begins(spec)
     \/ lastHandled \notin {NoSpec, spec} /\ Fault("update") /\ begins(spec)
     \/ /\ ~resumed
        /\ \/ Fault("resume")
           \/ annotation = NoHost /\ NoFault
        /\ IF lastHandled = spec THEN UNCHANGED <<attempt, abandoned>>
                                 ELSE begins(spec)
  /\ cfg' = configured_with(spec, NoHost)
  /\ UNCHANGED <<wsk, spec, lastHandled, status, reported, handler, watcher,
                 resumed, clusterVars, edits, restarts, runtimeChanges>>

whisk_create ==
  /\ Ready
  /\ lastHandled = NoSpec
  /\ config_from_spec("on_create")
  /\ abandoned' = (abandoned \/ attempt \notin {NoSpec, spec})
  /\ \/ \* PermanentError: kopf does not call the handler again
        /\ Store \subseteq spec.components
        /\ lastHandled' = spec
        /\ attempt' = NoSpec
        /\ NoFault
        /\ UNCHANGED handler
     \/ /\ ~(Store \subseteq spec.components)
        /\ \E found \in BOOLEAN :
             /\ get_owner(found)
             /\ handler' =
                  [Idle EXCEPT
                     !.kind = "create", !.owner = found, !.of = spec,
                     !.left = {k \in Step : CreateWanted(spec.components, k)},
                     !.report = [k \in Step |->
                       IF CreateWanted(spec.components, k)
                          \/ k \in {"zookeeper", "kafka", "invoker"}
                       THEN "?" ELSE "off"]]
        /\ attempt' = spec
        /\ UNCHANGED lastHandled
  /\ UNCHANGED <<wsk, spec, status, reported, watcher, resumed, clusterVars,
                 edits, restarts, runtimeChanges>>

\* One component of whisk_create.  A failed openwhisk skips the endpoint,
\* and a failed endpoint is reported as a failed openwhisk too.
create_step(k, o) ==
  LET raised == create_raises(k, o)
      pair == IF k \in {"openwhisk", "endpoint"}
              THEN {"openwhisk", "endpoint"} ELSE {k}
  IN /\ handler.kind = "create"
     /\ IsNext(CreateOrder, handler.left, k)
     /\ outcome("create", k, o)
     /\ create(k, handler.owner, o)
     /\ handler' =
          IF raised /\ k \in Unguarded THEN Idle
          ELSE [handler EXCEPT
                  !.left = IF raised THEN @ \ pair ELSE @ \ {k},
                  !.report = [j \in Step |->
                    IF raised /\ j \in pair THEN "error"
                    ELSE IF j = k THEN "on" ELSE @[j]]]
     /\ UNCHANGED <<crVars, watcher, resumed, edits, restarts, runtimeChanges>>

\* whisk_post_create annotates cm/config, which may raise.
create_done ==
  /\ handler.kind = "create"
  /\ handler.left = {}
  /\ handler' = Idle
  /\ \/ /\ NoFault
        /\ lastHandled' = handler.of
        /\ attempt' = NoSpec
        /\ reported' = TRUE
        /\ status' = [k \in StatusKey |->
                        IF k \in Step THEN handler.report[k] ELSE "?"]
     \/ Fault("create") /\ UNCHANGED <<lastHandled, attempt, reported, status>>
  /\ UNCHANGED <<wsk, spec, abandoned, watcher, cfg, resumed, clusterVars,
                 edits, restarts, runtimeChanges>>

----------------------------------------------------------------------------
(* whisk_update and patcher.patch.                                         *)

\* What patch does for a map: redeploy_whisk is the invoker, if any, and
\* the controller; an update of the endpoint is the issuer and the endpoint.
patch_steps(todo) ==
  {k \in Patched \union {"registry"} : todo[k] # "none"}
  \union (IF todo["openwhisk"] = "update"
          THEN {"openwhisk"}
               \union {k \in {"invoker"} : k \in spec.components}
          ELSE {})
  \union (IF todo["endpoint"] = "update" THEN {"issuer", "endpoint"} ELSE {})
  \union {k \in {"minio-ingresses", "seaweedfs-ingresses"} :
            todo[k] = "update"}

whisk_update ==
  /\ Ready
  /\ lastHandled \notin {NoSpec, spec}
  /\ config_from_spec("on_update")
  /\ begins(spec)
  /\ \E found \in BOOLEAN, todo \in detect_component_changes(lastHandled, spec) :
       /\ get_owner(found)
       /\ handler' = [Idle EXCEPT
                        !.kind = "update", !.owner = found, !.of = spec,
                        !.todo = todo, !.left = patch_steps(todo)]
  /\ UNCHANGED <<wsk, spec, lastHandled, status, reported, watcher, resumed,
                 clusterVars, edits, restarts, runtimeChanges>>

\* patch_operator_status does nothing until whisk_create has reported.
patch_operator_status(k, code) ==
  status' = IF reported THEN [status EXCEPT ![status_key(k)] = code] ELSE status

\* The action patch passes on: the registry is given the one of milvus.
patch_action(k) ==
  CASE k \in Patched -> handler.todo[k]
    [] k = "registry" -> handler.todo["milvus"]
    [] OTHER -> "update"

\* Mutant: a redeploy is taken for a delete.
patch_creates_not_redeploys(k) ==
  patch_action(k) = "create" \/ k \in {"issuer", "endpoint"}

\* issuer and endpoint treat an update as a create, every other component
\* anything but a create as a delete; the controller and the invoker are
\* created again.
patch_creates(k) ==
  patch_action(k) = "create" \/ k \in {"issuer", "endpoint", "openwhisk", "invoker"}

\* Mutant: the patch of etcd or postgres always raises out of patch.
update_step_ends_raising(k) ==
  /\ handler' = IF k \in {"etcd", "postgres"}
                THEN Idle ELSE [handler EXCEPT !.left = @ \ {k}]
  /\ UNCHANGED <<wsk, spec, lastHandled, attempt, abandoned, reported, watcher,
                 resumed, edits, restarts, runtimeChanges>>

\* etcd.patch writes the status without the guard, and raises out of patch.
update_step_ends(k) ==
  /\ handler' = IF k = "etcd" /\ ~reported
                THEN Idle ELSE [handler EXCEPT !.left = @ \ {k}]
  /\ UNCHANGED <<wsk, spec, lastHandled, attempt, abandoned, reported, watcher,
                 resumed, edits, restarts, runtimeChanges>>

PatchBegins(k) ==
  /\ handler.kind = "update"
  /\ IsNext(PatchOrder, handler.left, k)

patch_create(k, o) ==
  /\ PatchBegins(k)
  /\ k \in Step
  /\ patch_action(k) # "none"
  /\ patch_creates(k)
  /\ outcome("update", k, o)
  /\ create(k, handler.owner, o)
  /\ IF k \in {"openwhisk", "invoker"} THEN UNCHANGED status
     ELSE patch_operator_status(k,
            IF create_raises(k, o) THEN "error"
            ELSE IF k \in {"issuer", "endpoint"} THEN "updated" ELSE "on")
  /\ update_step_ends(k)

patch_delete(k, o) ==
  /\ PatchBegins(k)
  /\ k \in Step
  /\ patch_action(k) # "none"
  /\ ~patch_creates(k)
  /\ delete_outcome("update", k, handler.owner, o)
  /\ delete(k, handler.owner, o)
  /\ patch_operator_status(k,
       IF delete_raises(k, handler.owner, o) THEN "error" ELSE "off")
  /\ update_step_ends(k)

\* minio.patch_ingresses; seaweedfs.patch_ingresses asks minio's settings for
\* a key that they have not (KeyError), and only ever reports an error.
patch_ingresses(k, o) ==
  /\ PatchBegins(k)
  /\ \/ /\ k = "minio-ingresses"
        /\ \/ o = "ok" /\ NoFault /\ ingresses' = ingresses \union {"minio"}
           \/ o = "build" /\ Fault("update") /\ UNCHANGED ingresses
     \/ k = "seaweedfs-ingresses" /\ o = "build" /\ NoFault /\ UNCHANGED ingresses
  /\ patch_operator_status(k, IF o = "ok" THEN "on" ELSE "error")
  /\ UNCHANGED <<objects, annotation, cfg>>
  /\ update_step_ends(k)

\* patch looks up an action for the registry that may not be there.
patch_raises ==
  /\ PatchBegins("registry")
  /\ patch_action("registry") = "none"
  /\ handler' = Idle
  /\ UNCHANGED <<crVars, watcher, cfg, resumed, clusterVars, bounds>>

\* whisk_post_create is called when a component was touched, and may raise.
update_done ==
  /\ handler.kind = "update"
  /\ handler.left = {}
  /\ handler' = Idle
  /\ \/ /\ NoFault
        /\ lastHandled' = handler.of
        /\ attempt' = NoSpec
     \/ /\ \E k \in Patched \union {"registry", "openwhisk"} :
             handler.todo[k] # "none"
        /\ Fault("update")
        /\ UNCHANGED <<lastHandled, attempt>>
  /\ UNCHANGED <<wsk, spec, abandoned, status, reported, watcher, cfg, resumed,
                 clusterVars, edits, restarts, runtimeChanges>>

----------------------------------------------------------------------------
(* whisk_resume and whisk_delete.                                          *)

whisk_resume ==
  /\ Ready
  /\ ~resumed
  /\ annotation # NoHost
  /\ config_from_spec("on_resume")
  /\ IF lastHandled = spec THEN UNCHANGED <<attempt, abandoned>>
                           ELSE begins(spec)
  /\ handler' = [Idle EXCEPT !.kind = "resume", !.of = spec]
  /\ UNCHANGED <<wsk, spec, lastHandled, status, reported, watcher, resumed,
                 clusterVars, bounds>>

\* whisk_post_resume annotates cm/config, which may raise.
resume_done ==
  /\ handler.kind = "resume"
  /\ handler' = Idle
  /\ \/ resumed' = TRUE /\ NoFault
     \/ Fault("resume") /\ UNCHANGED resumed
  /\ UNCHANGED <<crVars, watcher, cfg, clusterVars, edits, restarts,
                 runtimeChanges>>

\* What is deleted is read from the configuration map, not from the spec.
whisk_delete ==
  /\ handler = Idle
  /\ wsk = "deleting"
  /\ handler' = [Idle EXCEPT !.kind = "delete",
                             !.left = {k \in Step : DeleteWanted(k)}]
  /\ UNCHANGED <<crVars, watcher, cfg, resumed, clusterVars, bounds>>

delete_step(k, o) ==
  /\ handler.kind = "delete"
  /\ IsNext(DeleteOrder, handler.left, k)
  /\ delete_outcome("delete", k, FALSE, o)
  /\ delete(k, FALSE, o)
  /\ handler' = IF delete_raises(k, FALSE, o)
                THEN Idle ELSE [handler EXCEPT !.left = @ \ {k}]
  /\ UNCHANGED <<crVars, watcher, resumed, edits, restarts, runtimeChanges>>

\* kopf removes its finalizer; the resource and what it owns are collected.
delete_done ==
  /\ handler.kind = "delete"
  /\ handler.left = {}
  /\ handler' = Idle
  /\ wsk' = "absent"
  /\ spec' = NoSpec
  /\ lastHandled' = NoSpec
  /\ attempt' = NoSpec
  /\ abandoned' = FALSE
  /\ status' = NoStatus
  /\ reported' = FALSE
  /\ objects' = [k \in Step |->
                   IF objects[k] = "owned" THEN "none" ELSE objects[k]]
  /\ watcher' = [watcher EXCEPT !.stale = watcher.owner]
  /\ UNCHANGED <<cfg, resumed, ingresses, annotation, bounds>>

----------------------------------------------------------------------------
(* runtimes_cm_event_watcher: another resource, so it runs beside the      *)
(* handlers above.  patch_preloader swallows what its two calls raise; an  *)
(* object whose owner is already gone is collected.                        *)

runtimes_cm_event_watcher ==
  /\ watcher = Unwatched
  /\ runtimeChanges < MaxRuntimeChanges
  /\ runtimeChanges' = runtimeChanges + 1
  /\ \E found \in BOOLEAN :
       /\ get_owner(found)
       /\ watcher' = [at |-> "delete", owner |-> found, stale |-> FALSE]
  /\ UNCHANGED <<crVars, handler, cfg, resumed, clusterVars, edits, restarts>>

preloader_delete(o) ==
  /\ watcher.at = "delete"
  /\ delete_outcome("watcher", "preloader", watcher.owner, o)
  /\ delete("preloader", watcher.owner, o)
  /\ watcher' = IF delete_raises("preloader", watcher.owner, o)
                THEN Unwatched ELSE [watcher EXCEPT !.at = "create"]
  /\ UNCHANGED <<crVars, handler, resumed, edits, restarts, runtimeChanges>>

preloader_create(o) ==
  /\ watcher.at = "create"
  /\ outcome("watcher", "preloader", o)
  /\ IF watcher.stale THEN UNCHANGED <<clusterVars, cfg>>
                      ELSE create("preloader", watcher.owner, o)
  /\ watcher' = Unwatched
  /\ UNCHANGED <<crVars, handler, resumed, edits, restarts, runtimeChanges>>

----------------------------------------------------------------------------
(* The process dies and starts again.                                      *)
Restart ==
  /\ restarts < MaxRestarts
  /\ restarts' = restarts + 1
  /\ handler' = Idle
  /\ watcher' = Unwatched
  /\ cfg' = NoConfig
  /\ resumed' = FALSE
  /\ UNCHANGED <<crVars, clusterVars, edits, faults, runtimeChanges>>

Init ==
  /\ wsk = "absent" /\ spec = NoSpec
  /\ lastHandled = NoSpec /\ attempt = NoSpec /\ abandoned = FALSE
  /\ status = NoStatus /\ reported = FALSE
  /\ handler = Idle /\ watcher = Unwatched
  /\ cfg = NoConfig /\ resumed = TRUE
  /\ objects = [k \in Step |-> "none"]
  /\ ingresses = {} /\ annotation = NoHost
  /\ edits = 0 /\ faults = 0 /\ restarts = 0 /\ runtimeChanges = 0

HandlerStep ==
  \/ \E k \in Step, o \in Outcome : create_step(k, o)
  \/ create_done
  \/ \E k \in Step, o \in Outcome : patch_create(k, o)
  \/ \E k \in Step, o \in DeleteOutcome : patch_delete(k, o)
  \/ \E k \in PatchStep, o \in Outcome : patch_ingresses(k, o)
  \/ patch_raises
  \/ update_done
  \/ resume_done
  \/ \E k \in Step, o \in DeleteOutcome : delete_step(k, o)
  \/ delete_done

Next ==
  \/ \E s \in Specs : ApplyWhisk(s)
  \/ DeleteWhisk
  \/ config_raises
  \/ whisk_create
  \/ whisk_update
  \/ whisk_resume
  \/ whisk_delete
  \/ HandlerStep
  \/ runtimes_cm_event_watcher
  \/ \E o \in DeleteOutcome : preloader_delete(o)
  \/ \E o \in Outcome : preloader_create(o)
  \/ Restart

(* kopf calls the handlers of a resource that has something to handle, and *)
(* calls again the one that raised; the calls of a handler return.         *)
Fairness ==
  /\ WF_vars(whisk_create)
  /\ WF_vars(whisk_update)
  /\ WF_vars(whisk_resume)
  /\ WF_vars(whisk_delete)
  /\ WF_vars(HandlerStep)

Spec == Init /\ [][Next]_vars /\ Fairness

----------------------------------------------------------------------------
(* Properties.                                                             *)

Apihost == (Host \X BOOLEAN) \union {NoHost, Pending}

SpecOrNone == Specs \union {NoSpec}

Handler ==
  [kind : {"idle", "create", "update", "resume", "delete"},
   left : SUBSET (Step \union PatchStep), todo : WhatToDo,
   owner : BOOLEAN, of : SpecOrNone, report : [Step -> Code]]

Watcher ==
  [at : {"idle", "delete", "create"}, owner : BOOLEAN, stale : BOOLEAN]

ConfigMap == [spec : SpecOrNone, apihost : Apihost, held : SUBSET Step]

\* The shape of the state.
TypeOK ==
  /\ wsk \in {"absent", "live", "deleting"}
  /\ spec \in SpecOrNone
  /\ lastHandled \in SpecOrNone
  /\ attempt \in SpecOrNone
  /\ abandoned \in BOOLEAN
  /\ status \in [StatusKey -> Code]
  /\ reported \in BOOLEAN
  /\ handler \in Handler
  /\ watcher \in Watcher
  /\ cfg \in ConfigMap
  /\ resumed \in BOOLEAN
  /\ objects \in [Step -> {"none", "owned", "unowned"}]
  /\ ingresses \subseteq WithIngress
  /\ annotation \in Apihost
  /\ edits \in 0 .. MaxEdits
  /\ faults \in 0 .. MaxFaults
  /\ restarts \in 0 .. MaxRestarts
  /\ runtimeChanges \in 0 .. MaxRuntimeChanges

\* The operator has handled the spec, and none that it began and left.
Quiescent ==
  /\ handler = Idle /\ wsk = "live"
  /\ lastHandled = spec /\ attempt = NoSpec /\ ~abandoned

(* Whatever update, resume or restart came in between, and whichever calls *)
(* failed, a component that the status calls "on" was deployed.  Not for   *)
(* those whose create or delete does not tell that it failed (milvus,      *)
(* quota), whose status is written under another key (mongodb), or that    *)
(* are no objects or change without a handler (endpoint, preloader).       *)
OnMeansDeployed ==
  Quiescent /\ reported =>
    \A k \in Step \ {"milvus", "quota", "mongodb", "preloader", "endpoint"} :
      status[k] = "on" => objects[k] # "none"

(* A component that the patcher handles and the status calls "off" is not  *)
(* deployed any more, unless the owner could not be read on the way.       *)
OffMeansGone ==
  Quiescent /\ reported =>
    \A k \in Patched \ {"mongodb", "quota"} :
      status[k] = "off" => objects[k] = "none"

(* An edit never takes down a component that it leaves enabled: patch      *)
(* deletes only what the edit being handled switches off.  The preloader   *)
(* is replaced when the runtimes change; for static and the registry see   *)
(* below.                                                                  *)
takes_down(c) == wsk = "live" /\ objects[c] # "none" /\ objects'[c] = "none"

EnabledNotDeleted ==
  [][ \A c \in Step \ {"preloader", "static", "registry"} :
        takes_down(c) => c \notin handler.of.components ]_vars

(* kopf_util.py:46, on an edit of the endpoint: "we need to be sure that   *)
(* we update also the static if still active".                             *)
StaticNotDeleted ==
  [][ takes_down("static") => "static" \notin handler.of.components ]_vars

(* When the status says that the endpoint is published, the url users read *)
(* in cm/config is the one of the spec being served.                       *)
PublishedApihost ==
  Quiescent /\ reported /\ status["endpoint"] \in {"on", "updated"}
    => annotation = apihost_of(spec)

(* Every thread of the process reads the configuration map: between the    *)
(* handlers it is that of the spec the resource has now.                   *)
CfgCoherent == Quiescent /\ resumed => cfg.spec = spec

(* At any moment, in the middle of a handler too, an apihost in the map is *)
(* the one published in cm/config.                                         *)
ApihostCoherent == cfg.apihost \notin {NoHost, Pending} => cfg.apihost = annotation

(* Deleting the resource leaves nothing of it in the namespace: the        *)
(* handler deletes the ingresses, which have no owner reference, and the   *)
(* rest is collected.  (An edit of the endpoint deploys the cluster-wide   *)
(* issuer even without tls, and nothing then deletes it.)                  *)
NothingLeftBehind ==
  wsk = "absent" =>
    ingresses = {} /\ \A k \in Step \ {"issuer"} : objects[k] = "none"

(* Every edit is handled in the end, whatever failed, died or was edited   *)
(* again meanwhile.                                                        *)
EditsAreHandled ==
  wsk = "live" /\ lastHandled # spec ~> lastHandled = spec \/ wsk # "live"

(* whisk_create swallowed that OpenWhisk or its endpoint could not be      *)
(* made: the status says so, and cm/config has no apihost yet.             *)
unpublished == reported /\ status["endpoint"] = "error" /\ annotation = NoHost

(* A restarted operator has its configuration again in the end, whatever   *)
(* failed: unless the apihost it reads has never been published (then      *)
(* config_from_spec raises at every attempt) and the status calls the      *)
(* endpoint an error.                                                      *)
ResumeCompletes ==
  wsk = "live" /\ ~resumed ~> resumed \/ wsk # "live" \/ unpublished

(* kubectl delete wsk/controller returns in the end.                       *)
DeletionCompletes == wsk = "deleting" ~> wsk = "absent"

=============================================================================
