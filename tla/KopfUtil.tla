------------------------------ MODULE KopfUtil ------------------------------
(***************************************************************************)
(* What an edit of the Whisk resource asks of the operator.                *)
(*                                                                         *)
(* kopf hands whisk_update the differences between the last handled spec   *)
(* and the present one; nuvolaris/kopf_util.py turns them into a map       *)
(* what_to_do from component names to "create", "delete" or "update".      *)
(* A spec is the record of the parts the operator tells apart: the set of  *)
(* enabled components, spec.nuvolaris.apihost, the spec.configs subtree    *)
(* and the object stores whose s3 or console ingress is enabled.           *)
(***************************************************************************)
EXTENDS Naturals, Sequences

CONSTANTS
  Host,     \* values of spec.nuvolaris.apihost
  Config    \* values of the spec.configs subtree

Component ==
  {"openwhisk", "invoker", "couchdb", "kafka", "zookeeper", "redis",
   "registry", "tls", "cron", "minio", "seaweedfs", "static", "postgres",
   "mongodb", "monitoring", "quota", "etcd", "milvus"}

Store == {"minio", "seaweedfs"}

SpecType ==
  [components : SUBSET Component, apihost : Host, configs : Config,
   ingress : SUBSET Store]

----------------------------------------------------------------------------
(* The components whose switch is looked at, whether or not the patcher    *)
(* can do anything about them.                                             *)
Detected ==
  {"couchdb", "mongodb", "kafka", "zookeeper", "redis", "cron", "minio",
   "static", "postgres", "quota", "etcd", "milvus", "registry", "seaweedfs"}

Action == {"none", "create", "delete", "update"}

WhatKey ==
  Detected \union {"openwhisk", "endpoint", "minio-ingresses",
                   "seaweedfs-ingresses"}

WhatToDo == [WhatKey -> Action]

Switched(old, new) ==
  (old.components \ new.components) \union (new.components \ old.components)

\* Mutant: the map is given the status of the component, not the action.
check_component_status(old, new, c) ==
  IF c \in Switched(old, new)
  THEN IF c \in new.components THEN "on" ELSE "off"
  ELSE "none"

check_component(old, new, c) ==
  IF c \in Switched(old, new)
  THEN IF c \in new.components THEN "create" ELSE "delete"
  ELSE "none"

\* Mutant: switching tls alone does not move the endpoint.
endpoint_changed_by_host(old, new) == old.apihost # new.apihost

\* Either attribute forces an update of the apihost endpoint.
endpoint_changed(old, new) ==
  "tls" \in Switched(old, new) \/ old.apihost # new.apihost

(* The entry of "static" is written by the switch of the component and     *)
(* overwritten by a change of the endpoint while static is enabled: when   *)
(* one edit makes both, the order in which kopf lists the two differences  *)
(* decides.                                                                *)
static_action(old, new) ==
  IF endpoint_changed(old, new) /\ "static" \in new.components
  THEN {"update"} \union
       (IF "static" \in Switched(old, new) THEN {"create"} ELSE {})
  ELSE {check_component(old, new, "static")}

check_ingresses(old, new, store) ==
  IF store \in new.ingress \ old.ingress THEN "update" ELSE "none"

\* The set of the maps the code may build for an edit from old to new.
detect_component_changes(old, new) ==
  LET what ==
        [k \in WhatKey |->
           CASE k = "openwhisk" ->
                  IF old.configs # new.configs THEN "update" ELSE "none"
             [] k = "endpoint" ->
                  IF endpoint_changed(old, new) THEN "update" ELSE "none"
             [] k = "minio-ingresses" -> check_ingresses(old, new, "minio")
             [] k = "seaweedfs-ingresses" ->
                  check_ingresses(old, new, "seaweedfs")
             [] OTHER -> check_component(old, new, k)]
  IN  { [what EXCEPT !["static"] = s] : s \in static_action(old, new) }

=============================================================================
