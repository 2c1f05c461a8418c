----------------------- MODULE WhiskDeployment_proofs -----------------------
(***************************************************************************)
(* What the status of the Whisk resource and its edits say of the deployed *)
(* components, for every set of specs, every cluster and any number of     *)
(* edits, faults and restarts; where a theorem needs more, it says so.     *)
(***************************************************************************)
EXTENDS WhiskOperator_proofs

----------------------------------------------------------------------------
(* Lemmas on the calls of a handler.                                       *)

\* A create touches its own component; one that does not raise leaves it
\* deployed, and with an owner it is owned.
LEMMA CreateDeploys ==
  ASSUME TypeOK, NEW k \in Step, NEW owner \in BOOLEAN, NEW o, create(k, owner, o)
  PROVE  /\ \A j \in Step : j # k => objects'[j] = objects[j]
         /\ objects'[k] \in {objects[k], "owned", "unowned"}
         /\ o = "ok" /\ k # "endpoint" => objects'[k] # "none"
         /\ owner /\ k # "issuer" => objects'[k] \in {objects[k], "owned"}
         /\ ingresses' \subseteq ingresses \union ({k} \cap WithIngress)
<1>1. objects \in [Step -> {"none", "owned", "unowned"}]
  BY DEF TypeOK
<1>2. objects' = objects
      \/ /\ k # "endpoint"
         /\ objects' = [objects EXCEPT ![k] =
                          IF owner /\ k # "issuer" THEN "owned" ELSE "unowned"]
  BY DEF create
<1>3. o = "ok" /\ k # "endpoint" =>
        objects' = [objects EXCEPT ![k] =
                      IF owner /\ k # "issuer" THEN "owned" ELSE "unowned"]
  BY DEF create
<1>4. ingresses' \subseteq ingresses \union ({k} \cap WithIngress)
  BY DEF create
<1> QED
  BY <1>1, <1>2, <1>3, <1>4

\* A delete touches its own component; one that has an owner and does not
\* raise leaves nothing of it.
LEMMA DeleteRemoves ==
  ASSUME TypeOK, NEW k \in Step, NEW owner \in BOOLEAN, NEW o, delete(k, owner, o)
  PROVE  /\ \A j \in Step : j # k => objects'[j] = objects[j]
         /\ objects'[k] \in {objects[k], "none"}
         /\ owner /\ k \notin {"endpoint", "quota"} /\ ~delete_raises(k, owner, o)
              => objects'[k] = "none"
         /\ ingresses' \subseteq ingresses
         /\ o = "ok" => ingresses' = ingresses \ {k}
<1>1. objects \in [Step -> {"none", "owned", "unowned"}]
  BY DEF TypeOK
<1>2. objects' = objects \/ objects' = [objects EXCEPT ![k] = "none"]
  BY DEF delete
<1>3. owner /\ k \notin {"endpoint", "quota"} /\ ~delete_raises(k, owner, o)
        => objects' = [objects EXCEPT ![k] = "none"]
  BY DEF delete, delete_raises, deletes_objects
<1>4. ingresses' \subseteq ingresses /\ (o = "ok" => ingresses' = ingresses \ {k})
  BY DEF delete
<1> QED
  BY <1>1, <1>2, <1>3, <1>4

\* The status of a patched component is written under one key only.
LEMMA StatusWritten ==
  ASSUME TypeOK, NEW k, NEW code, patch_operator_status(k, code)
  PROVE  /\ \A j \in StatusKey : j # status_key(k) => status'[j] = status[j]
         /\ reported /\ status_key(k) \in StatusKey => status'[status_key(k)] = code
         /\ ~reported => status' = status
  BY DEF patch_operator_status, TypeOK

\* The handler of an edit goes on or gives up.
LEMMA UpdateGoesOn ==
  ASSUME TypeOK, NEW k, update_step_ends(k)
  PROVE  /\ UNCHANGED <<wsk, spec, lastHandled, attempt, abandoned, reported,
                        watcher, resumed>>
         /\ \/ handler' = Idle
            \/ /\ handler'.kind = handler.kind /\ handler'.of = handler.of
               /\ handler'.todo = handler.todo /\ handler'.owner = handler.owner
               /\ handler'.report = handler.report
               /\ handler'.left = handler.left \ {k}
         /\ k # "etcd" \/ reported =>
               /\ handler'.kind = handler.kind /\ handler'.of = handler.of
               /\ handler'.todo = handler.todo /\ handler'.owner = handler.owner
               /\ handler'.left = handler.left \ {k}
  BY DEF update_step_ends, TypeOK, Handler

\* A handler that creates components reports each as it ends.
LEMMA CreateGoesOn ==
  ASSUME TypeOK, NEW k \in Step, NEW o, create_step(k, o)
  PROVE  /\ UNCHANGED <<wsk, spec, lastHandled, attempt, abandoned, reported,
                        status, watcher, resumed>>
         /\ \/ handler' = Idle /\ create_raises(k, o)
            \/ /\ handler'.kind = "create" /\ handler'.of = handler.of
               /\ handler'.owner = handler.owner
               /\ handler'.left \subseteq handler.left
               /\ \A j \in Step :
                    \/ handler'.report[j] = handler.report[j] /\ j # k
                    \/ handler'.report[j] = "error"
                    \/ j = k /\ handler'.report[j] = "on" /\ ~create_raises(k, o)
<1> DEFINE pair == IF k \in {"openwhisk", "endpoint"}
                   THEN {"openwhisk", "endpoint"} ELSE {k}
           report == [j \in Step |->
                        IF create_raises(k, o) /\ j \in pair THEN "error"
                        ELSE IF j = k THEN "on" ELSE handler.report[j]]
           left == IF create_raises(k, o)
                   THEN handler.left \ pair ELSE handler.left \ {k}
<1>1. UNCHANGED <<wsk, spec, lastHandled, attempt, abandoned, reported,
                  status, watcher, resumed>>
  BY DEF create_step, crVars
<1>2. handler \in Handler /\ handler.kind = "create"
  BY DEF TypeOK, create_step
<1>3. \/ handler' = Idle /\ create_raises(k, o)
      \/ handler' = [handler EXCEPT !.left = left, !.report = report]
  BY DEF create_step
<1>4. left \subseteq handler.left
  OBVIOUS
<1>5. \A j \in Step :
        \/ report[j] = handler.report[j] /\ j # k
        \/ report[j] = "error"
        \/ j = k /\ report[j] = "on" /\ ~create_raises(k, o)
  OBVIOUS
<1> HIDE DEF left, report
<1> QED
  BY <1>1, <1>2, <1>3, <1>4, <1>5 DEF Handler

\* The handlers that only begin, end or wait leave the components alone.
LEMMA ComponentsKept ==
  ASSUME \/ \E s \in Specs : ApplyWhisk(s)
         \/ DeleteWhisk \/ config_raises
         \/ whisk_create \/ whisk_update \/ whisk_resume \/ whisk_delete
         \/ create_done \/ patch_raises \/ update_done \/ resume_done
         \/ runtimes_cm_event_watcher \/ Restart \/ UNCHANGED vars
  PROVE  UNCHANGED clusterVars
  BY DEF ApplyWhisk, DeleteWhisk, config_raises, whisk_create, whisk_update,
         whisk_resume, whisk_delete, create_done, patch_raises, update_done,
         resume_done, runtimes_cm_event_watcher, Restart, vars

\* The steps of patch by name.
LEMMA PatchStepSet ==
  PatchStep = Patched \union {"registry", "invoker", "openwhisk", "issuer", "endpoint",
                             "minio-ingresses", "seaweedfs-ingresses"}
<1>1. DOMAIN PatchOrder = 1 .. 16
  BY DEF PatchOrder
<1>2. PatchStep \subseteq Patched \union
        {"registry", "invoker", "openwhisk", "issuer", "endpoint",
         "minio-ingresses", "seaweedfs-ingresses"}
  <2> SUFFICES ASSUME NEW i \in 1 .. 16
               PROVE  PatchOrder[i] \in Patched \union
                        {"registry", "invoker", "openwhisk", "issuer", "endpoint",
                         "minio-ingresses", "seaweedfs-ingresses"}
    BY <1>1 DEF PatchStep
  <2>1. \/ i = 1 \/ i = 2 \/ i = 3 \/ i = 4 \/ i = 5 \/ i = 6 \/ i = 7 \/ i = 8
        \/ i = 9 \/ i = 10 \/ i = 11 \/ i = 12 \/ i = 13 \/ i = 14 \/ i = 15 \/ i = 16
    OBVIOUS
  <2> QED
    BY <2>1 DEF PatchOrder, Patched
<1>3. ASSUME NEW s \in 1 .. 16 PROVE PatchOrder[s] \in PatchStep
  BY <1>1 DEF PatchStep
<1>4. /\ PatchOrder[1] = "postgres" /\ PatchOrder[2] = "mongodb"
      /\ PatchOrder[3] = "redis" /\ PatchOrder[4] = "cron"
      /\ PatchOrder[5] = "minio" /\ PatchOrder[6] = "static"
      /\ PatchOrder[7] = "quota" /\ PatchOrder[8] = "etcd"
      /\ PatchOrder[9] = "milvus" /\ PatchOrder[10] = "registry"
      /\ PatchOrder[11] = "invoker" /\ PatchOrder[12] = "openwhisk"
      /\ PatchOrder[13] = "issuer" /\ PatchOrder[14] = "endpoint"
      /\ PatchOrder[15] = "minio-ingresses"
      /\ PatchOrder[16] = "seaweedfs-ingresses"
  BY DEF PatchOrder
<1>5. /\ 1 \in 1 .. 16 /\ 2 \in 1 .. 16 /\ 3 \in 1 .. 16 /\ 4 \in 1 .. 16
      /\ 5 \in 1 .. 16 /\ 6 \in 1 .. 16 /\ 7 \in 1 .. 16 /\ 8 \in 1 .. 16
      /\ 9 \in 1 .. 16 /\ 10 \in 1 .. 16 /\ 11 \in 1 .. 16 /\ 12 \in 1 .. 16
      /\ 13 \in 1 .. 16 /\ 14 \in 1 .. 16 /\ 15 \in 1 .. 16 /\ 16 \in 1 .. 16
  OBVIOUS
<1>6. Patched \union {"registry", "invoker", "openwhisk", "issuer", "endpoint",
                     "minio-ingresses", "seaweedfs-ingresses"} \subseteq PatchStep
  BY <1>3, <1>4, <1>5 DEF Patched
<1> QED
  BY <1>2, <1>6

----------------------------------------------------------------------------
(* What an edit asks the patcher to do agrees with the spec it leads to.   *)

EditInv ==
  handler.kind = "update" =>
    \A k \in Patched :
      /\ handler.todo[k] = "create" => k \in handler.of.components
      /\ handler.todo[k] = "delete" => k \notin handler.of.components
      /\ handler.todo[k] = "update" => k = "static"

LEMMA DetectSwitches ==
  ASSUME NEW old, NEW new, NEW todo \in detect_component_changes(old, new)
  PROVE  /\ \A k \in Detected \ {"static"} : todo[k] = check_component(old, new, k)
         /\ todo["static"] \in static_action(old, new)
         /\ todo["minio-ingresses"] = check_ingresses(old, new, "minio")
         /\ todo["seaweedfs-ingresses"] = check_ingresses(old, new, "seaweedfs")
  BY DEF detect_component_changes, WhatKey, Detected

LEMMA EditBegins ==
  ASSUME NEW old, NEW new, NEW todo \in detect_component_changes(old, new),
         NEW k \in Patched
  PROVE  /\ todo[k] = "create" => k \in new.components
         /\ todo[k] = "delete" => k \notin new.components
         /\ todo[k] = "update" => k = "static"
<1>1. CASE k = "static"
  <2>1. todo[k] \in {"update", "create", check_component(old, new, "static")}
    BY <1>1, DetectSwitches DEF static_action
  <2>2. todo[k] = "create" => "static" \in new.components
    BY <1>1, DetectSwitches DEF static_action, check_component
  <2>3. todo[k] = "delete" => "static" \notin new.components
    BY <1>1, DetectSwitches DEF static_action, check_component
  <2> QED BY <1>1, <2>2, <2>3
<1>2. CASE k # "static"
  <2>1. k \in Detected \ {"static"}
    BY <1>2 DEF Patched, Detected
  <2> QED
    BY <2>1, DetectSwitches DEF check_component
<1> QED BY <1>1, <1>2

LEMMA EditStep ==
  ASSUME Base, EditInv, [Next]_vars
  PROVE  EditInv'
<1>1. CASE whisk_update
  <2>1. PICK found \in BOOLEAN, todo \in detect_component_changes(lastHandled, spec) :
          handler' = [Idle EXCEPT
                        !.kind = "update", !.owner = found, !.of = spec,
                        !.todo = todo, !.left = patch_steps(todo)]
    BY <1>1 DEF whisk_update
  <2>2. handler'.todo = todo /\ handler'.of = spec
    BY <2>1 DEF Idle
  <2> QED
    BY <2>2, EditBegins DEF EditInv
<1>2. ASSUME NEW k, update_step_ends(k) PROVE EditInv'
  BY <1>2, UpdateGoesOn, IdleType DEF Base, EditInv
<1>3. CASE handler' = handler \/ handler'.kind # "update"
  BY <1>3 DEF EditInv
<1>4. ASSUME NEW k \in Step, NEW o \in Outcome, create_step(k, o)
      PROVE  handler'.kind # "update"
  BY <1>4, CreateGoesOn, IdleType DEF Base
<1>5. ASSUME \/ whisk_create \/ config_raises \/ whisk_resume \/ whisk_delete
             \/ create_done \/ patch_raises \/ update_done \/ resume_done
             \/ delete_done \/ Restart
      PROVE  handler' = handler \/ handler'.kind # "update"
  BY <1>5, IdleType DEF whisk_create, config_raises, whisk_resume, whisk_delete,
     create_done, patch_raises, update_done, resume_done, delete_done, Restart, Idle
<1>6. ASSUME NEW k \in Step, NEW o \in DeleteOutcome, delete_step(k, o)
      PROVE  handler'.kind # "update"
  BY <1>6, IdleType DEF Base, TypeOK, Handler, delete_step
<1>7. ASSUME \/ \E s \in Specs : ApplyWhisk(s)
             \/ DeleteWhisk \/ runtimes_cm_event_watcher
             \/ \E o \in DeleteOutcome : preloader_delete(o)
             \/ \E o \in Outcome : preloader_create(o)
             \/ UNCHANGED vars
      PROVE  handler' = handler
  BY <1>7 DEF ApplyWhisk, DeleteWhisk, runtimes_cm_event_watcher,
     preloader_delete, preloader_create, vars, processVars
<1>8. ASSUME \/ \E k \in Step, o \in Outcome : patch_create(k, o)
             \/ \E k \in Step, o \in DeleteOutcome : patch_delete(k, o)
             \/ \E k \in PatchStep, o \in Outcome : patch_ingresses(k, o)
      PROVE  \E k : update_step_ends(k)
  BY <1>8 DEF patch_create, patch_delete, patch_ingresses
<1> QED
  BY <1>1, <1>2, <1>3, <1>4, <1>5, <1>6, <1>7, <1>8 DEF Next, HandlerStep

\* The deletes of a live resource are those of patch and of the preloader.
LEMMA TakenDown ==
  ASSUME Base, EditInv, [Next]_vars, NEW c \in Step \ {"preloader", "static", "registry"},
         takes_down(c)
  PROVE  c \notin handler.of.components
<1>1. wsk = "live" /\ objects[c] # "none" /\ objects'[c] = "none"
  BY DEF takes_down
<1>2. objects' # objects
  BY <1>1
<1>3. ASSUME NEW k \in Step, NEW owner \in BOOLEAN, NEW o, create(k, owner, o)
      PROVE  FALSE
  BY <1>1, <1>3, CreateDeploys DEF Base
<1>4. ASSUME NEW k \in Step, NEW o \in Outcome,
             create_step(k, o) \/ patch_create(k, o)
      PROVE  FALSE
  BY <1>3, <1>4 DEF Base, TypeOK, Handler, create_step, patch_create
<1>5. ASSUME NEW o \in Outcome, preloader_create(o) PROVE FALSE
  <2>1. "preloader" \in Step /\ watcher.owner \in BOOLEAN
    BY DEF Step, CreateOrder, Base, TypeOK, Watcher
  <2> QED
    BY <1>2, <1>3, <1>5, <2>1 DEF preloader_create, clusterVars
<1>6. ASSUME NEW o \in DeleteOutcome, preloader_delete(o) PROVE FALSE
  <2>1. "preloader" \in Step /\ watcher.owner \in BOOLEAN
    BY DEF Step, CreateOrder, Base, TypeOK, Watcher
  <2> QED
    BY <1>1, <1>6, <2>1, DeleteRemoves DEF Base, preloader_delete
<1>7. ASSUME NEW k \in PatchStep, NEW o \in Outcome, patch_ingresses(k, o)
      PROVE  FALSE
  BY <1>2, <1>7 DEF patch_ingresses
<1>8. ASSUME \/ \E k \in Step, o \in DeleteOutcome : delete_step(k, o)
             \/ delete_done
      PROVE  FALSE
  BY <1>1, <1>8 DEF Base, Lifecycle, delete_step, delete_done
<1>9. UNCHANGED clusterVars => FALSE
  BY <1>2 DEF clusterVars
<1>10. PICK k \in Step, o \in DeleteOutcome : patch_delete(k, o)
  BY <1>4, <1>5, <1>6, <1>7, <1>8, <1>9, ComponentsKept DEF Next, HandlerStep
<1>11. k = c
  BY <1>1, <1>10, DeleteRemoves DEF Base, TypeOK, Handler, patch_delete
<1>12. /\ handler.kind = "update" /\ ~patch_creates(c) /\ patch_action(c) # "none"
       /\ \E i \in DOMAIN PatchOrder : PatchOrder[i] = c
  BY <1>10, <1>11 DEF patch_delete, PatchBegins, IsNext
<1>13. handler.todo \in WhatToDo
  BY DEF Base, TypeOK, Handler
<1>14. c \in Patched
  <2>1. c \in PatchStep
    BY <1>12 DEF PatchStep
  <2> QED
    BY <1>12, <2>1, PatchStepSet DEF patch_creates, Step, CreateOrder
<1>15. handler.todo[c] \in {"delete", "update"}
  BY <1>12, <1>13, <1>14
  DEF patch_creates, patch_action, Patched, WhatToDo, WhatKey, Detected, Action
<1> QED
  BY <1>12, <1>14, <1>15 DEF EditInv

\* As long as the resource lives, no edit, retry or restart takes down a
\* component that the spec of the handler enables: what patch deletes is what
\* detect_component_changes found switched off (patcher.py:38, kopf_util.py:30).
THEOREM EnabledComponentsStay == Spec => EnabledNotDeleted
<1>1. Init => EditInv
  BY IdleType DEF Init, EditInv
<1>2. Spec => []EditInv
  BY <1>1, EditStep, BaseInvariant, PTL DEF Spec
<1>3. Base /\ EditInv /\ [Next]_vars
        => [\A c \in Step \ {"preloader", "static", "registry"} :
              takes_down(c) => c \notin handler.of.components]_vars
  BY TakenDown
<1> QED
  BY <1>2, <1>3, BaseInvariant, PTL DEF Spec, EnabledNotDeleted

----------------------------------------------------------------------------
(* What the status calls "on" was deployed.                                *)

\* The components whose calls tell whether they failed.
Told == Step \ {"milvus", "quota", "mongodb", "preloader", "endpoint"}

DeployedInv ==
  /\ wsk = "live" /\ reported =>
       \A k \in Told : status[k] = "on" => objects[k] # "none"
  /\ handler.kind = "create" =>
       /\ lastHandled = NoSpec
       /\ \A k \in Told : handler.report[k] = "on" => objects[k] # "none"

\* A handler of whisk_create starts with nothing reported as deployed.
LEMMA CreateBegins ==
  ASSUME Base, whisk_create
  PROVE  /\ spec \in Specs /\ spec # NoSpec /\ wsk = "live" /\ ~reported
         /\ lastHandled = NoSpec /\ handler = Idle /\ cfg'.spec = spec
         /\ UNCHANGED <<wsk, spec, status, reported, watcher, resumed, clusterVars>>
         /\ abandoned' = (abandoned \/ attempt \notin {NoSpec, spec})
         /\ \/ /\ handler' = Idle /\ lastHandled' = spec /\ attempt' = NoSpec
               /\ Store \subseteq spec.components
            \/ /\ lastHandled' = NoSpec /\ attempt' = spec
               /\ handler'.kind = "create" /\ handler'.of = spec
               /\ get_owner(handler'.owner)
               /\ handler'.left = {k \in Step : CreateWanted(spec.components, k)}
               /\ \A k \in Step :
                    IF CreateWanted(spec.components, k)
                       \/ k \in {"zookeeper", "kafka", "invoker"}
                    THEN handler'.report[k] = "?" ELSE handler'.report[k] = "off"
<1>1. /\ spec \in Specs /\ spec # NoSpec /\ wsk = "live" /\ ~reported
      /\ lastHandled = NoSpec /\ handler = Idle
  BY SpecFields DEF Base, Lifecycle, whisk_create, Ready
<1>2. /\ UNCHANGED <<wsk, spec, status, reported, watcher, resumed, clusterVars>>
      /\ abandoned' = (abandoned \/ attempt \notin {NoSpec, spec})
      /\ cfg'.spec = spec
  BY DEF whisk_create, config_from_spec, configured_with
<1>3. CASE Store \subseteq spec.components
  BY <1>1, <1>2, <1>3 DEF whisk_create
<1>4. CASE ~(Store \subseteq spec.components)
  <2>1. lastHandled' = NoSpec /\ attempt' = spec
    BY <1>1, <1>4 DEF whisk_create
  <2>2. PICK found \in BOOLEAN :
          /\ get_owner(found)
          /\ handler' =
               [Idle EXCEPT
                  !.kind = "create", !.owner = found, !.of = spec,
                  !.left = {k \in Step : CreateWanted(spec.components, k)},
                  !.report = [k \in Step |->
                    IF CreateWanted(spec.components, k)
                       \/ k \in {"zookeeper", "kafka", "invoker"}
                    THEN "?" ELSE "off"]]
    BY <1>4 DEF whisk_create
  <2>3. /\ handler'.kind = "create" /\ handler'.of = spec /\ handler'.owner = found
        /\ handler'.left = {k \in Step : CreateWanted(spec.components, k)}
        /\ handler'.report = [k \in Step |->
             IF CreateWanted(spec.components, k)
                \/ k \in {"zookeeper", "kafka", "invoker"}
             THEN "?" ELSE "off"]
    BY <2>2 DEF Idle
  <2> QED
    BY <1>1, <1>2, <2>1, <2>2, <2>3
<1> QED BY <1>3, <1>4

\* The outcome of a create that tells and does not raise.
LEMMA CreateTells ==
  ASSUME NEW k, NEW kind, NEW o, outcome(kind, k, o), ~create_raises(k, o),
         k \notin {"milvus", "quota"}
  PROVE  o = "ok"
  BY DEF outcome, create_raises

\* A handler has an owner or has none.
LEMMA OwnerType ==
  ASSUME TypeOK
  PROVE  /\ handler.owner \in BOOLEAN /\ watcher.owner \in BOOLEAN
         /\ "preloader" \in Step
  BY DEF TypeOK, Handler, Watcher, Step, CreateOrder

LEMMA DeployedStep ==
  ASSUME Base, DeployedInv, [Next]_vars
  PROVE  DeployedInv'
<1>1. TypeOK /\ handler.owner \in BOOLEAN /\ watcher.owner \in BOOLEAN
      /\ "preloader" \in Step /\ "preloader" \notin Told
  BY OwnerType DEF Base, Told
<1>2. ASSUME UNCHANGED <<wsk, status, reported, objects>>, handler'.kind # "create"
      PROVE  DeployedInv'
  BY <1>2 DEF DeployedInv
<1>3. ASSUME NEW s \in Specs, ApplyWhisk(s) PROVE DeployedInv'
  BY <1>3 DEF Base, Lifecycle, ApplyWhisk, clusterVars, DeployedInv
<1>4. CASE DeleteWhisk \/ UNCHANGED vars \/ runtimes_cm_event_watcher
           \/ config_raises
  BY <1>4 DEF DeleteWhisk, runtimes_cm_event_watcher, config_raises, Ready, vars,
     crVars, processVars, clusterVars, DeployedInv
<1>5. CASE whisk_create
  <2>1. ~reported' /\ UNCHANGED objects
    BY <1>5, CreateBegins DEF clusterVars
  <2>2. handler'.kind = "create" =>
          lastHandled' = NoSpec /\ \A k \in Step : handler'.report[k] # "on"
    BY <1>5, CreateBegins, IdleType
  <2> QED BY <2>1, <2>2 DEF DeployedInv, Told
<1>6. ASSUME NEW k \in Step, NEW o \in Outcome, create_step(k, o)
      PROVE  DeployedInv'
  <2>1. handler.kind = "create" /\ ~reported /\ lastHandled = NoSpec
    BY <1>6 DEF Base, Lifecycle, DeployedInv, create_step
  <2>2. UNCHANGED <<lastHandled, reported>>
    BY <1>1, <1>6, CreateGoesOn
  <2>3. CASE handler' = Idle
    BY <2>1, <2>2, <2>3, IdleType DEF DeployedInv
  <2>4. CASE handler' # Idle
    <3>1. ASSUME NEW j \in Told, j # k, handler'.report[j] = "on"
          PROVE  objects'[j] # "none"
      <4>1. j \in Step /\ handler.kind = "create" /\ create(k, handler.owner, o)
        BY <1>6 DEF create_step, Told
      <4>2. handler.report[j] = "on"
        BY <1>1, <1>6, <2>4, <3>1, <4>1, CreateGoesOn
      <4>3. objects'[j] = objects[j]
        BY <1>1, <3>1, <4>1, CreateDeploys
      <4> QED BY <4>1, <4>2, <4>3 DEF DeployedInv
    <3>2. k \in Told /\ handler'.report[k] = "on" => objects'[k] # "none"
      <4>1. handler'.report[k] = "on" => ~create_raises(k, o)
        BY <1>1, <1>6, <2>4, CreateGoesOn
      <4>2. k \in Told /\ handler'.report[k] = "on" => o = "ok"
        BY <1>6, <4>1, CreateTells DEF create_step, Told
      <4> QED
        BY <1>1, <1>6, <4>2, CreateDeploys DEF create_step, Told
    <3> QED BY <2>1, <2>2, <3>1, <3>2 DEF DeployedInv
  <2> QED BY <2>3, <2>4
<1>7. CASE create_done
  <2>1. /\ handler.kind = "create" /\ handler' = Idle /\ UNCHANGED objects
        /\ UNCHANGED <<reported, status>>
           \/ status' = [k \in StatusKey |->
                           IF k \in Step THEN handler.report[k] ELSE "?"]
        /\ ~reported
    BY <1>7 DEF create_done, clusterVars, Base, Lifecycle, DeployedInv
  <2> QED
    BY <2>1, IdleType DEF DeployedInv, Told, StatusKey
<1>8. CASE whisk_update \/ whisk_resume \/ patch_raises \/ update_done
           \/ resume_done \/ Restart \/ whisk_delete
  <2>1. UNCHANGED <<wsk, status, reported, objects>>
    BY <1>8 DEF whisk_update, whisk_resume, patch_raises, update_done, resume_done,
       Restart, whisk_delete, crVars, clusterVars
  <2>2. handler'.kind # "create"
    BY <1>8, IdleType DEF whisk_update, whisk_resume, patch_raises, update_done,
       resume_done, Restart, whisk_delete, Idle
  <2> QED BY <1>2, <2>1, <2>2
<1>9. ASSUME NEW k, update_step_ends(k), handler.kind = "update",
             wsk = "live" /\ reported =>
               \A j \in Told : status'[j] = "on" => objects'[j] # "none"
      PROVE  DeployedInv'
  <2>1. handler'.kind # "create"
    BY <1>1, <1>9, UpdateGoesOn, IdleType
  <2>2. UNCHANGED <<wsk, reported>>
    BY <1>1, <1>9, UpdateGoesOn
  <2> QED BY <1>9, <2>1, <2>2 DEF DeployedInv
<1>10. \A j \in Told : j \in StatusKey /\ status_key(j) = j /\ j \in Step
  BY DEF Told, StatusKey, status_key
<1>11. \A k : status_key(k) \in {k, "ferretdb"} /\ "ferretdb" \notin Told
  BY DEF status_key, Told, Step, CreateOrder
<1>12. ASSUME NEW k \in Step, NEW o \in Outcome, patch_create(k, o)
       PROVE  DeployedInv'
  <2>1. /\ handler.kind = "update" /\ update_step_ends(k)
        /\ create(k, handler.owner, o) /\ outcome("update", k, o)
    BY <1>12 DEF patch_create, PatchBegins
  <2>2. ASSUME NEW j \in Told, wsk = "live", reported, status'[j] = "on"
        PROVE  objects'[j] # "none"
    <3>1. objects[j] # "none" => objects'[j] # "none"
      BY <1>1, <1>10, <2>1, CreateDeploys
    <3>2. CASE status'[j] = status[j]
      BY <2>2, <3>1, <3>2 DEF DeployedInv
    <3>3. CASE status'[j] # status[j]
      <4>1. patch_operator_status(k,
              IF create_raises(k, o) THEN "error"
              ELSE IF k \in {"issuer", "endpoint"} THEN "updated" ELSE "on")
        BY <1>12, <3>3 DEF patch_create
      <4>2. j = k
        BY <1>1, <1>10, <1>11, <3>3, <4>1, StatusWritten
      <4>3. ~create_raises(k, o)
        BY <1>1, <1>10, <2>2, <4>1, <4>2, StatusWritten
      <4>4. o = "ok"
        BY <2>1, <4>2, <4>3, CreateTells DEF Told
      <4> QED
        BY <1>1, <2>1, <4>2, <4>4, CreateDeploys DEF Told
    <3> QED BY <3>2, <3>3
  <2> QED BY <1>9, <2>1, <2>2
<1>13. ASSUME NEW k \in Step, NEW o \in DeleteOutcome, patch_delete(k, o)
       PROVE  DeployedInv'
  <2>1. /\ handler.kind = "update" /\ update_step_ends(k)
        /\ delete(k, handler.owner, o)
        /\ patch_operator_status(k,
             IF delete_raises(k, handler.owner, o) THEN "error" ELSE "off")
    BY <1>13 DEF patch_delete, PatchBegins
  <2>2. ASSUME NEW j \in Told, wsk = "live", reported, status'[j] = "on"
        PROVE  objects'[j] # "none"
    <3>1. j # k
      BY <1>1, <1>10, <2>1, <2>2, StatusWritten
    <3>2. status'[j] = status[j] /\ objects'[j] = objects[j]
      BY <1>1, <1>10, <1>11, <2>1, <3>1, StatusWritten, DeleteRemoves
    <3> QED BY <2>2, <3>2 DEF DeployedInv
  <2> QED BY <1>9, <2>1, <2>2
<1>14. ASSUME NEW k \in PatchStep, NEW o \in Outcome, patch_ingresses(k, o)
       PROVE  DeployedInv'
  <2>1. /\ handler.kind = "update" /\ update_step_ends(k) /\ UNCHANGED objects
        /\ patch_operator_status(k, IF o = "ok" THEN "on" ELSE "error")
        /\ k \in {"minio-ingresses", "seaweedfs-ingresses"}
    BY <1>14 DEF patch_ingresses, PatchBegins
  <2>2. k \notin Told
    BY <2>1 DEF Told, Step, CreateOrder
  <2>3. \A j \in Told : status'[j] = status[j]
    BY <1>1, <1>10, <1>11, <2>1, <2>2, StatusWritten
  <2> QED BY <1>9, <2>1, <2>3 DEF DeployedInv
<1>15. ASSUME NEW k \in Step, NEW o \in DeleteOutcome, delete_step(k, o)
       PROVE  DeployedInv'
  <2>1. wsk' = "deleting"
    BY <1>15 DEF Base, Lifecycle, delete_step, crVars
  <2>2. handler'.kind # "create"
    BY <1>1, <1>15, IdleType DEF TypeOK, Handler, delete_step
  <2> QED BY <2>1, <2>2 DEF DeployedInv
<1>16. CASE delete_done
  BY <1>16, IdleType DEF delete_done, DeployedInv
<1>17. ASSUME UNCHANGED <<crVars, handler>>,
              \A j \in Told : objects'[j] = objects[j]
       PROVE  DeployedInv'
  BY <1>17 DEF crVars, DeployedInv
<1>18. ASSUME NEW o \in DeleteOutcome, preloader_delete(o) PROVE DeployedInv'
  BY <1>1, <1>10, <1>17, <1>18, DeleteRemoves DEF preloader_delete
<1>19. ASSUME NEW o \in Outcome, preloader_create(o) PROVE DeployedInv'
  <2>1. \A j \in Told : objects'[j] = objects[j]
    BY <1>1, <1>10, <1>19, CreateDeploys DEF preloader_create, clusterVars
  <2> QED BY <1>17, <1>19, <2>1 DEF preloader_create
<1> QED
  BY <1>3, <1>4, <1>5, <1>6, <1>7, <1>8, <1>12, <1>13, <1>14, <1>15, <1>16,
     <1>18, <1>19 DEF Next, HandlerStep

\* Whatever update, resume or restart came in between, and whichever calls
\* failed, a component that the status calls "on" was deployed: main.py and
\* the patch functions write "on" only after a create that did not raise, and
\* no later step takes the component down under that status.
THEOREM OnIsDeployed == Spec => []OnMeansDeployed
<1>1. Init => DeployedInv
  BY IdleType DEF Init, DeployedInv
<1>2. Spec => []DeployedInv
  BY <1>1, DeployedStep, BaseInvariant, PTL DEF Spec
<1>3. DeployedInv => OnMeansDeployed
  BY DEF DeployedInv, OnMeansDeployed, Quiescent, Told
<1> QED
  BY <1>2, <1>3, PTL

----------------------------------------------------------------------------
(* What the status calls "off" is gone.                                    *)

\* As long as the owner can be read, nothing is deployed without one but the
\* issuer, and the preloader once its owner is deleted under it; the rest is
\* collected with the resource.
Collected == Step \ {"issuer", "preloader"}

OwnedInv ==
  /\ handler.kind \in {"create", "update"} => handler.owner
  /\ \A k \in Collected :
       /\ objects[k] # "unowned"
       /\ wsk = "absent" => objects[k] = "none"

LEMMA OwnerFound ==
  ASSUME "owner" \notin FaultyHandlers, NEW found, get_owner(found), wsk # "absent"
  PROVE  found
  BY DEF get_owner, Fault

\* An update starts with the owner it has read.
LEMMA UpdateBegins ==
  ASSUME Base, whisk_update
  PROVE  /\ spec \in Specs /\ spec # NoSpec /\ wsk = "live"
         /\ lastHandled # NoSpec /\ handler = Idle /\ cfg'.spec = spec
         /\ UNCHANGED <<wsk, spec, lastHandled, status, reported, watcher, resumed,
                        clusterVars>>
         /\ begins(spec)
         /\ handler'.kind = "update" /\ handler'.of = spec
         /\ get_owner(handler'.owner)
         /\ handler'.todo \in detect_component_changes(lastHandled, spec)
         /\ handler'.left = patch_steps(handler'.todo)
<1>1. /\ spec \in Specs /\ spec # NoSpec /\ wsk = "live" /\ cfg'.spec = spec
      /\ lastHandled # NoSpec /\ handler = Idle /\ begins(spec)
      /\ UNCHANGED <<wsk, spec, lastHandled, status, reported, watcher, resumed,
                     clusterVars>>
  BY SpecFields DEF Base, Lifecycle, whisk_update, Ready, config_from_spec,
     configured_with
<1>2. PICK found \in BOOLEAN, todo \in detect_component_changes(lastHandled, spec) :
        /\ get_owner(found)
        /\ handler' = [Idle EXCEPT
                         !.kind = "update", !.owner = found, !.of = spec,
                         !.todo = todo, !.left = patch_steps(todo)]
  BY DEF whisk_update
<1>3. /\ handler'.kind = "update" /\ handler'.of = spec /\ handler'.owner = found
      /\ handler'.todo = todo /\ handler'.left = patch_steps(todo)
  BY <1>2 DEF Idle
<1> QED BY <1>1, <1>2, <1>3

LEMMA OwnedStep ==
  ASSUME "owner" \notin FaultyHandlers, Base, OwnedInv, [Next]_vars
  PROVE  OwnedInv'
<1>1. TypeOK /\ handler.owner \in BOOLEAN /\ watcher.owner \in BOOLEAN
      /\ "preloader" \in Step /\ Idle.kind = "idle"
  BY OwnerType, IdleType DEF Base
<1>2. ASSUME UNCHANGED objects, wsk' = "absent" => wsk = "absent",
             handler'.kind \in {"create", "update"} => handler'.owner
      PROVE  OwnedInv'
  BY <1>2 DEF OwnedInv
<1>3. CASE whisk_create
  BY <1>1, <1>2, <1>3, CreateBegins, OwnerFound DEF clusterVars
<1>4. CASE whisk_update
  BY <1>1, <1>2, <1>4, UpdateBegins, OwnerFound DEF clusterVars
<1>5. ASSUME NEW s \in Specs, ApplyWhisk(s) PROVE OwnedInv'
  BY <1>1, <1>2, <1>5 DEF ApplyWhisk, clusterVars, OwnedInv
<1>6. CASE \/ DeleteWhisk \/ config_raises \/ runtimes_cm_event_watcher
           \/ UNCHANGED vars
  BY <1>1, <1>2, <1>6 DEF DeleteWhisk, config_raises, runtimes_cm_event_watcher,
     vars, processVars, crVars, clusterVars, OwnedInv
<1>7. CASE \/ whisk_resume \/ whisk_delete \/ create_done \/ patch_raises
           \/ update_done \/ resume_done \/ Restart
  <2>1. UNCHANGED <<objects, wsk>>
    BY <1>7 DEF whisk_resume, whisk_delete, create_done, patch_raises, update_done,
       resume_done, Restart, crVars, clusterVars
  <2>2. handler'.kind \notin {"create", "update"}
    BY <1>1, <1>7 DEF whisk_resume, whisk_delete, create_done, patch_raises,
       update_done, resume_done, Restart, Idle
  <2> QED BY <1>2, <2>1, <2>2
<1>8. ASSUME NEW k \in Step, NEW o, create(k, TRUE, o), wsk' = wsk, wsk # "absent",
             handler'.kind \in {"create", "update"} => handler'.owner
      PROVE  OwnedInv'
  <2>1. \A j \in Collected : objects'[j] \in {objects[j], "owned"}
    BY <1>1, <1>8, CreateDeploys DEF Collected
  <2> QED BY <1>8, <2>1 DEF OwnedInv
<1>9. ASSUME NEW k \in Step, NEW owner \in BOOLEAN, NEW o, delete(k, owner, o),
             wsk' = wsk, handler'.kind \in {"create", "update"} => handler'.owner
      PROVE  OwnedInv'
  <2>1. \A j \in Collected : objects'[j] \in {objects[j], "none"}
    BY <1>1, <1>9, DeleteRemoves DEF Collected
  <2> QED BY <1>9, <2>1 DEF OwnedInv
<1>10. ASSUME NEW k \in Step, NEW o \in Outcome, create_step(k, o) PROVE OwnedInv'
  <2>1. handler.kind = "create" /\ handler # Idle /\ create(k, handler.owner, o)
    BY <1>1, <1>10 DEF create_step
  <2>2. handler.owner /\ wsk # "absent"
    BY <2>1 DEF OwnedInv, Base, Lifecycle
  <2>3. create(k, TRUE, o)
    BY <1>1, <2>1, <2>2
  <2> QED
    BY <1>1, <1>8, <1>10, <2>2, <2>3, CreateGoesOn
<1>11. ASSUME NEW k, update_step_ends(k), handler.kind = "update"
       PROVE  /\ handler.owner /\ wsk' = wsk /\ wsk # "absent"
              /\ handler'.kind \in {"create", "update"} => handler'.owner
  <2>1. handler.owner /\ handler # Idle
    BY <1>1, <1>11 DEF OwnedInv
  <2> QED
    BY <1>1, <1>11, <2>1, UpdateGoesOn DEF Base, Lifecycle
<1>12. ASSUME NEW k \in Step, NEW o \in Outcome, patch_create(k, o) PROVE OwnedInv'
  <2>1. handler.kind = "update" /\ update_step_ends(k) /\ create(k, handler.owner, o)
    BY <1>12 DEF patch_create, PatchBegins
  <2>2. create(k, TRUE, o)
    BY <1>1, <1>11, <2>1
  <2> QED BY <1>8, <1>11, <2>1, <2>2
<1>13. ASSUME NEW k \in Step, NEW o \in DeleteOutcome, patch_delete(k, o)
       PROVE  OwnedInv'
  <2>1. handler.kind = "update" /\ update_step_ends(k) /\ delete(k, handler.owner, o)
    BY <1>13 DEF patch_delete, PatchBegins
  <2> QED BY <1>1, <1>9, <1>11, <2>1
<1>14. ASSUME NEW k \in PatchStep, NEW o \in Outcome, patch_ingresses(k, o)
       PROVE  OwnedInv'
  <2>1. handler.kind = "update" /\ update_step_ends(k) /\ UNCHANGED objects
    BY <1>14 DEF patch_ingresses, PatchBegins
  <2> QED BY <1>2, <1>11, <2>1
<1>15. ASSUME NEW k \in Step, NEW o \in DeleteOutcome, delete_step(k, o)
       PROVE  OwnedInv'
  <2>1. delete(k, FALSE, o) /\ wsk' = wsk
    BY <1>15 DEF delete_step, crVars
  <2>2. handler'.kind \notin {"create", "update"}
    BY <1>1, <1>15 DEF TypeOK, Handler, delete_step
  <2> QED BY <1>9, <2>1, <2>2
<1>16. CASE delete_done
  <2>1. \A k \in Collected : objects'[k] = IF objects[k] = "owned" THEN "none"
                                           ELSE objects[k]
    BY <1>16 DEF delete_done, Collected
  <2>2. \A k \in Collected : objects[k] \in {"none", "owned"}
    BY <1>1 DEF OwnedInv, Collected, TypeOK
  <2>3. handler'.kind = "idle"
    BY <1>1, <1>16 DEF delete_done
  <2> QED BY <2>1, <2>2, <2>3 DEF OwnedInv
<1>17. ASSUME \A j \in Collected : objects'[j] = objects[j], wsk' = wsk,
              handler' = handler
       PROVE  OwnedInv'
  BY <1>17 DEF OwnedInv
<1>18. ASSUME NEW o \in DeleteOutcome, preloader_delete(o) PROVE OwnedInv'
  BY <1>1, <1>17, <1>18, DeleteRemoves DEF preloader_delete, crVars, Collected
<1>19. ASSUME NEW o \in Outcome, preloader_create(o) PROVE OwnedInv'
  <2>1. \A j \in Collected : objects'[j] = objects[j]
    BY <1>1, <1>19, CreateDeploys DEF preloader_create, clusterVars, Collected
  <2> QED BY <1>17, <1>19, <2>1 DEF preloader_create, crVars
<1> QED
  BY <1>3, <1>4, <1>5, <1>6, <1>7, <1>10, <1>12, <1>13, <1>14, <1>15, <1>16,
     <1>18, <1>19 DEF Next, HandlerStep

\* The components that the patcher switches and whose delete tells whether it
\* failed, under their own key of the status.
Switchable == Patched \ {"mongodb", "quota"}

UndeployedInv ==
  /\ handler.kind = "update" => lastHandled # NoSpec
  /\ reported /\ ~abandoned =>
       \A k \in Switchable : status[k] = "off" => objects[k] = "none"
  /\ wsk # "absent" /\ lastHandled = NoSpec /\ ~abandoned =>
       \A k \in Switchable : objects[k] # "none" =>
         attempt # NoSpec /\ CreateWanted(attempt.components, k)
  /\ handler.kind = "create" =>
       /\ lastHandled = NoSpec
       /\ \A k \in handler.left : CreateWanted(handler.of.components, k)
       /\ \A k \in Step : handler.report[k] = "off" =>
                            ~CreateWanted(handler.of.components, k)

LEMMA SwitchableFacts ==
  /\ Switchable \subseteq Collected /\ Switchable \subseteq StatusKey
  /\ \A k \in Switchable : status_key(k) = k /\ k # "preloader"
  /\ "ferretdb" \notin Switchable
  BY DEF Switchable, Patched, Collected, Step, CreateOrder, StatusKey, status_key

\* An attempt that begins while nothing is abandoned goes on with the last one.
LEMMA UndeployedBegins ==
  ASSUME Base, UndeployedInv, spec # NoSpec, wsk # "absent",
         attempt' = spec, abandoned' = (abandoned \/ attempt \notin {NoSpec, spec}),
         UNCHANGED <<wsk, reported, status, objects, lastHandled>>,
         \/ handler'.kind \notin {"create", "update"}
         \/ handler'.kind = "update" /\ lastHandled # NoSpec
  PROVE  UndeployedInv'
<1>1. ~abandoned' => ~abandoned /\ attempt \in {NoSpec, spec} /\ attempt' = spec
  OBVIOUS
<1> QED BY <1>1 DEF UndeployedInv

LEMMA UndeployedCreate ==
  ASSUME Base, OwnedInv, UndeployedInv,
         \/ whisk_create
         \/ \E k \in Step, o \in Outcome : create_step(k, o)
         \/ create_done
  PROVE  UndeployedInv'
<1>0. TypeOK /\ handler.owner \in BOOLEAN /\ Idle.kind = "idle"
  BY OwnerType, IdleType DEF Base
<1>1. CASE whisk_create
  <2>1. /\ ~reported' /\ objects' = objects /\ spec # NoSpec /\ wsk = "live"
        /\ lastHandled = NoSpec
    BY <1>1, CreateBegins DEF clusterVars
  <2>2. CASE handler'.kind = "create"
    <3>1. /\ attempt' = spec /\ lastHandled' = NoSpec /\ handler'.of = spec
          /\ handler'.left = {k \in Step : CreateWanted(spec.components, k)}
          /\ \A k \in Step : handler'.report[k] = "off" =>
                               ~CreateWanted(spec.components, k)
      BY <1>0, <1>1, <2>2, CreateBegins
    <3>2. ~abandoned' => ~abandoned /\ attempt \in {NoSpec, spec}
      BY <1>1, CreateBegins
    <3>3. ~abandoned' => \A k \in Switchable : objects'[k] # "none" =>
            attempt' # NoSpec /\ CreateWanted(attempt'.components, k)
      BY <2>1, <3>1, <3>2 DEF UndeployedInv
    <3> QED BY <2>1, <2>2, <3>1, <3>3 DEF UndeployedInv
  <2>3. CASE handler'.kind # "create"
    <3>1. handler' = Idle /\ lastHandled' # NoSpec
      BY <1>1, <2>1, <2>3, CreateBegins
    <3> QED BY <1>0, <2>1, <3>1 DEF UndeployedInv
  <2> QED BY <2>2, <2>3
<1>2. ASSUME NEW k \in Step, NEW o \in Outcome, create_step(k, o)
      PROVE  UndeployedInv'
  <2>1. /\ handler.kind = "create" /\ create(k, handler.owner, o)
        /\ CreateWanted(handler.of.components, k)
        /\ handler.of # NoSpec /\ attempt = handler.of
    BY <1>2, SpecFields DEF create_step, IsNext, UndeployedInv, Base, HandlerConfig
  <2>2. UNCHANGED <<wsk, lastHandled, attempt, abandoned, reported>>
        /\ lastHandled = NoSpec /\ ~reported
    BY <1>0, <1>2, <2>1, CreateGoesOn DEF UndeployedInv, Base, Lifecycle
  <2>3. ~abandoned => \A j \in Switchable : objects'[j] # "none" =>
          attempt # NoSpec /\ CreateWanted(attempt.components, j)
    <3> SUFFICES ASSUME ~abandoned, NEW j \in Switchable, objects'[j] # "none"
                 PROVE  CreateWanted(attempt.components, j)
      BY <2>1
    <3>1. j = k \/ objects'[j] = objects[j]
      BY <1>0, <2>1, CreateDeploys, SwitchableFacts DEF Collected
    <3>2. wsk # "absent"
      BY <1>0, <2>1 DEF Base, Lifecycle
    <3> QED BY <2>1, <2>2, <3>1, <3>2 DEF UndeployedInv
  <2>4. CASE handler' = Idle
    BY <1>0, <2>2, <2>3, <2>4 DEF UndeployedInv
  <2>5. CASE handler' # Idle
    <3>1. /\ handler'.kind = "create" /\ handler'.of = handler.of
          /\ handler'.left \subseteq handler.left
          /\ \A j \in Step : handler'.report[j] = "off" => handler.report[j] = "off"
      BY <1>0, <1>2, <2>5, CreateGoesOn
    <3> QED BY <2>1, <2>2, <2>3, <3>1 DEF UndeployedInv
  <2> QED BY <2>4, <2>5
<1>3. CASE create_done
  <2>1. /\ handler.kind = "create" /\ handler' = Idle /\ objects' = objects
        /\ handler.of # NoSpec /\ attempt = handler.of
        /\ wsk # "absent" /\ wsk' = wsk /\ abandoned' = abandoned
        /\ lastHandled = NoSpec /\ ~reported
    BY <1>0, <1>3, SpecFields DEF create_done, clusterVars, Base, Lifecycle,
       HandlerConfig, UndeployedInv
  <2>2. CASE UNCHANGED <<lastHandled, attempt, reported, status>>
    BY <1>0, <2>1, <2>2 DEF UndeployedInv
  <2>3. CASE ~UNCHANGED <<lastHandled, attempt, reported, status>>
    <3>1. /\ lastHandled' = handler.of
          /\ status' = [k \in StatusKey |->
                          IF k \in Step THEN handler.report[k] ELSE "?"]
      BY <1>3, <2>3 DEF create_done
    <3>2. \A k \in Switchable : status'[k] = "off" =>
            ~CreateWanted(attempt.components, k)
      BY <2>1, <3>1, SwitchableFacts DEF UndeployedInv, Collected
    <3>3. ~abandoned => \A k \in Switchable : status'[k] = "off" => objects'[k] = "none"
      BY <2>1, <3>2 DEF UndeployedInv
    <3> QED BY <1>0, <2>1, <3>1, <3>3 DEF UndeployedInv
  <2> QED BY <2>2, <2>3
<1> QED BY <1>1, <1>2, <1>3

LEMMA UndeployedUpdate ==
  ASSUME Base, OwnedInv, UndeployedInv,
         \/ \E k \in Step, o \in Outcome : patch_create(k, o)
         \/ \E k \in Step, o \in DeleteOutcome : patch_delete(k, o)
         \/ \E k \in PatchStep, o \in Outcome : patch_ingresses(k, o)
  PROVE  UndeployedInv'
<1>0. TypeOK /\ handler.owner \in BOOLEAN /\ Idle.kind = "idle"
  BY OwnerType, IdleType DEF Base
<1>1. ASSUME NEW k, update_step_ends(k), handler.kind = "update",
             reported =>
               \A j \in Switchable : status'[j] = "off" =>
                 \/ objects'[j] = "none"
                 \/ status[j] = "off" /\ objects'[j] = objects[j]
      PROVE  UndeployedInv'
  <2>1. lastHandled # NoSpec /\ UNCHANGED <<lastHandled, abandoned, reported>>
    BY <1>0, <1>1, UpdateGoesOn DEF UndeployedInv
  <2>2. handler'.kind # "create"
    BY <1>0, <1>1, UpdateGoesOn
  <2> QED BY <1>1, <2>1, <2>2 DEF UndeployedInv
<1>2. ASSUME NEW k \in Step, NEW o \in Outcome, patch_create(k, o)
      PROVE  UndeployedInv'
  <2>1. /\ handler.kind = "update" /\ update_step_ends(k)
        /\ create(k, handler.owner, o)
        /\ \/ status' = status /\ k \notin Switchable
           \/ \E code \in {"error", "updated", "on"} : patch_operator_status(k, code)
    BY <1>2 DEF patch_create, PatchBegins, Switchable, Patched
  <2>2. ASSUME reported, NEW j \in Switchable, status'[j] = "off"
        PROVE  status[j] = "off" /\ objects'[j] = objects[j]
    <3>1. j # k
      BY <1>0, <2>1, <2>2, StatusWritten, SwitchableFacts
    <3>2. status'[j] = status[j]
      <4>1. status_key(k) # j
        BY <3>1, SwitchableFacts DEF status_key
      <4> QED BY <1>0, <2>1, <4>1, StatusWritten, SwitchableFacts
    <3> QED
      BY <1>0, <2>1, <2>2, <3>1, <3>2, CreateDeploys, SwitchableFacts DEF Collected
  <2> QED BY <1>1, <2>1, <2>2
<1>3. ASSUME NEW k \in Step, NEW o \in DeleteOutcome, patch_delete(k, o)
      PROVE  UndeployedInv'
  <2>1. /\ handler.kind = "update" /\ update_step_ends(k)
        /\ handler.owner /\ delete(k, handler.owner, o)
        /\ patch_operator_status(k,
             IF delete_raises(k, handler.owner, o) THEN "error" ELSE "off")
    BY <1>3 DEF patch_delete, PatchBegins, OwnedInv
  <2>2. ASSUME reported, NEW j \in Switchable, status'[j] = "off", j = k
        PROVE  objects'[j] = "none"
    <3>1. ~delete_raises(k, handler.owner, o)
      <4> SUFFICES ASSUME delete_raises(k, handler.owner, o) PROVE FALSE
        OBVIOUS
      <4>1. patch_operator_status(k, "error")
        BY <2>1
      <4> QED BY <1>0, <2>2, <4>1, StatusWritten, SwitchableFacts
    <3>2. k \notin {"endpoint", "quota"}
      BY <2>2 DEF Switchable, Patched
    <3> QED BY <1>0, <2>1, <2>2, <3>1, <3>2, DeleteRemoves
  <2>3. ASSUME reported, NEW j \in Switchable, status'[j] = "off", j # k
        PROVE  status[j] = "off" /\ objects'[j] = objects[j]
    <3>1. status_key(k) # j
      BY <2>3, SwitchableFacts DEF status_key
    <3>2. status'[j] = status[j]
      BY <1>0, <2>1, <3>1, StatusWritten, SwitchableFacts
    <3>3. objects'[j] = objects[j]
      BY <1>0, <2>1, <2>3, DeleteRemoves, SwitchableFacts DEF Collected
    <3> QED BY <2>3, <3>2, <3>3
  <2>4. reported => \A j \in Switchable : status'[j] = "off" =>
                      \/ objects'[j] = "none"
                      \/ status[j] = "off" /\ objects'[j] = objects[j]
    BY <2>2, <2>3
  <2> QED BY <1>1, <2>1, <2>4
<1>4. ASSUME NEW k \in PatchStep, NEW o \in Outcome, patch_ingresses(k, o)
      PROVE  UndeployedInv'
  <2>1. /\ handler.kind = "update" /\ update_step_ends(k) /\ UNCHANGED objects
        /\ patch_operator_status(k, IF o = "ok" THEN "on" ELSE "error")
        /\ k \in {"minio-ingresses", "seaweedfs-ingresses"}
    BY <1>4 DEF patch_ingresses, PatchBegins
  <2>2. \A j \in Switchable : j # status_key(k)
    BY <2>1 DEF status_key, Switchable, Patched
  <2>3. \A j \in Switchable : status'[j] = status[j]
    BY <1>0, <2>1, <2>2, StatusWritten, SwitchableFacts
  <2> QED BY <1>1, <2>1, <2>3
<1> QED BY <1>2, <1>3, <1>4

LEMMA UndeployedStep ==
  ASSUME Base, OwnedInv, UndeployedInv, [Next]_vars
  PROVE  UndeployedInv'
<1>0. TypeOK /\ watcher.owner \in BOOLEAN /\ Idle.kind = "idle" /\ "preloader" \in Step
  BY OwnerType, IdleType DEF Base
<1>1. ASSUME UNCHANGED <<wsk, lastHandled, abandoned, attempt, reported, status>>,
             handler' = handler \/ handler'.kind \notin {"create", "update"},
             \A k \in Switchable : objects'[k] = objects[k]
      PROVE  UndeployedInv'
  <2>1. CASE handler' = handler
    BY <1>1, <2>1 DEF UndeployedInv
  <2>2. CASE handler'.kind \notin {"create", "update"}
    BY <1>1, <2>2 DEF UndeployedInv
  <2> QED BY <1>1, <2>1, <2>2
<1>2. ASSUME NEW s \in Specs, ApplyWhisk(s) PROVE UndeployedInv'
  <2>1. /\ UNCHANGED <<lastHandled, attempt, abandoned, status, reported, handler,
                       objects>>
        /\ wsk' = "live"
    BY <1>2 DEF ApplyWhisk, clusterVars
  <2>2. wsk = "absent" => \A k \in Switchable : objects[k] = "none"
    BY SwitchableFacts DEF OwnedInv
  <2> QED BY <2>1, <2>2 DEF UndeployedInv
<1>3. CASE DeleteWhisk
  BY <1>3 DEF DeleteWhisk, processVars, clusterVars, UndeployedInv
<1>4. CASE runtimes_cm_event_watcher \/ UNCHANGED vars
  BY <1>1, <1>4 DEF runtimes_cm_event_watcher, vars, crVars, processVars, clusterVars
<1>5. CASE config_raises
  <2>1. /\ handler' = Idle /\ spec # NoSpec /\ wsk # "absent"
        /\ UNCHANGED <<wsk, reported, status, objects, lastHandled>>
        /\ begins(spec) \/ UNCHANGED <<attempt, abandoned>>
    BY <1>5, SpecFields DEF config_raises, Ready, clusterVars, Base, Lifecycle
  <2>2. CASE begins(spec)
    <3>1. handler'.kind \notin {"create", "update"}
      BY <1>0, <2>1
    <3> QED BY <2>1, <2>2, <3>1, UndeployedBegins DEF begins
  <2>3. CASE UNCHANGED <<attempt, abandoned>>
    BY <1>0, <1>1, <2>1, <2>3
  <2> QED BY <2>1, <2>2, <2>3
<1>6. CASE whisk_resume
  <2>1. /\ handler'.kind = "resume" /\ spec # NoSpec /\ wsk # "absent"
        /\ UNCHANGED <<wsk, reported, status, objects, lastHandled>>
        /\ begins(spec) \/ UNCHANGED <<attempt, abandoned>>
    BY <1>6, SpecFields DEF whisk_resume, Ready, clusterVars, Base, Lifecycle, Idle
  <2>2. CASE begins(spec)
    <3>1. handler'.kind \notin {"create", "update"}
      BY <1>0, <2>1
    <3> QED BY <2>1, <2>2, <3>1, UndeployedBegins DEF begins
  <2>3. CASE UNCHANGED <<attempt, abandoned>>
    BY <1>0, <1>1, <2>1, <2>3
  <2> QED BY <2>1, <2>2, <2>3
<1>7. CASE whisk_update
  BY <1>7, UpdateBegins, UndeployedBegins DEF clusterVars, begins
<1>8. CASE whisk_delete \/ patch_raises \/ resume_done \/ Restart
  <2>1. handler'.kind \notin {"create", "update"}
    BY <1>0, <1>8 DEF whisk_delete, patch_raises, resume_done, Restart, Idle
  <2> QED
    BY <1>1, <1>8, <2>1 DEF whisk_delete, patch_raises, resume_done, Restart, crVars,
       clusterVars
<1>9. CASE update_done
  <2>1. /\ handler' = Idle /\ lastHandled' # NoSpec
        /\ UNCHANGED <<wsk, abandoned, status, reported, objects>>
    BY <1>0, <1>9, SpecFields DEF update_done, clusterVars, UndeployedInv, Base,
       HandlerConfig
  <2> QED BY <1>0, <2>1 DEF UndeployedInv
<1>10. ASSUME NEW k \in Step, NEW o \in DeleteOutcome, delete_step(k, o)
       PROVE  UndeployedInv'
  <2>1. /\ delete(k, FALSE, o) /\ handler.kind = "delete"
        /\ UNCHANGED <<wsk, lastHandled, abandoned, attempt, reported, status>>
    BY <1>10 DEF delete_step, crVars
  <2>2. handler'.kind \notin {"create", "update"}
    BY <1>0, <1>10 DEF TypeOK, Handler, delete_step
  <2>3. \A j \in Switchable : objects'[j] \in {objects[j], "none"}
    BY <1>0, <2>1, DeleteRemoves, SwitchableFacts DEF Collected
  <2> QED BY <2>1, <2>2, <2>3 DEF UndeployedInv
<1>11. CASE delete_done
  BY <1>0, <1>11 DEF delete_done, UndeployedInv
<1>12. ASSUME NEW o \in DeleteOutcome, preloader_delete(o) PROVE UndeployedInv'
  <2>1. \A j \in Switchable : objects'[j] = objects[j]
    BY <1>0, <1>12, DeleteRemoves, SwitchableFacts DEF preloader_delete, Collected
  <2> QED BY <1>1, <1>12, <2>1 DEF preloader_delete, crVars
<1>13. ASSUME NEW o \in Outcome, preloader_create(o) PROVE UndeployedInv'
  <2>1. \A j \in Switchable : objects'[j] = objects[j]
    BY <1>0, <1>13, CreateDeploys, SwitchableFacts
    DEF preloader_create, clusterVars, Collected
  <2> QED BY <1>1, <1>13, <2>1 DEF preloader_create, crVars
<1> QED
  BY <1>2, <1>3, <1>4, <1>5, <1>6, <1>7, <1>8, <1>9, <1>10, <1>11, <1>12, <1>13,
     UndeployedCreate, UndeployedUpdate DEF Next, HandlerStep

\* As long as the owner can be read, whatever else failed, died or was edited
\* meanwhile, a component that the patcher switches and the status calls "off"
\* is not deployed: "off" is written by whisk_create for what the spec does not
\* enable and by the patch functions after a delete that did not raise.
THEOREM OffIsUndeployed ==
  ASSUME "owner" \notin FaultyHandlers
  PROVE  Spec => []OffMeansGone
<1>1. Init => OwnedInv /\ UndeployedInv
  BY IdleType DEF Init, OwnedInv, UndeployedInv, Collected, NoStatus
<1>2. Base /\ OwnedInv /\ UndeployedInv /\ [Next]_vars
        => OwnedInv' /\ UndeployedInv'
  BY OwnedStep, UndeployedStep
<1>3. UndeployedInv => OffMeansGone
  BY DEF UndeployedInv, OffMeansGone, Quiescent, Switchable
<1> QED
  BY <1>1, <1>2, <1>3, BaseInvariant, PTL DEF Spec
=============================================================================
