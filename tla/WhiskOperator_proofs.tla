------------------------ MODULE WhiskOperator_proofs ------------------------
(***************************************************************************)
(* What holds of the lifecycle of the Whisk resource for every set of      *)
(* specs, every cluster and any number of edits, faults and restarts.      *)
(***************************************************************************)
EXTENDS WhiskOperator, TLAPS

----------------------------------------------------------------------------
(* Lemmas on the operators of the model.                                   *)

\* An applied spec has the fields a spec has.
LEMMA SpecFields ==
  ASSUME NEW s \in Specs
  PROVE  /\ s \in SpecType
         /\ s # NoSpec
         /\ s.apihost \in Host
         /\ apihost_of(s) \in Apihost \ {NoHost, Pending}
<1>1. s \in SpecType /\ s # NoSpec
  BY SpecsAssumption
<1>2. s.apihost \in Host
  BY <1>1 DEF SpecType
<1>3. apihost_of(s) \in Host \X BOOLEAN
  <2>1. ("tls" \in s.components) \in BOOLEAN
    OBVIOUS
  <2>2. \A x \in Host, y \in BOOLEAN : <<x, y>> \in Host \X BOOLEAN
    OBVIOUS
  <2> QED
    BY <1>2, <2>1, <2>2, Zenon DEF apihost_of
<1> QED
  BY <1>1, <1>2, <1>3, HostAssumption DEF Apihost

\* The map of an edit is a map from its keys to actions.
LEMMA DetectType ==
  ASSUME NEW old, NEW new, NEW what \in detect_component_changes(old, new)
  PROVE  what \in WhatToDo
<1>1. \A c : check_component(old, new, c) \in Action
  BY DEF check_component, Action
<1>2. \A st : check_ingresses(old, new, st) \in Action
  BY DEF check_ingresses, Action
<1>3. static_action(old, new) \subseteq Action
  BY <1>1 DEF static_action, Action
<1> QED
  BY <1>1, <1>2, <1>3 DEF detect_component_changes, WhatToDo, Action

\* The idle handler and the two ways to write a status are well typed.
LEMMA IdleType ==
  /\ Idle \in Handler /\ Idle.kind = "idle"
  /\ Unwatched \in Watcher
  /\ NoConfig \in ConfigMap
<1>1. [k \in WhatKey |-> "none"] \in WhatToDo
  BY DEF WhatToDo, Action
<1>2. [k \in Step |-> "?"] \in [Step -> Code]
  BY DEF Code
<1> QED
  BY <1>1, <1>2 DEF Idle, Handler, Unwatched, Watcher, NoConfig, ConfigMap,
     SpecOrNone, Apihost

\* What patch does for a map is among its steps.
LEMMA PatchSteps ==
  ASSUME NEW todo
  PROVE  patch_steps(todo) \subseteq PatchStep
<1>1. DOMAIN PatchOrder = 1 .. 16
  BY DEF PatchOrder
<1>2. /\ PatchOrder[1] = "postgres" /\ PatchOrder[2] = "mongodb"
      /\ PatchOrder[3] = "redis" /\ PatchOrder[4] = "cron"
      /\ PatchOrder[5] = "minio" /\ PatchOrder[6] = "static"
      /\ PatchOrder[7] = "quota" /\ PatchOrder[8] = "etcd"
      /\ PatchOrder[9] = "milvus" /\ PatchOrder[10] = "registry"
      /\ PatchOrder[11] = "invoker" /\ PatchOrder[12] = "openwhisk"
      /\ PatchOrder[13] = "issuer" /\ PatchOrder[14] = "endpoint"
      /\ PatchOrder[15] = "minio-ingresses"
      /\ PatchOrder[16] = "seaweedfs-ingresses"
  BY DEF PatchOrder
<1>3. \A i \in 1 .. 16 : PatchOrder[i] \in PatchStep
  BY <1>1 DEF PatchStep
<1>4. {"postgres", "mongodb", "redis", "cron", "minio", "static", "quota",
       "etcd", "milvus", "registry", "invoker", "openwhisk", "issuer",
       "endpoint", "minio-ingresses", "seaweedfs-ingresses"} \subseteq PatchStep
  <2>1. /\ 1 \in 1 .. 16 /\ 2 \in 1 .. 16 /\ 3 \in 1 .. 16 /\ 4 \in 1 .. 16
        /\ 5 \in 1 .. 16 /\ 6 \in 1 .. 16 /\ 7 \in 1 .. 16 /\ 8 \in 1 .. 16
        /\ 9 \in 1 .. 16 /\ 10 \in 1 .. 16 /\ 11 \in 1 .. 16 /\ 12 \in 1 .. 16
        /\ 13 \in 1 .. 16 /\ 14 \in 1 .. 16 /\ 15 \in 1 .. 16 /\ 16 \in 1 .. 16
    OBVIOUS
  <2> QED
    BY <1>2, <1>3, <2>1
<1> QED
  BY <1>4 DEF patch_steps, Patched

\* A call that fails or not stays within the bound on faults.
LEMMA FaultType ==
  ASSUME TypeOK
  PROVE  /\ NoFault => faults' \in 0 .. MaxFaults
         /\ \A kind : Fault(kind) => faults' \in 0 .. MaxFaults
         /\ \A kind, k, o : outcome(kind, k, o) => faults' \in 0 .. MaxFaults
         /\ \A kind, k, owner, o :
              delete_outcome(kind, k, owner, o) => faults' \in 0 .. MaxFaults
         /\ \A found : get_owner(found) => faults' \in 0 .. MaxFaults
<1>1. MaxFaults \in Nat /\ faults \in 0 .. MaxFaults
  BY BoundsAssumption DEF TypeOK
<1>2. NoFault => faults' \in 0 .. MaxFaults
  BY <1>1 DEF NoFault
<1>3. \A kind : Fault(kind) => faults' \in 0 .. MaxFaults
  BY <1>1 DEF Fault
<1> QED
  BY <1>2, <1>3 DEF outcome, delete_outcome, get_owner

\* A create keeps the types and the spec in the map; only the endpoint
\* touches the apihost, in cm/config and in the map alike.
LEMMA CreateFacts ==
  ASSUME TypeOK, NEW k \in Step, NEW owner, NEW o, create(k, owner, o),
         k = "endpoint" => cfg.spec \in Specs
  PROVE  /\ objects' \in [Step -> {"none", "owned", "unowned"}]
         /\ ingresses' \subseteq WithIngress
         /\ annotation' \in Apihost
         /\ cfg' \in ConfigMap
         /\ cfg'.spec = cfg.spec
         /\ k # "endpoint" => annotation' = annotation /\ cfg'.apihost = cfg.apihost
         /\ k = "endpoint" =>
              IF o \in {"ok", "late"}
              THEN annotation' = apihost_of(cfg.spec) /\ cfg'.apihost = annotation'
              ELSE annotation' = annotation /\ cfg'.apihost = cfg.apihost
<1>1. objects' \in [Step -> {"none", "owned", "unowned"}]
  BY DEF create, TypeOK
<1>2. ingresses' \subseteq WithIngress
  BY DEF create, TypeOK
<1>3. k = "endpoint" => apihost_of(cfg.spec) \in Apihost
  BY SpecFields
<1>4. annotation' \in Apihost
  BY <1>3 DEF create, TypeOK
<1>5. cfg' \in ConfigMap
  BY <1>3 DEF create, TypeOK, ConfigMap
<1>6. cfg'.spec = cfg.spec
  BY DEF create, TypeOK, ConfigMap
<1>7. k # "endpoint" => annotation' = annotation /\ cfg'.apihost = cfg.apihost
  BY DEF create, TypeOK, ConfigMap
<1>8. k = "endpoint" =>
        IF o \in {"ok", "late"}
        THEN annotation' = apihost_of(cfg.spec) /\ cfg'.apihost = annotation'
        ELSE annotation' = annotation /\ cfg'.apihost = cfg.apihost
  BY DEF create, TypeOK, ConfigMap
<1> QED
  BY <1>1, <1>2, <1>4, <1>5, <1>6, <1>7, <1>8

\* A delete keeps the types, the apihost and the spec in the map.
LEMMA DeleteFacts ==
  ASSUME TypeOK, NEW k, NEW owner, NEW o, delete(k, owner, o)
  PROVE  /\ objects' \in [Step -> {"none", "owned", "unowned"}]
         /\ ingresses' \subseteq WithIngress
         /\ annotation' = annotation
         /\ cfg' \in ConfigMap
         /\ cfg'.spec = cfg.spec
         /\ cfg'.apihost = cfg.apihost
<1>1. objects' \in [Step -> {"none", "owned", "unowned"}]
  BY DEF delete, TypeOK
<1>2. ingresses' \subseteq WithIngress /\ annotation' = annotation
  BY DEF delete, TypeOK
<1>3. cfg' \in ConfigMap /\ cfg'.spec = cfg.spec /\ cfg'.apihost = cfg.apihost
  BY DEF delete, TypeOK, ConfigMap
<1> QED
  BY <1>1, <1>2, <1>3

----------------------------------------------------------------------------
(* The inductive invariant.                                                *)

\* What goes with the life of the resource.
Lifecycle ==
  /\ wsk = "absent" => /\ lastHandled = NoSpec /\ attempt = NoSpec
                       /\ ~abandoned /\ ~reported /\ handler = Idle
  /\ wsk # "absent" => spec \in Specs
  /\ handler.kind = "delete" => wsk = "deleting"
  /\ lastHandled = NoSpec => ~reported

\* A running create or update works from the spec in the map, which is the
\* one it has begun; a resume on a spec that was handled works from that one.
HandlerConfig ==
  /\ handler.kind \in {"create", "update"} =>
       /\ handler.of \in Specs
       /\ cfg.spec = handler.of
       /\ attempt = handler.of
  /\ handler.kind = "resume" /\ attempt = NoSpec => cfg.spec = lastHandled

Base == TypeOK /\ Lifecycle /\ HandlerConfig

(* Between the steps of whatever handler, the map is that of the last      *)
(* handled spec unless another one was begun since.                        *)
ConfigHistory ==
  wsk = "live" /\ resumed /\ ~abandoned /\ attempt = NoSpec
    /\ lastHandled # NoSpec => cfg.spec = lastHandled

(* The url in cm/config is that of the last handled spec or of the one     *)
(* begun since, and of the one being handled as soon as a handler is past  *)
(* its endpoint.                                                           *)
endpoint_up == status["endpoint"] \in {"on", "updated"}

PublishedHistory ==
  /\ endpoint_up /\ reported /\ ~abandoned =>
       \/ annotation = apihost_of(lastHandled)
       \/ attempt # NoSpec /\ annotation = apihost_of(attempt)
  /\ handler.kind = "update" /\ "endpoint" \notin handler.left
       /\ endpoint_up /\ reported /\ ~abandoned
       => annotation = apihost_of(handler.of)
  /\ handler.kind = "create" =>
       /\ lastHandled = NoSpec
       /\ handler.report["endpoint"] # "updated"
       /\ handler.report["endpoint"] = "on" => annotation = apihost_of(handler.of)

----------------------------------------------------------------------------
(* One lemma for each handler.                                             *)

LEMMA BaseInit == Init => Base
<1> SUFFICES ASSUME Init PROVE Base
  OBVIOUS
<1>1. /\ MaxEdits \in Nat /\ MaxFaults \in Nat /\ MaxRestarts \in Nat
      /\ MaxRuntimeChanges \in Nat
  BY BoundsAssumption
<1>2. status \in [StatusKey -> Code]
  BY DEF Init, NoStatus, Code
<1>3. objects \in [Step -> {"none", "owned", "unowned"}]
  BY DEF Init
<1>4. TypeOK
  <2>1. /\ 0 \in 0 .. MaxEdits /\ 0 \in 0 .. MaxFaults
        /\ 0 \in 0 .. MaxRestarts /\ 0 \in 0 .. MaxRuntimeChanges
    BY <1>1
  <2>2. NoSpec \in SpecOrNone /\ NoHost \in Apihost
    BY DEF SpecOrNone, Apihost
  <2> QED
    BY <1>2, <1>3, <2>1, <2>2, IdleType, Zenon DEF Init, TypeOK
<1>5. Lifecycle /\ HandlerConfig
  BY DEF Init, Lifecycle, HandlerConfig, Idle
<1> QED
  BY <1>4, <1>5 DEF Base

LEMMA BaseUser ==
  ASSUME Base, (\E s \in Specs : ApplyWhisk(s)) \/ DeleteWhisk
  PROVE  Base'
<1>0. MaxEdits \in Nat
  BY BoundsAssumption
<1>1. ASSUME NEW s \in Specs, ApplyWhisk(s) PROVE Base'
  <2>1. edits' \in 0 .. MaxEdits
    BY <1>0, <1>1 DEF Base, TypeOK, ApplyWhisk
  <2>2. resumed' \in BOOLEAN /\ wsk' = "live" /\ spec' \in SpecOrNone
    BY <1>1, Zenon DEF Base, TypeOK, ApplyWhisk, SpecOrNone
  <2>3. TypeOK'
    BY <1>1, <2>1, <2>2 DEF Base, TypeOK, ApplyWhisk, clusterVars
  <2>4. Lifecycle' /\ HandlerConfig'
    BY <1>1 DEF Base, TypeOK, Lifecycle, HandlerConfig, ApplyWhisk, clusterVars, Idle
  <2> QED
    BY <2>3, <2>4 DEF Base
<1>2. CASE DeleteWhisk
  <2>1. TypeOK'
    BY <1>2 DEF Base, TypeOK, DeleteWhisk, clusterVars, processVars, bounds
  <2>2. Lifecycle' /\ HandlerConfig'
    BY <1>2 DEF Base, Lifecycle, HandlerConfig, DeleteWhisk, clusterVars, processVars
  <2> QED
    BY <2>1, <2>2 DEF Base
<1> QED
  BY <1>1, <1>2

LEMMA BaseConfigRaises ==
  ASSUME Base, config_raises
  PROVE  Base'
<1>1. spec \in Specs /\ handler = Idle /\ handler' = handler
  BY DEF Base, Lifecycle, config_raises, Ready
<1>2. faults' \in 0 .. MaxFaults
  BY FaultType DEF Base, config_raises
<1>3. cfg' \in ConfigMap
  BY <1>1 DEF config_raises, configured_with, ConfigMap, SpecOrNone, Apihost
<1>4. attempt' \in SpecOrNone /\ abandoned' \in BOOLEAN
  BY <1>1 DEF Base, TypeOK, config_raises, begins, SpecOrNone
<1>5. TypeOK'
  BY <1>1, <1>2, <1>3, <1>4 DEF Base, TypeOK, config_raises, clusterVars
<1>6. Lifecycle' /\ HandlerConfig'
  BY <1>1 DEF Base, Lifecycle, HandlerConfig, config_raises, Ready, Idle
<1> QED
  BY <1>5, <1>6 DEF Base

LEMMA BaseCreate ==
  ASSUME Base,
         \/ whisk_create
         \/ \E k \in Step, o \in Outcome : create_step(k, o)
         \/ create_done
  PROVE  Base'
<1>1. CASE whisk_create
  <2>1. spec \in Specs /\ handler = Idle /\ spec # NoSpec
    BY <1>1, SpecFields DEF Base, Lifecycle, whisk_create, Ready
  <2>2. cfg' \in ConfigMap /\ cfg'.spec = spec
    BY <1>1, <2>1 DEF whisk_create, config_from_spec, configured_with,
       ConfigMap, SpecOrNone, Apihost
  <2>3. faults' \in 0 .. MaxFaults
    BY <1>1, FaultType DEF Base, whisk_create
  <2>4. CASE Store \subseteq spec.components
    <3>1. /\ lastHandled' = spec /\ attempt' = NoSpec /\ handler' = handler
          /\ abandoned' \in BOOLEAN
          /\ wsk = "live" /\ wsk' = wsk /\ spec' = spec
      BY <1>1, <2>4 DEF whisk_create, Ready
    <3>2. TypeOK'
      BY <1>1, <2>1, <2>2, <2>3, <3>1
      DEF Base, TypeOK, whisk_create, clusterVars, SpecOrNone
    <3>3. Lifecycle' /\ HandlerConfig'
      BY <2>1, <3>1, IdleType DEF Lifecycle, HandlerConfig
    <3> QED
      BY <3>2, <3>3 DEF Base
  <2>5. CASE ~(Store \subseteq spec.components)
    <3>1. PICK found \in BOOLEAN :
            handler' =
              [Idle EXCEPT
                 !.kind = "create", !.owner = found, !.of = spec,
                 !.left = {k \in Step : CreateWanted(spec.components, k)},
                 !.report = [k \in Step |->
                   IF CreateWanted(spec.components, k)
                      \/ k \in {"zookeeper", "kafka", "invoker"}
                   THEN "?" ELSE "off"]]
      BY <1>1, <2>5 DEF whisk_create
    <3>2. handler' \in Handler /\ handler'.kind = "create" /\ handler'.of = spec
      <4>1. [k \in Step |-> IF CreateWanted(spec.components, k)
                               \/ k \in {"zookeeper", "kafka", "invoker"}
                            THEN "?" ELSE "off"] \in [Step -> Code]
        BY DEF Code
      <4>2. [k \in WhatKey |-> "none"] \in WhatToDo
        BY DEF WhatToDo, Action
      <4> QED
        BY <2>1, <3>1, <4>1, <4>2 DEF Handler, Idle, SpecOrNone
    <3>3. /\ lastHandled' = lastHandled /\ attempt' = spec
          /\ abandoned' \in BOOLEAN
      BY <1>1, <2>5 DEF whisk_create
    <3>4. TypeOK'
      BY <1>1, <2>1, <2>2, <2>3, <3>2, <3>3
      DEF Base, TypeOK, whisk_create, clusterVars, SpecOrNone
    <3>5. Lifecycle' /\ HandlerConfig'
      BY <1>1, <2>1, <2>2, <3>2, <3>3 DEF Base, Lifecycle, HandlerConfig,
         whisk_create, Ready
    <3> QED
      BY <3>4, <3>5 DEF Base
  <2> QED
    BY <2>4, <2>5
<1>2. ASSUME NEW k \in Step, NEW o \in Outcome, create_step(k, o) PROVE Base'
  <2>1. handler.kind = "create" /\ cfg.spec \in Specs
    BY <1>2 DEF Base, HandlerConfig, create_step
  <2>2. /\ objects' \in [Step -> {"none", "owned", "unowned"}]
        /\ ingresses' \subseteq WithIngress
        /\ annotation' \in Apihost
        /\ cfg' \in ConfigMap
        /\ cfg'.spec = cfg.spec
    BY <1>2, <2>1, CreateFacts DEF Base, create_step
  <2>3. faults' \in 0 .. MaxFaults
    BY <1>2, FaultType DEF Base, create_step
  <2>4. \/ handler' = Idle
        \/ /\ handler' \in Handler
           /\ handler'.kind = "create"
           /\ handler'.of = handler.of
    <3> DEFINE pair == IF k \in {"openwhisk", "endpoint"}
                       THEN {"openwhisk", "endpoint"} ELSE {k}
               report == [j \in Step |->
                            IF create_raises(k, o) /\ j \in pair THEN "error"
                            ELSE IF j = k THEN "on" ELSE handler.report[j]]
               left == IF create_raises(k, o)
                       THEN handler.left \ pair ELSE handler.left \ {k}
    <3>1. handler \in Handler
      BY DEF Base, TypeOK
    <3>2. report \in [Step -> Code]
      BY <3>1 DEF Handler, Code
    <3>3. left \in SUBSET (Step \union PatchStep)
      BY <3>1 DEF Handler
    <3>4. handler' = Idle
          \/ handler' = [handler EXCEPT !.left = left, !.report = report]
      BY <1>2 DEF create_step
    <3> HIDE DEF report, left
    <3> QED
      BY <2>1, <3>1, <3>2, <3>3, <3>4 DEF Handler
  <2>5. TypeOK'
    BY <1>2, <2>2, <2>3, <2>4, IdleType DEF Base, TypeOK, create_step, crVars
  <2>6. Lifecycle' /\ HandlerConfig'
    <3>1. /\ wsk' = wsk /\ spec' = spec /\ lastHandled' = lastHandled
          /\ attempt' = attempt /\ abandoned' = abandoned
          /\ reported' = reported
      BY <1>2 DEF create_step, crVars
    <3> QED
      BY <2>1, <2>2, <2>4, <3>1, IdleType DEF Base, Lifecycle, HandlerConfig
  <2> QED
    BY <2>5, <2>6 DEF Base
<1>3. CASE create_done
  <2>1. /\ handler \in Handler /\ handler.kind = "create"
        /\ handler.of \in Specs /\ handler.of # NoSpec /\ handler' = Idle
        /\ wsk # "absent"
    BY <1>3, SpecFields DEF Base, TypeOK, Lifecycle, HandlerConfig, create_done, Idle
  <2>2. status' \in [StatusKey -> Code]
    BY <1>3, <2>1 DEF Base, TypeOK, create_done, Handler, Code
  <2>3. faults' \in 0 .. MaxFaults
    BY <1>3, FaultType DEF Base, create_done
  <2>4. lastHandled' \in SpecOrNone /\ attempt' \in SpecOrNone /\ reported' \in BOOLEAN
    BY <1>3, <2>1 DEF Base, TypeOK, create_done, SpecOrNone
  <2>5. TypeOK'
    BY <1>3, <2>1, <2>2, <2>3, <2>4, IdleType
    DEF Base, TypeOK, create_done, clusterVars
  <2>6. Lifecycle' /\ HandlerConfig'
    BY <1>3, <2>1 DEF Base, Lifecycle, HandlerConfig, create_done, Idle
  <2> QED
    BY <2>5, <2>6 DEF Base
<1> QED
  BY <1>1, <1>2, <1>3

LEMMA BaseUpdate ==
  ASSUME Base,
         \/ whisk_update
         \/ \E k \in Step, o \in Outcome : patch_create(k, o)
         \/ \E k \in Step, o \in DeleteOutcome : patch_delete(k, o)
         \/ \E k \in PatchStep, o \in Outcome : patch_ingresses(k, o)
         \/ patch_raises
         \/ update_done
  PROVE  Base'
<1>1. CASE whisk_update
  <2>1. spec \in Specs /\ handler = Idle /\ wsk = "live"
    BY <1>1 DEF Base, Lifecycle, whisk_update, Ready
  <2>2. cfg' \in ConfigMap /\ cfg'.spec = spec
    BY <1>1, <2>1 DEF whisk_update, config_from_spec, configured_with,
       ConfigMap, SpecOrNone, Apihost
  <2>3. PICK found \in BOOLEAN,
             todo \in detect_component_changes(lastHandled, spec) :
          /\ get_owner(found)
          /\ handler' = [Idle EXCEPT
                           !.kind = "update", !.owner = found, !.of = spec,
                           !.todo = todo, !.left = patch_steps(todo)]
    BY <1>1 DEF whisk_update
  <2>4. handler' \in Handler /\ handler'.kind = "update" /\ handler'.of = spec
    <3>1. [k \in Step |-> "?"] \in [Step -> Code]
      BY DEF Code
    <3>2. todo \in WhatToDo
      BY DetectType
    <3>3. patch_steps(todo) \in SUBSET (Step \union PatchStep)
      BY PatchSteps
    <3> QED
      BY <2>1, <2>3, <3>1, <3>2, <3>3 DEF Handler, Idle, SpecOrNone
  <2>5. faults' \in 0 .. MaxFaults
    BY <2>3, FaultType DEF Base
  <2>6. /\ wsk' = wsk /\ spec' = spec /\ lastHandled' = lastHandled
        /\ attempt' = spec /\ abandoned' \in BOOLEAN /\ reported' = reported
    BY <1>1 DEF whisk_update, begins
  <2>7. TypeOK'
    BY <1>1, <2>1, <2>2, <2>4, <2>5, <2>6
    DEF Base, TypeOK, whisk_update, clusterVars, SpecOrNone
  <2>8. Lifecycle' /\ HandlerConfig'
    BY <2>1, <2>2, <2>4, <2>6 DEF Base, Lifecycle, HandlerConfig
  <2> QED
    BY <2>7, <2>8 DEF Base
<1>2. ASSUME NEW k, update_step_ends(k), handler.kind = "update",
             objects' \in [Step -> {"none", "owned", "unowned"}],
             ingresses' \subseteq WithIngress, annotation' \in Apihost,
             cfg' \in ConfigMap, cfg'.spec = cfg.spec,
             faults' \in 0 .. MaxFaults,
             status' \in [StatusKey -> Code]
      PROVE  Base'
  <2>1. \/ handler' = Idle
        \/ /\ handler' \in Handler
           /\ handler'.kind = "update"
           /\ handler'.of = handler.of
    BY <1>2 DEF Base, TypeOK, update_step_ends, Handler
  <2>2. /\ wsk' = wsk /\ spec' = spec /\ lastHandled' = lastHandled
        /\ attempt' = attempt /\ abandoned' = abandoned
        /\ reported' = reported /\ wsk # "absent"
    BY <1>2 DEF Base, Lifecycle, Idle, update_step_ends
  <2>3. TypeOK'
    BY <1>2, <2>1, <2>2, IdleType DEF Base, TypeOK, update_step_ends
  <2>4. Lifecycle' /\ HandlerConfig'
    BY <1>2, <2>1, <2>2, IdleType DEF Base, Lifecycle, HandlerConfig
  <2> QED
    BY <2>3, <2>4 DEF Base
<1>3. ASSUME NEW k, NEW code \in Code, patch_operator_status(k, code)
      PROVE  status' \in [StatusKey -> Code]
  BY <1>3 DEF Base, TypeOK, patch_operator_status
<1>4. ASSUME NEW k \in Step, NEW o \in Outcome, patch_create(k, o) PROVE Base'
  <2>1. handler.kind = "update" /\ cfg.spec \in Specs
    BY <1>4 DEF Base, HandlerConfig, patch_create, PatchBegins
  <2>2. /\ objects' \in [Step -> {"none", "owned", "unowned"}]
        /\ ingresses' \subseteq WithIngress
        /\ annotation' \in Apihost
        /\ cfg' \in ConfigMap
        /\ cfg'.spec = cfg.spec
    BY <1>4, <2>1, CreateFacts DEF Base, patch_create
  <2>3. status' \in [StatusKey -> Code]
    <3>1. CASE k \in {"openwhisk", "invoker"}
      BY <1>4, <3>1 DEF Base, TypeOK, patch_create
    <3>2. CASE k \notin {"openwhisk", "invoker"}
      <4>1. \E code \in Code : patch_operator_status(k, code)
        BY <1>4, <3>2 DEF patch_create, Code
      <4> QED
        BY <1>3, <4>1
    <3> QED
      BY <3>1, <3>2
  <2>4. faults' \in 0 .. MaxFaults
    BY <1>4, FaultType DEF Base, patch_create
  <2> QED
    BY <1>2, <1>4, <2>1, <2>2, <2>3, <2>4 DEF patch_create
<1>5. ASSUME NEW k \in Step, NEW o \in DeleteOutcome, patch_delete(k, o)
      PROVE  Base'
  <2>1. handler.kind = "update" /\ annotation \in Apihost
    BY <1>5 DEF Base, TypeOK, patch_delete, PatchBegins
  <2>2. /\ objects' \in [Step -> {"none", "owned", "unowned"}]
        /\ ingresses' \subseteq WithIngress
        /\ annotation' = annotation
        /\ cfg' \in ConfigMap
        /\ cfg'.spec = cfg.spec
    BY <1>5, DeleteFacts DEF Base, patch_delete
  <2>3. \E code \in Code : patch_operator_status(k, code)
    BY <1>5 DEF patch_delete, Code
  <2>4. status' \in [StatusKey -> Code]
    BY <1>3, <2>3
  <2>5. faults' \in 0 .. MaxFaults
    BY <1>5, FaultType DEF Base, patch_delete
  <2> QED
    BY <1>2, <1>5, <2>1, <2>2, <2>4, <2>5 DEF patch_delete
<1>6. ASSUME NEW k \in PatchStep, NEW o \in Outcome, patch_ingresses(k, o)
      PROVE  Base'
  <2>1. handler.kind = "update" /\ TypeOK
    BY <1>6 DEF Base, patch_ingresses, PatchBegins
  <2>2. /\ objects' = objects /\ annotation' = annotation /\ cfg' = cfg
        /\ ingresses' \subseteq WithIngress
    BY <1>6, <2>1 DEF patch_ingresses, TypeOK, WithIngress
  <2>3. \E code \in Code : patch_operator_status(k, code)
    BY <1>6 DEF patch_ingresses, Code
  <2>4. status' \in [StatusKey -> Code]
    BY <1>3, <2>3
  <2>5. faults' \in 0 .. MaxFaults
    BY <1>6, FaultType DEF Base, patch_ingresses
  <2> QED
    BY <1>2, <1>6, <2>1, <2>2, <2>4, <2>5 DEF patch_ingresses, TypeOK
<1>7. CASE patch_raises
  <2>1. handler.kind = "update" /\ handler' = Idle
    BY <1>7 DEF patch_raises, PatchBegins
  <2>2. TypeOK'
    BY <1>7, <2>1, IdleType
    DEF Base, TypeOK, patch_raises, crVars, clusterVars, bounds
  <2>3. Lifecycle' /\ HandlerConfig'
    BY <1>7, <2>1, IdleType
    DEF Base, Lifecycle, HandlerConfig, patch_raises, crVars
  <2> QED
    BY <2>2, <2>3 DEF Base
<1>8. CASE update_done
  <2>1. /\ handler.kind = "update" /\ handler' = Idle
        /\ handler.of \in Specs /\ handler.of # NoSpec /\ wsk # "absent"
    BY <1>8, SpecFields, IdleType DEF Base, Lifecycle, HandlerConfig, update_done
  <2>2. faults' \in 0 .. MaxFaults
    BY <1>8, FaultType DEF Base, update_done
  <2>3. \/ lastHandled' = handler.of /\ attempt' = NoSpec
        \/ lastHandled' = lastHandled /\ attempt' = attempt
    BY <1>8 DEF update_done
  <2>4. /\ wsk' = wsk /\ spec' = spec /\ abandoned' = abandoned
        /\ reported' = reported /\ cfg' = cfg
    BY <1>8 DEF update_done
  <2>5. TypeOK'
    BY <1>8, <2>1, <2>2, <2>3, IdleType
    DEF Base, TypeOK, update_done, clusterVars, SpecOrNone
  <2>6. Lifecycle' /\ HandlerConfig'
    BY <2>1, <2>3, <2>4, IdleType DEF Base, Lifecycle, HandlerConfig
  <2> QED
    BY <2>5, <2>6 DEF Base
<1> QED
  BY <1>1, <1>4, <1>5, <1>6, <1>7, <1>8

LEMMA BaseResume ==
  ASSUME Base, whisk_resume \/ resume_done
  PROVE  Base'
<1>1. CASE whisk_resume
  <2>1. spec \in Specs /\ spec # NoSpec /\ handler = Idle /\ wsk = "live"
    BY <1>1, SpecFields DEF Base, Lifecycle, whisk_resume, Ready
  <2>2. cfg' \in ConfigMap /\ cfg'.spec = spec
    BY <1>1, <2>1 DEF Base, TypeOK, whisk_resume, config_from_spec,
       configured_with, ConfigMap, SpecOrNone
  <2>3. handler' \in Handler /\ handler'.kind = "resume"
    BY <1>1, <2>1, IdleType DEF whisk_resume, Handler, SpecOrNone
  <2>4. /\ attempt' \in SpecOrNone /\ abandoned' \in BOOLEAN
        /\ attempt' = NoSpec => lastHandled = spec
    BY <1>1, <2>1 DEF Base, TypeOK, whisk_resume, begins, SpecOrNone
  <2>5. wsk' = wsk /\ spec' = spec /\ lastHandled' = lastHandled /\ reported' = reported
    BY <1>1 DEF whisk_resume
  <2>6. TypeOK'
    BY <1>1, <2>2, <2>3, <2>4 DEF Base, TypeOK, whisk_resume, clusterVars, bounds
  <2>7. Lifecycle' /\ HandlerConfig'
    BY <2>1, <2>2, <2>3, <2>4, <2>5 DEF Base, Lifecycle, HandlerConfig
  <2> QED
    BY <2>6, <2>7 DEF Base
<1>2. CASE resume_done
  <2>1. handler' = Idle /\ handler.kind = "resume" /\ wsk # "absent"
    BY <1>2, IdleType DEF Base, Lifecycle, resume_done
  <2>2. faults' \in 0 .. MaxFaults /\ resumed' \in BOOLEAN
    BY <1>2, FaultType DEF Base, TypeOK, resume_done
  <2>3. TypeOK'
    BY <1>2, <2>1, <2>2, IdleType DEF Base, TypeOK, resume_done, crVars, clusterVars
  <2>4. Lifecycle' /\ HandlerConfig'
    BY <1>2, <2>1, IdleType DEF Base, Lifecycle, HandlerConfig, resume_done, crVars
  <2> QED
    BY <2>3, <2>4 DEF Base
<1> QED
  BY <1>1, <1>2

LEMMA BaseDelete ==
  ASSUME Base,
         \/ whisk_delete
         \/ \E k \in Step, o \in DeleteOutcome : delete_step(k, o)
         \/ delete_done
  PROVE  Base'
<1>1. CASE whisk_delete
  <2>1. handler' \in Handler /\ handler'.kind = "delete"
    <3>1. {k \in Step : DeleteWanted(k)} \in SUBSET (Step \union PatchStep)
      OBVIOUS
    <3> QED
      BY <1>1, <3>1, IdleType DEF whisk_delete, Handler
  <2>2. TypeOK'
    BY <1>1, <2>1 DEF Base, TypeOK, whisk_delete, crVars, clusterVars, bounds
  <2>3. Lifecycle' /\ HandlerConfig'
    BY <1>1, <2>1 DEF Base, Lifecycle, HandlerConfig, whisk_delete, crVars
  <2> QED
    BY <2>2, <2>3 DEF Base
<1>2. ASSUME NEW k \in Step, NEW o \in DeleteOutcome, delete_step(k, o)
      PROVE  Base'
  <2>1. /\ objects' \in [Step -> {"none", "owned", "unowned"}]
        /\ ingresses' \subseteq WithIngress
        /\ annotation' = annotation
        /\ cfg' \in ConfigMap
    BY <1>2, DeleteFacts DEF Base, delete_step
  <2>2. faults' \in 0 .. MaxFaults
    BY <1>2, FaultType DEF Base, delete_step
  <2>3. /\ handler.kind = "delete" /\ wsk = "deleting"
        /\ \/ handler' = Idle
           \/ handler' \in Handler /\ handler'.kind = "delete"
    BY <1>2 DEF Base, TypeOK, Lifecycle, delete_step, Handler
  <2>4. TypeOK'
    BY <1>2, <2>1, <2>2, <2>3, IdleType DEF Base, TypeOK, delete_step, crVars
  <2>5. Lifecycle' /\ HandlerConfig'
    <3>1. /\ wsk' = wsk /\ spec' = spec /\ lastHandled' = lastHandled
          /\ reported' = reported
      BY <1>2 DEF delete_step, crVars
    <3> QED
      BY <2>3, <3>1, IdleType DEF Base, Lifecycle, HandlerConfig
  <2> QED
    BY <2>4, <2>5 DEF Base
<1>3. CASE delete_done
  <2>1. objects' \in [Step -> {"none", "owned", "unowned"}]
    BY <1>3 DEF Base, TypeOK, delete_done
  <2>2. status' \in [StatusKey -> Code]
    BY <1>3 DEF delete_done, NoStatus, Code
  <2>3. watcher' \in Watcher
    BY <1>3 DEF Base, TypeOK, delete_done, Watcher
  <2>4. TypeOK'
    BY <1>3, <2>1, <2>2, <2>3, IdleType
    DEF Base, TypeOK, delete_done, bounds, SpecOrNone
  <2>5. Lifecycle' /\ HandlerConfig'
    BY <1>3, IdleType DEF Base, Lifecycle, HandlerConfig, delete_done
  <2> QED
    BY <2>4, <2>5 DEF Base
<1> QED
  BY <1>1, <1>2, <1>3

LEMMA BaseWatcher ==
  ASSUME Base,
         \/ runtimes_cm_event_watcher
         \/ \E o \in DeleteOutcome : preloader_delete(o)
         \/ \E o \in Outcome : preloader_create(o)
  PROVE  Base'
<1>0. "preloader" \in Step
  BY DEF Step, CreateOrder
<1>1. CASE runtimes_cm_event_watcher
  <2>1. faults' \in 0 .. MaxFaults
    BY <1>1, FaultType DEF Base, runtimes_cm_event_watcher
  <2>2. runtimeChanges' \in 0 .. MaxRuntimeChanges
    BY <1>1, BoundsAssumption DEF Base, TypeOK, runtimes_cm_event_watcher
  <2>3. watcher' \in Watcher
    BY <1>1 DEF runtimes_cm_event_watcher, Watcher
  <2>4. TypeOK'
    BY <1>1, <2>1, <2>2, <2>3
    DEF Base, TypeOK, runtimes_cm_event_watcher, crVars, clusterVars
  <2>5. Lifecycle' /\ HandlerConfig'
    BY <1>1 DEF Base, Lifecycle, HandlerConfig, runtimes_cm_event_watcher, crVars
  <2> QED
    BY <2>4, <2>5 DEF Base
<1>2. ASSUME NEW o \in DeleteOutcome, preloader_delete(o) PROVE Base'
  <2>1. /\ objects' \in [Step -> {"none", "owned", "unowned"}]
        /\ ingresses' \subseteq WithIngress
        /\ annotation' = annotation
        /\ cfg' \in ConfigMap
        /\ cfg'.spec = cfg.spec
    BY <1>2, DeleteFacts DEF Base, preloader_delete
  <2>2. faults' \in 0 .. MaxFaults
    BY <1>2, FaultType DEF Base, preloader_delete
  <2>3. watcher' \in Watcher
    BY <1>2, IdleType DEF Base, TypeOK, preloader_delete, Watcher
  <2>4. TypeOK'
    BY <1>2, <2>1, <2>2, <2>3 DEF Base, TypeOK, preloader_delete, crVars
  <2>5. Lifecycle' /\ HandlerConfig'
    <3>1. UNCHANGED <<wsk, spec, lastHandled, attempt, abandoned, reported, handler>>
      BY <1>2 DEF preloader_delete, crVars
    <3> QED
      BY <2>1, <3>1 DEF Base, Lifecycle, HandlerConfig
  <2> QED
    BY <2>4, <2>5 DEF Base
<1>3. ASSUME NEW o \in Outcome, preloader_create(o) PROVE Base'
  <2>1. /\ objects' \in [Step -> {"none", "owned", "unowned"}]
        /\ ingresses' \subseteq WithIngress
        /\ annotation' \in Apihost
        /\ cfg' \in ConfigMap
        /\ cfg'.spec = cfg.spec
    <3>1. CASE watcher.stale
      BY <1>3, <3>1 DEF Base, TypeOK, preloader_create, clusterVars
    <3>2. CASE ~watcher.stale
      BY <1>0, <1>3, <3>2, CreateFacts DEF Base, preloader_create
    <3> QED
      BY <3>1, <3>2
  <2>2. faults' \in 0 .. MaxFaults
    BY <1>3, FaultType DEF Base, preloader_create
  <2>3. TypeOK'
    BY <1>3, <2>1, <2>2, IdleType DEF Base, TypeOK, preloader_create, crVars
  <2>4. Lifecycle' /\ HandlerConfig'
    <3>1. UNCHANGED <<wsk, spec, lastHandled, attempt, abandoned, reported, handler>>
      BY <1>3 DEF preloader_create, crVars
    <3> QED
      BY <2>1, <3>1 DEF Base, Lifecycle, HandlerConfig
  <2> QED
    BY <2>3, <2>4 DEF Base
<1> QED
  BY <1>1, <1>2, <1>3

LEMMA BaseRestart ==
  ASSUME Base, Restart
  PROVE  Base'
<1>1. restarts' \in 0 .. MaxRestarts
  BY BoundsAssumption DEF Base, TypeOK, Restart
<1>2. TypeOK'
  BY <1>1, IdleType DEF Base, TypeOK, Restart, crVars, clusterVars
<1>3. Lifecycle' /\ HandlerConfig'
  BY IdleType DEF Base, Lifecycle, HandlerConfig, Restart, crVars
<1> QED
  BY <1>2, <1>3 DEF Base

LEMMA BaseStutter ==
  ASSUME Base, UNCHANGED vars
  PROVE  Base'
BY DEF Base, TypeOK, Lifecycle, HandlerConfig, vars, crVars, processVars,
   clusterVars, bounds

----------------------------------------------------------------------------
(* The theorems.                                                           *)

THEOREM BaseInvariant == Spec => []Base
<1>1. Init => Base
  BY BaseInit
<1>2. ASSUME Base, [Next]_vars PROVE Base'
  BY <1>2, BaseUser, BaseConfigRaises, BaseCreate, BaseUpdate, BaseResume,
     BaseDelete, BaseWatcher, BaseRestart, BaseStutter DEF Next, HandlerStep
<1> QED
  BY <1>1, <1>2, PTL DEF Spec

\* The state keeps its shape: handlers and maps hold what the code puts there.
THEOREM TypeCorrect == Spec => []TypeOK
<1>1. Base => TypeOK
  BY DEF Base
<1> QED
  BY <1>1, BaseInvariant, PTL

\* Only the endpoint moves the apihost, and it moves both of its copies.
LEMMA ApihostStep ==
  ASSUME Base, ApihostCoherent, [Next]_vars
  PROVE  ApihostCoherent'
<1>1. CASE config_raises
  BY <1>1 DEF config_raises, configured_with, ApihostCoherent
<1>2. CASE whisk_create
  BY <1>2 DEF whisk_create, config_from_spec, configured_with, ApihostCoherent
<1>3. CASE whisk_update
  BY <1>3 DEF whisk_update, config_from_spec, configured_with, ApihostCoherent
<1>4. CASE whisk_resume
  BY <1>4 DEF whisk_resume, config_from_spec, configured_with, clusterVars,
     ApihostCoherent
<1>5. ASSUME NEW k \in Step, NEW o \in Outcome, create_step(k, o)
      PROVE  ApihostCoherent'
  <2>1. create(k, handler.owner, o) /\ cfg.spec \in Specs
    BY <1>5 DEF Base, HandlerConfig, create_step
  <2> QED
    BY <2>1, CreateFacts DEF Base, ApihostCoherent
<1>6. ASSUME NEW k \in Step, NEW o \in Outcome, patch_create(k, o)
      PROVE  ApihostCoherent'
  <2>1. create(k, handler.owner, o) /\ cfg.spec \in Specs
    BY <1>6 DEF Base, HandlerConfig, patch_create, PatchBegins
  <2> QED
    BY <2>1, CreateFacts DEF Base, ApihostCoherent
<1>7. ASSUME NEW o \in Outcome, preloader_create(o) PROVE ApihostCoherent'
  <2>1. CASE watcher.stale
    BY <1>7, <2>1 DEF preloader_create, clusterVars, ApihostCoherent
  <2>2. CASE ~watcher.stale
    <3>1. "preloader" \in Step /\ create("preloader", watcher.owner, o)
      BY <1>7, <2>2 DEF preloader_create, Step, CreateOrder
    <3> QED
      BY <3>1, CreateFacts DEF Base, ApihostCoherent
  <2> QED
    BY <2>1, <2>2
<1>8. ASSUME NEW k, NEW owner, NEW o, delete(k, owner, o)
      PROVE  ApihostCoherent'
  BY <1>8, DeleteFacts DEF Base, ApihostCoherent
<1>9. CASE UNCHANGED <<cfg, annotation>>
  BY <1>9 DEF ApihostCoherent
<1>10. CASE Restart
  BY <1>10 DEF Restart, NoConfig, ApihostCoherent
<1>11. ASSUME \/ \E s \in Specs : ApplyWhisk(s)
              \/ DeleteWhisk \/ whisk_delete \/ create_done
              \/ \E k \in PatchStep, o \in Outcome : patch_ingresses(k, o)
              \/ patch_raises \/ update_done \/ resume_done \/ delete_done
              \/ runtimes_cm_event_watcher
              \/ UNCHANGED vars
       PROVE  UNCHANGED <<cfg, annotation>>
  BY <1>11 DEF ApplyWhisk, DeleteWhisk, whisk_delete, create_done,
     patch_ingresses, patch_raises, update_done, resume_done, delete_done,
     runtimes_cm_event_watcher, vars, processVars, clusterVars
<1>12. ASSUME \/ \E k \in Step, o \in DeleteOutcome : patch_delete(k, o)
              \/ \E k \in Step, o \in DeleteOutcome : delete_step(k, o)
              \/ \E o \in DeleteOutcome : preloader_delete(o)
       PROVE  \E k, owner, o : delete(k, owner, o)
  BY <1>12 DEF patch_delete, delete_step, preloader_delete
<1> QED
  BY <1>1, <1>2, <1>3, <1>4, <1>5, <1>6, <1>7, <1>8, <1>9, <1>10, <1>11, <1>12
  DEF Next, HandlerStep

(* At any moment, an apihost in the configuration map of the process is    *)
(* the one published in cm/config: get_apihost_from_config_map and         *)
(* endpoint.create are the only sources of it (operator_util.py:119-121,   *)
(* endpoint.py:209-210).                                                   *)
THEOREM ApihostIsCoherent == Spec => []ApihostCoherent
<1>1. Init => ApihostCoherent
  BY DEF Init, NoConfig, ApihostCoherent
<1> QED
  BY <1>1, ApihostStep, BaseInvariant, PTL DEF Spec

\* A handler that is not started leaves the map to be that of the spec.
LEMMA ConfigStep ==
  ASSUME Base, ConfigHistory, [Next]_vars
  PROVE  ConfigHistory'
<1> USE DEF ConfigHistory
<1>1. ASSUME NEW s \in Specs, ApplyWhisk(s) PROVE ConfigHistory'
  BY <1>1 DEF Base, Lifecycle, ApplyWhisk
<1>2. CASE DeleteWhisk
  BY <1>2 DEF DeleteWhisk
<1>3. CASE config_raises
  <2>1. spec # NoSpec
    BY <1>3, SpecFields DEF Base, Lifecycle, config_raises, Ready
  <2> QED
    BY <1>3, <2>1 DEF config_raises, begins
<1>4. CASE whisk_create
  <2>1. spec # NoSpec
    BY <1>4, SpecFields DEF Base, Lifecycle, whisk_create, Ready
  <2>2. cfg'.spec = spec
    BY <1>4 DEF whisk_create, config_from_spec, configured_with
  <2>3. lastHandled' = spec \/ attempt' = spec
    BY <1>4 DEF whisk_create
  <2> QED
    BY <2>1, <2>2, <2>3
<1>5. CASE whisk_update
  <2>1. spec # NoSpec
    BY <1>5, SpecFields DEF Base, Lifecycle, whisk_update, Ready
  <2> QED
    BY <1>5, <2>1 DEF whisk_update, begins
<1>6. CASE whisk_resume
  BY <1>6 DEF whisk_resume
<1>7. CASE create_done \/ update_done
  <2>1. \/ lastHandled' = handler.of /\ cfg'.spec = handler.of
        \/ UNCHANGED <<lastHandled, attempt, cfg>>
    BY <1>7 DEF Base, HandlerConfig, create_done, update_done
  <2>2. UNCHANGED <<wsk, resumed, abandoned>>
    BY <1>7 DEF create_done, update_done
  <2> QED
    BY <2>1, <2>2
<1>8. CASE resume_done
  BY <1>8 DEF Base, HandlerConfig, resume_done, crVars
<1>9. CASE delete_done
  BY <1>9 DEF delete_done
<1>10. CASE Restart
  BY <1>10 DEF Restart
<1>11. CASE cfg'.spec = cfg.spec /\ UNCHANGED <<crVars, resumed>>
  BY <1>11 DEF crVars
<1>12. CASE cfg'.spec = cfg.spec
            /\ UNCHANGED <<wsk, lastHandled, attempt, abandoned, resumed>>
  BY <1>12
<1>13. ASSUME NEW k \in Step, NEW o \in Outcome,
              create_step(k, o) \/ patch_create(k, o)
       PROVE  ConfigHistory'
  <2>1. create(k, handler.owner, o) /\ cfg.spec \in Specs
    BY <1>13 DEF Base, HandlerConfig, create_step, patch_create, PatchBegins
  <2>2. UNCHANGED <<wsk, lastHandled, attempt, abandoned, resumed>>
    BY <1>13 DEF create_step, patch_create, update_step_ends, crVars
  <2> QED
    BY <1>12, <2>1, <2>2, CreateFacts DEF Base
<1>14. ASSUME NEW k \in Step, NEW o \in DeleteOutcome,
              delete_step(k, o) \/ patch_delete(k, o)
       PROVE  ConfigHistory'
  <2>1. \E owner : delete(k, owner, o)
    BY <1>14 DEF delete_step, patch_delete
  <2>2. UNCHANGED <<wsk, lastHandled, attempt, abandoned, resumed>>
    BY <1>14 DEF delete_step, patch_delete, update_step_ends, crVars
  <2> QED
    BY <1>12, <2>1, <2>2, DeleteFacts DEF Base
<1>15. ASSUME NEW o, preloader_delete(o) PROVE ConfigHistory'
  <2>1. delete("preloader", watcher.owner, o) /\ UNCHANGED <<crVars, resumed>>
    BY <1>15 DEF preloader_delete
  <2> QED
    BY <1>11, <2>1, DeleteFacts DEF Base
<1>16. ASSUME NEW o \in Outcome, preloader_create(o) PROVE ConfigHistory'
  <2>1. UNCHANGED <<crVars, resumed>>
    BY <1>16 DEF preloader_create
  <2>2. CASE watcher.stale
    BY <1>11, <1>16, <2>1, <2>2 DEF preloader_create
  <2>3. CASE ~watcher.stale
    <3>1. "preloader" \in Step /\ create("preloader", watcher.owner, o)
      BY <1>16, <2>3 DEF preloader_create, Step, CreateOrder
    <3> QED
      BY <1>11, <2>1, <3>1, CreateFacts DEF Base
  <2> QED
    BY <2>2, <2>3
<1>17. ASSUME \/ \E k \in PatchStep, o \in Outcome : patch_ingresses(k, o)
              \/ patch_raises \/ whisk_delete \/ runtimes_cm_event_watcher
              \/ UNCHANGED vars
       PROVE  ConfigHistory'
  <2>1. UNCHANGED <<wsk, lastHandled, attempt, abandoned, resumed, cfg>>
    BY <1>17 DEF patch_ingresses, update_step_ends, patch_raises, whisk_delete,
       runtimes_cm_event_watcher, vars, processVars, crVars
  <2> QED
    BY <1>12, <2>1
<1> QED
  BY <1>1, <1>2, <1>3, <1>4, <1>5, <1>6, <1>7, <1>8, <1>9, <1>10, <1>13, <1>14,
     <1>15, <1>16, <1>17 DEF Next, HandlerStep

(* When the operator has handled the present spec, the map that all the    *)
(* threads of the process read is that of this spec, whatever handlers     *)
(* failed, were retried or died in between.                                *)
THEOREM ConfigIsCoherent == Spec => []CfgCoherent
<1>1. Init => ConfigHistory
  BY DEF Init, ConfigHistory
<1>2. Spec => []ConfigHistory
  BY <1>1, ConfigStep, BaseInvariant, PTL DEF Spec
<1>3. Base /\ ConfigHistory => CfgCoherent
  BY SpecFields DEF Base, Lifecycle, ConfigHistory, CfgCoherent, Quiescent
<1> QED
  BY <1>2, <1>3, BaseInvariant, PTL

\* An edit that does not touch the endpoint leaves the url as it is.
LEMMA EndpointChange ==
  ASSUME NEW old, NEW new, NEW todo \in detect_component_changes(old, new),
         "endpoint" \notin patch_steps(todo)
  PROVE  apihost_of(old) = apihost_of(new)
<1>1. todo["endpoint"] # "update"
  BY DEF patch_steps
<1>2. todo["endpoint"] =
        IF endpoint_changed(old, new) THEN "update" ELSE "none"
  BY DEF detect_component_changes, WhatKey
<1>3. ~endpoint_changed(old, new)
  BY <1>1, <1>2
<1>4. old.apihost = new.apihost
      /\ ("tls" \in old.components <=> "tls" \in new.components)
  BY <1>3 DEF endpoint_changed, Switched
<1>5. ("tls" \in old.components) = ("tls" \in new.components)
  BY <1>4
<1> QED
  BY <1>4, <1>5, Zenon DEF apihost_of

LEMMA PublishedCreate ==
  ASSUME Base, PublishedHistory,
         \/ whisk_create
         \/ \E k \in Step, o \in Outcome : create_step(k, o)
         \/ create_done
  PROVE  PublishedHistory'
<1>0. "endpoint" \in Step /\ "endpoint" \in StatusKey
  BY DEF Step, CreateOrder, StatusKey
<1>1. CASE whisk_create
  <2>1. lastHandled = NoSpec /\ ~reported /\ reported' = reported /\ handler = Idle
    BY <1>1 DEF Base, Lifecycle, whisk_create, Ready
  <2>2. CASE handler' = handler
    BY <2>1, <2>2, IdleType DEF PublishedHistory
  <2>3. CASE handler' # handler
    <3>1. /\ lastHandled' = lastHandled /\ handler'.kind = "create"
          /\ handler'.report["endpoint"] \notin {"on", "updated"}
      <4>1. PICK found \in BOOLEAN :
              handler' =
                [Idle EXCEPT
                   !.kind = "create", !.owner = found, !.of = spec,
                   !.left = {k \in Step : CreateWanted(spec.components, k)},
                   !.report = [k \in Step |->
                     IF CreateWanted(spec.components, k)
                        \/ k \in {"zookeeper", "kafka", "invoker"}
                     THEN "?" ELSE "off"]]
        BY <1>1, <2>3 DEF whisk_create
      <4>2. handler'.report = [k \in Step |->
              IF CreateWanted(spec.components, k)
                 \/ k \in {"zookeeper", "kafka", "invoker"}
              THEN "?" ELSE "off"]
        BY <4>1 DEF Idle
      <4>3. handler'.kind = "create"
        BY <4>1 DEF Idle
      <4>4. lastHandled' = lastHandled
        BY <1>1, <2>3 DEF whisk_create
      <4> QED
        BY <1>0, <4>2, <4>3, <4>4
    <3> QED
      BY <2>1, <3>1 DEF PublishedHistory
  <2> QED
    BY <2>2, <2>3
<1>2. ASSUME NEW k \in Step, NEW o \in Outcome, create_step(k, o)
      PROVE  PublishedHistory'
  <2>1. /\ handler.kind = "create" /\ lastHandled = NoSpec /\ ~reported
        /\ reported' = reported /\ lastHandled' = lastHandled
        /\ cfg.spec = handler.of /\ handler.of \in Specs /\ handler \in Handler
    BY <1>2 DEF Base, TypeOK, Lifecycle, HandlerConfig, PublishedHistory,
       create_step, crVars
  <2>2. create(k, handler.owner, o) /\ outcome("create", k, o)
    BY <1>2 DEF create_step
  <2>3. \/ handler' = Idle
        \/ /\ handler'.kind = "create"
           /\ handler'.of = handler.of
           /\ handler'.report["endpoint"] =
                IF create_raises(k, o) /\ k \in {"openwhisk", "endpoint"} THEN "error"
                ELSE IF k = "endpoint" THEN "on" ELSE handler.report["endpoint"]
    <3> DEFINE pair == IF k \in {"openwhisk", "endpoint"}
                       THEN {"openwhisk", "endpoint"} ELSE {k}
               report == [j \in Step |->
                            IF create_raises(k, o) /\ j \in pair THEN "error"
                            ELSE IF j = k THEN "on" ELSE handler.report[j]]
               left == IF create_raises(k, o)
                       THEN handler.left \ pair ELSE handler.left \ {k}
    <3>1. handler' = Idle
          \/ handler' = [handler EXCEPT !.left = left, !.report = report]
      BY <1>2 DEF create_step
    <3>2. report["endpoint"] =
            IF create_raises(k, o) /\ k \in {"openwhisk", "endpoint"} THEN "error"
            ELSE IF k = "endpoint" THEN "on" ELSE handler.report["endpoint"]
      BY <1>0
    <3> HIDE DEF report, left
    <3> QED
      BY <2>1, <3>1, <3>2 DEF Handler
  <2>4. CASE handler' = Idle
    BY <2>1, <2>4, IdleType DEF PublishedHistory
  <2>5. CASE handler' # Idle /\ k = "endpoint"
    <3>1. ~create_raises(k, o) => o = "ok"
      BY <2>2, <2>5 DEF create_raises, outcome
    <3>2. o = "ok" => annotation' = apihost_of(cfg.spec)
      BY <2>1, <2>2, <2>5, CreateFacts DEF Base
    <3> QED
      BY <2>1, <2>3, <2>5, <3>1, <3>2 DEF PublishedHistory
  <2>6. CASE handler' # Idle /\ k # "endpoint"
    <3>1. annotation' = annotation
      BY <2>1, <2>2, <2>6, CreateFacts DEF Base
    <3> QED
      BY <2>1, <2>3, <2>6, <3>1 DEF PublishedHistory
  <2> QED
    BY <2>4, <2>5, <2>6
<1>3. CASE create_done
  <2>1. /\ handler.kind = "create" /\ handler' = Idle /\ annotation' = annotation
        /\ lastHandled = NoSpec /\ ~reported
    BY <1>3 DEF Base, Lifecycle, PublishedHistory, create_done, clusterVars
  <2>2. CASE reported'
    <3>1. lastHandled' = handler.of /\ status'["endpoint"] = handler.report["endpoint"]
      BY <1>0, <1>3, <2>1, <2>2 DEF create_done
    <3>2. endpoint_up' => annotation' = apihost_of(lastHandled')
      BY <2>1, <3>1 DEF PublishedHistory, endpoint_up
    <3> QED
      BY <2>1, <3>2, IdleType DEF PublishedHistory
  <2>3. CASE ~reported'
    BY <2>1, <2>3, IdleType DEF PublishedHistory
  <2> QED
    BY <2>2, <2>3
<1> QED
  BY <1>1, <1>2, <1>3

LEMMA PublishedUpdate ==
  ASSUME Base, PublishedHistory,
         \/ whisk_update
         \/ \E k \in Step, o \in Outcome : patch_create(k, o)
         \/ \E k \in Step, o \in DeleteOutcome : patch_delete(k, o)
         \/ \E k \in PatchStep, o \in Outcome : patch_ingresses(k, o)
         \/ patch_raises
         \/ update_done
  PROVE  PublishedHistory'
<1>0. "endpoint" \in StatusKey
  BY DEF StatusKey, Step, CreateOrder
<1>1. CASE whisk_update
  <2>1. /\ spec \in Specs /\ spec # NoSpec
        /\ UNCHANGED <<status, reported, lastHandled, annotation>>
        /\ attempt' = spec
        /\ abandoned' = (abandoned \/ attempt \notin {NoSpec, spec})
    BY <1>1, SpecFields DEF Base, Lifecycle, whisk_update, Ready, begins, clusterVars
  <2>2. PICK found \in BOOLEAN,
             todo \in detect_component_changes(lastHandled, spec) :
          handler' = [Idle EXCEPT
                        !.kind = "update", !.owner = found, !.of = spec,
                        !.todo = todo, !.left = patch_steps(todo)]
    BY <1>1 DEF whisk_update
  <2>3. /\ handler'.kind = "update" /\ handler'.of = spec
        /\ handler'.left = patch_steps(todo)
    BY <2>2 DEF Idle
  <2>4. "endpoint" \notin handler'.left => apihost_of(lastHandled) = apihost_of(spec)
    BY <2>3, EndpointChange
  <2> QED
    BY <2>1, <2>3, <2>4 DEF PublishedHistory, endpoint_up
<1>2. ASSUME NEW k, update_step_ends(k), handler.kind = "update", k # "endpoint",
             annotation' = annotation,
             status'["endpoint"] = status["endpoint"]
      PROVE  PublishedHistory'
  <2>1. \/ handler' = Idle
        \/ /\ handler'.kind = "update" /\ handler'.of = handler.of
           /\ handler'.left = handler.left \ {k}
    BY <1>2 DEF Base, TypeOK, Handler, update_step_ends
  <2>2. UNCHANGED <<lastHandled, attempt, abandoned, reported>>
    BY <1>2 DEF update_step_ends
  <2> QED
    BY <1>2, <2>1, <2>2, IdleType DEF PublishedHistory, endpoint_up
<1>3. ASSUME NEW k, NEW code, k # "endpoint", patch_operator_status(k, code)
      PROVE  status'["endpoint"] = status["endpoint"]
  BY <1>3 DEF Base, TypeOK, patch_operator_status, status_key
<1>4. ASSUME NEW k \in Step, NEW o \in Outcome, patch_create(k, o)
      PROVE  PublishedHistory'
  <2>1. /\ handler.kind = "update" /\ handler \in Handler
        /\ cfg.spec = handler.of /\ handler.of \in Specs
        /\ attempt = handler.of /\ attempt # NoSpec
    BY <1>4, SpecFields
    DEF Base, TypeOK, HandlerConfig, patch_create, PatchBegins
  <2>2. create(k, handler.owner, o) /\ outcome("update", k, o) /\ update_step_ends(k)
    BY <1>4 DEF patch_create
  <2>3. CASE k = "endpoint"
    <3>1. patch_operator_status(k, IF create_raises(k, o) THEN "error" ELSE "updated")
      BY <1>4, <2>3 DEF patch_create
    <3>2. reported => status'["endpoint"] =
                        IF create_raises(k, o) THEN "error" ELSE "updated"
      BY <1>0, <2>3, <3>1
      DEF Base, TypeOK, patch_operator_status, status_key
    <3>3. ~create_raises(k, o) => o = "ok"
      BY <2>2, <2>3 DEF create_raises, outcome
    <3>4. o = "ok" => annotation' = apihost_of(handler.of)
      BY <2>1, <2>2, <2>3, CreateFacts DEF Base
    <3>5. UNCHANGED <<lastHandled, attempt, abandoned, reported>>
      BY <2>2 DEF update_step_ends
    <3>6. endpoint_up' /\ reported => annotation' = apihost_of(handler.of)
      BY <3>2, <3>3, <3>4 DEF endpoint_up
    <3>7. \/ handler' = Idle
          \/ handler'.kind = "update" /\ handler'.of = handler.of
      BY <2>1, <2>2 DEF Handler, update_step_ends
    <3> QED
      BY <2>1, <3>5, <3>6, <3>7, IdleType DEF PublishedHistory
  <2>4. CASE k # "endpoint"
    <3>1. annotation' = annotation
      BY <2>1, <2>2, <2>4, CreateFacts DEF Base
    <3>2. status' = status \/ \E code : patch_operator_status(k, code)
      BY <1>4, <2>4 DEF patch_create
    <3>3. status'["endpoint"] = status["endpoint"]
      BY <1>3, <2>4, <3>2
    <3> QED
      BY <1>2, <2>1, <2>2, <2>4, <3>1, <3>3
  <2> QED
    BY <2>3, <2>4
<1>5. ASSUME NEW k \in Step, NEW o \in DeleteOutcome, patch_delete(k, o)
      PROVE  PublishedHistory'
  <2>1. handler.kind = "update" /\ k # "endpoint" /\ update_step_ends(k)
    BY <1>5 DEF patch_delete, PatchBegins, patch_creates
  <2>2. annotation' = annotation
    BY <1>5, DeleteFacts DEF Base, patch_delete
  <2>3. \E code : patch_operator_status(k, code)
    BY <1>5 DEF patch_delete
  <2>4. status'["endpoint"] = status["endpoint"]
    BY <1>3, <2>1, <2>3
  <2> QED
    BY <1>2, <2>1, <2>2, <2>4
<1>6. ASSUME NEW k \in PatchStep, NEW o \in Outcome, patch_ingresses(k, o)
      PROVE  PublishedHistory'
  <2>1. /\ handler.kind = "update" /\ k # "endpoint" /\ update_step_ends(k)
        /\ annotation' = annotation
    BY <1>6 DEF patch_ingresses, PatchBegins
  <2>2. \E code : patch_operator_status(k, code)
    BY <1>6 DEF patch_ingresses
  <2>3. status'["endpoint"] = status["endpoint"]
    BY <1>3, <2>1, <2>2
  <2> QED
    BY <1>2, <2>1, <2>3
<1>7. CASE patch_raises
  BY <1>7, IdleType
  DEF patch_raises, crVars, clusterVars, PublishedHistory, endpoint_up
<1>8. CASE update_done
  <2>1. /\ handler.kind = "update" /\ handler.left = {} /\ handler' = Idle
        /\ UNCHANGED <<status, reported, abandoned, annotation>>
        /\ \/ lastHandled' = handler.of /\ attempt' = NoSpec
           \/ UNCHANGED <<lastHandled, attempt>>
    BY <1>8 DEF update_done, clusterVars
  <2> QED
    BY <2>1, IdleType DEF PublishedHistory, endpoint_up
<1> QED
  BY <1>1, <1>4, <1>5, <1>6, <1>7, <1>8

LEMMA PublishedStep ==
  ASSUME Base, PublishedHistory, [Next]_vars
  PROVE  PublishedHistory'
<1>1. ASSUME NEW s \in Specs, ApplyWhisk(s) PROVE PublishedHistory'
  BY <1>1 DEF ApplyWhisk, clusterVars, PublishedHistory, endpoint_up
<1>2. CASE DeleteWhisk \/ UNCHANGED vars \/ runtimes_cm_event_watcher
  BY <1>2 DEF DeleteWhisk, runtimes_cm_event_watcher, vars, crVars, processVars,
     clusterVars, PublishedHistory, endpoint_up
<1>3. CASE config_raises \/ whisk_resume
  <2>1. /\ handler = Idle
        /\ UNCHANGED <<status, reported, lastHandled, annotation>>
        /\ handler'.kind \in {"idle", "resume"}
        /\ UNCHANGED <<attempt, abandoned>> \/ begins(spec)
    BY <1>3, IdleType
    DEF config_raises, whisk_resume, Ready, clusterVars, Idle
  <2>2. spec # NoSpec
    BY <1>3, SpecFields DEF Base, Lifecycle, config_raises, whisk_resume, Ready
  <2>3. begins(spec) => /\ attempt' = spec
                        /\ ~abandoned' => ~abandoned /\ attempt \in {NoSpec, spec}
    BY DEF begins
  <2> QED
    BY <2>1, <2>2, <2>3 DEF PublishedHistory, endpoint_up
<1>4. CASE whisk_delete \/ resume_done \/ Restart
  <2>1. /\ handler'.kind \in {"idle", "delete"}
        /\ UNCHANGED <<status, reported, lastHandled, attempt, abandoned, annotation>>
    BY <1>4, IdleType
    DEF whisk_delete, resume_done, Restart, Idle, crVars, clusterVars
  <2> QED
    BY <2>1 DEF PublishedHistory, endpoint_up
<1>5. ASSUME NEW k \in Step, NEW o \in DeleteOutcome, delete_step(k, o)
      PROVE  PublishedHistory'
  <2>1. annotation' = annotation
    BY <1>5, DeleteFacts DEF Base, delete_step
  <2>2. /\ handler'.kind \in {"idle", "delete"}
        /\ UNCHANGED <<status, reported, lastHandled, attempt, abandoned>>
    BY <1>5, IdleType DEF Base, TypeOK, Handler, delete_step, crVars
  <2> QED
    BY <2>1, <2>2 DEF PublishedHistory, endpoint_up
<1>6. CASE delete_done
  BY <1>6, IdleType DEF delete_done, PublishedHistory
<1>7. ASSUME UNCHANGED <<crVars, handler>>, annotation' = annotation
      PROVE  PublishedHistory'
  BY <1>7 DEF crVars, PublishedHistory, endpoint_up
<1>8. ASSUME NEW o, preloader_delete(o) PROVE PublishedHistory'
  <2>1. annotation' = annotation
    BY <1>8, DeleteFacts DEF Base, preloader_delete
  <2> QED
    BY <1>7, <1>8, <2>1 DEF preloader_delete
<1>9. ASSUME NEW o \in Outcome, preloader_create(o) PROVE PublishedHistory'
  <2>1. CASE watcher.stale
    BY <1>7, <1>9, <2>1 DEF preloader_create, clusterVars
  <2>2. CASE ~watcher.stale
    <3>1. "preloader" \in Step /\ create("preloader", watcher.owner, o)
      BY <1>9, <2>2 DEF preloader_create, Step, CreateOrder
    <3>2. annotation' = annotation
      BY <3>1, CreateFacts DEF Base
    <3> QED
      BY <1>7, <1>9, <3>2 DEF preloader_create
  <2> QED
    BY <2>1, <2>2
<1> QED
  BY <1>1, <1>2, <1>3, <1>4, <1>5, <1>6, <1>8, <1>9, PublishedCreate,
     PublishedUpdate DEF Next, HandlerStep

(* When the status says that the endpoint is published and the present     *)
(* spec is handled, the url in cm/config is the one of this spec: neither  *)
(* a failed endpoint.create that got half-way nor an update that was tried *)
(* several times leaves the old one there under a good status.             *)
THEOREM PublishedApihostIsCurrent == Spec => []PublishedApihost
<1>1. Init => PublishedHistory
  BY IdleType DEF Init, PublishedHistory
<1>2. Spec => []PublishedHistory
  BY <1>1, PublishedStep, BaseInvariant, PTL DEF Spec
<1>3. PublishedHistory => PublishedApihost
  BY DEF PublishedHistory, PublishedApihost, Quiescent, endpoint_up
<1> QED
  BY <1>2, <1>3, PTL
=============================================================================
