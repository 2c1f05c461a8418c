------------------------ MODULE WhiskDeletion_proofs ------------------------
(***************************************************************************)
(* What the deletion of the Whisk resource leaves in the namespace.        *)
(*                                                                         *)
(* The handler deletes what the configuration map enables, and the         *)
(* ingresses have no owner: something stays behind as soon as the map has  *)
(* forgotten a component.  The theorem is therefore about an operator that *)
(* ran undisturbed and about edits that the patcher can follow; within     *)
(* them it holds for every set of specs and any number of edits, deletions *)
(* and creations.                                                          *)
(***************************************************************************)
EXTENDS WhiskDeployment_proofs

\* No call failed, the process did not die and the runtimes did not change.
Undisturbed ==
  FaultyHandlers = {} /\ MaxRestarts = 0 /\ MaxRuntimeChanges = 0

\* The edits the patcher follows: it has no step for the switches of OpenWhisk
\* and of seaweedfs, and gives the registry the action of milvus.  A store that
\* is off has no ingress, and no spec is refused.
Followable ==
  \A s, t \in Specs :
    /\ "openwhisk" \in s.components
    /\ s.ingress \subseteq s.components
    /\ ~(Store \subseteq s.components)
    /\ \A c \in {"registry", "seaweedfs"} : c \in s.components <=> c \in t.components

----------------------------------------------------------------------------
(* The inductive invariant.                                                *)

\* Nothing but the handlers of the resource runs, and between them the map is
\* that of the last handled spec.
QuietInv ==
  /\ resumed /\ watcher = Unwatched /\ handler.kind # "resume"
  /\ lastHandled # NoSpec => reported
  /\ handler.kind = "create" => lastHandled = NoSpec
  /\ handler.kind = "update" => lastHandled # NoSpec
  /\ handler.kind \in {"idle", "delete"} /\ lastHandled # NoSpec
       => cfg.spec = lastHandled
  /\ objects["preloader"] # "unowned"
  /\ wsk = "absent" => objects["preloader"] = "none"

IngressWanted(c) == c = "endpoint" \/ c \in cfg.spec.components

\* Every ingress belongs to a component that the map enables, or that the
\* running edit still has to delete.
IngressInv ==
  /\ lastHandled = NoSpec /\ handler.kind # "create" => ingresses = {}
  /\ \A c \in ingresses :
       \/ IngressWanted(c)
       \/ handler.kind = "update" /\ c \in handler.left /\ handler.todo[c] = "delete"
  /\ handler.kind = "create" =>
       \A k \in handler.left : CreateWanted(handler.of.components, k)
  /\ handler.kind = "update" =>
       /\ "registry" \notin handler.left
       /\ "minio-ingresses" \in handler.left => "minio" \in handler.of.components
       /\ "seaweedfs-ingresses" \in handler.left =>
            "seaweedfs" \in handler.of.components
  /\ handler.kind = "delete" => ingresses \subseteq handler.left

LeftInv == QuietInv /\ IngressInv

----------------------------------------------------------------------------
(* Lemmas on what an undisturbed operator does.                            *)

\* No call fails.
LEMMA QuietCalls ==
  ASSUME Undisturbed
  PROVE  /\ "owner" \notin FaultyHandlers
         /\ \A kind : ~Fault(kind)
         /\ \A kind, k, o : outcome(kind, k, o) => o = "ok" /\ ~create_raises(k, o)
         /\ \A kind, k, owner, o : delete_outcome(kind, k, owner, o) => o = "ok"
<1>1. \A kind : ~Fault(kind)
  BY DEF Undisturbed, Fault
<1> QED BY <1>1 DEF Undisturbed, outcome, create_raises, delete_outcome

\* Nothing runs but the handlers that create, update and delete.
LEMMA QuietActions ==
  ASSUME Undisturbed, Base, QuietInv
  PROVE  /\ ~config_raises /\ ~whisk_resume /\ ~resume_done
         /\ ~runtimes_cm_event_watcher /\ ~Restart
         /\ \A o : ~preloader_delete(o) /\ ~preloader_create(o)
<1>1. ~config_raises /\ ~whisk_resume
  BY QuietCalls DEF config_raises, whisk_resume, QuietInv
<1>2. ~resume_done /\ \A o : ~preloader_delete(o) /\ ~preloader_create(o)
  BY DEF resume_done, preloader_delete, preloader_create, QuietInv, Unwatched
<1>3. restarts = 0 /\ runtimeChanges = 0
  BY DEF Base, TypeOK, Undisturbed
<1>4. ~runtimes_cm_event_watcher /\ ~Restart
  BY <1>3 DEF runtimes_cm_event_watcher, Restart, Undisturbed
<1> QED BY <1>1, <1>2, <1>4

\* The step of an edit, while the handlers have reported.
LEMMA QuietUpdate ==
  ASSUME Base, QuietInv, NEW k, update_step_ends(k), handler.kind = "update"
  PROVE  /\ UNCHANGED <<wsk, lastHandled, reported, watcher, resumed>>
         /\ lastHandled # NoSpec /\ reported /\ wsk # "absent"
         /\ handler'.kind = "update" /\ handler'.of = handler.of
         /\ handler'.todo = handler.todo
         /\ handler'.left = handler.left \ {k}
         /\ cfg.spec = handler.of /\ handler.of \in Specs
<1>1. lastHandled # NoSpec /\ reported /\ handler # Idle
  BY IdleType DEF QuietInv
<1> QED
  BY <1>1, UpdateGoesOn DEF Base, Lifecycle, HandlerConfig

LEMMA IngressNames ==
  /\ WithIngress \subseteq Step /\ "preloader" \in Step
  /\ \A c \in WithIngress : c # "endpoint" =>
       c \in {"static", "minio", "seaweedfs", "registry"}
  /\ \A components, c : c \in WithIngress \ {"endpoint"} =>
       (CreateWanted(components, c) <=> c \in components)
  /\ \A c : c \in WithIngress \ {"endpoint"} => (DeleteWanted(c) <=> configured(c))
  BY DEF WithIngress, Step, CreateOrder, CreateWanted, DeleteWanted

\* The steps by which the deletion goes on leave the map's spec and the status.
LEMMA DeleteGoesOn ==
  ASSUME Undisturbed, Base, NEW k \in Step, NEW o, delete_step(k, o)
  PROVE  /\ delete(k, FALSE, "ok") /\ cfg'.spec = cfg.spec
         /\ UNCHANGED <<wsk, lastHandled, reported, watcher, resumed>>
         /\ wsk = "deleting" /\ handler.kind = "delete" /\ k \in handler.left
         /\ \/ handler'.kind = "idle"
            \/ handler'.kind = "delete" /\ handler'.left = handler.left \ {k}
<1>1. /\ handler.kind = "delete" /\ delete(k, FALSE, o) /\ o = "ok"
      /\ k \in handler.left
      /\ handler' = Idle \/ handler' = [handler EXCEPT !.left = @ \ {k}]
      /\ UNCHANGED <<wsk, lastHandled, reported, watcher, resumed>>
  BY QuietCalls DEF delete_step, IsNext, crVars
<1>2. cfg'.spec = cfg.spec
  BY <1>1, DeleteFacts DEF Base
<1>3. wsk = "deleting"
  BY <1>1 DEF Base, Lifecycle
<1>4. handler'.kind = "idle"
      \/ (handler'.kind = "delete" /\ handler'.left = handler.left \ {k})
  BY <1>1, IdleType DEF Base, TypeOK, Handler
<1> QED BY <1>1, <1>2, <1>3, <1>4

LEMMA QuietStep ==
  ASSUME Undisturbed, Followable, Base, OwnedInv, LeftInv, [Next]_vars
  PROVE  QuietInv'
<1>0. /\ TypeOK /\ QuietInv /\ Idle.kind = "idle" /\ "preloader" \in Step
      /\ handler.owner \in BOOLEAN
  BY IdleType, OwnerType DEF Base, LeftInv
<1>1. ASSUME NEW s \in Specs, ApplyWhisk(s) PROVE QuietInv'
  BY <1>0, <1>1 DEF ApplyWhisk, clusterVars, QuietInv
<1>2. CASE DeleteWhisk \/ UNCHANGED vars
  BY <1>0, <1>2 DEF DeleteWhisk, processVars, clusterVars, vars, crVars, QuietInv
<1>3. CASE whisk_create
  <2>1. ~(Store \subseteq spec.components) /\ lastHandled = NoSpec
    BY <1>3, CreateBegins DEF Followable
  <2>2. /\ handler'.kind = "create" /\ lastHandled' = NoSpec
        /\ UNCHANGED <<wsk, watcher, resumed, objects>>
    BY <1>3, <2>1, CreateBegins DEF clusterVars
  <2> QED BY <1>0, <2>1, <2>2 DEF QuietInv
<1>4. ASSUME NEW k \in Step, NEW o \in Outcome, create_step(k, o)
      PROVE  QuietInv'
  <2>1. /\ handler.kind = "create" /\ create(k, handler.owner, o)
        /\ ~create_raises(k, o) /\ handler.owner
    BY <1>4, QuietCalls DEF create_step, OwnedInv
  <2>2. /\ handler'.kind = "create" /\ lastHandled' = NoSpec
        /\ UNCHANGED <<wsk, watcher, resumed>>
    BY <1>0, <1>4, <2>1, CreateGoesOn DEF QuietInv
  <2>3. wsk # "absent"
    BY <1>0, <2>1 DEF Base, Lifecycle
  <2>4. objects'["preloader"] # "unowned"
    BY <1>0, <2>1, CreateDeploys DEF QuietInv
  <2> QED BY <1>0, <2>2, <2>3, <2>4 DEF QuietInv
<1>5. CASE create_done
  <2>1. /\ handler.kind = "create" /\ handler' = Idle
        /\ lastHandled' = handler.of /\ reported'
        /\ UNCHANGED <<wsk, watcher, resumed, objects, cfg>>
    BY <1>5, QuietCalls DEF create_done, clusterVars
  <2>2. cfg.spec = handler.of
    BY <2>1 DEF Base, HandlerConfig
  <2> QED BY <1>0, <2>1, <2>2 DEF QuietInv
<1>6. CASE whisk_update
  BY <1>0, <1>6, UpdateBegins DEF QuietInv, clusterVars
<1>7. ASSUME NEW k \in Step, NEW o \in Outcome, patch_create(k, o)
      PROVE  QuietInv'
  <2>1. handler.kind = "update" /\ update_step_ends(k) /\ create(k, handler.owner, o)
    BY <1>7 DEF patch_create, PatchBegins
  <2>2. handler.owner
    BY <2>1 DEF OwnedInv
  <2>3. objects'["preloader"] # "unowned"
    BY <1>0, <2>1, <2>2, CreateDeploys DEF QuietInv
  <2> QED BY <1>0, <2>1, <2>3, QuietUpdate DEF QuietInv
<1>8. ASSUME NEW k \in Step, NEW o \in DeleteOutcome, patch_delete(k, o)
      PROVE  QuietInv'
  <2>1. handler.kind = "update" /\ update_step_ends(k) /\ delete(k, handler.owner, o)
    BY <1>8 DEF patch_delete, PatchBegins
  <2>2. objects'["preloader"] # "unowned"
    BY <1>0, <2>1, DeleteRemoves DEF QuietInv
  <2> QED BY <1>0, <2>1, <2>2, QuietUpdate DEF QuietInv
<1>9. ASSUME NEW k \in PatchStep, NEW o \in Outcome, patch_ingresses(k, o)
      PROVE  QuietInv'
  <2>1. handler.kind = "update" /\ update_step_ends(k) /\ UNCHANGED objects
    BY <1>9 DEF patch_ingresses, PatchBegins
  <2> QED BY <1>0, <2>1, QuietUpdate DEF QuietInv
<1>10. ~patch_raises
  BY DEF patch_raises, PatchBegins, IsNext, LeftInv, IngressInv
<1>11. CASE update_done
  <2>1. /\ handler.kind = "update" /\ handler' = Idle
        /\ lastHandled' = handler.of
        /\ UNCHANGED <<wsk, reported, watcher, resumed, objects, cfg>>
    BY <1>11, QuietCalls DEF update_done, clusterVars
  <2>2. cfg.spec = handler.of
    BY <2>1 DEF Base, HandlerConfig
  <2> QED BY <1>0, <2>1, <2>2 DEF QuietInv
<1>12. CASE whisk_delete
  <2>1. /\ handler'.kind = "delete" /\ handler.kind = "idle"
        /\ UNCHANGED <<wsk, lastHandled, reported, watcher, resumed, cfg, objects>>
    BY <1>0, <1>12 DEF whisk_delete, crVars, clusterVars, Idle
  <2> QED BY <1>0, <2>1 DEF QuietInv
<1>13. ASSUME NEW k \in Step, NEW o \in DeleteOutcome, delete_step(k, o)
       PROVE  QuietInv'
  <2>1. objects'["preloader"] # "unowned"
    BY <1>0, <1>13, DeleteGoesOn, DeleteRemoves DEF QuietInv
  <2> QED BY <1>0, <1>13, <2>1, DeleteGoesOn DEF QuietInv
<1>14. CASE delete_done
  <2>1. /\ handler' = Idle /\ lastHandled' = NoSpec /\ resumed' = resumed
        /\ objects'["preloader"] = IF objects["preloader"] = "owned" THEN "none"
                                   ELSE objects["preloader"]
        /\ watcher' = [watcher EXCEPT !.stale = watcher.owner]
    BY <1>0, <1>14 DEF delete_done
  <2>2. watcher' = Unwatched
    BY <1>0, <2>1 DEF QuietInv, Unwatched
  <2>3. objects'["preloader"] = "none"
    BY <1>0, <2>1 DEF QuietInv, TypeOK
  <2> QED BY <1>0, <2>1, <2>2, <2>3 DEF QuietInv
<1> QED
  BY <1>0, <1>1, <1>2, <1>3, <1>4, <1>5, <1>6, <1>7, <1>8, <1>9, <1>10, <1>11, <1>12,
     <1>13, <1>14, QuietActions DEF Next, HandlerStep

\* What an edit switches off it deletes.
LEMMA EditFollows ==
  ASSUME Followable, NEW old \in Specs, NEW new \in Specs,
         NEW todo \in detect_component_changes(old, new)
  PROVE  /\ \A c \in WithIngress \ {"endpoint"} :
              c \in old.components \ new.components =>
                todo[c] = "delete" /\ c \in patch_steps(todo)
         /\ "registry" \notin patch_steps(todo)
         /\ "minio-ingresses" \in patch_steps(todo) => "minio" \in new.components
         /\ "seaweedfs-ingresses" \in patch_steps(todo) =>
              "seaweedfs" \in new.components
<1>1. \A c \in {"registry", "seaweedfs"} : c \in old.components <=> c \in new.components
  BY DEF Followable
<1>2. todo["registry"] = "none"
  BY <1>1, DetectSwitches DEF Detected, check_component, Switched
<1>3. "registry" \notin patch_steps(todo)
  BY <1>2 DEF patch_steps, Patched
<1>4. ASSUME NEW c \in {"static", "minio"}, c \in old.components \ new.components
      PROVE  todo[c] = "delete" /\ c \in patch_steps(todo)
  <2>1. check_component(old, new, c) = "delete"
    BY <1>4 DEF check_component, Switched
  <2>2. c = "static" => todo[c] = check_component(old, new, c)
    BY <1>4, DetectSwitches DEF static_action
  <2>3. c # "static" => todo[c] = check_component(old, new, c)
    BY <1>4, DetectSwitches DEF Detected
  <2> QED BY <1>4, <2>1, <2>2, <2>3 DEF patch_steps, Patched
<1>5. new.ingress \subseteq new.components
  BY DEF Followable
<1>6. /\ "minio-ingresses" \in patch_steps(todo) => "minio" \in new.components
      /\ "seaweedfs-ingresses" \in patch_steps(todo) => "seaweedfs" \in new.components
  BY <1>5, DetectSwitches DEF patch_steps, Patched, check_ingresses
<1> QED BY <1>1, <1>3, <1>4, <1>6, IngressNames

LEMMA IngressUpdate ==
  ASSUME Undisturbed, Base, EditInv, OwnedInv, LeftInv,
         \/ \E k \in Step, o \in Outcome : patch_create(k, o)
         \/ \E k \in Step, o \in DeleteOutcome : patch_delete(k, o)
         \/ \E k \in PatchStep, o \in Outcome : patch_ingresses(k, o)
  PROVE  IngressInv'
<1>0. TypeOK /\ QuietInv /\ IngressInv /\ handler.owner \in BOOLEAN
      /\ ingresses \subseteq WithIngress /\ handler.todo \in WhatToDo
  BY OwnerType DEF Base, LeftInv, TypeOK, Handler
<1>1. ASSUME NEW k, update_step_ends(k), handler.kind = "update", cfg'.spec = cfg.spec,
             \A c \in ingresses' :
               \/ c \in ingresses /\ c # k
               \/ IngressWanted(c)
      PROVE  IngressInv'
  <2>1. /\ lastHandled' # NoSpec /\ handler'.kind = "update"
        /\ handler'.of = handler.of /\ handler'.todo = handler.todo
        /\ handler'.left = handler.left \ {k}
    BY <1>0, <1>1, QuietUpdate
  <2>2. ASSUME NEW c \in ingresses'
        PROVE  \/ IngressWanted(c)'
               \/ c \in handler'.left /\ handler'.todo[c] = "delete"
    <3>1. IngressWanted(c) => IngressWanted(c)'
      BY <1>1 DEF IngressWanted
    <3>2. CASE c \in ingresses /\ c # k
      BY <1>0, <2>1, <3>1, <3>2 DEF IngressInv
    <3> QED BY <1>1, <2>2, <3>1, <3>2
  <2> QED BY <1>0, <1>1, <2>1, <2>2 DEF IngressInv
<1>2. ASSUME NEW k \in Step, NEW o \in Outcome, patch_create(k, o)
      PROVE  IngressInv'
  <2>1. /\ handler.kind = "update" /\ update_step_ends(k)
        /\ create(k, handler.owner, o) /\ k \in handler.left /\ k \in PatchStep
        /\ patch_creates(k) /\ cfg.spec = handler.of /\ handler.of \in Specs
    BY <1>2 DEF patch_create, PatchBegins, IsNext, PatchStep, Base, HandlerConfig
  <2>2. cfg'.spec = cfg.spec
    BY <1>0, <2>1, CreateFacts
  <2>3. k \in WithIngress => IngressWanted(k)
    <3> SUFFICES ASSUME k \in {"static", "minio", "seaweedfs", "registry"}
                 PROVE  k \in cfg.spec.components
      BY IngressNames DEF IngressWanted
    <3>1. k \in {"static", "minio"}
      BY <1>0, <2>1, PatchStepSet DEF IngressInv, Patched
    <3>2. handler.todo[k] = "create" /\ k \in Patched
      BY <2>1, <3>1 DEF patch_creates, patch_action, Patched
    <3> QED BY <2>1, <3>2 DEF EditInv
  <2>4. \A c \in ingresses' : c \in ingresses \/ (c = k /\ k \in WithIngress)
    BY <1>0, <2>1, CreateDeploys
  <2>5. \A c \in ingresses' : (c \in ingresses /\ c # k) \/ IngressWanted(c)
    BY <1>0, <2>3, <2>4
  <2> QED BY <1>1, <2>1, <2>2, <2>5
<1>3. ASSUME NEW k \in Step, NEW o \in DeleteOutcome, patch_delete(k, o)
      PROVE  IngressInv'
  <2>1. /\ handler.kind = "update" /\ update_step_ends(k)
        /\ delete(k, handler.owner, o) /\ o = "ok"
    BY <1>3, QuietCalls DEF patch_delete, PatchBegins
  <2>2. cfg'.spec = cfg.spec /\ ingresses' = ingresses \ {k}
    BY <1>0, <2>1, DeleteFacts, DeleteRemoves
  <2> QED BY <1>1, <2>1, <2>2
<1>4. ASSUME NEW k \in PatchStep, NEW o \in Outcome, patch_ingresses(k, o)
      PROVE  IngressInv'
  <2>1. /\ handler.kind = "update" /\ update_step_ends(k) /\ k \in handler.left
        /\ cfg' = cfg /\ cfg.spec = handler.of
        /\ k \in {"minio-ingresses", "seaweedfs-ingresses"}
        /\ \/ ingresses' = ingresses
           \/ ingresses' = ingresses \union
                {IF k = "minio-ingresses" THEN "minio" ELSE "seaweedfs"}
    BY <1>4 DEF patch_ingresses, PatchBegins, IsNext, Base, HandlerConfig
  <2>2. /\ k = "minio-ingresses" => "minio" \in cfg.spec.components
        /\ k = "seaweedfs-ingresses" => "seaweedfs" \in cfg.spec.components
    BY <1>0, <2>1 DEF IngressInv
  <2>3. k \notin ingresses
    BY <1>0, <2>1 DEF WithIngress
  <2>4. \A c \in ingresses' : (c \in ingresses /\ c # k) \/ IngressWanted(c)
    BY <2>1, <2>2, <2>3 DEF IngressWanted
  <2> QED BY <1>1, <2>1, <2>4
<1> QED BY <1>2, <1>3, <1>4

LEMMA IngressStep ==
  ASSUME Undisturbed, Followable, Base, EditInv, OwnedInv, LeftInv, [Next]_vars
  PROVE  IngressInv'
<1>0. /\ TypeOK /\ QuietInv /\ IngressInv /\ Idle.kind = "idle"
      /\ handler.owner \in BOOLEAN /\ ingresses \subseteq WithIngress
  BY IdleType, OwnerType DEF Base, LeftInv, TypeOK
<1>1. ASSUME UNCHANGED <<lastHandled, handler, cfg, ingresses>>
      PROVE  IngressInv'
  BY <1>0, <1>1 DEF IngressInv, IngressWanted
<1>2. CASE (\E s \in Specs : ApplyWhisk(s)) \/ DeleteWhisk \/ UNCHANGED vars
  BY <1>1, <1>2 DEF ApplyWhisk, DeleteWhisk, vars, crVars, processVars, clusterVars
<1>3. CASE whisk_create
  <2>1. ~(Store \subseteq spec.components) /\ lastHandled = NoSpec /\ handler = Idle
    BY <1>3, CreateBegins DEF Followable
  <2>2. /\ handler'.kind = "create" /\ ingresses' = ingresses /\ handler'.of = spec
        /\ handler'.left = {k \in Step : CreateWanted(spec.components, k)}
    BY <1>3, <2>1, CreateBegins DEF clusterVars
  <2>3. ingresses = {}
    BY <1>0, <2>1 DEF IngressInv
  <2> QED BY <2>2, <2>3 DEF IngressInv
<1>4. ASSUME NEW k \in Step, NEW o \in Outcome, create_step(k, o)
      PROVE  IngressInv'
  <2>1. /\ handler.kind = "create" /\ create(k, handler.owner, o)
        /\ ~create_raises(k, o) /\ k \in handler.left
        /\ cfg.spec = handler.of /\ handler.of \in Specs
    BY <1>4, QuietCalls DEF create_step, IsNext, Base, HandlerConfig
  <2>2. /\ handler'.kind = "create" /\ handler'.of = handler.of
        /\ handler'.left \subseteq handler.left
    BY <1>0, <1>4, <2>1, CreateGoesOn
  <2>3. cfg'.spec = cfg.spec
    BY <1>0, <2>1, CreateFacts
  <2>4. k \in WithIngress => IngressWanted(k)
    BY <1>0, <2>1, IngressNames DEF IngressInv, IngressWanted
  <2>5. \A c \in ingresses' : c \in ingresses \/ (c = k /\ k \in WithIngress)
    BY <1>0, <2>1, CreateDeploys
  <2>6. \A c \in ingresses' : IngressWanted(c)'
    BY <1>0, <2>1, <2>3, <2>4, <2>5 DEF IngressInv, IngressWanted
  <2> QED BY <1>0, <2>1, <2>2, <2>6 DEF IngressInv
<1>5. CASE create_done
  <2>1. /\ handler.kind = "create" /\ handler' = Idle
        /\ lastHandled' = handler.of /\ handler.of # NoSpec
        /\ UNCHANGED <<cfg, ingresses>>
    BY <1>5, QuietCalls, SpecFields DEF create_done, clusterVars, Base, HandlerConfig
  <2> QED BY <1>0, <2>1 DEF IngressInv, IngressWanted
<1>6. CASE whisk_update
  <2>1. PICK todo \in detect_component_changes(lastHandled, spec) :
          handler'.todo = todo /\ handler'.left = patch_steps(todo)
    BY <1>6, UpdateBegins
  <2>2. /\ handler'.kind = "update" /\ handler'.of = spec /\ cfg'.spec = spec
        /\ handler.kind = "idle" /\ lastHandled' # NoSpec /\ ingresses' = ingresses
        /\ spec \in Specs
    BY <1>0, <1>6, UpdateBegins DEF clusterVars
  <2>3. lastHandled \in Specs /\ cfg.spec = lastHandled
    BY <1>0, <1>6, <2>2, UpdateBegins DEF TypeOK, SpecOrNone, QuietInv
  <2>4. ASSUME NEW c \in ingresses
        PROVE  IngressWanted(c)' \/ (c \in handler'.left /\ handler'.todo[c] = "delete")
    <3>1. c = "endpoint" \/ c \in lastHandled.components
      BY <1>0, <2>2, <2>3 DEF IngressInv, IngressWanted
    <3>2. c \in WithIngress
      BY <1>0
    <3>3. CASE c = "endpoint" \/ c \in spec.components
      BY <2>2, <3>3 DEF IngressWanted
    <3>4. CASE ~(c = "endpoint" \/ c \in spec.components)
      BY <2>1, <2>2, <2>3, <3>1, <3>2, <3>4, EditFollows
    <3> QED BY <3>3, <3>4
  <2>5. /\ "registry" \notin handler'.left
        /\ "minio-ingresses" \in handler'.left => "minio" \in spec.components
        /\ "seaweedfs-ingresses" \in handler'.left => "seaweedfs" \in spec.components
    BY <2>1, <2>2, <2>3, EditFollows
  <2> QED BY <2>2, <2>4, <2>5 DEF IngressInv
<1>7. ~patch_raises
  BY <1>0 DEF patch_raises, PatchBegins, IsNext, IngressInv
<1>8. CASE update_done
  <2>1. /\ handler.kind = "update" /\ handler' = Idle /\ handler.left = {}
        /\ lastHandled' = handler.of /\ handler.of # NoSpec
        /\ UNCHANGED <<cfg, ingresses>>
    BY <1>8, QuietCalls, SpecFields DEF update_done, clusterVars, Base, HandlerConfig
  <2> QED BY <1>0, <2>1 DEF IngressInv, IngressWanted
<1>9. CASE whisk_delete
  <2>1. /\ handler'.kind = "delete" /\ handler.kind = "idle"
        /\ handler'.left = {k \in Step : DeleteWanted(k)}
        /\ UNCHANGED <<lastHandled, cfg, ingresses>>
    BY <1>0, <1>9 DEF whisk_delete, crVars, clusterVars, Idle
  <2>2. ASSUME NEW c \in ingresses PROVE IngressWanted(c)' /\ c \in handler'.left
    <3>1. IngressWanted(c) /\ lastHandled # NoSpec
      BY <1>0, <2>1, <2>2 DEF IngressInv
    <3>2. cfg.spec = lastHandled /\ lastHandled \in Specs
      BY <1>0, <2>1, <3>1 DEF QuietInv, TypeOK, SpecOrNone
    <3>3. configured("openwhisk") /\ (c # "endpoint" => configured(c))
      BY <3>1, <3>2 DEF configured, IngressWanted, Followable
    <3>4. c \in Step /\ DeleteWanted(c)
      BY <1>0, <2>2, <3>3, IngressNames DEF DeleteWanted
    <3> QED BY <2>1, <3>1, <3>4 DEF IngressWanted
  <2> QED BY <1>0, <2>1, <2>2 DEF IngressInv
<1>10. ASSUME NEW k \in Step, NEW o \in DeleteOutcome, delete_step(k, o)
       PROVE  IngressInv'
  <2>1. ingresses' = ingresses \ {k} /\ cfg'.spec = cfg.spec
    BY <1>0, <1>10, DeleteGoesOn, DeleteRemoves
  <2>2. /\ handler.kind = "delete" /\ lastHandled' = lastHandled
        /\ \/ handler'.kind = "idle"
           \/ handler'.kind = "delete" /\ handler'.left = handler.left \ {k}
    BY <1>10, DeleteGoesOn
  <2> QED BY <1>0, <2>1, <2>2 DEF IngressInv, IngressWanted
<1>11. CASE delete_done
  <2>1. ingresses' = {} /\ handler' = Idle
    BY <1>0, <1>11 DEF delete_done, IngressInv
  <2> QED BY <1>0, <2>1 DEF IngressInv
<1> QED
  BY <1>0, <1>2, <1>3, <1>4, <1>5, <1>6, <1>7, <1>8, <1>9, <1>10, <1>11,
     IngressUpdate, QuietActions DEF Next, HandlerStep

\* An operator that ran undisturbed, on edits that the patcher can follow,
\* leaves nothing in the namespace when the resource is deleted: not the
\* ingresses, which whisk_delete removes by name from the map it was left
\* with, nor the objects, which are collected with their owner.
THEOREM DeletionIsComplete ==
  ASSUME Undisturbed, Followable
  PROVE  Spec => []NothingLeftBehind
<1>1. Init => EditInv /\ OwnedInv /\ LeftInv
  BY IdleType, IngressNames DEF Init, EditInv, OwnedInv, LeftInv, QuietInv, IngressInv,
     Collected
<1>2. Base /\ EditInv /\ OwnedInv /\ LeftInv /\ [Next]_vars
        => EditInv' /\ OwnedInv' /\ LeftInv'
  BY EditStep, OwnedStep, QuietStep, IngressStep, QuietCalls DEF LeftInv
<1>3. Base /\ OwnedInv /\ LeftInv => NothingLeftBehind
  <2> SUFFICES ASSUME Base, OwnedInv, LeftInv, wsk = "absent"
               PROVE  ingresses = {} /\ \A k \in Step \ {"issuer"} : objects[k] = "none"
    BY DEF NothingLeftBehind
  <2>1. handler.kind = "idle" /\ lastHandled = NoSpec
    BY IdleType DEF Base, Lifecycle
  <2>2. ingresses = {}
    BY <2>1 DEF LeftInv, IngressInv
  <2>3. objects["preloader"] = "none"
    BY DEF LeftInv, QuietInv
  <2>4. \A k \in Collected : objects[k] = "none"
    BY DEF OwnedInv
  <2> QED BY <2>2, <2>3, <2>4 DEF Collected
<1> QED
  BY <1>1, <1>2, <1>3, BaseInvariant, PTL DEF Spec
=============================================================================
