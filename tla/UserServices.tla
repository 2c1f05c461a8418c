---------------------------- MODULE UserServices ----------------------------
(***************************************************************************)
(* The accounts of users in the services of the cluster: the handlers of a *)
(* WhiskUser resource make and remove them one service after the other, as *)
(* the shared configuration map and the user's spec want, and the quota    *)
(* checker, a scheduled job, takes write access away and gives it back.    *)
(* The databases of users (UserDB) and the deployment of the services      *)
(* (WhiskOperator) are modelled on their own.                              *)
(***************************************************************************)
EXTENDS ServiceClients

CONSTANTS
  Login,           \* users
  Specs,           \* what a user's spec may enable
  Components,      \* the components that the Whisk resource enables
  Ingress,         \* "nginx", "traefik" or "openshift"
  RoleIsDatabase,  \* the users' databases bear the name of their namespace
  Limited,         \* the services users have a quota for
  NoSpec,
  MaxEvents        \* bound: edits and deletions of resources, failures and
                   \* restarts, taken together (a creation is not counted)

Enablable == {"data", "route", "mongodb", "redis", "postgres", "milvus"}

ASSUME ConfigurationAssumption ==
  /\ Specs \subseteq SUBSET Enablable
  /\ NoSpec \notin Specs
  /\ ~({"minio", "seaweedfs"} \subseteq Components)
  /\ Ingress \in {"nginx", "traefik", "openshift"}
  /\ RoleIsDatabase \in BOOLEAN
  /\ Limited \subseteq {"postgres", "mongodb", "redis"}
  /\ MaxEvents \in Nat

VARIABLES
  wsku,      \* each resource: "absent", "live" or "deleting"
  spec,      \* what its spec enables
  handled,   \* the spec of its last handled edit (kopf)
  resumed,   \* whether whisk_user_resume has run since the operator started
  mark,      \* the annotation <service>_db_quota_reached of each resource
  handler,   \* the running handler of each resource
  cfg,       \* the components of the shared configuration map
  account,   \* the parts of each user's account in each service
  saved,     \* the variables in the metadata document of each user
  over,      \* whether the user's data exceeds the quota of the service
  job,       \* the quota checker
  spoilt,    \* history: what has happened to the account in each service
  events

vars == <<wsku, spec, handled, resumed, mark, handler, cfg, account, saved,
          over, job, spoilt, events>>

CreateOrder ==
  <<"api", "minio", "seaweedfs", "static", "mongodb", "redis", "postgres",
    "milvus", "metadata">>

DeleteOrder == CreateOrder

Service == { CreateOrder[i] : i \in 1 .. 8 }

Kinds == {"postgres", "mongodb", "redis"}

\* The order in which the quota checker goes through them.
QuotaOrder == <<"postgres", "mongodb", "redis">>

\* The first place in an order, from i on, of one of A; the place after the
\* last when there is none.
place(order, i, A) ==
  CHOOSE p \in i .. Len(order) + 1 :
    /\ p <= Len(order) => order[p] \in A
    /\ \A q \in i .. p - 1 : order[q] \notin A

NoHandler == [kind |-> "idle", spec |-> NoSpec, at |-> 1, vars |-> {},
              mark |-> "false"]

NoJob == [at |-> "idle", no |-> 1, sizes |-> {}, left |-> {},
          seen |-> [l \in Login |-> "false"],
          login |-> CHOOSE l \in Login : TRUE, act |-> "none"]

Event == events < MaxEvents /\ events' = events + 1
NoEvent == UNCHANGED events

Handling(l) == handler[l].kind # "idle"

----------------------------------------------------------------------------
(* What the handlers do for a service.                                     *)

storage_enabled(s) == {"data", "route"} \cap s # {}

\* The condition under which the handler calls the service: it asks the
\* configuration map as it is at that moment.
wanted(f, config, s) ==
  CASE f \in {"api", "metadata"} -> TRUE
    [] f \in {"minio", "seaweedfs"} -> f \in config /\ storage_enabled(s)
    [] f = "static" -> /\ {"minio", "seaweedfs"} \cap config # {}
                       /\ "route" \in s /\ "static" \in config
    [] OTHER -> f \in config \cap s

create_calls(f, s) ==
  CASE f = "api" -> <<"hostname">> \o api_objects(Ingress)
    [] f = "minio" -> minio_calls(s)
    [] f = "seaweedfs" -> seaweedfs_calls(s) \o <<"service">>
    [] f = "static" -> <<"hostname">> \o static_objects(Ingress)
    [] f = "mongodb" -> manage_script \o <<"service">>
    [] f = "redis" -> <<"exec", "service">>
    [] f = "postgres" -> postgres_calls
    [] f = "milvus" -> setup_calls \o <<"service">>
    [] f = "metadata" -> <<"save">>

delete_calls(f, s) ==
  CASE f = "api" -> api_objects(Ingress)
    [] f = "minio" -> minio_delete_calls(s)
    [] f = "seaweedfs" -> seaweedfs_delete_calls(s)
    [] f = "static" -> static_objects(Ingress)
    [] f = "mongodb" -> <<"drop">>
    [] f = "redis" -> <<"exec">>
    [] f = "postgres" -> <<"terminate", "drop">>
    [] f = "milvus" -> remove_calls
    [] f = "metadata" -> <<"delete">>

\* Those that may fail without the function being told (where it makes a
\* difference: what removes an account from redis or PostgreSQL only reports).
silent_calls(f, h) ==
  CASE f = "seaweedfs" -> IF h.kind = "delete" THEN all_of(seaweedfs_delete_calls(h.spec))
                          ELSE all_of(seaweedfs_calls(h.spec))
    [] f = "redis" /\ h.kind # "delete" -> redis_script
    [] f = "mongodb" /\ h.kind # "delete" -> all_of(manage_script)
    [] f = "postgres" /\ h.kind # "delete" -> all_of(manage_script \o user_scripts)
    [] f = "milvus" -> all_of(IF h.kind = "delete" THEN remove_calls ELSE setup_calls)
    [] OTHER -> {}

\* h is the handler, F the calls that fail, silent whether nobody is told.
created(f, has, h, F, silent) ==
  CASE f = "api" -> create_ow_api_endpoint(has, Ingress, F)
    [] f = "minio" -> minio_create_ow_storage(has, h.spec, F)
    [] f = "seaweedfs" -> seaweedfs_create_ow_storage(has, h.spec, F, silent)
    [] f = "static" -> create_ow_static_endpoint(has, Ingress, F, h.vars)
    [] f = "mongodb" -> ferretdb_create_db_user(has, F, silent)
    [] f = "redis" -> redis_create_db_user(has, F, h.mark = "true")
    [] f = "postgres" -> postgres_create_db_user(has, F, silent)
    [] f = "milvus" -> milvus_setup_user(has, F, silent)

removed(f, has, h, F, silent, session) ==
  CASE f = "api" -> delete_ow_api_endpoint(has, Ingress, F)
    [] f = "minio" -> minio_delete_ow_storage(has, h.spec, F)
    [] f = "seaweedfs" -> seaweedfs_delete_ow_storage(has, h.spec, F, silent)
    [] f = "static" -> delete_ow_static_endpoint(has, Ingress, F)
    [] f = "mongodb" -> ferretdb_delete_db_user(has, F, session)
    [] f = "redis" -> redis_delete_db_user(has, F)
    [] f = "postgres" -> postgres_delete_db_user(has, F, session)
    [] f = "milvus" -> milvus_remove_user(has, F, silent)

\* The services a handler goes through.
services(kind) ==
  CASE kind = "create" -> CreateOrder
    [] kind = "delete" -> DeleteOrder
    [] kind = "resume" -> <<"redis">>
    [] OTHER -> <<>>

\* Those that the Whisk resource and the user ask for; the others are passed over.
asked(s) == {f \in Service \cup {"metadata"} : wanted(f, Components, s)}

Ended(h) == h.at > Len(services(h.kind))

\* The service a handler is at, and the one the quota checker is at.
current(h) == services(h.kind)[h.at]

checking == QuotaOrder[job.no]

calls_of(h, f) ==
  IF h.kind = "delete" THEN delete_calls(f, h.spec) ELSE create_calls(f, h.spec)

answer_of(l, f, F, silent, session) ==
  LET h == handler[l]
      has == account[l][f]
  IN IF h.kind = "delete" THEN removed(f, has, h, F, silent, session)
     ELSE created(f, has, h, F, silent)

Spoils(l, f, causes) ==
  spoilt' = [spoilt EXCEPT ![l][f] = @ \cup causes]

\* To drop a database drops what its user has stored in it.
Drops(l, f, has) ==
  over' = [over EXCEPT ![l] =
             IF f \in {"postgres", "mongodb"} /\ "database" \notin has
               THEN @ \ {f} ELSE @]

----------------------------------------------------------------------------
(* The resource and its handlers.                                          *)

\* The services whose account an edit makes or gives up in name only: an
\* update of the resource reaches no service.
ApplyUser(l, s) ==
  /\ wsku[l] # "deleting" /\ spec[l] # s
  /\ IF wsku[l] = "absent" THEN NoEvent ELSE Event
  /\ wsku' = [wsku EXCEPT ![l] = "live"]
  /\ spec' = [spec EXCEPT ![l] = s]
  /\ spoilt' = IF wsku[l] = "absent" THEN spoilt
               ELSE [spoilt EXCEPT ![l] =
                       [f \in DOMAIN @ |-> @[f] \cup {"edited"}]]
  /\ UNCHANGED <<handled, resumed, mark, handler, cfg, account, saved, over,
                 job>>

DeleteUser(l) ==
  /\ wsku[l] = "live"
  /\ Event
  /\ wsku' = [wsku EXCEPT ![l] = "deleting"]
  /\ UNCHANGED <<spec, handled, resumed, mark, handler, cfg, account, saved,
                 over, job, spoilt>>

\* The annotations are those the resource had when kopf called the handler.
StartHandler(l, kind) ==
  /\ ~Handling(l)
  /\ handler' = [handler EXCEPT ![l] =
                   [kind |-> kind, spec |-> spec[l],
                    at |-> place(services(kind), 1, asked(spec[l])),
                    vars |-> {},
                    mark |-> IF kind = "resume" THEN mark[l]["redis"]
                             ELSE "false"]]
  /\ UNCHANGED <<wsku, spec, handled, resumed, mark, cfg, account, saved,
                 over, job, spoilt, events>>

whisk_user_create(l) ==
  /\ wsku[l] = "live" /\ handled[l] = NoSpec
  /\ StartHandler(l, "create")

\* Passwords and quotas go to the databases of users; no service is called.
whisk_user_update(l) ==
  /\ wsku[l] = "live" /\ handled[l] \notin {NoSpec, spec[l]}
  /\ StartHandler(l, "update")

whisk_user_resume(l) ==
  /\ wsku[l] = "live" /\ handled[l] = spec[l] /\ ~resumed[l]
  /\ StartHandler(l, "resume")

whisk_user_delete(l) ==
  /\ wsku[l] = "deleting"
  /\ StartHandler(l, "delete")

\* The handler goes on with the next service, or kopf calls it again later.
GoesOn(l, vars_, raised) ==
  LET h == handler[l]
      next == place(services(h.kind), h.at + 1, asked(h.spec))
  IN handler' = [handler EXCEPT ![l] =
                   IF raised THEN NoHandler
                   ELSE [h EXCEPT !.at = next, !.vars = @ \cup vars_]]

\* The process dies: kopf's handlers are lost, and the configuration map is
\* empty until the Whisk resource is resumed.
Dies ==
  /\ handler' = [l \in Login |-> NoHandler]
  /\ cfg' = {}
  /\ resumed' = [l \in Login |-> FALSE]

\* The configuration map is empty at this moment: the service is passed over.
SkipService(l) ==
  LET h == handler[l]
      f == current(h)
  IN /\ UNCHANGED <<wsku, spec, handled, resumed, mark, cfg, account, saved,
                    over, job, events>>
     /\ Handling(l) /\ ~Ended(h)
     /\ ~wanted(f, cfg, h.spec)
     /\ GoesOn(l, {}, FALSE)
     /\ Spoils(l, f, {"unconfigured"})

\* The quota checker has limited the user and has not yet said so.
Annotating(l, k) ==
  job.at = "annotate" /\ job.login = l /\ checking = k

\* What else the call of f tells the history.
overlaps(l, f) ==
  LET h == handler[l]
  IN (IF h.kind = "create" /\ account[l][f] # {} THEN {"again"} ELSE {})
     \cup (IF /\ f = "redis" /\ h.kind \in {"create", "resume"}
              /\ \/ h.kind = "resume" /\ h.mark # mark[l][f]
                 \/ Annotating(l, f)
             THEN {"overlap"} ELSE {})

\* One service is called; F are the calls that fail.
CallService(l) ==
  LET h == handler[l]
      f == current(h)
      calls == calls_of(h, f)
  IN /\ UNCHANGED <<wsku, spec, handled, mark, saved, job>>
     /\ Handling(l) /\ ~Ended(h) /\ f # "metadata"
     /\ wanted(f, cfg, h.spec)
     /\ \E session \in BOOLEAN :
          /\ session => /\ h.kind = "delete" /\ f \in {"postgres", "mongodb"}
                        /\ "database" \in account[l][f]
          /\ \/ LET a == answer_of(l, f, {}, FALSE, session)
                IN /\ NoEvent /\ UNCHANGED <<cfg, resumed>>
                   /\ account' = [account EXCEPT ![l][f] = a.has]
                   /\ Drops(l, f, a.has)
                   /\ GoesOn(l, a.vars, a.raised)
                   /\ Spoils(l, f, overlaps(l, f)
                                   \cup (IF session THEN {"session"} ELSE {}))
             \/ \E c \in all_of(calls) \cup silent_calls(f, h), silent \in BOOLEAN :
                  LET a == answer_of(l, f, {c}, silent, session)
                  IN /\ c \in IF silent THEN silent_calls(f, h) ELSE all_of(calls)
                     /\ Event /\ UNCHANGED <<cfg, resumed>>
                     /\ account' = [account EXCEPT ![l][f] = a.has]
                     /\ Drops(l, f, a.has)
                     /\ GoesOn(l, a.vars, a.raised)
                     /\ Spoils(l, f, overlaps(l, f) \cup {"fault"}
                                     \cup (IF silent THEN {"silent"} ELSE {}))
             \/ \E i \in DOMAIN calls :
                  LET a == answer_of(l, f, { calls[j] : j \in i .. Len(calls) },
                                     FALSE, session)
                  IN /\ Event /\ Dies
                     /\ account' = [account EXCEPT ![l][f] = a.has]
                     /\ Drops(l, f, a.has)
                     /\ Spoils(l, f, overlaps(l, f)
                                     \cup (IF h.kind = "delete"
                                             THEN {"cut"} ELSE {"died"}))

\* Last, the metadata document is saved or removed.
SaveMetadata(l) ==
  LET h == handler[l]
  IN /\ UNCHANGED <<wsku, spec, handled, resumed, mark, cfg, account, over,
                    job>>
     /\ Handling(l) /\ ~Ended(h) /\ current(h) = "metadata"
     /\ GoesOn(l, {}, FALSE)
     /\ \/ /\ NoEvent
           /\ saved' = [saved EXCEPT ![l] =
                          IF h.kind = "delete" THEN {} ELSE h.vars]
           /\ UNCHANGED spoilt
        \/ /\ Event
           /\ Spoils(l, "metadata", {"fault"})
           /\ UNCHANGED saved

\* The handler returns: kopf records the edit, or lets the resource go with
\* its annotations.
HandlerDone(l) ==
  LET h == handler[l]
  IN /\ Handling(l) /\ Ended(h)
     /\ handler' = [handler EXCEPT ![l] = NoHandler]
     /\ IF h.kind = "delete"
          THEN /\ wsku' = [wsku EXCEPT ![l] = "absent"]
               /\ spec' = [spec EXCEPT ![l] = NoSpec]
               /\ handled' = [handled EXCEPT ![l] = NoSpec]
               /\ mark' = [mark EXCEPT ![l] = [k \in Kinds |-> "false"]]
               /\ spoilt' = [spoilt EXCEPT ![l] =
                    [f \in DOMAIN @ |->
                       (IF IF f = "metadata" THEN saved[l] = {}
                           ELSE account[l][f] = {} THEN {} ELSE @[f])
                       \cup (IF Annotating(l, f) THEN {"overlap"} ELSE {})]]
          ELSE /\ handled' = [handled EXCEPT ![l] =
                                IF h.kind = "resume" THEN @ ELSE h.spec]
               /\ UNCHANGED <<wsku, spec, mark, spoilt>>
     /\ resumed' = [resumed EXCEPT ![l] = TRUE]
     /\ UNCHANGED <<cfg, account, saved, over, job, events>>

Restart ==
  /\ Event /\ Dies
  /\ UNCHANGED <<wsku, spec, handled, mark, account, saved, over, job, spoilt>>

\* An edit of the Whisk resource empties the configuration map first.
clean ==
  /\ Event /\ cfg # {} /\ cfg' = {}
  /\ UNCHANGED <<wsku, spec, handled, resumed, mark, handler, account, saved,
                 over, job, spoilt>>

configure ==
  /\ cfg = {} /\ cfg' = Components
  /\ UNCHANGED <<wsku, spec, handled, resumed, mark, handler, account, saved,
                 over, job, spoilt, events>>

----------------------------------------------------------------------------
(* The quota checker.                                                      *)

\* A user stores more than its quota, or removes something.
Usage(l) ==
  /\ \E k \in Limited :
       \/ /\ k \notin over[l] /\ "write" \in account[l][k]
          /\ over' = [over EXCEPT ![l] = @ \cup {k}]
       \/ k \in over[l] /\ over' = [over EXCEPT ![l] = @ \ {k}]
  /\ UNCHANGED <<wsku, spec, handled, resumed, mark, handler, cfg, account,
                 saved, job, spoilt, events>>

jobless == <<wsku, spec, handled, resumed, handler, cfg, saved, over>>

\* The sizes of the databases are read once, before the users are listed; a
\* service nobody has a quota for has no user to list.
start ==
  /\ job.at = "idle" /\ Limited # {}
  /\ job' = [NoJob EXCEPT
               !.at = "list", !.no = place(QuotaOrder, 1, Limited),
               !.sizes = { large \in Login \X {"postgres", "mongodb"} :
                             large[2] \in over[large[1]] }]
  /\ UNCHANGED <<jobless, mark, account, spoilt, events>>

NextKind ==
  LET next == place(QuotaOrder, job.no + 1, Limited)
  IN IF next > Len(QuotaOrder) THEN NoJob
     ELSE [NoJob EXCEPT !.at = "list", !.no = next, !.sizes = job.sizes]

\* The list of the users with a limit, with the annotations they have now.
get_wsk_users ==
  /\ job.at = "list"
  /\ LET k == checking
         limited == { l \in Login : /\ wsku[l] # "absent"
                                    /\ k \in spec[l] \cap Limited }
     IN job' = IF limited = {} THEN NextKind
               ELSE [job EXCEPT !.at = "check", !.left = limited,
                                !.seen = [l \in Login |-> mark[l][k]]]
  /\ UNCHANGED <<jobless, mark, account, spoilt, events>>

Checked(l) ==
  IF job.left = {l} THEN NextKind
  ELSE [job EXCEPT !.at = "check", !.left = @ \ {l}, !.act = "none"]

\* Mutant: the annotation is tested the wrong way round.
quota_action_inverted(exceeds, applied) ==
  IF exceeds /\ applied = "true" THEN "block"
  ELSE IF ~exceeds /\ applied = "false" THEN "reset" ELSE "none"

\* What to do with a user whose resource is annotated with applied.
quota_action(exceeds, applied) ==
  IF exceeds /\ applied = "false" THEN "block"
  ELSE IF ~exceeds /\ applied = "true" THEN "reset" ELSE "none"

limit_user(k, has, act) ==
  IF k = "redis"
    THEN [ok |-> TRUE, has |-> IF act = "block" THEN set_prefix_readonly(has)
                               ELSE set_prefix_all(has)]
  ELSE IF act = "block" THEN revoke_access_from_db(has, RoleIsDatabase)
  ELSE grant_access_on_db(has, RoleIsDatabase)

\* Each user the list names; the annotation is the one in the list.
check_quota(l) ==
  LET k == checking
      exceeds == IF k = "redis" THEN k \in over[l] ELSE <<l, k>> \in job.sizes
      act == quota_action(exceeds, job.seen[l])
      a == limit_user(k, account[l][k], act)
  IN /\ job.at = "check" /\ l \in job.left
     /\ IF act = "none"
          THEN NoEvent /\ job' = Checked(l) /\ UNCHANGED <<account, spoilt>>
          ELSE \/ /\ NoEvent
                  /\ account' = [account EXCEPT ![l][k] = a.has]
                  /\ job' = IF a.ok THEN [job EXCEPT !.at = "annotate",
                                                    !.login = l, !.act = act]
                            ELSE Checked(l)
                  /\ Spoils(l, k,
                       (IF account[l][k] = {} THEN {"late"} ELSE {})
                       \cup (IF job.seen[l] # mark[l][k] THEN {"overlap"} ELSE {}))
               \/ Event /\ job' = Checked(l) /\ UNCHANGED <<account, spoilt>>
     /\ UNCHANGED <<jobless, mark>>

\* Mutant: the value is written as Python prints it.
annotation_of_printed(act) == IF act = "block" THEN "True" ELSE "False"

annotation_of(act) == IF act = "block" THEN "true" ELSE "false"

\* To annotate a resource that has gone ends the job.
annotate ==
  LET k == checking
      l == job.login
  IN /\ job.at = "annotate"
     /\ IF wsku[l] = "absent" THEN job' = NoJob /\ UNCHANGED mark
        ELSE /\ mark' = [mark EXCEPT ![l][k] = annotation_of(job.act)]
             /\ job' = Checked(l)
     /\ UNCHANGED <<jobless, account, spoilt, events>>

\* A command of the job fails where nothing catches it, or its pod dies.
JobDies ==
  /\ job.at # "idle"
  /\ Event
  /\ job' = NoJob
  /\ IF job.at = "annotate"
       THEN Spoils(job.login, checking,
                   {IF job.act = "block" THEN "block lost" ELSE "reset lost"})
       ELSE UNCHANGED spoilt
  /\ UNCHANGED <<jobless, mark, account>>

----------------------------------------------------------------------------
Init ==
  /\ wsku = [l \in Login |-> "absent"]
  /\ spec = [l \in Login |-> NoSpec]
  /\ handled = [l \in Login |-> NoSpec]
  /\ resumed = [l \in Login |-> TRUE]
  /\ mark = [l \in Login |-> [k \in Kinds |-> "false"]]
  /\ handler = [l \in Login |-> NoHandler]
  /\ cfg = Components
  /\ account = [l \in Login |-> [f \in Service |-> {}]]
  /\ saved = [l \in Login |-> {}]
  /\ over = [l \in Login |-> {}]
  /\ job = NoJob
  /\ spoilt = [l \in Login |-> [f \in Service \cup {"metadata"} |-> {}]]
  /\ events = 0

Handler(l) ==
  \/ whisk_user_create(l)
  \/ whisk_user_update(l)
  \/ whisk_user_resume(l)
  \/ whisk_user_delete(l)
  \/ SkipService(l)
  \/ CallService(l)
  \/ SaveMetadata(l)
  \/ HandlerDone(l)

Job ==
  \/ start
  \/ get_wsk_users
  \/ \E l \in Login : check_quota(l)
  \/ annotate

Next ==
  \/ \E l \in Login, s \in Specs : ApplyUser(l, s)
  \/ \E l \in Login : DeleteUser(l) \/ Handler(l) \/ Usage(l)
  \/ Restart \/ clean \/ configure
  \/ Job \/ JobDies

\* kopf goes on with its handlers, the Whisk resource is resumed after a
\* restart, and the CronJob is scheduled for ever.
Fairness ==
  /\ \A l \in Login : WF_vars(Handler(l))
  /\ WF_vars(configure)
  /\ WF_vars(Job)

Spec == Init /\ [][Next]_vars /\ Fairness

----------------------------------------------------------------------------
(* Properties.                                                             *)

Part ==
  {"user", "alias", "data", "route", "public", "policy", "attached",
   "api-mw", "my-mw", "api", "my", "middleware", "ingress", "target", "on",
   "read", "write", "database", "role", "schema", "vector", "privileges",
   "granted"}

Variable ==
  {"USER_REST_API_URL", "S3", "S3_BUCKET_DATA", "S3_BUCKET_STATIC",
   "STATIC_CONTENT_URL", "MONGODB_URL", "REDIS_PREFIX", "REDIS", "POSTGRES", "MILVUS"}

Cause ==
  {"fault", "silent", "died", "cut", "again", "unconfigured", "edited", "session",
   "late", "overlap", "block lost", "reset lost"}

Mark == {"false", "true"}

\* A user never has rights in redis without an account there, a bucket open
\* to everyone that does not exist, or a policy attached to nobody.
TypeOK ==
  /\ wsku \in [Login -> {"absent", "live", "deleting"}]
  /\ spec \in [Login -> Specs \cup {NoSpec}]
  /\ handled \in [Login -> Specs \cup {NoSpec}]
  /\ resumed \in [Login -> BOOLEAN]
  /\ mark \in [Login -> [Kinds -> Mark]]
  /\ handler \in [Login ->
       [kind : {"idle", "create", "update", "resume", "delete"},
        spec : Specs \cup {NoSpec}, at : 1 .. 10,
        vars : SUBSET Variable, mark : Mark]]
  /\ cfg \in {{}, Components}
  /\ account \in [Login -> [Service -> SUBSET Part]]
  /\ saved \in [Login -> SUBSET Variable]
  /\ over \in [Login -> SUBSET Limited]
  /\ job \in [at : {"idle", "list", "check", "annotate"}, no : 1 .. 3,
               sizes : SUBSET (Login \X Kinds), left : SUBSET Login,
               seen : [Login -> Mark], login : Login,
               act : {"none", "block", "reset"}]
  /\ spoilt \in [Login -> [Service \cup {"metadata"} -> SUBSET Cause]]
  /\ events \in 0 .. MaxEvents
  /\ \A l \in Login :
       /\ account[l]["redis"] # {} => "user" \in account[l]["redis"]
       /\ "public" \in account[l]["minio"] => "route" \in account[l]["minio"]
       /\ "attached" \in account[l]["minio"] =>
            {"user", "policy"} \subseteq account[l]["minio"]

\* The parts of the accounts that a variable promises, unless a statement of
\* the script that makes them has failed and nobody was told.
backing(l, v) ==
  LET kept == IF "minio" \in Components THEN "minio" ELSE "seaweedfs"
      storage == account[l][kept]
      unnoticed(f) == "silent" \in spoilt[l][f]
  IN CASE v = "S3" -> unnoticed(kept) \/ "user" \in storage
       [] v = "S3_BUCKET_DATA" -> unnoticed(kept) \/ "data" \in storage
       [] v = "S3_BUCKET_STATIC" ->
            unnoticed(kept) \/ {"route", "public"} \subseteq storage
       [] v = "MONGODB_URL" ->
            unnoticed("mongodb")
            \/ {"database", "role", "granted"} \subseteq account[l]["mongodb"]
       [] v \in {"REDIS_PREFIX", "REDIS"} ->
            unnoticed("redis") \/ "on" \in account[l]["redis"]
       [] v = "POSTGRES" ->
            unnoticed("postgres")
            \/ {"database", "role", "granted"} \subseteq account[l]["postgres"]
       [] v = "MILVUS" ->
            {"user", "database", "role"} \subseteq account[l]["milvus"]
       [] v = "USER_REST_API_URL" ->
            "fault" \in spoilt[l]["api"]
            \/ {"api", "my"} \subseteq account[l]["api"]
       [] v = "STATIC_CONTENT_URL" ->
            spoilt[l]["static"] \cap {"fault", "again"} # {}
            \/ spoilt[l]["minio"] \cap {"fault", "again", "unconfigured"} # {}
            \/ spoilt[l]["seaweedfs"] \cap {"fault", "unconfigured"} # {}
            \/ {"ingress", "target"} \subseteq account[l]["static"]

\* Whatever failure the operator is told of, and however often the creation is
\* interrupted, the variables a user finds in its actions lead to accounts
\* that exist.  There are two exceptions: psql, redis-cli and weed shell exit
\* with 0 when a statement fails, and the variables are recorded without the
\* account; and the addresses of ingresses are recorded before they are made,
\* and may lead nowhere when a call failed or the storage was made twice.
VariablesAreBacked ==
  \A l \in Login :
    wsku[l] = "live" /\ "fault" \notin spoilt[l]["metadata"] =>
      \A v \in saved[l] : backing(l, v)

variables_of(f, s) ==
  CASE f = "api" -> {"USER_REST_API_URL"}
    [] f \in {"minio", "seaweedfs"} ->
         {"S3"} \cup (IF "data" \in s THEN {"S3_BUCKET_DATA"} ELSE {})
         \cup (IF "route" \in s THEN {"S3_BUCKET_STATIC"} ELSE {})
    [] f = "static" -> {"STATIC_CONTENT_URL"}
    [] f = "mongodb" -> {"MONGODB_URL"}
    [] f = "redis" -> {"REDIS_PREFIX", "REDIS"}
    [] f = "postgres" -> {"POSTGRES"}
    [] f = "milvus" -> {"MILVUS"}

\* A user that kopf reports as created has the variables of every service it
\* asked for, also when the operator died in the middle, unless a call
\* failed or the configuration map was empty at that moment.  MinIO and
\* Milvus answer an error for what the first attempt has made, and the
\* variables are left out.
VariablesAreComplete ==
  \A l \in Login, f \in Service :
    /\ wsku[l] = "live" /\ handled[l] = spec[l] /\ ~Handling(l)
    /\ wanted(f, Components, spec[l])
    /\ spoilt[l][f] \cap {"fault", "unconfigured", "edited"} = {}
    /\ f \in {"minio", "milvus"} => "again" \notin spoilt[l][f]
    /\ "fault" \notin spoilt[l]["metadata"]
    => variables_of(f, spec[l]) \subseteq saved[l]

\* Nothing of a deleted user is left in a service, also when the operator
\* died in the middle, if no call to it failed and the configuration map and
\* the spec wanted it to the end.  kubectl and Milvus answer an error for
\* what the first attempt has removed, and leave the rest; a session keeps a
\* database; and a late quota checker makes a redis user again, who can not
\* log in.
NothingOfTheDeleted ==
  \A l \in Login, f \in Service :
    /\ wsku[l] = "absent"
    /\ spoilt[l][f] \cap {"fault", "unconfigured", "edited", "session"} = {}
    /\ f \in {"api", "static", "milvus"} => "cut" \notin spoilt[l][f]
    /\ f = "milvus" => "died" \notin spoilt[l][f]
    => /\ f # "redis" => account[l][f] = {}
       /\ f = "redis" => "on" \notin account[l][f]
       /\ "late" \notin spoilt[l][f] => account[l][f] = {}

\* What keeps the annotation from saying what a user may do.
misread(l, k) ==
  spoilt[l][k] \cap {"again", "late", "overlap", "reset lost"} # {}

has_account(l, k) == {"on", "database"} \cap account[l][k] # {}

\* Between two runs of the quota checker the annotation of a user is what
\* its rights are, through restarts of the operator too: redis forgets its
\* users and whisk_user_resume restores them as the annotation says.
QuotaMarks ==
  \A l \in Login, k \in Limited :
    /\ wsku[l] = "live" /\ handled[l] # NoSpec /\ ~Handling(l)
    /\ job.at # "annotate"
    /\ ~misread(l, k) /\ "block lost" \notin spoilt[l][k]
    /\ spoilt[l][k] \cap {"fault", "unconfigured", "edited", "session"} = {}
    /\ has_account(l, k)
    => (mark[l][k] = "true" <=> "write" \notin account[l][k])

\* A user whose data exceeds a quota can not write for ever: in the end it
\* is made read-only, or the data no longer exceeds the quota.
QuotaIsEnforced ==
  \A l \in Login, k \in Limited :
    (/\ wsku[l] = "live" /\ k \in spec[l] \cap over[l]
     /\ has_account(l, k) /\ "write" \in account[l][k])
    ~> (\/ wsku[l] # "live" \/ k \notin spec[l] \cap over[l]
        \/ "write" \notin account[l][k] \/ misread(l, k))
=============================================================================
