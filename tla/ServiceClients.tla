--------------------------- MODULE ServiceClients ---------------------------
(***************************************************************************)
(* What the operator's functions make of the accounts of one user in the   *)
(* services of the cluster.  An account is the set of its parts that       *)
(* exist; F is the set of calls to the service that fail, or that are not  *)
(* made because the process dies before them.  The function notices that,  *)
(* unless the failure is silent: a statement of a script whose interpreter *)
(* exits with 0 all the same (psql -f, redis-cli, weed shell), or an HTTP  *)
(* error that the client ignores.  A function answers the account it       *)
(* leaves, the variables it records in the user's metadata and whether it  *)
(* raises.                                                                 *)
(***************************************************************************)
EXTENDS Naturals, Sequences, FiniteSets

Answer(has, vars, raised) == [has |-> has, vars |-> vars, raised |-> raised]

\* The elements of a sequence of calls before the first that is in Bad.
upto(calls, Bad) ==
  { calls[i] : i \in { j \in 1 .. Len(calls) :
                         \A k \in 1 .. j : calls[k] \notin Bad } }

all_of(calls) == { calls[i] : i \in 1 .. Len(calls) }

\* The calls that have their effect: a failure that is noticed ends the
\* sequence, one that is not leaves out a single call.
effective(calls, F, silent) ==
  IF silent THEN all_of(calls) \ F ELSE upto(calls, F)

\* Whether the function goes on after these calls.
returns(calls, F, silent) == silent \/ all_of(calls) \cap F = {}

\* The variables are recorded when the Service has been looked up; that it is
\* not found raises, and the exception ends here.
add_minio_user_metadata(F) == IF "service" \in F THEN {} ELSE {"S3"}

add_seaweedfs_user_metadata(F) == IF "service" \in F THEN {} ELSE {"S3"}

add_redis_user_metadata(F) == IF "service" \in F THEN {} ELSE {"REDIS"}

add_pdb_user_metadata(F) == IF "service" \in F THEN {} ELSE {"POSTGRES"}

add_mdb_user_metadata(F) == IF "service" \in F THEN {} ELSE {"MONGODB_URL"}

add_milvus_user_metadata(F) == IF "service" \in F THEN {} ELSE {"MILVUS"}

----------------------------------------------------------------------------
(* MinIO: mc reports a failure and the function goes on with the next one. *)

\* "mc mb" succeeds for a new bucket only.
make_bucket(has, F, b) == b \notin F \cup has

make_public_bucket(has, F) == make_bucket(has, F, "route") /\ "public" \notin F

add_user(F) == {"user", "alias"} \cap F = {}

\* The policy names the buckets, and is attached to a user that exists.
assign_rw_bucket_policy_to_user(has, F) ==
  LET policy == has \cup ({"policy"} \ F)
  IN IF {"user", "policy"} \subseteq policy
       THEN policy \cup ({"attached"} \ F) ELSE policy

\* The calls of create_ow_storage for the buckets s asks for.
minio_calls(s) ==
  <<"user", "alias", "service">>
  \o (IF "data" \in s THEN <<"data">> ELSE <<>>)
  \o (IF "route" \in s THEN <<"route", "public">> ELSE <<>>)
  \o <<"policy", "attached">>

minio_create_ow_storage(has, s, F) ==
  LET buckets == has \cup ((s \cap {"data", "route"}) \ F)
      public == IF "route" \in s \cap buckets THEN {"public"} \ F ELSE {}
      made == buckets \cup ({"user"} \ F) \cup public
  IN Answer(assign_rw_bucket_policy_to_user(made, F),
            (IF add_user(F) THEN add_minio_user_metadata(F) ELSE {})
            \cup (IF "data" \in s /\ make_bucket(has, F, "data")
                    THEN {"S3_BUCKET_DATA"} ELSE {})
            \cup (IF "route" \in s /\ make_public_bucket(has, F)
                    THEN {"S3_BUCKET_STATIC"} ELSE {}),
            FALSE)

\* Mutant: the policy of the user is forgotten.
minio_delete_calls_no_policy(s) ==
  (IF "data" \in s THEN <<"data">> ELSE <<>>)
  \o (IF "route" \in s THEN <<"route">> ELSE <<>>) \o <<"user">>

minio_delete_calls(s) ==
  (IF "data" \in s THEN <<"data">> ELSE <<>>)
  \o (IF "route" \in s THEN <<"route">> ELSE <<>>) \o <<"user", "policy">>

\* "mc rb --force", "mc admin user remove", "mc admin policy remove".
minio_delete_ow_storage(has, s, F) ==
  LET gone == all_of(minio_delete_calls(s)) \ F
  IN Answer(has \ (gone
                   \cup (IF "route" \in gone THEN {"public"} ELSE {})
                   \cup (IF gone \cap {"user", "policy"} # {}
                           THEN {"attached"} ELSE {})),
            {}, FALSE)

----------------------------------------------------------------------------
(* SeaweedFS: commands are echoed into weed shell in a pod, which exits    *)
(* with 0 whatever they did; that kubectl fails raises.  The requests to   *)
(* the filer that publish a bucket and load a page raise when there is no  *)
(* connection, or on a 403; another HTTP error is reported as a failure.   *)

seaweedfs_calls(s) ==
  (IF "data" \in s THEN <<"data">> ELSE <<>>)
  \o (IF "route" \in s THEN <<"route", "public", "content">> ELSE <<>>)
  \o <<"user">>

seaweedfs_create_ow_storage(has, s, F, silent) ==
  LET calls == seaweedfs_calls(s)
      done == effective(calls, F, silent)
      made == has \cup (done \ {"public", "content"})
      told == IF silent THEN all_of(calls) \ (F \cap {"public"}) ELSE done
  IN Answer(made \cup (IF "route" \in made THEN done \cap {"public"} ELSE {}),
            (IF "user" \in told THEN add_seaweedfs_user_metadata(F) ELSE {})
            \cup (IF "data" \in told THEN {"S3_BUCKET_DATA"} ELSE {})
            \cup (IF "public" \in told THEN {"S3_BUCKET_STATIC"} ELSE {}),
            ~returns(calls, F, silent))

seaweedfs_delete_calls(s) ==
  (IF "data" \in s THEN <<"data">> ELSE <<>>)
  \o (IF "route" \in s THEN <<"route">> ELSE <<>>) \o <<"user">>

seaweedfs_delete_ow_storage(has, s, F, silent) ==
  LET gone == effective(seaweedfs_delete_calls(s), F, silent)
  IN Answer(has \ (gone \cup (IF "route" \in gone THEN {"public"} ELSE {})),
            {}, ~returns(seaweedfs_delete_calls(s), F, silent))

----------------------------------------------------------------------------
(* Ingresses and routes: kubectl raises, the function catches and gives    *)
(* up.  Deleting an object that is not there raises too.                   *)

\* Objects are deployed and removed in the same order.
api_objects(ingress) ==
  IF ingress = "traefik" THEN <<"api-mw", "my-mw", "api", "my">>
  ELSE <<"api", "my">>

\* The addresses are recorded before the objects are applied.
create_ow_api_endpoint(has, ingress, F) ==
  IF "hostname" \in F THEN Answer(has, {}, TRUE)
  ELSE Answer(has \cup upto(api_objects(ingress), F),
              {"USER_REST_API_URL"}, FALSE)

deletes_in_order(objects, has, F) ==
  has \ upto(objects, F \cup (all_of(objects) \ has))

delete_ow_api_endpoint(has, ingress, F) ==
  Answer(deletes_in_order(api_objects(ingress), has, F), {}, FALSE)

static_objects(ingress) ==
  IF ingress = "traefik" THEN <<"middleware", "ingress">> ELSE <<"ingress">>

\* The ingress leads to the bucket that the storage has made for the user in
\* this run of the handler, if it has made one.
create_ow_static_endpoint(has, ingress, F, vars) ==
  LET done == upto(static_objects(ingress), F)
      target == IF "S3_BUCKET_STATIC" \in vars THEN {"target"} ELSE {}
  IN IF "hostname" \in F THEN Answer(has, {}, TRUE)
     ELSE Answer(IF "ingress" \in done
                   THEN (has \ {"target"}) \cup done \cup target
                   ELSE has \cup done,
                 {"STATIC_CONTENT_URL"}, FALSE)

delete_ow_static_endpoint(has, ingress, F) ==
  LET left == deletes_in_order(static_objects(ingress), has, F)
  IN Answer(IF "ingress" \in left THEN left ELSE left \ {"target"}, {}, FALSE)

----------------------------------------------------------------------------
(* Redis: one script, piped into redis-cli, which authenticates, makes the *)
(* user and switches it on, and gives it its rights.  Only that kubectl    *)
(* exec fails is noticed.                                                  *)

redis_script == {"auth", "on", "rights"}

\* Mutant: the user is restored with all its rights.
redis_create_all_rights(has, F, read_only) ==
  IF F \cap {"exec", "auth"} # {} THEN Answer(has, {}, FALSE)
  ELSE Answer({"user", "on", "read", "write"},
              {"REDIS_PREFIX"} \cup add_redis_user_metadata(F), FALSE)

redis_create_db_user(has, F, read_only) ==
  LET done == IF F \cap {"exec", "auth"} = {} THEN redis_script \ F ELSE {}
      rights == IF "rights" \in done
                  THEN {"read"} \cup (IF read_only THEN {} ELSE {"write"})
                  ELSE has \cap {"read", "write"}
  IN Answer(IF "auth" \notin done THEN has
            ELSE {"user"} \cup ((has \cup done) \cap {"on"}) \cup rights,
            IF "exec" \in F THEN {}
            ELSE {"REDIS_PREFIX"} \cup add_redis_user_metadata(F), FALSE)

redis_delete_db_user(has, F) ==
  Answer(IF "exec" \in F THEN has ELSE {}, {}, FALSE)

\* ACL SETUSER makes a user that is not there, with no password and off.
set_prefix_readonly(has) == (has \ {"write"}) \cup {"user", "read"}

set_prefix_all(has) == has \cup {"user", "read", "write"}

----------------------------------------------------------------------------
(* PostgreSQL and FerretDB, which keeps its data in PostgreSQL: psql runs  *)
(* a script to its end, whatever becomes of its statements, unless it is   *)
(* not started or loses its connection.                                    *)

manage_script == <<"database", "role", "granted">>

\* The database, the role and its rights on the database, if there are both.
manage_user(has, F, silent) ==
  LET made == has \cup effective(manage_script, F, silent)
  IN IF {"database", "role"} \subseteq made THEN made
     ELSE has \cup (made \ {"granted"})

user_scripts == <<"schema", "vector">>

\* The schema, if it becomes the role's own, and the extension in it; psql
\* connects to the database that the first script was to make.
manage_schema(has, F, silent) ==
  LET done == effective(user_scripts, F, silent)
  IN IF "database" \notin has \/ "schema" \notin has \cup done THEN has
     ELSE has \cup (IF "role" \in has THEN done ELSE done \ {"schema"})

postgres_calls == manage_script \o <<"service">> \o user_scripts

\* Mutant: the variables are recorded before the database is made.
postgres_create_early(has, F, silent) ==
  LET made == manage_user(has, F, silent)
      end == IF returns(manage_script, F, silent)
               THEN manage_schema(made, F, silent) ELSE made
  IN Answer(end \cup (IF "schema" \in end \ has THEN {"write"} ELSE {}),
            {"POSTGRES"}, FALSE)

\* The rights come with a schema of the user's own; to repeat the scripts
\* gives no right back that was revoked on it.
postgres_create_db_user(has, F, silent) ==
  LET made == manage_user(has, F, silent)
      goes_on == returns(manage_script, F, silent)
      end == IF goes_on THEN manage_schema(made, F, silent) ELSE made
  IN Answer(end \cup (IF "schema" \in end \ has THEN {"write"} ELSE {}),
            IF goes_on THEN add_pdb_user_metadata(F) ELSE {}, FALSE)

\* The sessions are terminated, then the database is dropped, which fails
\* unnoticed when a client has connected in the meantime.
postgres_delete_db_user(has, F, session) ==
  Answer(IF {"terminate", "drop"} \cap F = {} /\ ~session THEN {} ELSE has,
         {}, FALSE)

\* Mutant: a database that is there already is an error.
ferretdb_create_if_new(has, F, silent) ==
  LET made == manage_user(has, F, silent)
  IN IF ~returns(manage_script, F, silent) \/ "database" \in has
       THEN Answer(has, {}, FALSE)
     ELSE Answer(made \cup (IF "granted" \in made \ has THEN {"write"} ELSE {}),
                 add_mdb_user_metadata(F), FALSE)

ferretdb_create_db_user(has, F, silent) ==
  LET made == manage_user(has, F, silent)
  IN Answer(made \cup (IF "granted" \in made \ has THEN {"write"} ELSE {}),
            IF returns(manage_script, F, silent) THEN add_mdb_user_metadata(F) ELSE {},
            FALSE)

\* FerretDB's own connections to the database are not terminated.
ferretdb_delete_db_user(has, F, session) ==
  Answer(IF "drop" \notin F /\ ~session THEN {} ELSE has, {}, FALSE)

\* The role to restrict is given by the name of the database.
revoke_access_from_db(has, is_role) ==
  IF is_role /\ {"database", "role"} \subseteq has
    THEN [ok |-> TRUE, has |-> has \ {"write"}]
    ELSE [ok |-> FALSE, has |-> has]

grant_access_on_db(has, is_role) ==
  IF is_role /\ {"database", "role"} \subseteq has
    THEN [ok |-> TRUE, has |-> has \cup {"write"}]
    ELSE [ok |-> FALSE, has |-> has]

----------------------------------------------------------------------------
(* Milvus: the first request that raises ends the function; it answers an  *)
(* error for what exists already, or is missing.  An HTTP error other than *)
(* 403 does not raise.                                                     *)

setup_calls == <<"user", "database", "role", "privileges", "granted">>

\* What is not made is missed by the first request that names it.
setup_misses(F) ==
  (IF "user" \in F THEN {"granted"} ELSE {})
  \cup (IF "database" \in F THEN {"role"} ELSE {})
  \cup (IF "role" \in F THEN {"privileges"} ELSE {})

milvus_setup_user(has, F, silent) ==
  LET made == {"user", "database", "role"} \cap has
      done == upto(setup_calls, made \cup (IF silent THEN setup_misses(F) ELSE F))
  IN Answer(has \cup (done \ F),
            IF done = all_of(setup_calls) THEN add_milvus_user_metadata(F) ELSE {},
            FALSE)

remove_calls == <<"collections", "privileges", "role", "user", "database">>

\* A role that still has privileges is not dropped.
remove_misses(F) ==
  (F \cap {"collections"})
  \cup (IF "privileges" \in F THEN {"role"} ELSE {})

milvus_remove_user(has, F, silent) ==
  LET missing == ({"privileges", "role", "user", "database"} \ has)
                 \cup (IF "database" \in has THEN {} ELSE {"collections"})
      done == upto(remove_calls,
                   missing \cup (IF silent THEN remove_misses(F) ELSE F))
      gone == done \ F
  IN Answer(has \ (gone \cup (IF gone \cap {"role", "user"} # {}
                                THEN {"granted"} ELSE {})),
            {}, FALSE)
=============================================================================
