----------------------------- MODULE WebActions -----------------------------
(***************************************************************************)
(* The web actions that read and write what the users store: login,        *)
(* content, and the commands of the devel actions on buckets, PostgreSQL,  *)
(* redis and FerretDB.  A request is authorized in two queries, then does  *)
(* its calls of the store one at a time.                                   *)
(***************************************************************************)
EXTENDS SystemActions, Sequences, SequencesExt

CONSTANTS
  Path,        \* paths of requests after the leading slash, as sequences
  MaxRequests  \* bound on the requests

ASSUME PathAssumption == \A p \in Path : p \in Seq(STRING) /\ Len(p) > 0
ASSUME RequestsAssumption == MaxRequests \in Nat

Request == 1 .. MaxRequests

VARIABLES
  request,   \* the requests
  objects,   \* what the stores hold: the request that wrote it, 0 for nothing
  reported,  \* history: the writes that were answered with success
  given_up   \* history: what was overwritten, removed on request, or moved
             \* while another request used the same objects

webVars == <<request, objects, reported, given_up>>

----------------------------------------------------------------------------
(* Where things are.                                                       *)

\* The first element is the user or the bucket.  It is cut out of the rest
\* wherever it is followed by a slash.
process_path_param(p) ==
  [root |-> Head(p),
   file |-> SelectSeq(SubSeq(p, 2, Len(p) - 1), LAMBDA dir : dir # Head(p))
            \o <<Last(p)>>]

Bucket == {"data", "web"}
Store == {"postgres", "redis", "mongodb"}

File == { process_path_param(p).file : p \in Path }
Place == [user : Login, store : Bucket, file : File]
         \union [user : Login, store : Store, file : {<<>>}]

Object(l, bucket, p) ==
  [user |-> l, store |-> bucket, file |-> process_path_param(p).file]
Row(l, store) == [user |-> l, store |-> store, file |-> <<>>]

PutObject(place) == [op |-> "put", from |-> place, to |-> place]
GetObject(place) == [op |-> "get", from |-> place, to |-> place]
RemoveObject(place) == [op |-> "remove", from |-> place, to |-> place]
CopyObject(from, to) == [op |-> "copy", from |-> from, to |-> to]
\* A statement that is rolled back, as its answer has no rows to fetch.
RollBack(place) == [op |-> "rollback", from |-> place, to |-> place]

----------------------------------------------------------------------------
(* The calls of a request.                                                 *)

\* Mutant: the object is removed before it is copied.
mv_file_removing_first(from, to) == <<RemoveObject(from), CopyObject(from, to)>>

mv_file(from, to) == <<CopyObject(from, to), RemoveObject(from)>>

minio_calls(q) ==
  CASE q.cmd = "ls" -> <<>>
    [] q.cmd = "rm" -> <<RemoveObject(q.from)>>
    [] q.cmd = "cp" -> <<CopyObject(q.from, q.to)>>
    [] q.cmd = "mv" -> mv_file(q.from, q.to)
    [] q.cmd \in {"clean", "dry-run"} -> <<>>

\* Whatever has the word "select" in it is a query, whose rows are fetched.
psql_calls(q) ==
  CASE q.cmd = "script" -> <<PutObject(q.from)>>
    [] q.cmd = "query" -> <<GetObject(q.from)>>
    [] q.cmd = "returning-query" -> <<PutObject(q.from)>>
    [] q.cmd = "writing-query" -> <<RollBack(q.from)>>

content_calls(q) ==
  <<IF q.cmd = "put" THEN PutObject(q.from) ELSE RemoveObject(q.from)>>

redis_calls(q) ==
  <<IF q.cmd = "put" THEN PutObject(q.from) ELSE GetObject(q.from)>>

ferretdb_calls(q) == redis_calls(q)

calls(q) ==
  CASE q.action \in {"content", "devel_upload"} -> content_calls(q)
    [] q.action = "minio" -> minio_calls(q)
    [] q.action = "psql" -> psql_calls(q)
    [] q.action = "redis" -> redis_calls(q)
    [] q.action = "ferretdb" -> ferretdb_calls(q)
    [] OTHER -> <<>>

\* Requests that are refused at once: a method, a header or a body is
\* missing.  An upload is deleted with a body too.
refused(q) ==
  \/ ~q.header /\ q.action # "login"
  \/ ~q.body /\ (q.action \notin {"login", "content", "devel_download"}
                 \/ (q.action = "content" /\ q.cmd = "put"))

\* The error answer of an action.  devel_download closes a response it does
\* not have, which is not an answer at all.
failure(q) == IF q.action = "devel_download" THEN "none" ELSE "400"

\* redis answers 204 when the reply is empty or zero.
success(q) ==
  IF q.action = "redis" /\ q.cmd = "get" /\ objects[q.from] = 0
    THEN "204" ELSE "200"

\* What the store does not hinder: the move and the clean-up go on.
ignores_failure(q, call) == call.op = "remove" /\ q.cmd \in {"mv", "clean"}

----------------------------------------------------------------------------
(* The steps of a request.                                                 *)

\* What may be asked: a command is one of the action's.
Command ==
  [login |-> {"login"}, content |-> {"put", "delete"}, devel_upload |-> {"put", "delete"},
   devel_download |-> {"get"}, redis |-> {"put", "get"}, ferretdb |-> {"put", "get"},
   psql |-> {"script", "query", "returning-query", "writing-query"},
   minio |-> {"ls", "rm", "cp", "mv", "clean", "dry-run"}]

Template ==
  [action : DOMAIN Command, cmd : UNION Range(Command), user : Login, key : Nat,
   header : BOOLEAN, body : BOOLEAN, from : Place, to : Place,
   at : {"none"}, data : {0}, todo : {<<>>}, answer : {"none"}]

NoRequest ==
  [action |-> "none", cmd |-> "none", user |-> CHOOSE l \in Login : TRUE,
   key |-> 0, header |-> FALSE, body |-> FALSE,
   from |-> CHOOSE p \in Place : TRUE, to |-> CHOOSE p \in Place : TRUE,
   at |-> "none", data |-> 0, todo |-> <<>>, answer |-> "none"]

Answers(r, answer) ==
  request' = [request EXCEPT ![r].at = "answered", ![r].answer = answer,
                             ![r].todo = <<>>]

\* The request t, by the holder of the key of an account.
Asks(r, t) ==
  /\ r <= scenario.requests /\ t.action \in deployed
  /\ \A s \in Request : (request[s].at = "none") <=> (s >= r)
  /\ request' = [request EXCEPT ![r] =
       IF refused(t) THEN [t EXCEPT !.at = "answered", !.answer = "400"]
       ELSE [t EXCEPT
         !.at = CASE t.action = "login" -> "user_data"
                  [] t.action = "content" -> "store"
                  [] OTHER -> "subject",
         !.data = t.key, !.todo = calls(t)]]
  /\ UNCHANGED <<scenario, faults, objects, reported, given_up>>

\* The key is the one of a subject.
fetch_subject(r) ==
  LET q == request[r]
  IN /\ q.at = "subject"
     /\ \/ /\ IF users[q.user] = q.key /\ q.key # 0
                THEN request' = [request EXCEPT ![r].at = "user_data"]
                ELSE Answers(r, failure(q))
           /\ UNCHANGED faults
        \/ Fault /\ Answers(r, failure(q))
     /\ UNCHANGED <<scenario, objects, reported, given_up>>

verify_password(q) == users[q.user] = q.key

\* The metadata have the variables of the store; those devel_download asks
\* for have other names.
has_env(q) == q.action # "devel_download" /\ q.from.store \in scenario.stores

\* The metadata of a user of that name, by then.
fetch_user_data(r) ==
  LET q == request[r]
      known == users[q.user] # 0
  IN /\ q.at = "user_data"
     /\ \/ /\ IF q.action = "login"
                THEN Answers(r, IF known /\ verify_password(q) THEN "200" ELSE "400")
                ELSE IF ~known \/ ~has_env(q) THEN Answers(r, failure(q))
                ELSE request' = [request EXCEPT ![r].at = "store",
                                                ![r].data = users[q.user]]
           /\ UNCHANGED faults
        \/ Fault /\ Answers(r, failure(q))
     /\ UNCHANGED <<scenario, objects, reported, given_up>>

\* The requests that have copied an object and have to remove the original.
moving(s) ==
  request[s].cmd = "mv" /\ request[s].at = "store" /\ Len(request[s].todo) = 1

\* The objects that are being moved while r writes or removes one of them.
in_the_way(r, place) ==
  UNION { {request[s].from, request[s].to} :
            s \in {s \in Request \ {r} :
                     moving(s) /\ place \in {request[s].from, request[s].to}} }

\* The effect of a call on the store.
Effect(r, call) ==
  LET q == request[r]
      new == CASE call.op = "put" -> r
               [] call.op = "copy" -> objects[call.from]
               [] call.op = "remove" -> 0
      raced == in_the_way(r, call.to)
  IN IF call.op \in {"get", "rollback"} THEN UNCHANGED <<objects, given_up>>
     ELSE /\ objects' = [objects EXCEPT ![call.to] = new]
          /\ given_up' = given_up
               \union (IF ignores_failure(q, call) /\ q.cmd = "mv" THEN {}
                       ELSE {objects[call.to]} \ {0, new})
               \union (IF raced = {} THEN {}
                       ELSE ({objects[p] : p \in raced} \union {new}) \ {0})

\* The store knows the user and has the object.
possible(q, call) ==
  /\ users[q.user] = q.data
  /\ call.op = "copy" => objects[call.from] # 0 /\ call.from # call.to
  /\ call.op # "rollback"

Succeeds(r) ==
  LET q == request[r]
  IN IF Len(q.todo) > 1
       THEN /\ request' = [request EXCEPT ![r].todo = Tail(@)]
            /\ UNCHANGED reported
       ELSE /\ Answers(r, success(q))
            /\ reported' = IF q.todo # <<>> /\ Head(q.todo).op = "put"
                             THEN reported \union {r} ELSE reported

Fails(r, call) ==
  IF ignores_failure(request[r], call) THEN Succeeds(r)
  ELSE Answers(r, "400") /\ UNCHANGED reported

\* One call of the store.
Serve(r) ==
  LET q == request[r]
      call == Head(q.todo)
  IN /\ q.at = "store" /\ q.todo # <<>>
     /\ \/ possible(q, call) /\ Effect(r, call) /\ Succeeds(r) /\ UNCHANGED faults
        \/ ~possible(q, call) /\ Fails(r, call) /\ UNCHANGED <<objects, given_up, faults>>
        \/ /\ Fault /\ Fails(r, call)
           /\ \/ possible(q, call) /\ Effect(r, call)
              \/ UNCHANGED <<objects, given_up>>
     /\ UNCHANGED scenario

\* What clean removes, unless it is a dry run.
clean_bucket_content(q) ==
  LET there == {p \in Place : p.user = q.user /\ p.store = q.from.store
                              /\ objects[p] # 0}
  IN IF q.cmd = "clean" THEN {RemoveObject(p) : p \in there} ELSE {}

\* ls, and the listing that clean works through.
List(r) ==
  LET q == request[r]
  IN /\ q.at = "store" /\ q.todo = <<>>
     /\ \/ /\ UNCHANGED faults
           /\ IF users[q.user] # q.data THEN Answers(r, "400")
              ELSE IF clean_bucket_content(q) # {}
                THEN request' = [request EXCEPT ![r].todo =
                       SetToSeq(clean_bucket_content(q))]
              ELSE Answers(r, "200")
        \/ Fault /\ Answers(r, "400")
     /\ UNCHANGED <<scenario, objects, reported, given_up>>

WebInit ==
  /\ request = [r \in Request |-> NoRequest]
  /\ objects = [p \in Place |-> 0]
  /\ reported = {} /\ given_up = {}

Answering(r) ==
  fetch_subject(r) \/ fetch_user_data(r) \/ Serve(r) \/ List(r)

\* The operator removes what a deleted user stored.
Cleared(l) ==
  /\ objects' = [p \in Place |-> IF p.user = l THEN 0 ELSE objects[p]]
  /\ given_up' = given_up \union ({objects[p] : p \in {p \in Place : p.user = l}} \ {0})
  /\ UNCHANGED <<request, reported>>

WebTypeOK ==
  /\ \A r \in Request :
       LET q == request[r]
       IN /\ q.user \in Login /\ {q.key, q.data} \subseteq Nat
          /\ {q.from, q.to} \subseteq Place
          /\ q.at \in {"none", "subject", "user_data", "store", "answered"}
          /\ q.answer \in {"none", "200", "204", "400"}
          /\ \A i \in DOMAIN q.todo : {q.todo[i].from, q.todo[i].to} \subseteq Place
  /\ objects \in [Place -> Request \union {0}]
  /\ reported \subseteq Request /\ given_up \subseteq Request
=============================================================================
