------------------------------- MODULE UserDB -------------------------------
(***************************************************************************)
(* The documents of the users in CouchDB, one request at a time: the       *)
(* subject OpenWhisk authenticates (database subjects) and the metadata    *)
(* the login and secrets actions answer with (database users_metadata).    *)
(*                                                                         *)
(* The operator writes both from the handlers of a WhiskUser resource, the *)
(* secrets action merges variables into the second, wskadmin edits the     *)
(* first.  CouchDB accepts a write only with the revision of the stored    *)
(* document; the operator and the actions read that revision just before   *)
(* they write, wskadmin sends back the one of the document it edited.      *)
(***************************************************************************)
EXTENDS Naturals, Sequences

CONSTANTS
  Login,               \* users, by the namespace of their resource
  Password, Quota, Key, Name, Value,
  Specs,               \* the specs a user's resource may have
  Envs,                \* the variables an invocation may ask to set
  NoSpec, NoBody, NoKey, Unset, Empty,  \* model values
  AdminCommands,       \* the commands of wskadmin that are run
  MaxCalls,            \* bound: invocations
  MaxEvents            \* bound: edits and deletions of resources, invocations,
                       \* failing requests and restarts, taken together

SpecType == [password : Password, quota : Quota, auth : Key]
Env == [Name -> Value \union {Unset}]
Subject == [key : Key, blocked : BOOLEAN]
Metadata ==
  [password : Password, auth : Key \union {NoKey}, quota : Quota,
   userenv : Env]
Body == Subject \union Metadata

ASSUME SpecsAssumption ==
  /\ Specs \subseteq SpecType
  /\ NoSpec \notin Specs
  /\ NoBody \notin Body
  /\ NoKey \notin Key
  /\ {Unset, Empty} \cap Value = {}
  /\ Unset # Empty
ASSUME EnvsAssumption ==
  Envs \subseteq UNION { [N -> Value \union {Empty}] : N \in SUBSET Name }
ASSUME WritersAssumption ==
  /\ Login \cap Nat = {}
  /\ AdminCommands \subseteq {"create", "delete", "block", "unblock"}
ASSUME BoundsAssumption ==
  {MaxCalls, MaxEvents} \subseteq Nat

VARIABLES
  wsku,      \* each resource: "absent", "live" or "deleting"
  spec,      \* its spec
  handled,   \* the spec of its last handled edit (kopf)
  handler,   \* the running handler of each resource
  task,      \* the operation each writer is in
  store,     \* the documents, each with its revision
  past,      \* history: the bodies each document has had
  attempt,   \* history: the spec an unfinished update has begun to apply
  acked,     \* history: the variables the secrets action has acknowledged
  barred,    \* history: whether wskadmin has said that the user is blocked
  marred,    \* history: what may have cost a document an update
  calls, events

resourceVars == <<wsku, spec, handled, handler>>
historyVars == <<past, attempt, acked, barred, marred>>
bounds == <<calls, events>>
vars == <<resourceVars, task, store, historyVars, bounds>>

\* Invocations of the secrets action and of wskadmin, by their number.
Invocations == 1 .. MaxCalls
Writer == Login \union Invocations
Db == {"subjects", "users_metadata"}
Doc == Db \X Login

NoEnv == [n \in Name |-> Unset]

(* The operations of each writer.                                          *)
Templated == {"add_subject", "save_user_metadata"}
Updates == {"password", "quota", "env"}
Deletes == {"delete_ow_user", "delete_user_metadata"}
Operation == Templated \union Updates \union Deletes \union AdminCommands

db_of(op) ==
  IF op \in {"add_subject", "delete_ow_user"} \union AdminCommands
    THEN "subjects" ELSE "users_metadata"

Idle ==
  [op |-> "none", login |-> CHOOSE l \in Login : TRUE, at |-> "idle",
   key |-> NoKey, env |-> <<>>, base |-> NoBody, rev |-> 0, seen |-> 0]

NoHandler == [kind |-> "idle", spec |-> NoSpec, todo |-> <<>>, auth |-> NoKey]

doc_of(w) == <<db_of(task[w].op), task[w].login>>
exists(d) == store[d].body # NoBody
stored(w) == store[doc_of(w)]

Event == events < MaxEvents /\ events' = events + 1
NoEvent == UNCHANGED events
Marred(d, causes) == marred' = [marred EXCEPT ![d] = @ \union causes]

----------------------------------------------------------------------------
(* What the operations write.                                              *)

\* Mutant: the variables of the request replace those of the user.
merge_replacing(old, env) ==
  [n \in Name |-> IF n \in DOMAIN env /\ env[n] # Empty THEN env[n] ELSE Unset]

\* Mutant: an empty value is kept as a value.
merge_keeping_empty(old, env) ==
  [n \in Name |-> IF n \in DOMAIN env THEN env[n] ELSE old[n]]

\* A variable with an empty value is removed, one that is not named stays.
handle_additional_env(old, env) ==
  [n \in Name |->
     IF n \notin DOMAIN env THEN old[n]
     ELSE IF env[n] = Empty THEN Unset ELSE env[n]]

\* What the caller of the secrets action may expect of it.
acknowledged_env(old, env) ==
  LET set == { n \in DOMAIN env : env[n] # Empty }
      kept == Name \ DOMAIN env
  IN [n \in Name |-> CASE n \in set -> env[n]
                       [] n \in kept -> old[n]
                       [] OTHER -> Unset]

subject_of(key) == [key |-> key, blocked |-> FALSE]

metadata_of(s, auth) ==
  [password |-> s.password, auth |-> auth, quota |-> s.quota,
   userenv |-> NoEnv]

body_of(w) ==
  LET t == task[w]
      h == handler[t.login]
  IN CASE t.op = "add_subject" -> subject_of(h.spec.auth)
       [] t.op = "save_user_metadata" -> metadata_of(h.spec, h.auth)
       [] t.op = "password" ->
            [t.base EXCEPT !.password = h.spec.password]
       [] t.op = "quota" -> [t.base EXCEPT !.quota = h.spec.quota]
       [] t.op = "env" ->
            [t.base EXCEPT !.userenv = handle_additional_env(@, t.env)]
       [] t.op = "create" ->
            IF t.base = NoBody THEN subject_of(t.key)
            ELSE [t.base EXCEPT !.key = t.key]
       [] t.op = "block" -> [t.base EXCEPT !.blocked = TRUE]
       [] t.op = "unblock" -> [t.base EXCEPT !.blocked = FALSE]

\* Mutant: a document that has gone is written without a revision.
revision_dropped(t, cur) == IF cur.body = NoBody THEN 0 ELSE cur.rev

\* update_doc sends the revision it has just read; when there is none, the
\* one of the document it was given, which a template does not have.
revision(t, cur) == IF cur.body = NoBody THEN t.rev ELSE cur.rev

\* CouchDB takes a write with the revision of the document, or with none
\* when there is no such document.
accepts(d, rev) == rev = IF exists(d) THEN store[d].rev ELSE 0

\* Mutant: wskadmin writes with the revision the document has by then.
sent_revision_current(t) ==
  IF t.op \in AdminCommands /\ exists(<<"subjects", t.login>>)
    THEN store[<<"subjects", t.login>>].rev ELSE t.rev

sent_revision(t) == t.rev

----------------------------------------------------------------------------
(* How an operation begins and ends.                                       *)

\* Templates are rendered, everything else begins with a read.
begun(op, l, key, env) ==
  [Idle EXCEPT !.op = op, !.login = l, !.key = key, !.env = env,
               !.at = IF op \in Templated THEN "get" ELSE "find"]

\* Mutant: the AUTH of the user is recorded whatever the database answers.
auth_recorded_always(h, ok) == h.spec.auth

auth_recorded(h, ok) == IF ok THEN h.spec.auth ELSE NoKey

\* Mutant: a user who is not found makes the handler raise.
raises_not_found(op, ok) == op = "delete_user_metadata" /\ ~ok

\* Every failure is caught where it happens: the handler goes on.
raises(op, ok) == FALSE

\* The handler h of l calls the next function of couchdb.py or userdb_util.py.
Calls(l, h) ==
  IF h.todo = <<>>
    THEN /\ handler' = [handler EXCEPT ![l] = h]
         /\ task' = [task EXCEPT ![l] = Idle]
    ELSE /\ handler' = [handler EXCEPT ![l] = [h EXCEPT !.todo = Tail(@)]]
         /\ task' = [task EXCEPT ![l] = begun(Head(h.todo), l, NoKey, <<>>)]

StartHandler(l, kind, todo) ==
  Calls(l, [kind |-> kind, spec |-> spec[l], todo |-> todo, auth |-> NoKey])

\* The operation of w has given ok: the handler or the invocation goes on.
Ends(w, ok) ==
  LET h == handler[w]
      op == task[w].op
  IN IF w \notin Login
       THEN task' = [task EXCEPT ![w] = Idle] /\ UNCHANGED handler
       ELSE Calls(w, IF raises(op, ok) THEN NoHandler
                     ELSE IF op = "add_subject"
                       THEN [h EXCEPT !.auth = auth_recorded(h, ok)]
                     ELSE h)

Goes(w, t) == task' = [task EXCEPT ![w] = t] /\ UNCHANGED handler

----------------------------------------------------------------------------
(* The resource and its handlers.                                          *)

ApplyUser(l, s) ==
  /\ wsku[l] # "deleting" /\ spec[l] # s
  /\ Event
  /\ wsku' = [wsku EXCEPT ![l] = "live"]
  /\ spec' = [spec EXCEPT ![l] = s]
  /\ UNCHANGED <<handled, handler, task, store, historyVars, calls>>

DeleteUser(l) ==
  /\ wsku[l] = "live"
  /\ Event
  /\ wsku' = [wsku EXCEPT ![l] = "deleting"]
  /\ UNCHANGED <<spec, handled, handler, task, store, historyVars,
                 calls>>

whisk_user_create(l) ==
  /\ wsku[l] = "live" /\ handler[l] = NoHandler /\ handled[l] = NoSpec
  /\ StartHandler(l, "create", <<"add_subject", "save_user_metadata">>)
  /\ UNCHANGED <<wsku, spec, handled, store, historyVars, bounds>>

\* Mutant: an edit of both the password and the quota saves the quota only.
what_to_do_once(old, new) ==
  IF old.quota # new.quota THEN <<"quota">>
  ELSE IF old.password # new.password THEN <<"password">> ELSE <<>>

\* Other edits of the spec change no document.
what_to_do(old, new) ==
  (IF old.password # new.password THEN <<"password">> ELSE <<>>)
  \o (IF old.quota # new.quota THEN <<"quota">> ELSE <<>>)

whisk_user_update(l) ==
  /\ wsku[l] = "live" /\ handler[l] = NoHandler
  /\ handled[l] \notin {NoSpec, spec[l]}
  /\ StartHandler(l, "update", what_to_do(handled[l], spec[l]))
  /\ attempt' = [attempt EXCEPT ![l] = spec[l]]
  /\ Marred(<<"users_metadata", l>>,
            IF attempt[l] \in {NoSpec, spec[l]} THEN {} ELSE {"abandoned"})
  /\ UNCHANGED <<wsku, spec, handled, store, past, acked, barred, bounds>>

\* Mutant: the metadata are removed with the subject only.
delete_steps_subject(s) == <<"delete_ow_user">>

delete_steps(s) == <<"delete_ow_user", "delete_user_metadata">>

whisk_user_delete(l) ==
  /\ wsku[l] = "deleting" /\ handler[l] = NoHandler
  /\ StartHandler(l, "delete", delete_steps(spec[l]))
  /\ UNCHANGED <<wsku, spec, handled, store, historyVars, bounds>>

\* The handler returns: kopf records the edit, or lets the resource go.
HandlerDone(l) ==
  /\ handler[l].kind # "idle" /\ task[l] = Idle
  /\ handler' = [handler EXCEPT ![l] = NoHandler]
  /\ IF handler[l].kind = "delete"
       THEN /\ wsku' = [wsku EXCEPT ![l] = "absent"]
            /\ spec' = [spec EXCEPT ![l] = NoSpec]
            /\ handled' = [handled EXCEPT ![l] = NoSpec]
       ELSE /\ handled' = [handled EXCEPT ![l] = handler[l].spec]
            /\ UNCHANGED <<wsku, spec>>
  /\ attempt' = [attempt EXCEPT ![l] = NoSpec]
  /\ UNCHANGED <<task, store, past, acked, barred, marred, bounds>>

----------------------------------------------------------------------------
(* Invocations of the secrets action and of wskadmin.                      *)

Invoke(t) ==
  /\ Event /\ calls < MaxCalls /\ calls' = calls + 1
  /\ task' = [task EXCEPT ![calls + 1] = t]
  /\ UNCHANGED <<resourceVars, store, historyVars>>

\* The secrets action, with the authorization header of some user.
secrets(l, key, env) == Invoke(begun("env", l, key, env))

wskadmin(l, command, key) == Invoke(begun(command, l, key, <<>>))

----------------------------------------------------------------------------
(* The requests.                                                           *)

\* Whether the operation goes on with what it has read.
proceeds(t, b) ==
  CASE t.op = "env" -> b # NoBody /\ b.auth = t.key /\ t.env # <<>>
    [] t.op = "create" -> b = NoBody \/ ~b.blocked
    [] OTHER -> b # NoBody

\* find_doc, or the GET of wskadmin.
Find(w) ==
  LET t == task[w]
      s == stored(w)
      got == [t EXCEPT !.base = s.body,
                       !.rev = IF s.body = NoBody THEN 0 ELSE s.rev,
                       !.seen = s.rev,
                       !.at = IF t.op \in AdminCommands THEN "write" ELSE "get"]
  IN /\ t.at = "find"
     /\ \/ /\ NoEvent /\ UNCHANGED marred
           /\ IF proceeds(t, s.body) THEN Goes(w, got) ELSE Ends(w, FALSE)
        \/ /\ Event /\ Marred(doc_of(w), {"fault"})
           /\ Ends(w, FALSE)
     /\ UNCHANGED <<wsku, spec, handled, store, past, attempt, acked, barred,
                    calls>>

\* get_doc of update_doc and of delete_doc.  It answers None on any error,
\* and update_doc then writes as if there were no document.
Get(w) ==
  LET t == task[w]
      Read(cur) ==
        IF t.op \in Deletes /\ cur.body = NoBody THEN Ends(w, FALSE)
        ELSE Goes(w, [t EXCEPT !.at = "write", !.rev = revision(t, cur),
                               !.seen = IF t.op \in Templated
                                          THEN stored(w).rev ELSE @])
  IN /\ t.at = "get"
     /\ \/ NoEvent /\ UNCHANGED marred /\ Read(stored(w))
        \/ /\ Event /\ Marred(doc_of(w), {"fault"})
           /\ Read([rev |-> 0, body |-> NoBody])
     /\ UNCHANGED <<wsku, spec, handled, store, past, attempt, acked, barred,
                    calls>>

\* What the write of w may cost its document: it is of an operation that
\* another one overlapped, it renders anew a document that exists, or an
\* administrator decided otherwise than the resource says.
causes(w) ==
  LET t == task[w]
  IN IF t.op \in AdminCommands
       THEN IF t.op \in {"create", "delete"} THEN {"admin"} ELSE {}
       ELSE (IF t.seen # stored(w).rev THEN {"overlap"} ELSE {})
            \union (IF t.op \in Templated /\ exists(doc_of(w))
                      THEN {"again"} ELSE {})

\* The document as w leaves it.
Stores(w) ==
  LET d == doc_of(w)
      b == IF task[w].op \in Deletes \union {"delete"} THEN NoBody
           ELSE body_of(w)
  IN /\ store' = [store EXCEPT ![d] = [rev |-> @.rev + 1, body |-> b]]
     /\ past' = [past EXCEPT ![d] = @ \union ({b} \ {NoBody})]

\* What w tells its caller.
Acknowledged(w) ==
  LET t == task[w]
      l == t.login
  IN /\ acked' = [acked EXCEPT ![l] =
                    IF t.op = "env" THEN acknowledged_env(@, t.env)
                    ELSE IF t.op = "delete_user_metadata" THEN NoEnv ELSE @]
     /\ barred' = [barred EXCEPT ![l] =
                     IF t.op = "block" THEN TRUE
                     ELSE IF t.op \in {"unblock", "delete", "delete_ow_user"}
                       THEN FALSE ELSE @]

\* The PUT, POST or DELETE.  A request that fails may have been served.
Write(w) ==
  LET t == task[w]
      ok == accepts(doc_of(w), sent_revision(t))
            /\ (t.op \in Deletes \union {"delete"} => exists(doc_of(w)))
  IN /\ t.at = "write"
     /\ \/ /\ NoEvent /\ Marred(doc_of(w), causes(w))
           /\ Ends(w, ok)
           /\ IF ok THEN Stores(w) /\ Acknowledged(w)
              ELSE UNCHANGED <<store, past, acked, barred>>
        \/ /\ Event /\ Marred(doc_of(w), causes(w) \union {"fault"})
           /\ Ends(w, FALSE)
           /\ \/ ok /\ Stores(w)
              \/ UNCHANGED <<store, past>>
           /\ UNCHANGED <<acked, barred>>
     /\ UNCHANGED <<wsku, spec, handled, attempt, calls>>

----------------------------------------------------------------------------
(* The process of the operator dies; kopf runs unfinished handlers again.  *)
Restart ==
  /\ Event
  /\ handler' = [l \in Login |-> NoHandler]
  /\ task' = [w \in Writer |-> IF w \in Login THEN Idle ELSE task[w]]
  /\ UNCHANGED <<wsku, spec, handled, store, historyVars, calls>>

Init ==
  /\ wsku = [l \in Login |-> "absent"]
  /\ spec = [l \in Login |-> NoSpec]
  /\ handled = [l \in Login |-> NoSpec]
  /\ handler = [l \in Login |-> NoHandler]
  /\ task = [w \in Writer |-> Idle]
  /\ store = [d \in Doc |-> [rev |-> 0, body |-> NoBody]]
  /\ past = [d \in Doc |-> {}]
  /\ attempt = [l \in Login |-> NoSpec]
  /\ acked = [l \in Login |-> NoEnv]
  /\ barred = [l \in Login |-> FALSE]
  /\ marred = [d \in Doc |-> {}]
  /\ calls = 0 /\ events = 0

Request(w) == Find(w) \/ Get(w) \/ Write(w)

Operator(l) ==
  \/ whisk_user_create(l)
  \/ whisk_user_update(l)
  \/ whisk_user_delete(l)
  \/ HandlerDone(l)
  \/ Request(l)

Invocation ==
  \/ \E l \in Login, key \in Key, env \in Envs : secrets(l, key, env)
  \/ \E l \in Login, command \in AdminCommands, key \in Key :
       wskadmin(l, command, key)
  \/ \E c \in Invocations : Request(c)

Next ==
  \/ \E l \in Login : DeleteUser(l) \/ Operator(l)
  \/ \E l \in Login, s \in Specs : ApplyUser(l, s)
  \/ Invocation
  \/ Restart

\* kopf goes on with a resource as long as there is something to do for it.
Fairness == \A l \in Login : WF_vars(Operator(l))

Spec == Init /\ [][Next]_vars /\ Fairness

----------------------------------------------------------------------------
(* Properties.                                                             *)

Task ==
  [op : Operation \union {"none"}, login : Login,
   at : {"idle", "find", "get", "write"}, key : Key \union {NoKey},
   env : Envs \union {<<>>}, base : Body \union {NoBody}, rev : Nat,
   seen : Nat]

Handler ==
  [kind : {"idle", "create", "update", "delete"},
   spec : Specs \union {NoSpec}, todo : Seq(Operation),
   auth : Key \union {NoKey}]

Cause == {"overlap", "again", "fault", "admin", "abandoned"}

\* The documents hold a subject or the metadata of a user, with a value for
\* every variable that is set, whatever update_doc and wskadmin write.
TypeOK ==
  /\ wsku \in [Login -> {"absent", "live", "deleting"}]
  /\ spec \in [Login -> Specs \union {NoSpec}]
  /\ handled \in [Login -> Specs \union {NoSpec}]
  /\ handler \in [Login -> Handler]
  /\ task \in [Writer -> Task]
  /\ store \in [Doc -> [rev : Nat, body : Body \union {NoBody}]]
  /\ past \in [Doc -> SUBSET Body]
  /\ attempt \in [Login -> Specs \union {NoSpec}]
  /\ acked \in [Login -> Env]
  /\ barred \in [Login -> BOOLEAN]
  /\ marred \in [Doc -> SUBSET Cause]
  /\ {calls, events} \subseteq Nat
  /\ \A l \in Login :
       /\ store[<<"subjects", l>>].body \in Subject \union {NoBody}
       /\ store[<<"users_metadata", l>>].body \in Metadata \union {NoBody}

Handling(l) == handler[l].kind # "idle"

\* Once whisk_user_create or whisk_user_update is done, the password the
\* login action accepts and the quota are those of the resource, unless a
\* write of the secrets action overlapped the update, a request failed, or
\* the resource was edited again before an interrupted update was repeated.
PasswordIsHandled ==
  \A l \in Login :
    LET d == <<"users_metadata", l>>
    IN wsku[l] = "live" /\ handled[l] = spec[l] /\ ~Handling(l)
       /\ attempt[l] = NoSpec
       /\ marred[d] \cap {"overlap", "fault", "abandoned"} = {}
       => /\ exists(d)
          /\ store[d].body.password = handled[l].password
          /\ store[d].body.quota = handled[l].quota

\* The variables that the secrets action has acknowledged are in the
\* document of the user until the user is deleted, through every update of
\* the operator that did not overlap the action.
SecretsAreKept ==
  \A l \in Login :
    LET d == <<"users_metadata", l>>
    IN exists(d) /\ marred[d] = {} => store[d].body.userenv = acked[l]

\* A user whom wskadmin has said to be blocked stays blocked, and one it has
\* unblocked is not blocked again, however its commands interleave, unless
\* the operator rendered the subject anew.
BlockedStaysBlocked ==
  \A l \in Login :
    LET d == <<"subjects", l>>
    IN exists(d) /\ marred[d] \cap {"again", "overlap", "fault"} = {}
       => store[d].body.blocked = barred[l]

\* The key the secrets action asks for is one OpenWhisk authenticates: it is
\* recorded only when the subject was saved, failing requests included.
AuthIsOfTheSubject ==
  \A l \in Login :
    LET d == <<"users_metadata", l>>
        s == <<"subjects", l>>
    IN wsku[l] = "live" /\ ~Handling(l) /\ handled[l] # NoSpec /\ exists(d)
       /\ marred[d] \cap {"overlap", "fault"} = {}
       /\ marred[s] \cap {"overlap", "admin"} = {}
       /\ store[d].body.auth # NoKey
       => exists(s) /\ store[s].body.key = store[d].body.auth

\* A deleted user has neither metadata nor, unless an administrator made
\* one, a subject, if nothing overlapped the deletion and no request failed.
NothingOfTheDeleted ==
  \A l \in Login, db \in Db :
    wsku[l] = "absent"
    /\ marred[<<db, l>>] \cap {"overlap", "fault", "admin"} = {}
    => ~exists(<<db, l>>)

\* Every edit and every deletion of a user is handled in the end.
UsersAreHandled ==
  \A l \in Login :
    /\ (wsku[l] = "deleting") ~> (wsku[l] # "deleting")
    /\ (wsku[l] = "live") ~> (wsku[l] # "live" \/ handled[l] = spec[l])

----------------------------------------------------------------------------
(* The databases keep the promise of UserDocuments: in particular no late  *)
(* write of the secrets action brings a deleted user back.                 *)

RenderedBodies ==
  [d \in Doc |->
     IF d[1] = "subjects" THEN { subject_of(key) : key \in Key }
     ELSE { metadata_of(s, auth) : s \in SpecType, auth \in Key \union {NoKey} }]

EditedBodies ==
  { e \in (Subject \X Subject) \union (Metadata \X Metadata) :
      \E f \in DOMAIN e[1] :
        \A g \in DOMAIN e[1] \ {f} : e[2][g] = e[1][g] }

Documents ==
  INSTANCE UserDocuments WITH
    Rendered <- RenderedBodies, Edited <- EditedBodies,
    current <- [d \in Doc |-> store[d].body]

\* The requests implement the documents one step at a time.
ImplementsDocuments == Documents!Spec
=============================================================================
