--------------------------- MODULE UserDB_proofs ---------------------------
(***************************************************************************)
(* The requests on the databases of the users implement UserDocuments, for *)
(* every set of users, keys, variables and specs, any number of            *)
(* invocations, and any failures and restarts.                             *)
(***************************************************************************)
EXTENDS UserDB, SequenceTheorems, TLAPS

----------------------------------------------------------------------------
(* What has to hold for a write to be a step of UserDocuments.             *)

\* The operations of handlers.
Handled == Templated \union {"password", "quota"} \union Deletes

\* What a database may have of a user.
BodyOf == [d \in Doc |-> IF d[1] = "subjects" THEN Subject ELSE Metadata]

\* A document that exists has a revision and has been remembered.
StoreInv ==
  /\ store \in [Doc -> [rev : Nat, body : Body \union {NoBody}]]
  /\ past \in [Doc -> SUBSET Body]
  /\ \A d \in Doc :
       /\ past[d] \subseteq BodyOf[d]
       /\ store[d].body # NoBody => store[d].rev > 0 /\ store[d].body \in past[d]

\* A handler works for a spec of its resource.
HandlerType ==
  [kind : {"idle", "create", "update", "delete"}, spec : Specs \union {NoSpec},
   todo : Seq(Handled), auth : Key \union {NoKey}]

\* A handler that has something to do works for a spec of its resource.
Spoken(h) == h.todo # <<>> => h.spec \in Specs

HandlerInv ==
  /\ wsku \in [Login -> {"absent", "live", "deleting"}]
  /\ spec \in [Login -> Specs \union {NoSpec}]
  /\ handler \in [Login -> HandlerType]
  /\ \A l \in Login : (wsku[l] # "absent" => spec[l] \in Specs) /\ Spoken(handler[l])

\* A task that is idle is of nobody.
TaskType ==
  [op : Operation \union {"none"}, login : Login \union {Idle.login},
   at : {"idle", "find", "get", "write"}, key : Key \union {NoKey},
   env : Envs \union {<<>>}, base : Body \union {NoBody}, rev : Nat, seen : Nat]

\* The task t is at a document it has read, in a version that was stored.
HasRead(t) == t.base \in past[<<db_of(t.op), t.login>>] /\ t.rev > 0

\* The task t of w is for a user, of a handler for its own; an update starts
\* from a document that was there, and so does wskadmin unless it makes a user.
TaskFits(w, t) ==
  /\ w \in Login => t.op \in Handled \union {"none"}
  /\ w \notin Login => t.op \in AdminCommands \union {"env", "none"}
  /\ t.op # "none" => t.login \in Login
  /\ w \in Login /\ t.op # "none" => t.login = w /\ handler[w].spec \in Specs
  /\ t.op = "none" => t.at = "idle"
  /\ t.op \in AdminCommands => t.at # "get"
  /\ t.op = "env" => t.env \in Envs
  /\ t.op = "create" => t.key \in Key
  /\ t.op \in Updates /\ t.at \in {"get", "write"} => HasRead(t)
  /\ t.op \in {"block", "unblock"} /\ t.at = "write" => HasRead(t)
  /\ t.op = "create" /\ t.at = "write" =>
       HasRead(t) \/ (t.base = NoBody /\ t.rev = 0)

TaskInv ==
  /\ task \in [Writer -> TaskType]
  /\ \A w \in Writer : TaskFits(w, task[w])

Inv == StoreInv /\ HandlerInv /\ TaskInv

----------------------------------------------------------------------------
(* Lemmas on the operators of the model.                                   *)

LEMMA Disjoint ==
  /\ \A w \in Login : w \notin Invocations
  /\ Login \subseteq Writer /\ Invocations \subseteq Writer
  BY WritersAssumption DEF Invocations, Writer

LEMMA IdleType ==
  /\ Idle \in TaskType
  /\ NoHandler \in HandlerType /\ Spoken(NoHandler)
  /\ \A w : TaskFits(w, Idle)
<1>1. Idle \in TaskType
  BY DEF Idle, TaskType
<1>2. NoHandler \in HandlerType /\ Spoken(NoHandler)
  BY DEF NoHandler, HandlerType, Spoken
<1>3. \A w : TaskFits(w, Idle)
  BY WritersAssumption DEF Idle, TaskFits, Updates
<1> QED
  BY <1>1, <1>2, <1>3

\* A task begins without a document.
LEMMA BegunType ==
  ASSUME NEW op \in Operation, NEW l \in Login, NEW key \in Key \union {NoKey},
         NEW env \in Envs \union {<<>>}
  PROVE  /\ begun(op, l, key, env) \in TaskType
         /\ begun(op, l, key, env).op = op
         /\ begun(op, l, key, env).login = l
         /\ begun(op, l, key, env).key = key
         /\ begun(op, l, key, env).env = env
         /\ begun(op, l, key, env).at \in {"get", "find"}
         /\ op \in Updates \union AdminCommands
              => begun(op, l, key, env).at = "find"
  BY WritersAssumption DEF begun, Idle, TaskType, Updates, Templated

LEMMA HandledOperations ==
  /\ Handled \subseteq Operation
  /\ "none" \notin Operation
  /\ Handled \cap (AdminCommands \union {"env"}) = {}
  BY WritersAssumption DEF Handled, Operation, Templated, Updates, Deletes

\* A task of a handler begins.
LEMMA HandledTask ==
  ASSUME NEW l \in Login, NEW o \in Handled,
         NEW t, t = begun(o, l, NoKey, <<>>)
  PROVE  /\ t \in TaskType /\ t.op \in Handled /\ t.op # "none"
         /\ t.login = l /\ t.at \in {"get", "find"}
         /\ t.op \in Updates => t.at = "find"
<1>1. <<>> \in Envs \union {<<>>} /\ NoKey \in Key \union {NoKey}
  OBVIOUS
<1>2. o \in Operation /\ o # "none"
  BY HandledOperations
<1> QED
  BY <1>1, <1>2, BegunType

\* The first operation of a handler, for the spec it works for.
LEMMA HandlerTask ==
  ASSUME NEW l \in Login, NEW h \in HandlerType, Spoken(h), h.todo # <<>>,
         NEW t, t = begun(Head(h.todo), l, NoKey, <<>>),
         NEW g, g = [h EXCEPT !.todo = Tail(@)]
  PROVE  /\ t \in TaskType /\ t.op \in Handled /\ t.op # "none"
         /\ t.login = l /\ t.at \in {"get", "find"}
         /\ t.op \in Updates => t.at = "find"
         /\ g \in HandlerType /\ g.spec \in Specs
<1>1. Head(h.todo) \in Handled /\ Tail(h.todo) \in Seq(Handled)
  BY DEF HandlerType
<1>2. g.spec \in Specs
  BY DEF Spoken, HandlerType
<1>3. g \in HandlerType
  BY <1>1 DEF HandlerType
<1>4. PICK o \in Handled : t = begun(o, l, NoKey, <<>>)
  BY <1>1, Zenon
<1>5. /\ t \in TaskType /\ t.op \in Handled /\ t.op # "none"
      /\ t.login = l /\ t.at \in {"get", "find"}
      /\ t.op \in Updates => t.at = "find"
  BY <1>4, HandledTask
<1> QED
  BY <1>2, <1>3, <1>5

\* What is remembered of the documents is not forgotten.
Grown == \A d \in Doc : past[d] \subseteq past'[d]

\* A task that is not at a document fits as well when documents change, and
\* one of another writer when a handler goes on.
LEMMA FitsLater ==
  ASSUME NEW w \in Writer, NEW t \in TaskType, TaskFits(w, t), Grown,
         w \in Login => handler'[w].spec = handler[w].spec
                        \/ handler'[w].spec \in Specs
  PROVE  TaskFits(w, t)'
<1>1. HasRead(t) /\ t.op # "none" => HasRead(t)'
  <2>1. t.op # "none" => <<db_of(t.op), t.login>> \in Doc
    BY DEF TaskFits, Doc, Db, db_of
  <2> QED
    BY <2>1 DEF HasRead, Grown
<1>2. t.op \in Updates \union {"block", "unblock", "create"} => t.op # "none"
  BY DEF Updates
<1> QED
  BY <1>1, <1>2 DEF TaskFits

\* A task that begins fits its writer.
LEMMA FitsNow ==
  ASSUME NEW l \in Login, NEW t \in TaskType, t.op \in Handled, t.login = l,
         t.at \in {"get", "find"}, t.op \in Updates => t.at = "find",
         handler'[l].spec \in Specs
  PROVE  TaskFits(l, t)'
  BY WritersAssumption
  DEF TaskFits, Handled, Templated, Deletes, Updates

\* A handler goes on with what it has to do.
LEMMA CallsInv ==
  ASSUME Inv, NEW l \in Login, NEW h \in HandlerType, Spoken(h), Calls(l, h),
         Grown, UNCHANGED <<wsku, spec>>
  PROVE  HandlerInv' /\ TaskInv'
<1>1. CASE h.todo = <<>>
  <2>1. handler' = [handler EXCEPT ![l] = h] /\ task' = [task EXCEPT ![l] = Idle]
    BY <1>1 DEF Calls
  <2>2. HandlerInv'
    BY <2>1 DEF Inv, HandlerInv
  <2>3. TaskInv'
    <3>1. task' \in [Writer -> TaskType]
      BY <2>1, IdleType DEF Inv, TaskInv
    <3>2. ASSUME NEW w \in Writer PROVE TaskFits(w, task[w])'
      <4>1. CASE w = l
        <5>1. task'[w] = Idle
          BY <2>1, <4>1, Disjoint DEF Inv, TaskInv
        <5> QED
          BY <5>1, WritersAssumption DEF Idle, TaskFits, Updates
      <4>2. CASE w # l
        <5>1. task'[w] = task[w] /\ (w \in Login => handler'[w] = handler[w])
          BY <2>1, <4>2 DEF Inv, TaskInv, HandlerInv
        <5> QED
          BY <5>1, FitsLater DEF Inv, TaskInv
      <4> QED BY <4>1, <4>2
    <3> QED BY <3>1, <3>2 DEF TaskInv
  <2> QED BY <2>2, <2>3
<1>2. CASE h.todo # <<>>
  <2> DEFINE t == begun(Head(h.todo), l, NoKey, <<>>)
             g == [h EXCEPT !.todo = Tail(@)]
  <2>1. handler' = [handler EXCEPT ![l] = g] /\ task' = [task EXCEPT ![l] = t]
    BY <1>2 DEF Calls
  <2>2. /\ t \in TaskType /\ t.op \in Handled /\ t.op # "none"
        /\ t.login = l /\ t.at \in {"get", "find"}
        /\ t.op \in Updates => t.at = "find"
        /\ g \in HandlerType /\ g.spec \in Specs
    BY <1>2, HandlerTask
  <2> HIDE DEF t, g
  <2>3. HandlerInv'
    BY <2>1, <2>2 DEF Inv, HandlerInv, Spoken
  <2>4. TaskInv'
    <3>1. task' \in [Writer -> TaskType]
      BY <2>1, <2>2 DEF Inv, TaskInv
    <3>2. ASSUME NEW w \in Writer PROVE TaskFits(w, task[w])'
      <4>1. CASE w = l
        <5>1. task'[w] = t /\ handler'[l] = g
          BY <2>1, <4>1, Disjoint DEF Inv, TaskInv, HandlerInv
        <5> QED
          BY <5>1, <2>2, <4>1, FitsNow
      <4>2. CASE w # l
        <5>1. task'[w] = task[w] /\ (w \in Login => handler'[w] = handler[w])
          BY <2>1, <4>2 DEF Inv, TaskInv, HandlerInv
        <5> QED
          BY <5>1, FitsLater DEF Inv, TaskInv
      <4> QED BY <4>1, <4>2
    <3> QED BY <3>1, <3>2 DEF TaskInv
  <2> QED BY <2>3, <2>4
<1> QED BY <1>1, <1>2

\* An operation of w ends, and what it belongs to goes on.
LEMMA EndsInv ==
  ASSUME Inv, NEW w \in Writer, NEW ok \in BOOLEAN, Ends(w, ok),
         task[w].op # "none", Grown, UNCHANGED <<wsku, spec>>
  PROVE  HandlerInv' /\ TaskInv'
<1>1. CASE w \notin Login
  <2>1. task' = [task EXCEPT ![w] = Idle] /\ handler' = handler
    BY <1>1 DEF Ends
  <2>2. HandlerInv'
    BY <2>1 DEF Inv, HandlerInv
  <2>3. task' \in [Writer -> TaskType]
    BY <2>1, IdleType DEF Inv, TaskInv
  <2>4. ASSUME NEW v \in Writer PROVE TaskFits(v, task[v])'
    <3>1. CASE v = w
      <4>1. task'[v] = Idle
        BY <2>1, <3>1 DEF Inv, TaskInv
      <4> QED
        BY <4>1, WritersAssumption DEF Idle, TaskFits, Updates
    <3>2. CASE v # w
      <4>1. task'[v] = task[v]
        BY <2>1, <3>2 DEF Inv, TaskInv
      <4> QED
        BY <4>1, <2>1, FitsLater DEF Inv, TaskInv
    <3> QED BY <3>1, <3>2
  <2> QED BY <2>2, <2>3, <2>4 DEF TaskInv
<1>2. CASE w \in Login
  <2>1. handler[w] \in HandlerType /\ Spoken(handler[w])
    BY <1>2 DEF Inv, HandlerInv
  <2>2. handler[w].spec \in Specs
    BY <1>2 DEF Inv, TaskInv, TaskFits
  <2>3. handler[w].spec.auth \in Key
    BY <2>2, SpecsAssumption DEF SpecType
  <2>4. PICK h \in HandlerType : Spoken(h) /\ Calls(w, h)
    <3>1. CASE task[w].op = "add_subject"
      <4> DEFINE h == [handler[w] EXCEPT !.auth = auth_recorded(handler[w], ok)]
      <4>1. h \in HandlerType /\ Spoken(h)
        BY <2>1, <2>2, <2>3 DEF HandlerType, Spoken, auth_recorded
      <4>2. Calls(w, h)
        BY <1>2, <3>1 DEF Ends, raises
      <4> QED
        BY <4>1, <4>2
    <3>2. CASE task[w].op # "add_subject"
      <4>1. Calls(w, handler[w])
        BY <1>2, <3>2 DEF Ends, raises
      <4> QED
        BY <4>1, <2>1
    <3> QED BY <3>1, <3>2
  <2> QED
    BY <1>2, <2>4, CallsInv
<1> QED BY <1>1, <1>2

\* An operation of w goes on to its next request.
LEMMA GoesInv ==
  ASSUME Inv, NEW w \in Writer, NEW t \in TaskType, Goes(w, t), TaskFits(w, t),
         Grown, UNCHANGED <<wsku, spec>>
  PROVE  HandlerInv' /\ TaskInv'
<1>1. task' = [task EXCEPT ![w] = t] /\ handler' = handler
  BY DEF Goes
<1>2. HandlerInv'
  BY <1>1 DEF Inv, HandlerInv
<1>3. task' \in [Writer -> TaskType]
  BY <1>1 DEF Inv, TaskInv
<1>4. ASSUME NEW v \in Writer PROVE TaskFits(v, task[v])'
  <2>1. CASE v = w
    <3>1. task'[v] = t
      BY <1>1, <2>1 DEF Inv, TaskInv
    <3> QED
      BY <3>1, <2>1, <1>1, FitsLater
  <2>2. CASE v # w
    <3>1. task'[v] = task[v]
      BY <1>1, <2>2 DEF Inv, TaskInv
    <3> QED
      BY <3>1, <1>1, FitsLater DEF Inv, TaskInv
  <2> QED BY <2>1, <2>2
<1> QED BY <1>2, <1>3, <1>4 DEF TaskInv

----------------------------------------------------------------------------
(* What a writer writes is a body of its document.                         *)

\* The document an operation is about.
LEMMA DocOfTask ==
  ASSUME Inv, NEW w \in Writer, task[w].op # "none"
  PROVE  /\ task[w] \in TaskType /\ task[w].login \in Login
         /\ task[w].op \in Operation
         /\ doc_of(w) \in Doc
         /\ doc_of(w) = <<db_of(task[w].op), task[w].login>>
         /\ task[w].op \in {"add_subject", "delete_ow_user"} \union AdminCommands
              => BodyOf[doc_of(w)] = Subject
         /\ task[w].op \in {"save_user_metadata", "delete_user_metadata"}
              \union Updates => BodyOf[doc_of(w)] = Metadata
<1>1. task[w] \in TaskType /\ task[w].login \in Login /\ task[w].op \in Operation
  BY DEF Inv, TaskInv, TaskFits, TaskType
<1>2. doc_of(w) = <<db_of(task[w].op), task[w].login>> /\ doc_of(w) \in Doc
  BY <1>1 DEF doc_of, db_of, Doc, Db
<1>3. task[w].op \in {"add_subject", "delete_ow_user"} \union AdminCommands
        => db_of(task[w].op) = "subjects"
  BY DEF db_of
<1>4. task[w].op \in {"save_user_metadata", "delete_user_metadata"}
        \union Updates => db_of(task[w].op) = "users_metadata"
  BY WritersAssumption DEF db_of, Updates
<1> QED
  BY <1>1, <1>2, <1>3, <1>4 DEF BodyOf

\* The variables of a user stay variables of a user.
LEMMA EnvType ==
  ASSUME NEW old \in Env, NEW env \in Envs
  PROVE  handle_additional_env(old, env) \in Env
<1>1. PICK N \in SUBSET Name : env \in [N -> Value \union {Empty}]
  BY EnvsAssumption
<1>2. ASSUME NEW n \in Name
      PROVE  (IF n \notin DOMAIN env THEN old[n]
              ELSE IF env[n] = Empty THEN Unset ELSE env[n])
             \in Value \union {Unset}
  BY <1>1 DEF Env
<1> QED
  BY <1>2 DEF handle_additional_env, Env

\* The body w writes, and how it comes from one the document has had.
LEMMA BodyWritten ==
  ASSUME Inv, NEW w \in Writer, task[w].at = "write",
         task[w].op \notin Deletes \union {"delete"}
  PROVE  /\ body_of(w) \in BodyOf[doc_of(w)]
         /\ \/ body_of(w) \in RenderedBodies[doc_of(w)]
            \/ HasRead(task[w]) /\ <<task[w].base, body_of(w)>> \in EditedBodies
<1> DEFINE t == task[w]
           b == body_of(w)
<1>1. t.op # "none"
  BY DEF Inv, TaskInv, TaskFits
<1>2. /\ t \in TaskType /\ t.login \in Login /\ t.op \in Operation
      /\ doc_of(w) \in Doc
      /\ doc_of(w) = <<db_of(t.op), t.login>>
  BY <1>1, DocOfTask
<1>3. TaskFits(w, t)
  BY DEF Inv, TaskInv
<1>4. HasRead(t) => t.base \in BodyOf[doc_of(w)]
  BY <1>2 DEF Inv, StoreInv, HasRead
<1>5. t.op \in Templated \union {"password", "quota"}
        => /\ w \in Login /\ t.login = w /\ handler[w] \in HandlerType
           /\ handler[w].spec \in SpecType
  <2>1. t.op \in Templated \union {"password", "quota"} => t.op \notin AdminCommands
                                                           \union {"env"}
    BY WritersAssumption DEF Templated
  <2> QED
    BY <1>1, <1>3, <2>1, SpecsAssumption DEF TaskFits, Inv, HandlerInv
<1>6. CASE t.op = "add_subject"
  <2>1. b = subject_of(handler[w].spec.auth) /\ handler[w].spec.auth \in Key
    BY <1>5, <1>6 DEF body_of, Templated, SpecType
  <2>2. doc_of(w)[1] = "subjects" /\ BodyOf[doc_of(w)] = Subject
    BY <1>1, <1>2, <1>6, DocOfTask DEF db_of
  <2>3. b \in Subject
    BY <2>1 DEF subject_of, Subject
  <2>4. b \in RenderedBodies[doc_of(w)]
    BY <1>2, <2>1, <2>2 DEF RenderedBodies
  <2> QED BY <2>2, <2>3, <2>4
<1>7. CASE t.op = "save_user_metadata"
  <2>1. /\ b = metadata_of(handler[w].spec, handler[w].auth)
        /\ handler[w].spec \in SpecType
        /\ handler[w].auth \in Key \union {NoKey}
    BY <1>5, <1>7 DEF body_of, Templated, HandlerType
  <2>2. BodyOf[doc_of(w)] = Metadata
    BY <1>1, <1>7, DocOfTask
  <2>3. doc_of(w)[1] # "subjects"
    BY <1>2, <1>7, WritersAssumption DEF db_of
  <2>4. b \in Metadata
    BY <2>1 DEF metadata_of, Metadata, SpecType, Env, NoEnv
  <2>5. b \in RenderedBodies[doc_of(w)]
    BY <1>2, <2>1, <2>3 DEF RenderedBodies
  <2> QED BY <2>2, <2>4, <2>5
<1>8. CASE t.op \in Updates
  <2>1. HasRead(t) /\ BodyOf[doc_of(w)] = Metadata /\ t.base \in Metadata
    BY <1>1, <1>3, <1>4, <1>8, DocOfTask DEF TaskFits
  <2>2. CASE t.op = "password"
    <3>1. b = [t.base EXCEPT !.password = handler[w].spec.password]
          /\ handler[w].spec.password \in Password
      BY <1>5, <2>2 DEF body_of, SpecType
    <3>2. b \in Metadata /\ \A g \in DOMAIN t.base \ {"password"} : b[g] = t.base[g]
      BY <2>1, <3>1 DEF Metadata
    <3>3. "password" \in DOMAIN t.base
      BY <2>1 DEF Metadata
    <3> QED BY <2>1, <3>2, <3>3 DEF EditedBodies
  <2>3. CASE t.op = "quota"
    <3>1. b = [t.base EXCEPT !.quota = handler[w].spec.quota]
          /\ handler[w].spec.quota \in Quota
      BY <1>5, <2>3 DEF body_of, SpecType
    <3>2. b \in Metadata /\ \A g \in DOMAIN t.base \ {"quota"} : b[g] = t.base[g]
      BY <2>1, <3>1 DEF Metadata
    <3>3. "quota" \in DOMAIN t.base
      BY <2>1 DEF Metadata
    <3> QED BY <2>1, <3>2, <3>3 DEF EditedBodies
  <2>4. CASE t.op = "env"
    <3>1. b = [t.base EXCEPT !.userenv =
                 handle_additional_env(t.base.userenv, t.env)]
      BY <2>4 DEF body_of
    <3>2. handle_additional_env(t.base.userenv, t.env) \in Env
      BY <1>3, <2>1, <2>4, EnvType DEF TaskFits, Metadata
    <3>3. b \in Metadata /\ \A g \in DOMAIN t.base \ {"userenv"} : b[g] = t.base[g]
      BY <2>1, <3>1, <3>2 DEF Metadata
    <3>4. "userenv" \in DOMAIN t.base
      BY <2>1 DEF Metadata
    <3> QED BY <2>1, <3>3, <3>4 DEF EditedBodies
  <2> QED BY <1>8, <2>2, <2>3, <2>4 DEF Updates
<1>9. CASE t.op \in {"create", "block", "unblock"}
  <2>1. t.op \in AdminCommands
    BY <1>2, <1>9 DEF Operation, Templated, Updates, Deletes
  <2>2. BodyOf[doc_of(w)] = Subject /\ doc_of(w)[1] = "subjects"
    BY <1>1, <1>2, <2>1, DocOfTask DEF db_of
  <2>3. CASE t.op = "create" /\ t.base = NoBody
    <3>1. b = subject_of(t.key) /\ t.key \in Key
      BY <1>3, <2>3 DEF body_of, TaskFits
    <3>2. b \in Subject
      BY <3>1 DEF subject_of, Subject
    <3>3. b \in RenderedBodies[doc_of(w)]
      BY <1>2, <2>2, <3>1 DEF RenderedBodies
    <3> QED BY <2>2, <3>2, <3>3
  <2>4. CASE t.op = "create" /\ t.base # NoBody
    <3>1. HasRead(t) /\ t.base \in Subject /\ t.key \in Key
      BY <1>3, <1>4, <2>2, <2>4 DEF TaskFits
    <3>2. b = [t.base EXCEPT !.key = t.key]
      BY <2>4 DEF body_of
    <3>3. b \in Subject /\ \A g \in DOMAIN t.base \ {"key"} : b[g] = t.base[g]
      BY <3>1, <3>2 DEF Subject
    <3>4. "key" \in DOMAIN t.base
      BY <3>1 DEF Subject
    <3> QED BY <2>2, <3>1, <3>3, <3>4 DEF EditedBodies
  <2>5. CASE t.op \in {"block", "unblock"}
    <3>1. HasRead(t) /\ t.base \in Subject
      BY <1>3, <1>4, <2>2, <2>5 DEF TaskFits
    <3>2. b = [t.base EXCEPT !.blocked = (t.op = "block")]
      BY <2>5 DEF body_of
    <3>3. b \in Subject /\ \A g \in DOMAIN t.base \ {"blocked"} : b[g] = t.base[g]
      BY <3>1, <3>2 DEF Subject
    <3>4. "blocked" \in DOMAIN t.base
      BY <3>1 DEF Subject
    <3> QED BY <2>2, <3>1, <3>3, <3>4 DEF EditedBodies
  <2> QED BY <1>9, <2>3, <2>4, <2>5
<1>10. t.op \in Templated \union Updates \union {"create", "block", "unblock"}
  BY <1>2, WritersAssumption DEF Operation
<1> QED
  BY <1>6, <1>7, <1>8, <1>9, <1>10 DEF Templated

----------------------------------------------------------------------------
(* The invariant is inductive.                                             *)

LEMMA InitInv == Init => Inv
<1> SUFFICES ASSUME Init PROVE Inv
  OBVIOUS
<1>1. StoreInv
  BY SpecsAssumption DEF Init, StoreInv, Doc, Db
<1>2. HandlerInv
  BY IdleType DEF Init, HandlerInv
<1>3. TaskInv
  BY IdleType DEF Init, TaskInv
<1> QED BY <1>1, <1>2, <1>3 DEF Inv

\* The documents and their history are as before.
Kept == UNCHANGED <<store, past>>

LEMMA KeptInv ==
  ASSUME Inv, Kept
  PROVE  StoreInv' /\ Grown
  BY DEF Inv, StoreInv, Kept, Grown

LEMMA ApplyUserInv ==
  ASSUME Inv, NEW l \in Login, NEW s \in Specs, ApplyUser(l, s)
  PROVE  Inv' /\ Kept
<1>1. Kept /\ UNCHANGED <<handler, task>>
  BY DEF ApplyUser, historyVars, Kept
<1>2. StoreInv' /\ Grown
  BY <1>1, KeptInv
<1>3. HandlerInv'
  BY <1>1 DEF ApplyUser, Inv, HandlerInv
<1>4. TaskInv'
  BY <1>1, <1>2, FitsLater DEF Inv, TaskInv
<1> QED BY <1>1, <1>2, <1>3, <1>4 DEF Inv

LEMMA DeleteUserInv ==
  ASSUME Inv, NEW l \in Login, DeleteUser(l)
  PROVE  Inv' /\ Kept
<1>1. Kept /\ UNCHANGED <<handler, task, spec>>
  BY DEF DeleteUser, historyVars, Kept
<1>2. StoreInv' /\ Grown
  BY <1>1, KeptInv
<1>3. HandlerInv'
  BY <1>1 DEF DeleteUser, Inv, HandlerInv
<1>4. TaskInv'
  BY <1>1, <1>2, FitsLater DEF Inv, TaskInv
<1> QED BY <1>1, <1>2, <1>3, <1>4 DEF Inv

\* A handler starts for a resource that is there.
LEMMA StartInv ==
  ASSUME Inv, NEW l \in Login, wsku[l] # "absent",
         NEW kind \in {"create", "update", "delete"}, NEW todo \in Seq(Handled),
         StartHandler(l, kind, todo), Kept, UNCHANGED <<wsku, spec>>
  PROVE  Inv'
<1> DEFINE h == [kind |-> kind, spec |-> spec[l], todo |-> todo, auth |-> NoKey]
<1>1. h \in HandlerType /\ Spoken(h)
  BY DEF Inv, HandlerInv, HandlerType, Spoken
<1>2. Calls(l, h)
  BY DEF StartHandler
<1>3. StoreInv' /\ Grown
  BY KeptInv
<1> HIDE DEF h
<1>4. HandlerInv' /\ TaskInv'
  BY <1>1, <1>2, <1>3, CallsInv
<1> QED BY <1>3, <1>4 DEF Inv

LEMMA HandlersInv ==
  ASSUME Inv, NEW l \in Login,
         whisk_user_create(l) \/ whisk_user_update(l) \/ whisk_user_delete(l)
  PROVE  Inv' /\ Kept
<1>1. CASE whisk_user_create(l)
  <2> DEFINE todo == <<"add_subject", "save_user_metadata">>
  <2>1. todo \in Seq(Handled)
    BY DEF Handled, Templated
  <2>2. /\ wsku[l] # "absent" /\ StartHandler(l, "create", todo)
        /\ Kept /\ UNCHANGED <<wsku, spec>>
    BY <1>1 DEF whisk_user_create, historyVars, Kept
  <2> HIDE DEF todo
  <2> QED BY <2>1, <2>2, StartInv
<1>2. CASE whisk_user_update(l)
  <2> DEFINE todo == what_to_do(handled[l], spec[l])
  <2>1. todo \in Seq(Handled)
    <3>1. PICK a, b \in {<<"password">>, <<"quota">>, <<>>} : todo = a \o b
      BY Zenon DEF what_to_do
    <3>2. {"password", "quota"} \subseteq Handled
      BY DEF Handled
    <3>3. /\ <<"password">> \in Seq(Handled) /\ <<"quota">> \in Seq(Handled)
          /\ <<>> \in Seq(Handled)
      BY <3>2
    <3>4. a \in Seq(Handled) /\ b \in Seq(Handled)
      BY <3>3, Zenon
    <3> QED
      BY <3>1, <3>4, ConcatProperties
  <2>2. /\ wsku[l] # "absent" /\ StartHandler(l, "update", todo)
        /\ Kept /\ UNCHANGED <<wsku, spec>>
    BY <1>2 DEF whisk_user_update, Kept
  <2> HIDE DEF todo
  <2> QED BY <2>1, <2>2, StartInv
<1>3. CASE whisk_user_delete(l)
  <2> DEFINE todo == delete_steps(spec[l])
  <2>1. todo \in Seq(Handled)
    BY DEF delete_steps, Handled, Deletes
  <2>2. /\ wsku[l] # "absent" /\ StartHandler(l, "delete", todo)
        /\ Kept /\ UNCHANGED <<wsku, spec>>
    BY <1>3 DEF whisk_user_delete, historyVars, Kept
  <2> HIDE DEF todo
  <2> QED BY <2>1, <2>2, StartInv
<1> QED BY <1>1, <1>2, <1>3

\* A handler that returns has nothing under way.
LEMMA HandlerDoneInv ==
  ASSUME Inv, NEW l \in Login, HandlerDone(l)
  PROVE  Inv' /\ Kept
<1>1. /\ Kept /\ UNCHANGED task /\ task[l] = Idle
      /\ handler' = [handler EXCEPT ![l] = NoHandler]
  BY DEF HandlerDone, Kept
<1>2. StoreInv' /\ Grown
  BY <1>1, KeptInv
<1>3. HandlerInv'
  <2>1. handler' \in [Login -> HandlerType] /\ \A k \in Login : Spoken(handler'[k])
    BY <1>1, IdleType DEF Inv, HandlerInv
  <2>2. /\ wsku' \in [Login -> {"absent", "live", "deleting"}]
        /\ spec' \in [Login -> Specs \union {NoSpec}]
        /\ \A k \in Login : wsku'[k] # "absent" => spec'[k] \in Specs
    <3>1. CASE handler[l].kind = "delete"
      <4>1. wsku' = [wsku EXCEPT ![l] = "absent"] /\ spec' = [spec EXCEPT ![l] = NoSpec]
        BY <3>1 DEF HandlerDone
      <4>2. /\ wsku' \in [Login -> {"absent", "live", "deleting"}]
            /\ spec' \in [Login -> Specs \union {NoSpec}]
        BY <4>1 DEF Inv, HandlerInv
      <4>3. ASSUME NEW k \in Login, wsku'[k] # "absent" PROVE spec'[k] \in Specs
        BY <4>1, <4>3 DEF Inv, HandlerInv
      <4> QED BY <4>2, <4>3
    <3>2. CASE handler[l].kind # "delete"
      <4>1. UNCHANGED <<wsku, spec>>
        BY <3>2 DEF HandlerDone
      <4> QED BY <4>1 DEF Inv, HandlerInv
    <3> QED BY <3>1, <3>2
  <2> QED BY <2>1, <2>2 DEF HandlerInv
<1>4. ASSUME NEW w \in Writer PROVE TaskFits(w, task[w])'
  <2>1. CASE w = l
    <3>1. task'[w] = Idle
      BY <1>1, <2>1
    <3> QED
      BY <3>1, WritersAssumption DEF Idle, TaskFits, Updates
  <2>2. CASE w # l
    <3>1. task'[w] = task[w] /\ (w \in Login => handler'[w] = handler[w])
      BY <1>1, <2>2 DEF Inv, HandlerInv
    <3> QED
      BY <3>1, <1>2, FitsLater DEF Inv, TaskInv
  <2> QED BY <2>1, <2>2
<1> QED BY <1>1, <1>2, <1>3, <1>4 DEF Inv, TaskInv

\* An invocation begins its operation.
LEMMA InvokeInv ==
  ASSUME Inv, NEW l \in Login, NEW op \in AdminCommands \union {"env"},
         NEW key \in Key, NEW env \in Envs \union {<<>>},
         op = "env" => env \in Envs,
         calls \in Nat, Invoke(begun(op, l, key, env))
  PROVE  Inv' /\ Kept
<1> DEFINE t == begun(op, l, key, env)
           c == calls + 1
<1>1. /\ Kept /\ UNCHANGED <<wsku, spec, handler>>
      /\ task' = [task EXCEPT ![c] = t]
  BY DEF Invoke, resourceVars, historyVars, Kept
<1>2. c \in Invocations /\ c \notin Login
  <2>1. c \in Invocations
    BY BoundsAssumption DEF Invoke, Invocations
  <2> QED
    BY <2>1, Disjoint
<1>3. op \in Operation
  BY DEF Operation, Updates
<1>4. /\ t \in TaskType /\ t.op = op /\ t.login = l /\ t.key = key /\ t.env = env
      /\ t.at = "find"
  BY <1>3, BegunType DEF Updates
<1> HIDE DEF t, c
<1>5. StoreInv' /\ Grown
  BY <1>1, KeptInv
<1>6. HandlerInv'
  BY <1>1 DEF Inv, HandlerInv
<1>7. task' \in [Writer -> TaskType]
  BY <1>1, <1>4 DEF Inv, TaskInv
<1>8. ASSUME NEW w \in Writer PROVE TaskFits(w, task[w])'
  <2>1. CASE w = c
    <3>1. task'[w] = t
      BY <1>1, <2>1 DEF Inv, TaskInv
    <3>2. op # "none"
      BY <1>3, HandledOperations
    <3>3. TaskFits(w, t)'
      BY <1>2, <1>4, <2>1, <3>2 DEF TaskFits
    <3> QED
      BY <3>1, <3>3
  <2>2. CASE w # c
    <3>1. task'[w] = task[w]
      BY <1>1, <2>2 DEF Inv, TaskInv
    <3> QED
      BY <3>1, <1>1, <1>5, FitsLater DEF Inv, TaskInv
  <2> QED BY <2>1, <2>2
<1> QED BY <1>1, <1>5, <1>6, <1>7, <1>8 DEF Inv, TaskInv

LEMMA RestartInv ==
  ASSUME Inv, Restart
  PROVE  Inv' /\ Kept
<1>1. Kept /\ UNCHANGED <<wsku, spec>>
  BY DEF Restart, historyVars, Kept
<1>2. StoreInv' /\ Grown
  BY <1>1, KeptInv
<1>3. handler' = [l \in Login |-> NoHandler]
  BY DEF Restart
<1>4. HandlerInv'
  BY <1>1, <1>3, IdleType DEF Inv, HandlerInv
<1>5. task' = [w \in Writer |-> IF w \in Login THEN Idle ELSE task[w]]
  BY DEF Restart
<1>6. task' \in [Writer -> TaskType]
  BY <1>5, IdleType DEF Inv, TaskInv
<1>7. ASSUME NEW w \in Writer PROVE TaskFits(w, task[w])'
  <2>1. CASE w \in Login
    <3>1. task'[w] = Idle
      BY <1>5, <2>1
    <3> QED
      BY <3>1, WritersAssumption DEF Idle, TaskFits, Updates
  <2>2. CASE w \notin Login
    <3>1. task'[w] = task[w]
      BY <1>5, <2>2
    <3> QED
      BY <3>1, <2>2, <1>2, FitsLater DEF Inv, TaskInv
  <2> QED BY <2>1, <2>2
<1> QED BY <1>1, <1>2, <1>4, <1>6, <1>7 DEF Inv, TaskInv

----------------------------------------------------------------------------
(* The requests.                                                           *)

\* A task that has read its document.
LEMMA FindInv ==
  ASSUME Inv, NEW w \in Writer, Find(w)
  PROVE  Inv' /\ Kept
<1> DEFINE t == task[w]
           s == stored(w)
           got == [t EXCEPT !.base = s.body,
                            !.rev = IF s.body = NoBody THEN 0 ELSE s.rev,
                            !.seen = s.rev,
                            !.at = IF t.op \in AdminCommands THEN "write" ELSE "get"]
<1>1. /\ Kept /\ UNCHANGED <<wsku, spec>> /\ t.at = "find"
      /\ \/ proceeds(t, s.body) /\ Goes(w, got)
         \/ Ends(w, FALSE)
  BY DEF Find, Kept
<1>2. StoreInv' /\ Grown
  BY <1>1, KeptInv
<1>3. t \in TaskType /\ TaskFits(w, t) /\ t.op # "none"
  BY <1>1 DEF Inv, TaskInv, TaskFits
<1>4. CASE Ends(w, FALSE)
  BY <1>1, <1>2, <1>3, <1>4, EndsInv DEF Inv
<1>5. CASE proceeds(t, s.body) /\ Goes(w, got)
  <2>1. /\ doc_of(w) \in Doc /\ doc_of(w) = <<db_of(t.op), t.login>>
        /\ s = store[doc_of(w)]
    BY <1>3, DocOfTask DEF stored
  <2>2. /\ s.rev \in Nat /\ s.body \in Body \union {NoBody}
        /\ s.body # NoBody => s.rev > 0 /\ s.body \in past[doc_of(w)]
    BY <2>1 DEF Inv, StoreInv
  <2>3. /\ got \in TaskType /\ got.op = t.op /\ got.login = t.login
        /\ got.key = t.key /\ got.env = t.env /\ got.base = s.body
        /\ got.rev = IF s.body = NoBody THEN 0 ELSE s.rev
        /\ got.at = IF t.op \in AdminCommands THEN "write" ELSE "get"
    BY <1>3, <2>2 DEF TaskType
  <2>4. s.body # NoBody => HasRead(got)
    BY <2>1, <2>2, <2>3 DEF HasRead
  <2>5. t.op \in Updates \union {"block", "unblock"} => s.body # NoBody
    BY <1>5 DEF proceeds, Updates
  <2> HIDE DEF got, s, t
  <2>6. TaskFits(w, got)
    BY <1>3, <2>3, <2>4, <2>5 DEF TaskFits
  <2> QED
    BY <1>1, <1>2, <1>5, <2>3, <2>6, GoesInv DEF Inv
<1> QED BY <1>1, <1>4, <1>5

\* A task that has the revision it writes with.
LEMMA GetInv ==
  ASSUME Inv, NEW w \in Writer, Get(w)
  PROVE  Inv' /\ Kept
<1> DEFINE t == task[w]
           none == [rev |-> 0, body |-> NoBody]
           got(cur) == [t EXCEPT !.at = "write", !.rev = revision(t, cur),
                                 !.seen = IF t.op \in Templated
                                            THEN stored(w).rev ELSE @]
<1>1. /\ Kept /\ UNCHANGED <<wsku, spec>> /\ t.at = "get"
      /\ \/ Ends(w, FALSE)
         \/ Goes(w, got(stored(w)))
         \/ Goes(w, got(none))
  BY DEF Get, Kept
<1>2. StoreInv' /\ Grown
  BY <1>1, KeptInv
<1>3. t \in TaskType /\ TaskFits(w, t) /\ t.op # "none"
  BY <1>1 DEF Inv, TaskInv, TaskFits
<1>4. CASE Ends(w, FALSE)
  BY <1>1, <1>2, <1>3, <1>4, EndsInv DEF Inv
<1>5. ASSUME NEW cur \in {stored(w), none}, Goes(w, got(cur))
      PROVE  Inv'
  <2>1. stored(w).rev \in Nat /\ (stored(w).body # NoBody => stored(w).rev > 0)
    BY <1>3, DocOfTask DEF Inv, StoreInv, stored
  <2>2. cur.rev \in Nat /\ (cur.body # NoBody => cur.rev > 0)
    BY <2>1
  <2>3. revision(t, cur) \in Nat /\ (t.rev > 0 => revision(t, cur) > 0)
    BY <1>3, <2>2 DEF revision, TaskType
  <2> DEFINE g == got(cur)
  <2>4. /\ g \in TaskType /\ g.op = t.op /\ g.login = t.login
        /\ g.key = t.key /\ g.env = t.env /\ g.base = t.base
        /\ g.rev = revision(t, cur) /\ g.at = "write"
    BY <1>3, <2>1, <2>3 DEF TaskType
  <2>5. HasRead(t) => HasRead(g)
    BY <2>3, <2>4 DEF HasRead
  <2>6. Goes(w, g)
    BY <1>5
  <2>7. t.op \notin AdminCommands
    BY <1>1, <1>3 DEF TaskFits
  <2>8. t.op \notin {"create", "block", "unblock"}
    <3>1. t.op \in Operation
      BY <1>3, DocOfTask
    <3> QED
      BY <2>7, <3>1 DEF Operation, Templated, Updates, Deletes
  <2> HIDE DEF g, t
  <2>9. TaskFits(w, g)
    BY <1>1, <1>3, <2>4, <2>5, <2>7, <2>8 DEF TaskFits
  <2> QED
    BY <1>1, <1>2, <2>4, <2>6, <2>9, GoesInv DEF Inv
<1> HIDE DEF got, none
<1> QED BY <1>1, <1>4, <1>5

\* The body a write leaves its document with.
Left(w) ==
  IF task[w].op \in Deletes \union {"delete"} THEN NoBody ELSE body_of(w)

LEMMA StoresInv ==
  ASSUME Inv, NEW w \in Writer, task[w].at = "write", Stores(w)
  PROVE  StoreInv' /\ Grown
<1> DEFINE d == doc_of(w)
           b == Left(w)
<1>1. d \in Doc
  BY DocOfTask DEF Inv, TaskInv, TaskFits
<1>2. /\ store' = [store EXCEPT ![d] = [rev |-> @.rev + 1, body |-> b]]
      /\ past' = [past EXCEPT ![d] = @ \union ({b} \ {NoBody})]
  BY DEF Stores, Left
<1>3. b \in BodyOf[d] \union {NoBody}
  BY BodyWritten DEF Left
<1>4. BodyOf[d] \subseteq Body
  BY <1>1 DEF BodyOf, Body
<1>5. store[d].rev \in Nat
  BY <1>1 DEF Inv, StoreInv
<1> HIDE DEF d, b
<1>6. store' \in [Doc -> [rev : Nat, body : Body \union {NoBody}]]
  BY <1>1, <1>2, <1>3, <1>4, <1>5 DEF Inv, StoreInv
<1>7. past' \in [Doc -> SUBSET Body] /\ Grown
  BY <1>1, <1>2, <1>3, <1>4 DEF Inv, StoreInv, Grown
<1>8. ASSUME NEW e \in Doc
      PROVE  /\ past'[e] \subseteq BodyOf[e]
             /\ store'[e].body # NoBody
                  => store'[e].rev > 0 /\ store'[e].body \in past'[e]
  <2>1. CASE e = d
    BY <1>1, <1>2, <1>3, <1>5, <2>1 DEF Inv, StoreInv
  <2>2. CASE e # d
    BY <1>2, <2>2 DEF Inv, StoreInv
  <2> QED BY <2>1, <2>2
<1> QED BY <1>6, <1>7, <1>8 DEF StoreInv

\* Whether CouchDB takes the write of w.
Taken(w) ==
  /\ accepts(doc_of(w), sent_revision(task[w]))
  /\ task[w].op \in Deletes \union {"delete"} => exists(doc_of(w))

LEMMA WriteInv ==
  ASSUME Inv, NEW w \in Writer, Write(w)
  PROVE  Inv' /\ (Kept \/ (task[w].at = "write" /\ Taken(w) /\ Stores(w)))
<1>1. /\ UNCHANGED <<wsku, spec>> /\ task[w].at = "write"
      /\ Kept \/ (Taken(w) /\ Stores(w))
      /\ Ends(w, Taken(w)) \/ Ends(w, FALSE)
  BY DEF Write, Taken, Kept
<1>2. StoreInv' /\ Grown
  BY <1>1, KeptInv, StoresInv
<1>3. task[w].op # "none"
  BY <1>1 DEF Inv, TaskInv, TaskFits
<1>4. PICK ok \in BOOLEAN : Ends(w, ok)
  <2>1. Taken(w) \in BOOLEAN
    BY DEF Taken, accepts
  <2> QED
    BY <1>1, <2>1
<1>5. HandlerInv' /\ TaskInv'
  BY <1>1, <1>2, <1>3, <1>4, EndsInv
<1> QED BY <1>1, <1>2, <1>5 DEF Inv

----------------------------------------------------------------------------
(* Every step is one of the documents, or leaves them alone.               *)

IInv == Inv /\ calls \in Nat

LEMMA InitIInv == Init => IInv
  BY InitInv DEF Init, IInv

\* A step keeps the invariant, and only a write that is taken is seen.
LEMMA NextInv ==
  ASSUME IInv, [Next]_vars
  PROVE  /\ IInv'
         /\ \/ Kept
            \/ \E w \in Writer :
                 task[w].at = "write" /\ Taken(w) /\ Stores(w)
<1> DEFINE Seen == \E w \in Writer :
                     task[w].at = "write" /\ Taken(w) /\ Stores(w)
<1>1. calls' \in Nat
  <2>1. calls' \in {calls, calls + 1}
    BY DEF Next, Operator, Invocation, Request, ApplyUser, DeleteUser,
           whisk_user_create, whisk_user_update, whisk_user_delete, HandlerDone,
           secrets, wskadmin, Invoke, Find, Get, Write, Restart, bounds, vars
  <2> QED BY <2>1 DEF IInv
<1>2. Inv
  BY DEF IInv
<1> SUFFICES Inv' /\ (Kept \/ Seen)
  BY <1>1 DEF IInv
<1>3. ASSUME NEW w \in Writer, Request(w) PROVE Inv' /\ (Kept \/ Seen)
  BY <1>2, <1>3, FindInv, GetInv, WriteInv DEF Request
<1> HIDE DEF Seen
<1>4. CASE \E l \in Login : DeleteUser(l) \/ Operator(l)
  BY <1>2, <1>3, <1>4, DeleteUserInv, HandlersInv, HandlerDoneInv, Disjoint
  DEF Operator
<1>5. CASE \E l \in Login, s \in Specs : ApplyUser(l, s)
  BY <1>2, <1>5, ApplyUserInv
<1>6. CASE Invocation
  <2>1. CASE \E l \in Login, key \in Key, env \in Envs : secrets(l, key, env)
    BY <1>2, <2>1, InvokeInv DEF IInv, secrets
  <2>2. CASE \E l \in Login, command \in AdminCommands, key \in Key :
               wskadmin(l, command, key)
    <3>1. PICK l \in Login, command \in AdminCommands, key \in Key :
                 wskadmin(l, command, key)
      BY <2>2
    <3>2. command # "env" /\ <<>> \in Envs \union {<<>>}
      BY WritersAssumption
    <3> QED
      BY <1>2, <3>1, <3>2, InvokeInv DEF IInv, wskadmin
  <2>3. CASE \E c \in Invocations : Request(c)
    BY <1>3, <2>3, Disjoint
  <2> QED BY <1>6, <2>1, <2>2, <2>3 DEF Invocation
<1>7. CASE Restart
  BY <1>2, <1>7, RestartInv
<1>8. CASE UNCHANGED vars
  <2>1. UNCHANGED <<wsku, spec, handler, task, store, past>>
    BY <1>8 DEF vars, resourceVars, historyVars
  <2> QED
    BY <1>2, <2>1 DEF Inv, StoreInv, HandlerInv, TaskInv, TaskFits, HasRead, Kept
<1> QED
  BY <1>4, <1>5, <1>6, <1>7, <1>8 DEF Next

\* At every step a stored document is remembered and has a revision, a writer
\* works for a user's spec, and one that is about to save an edit read what it
\* edits from a version of the document that was stored.
THEOREM DocumentInvariant == Spec => []IInv
<1>1. IInv /\ [Next]_vars => IInv'
  BY NextInv
<1> QED
  BY <1>1, InitIInv, PTL DEF Spec

\* A write that is taken is a step of the documents.
LEMMA StoresRefine ==
  ASSUME Inv, NEW w \in Writer, task[w].at = "write", Taken(w), Stores(w)
  PROVE  Documents!Next
<1> DEFINE current == [e \in Doc |-> store[e].body]
<1>1. task[w] \in TaskType /\ TaskFits(w, task[w]) /\ task[w].op # "none"
  BY DEF Inv, TaskInv, TaskFits
<1>2. PICK d \in Doc : d = doc_of(w) /\ d = <<db_of(task[w].op), task[w].login>>
  BY <1>1, DocOfTask
<1> PICK b : b = Left(w)
  OBVIOUS
<1>3. /\ store' = [store EXCEPT ![d] = [rev |-> @.rev + 1, body |-> b]]
      /\ past' = [past EXCEPT ![d] = @ \union ({b} \ {NoBody})]
  BY <1>2 DEF Stores, Left
<1>4. b # NoBody
        => /\ b \in BodyOf[d]
           /\ \/ b \in RenderedBodies[d]
              \/ HasRead(task[w]) /\ <<task[w].base, b>> \in EditedBodies
  BY <1>2, BodyWritten DEF Left
<1>5. BodyOf[d] \subseteq Body
  BY <1>2 DEF BodyOf, Body
<1>6. HasRead(task[w]) => task[w].base \in past[d] /\ store[d].body # NoBody
  BY <1>2 DEF HasRead, Taken, accepts, sent_revision, exists
<1>7. b = NoBody => store[d].body # NoBody
  <2>1. task[w].op \notin Deletes \union {"delete"} => b \in Body
    BY <1>2, <1>5, BodyWritten DEF Left
  <2> QED
    BY <1>2, <2>1, SpecsAssumption DEF Taken, exists
<1>8. current' = [current EXCEPT ![d] = b]
  <2>1. store' \in [Doc -> [rev : Nat, body : Body \union {NoBody}]]
    BY StoresInv DEF StoreInv
  <2>2. \A e \in Doc : store'[e].body = IF e = d THEN b ELSE store[e].body
    BY <1>2, <1>3 DEF Inv, StoreInv
  <2> QED BY <2>2
<1>9. current[d] = store[d].body
  BY <1>2
<1> HIDE DEF current
<1>10. CASE b = NoBody
  <2>1. UNCHANGED past
    BY <1>3, <1>10 DEF Inv, StoreInv
  <2>2. Documents!Remove(d)
    BY <1>7, <1>8, <1>9, <1>10, <2>1 DEF Documents!Remove, current
  <2> QED
    BY <1>2, <2>2 DEF Documents!Next
<1>11. CASE b # NoBody
  <2>1. Documents!Store(d, b)
    <3>1. past' = [past EXCEPT ![d] = @ \union {b}]
      BY <1>3, <1>11
    <3> QED
      BY <1>8, <3>1 DEF Documents!Store, current
  <2>2. CASE b \in RenderedBodies[d]
    <3>1. Documents!Render(d)
      BY <2>1, <2>2 DEF Documents!Render
    <3> QED
      BY <1>2, <3>1 DEF Documents!Next
  <2>3. CASE HasRead(task[w]) /\ <<task[w].base, b>> \in EditedBodies
    <3>1. b \in Body /\ current[d] # NoBody
      BY <1>4, <1>5, <1>6, <1>9, <1>11, <2>3
    <3>2. Documents!Edit(d)
      BY <1>6, <2>1, <2>3, <3>1 DEF Documents!Edit, current
    <3> QED
      BY <1>2, <3>2 DEF Documents!Next
  <2> QED BY <1>4, <1>11, <2>2, <2>3
<1> QED BY <1>10, <1>11

\* Every request on the databases of the users is, to those who read them, a
\* step of UserDocuments: whatever the operator, the secrets action and
\* wskadmin do at the same time, fail at or restart from, a document appears
\* only as it is rendered for a user, is changed in one field of a version
\* that was stored, and comes back after its removal only if rendered anew.
THEOREM DocumentsAreImplemented == Spec => ImplementsDocuments
<1>1. Init => Documents!Init
  BY DEF Init, Documents!Init
<1>2. IInv /\ [Next]_vars => [Documents!Next]_(Documents!documents)
  <2> SUFFICES ASSUME IInv, [Next]_vars
               PROVE  Documents!Next \/ UNCHANGED Documents!documents
    OBVIOUS
  <2>1. CASE Kept
    BY <2>1 DEF Kept, Documents!documents
  <2>2. CASE \E w \in Writer : task[w].at = "write" /\ Taken(w) /\ Stores(w)
    BY <2>2, StoresRefine DEF IInv
  <2> QED
    BY <2>1, <2>2, NextInv
<1> QED
  BY <1>1, <1>2, InitIInv, NextInv, PTL
  DEF Spec, ImplementsDocuments, Documents!Spec
=============================================================================
