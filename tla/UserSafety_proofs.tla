-------------------------- MODULE UserSafety_proofs --------------------------
(***************************************************************************)
(* What the documents say of a user while the operator, the secrets action *)
(* and wskadmin write them, for every set of users, keys, variables and    *)
(* specs, any number of invocations, failures and restarts.                *)
(*                                                                         *)
(* The argument has three parts: what a task knows of the document it is   *)
(* about to write (Reads), how far each handler is (Course), and what the  *)
(* document says at that point of the handler (the invariants below).      *)
(***************************************************************************)
EXTENDS UserDB_proofs

S(l) == <<"subjects", l>>
M(l) == <<"users_metadata", l>>

----------------------------------------------------------------------------
(* The inductive invariant.                                                *)

\* As long as the document has the revision that the task w has seen, it is
\* the document the task has read, and CouchDB takes what the task writes.
Reads(w) ==
  LET t == task[w]
      d == doc_of(w)
  IN /\ t.op \in Updates \union Deletes /\ t.at \in {"get", "write"} =>
          /\ t.base # NoBody
          /\ t.seen <= store[d].rev
          /\ t.seen = store[d].rev => store[d].body = t.base
          /\ t.at = "get" \/ t.seen = store[d].rev => t.rev = t.seen
     /\ t.op \in AdminCommands /\ t.at = "write" =>
          /\ t.seen <= store[d].rev
          /\ t.seen = store[d].rev => store[d].body = t.base
          /\ t.rev = IF t.base = NoBody THEN 0 ELSE t.seen
     /\ t.op \in Templated => t.at # "find"
     /\ t.op \in Templated /\ t.at = "get" => t.rev = 0
     /\ t.op \in Templated /\ t.at = "write" =>
          /\ t.seen <= store[d].rev
          /\ t.seen = store[d].rev /\ "fault" \notin marred[d] =>
               t.rev = IF exists(d) THEN store[d].rev ELSE 0

\* How far the handler of l is.
Course(l) ==
  LET h == handler[l]
      op == task[l].op
  IN /\ wsku[l] = "absent" => h.kind = "idle" /\ handled[l] = NoSpec
     /\ h.kind = "delete" => wsku[l] = "deleting"
     /\ h.kind # "idle" => h.spec \in Specs
     /\ attempt[l] # NoSpec => handled[l] # NoSpec
     /\ h.kind = "idle" => op = "none"
     /\ op = "none" => h.todo = <<>>
     /\ h.kind = "create" =>
          /\ handled[l] = NoSpec
          /\ \/ op = "add_subject" /\ h.todo = <<"save_user_metadata">> /\ h.auth = NoKey
             \/ op \in {"save_user_metadata", "none"} /\ h.todo = <<>>
     /\ h.kind = "update" =>
          /\ handled[l] # NoSpec /\ attempt[l] = h.spec
          /\ \/ op = "password" /\ h.todo \in {<<"quota">>, <<>>}
             \/ op \in {"quota", "none"} /\ h.todo = <<>>
     /\ h.kind = "delete" =>
          \/ op = "delete_ow_user" /\ h.todo = <<"delete_user_metadata">>
          \/ op \in {"delete_user_metadata", "none"} /\ h.todo = <<>>

\* The variables of a user are those acknowledged since there are metadata.
SecretsInv(l) ==
  marred[M(l)] = {} =>
    acked[l] = IF exists(M(l)) THEN store[M(l)].body.userenv ELSE NoEnv

\* A subject is barred if it is there and blocked.
BlockedInv(l) ==
  marred[S(l)] \cap {"again", "overlap", "fault"} = {} =>
    barred[l] = (exists(S(l)) /\ store[S(l)].body.blocked)

\* The metadata are those of the handled spec, or of the one begun since: an
\* update is past the fields it has not left to write.
MetadataOf(l, passwords, quotas) ==
  /\ exists(M(l))
  /\ store[M(l)].body.password \in passwords
  /\ store[M(l)].body.quota \in quotas

PasswordInv(l) ==
  LET h == handler[l]
      op == task[l].op
      specs == {handled[l], attempt[l]} \ {NoSpec}
  IN wsku[l] = "live" /\ marred[M(l)] \cap {"overlap", "fault"} = {} =>
       /\ handled[l] # NoSpec /\ "abandoned" \notin marred[M(l)] =>
            /\ MetadataOf(l, {s.password : s \in specs}, {s.quota : s \in specs})
            /\ h.kind = "update" =>
                 /\ op # "password" => store[M(l)].body.password = h.spec.password
                 /\ op # "quota" /\ h.todo # <<"quota">> =>
                      store[M(l)].body.quota = h.spec.quota
       /\ h.kind = "create" /\ op = "none" =>
            MetadataOf(l, {h.spec.password}, {h.spec.quota})

\* The key in the metadata is the one the subject was saved with.
AuthOf(l, key) == key # NoKey => exists(S(l)) /\ store[S(l)].body.key = key

AuthInv(l) ==
  LET h == handler[l]
  IN wsku[l] = "live" =>
       /\ h.kind = "create" /\ marred[S(l)] \cap {"overlap", "admin"} = {} =>
            AuthOf(l, h.auth)
       /\ h.kind = "create" /\ task[l].op = "none"
            /\ marred[M(l)] \cap {"overlap", "fault"} = {} =>
            exists(M(l)) /\ store[M(l)].body.auth = h.auth
       /\ handled[l] # NoSpec /\ exists(M(l))
            /\ marred[M(l)] \cap {"overlap", "fault"} = {}
            /\ marred[S(l)] \cap {"overlap", "admin"} = {} =>
            AuthOf(l, store[M(l)].body.auth)

\* A deletion is past the documents it has not left to delete.
GoneInv(l) ==
  LET h == handler[l]
      past_subject == h.kind = "delete" /\ task[l].op # "delete_ow_user"
      past_metadata == h.kind = "delete" /\ task[l].op = "none"
  IN /\ (wsku[l] = "absent" \/ past_subject)
          /\ marred[S(l)] \cap {"overlap", "fault", "admin"} = {} => ~exists(S(l))
     /\ (wsku[l] = "absent" \/ past_metadata)
          /\ marred[M(l)] \cap {"overlap", "fault", "admin"} = {} => ~exists(M(l))

UserInv(l) ==
  /\ SecretsInv(l) /\ BlockedInv(l) /\ PasswordInv(l) /\ AuthInv(l) /\ GoneInv(l)

ReadsInv == \A w \in Writer : Reads(w)
CourseInv == \A l \in Login : Course(l)
UsersInv == \A l \in Login : UserInv(l)

\* The history variables hold what they are of.
HistoryType ==
  /\ handled \in [Login -> Specs \union {NoSpec}]
  /\ attempt \in [Login -> Specs \union {NoSpec}]
  /\ acked \in [Login -> Env]
  /\ barred \in [Login -> BOOLEAN]
  /\ marred \in [Doc -> SUBSET Cause]
  /\ events \in Nat

SafetyInv == IInv /\ HistoryType /\ ReadsInv /\ CourseInv /\ UsersInv

----------------------------------------------------------------------------
(* What a task is about, and when CouchDB takes what it writes.            *)

\* The secrets action tells its caller what it has saved.
LEMMA AcknowledgedEnv ==
  ASSUME NEW old \in Env, NEW env \in Envs
  PROVE  acknowledged_env(old, env) = handle_additional_env(old, env)
<1>1. PICK N \in SUBSET Name : env \in [N -> Value \union {Empty}]
  BY EnvsAssumption
<1>2. DOMAIN env = N /\ N \subseteq Name
  BY <1>1
<1>3. ASSUME NEW n \in Name
      PROVE  acknowledged_env(old, env)[n] = handle_additional_env(old, env)[n]
  BY <1>2 DEF acknowledged_env, handle_additional_env
<1> QED
  BY <1>3 DEF acknowledged_env, handle_additional_env

\* The document of a task is one of its user's.
LEMMA TaskDocument ==
  ASSUME Inv, NEW w \in Writer, task[w].op # "none"
  PROVE  /\ task[w] \in TaskType /\ TaskFits(w, task[w])
         /\ task[w].login \in Login /\ task[w].op \in Operation
         /\ doc_of(w) \in Doc
         /\ S(task[w].login) \in Doc /\ M(task[w].login) \in Doc
         /\ S(task[w].login) # M(task[w].login)
         /\ task[w].op \in {"add_subject", "delete_ow_user"} \union AdminCommands
              => doc_of(w) = S(task[w].login)
         /\ task[w].op \in {"save_user_metadata", "delete_user_metadata"}
              \union Updates => doc_of(w) = M(task[w].login)
         /\ w \in Login => task[w].login = w /\ task[w].op \in Handled
         /\ w \notin Login => task[w].op \in AdminCommands \union {"env"}
<1>1. /\ task[w] \in TaskType /\ task[w].login \in Login /\ task[w].op \in Operation
      /\ doc_of(w) \in Doc /\ TaskFits(w, task[w])
  BY DocOfTask DEF Inv, TaskInv
<1>2. S(task[w].login) \in Doc /\ M(task[w].login) \in Doc
  BY <1>1 DEF S, M, Doc, Db
<1>3. S(task[w].login) # M(task[w].login)
  BY DEF S, M
<1>4. task[w].op \in {"add_subject", "delete_ow_user"} \union AdminCommands
        => doc_of(w) = S(task[w].login)
  BY DEF doc_of, db_of, S
<1>5. task[w].op \in {"save_user_metadata", "delete_user_metadata"}
        \union Updates => doc_of(w) = M(task[w].login)
  BY WritersAssumption DEF doc_of, db_of, M, Updates
<1> QED
  BY <1>1, <1>2, <1>3, <1>4, <1>5 DEF TaskFits

\* The kinds of operations differ.
LEMMA OperationKinds ==
  /\ AdminCommands \cap (Templated \union Updates \union Deletes) = {}
  /\ Templated \cap (Updates \union Deletes) = {} /\ Updates \cap Deletes = {}
  /\ "delete" \notin Templated \union Updates \union Deletes
  /\ AdminCommands \subseteq {"create", "delete", "block", "unblock"}
  BY WritersAssumption DEF Templated, Updates, Deletes

\* An edit or a removal that nothing has overlapped is taken, a document that
\* is rendered is taken unless its revision could not be read, and wskadmin
\* replaces the document it has read.
LEMMA Taking ==
  ASSUME IInv, NEW w \in Writer, Reads(w), task[w].at = "write"
  PROVE  /\ task[w].op \in Updates \union Deletes
            /\ task[w].seen = stored(w).rev =>
              Taken(w) /\ exists(doc_of(w)) /\ store[doc_of(w)].body = task[w].base
         /\ task[w].op \in AdminCommands \ {"delete"} /\ Taken(w) =>
              store[doc_of(w)].body = task[w].base
         /\ task[w].op \in Templated /\ task[w].seen = stored(w).rev
            /\ "fault" \notin marred[doc_of(w)] => Taken(w)
<1> DEFINE t == task[w]
           d == doc_of(w)
<1>1. Inv /\ t.op # "none"
  BY DEF IInv, Inv, TaskInv, TaskFits
<1>2. /\ t \in TaskType /\ TaskFits(w, t) /\ d \in Doc /\ t.op \in Operation
      /\ stored(w) = store[d]
  BY <1>1, TaskDocument DEF stored
<1>3. /\ store[d].rev \in Nat
      /\ store[d].body # NoBody => store[d].rev > 0
  BY <1>1, <1>2 DEF Inv, StoreInv
<1>4. ASSUME t.op \in Updates \union Deletes, t.seen = store[d].rev
      PROVE  Taken(w) /\ exists(d) /\ store[d].body = t.base
  <2>1. t.base # NoBody /\ store[d].body = t.base /\ t.rev = store[d].rev
    BY <1>4 DEF Reads
  <2>2. exists(d)
    BY <2>1 DEF exists
  <2> QED
    BY <2>1, <2>2 DEF Taken, accepts, sent_revision
<1>5. ASSUME t.op \in AdminCommands \ {"delete"}, Taken(w)
      PROVE  store[d].body = t.base
  <2>1. /\ t.seen = store[d].rev => store[d].body = t.base
        /\ t.rev = IF t.base = NoBody THEN 0 ELSE t.seen
        /\ t.rev = IF exists(d) THEN store[d].rev ELSE 0
    BY <1>5 DEF Reads, Taken, accepts, sent_revision
  <2>2. CASE exists(d)
    BY <1>3, <2>1, <2>2 DEF exists
  <2>3. CASE ~exists(d)
    <3>1. t.rev = 0 /\ store[d].body = NoBody
      BY <2>1, <2>3 DEF exists
    <3>2. t.op \in {"create", "block", "unblock"}
      BY <1>5, OperationKinds
    <3>3. t.base = NoBody
      BY <3>1, <3>2 , <1>2 DEF TaskFits, HasRead
    <3> QED BY <3>1, <3>3
  <2> QED BY <2>2, <2>3
<1>6. ASSUME t.op \in Templated, t.seen = store[d].rev, "fault" \notin marred[d]
      PROVE  Taken(w)
  <2>1. t.rev = IF exists(d) THEN store[d].rev ELSE 0
    BY <1>6 DEF Reads
  <2> QED
    BY <1>6, <2>1, OperationKinds DEF Taken, accepts, sent_revision
<1> HIDE DEF t, d
<1> QED
  BY <1>2, <1>4, <1>5, <1>6 DEF t, d

----------------------------------------------------------------------------
(* What a request does.                                                    *)

\* Each document is of its kind.
LEMMA BodyKinds ==
  ASSUME Inv, NEW l \in Login
  PROVE  /\ store[S(l)].body \in Subject \union {NoBody}
         /\ store[M(l)].body \in Metadata \union {NoBody}
<1>1. S(l) \in Doc /\ M(l) \in Doc
  BY DEF S, M, Doc, Db
<1>2. BodyOf[S(l)] = Subject /\ BodyOf[M(l)] = Metadata
  BY <1>1 DEF BodyOf, S, M
<1> QED
  BY <1>1, <1>2 DEF Inv, StoreInv

\* The document that was and the one that a write of w leaves, if no write
\* overlapped its operation.
LEMMA Written ==
  ASSUME IInv, NEW w \in Writer, Reads(w), task[w].at = "write", Taken(w), Stores(w),
         task[w].op \in AdminCommands \/ "overlap" \notin causes(w),
         NEW t, t = task[w], NEW h, h = handler[t.login],
         NEW old, old = store[doc_of(w)].body,
         NEW new, new = store'[doc_of(w)].body
  PROVE  /\ t.op = "add_subject" => new.key = h.spec.auth /\ ~new.blocked
         /\ t.op = "save_user_metadata" =>
              /\ new.password = h.spec.password /\ new.quota = h.spec.quota
              /\ new.auth = h.auth /\ new.userenv = NoEnv
         /\ t.op \in Updates =>
              /\ old \in Metadata /\ new.auth = old.auth
              /\ new.password = IF t.op = "password" THEN h.spec.password
                                ELSE old.password
              /\ new.quota = IF t.op = "quota" THEN h.spec.quota ELSE old.quota
              /\ new.userenv = IF t.op = "env" THEN handle_additional_env(old.userenv, t.env)
                               ELSE old.userenv
         /\ t.op = "env" => t.env \in Envs
         /\ t.op \in Deletes \union {"delete"} => new = NoBody
         /\ t.op \notin Deletes \union {"delete"} => new # NoBody
         /\ t.op = "create" =>
              /\ new.key = t.key
              /\ old \in Subject /\ old # NoBody => new.blocked = old.blocked
              /\ old = NoBody => ~new.blocked
         /\ t.op \in {"block", "unblock"} =>
              old \in Subject /\ new.key = old.key /\ new.blocked = (t.op = "block")
<1> DEFINE d == doc_of(w)
<1>1. Inv /\ t.op # "none"
  BY DEF IInv, Inv, TaskInv, TaskFits
<1>2. t \in TaskType /\ TaskFits(w, t) /\ d \in Doc /\ t.op \in Operation
  BY <1>1, TaskDocument
<1>3. new = IF t.op \in Deletes \union {"delete"} THEN NoBody ELSE body_of(w)
  BY <1>1, <1>2 DEF Stores, Inv, StoreInv
<1>4. /\ t.op \in Deletes \union {"delete"} => new = NoBody
      /\ t.op \notin Deletes \union {"delete"} => new # NoBody
  <2>1. t.op \notin Deletes \union {"delete"} => body_of(w) \in Body
    BY <1>1, <1>2, BodyWritten DEF BodyOf, Body
  <2> QED BY <1>3, <2>1, SpecsAssumption
<1>5. t.op \in Templated => new = body_of(w)
  BY <1>3, OperationKinds
<1>6. t.op \in Updates => new = body_of(w) /\ old = t.base /\ old \in Metadata
  <2> SUFFICES ASSUME t.op \in Updates
               PROVE  new = body_of(w) /\ old = t.base /\ old \in Metadata
    OBVIOUS
  <2>1. new = body_of(w) /\ t.op \notin AdminCommands
    BY <1>3, OperationKinds
  <2>2. t.seen = stored(w).rev
    BY <2>1 DEF causes
  <2>3. old = t.base /\ exists(d)
    BY <2>2, Taking
  <2>4. old \in past[d] /\ past[d] \subseteq Metadata
    BY <1>1, <1>2, <2>3, DocOfTask DEF exists, Inv, StoreInv
  <2> QED BY <2>1, <2>3, <2>4
<1>7. t.op \in AdminCommands \ {"delete"} => new = body_of(w) /\ old = t.base
  BY <1>3, OperationKinds, Taking
<1>8. t.op \in {"block", "unblock", "create"} => t.op \in AdminCommands \ {"delete"}
  BY <1>2 DEF Operation, Templated, Updates, Deletes
<1>9. t.op \in {"block", "unblock"} => old \in Subject
  <2> SUFFICES ASSUME t.op \in {"block", "unblock"} PROVE old \in Subject
    OBVIOUS
  <2>1. old \in past[d]
    BY <1>2, <1>7, <1>8 DEF TaskFits, HasRead, doc_of
  <2> QED
    BY <1>1, <1>2, <1>8, <2>1, DocOfTask DEF Inv, StoreInv
<1>10. t.op = "env" => t.env \in Envs
  BY <1>2 DEF TaskFits
<1> HIDE DEF d
<1>11. t.op = "add_subject" => new.key = h.spec.auth /\ ~new.blocked
  <2>1. t.op = "add_subject" => new = subject_of(h.spec.auth)
    BY <1>5 DEF body_of, Templated
  <2> QED BY <2>1 DEF subject_of
<1>12. t.op = "save_user_metadata" =>
         /\ new.password = h.spec.password /\ new.quota = h.spec.quota
         /\ new.auth = h.auth /\ new.userenv = NoEnv
  <2>1. t.op = "save_user_metadata" => new = metadata_of(h.spec, h.auth)
    BY <1>5 DEF body_of, Templated
  <2> QED BY <2>1 DEF metadata_of
<1>13. t.op \in Updates =>
         /\ new.auth = old.auth
         /\ new.password = IF t.op = "password" THEN h.spec.password ELSE old.password
         /\ new.quota = IF t.op = "quota" THEN h.spec.quota ELSE old.quota
         /\ new.userenv = IF t.op = "env" THEN handle_additional_env(old.userenv, t.env)
                          ELSE old.userenv
  <2>1. CASE t.op = "password"
    <3>1. old \in Metadata /\ new = [old EXCEPT !.password = h.spec.password]
      BY <1>6, <2>1 DEF body_of, Updates
    <3> QED BY <2>1, <3>1 DEF Metadata
  <2>2. CASE t.op = "quota"
    <3>1. old \in Metadata /\ new = [old EXCEPT !.quota = h.spec.quota]
      BY <1>6, <2>2 DEF body_of, Updates
    <3> QED BY <2>2, <3>1 DEF Metadata
  <2>3. CASE t.op = "env"
    <3>1. /\ old \in Metadata
          /\ new = [old EXCEPT !.userenv = handle_additional_env(@, t.env)]
      BY <1>6, <2>3 DEF body_of, Updates
    <3> QED BY <2>3, <3>1 DEF Metadata
  <2> QED BY <2>1, <2>2, <2>3 DEF Updates
<1>14. t.op = "create" =>
         /\ new.key = t.key
         /\ old \in Subject /\ old # NoBody => new.blocked = old.blocked
         /\ old = NoBody => ~new.blocked
  <2> SUFFICES ASSUME t.op = "create"
               PROVE  /\ new.key = t.key
                      /\ old \in Subject /\ old # NoBody => new.blocked = old.blocked
                      /\ old = NoBody => ~new.blocked
    OBVIOUS
  <2>1. new = IF old = NoBody THEN subject_of(t.key) ELSE [old EXCEPT !.key = t.key]
    BY <1>7, <1>8 DEF body_of
  <2>2. old \in Subject \union {NoBody}
    <3>1. d = S(t.login) /\ t.login \in Login
      BY <1>1, <1>8, TaskDocument DEF d
    <3> QED BY <1>1, <3>1, BodyKinds DEF d
  <2>3. CASE old = NoBody
    BY <2>1, <2>3 DEF subject_of
  <2>4. CASE old \in Subject /\ old # NoBody
    BY <2>1, <2>4 DEF Subject
  <2> QED BY <2>2, <2>3, <2>4
<1>15. t.op \in {"block", "unblock"} =>
         new.key = old.key /\ new.blocked = (t.op = "block")
  <2>1. CASE t.op = "block"
    <3>1. old \in Subject /\ new = [old EXCEPT !.blocked = TRUE]
      BY <1>7, <1>8, <1>9, <2>1 DEF body_of
    <3> QED BY <2>1, <3>1 DEF Subject
  <2>2. CASE t.op = "unblock"
    <3>1. old \in Subject /\ new = [old EXCEPT !.blocked = FALSE]
      BY <1>7, <1>8, <1>9, <2>2 DEF body_of
    <3> QED BY <2>2, <3>1 DEF Subject
  <2> QED BY <2>1, <2>2
<1> QED
  BY <1>4, <1>6, <1>9, <1>10, <1>11, <1>12, <1>13, <1>14, <1>15

\* A request is not the last of its operation.
Going(w) ==
  /\ UNCHANGED <<handler, store, acked, barred>>
  /\ \E t \in TaskType :
       /\ task' = [task EXCEPT ![w] = t]
       /\ t.op = task[w].op /\ t.login = task[w].login

\* The operation of w is done, and its caller knows it.
Served(w) ==
  /\ task[w].at = "write" /\ Taken(w) /\ Stores(w) /\ Acknowledged(w) /\ Ends(w, TRUE)
  /\ marred' = [marred EXCEPT ![doc_of(w)] = @ \union causes(w)]

\* A request fails, whether or not it was served.
Lost(w) ==
  /\ Ends(w, FALSE) /\ UNCHANGED <<acked, barred>>
  /\ "fault" \in marred'[doc_of(w)]
  /\ \/ Kept
     \/ /\ task[w].at = "write" /\ Taken(w) /\ Stores(w)
        /\ causes(w) \subseteq marred'[doc_of(w)]

\* The operation of w fails: of a handler, when there is no document to edit
\* or to remove, or another writer was faster.
Refused(w) ==
  /\ Ends(w, FALSE) /\ UNCHANGED <<store, acked, barred>>
  /\ w \in Login => \/ "overlap" \in marred'[doc_of(w)]
                    \/ task[w].op \notin Templated /\ ~exists(doc_of(w))

\* What a request may leave on a document.
Marks(w) ==
  \E C \in SUBSET {"overlap", "again", "fault", "admin"} :
    marred' = [marred EXCEPT ![doc_of(w)] = @ \union C]

LEMMA RequestStep ==
  ASSUME IInv, HistoryType, NEW w \in Writer, Reads(w), Request(w)
  PROVE  /\ UNCHANGED <<wsku, spec, handled, attempt>> /\ task[w].op # "none"
         /\ Marks(w)
         /\ Going(w) \/ Served(w) \/ Lost(w) \/ Refused(w)
<1> DEFINE t == task[w]
           d == doc_of(w)
<1>1. Inv /\ t.op # "none"
  BY DEF IInv, Inv, TaskInv, TaskFits, Request, Find, Get, Write
<1>2. /\ t \in TaskType /\ TaskFits(w, t) /\ d \in Doc /\ t.op \in Operation
      /\ stored(w) = store[d]
      /\ w \in Login => t.op \in Handled
      /\ marred \in [Doc -> SUBSET Cause]
  BY <1>1, TaskDocument DEF stored, HistoryType
<1>3. UNCHANGED <<wsku, spec, handled, attempt>>
  BY DEF Request, Find, Get, Write
<1>4. w \in Login => t.op \notin AdminCommands \union {"env"}
  BY <1>2, HandledOperations
<1>5. stored(w).rev \in Nat
  BY <1>1, <1>2 DEF Inv, StoreInv
<1>6. ASSUME NEW u \in TaskType, u.op = t.op, u.login = t.login, Goes(w, u),
             UNCHANGED <<store, acked, barred>>
      PROVE  Going(w)
  BY <1>6 DEF Goes, Going
<1>7. CASE Find(w)
  <2> DEFINE s == stored(w)
             got == [t EXCEPT !.base = s.body,
                              !.rev = IF s.body = NoBody THEN 0 ELSE s.rev,
                              !.seen = s.rev,
                              !.at = IF t.op \in AdminCommands THEN "write" ELSE "get"]
  <2>1. /\ UNCHANGED <<store, past, acked, barred>> /\ t.at = "find"
        /\ \/ UNCHANGED marred /\ proceeds(t, s.body) /\ Goes(w, got)
           \/ UNCHANGED marred /\ ~proceeds(t, s.body) /\ Ends(w, FALSE)
           \/ Marred(d, {"fault"}) /\ Ends(w, FALSE)
    BY <1>7 DEF Find
  <2>2. t.op \notin Templated
    BY <2>1 DEF Reads
  <2>3. CASE UNCHANGED marred
    <3>1. Marks(w)
      <4>1. marred' = [marred EXCEPT ![d] = @ \union {}]
        BY <1>2, <2>3
      <4> QED BY <4>1 DEF Marks
    <3>2. CASE proceeds(t, s.body) /\ Goes(w, got)
      <4>1. s.body \in Body \union {NoBody}
        BY <1>1, <1>2 DEF Inv, StoreInv
      <4>2. got \in TaskType /\ got.op = t.op /\ got.login = t.login
        BY <1>2, <1>5, <4>1 DEF TaskType
      <4> HIDE DEF got
      <4> QED BY <1>1, <1>3, <1>6, <2>1, <3>1, <3>2, <4>2
    <3>3. CASE ~proceeds(t, s.body) /\ Ends(w, FALSE)
      <4>1. w \in Login => ~exists(d)
        BY <1>2, <1>4, <3>3, WritersAssumption
        DEF proceeds, exists, Handled, Templated, Deletes
      <4>2. Refused(w)
        BY <2>1, <2>2, <3>3, <4>1 DEF Refused
      <4> QED BY <1>1, <1>3, <3>1, <4>2
    <3>4. CASE Marred(d, {"fault"}) /\ Ends(w, FALSE)
      <4>1. Lost(w)
        BY <1>2, <2>1, <3>4 DEF Lost, Marred, Kept
      <4> QED BY <1>1, <1>3, <3>1, <4>1
    <3> QED BY <2>1, <3>2, <3>3, <3>4
  <2>4. CASE Marred(d, {"fault"}) /\ Ends(w, FALSE)
    <3>1. Lost(w) /\ Marks(w)
      BY <1>2, <2>1, <2>4 DEF Lost, Marred, Kept, Marks
    <3> QED BY <1>1, <1>3, <3>1
  <2> QED BY <2>1, <2>3, <2>4
<1>8. CASE Get(w)
  <2> DEFINE none == [rev |-> 0, body |-> NoBody]
             got(cur) == [t EXCEPT !.at = "write", !.rev = revision(t, cur),
                                   !.seen = IF t.op \in Templated
                                              THEN stored(w).rev ELSE @]
             Read(cur) == IF t.op \in Deletes /\ cur.body = NoBody
                            THEN Ends(w, FALSE) ELSE Goes(w, got(cur))
  <2>1. /\ UNCHANGED <<store, past, acked, barred>> /\ t.at = "get"
        /\ \/ UNCHANGED marred /\ Read(store[d])
           \/ Marred(d, {"fault"}) /\ Read(none)
    BY <1>2, <1>8 DEF Get
  <2>2. ASSUME NEW cur \in {store[d], none}, Goes(w, got(cur)) PROVE Going(w)
    <3>1. revision(t, cur) \in Nat
      BY <1>2, <1>5 DEF revision, TaskType
    <3>2. got(cur) \in TaskType /\ got(cur).op = t.op /\ got(cur).login = t.login
      BY <1>2, <1>5, <3>1 DEF TaskType
    <3>3. PICK u : u = got(cur)
      OBVIOUS
    <3> HIDE DEF got
    <3> QED BY <1>6, <2>1, <2>2, <3>2, <3>3
  <2> HIDE DEF got
  <2>3. CASE UNCHANGED marred /\ Read(store[d])
    <3>1. Marks(w)
      <4>1. marred' = [marred EXCEPT ![d] = @ \union {}]
        BY <1>2, <2>3
      <4> QED BY <4>1 DEF Marks
    <3>2. CASE t.op \in Deletes /\ store[d].body = NoBody
      <4>1. Ends(w, FALSE)
        BY <2>3, <3>2
      <4>2. Refused(w)
        BY <2>1, <3>2, <4>1, OperationKinds DEF Refused, exists
      <4> QED BY <1>1, <1>3, <3>1, <4>2
    <3>3. CASE ~(t.op \in Deletes /\ store[d].body = NoBody)
      <4>1. Goes(w, got(store[d]))
        BY <2>3, <3>3
      <4> QED BY <1>1, <1>3, <2>2, <3>1, <4>1
    <3> QED BY <3>2, <3>3
  <2>4. CASE Marred(d, {"fault"}) /\ Read(none)
    <3>1. Marks(w) /\ "fault" \in marred'[d]
      BY <1>2, <2>4 DEF Marred, Marks
    <3>2. CASE t.op \in Deletes
      <4>1. Ends(w, FALSE)
        BY <2>4, <3>2
      <4>2. Lost(w)
        BY <2>1, <3>1, <4>1 DEF Lost, Kept
      <4> QED BY <1>1, <1>3, <3>1, <4>2
    <3>3. CASE t.op \notin Deletes
      <4>1. Goes(w, got(none))
        BY <2>4, <3>3
      <4> QED BY <1>1, <1>3, <2>2, <3>1, <4>1
    <3> QED BY <3>2, <3>3
  <2> QED BY <2>1, <2>3, <2>4
<1>9. CASE Write(w)
  <2>1. /\ t.at = "write"
        /\ \/ Marred(d, causes(w)) /\ Taken(w) /\ Stores(w) /\ Acknowledged(w)
              /\ Ends(w, TRUE)
           \/ Marred(d, causes(w)) /\ ~Taken(w) /\ Ends(w, FALSE)
              /\ UNCHANGED <<store, past, acked, barred>>
           \/ Marred(d, causes(w) \union {"fault"}) /\ Ends(w, FALSE)
              /\ UNCHANGED <<acked, barred>>
              /\ ((Taken(w) /\ Stores(w)) \/ UNCHANGED <<store, past>>)
    <3> DEFINE ok == accepts(d, sent_revision(t))
                       /\ (t.op \in Deletes \union {"delete"} => exists(d))
    <3>1. ok <=> Taken(w)
      BY DEF Taken
    <3>2. ok = TRUE \/ ok = FALSE
      BY DEF accepts
    <3>3. /\ t.at = "write"
          /\ \/ Marred(d, causes(w)) /\ Ends(w, ok)
                /\ (IF ok THEN Stores(w) /\ Acknowledged(w)
                    ELSE UNCHANGED <<store, past, acked, barred>>)
             \/ Marred(d, causes(w) \union {"fault"}) /\ Ends(w, FALSE)
                /\ ((ok /\ Stores(w)) \/ UNCHANGED <<store, past>>)
                /\ UNCHANGED <<acked, barred>>
      BY <1>9 DEF Write
    <3> HIDE DEF ok
    <3> QED BY <3>1, <3>2, <3>3
  <2>2. causes(w) \subseteq {"overlap", "again", "admin"}
    BY DEF causes
  <2> HIDE DEF d
  <2>3. CASE Marred(d, causes(w)) /\ Taken(w) /\ Stores(w) /\ Acknowledged(w)
             /\ Ends(w, TRUE)
    <3>1. Served(w) /\ Marks(w)
      BY <2>1, <2>2, <2>3 DEF Served, Marred, Marks, d
    <3> QED BY <1>1, <1>3, <3>1
  <2>4. CASE Marred(d, causes(w)) /\ ~Taken(w) /\ Ends(w, FALSE)
             /\ UNCHANGED <<store, past, acked, barred>>
    <3>1. Marks(w) /\ marred'[d] = marred[d] \union causes(w)
      BY <1>2, <2>2, <2>4 DEF Marred, Marks, d
    <3>2. CASE w \notin Login
      <4>1. Refused(w)
        BY <2>4, <3>2 DEF Refused
      <4> QED BY <1>1, <1>3, <3>1, <4>1
    <3>3. CASE "fault" \in marred[d]
      <4>1. Lost(w)
        BY <2>4, <3>1, <3>3 DEF Lost, Kept, d
      <4> QED BY <1>1, <1>3, <3>1, <4>1
    <3>4. CASE w \in Login /\ "fault" \notin marred[d]
      <4>1. t.op \in Templated \union Updates \union Deletes
        BY <1>2, <3>4 DEF Handled, Updates
      <4>2. t.seen # stored(w).rev
        BY <2>1, <2>4, <3>4, <4>1, Taking DEF d
      <4>3. "overlap" \in causes(w)
        BY <4>1, <4>2, OperationKinds DEF causes
      <4>4. Refused(w)
        BY <2>4, <3>1, <4>3 DEF Refused, d
      <4> QED BY <1>1, <1>3, <3>1, <4>4
    <3> QED BY <3>2, <3>3, <3>4
  <2>5. CASE Marred(d, causes(w) \union {"fault"}) /\ Ends(w, FALSE)
             /\ UNCHANGED <<acked, barred>>
             /\ ((Taken(w) /\ Stores(w)) \/ UNCHANGED <<store, past>>)
    <3>1. /\ Marks(w) /\ "fault" \in marred'[d]
          /\ causes(w) \subseteq marred'[d]
      BY <1>2, <2>2, <2>5 DEF Marred, Marks, d
    <3>2. Lost(w)
      BY <2>1, <2>5, <3>1 DEF Lost, Kept, d
    <3> QED BY <1>1, <1>3, <3>1, <3>2
  <2> QED BY <2>1, <2>3, <2>4, <2>5
<1> QED
  BY <1>7, <1>8, <1>9 DEF Request

----------------------------------------------------------------------------
(* How a handler goes on.                                                  *)

\* Only the task of w and, of a handler, what it has to do change.
LEMMA EndsStep ==
  ASSUME Inv, NEW w \in Writer, NEW ok \in BOOLEAN, Ends(w, ok)
  PROVE  /\ \A v \in Writer \ {w} : task'[v] = task[v]
         /\ \A l \in Login \ {w} : handler'[l] = handler[l]
         /\ w \notin Login => task'[w] = Idle
         /\ w \in Login =>
              LET h == handler[w]
              IN /\ handler'[w].kind = h.kind /\ handler'[w].spec = h.spec
                 /\ handler'[w].auth = IF task[w].op = "add_subject"
                                         THEN auth_recorded(h, ok) ELSE h.auth
                 /\ IF h.todo = <<>>
                      THEN task'[w] = Idle /\ handler'[w].todo = <<>>
                      ELSE /\ task'[w] = begun(Head(h.todo), w, NoKey, <<>>)
                           /\ handler'[w].todo = Tail(h.todo)
<1>1. task \in [Writer -> TaskType] /\ handler \in [Login -> HandlerType]
  BY DEF Inv, TaskInv, HandlerInv
<1>2. CASE w \notin Login
  BY <1>1, <1>2 DEF Ends
<1>3. CASE w \in Login
  <2> DEFINE h == handler[w]
             g == IF task[w].op = "add_subject"
                    THEN [h EXCEPT !.auth = auth_recorded(h, ok)] ELSE h
  <2>1. Calls(w, g)
    BY <1>3 DEF Ends, raises
  <2>2. /\ g.kind = h.kind /\ g.spec = h.spec /\ g.todo = h.todo
        /\ g.auth = IF task[w].op = "add_subject" THEN auth_recorded(h, ok) ELSE h.auth
    BY <1>1, <1>3 DEF HandlerType
  <2> DEFINE k == [g EXCEPT !.todo = Tail(@)]
  <2>3. /\ k.kind = g.kind /\ k.spec = g.spec /\ k.auth = g.auth
        /\ k.todo = Tail(g.todo)
    <3>1. h \in HandlerType
      BY <1>1, <1>3
    <3>2. CASE task[w].op = "add_subject"
      BY <3>1, <3>2 DEF HandlerType
    <3>3. CASE task[w].op # "add_subject"
      BY <3>1, <3>3 DEF HandlerType
    <3> QED BY <3>2, <3>3
  <2> HIDE DEF g, k
  <2>4. CASE h.todo = <<>>
    <3>1. handler' = [handler EXCEPT ![w] = g] /\ task' = [task EXCEPT ![w] = Idle]
      BY <2>1, <2>2, <2>4 DEF Calls
    <3> QED BY <1>1, <1>3, <2>2, <2>4, <3>1
  <2>5. CASE h.todo # <<>>
    <3>1. /\ handler' = [handler EXCEPT ![w] = k]
          /\ task' = [task EXCEPT ![w] = begun(Head(h.todo), w, NoKey, <<>>)]
      BY <2>1, <2>2, <2>5 DEF Calls, k
    <3> QED BY <1>1, <1>3, <2>2, <2>3, <2>5, <3>1
  <2> QED BY <2>4, <2>5
<1> QED BY <1>2, <1>3

LEMMA BegunOp ==
  ASSUME NEW op, NEW l, NEW key, NEW env
  PROVE  /\ begun(op, l, key, env).op = op
         /\ begun(op, l, key, env).at = IF op \in Templated THEN "get" ELSE "find"
         /\ begun(op, l, key, env).rev = 0
         /\ Idle.op = "none" /\ Idle.at = "idle"
  BY DEF begun, Idle

\* A handler is started for what it has to do.
LEMMA StartStep ==
  ASSUME Inv, NEW l \in Login, NEW kind, NEW todo, StartHandler(l, kind, todo)
  PROVE  /\ \A v \in Writer \ {l} : task'[v] = task[v]
         /\ \A k \in Login \ {l} : handler'[k] = handler[k]
         /\ handler'[l].kind = kind /\ handler'[l].spec = spec[l]
         /\ handler'[l].auth = NoKey
         /\ IF todo = <<>>
              THEN task'[l] = Idle /\ handler'[l].todo = <<>>
              ELSE /\ task'[l] = begun(Head(todo), l, NoKey, <<>>)
                   /\ handler'[l].todo = Tail(todo)
<1> DEFINE h == [kind |-> kind, spec |-> spec[l], todo |-> todo, auth |-> NoKey]
<1>1. task \in [Writer -> TaskType] /\ handler \in [Login -> HandlerType] /\ l \in Writer
  BY DEF Inv, TaskInv, HandlerInv, Writer
<1>2. Calls(l, h)
  BY DEF StartHandler
<1>3. CASE todo = <<>>
  BY <1>1, <1>2, <1>3 DEF Calls
<1>4. CASE todo # <<>>
  <2>1. /\ handler' = [handler EXCEPT ![l] = [h EXCEPT !.todo = Tail(@)]]
        /\ task' = [task EXCEPT ![l] = begun(Head(todo), l, NoKey, <<>>)]
    BY <1>2, <1>4 DEF Calls
  <2> QED BY <1>1, <1>4, <2>1
<1> QED BY <1>3, <1>4

----------------------------------------------------------------------------
(* What the tasks know of their documents.                                 *)

\* What a task knows stays true when others write its document.
LEMMA ReadsLater ==
  ASSUME Inv, NEW v \in Writer, Reads(v), task'[v] = task[v],
         task[v].op # "none" =>
           /\ store'[doc_of(v)] = store[doc_of(v)]
              \/ store'[doc_of(v)].rev = store[doc_of(v)].rev + 1
           /\ marred[doc_of(v)] \subseteq marred'[doc_of(v)]
  PROVE  Reads(v)'
<1> DEFINE t == task[v]
           d == doc_of(v)
<1>1. doc_of(v)' = d
  BY DEF doc_of
<1>2. CASE t.op = "none"
  <2>1. t.op \notin Updates \union Deletes \union AdminCommands \union Templated
    BY <1>2, WritersAssumption DEF Updates, Deletes, Templated
  <2> QED BY <2>1 DEF Reads
<1>3. CASE t.op # "none"
  <2>1. d \in Doc /\ t \in TaskType
    BY <1>3, TaskDocument
  <2>2. store[d].rev \in Nat /\ t.seen \in Nat
    BY <2>1 DEF Inv, StoreInv, TaskType
  <2>3. CASE store'[d] = store[d]
    BY <1>1, <1>3, <2>3 DEF Reads, exists
  <2>4. CASE store'[d].rev = store[d].rev + 1
    <3>1. t.seen <= store[d].rev => t.seen <= store'[d].rev /\ t.seen # store'[d].rev
      BY <2>2, <2>4
    <3> QED BY <1>1, <3>1 DEF Reads
  <2> QED BY <1>3, <2>3, <2>4
<1> QED BY <1>2, <1>3

\* A task that begins knows nothing.
LEMMA ReadsNothing ==
  ASSUME NEW v \in Writer, NEW op, NEW l, NEW key, NEW env,
         task'[v] = begun(op, l, key, env) \/ task'[v] = Idle
  PROVE  Reads(v)'
<1>1. CASE task'[v] = begun(op, l, key, env)
  <2>1. /\ task'[v].at = IF task'[v].op \in Templated THEN "get" ELSE "find"
        /\ task'[v].rev = 0
    BY <1>1, BegunOp
  <2> QED BY <2>1, OperationKinds DEF Reads
<1>2. CASE task'[v] = Idle
  <2>1. task'[v].at = "idle"
    BY <1>2, BegunOp
  <2> QED BY <2>1 DEF Reads
<1> QED BY <1>1, <1>2

\* The documents change with their revision, and what marred them is kept.
LEMMA DocumentsGrow ==
  ASSUME Inv, HistoryType, NEW w \in Writer, task[w].op # "none", Marks(w),
         Kept \/ Stores(w)
  PROVE  \A e \in Doc :
           /\ store'[e] = store[e] \/ store'[e].rev = store[e].rev + 1
           /\ marred[e] \subseteq marred'[e]
           /\ e # doc_of(w) => store'[e] = store[e] /\ marred'[e] = marred[e]
<1>1. store \in [Doc -> [rev : Nat, body : Body \union {NoBody}]]
      /\ marred \in [Doc -> SUBSET Cause]
  BY DEF Inv, StoreInv, HistoryType
<1>2. doc_of(w) \in Doc
  BY TaskDocument
<1>3. \A e \in Doc :
           /\ store'[e] = store[e] \/ store'[e].rev = store[e].rev + 1
           /\ e # doc_of(w) => store'[e] = store[e]
  BY <1>1, <1>2 DEF Kept, Stores
<1>4. \A e \in Doc :
           /\ marred[e] \subseteq marred'[e]
           /\ e # doc_of(w) => marred'[e] = marred[e]
  BY <1>1, <1>2 DEF Marks
<1> QED BY <1>3, <1>4

\* What a task learns from a request, and keeps to the next.
LEMMA ReadsRequest ==
  ASSUME IInv, HistoryType, ReadsInv, NEW w \in Writer, Request(w)
  PROVE  ReadsInv'
<1> DEFINE t == task[w]
           d == doc_of(w)
<1>1. Inv /\ Reads(w)
  BY DEF IInv, ReadsInv
<1>2. /\ t.op # "none" /\ Marks(w)
      /\ Going(w) \/ Served(w) \/ Lost(w) \/ Refused(w)
  BY <1>1, RequestStep
<1>3. Kept \/ Stores(w)
  BY DEF Request, Find, Get, Write, Kept
<1>4. \A e \in Doc :
           /\ store'[e] = store[e] \/ store'[e].rev = store[e].rev + 1
           /\ marred[e] \subseteq marred'[e]
  BY <1>1, <1>2, <1>3, DocumentsGrow
<1>5. t \in TaskType /\ TaskFits(w, t) /\ d \in Doc /\ stored(w) = store[d]
  BY <1>1, <1>2, TaskDocument DEF stored
<1>6. store[d].rev \in Nat /\ task \in [Writer -> TaskType]
  BY <1>1, <1>5 DEF Inv, StoreInv, TaskInv
<1>7. ASSUME NEW v \in Writer, v # w PROVE Reads(v)'
  <2>1. task'[v] = task[v]
    <3>1. CASE Going(w)
      BY <1>6, <1>7, <3>1 DEF Going
    <3>2. CASE \E ok \in BOOLEAN : Ends(w, ok)
      BY <1>1, <1>7, <3>2, EndsStep
    <3> QED BY <1>2, <3>1, <3>2 DEF Served, Lost, Refused
  <2>2. task[v].op # "none" => doc_of(v) \in Doc
    BY <1>1, TaskDocument
  <2>3. Reads(v)
    BY DEF ReadsInv
  <2> QED BY <1>1, <1>4, <2>1, <2>2, <2>3, ReadsLater
<1>8. ASSUME NEW ok \in BOOLEAN, Ends(w, ok) PROVE Reads(w)'
  <2>1. \/ task'[w] = Idle
        \/ \E op : task'[w] = begun(op, w, NoKey, <<>>)
    BY <1>1, <1>8, EndsStep
  <2> QED BY <2>1, ReadsNothing
<1>9. ASSUME NEW u, Goes(w, u), u.op = t.op, u.login = t.login
      PROVE  task'[w] = u /\ doc_of(w)' = d
  BY <1>6, <1>9 DEF Goes, doc_of
<1>10. Reads(w)'
  <2>1. CASE Find(w)
    <3> DEFINE s == store[d]
               got == [t EXCEPT !.base = s.body,
                                !.rev = IF s.body = NoBody THEN 0 ELSE s.rev,
                                !.seen = s.rev,
                                !.at = IF t.op \in AdminCommands THEN "write" ELSE "get"]
    <3>1. /\ UNCHANGED store /\ t.at = "find"
          /\ (proceeds(t, s.body) /\ Goes(w, got)) \/ Ends(w, FALSE)
      BY <1>5, <2>1 DEF Find
    <3>2. /\ got.op = t.op /\ got.login = t.login /\ got.base = s.body
          /\ got.seen = s.rev
          /\ got.rev = IF s.body = NoBody THEN 0 ELSE s.rev
          /\ got.at = IF t.op \in AdminCommands THEN "write" ELSE "get"
      BY <1>5 DEF TaskType
    <3> HIDE DEF got
    <3>3. CASE proceeds(t, s.body) /\ Goes(w, got)
      <4>1. task'[w] = got /\ doc_of(w)' = d /\ store'[d] = store[d]
        BY <1>9, <3>1, <3>2, <3>3
      <4>2. t.op \in Updates \union Deletes => s.body # NoBody
        BY <3>3 DEF proceeds, Updates, Deletes
      <4>3. t.op \notin Templated
        BY <1>1, <3>1 DEF Reads
      <4> QED BY <1>6, <3>2, <4>1, <4>2, <4>3, OperationKinds DEF Reads
    <3> QED BY <1>8, <3>1, <3>3
  <2>2. CASE Get(w)
    <3> DEFINE none == [rev |-> 0, body |-> NoBody]
               got(cur) == [t EXCEPT !.at = "write", !.rev = revision(t, cur),
                                     !.seen = IF t.op \in Templated
                                                THEN store[d].rev ELSE @]
    <3>1. /\ UNCHANGED store /\ t.at = "get"
          /\ \/ Ends(w, FALSE)
             \/ Goes(w, got(store[d]))
             \/ Goes(w, got(none)) /\ Marred(d, {"fault"})
      BY <1>5, <2>2 DEF Get
    <3>2. ASSUME NEW cur, Goes(w, got(cur)),
                 cur = store[d] \/ (cur = none /\ "fault" \in marred'[d])
          PROVE  Reads(w)'
      <4>1. PICK g : g = got(cur)
        OBVIOUS
      <4>2. /\ g.op = t.op /\ g.login = t.login /\ g.base = t.base /\ g.at = "write"
            /\ g.rev = IF cur.body = NoBody THEN t.rev ELSE cur.rev
            /\ g.seen = IF t.op \in Templated THEN store[d].rev ELSE t.seen
        BY <1>5, <4>1 DEF TaskType, revision
      <4>3. task'[w] = g /\ doc_of(w)' = d /\ store'[d] = store[d]
        BY <1>9, <3>1, <3>2, <4>1, <4>2
      <4>4. t.op \notin AdminCommands
        BY <1>5, <3>1 DEF TaskFits
      <4>5. CASE t.op \in Updates \union Deletes
        <5>1. /\ t.base # NoBody /\ t.seen <= store[d].rev /\ t.rev = t.seen
              /\ t.seen = store[d].rev => store[d].body = t.base
          BY <1>1, <3>1, <4>5 DEF Reads
        <5>2. t.op \notin Templated
          BY <4>5, OperationKinds
        <5>3. g.seen = store[d].rev => g.rev = g.seen
          BY <3>2, <4>2, <5>1, <5>2
        <5> QED BY <4>2, <4>3, <4>4, <5>1, <5>2, <5>3 DEF Reads
      <4>6. CASE t.op \in Templated
        <5>1. t.rev = 0
          BY <1>1, <3>1, <4>6 DEF Reads
        <5>2. t.op \notin Updates \union Deletes
          BY <4>6, OperationKinds
        <5>3. cur = store[d] => g.rev = IF exists(d) THEN store[d].rev ELSE 0
          BY <4>2, <5>1 DEF exists
        <5> QED
          BY <1>6, <3>2, <4>2, <4>3, <4>4, <4>6, <5>2, <5>3 DEF Reads, exists
      <4>7. CASE t.op \notin Updates \union Deletes \union Templated
        BY <4>2, <4>3, <4>4, <4>7 DEF Reads
      <4> QED BY <4>5, <4>6, <4>7
    <3>3. Marred(d, {"fault"}) => "fault" \in marred'[d]
      BY <1>5 DEF Marred, HistoryType
    <3> HIDE DEF got, none
    <3> QED BY <1>8, <3>1, <3>2, <3>3
  <2>3. CASE Write(w)
    <3>1. \E ok \in BOOLEAN : Ends(w, ok)
      <4>1. Served(w) \/ Lost(w) \/ Refused(w) => \E ok \in BOOLEAN : Ends(w, ok)
        BY DEF Served, Lost, Refused
      <4>2. Ends(w, Taken(w)) \/ Ends(w, FALSE)
        BY <2>3 DEF Write, Taken
      <4>3. Taken(w) \in BOOLEAN
        BY DEF Taken, accepts
      <4> QED BY <4>2, <4>3
    <3> QED BY <1>8, <3>1
  <2> QED BY <2>1, <2>2, <2>3 DEF Request
<1> QED BY <1>7, <1>10 DEF ReadsInv

\* The turn a handler takes when an operation of it is done.
LEMMA Turns ==
  ASSUME Inv, NEW l \in Login, Course(l), task[l].op # "none",
         NEW ok \in BOOLEAN, Ends(l, ok)
  PROVE  LET h == handler[l]
             op == task[l].op
         IN /\ op = "add_subject" => /\ h.kind = "create" /\ h.auth = NoKey
                                     /\ task'[l].op = "save_user_metadata"
            /\ op = "save_user_metadata" => h.kind = "create" /\ task'[l].op = "none"
            /\ op = "password" =>
                 /\ h.kind = "update"
                 /\ \/ h.todo = <<"quota">> /\ task'[l].op = "quota"
                    \/ h.todo = <<>> /\ task'[l].op = "none"
            /\ op = "quota" =>
                 h.kind = "update" /\ h.todo = <<>> /\ task'[l].op = "none"
            /\ op = "delete_ow_user" =>
                 h.kind = "delete" /\ task'[l].op = "delete_user_metadata"
            /\ op = "delete_user_metadata" => h.kind = "delete" /\ task'[l].op = "none"
            /\ op \in {"add_subject", "save_user_metadata", "password", "quota",
                       "delete_ow_user", "delete_user_metadata"}
            /\ handler'[l].todo = <<>>
<1> DEFINE h == handler[l]
           op == task[l].op
<1>1. h.kind \in {"idle", "create", "update", "delete"} /\ l \in Writer
  BY DEF Inv, HandlerInv, HandlerType, Writer
<1>2. IF h.todo = <<>>
        THEN task'[l].op = "none" /\ handler'[l].todo = <<>>
        ELSE task'[l].op = Head(h.todo) /\ handler'[l].todo = Tail(h.todo)
  <2>1. IF h.todo = <<>>
          THEN task'[l] = Idle /\ handler'[l].todo = <<>>
          ELSE /\ task'[l] = begun(Head(h.todo), l, NoKey, <<>>)
               /\ handler'[l].todo = Tail(h.todo)
    BY <1>1, EndsStep
  <2> QED BY <2>1, BegunOp
<1>3. /\ Head(<<"save_user_metadata">>) = "save_user_metadata"
      /\ Tail(<<"save_user_metadata">>) = <<>>
      /\ Head(<<"quota">>) = "quota" /\ Tail(<<"quota">>) = <<>>
      /\ Head(<<"delete_user_metadata">>) = "delete_user_metadata"
      /\ Tail(<<"delete_user_metadata">>) = <<>>
      /\ <<"save_user_metadata">> # <<>> /\ <<"quota">> # <<>>
      /\ <<"delete_user_metadata">> # <<>>
  OBVIOUS
<1>4. /\ h.kind # "idle"
      /\ h.kind = "create" =>
           \/ op = "add_subject" /\ h.todo = <<"save_user_metadata">> /\ h.auth = NoKey
           \/ op \in {"save_user_metadata", "none"} /\ h.todo = <<>>
      /\ h.kind = "update" =>
           \/ op = "password" /\ h.todo \in {<<"quota">>, <<>>}
           \/ op \in {"quota", "none"} /\ h.todo = <<>>
      /\ h.kind = "delete" =>
           \/ op = "delete_ow_user" /\ h.todo = <<"delete_user_metadata">>
           \/ op \in {"delete_user_metadata", "none"} /\ h.todo = <<>>
  BY DEF Course
<1> HIDE DEF h, op
<1>5. CASE h.kind = "create"
  BY <1>2, <1>3, <1>4, <1>5 DEF h, op
<1>6. CASE h.kind = "update"
  BY <1>2, <1>3, <1>4, <1>6 DEF h, op
<1>7. CASE h.kind = "delete"
  BY <1>2, <1>3, <1>4, <1>7 DEF h, op
<1>8. h.kind \in {"create", "update", "delete"}
  BY <1>1, <1>4 DEF h
<1> QED BY <1>5, <1>6, <1>7, <1>8

\* A handler goes through its operations in their order.
LEMMA CourseRequest ==
  ASSUME IInv, HistoryType, ReadsInv, CourseInv, NEW w \in Writer, Request(w)
  PROVE  CourseInv'
<1>1. Inv /\ Reads(w)
  BY DEF IInv, ReadsInv
<1>2. /\ task[w].op # "none" /\ UNCHANGED <<wsku, spec, handled, attempt>>
      /\ Going(w) \/ Served(w) \/ Lost(w) \/ Refused(w)
  BY <1>1, RequestStep
<1>3. ASSUME NEW l \in Login PROVE Course(l)'
  <2>1. Course(l) /\ l \in Writer
    BY DEF CourseInv, Writer
  <2>2. CASE Going(w)
    <3>1. handler'[l] = handler[l] /\ task'[l].op = task[l].op
      BY <1>1, <2>1, <2>2 DEF Going, Inv, TaskInv
    <3> QED BY <1>2, <2>1, <3>1 DEF Course
  <2>3. ASSUME NEW ok \in BOOLEAN, Ends(w, ok) PROVE Course(l)'
    <3>1. CASE w # l
      <4>1. handler'[l] = handler[l] /\ task'[l] = task[l]
        BY <1>1, <2>1, <2>3, <3>1, EndsStep
      <4> QED BY <1>2, <2>1, <4>1 DEF Course
    <3>2. CASE w = l
      <4> DEFINE h == handler[l]
                 g == handler'[l]
                 op == task[l].op
                 next == task'[l].op
      <4>1. g.kind = h.kind /\ g.spec = h.spec
        BY <1>1, <2>3, <3>2, EndsStep
      <4>2. /\ op = "add_subject" => h.kind = "create" /\ next = "save_user_metadata"
            /\ op = "save_user_metadata" => h.kind = "create" /\ next = "none"
            /\ op = "password" => h.kind = "update" /\ next \in {"quota", "none"}
            /\ op = "quota" => h.kind = "update" /\ next = "none"
            /\ op = "delete_ow_user" =>
                 h.kind = "delete" /\ next = "delete_user_metadata"
            /\ op = "delete_user_metadata" => h.kind = "delete" /\ next = "none"
            /\ op \in {"add_subject", "save_user_metadata", "password", "quota",
                       "delete_ow_user", "delete_user_metadata"}
            /\ g.todo = <<>>
        BY <1>1, <1>2, <2>1, <2>3, <3>2, Turns
      <4>3. /\ wsku[l] = "absent" => h.kind = "idle" /\ handled[l] = NoSpec
            /\ h.kind = "delete" => wsku[l] = "deleting"
            /\ h.kind # "idle" => h.spec \in Specs
            /\ attempt[l] # NoSpec => handled[l] # NoSpec
            /\ h.kind = "create" => handled[l] = NoSpec
            /\ h.kind = "update" => handled[l] # NoSpec /\ attempt[l] = h.spec
        BY <2>1 DEF Course
      <4> HIDE DEF h, g, op, next
      <4>4. /\ wsku[l] = "absent" => g.kind = "idle" /\ handled[l] = NoSpec
            /\ g.kind = "delete" => wsku[l] = "deleting"
            /\ g.kind # "idle" => g.spec \in Specs
            /\ attempt[l] # NoSpec => handled[l] # NoSpec
            /\ g.kind = "idle" => next = "none"
            /\ next = "none" => g.todo = <<>>
            /\ g.kind = "create" =>
                 handled[l] = NoSpec /\ next \in {"save_user_metadata", "none"}
            /\ g.kind = "update" =>
                 /\ handled[l] # NoSpec /\ attempt[l] = g.spec
                 /\ next \in {"quota", "none"}
            /\ g.kind = "delete" => next \in {"delete_user_metadata", "none"}
            /\ g.todo = <<>>
        BY <4>1, <4>2, <4>3
      <4> QED BY <1>2, <4>4 DEF Course, g, next
    <3> QED BY <3>1, <3>2
  <2> QED BY <1>2, <2>2, <2>3 DEF Served, Lost, Refused
<1> QED BY <1>3 DEF CourseInv

----------------------------------------------------------------------------
(* What others leave of the documents of a user.                           *)

\* The handler of l, what it does and what it has done are as before.
HandlerKept(l) ==
  /\ handler'[l] = handler[l] /\ task'[l].op = task[l].op
  /\ wsku'[l] = wsku[l] /\ handled'[l] = handled[l] /\ attempt'[l] = attempt[l]

\* More may have marred the documents of l than before.
MarksGrow(l) ==
  /\ marred[S(l)] \subseteq marred'[S(l)] /\ marred[M(l)] \subseteq marred'[M(l)]
  /\ "abandoned" \in marred'[M(l)] => "abandoned" \in marred[M(l)]

\* The metadata but for the variables, and the key of the subject, are as
\* before unless they are marred.
MetadataKept(l) ==
  marred'[M(l)] \cap {"overlap", "fault"} = {} =>
    /\ exists(M(l))' <=> exists(M(l))
    /\ exists(M(l)) =>
         /\ store'[M(l)].body.password = store[M(l)].body.password
         /\ store'[M(l)].body.quota = store[M(l)].body.quota
         /\ store'[M(l)].body.auth = store[M(l)].body.auth

SubjectKept(l) ==
  marred'[S(l)] \cap {"overlap", "admin"} = {} =>
    /\ exists(S(l))' <=> exists(S(l))
    /\ exists(S(l)) => store'[S(l)].body.key = store[S(l)].body.key

\* What holds of the user l goes on to hold.
LEMMA Bystander ==
  ASSUME NEW l \in Login, HandlerKept(l), MarksGrow(l), MetadataKept(l), SubjectKept(l),
         PasswordInv(l), AuthInv(l), GoneInv(l)
  PROVE  PasswordInv(l)' /\ AuthInv(l)' /\ GoneInv(l)'
<1>1. S(l)' = S(l) /\ M(l)' = M(l)
  BY DEF S, M
<1> DEFINE marks == marred'[M(l)]
           smarks == marred'[S(l)]
<1>2. PasswordInv(l)'
  <2> DEFINE specs == {handled[l], attempt[l]} \ {NoSpec}
             P == {s.password : s \in specs}
             Q == {s.quota : s \in specs}
  <2>1. ASSUME wsku[l] = "live", marks \cap {"overlap", "fault"} = {}
        PROVE  /\ marred[M(l)] \cap {"overlap", "fault"} = {}
               /\ exists(M(l)) =>
                    /\ exists(M(l))'
                    /\ store'[M(l)].body.password = store[M(l)].body.password
                    /\ store'[M(l)].body.quota = store[M(l)].body.quota
    BY <2>1 DEF MarksGrow, MetadataKept
  <2> SUFFICES ASSUME wsku[l] = "live", marks \cap {"overlap", "fault"} = {}
               PROVE
       /\ handled[l] # NoSpec /\ "abandoned" \notin marks =>
            /\ exists(M(l))' /\ store'[M(l)].body.password \in P
            /\ store'[M(l)].body.quota \in Q
            /\ handler[l].kind = "update" =>
                 /\ task[l].op # "password" =>
                      store'[M(l)].body.password = handler[l].spec.password
                 /\ task[l].op # "quota" /\ handler[l].todo # <<"quota">> =>
                      store'[M(l)].body.quota = handler[l].spec.quota
       /\ handler[l].kind = "create" /\ task[l].op = "none" =>
            /\ exists(M(l))' /\ store'[M(l)].body.password \in {handler[l].spec.password}
            /\ store'[M(l)].body.quota \in {handler[l].spec.quota}
    BY <1>1 DEF PasswordInv, MetadataOf, HandlerKept, exists
  <2>2. /\ handled[l] # NoSpec /\ "abandoned" \notin marks =>
             /\ MetadataOf(l, P, Q)
             /\ handler[l].kind = "update" =>
                  /\ task[l].op # "password" =>
                       store[M(l)].body.password = handler[l].spec.password
                  /\ task[l].op # "quota" /\ handler[l].todo # <<"quota">> =>
                       store[M(l)].body.quota = handler[l].spec.quota
        /\ handler[l].kind = "create" /\ task[l].op = "none" =>
             MetadataOf(l, {handler[l].spec.password}, {handler[l].spec.quota})
    BY <2>1 DEF PasswordInv, MarksGrow
  <2> HIDE DEF P, Q
  <2> QED BY <2>1, <2>2 DEF MetadataOf
<1>3. smarks \cap {"overlap", "admin"} = {} =>
        /\ marred[S(l)] \cap {"overlap", "admin"} = {}
        /\ \A key : AuthOf(l, key) =>
             (key # NoKey => exists(S(l))' /\ store'[S(l)].body.key = key)
  BY DEF MarksGrow, SubjectKept, AuthOf
<1>4. marks \cap {"overlap", "fault"} = {} =>
        /\ marred[M(l)] \cap {"overlap", "fault"} = {}
        /\ exists(M(l))' <=> exists(M(l))
        /\ exists(M(l)) => store'[M(l)].body.auth = store[M(l)].body.auth
  BY DEF MarksGrow, MetadataKept
<1>5. AuthInv(l)'
  BY <1>1, <1>3, <1>4 DEF AuthInv, AuthOf, HandlerKept, exists
<1>6. GoneInv(l)'
  <2>1. smarks \cap {"overlap", "fault", "admin"} = {} =>
          /\ marred[S(l)] \cap {"overlap", "fault", "admin"} = {}
          /\ exists(S(l))' <=> exists(S(l))
    BY DEF MarksGrow, SubjectKept
  <2>2. marks \cap {"overlap", "fault", "admin"} = {} =>
          /\ marred[M(l)] \cap {"overlap", "fault", "admin"} = {}
          /\ exists(M(l))' <=> exists(M(l))
    BY DEF MarksGrow, MetadataKept
  <2> QED BY <1>1, <2>1, <2>2 DEF GoneInv, HandlerKept, exists
<1> QED BY <1>2, <1>5, <1>6

----------------------------------------------------------------------------
(* What a request leaves of the documents of a user.                       *)

\* A request changes one document of one user.
LEMMA RequestPlace ==
  ASSUME IInv, HistoryType, NEW w \in Writer, Reads(w), Request(w),
         NEW l \in Login
  PROVE  /\ MarksGrow(l)
         /\ l # task[w].login \/ doc_of(w) # S(l) =>
              store'[S(l)] = store[S(l)] /\ marred'[S(l)] = marred[S(l)]
         /\ l # task[w].login \/ doc_of(w) # M(l) =>
              store'[M(l)] = store[M(l)] /\ marred'[M(l)] = marred[M(l)]
         /\ l # task[w].login => acked'[l] = acked[l] /\ barred'[l] = barred[l]
         /\ w # l => HandlerKept(l)
         /\ w \in Login => task[w].login = w
<1>1. Inv
  BY DEF IInv
<1>2. /\ UNCHANGED <<wsku, handled, attempt>> /\ Marks(w) /\ task[w].op # "none"
      /\ Going(w) \/ Served(w) \/ Lost(w) \/ Refused(w)
  BY RequestStep
<1>3. Kept \/ Stores(w)
  BY DEF Request, Find, Get, Write, Kept
<1>4. /\ doc_of(w) \in Doc /\ task[w].login \in Login
      /\ doc_of(w) \in {S(task[w].login), M(task[w].login)}
      /\ w \in Login => task[w].login = w
  BY <1>1, <1>2, TaskDocument DEF Operation, Templated, Deletes
<1>5. S(l) \in Doc /\ M(l) \in Doc /\ l \in Writer
  BY DEF S, M, Doc, Db, Writer
<1>6. l # task[w].login => doc_of(w) # S(l) /\ doc_of(w) # M(l)
  BY <1>4 DEF S, M
<1>7. \A e \in Doc : e # doc_of(w) => store'[e] = store[e] /\ marred'[e] = marred[e]
  BY <1>1, <1>2, <1>3, DocumentsGrow
<1>8. MarksGrow(l)
  <2>1. \A e \in Doc : marred[e] \subseteq marred'[e]
                        /\ ("abandoned" \in marred'[e] => "abandoned" \in marred[e])
    BY <1>2, <1>4 DEF Marks, HistoryType
  <2> QED BY <1>5, <2>1 DEF MarksGrow
<1>9. l # task[w].login => acked'[l] = acked[l] /\ barred'[l] = barred[l]
  BY <1>2 DEF Going, Served, Lost, Refused, Acknowledged, HistoryType
<1>10. ASSUME w # l PROVE HandlerKept(l)
  <2>1. handler'[l] = handler[l] /\ task'[l] = task[l]
    <3>1. CASE Going(w)
      BY <1>1, <1>5, <1>10, <3>1 DEF Going, Inv, TaskInv
    <3>2. ASSUME NEW ok \in BOOLEAN, Ends(w, ok)
          PROVE  handler'[l] = handler[l] /\ task'[l] = task[l]
      BY <1>1, <1>5, <1>10, <3>2, EndsStep
    <3> QED BY <1>2, <3>1, <3>2 DEF Served, Lost, Refused
  <2> QED BY <1>2, <2>1 DEF HandlerKept
<1> QED BY <1>4, <1>5, <1>6, <1>7, <1>8, <1>9, <1>10

\* An invocation keeps what it does not say it changes, unless it is marred.
LEMMA InvocationKeeps ==
  ASSUME IInv, HistoryType, NEW w \in Writer, w \notin Login, Reads(w), Request(w),
         NEW l \in Login
  PROVE  MetadataKept(l) /\ SubjectKept(l)
<1> DEFINE t == task[w]
           d == doc_of(w)
<1>1. Inv
  BY DEF IInv
<1>2. /\ t.op # "none"
      /\ Going(w) \/ Served(w) \/ Lost(w) \/ Refused(w)
  BY RequestStep
<1>3. /\ l # t.login \/ d # S(l) => store'[S(l)] = store[S(l)]
      /\ l # t.login \/ d # M(l) => store'[M(l)] = store[M(l)]
  BY RequestPlace
<1>4. /\ t.op \in AdminCommands \union {"env"} /\ d \in Doc
      /\ t.op \in AdminCommands => d = S(t.login)
      /\ t.op = "env" => d = M(t.login)
      /\ S(t.login) # M(t.login) /\ t.login \in Login
  BY <1>1, <1>2, TaskDocument DEF Updates
<1>5. (S(l))' = S(l) /\ (M(l))' = M(l)
  BY DEF S, M
<1>6. MetadataKept(l)
  <2>1. CASE l # t.login \/ d # M(l) \/ UNCHANGED store
    BY <1>3, <1>5, <2>1 DEF MetadataKept, exists
  <2>2. CASE l = t.login /\ d = M(l) /\ ~(UNCHANGED store)
    <3> SUFFICES ASSUME marred'[M(l)] \cap {"overlap", "fault"} = {}
                 PROVE  /\ exists(M(l))' <=> exists(M(l))
                        /\ exists(M(l)) =>
                             /\ store'[M(l)].body.password = store[M(l)].body.password
                             /\ store'[M(l)].body.quota = store[M(l)].body.quota
                             /\ store'[M(l)].body.auth = store[M(l)].body.auth
      BY DEF MetadataKept
    <3>1. Served(w)
      BY <1>2, <2>2 DEF Going, Lost, Refused, Kept
    <3>2. /\ t.at = "write" /\ Taken(w) /\ Stores(w)
          /\ causes(w) \subseteq marred'[M(l)]
      BY <1>4, <2>2, <3>1 DEF Served, HistoryType
    <3>3. t.op = "env"
      BY <1>4, <2>2
    <3>4. PICK old, new : old = store[d].body /\ new = store'[d].body
      OBVIOUS
    <3>5. t.op \in Updates /\ t.op \notin Deletes \union {"delete"}
      BY <3>3 DEF Updates, Deletes
    <3>6. "overlap" \notin causes(w)
      BY <3>2
    <3>7. /\ old \in Metadata /\ new # NoBody /\ new.auth = old.auth
          /\ new.password = old.password /\ new.quota = old.quota
      BY <3>2, <3>3, <3>4, <3>5, <3>6, Written
    <3>8. old # NoBody
      BY <3>7, SpecsAssumption DEF Body
    <3> QED BY <1>5, <2>2, <3>4, <3>7, <3>8 DEF exists
  <2> QED BY <2>1, <2>2
<1>7. SubjectKept(l)
  <2>1. CASE l # t.login \/ d # S(l) \/ UNCHANGED store
    BY <1>3, <1>5, <2>1 DEF SubjectKept, exists
  <2>2. CASE l = t.login /\ d = S(l) /\ ~(UNCHANGED store)
    <3> SUFFICES ASSUME marred'[S(l)] \cap {"overlap", "admin"} = {}
                 PROVE  /\ exists(S(l))' <=> exists(S(l))
                        /\ exists(S(l)) =>
                             store'[S(l)].body.key = store[S(l)].body.key
      BY DEF SubjectKept
    <3>1. t.op \in AdminCommands
      BY <1>4, <2>2
    <3>2. /\ t.at = "write" /\ Taken(w) /\ Stores(w)
          /\ causes(w) \subseteq marred'[S(l)]
      <4>1. CASE Served(w)
        BY <1>4, <2>2, <4>1 DEF Served, HistoryType
      <4>2. CASE Lost(w)
        BY <2>2, <4>2 DEF Lost, Kept
      <4> QED BY <1>2, <2>2, <4>1, <4>2 DEF Going, Refused
    <3>3. t.op \in {"block", "unblock"}
      BY <3>1, <3>2, WritersAssumption DEF causes
    <3>4. PICK old, new : old = store[d].body /\ new = store'[d].body
      OBVIOUS
    <3>5. t.op \notin Deletes \union {"delete"}
      BY <3>3 DEF Deletes
    <3>6. old \in Subject /\ new # NoBody /\ new.key = old.key
      BY <3>1, <3>2, <3>3, <3>4, <3>5, Written
    <3>7. old # NoBody
      BY <3>6, SpecsAssumption DEF Body
    <3> QED BY <1>5, <2>2, <3>4, <3>6, <3>7 DEF exists
  <2> QED BY <2>1, <2>2
<1> QED BY <1>6, <1>7

\* What is acknowledged of the variables is what is saved of them.
LEMMA SecretsRequest ==
  ASSUME IInv, HistoryType, NEW w \in Writer, Reads(w), Request(w),
         NEW l \in Login, SecretsInv(l)
  PROVE  SecretsInv(l)'
<1> DEFINE t == task[w]
           d == doc_of(w)
<1>1. Inv /\ M(l)' = M(l)
  BY DEF IInv, M
<1>2. /\ t.op # "none"
      /\ Going(w) \/ Served(w) \/ Lost(w) \/ Refused(w)
  BY RequestStep
<1>3. /\ marred[M(l)] \subseteq marred'[M(l)]
      /\ l # t.login \/ d # M(l) =>
           store'[M(l)] = store[M(l)] /\ marred'[M(l)] = marred[M(l)]
      /\ l # t.login => acked'[l] = acked[l]
  BY RequestPlace DEF MarksGrow
<1>4. /\ d \in Doc /\ t.op \in Operation /\ S(l) # M(l)
      /\ d = M(l) => t.op \in {"save_user_metadata", "delete_user_metadata"} \union Updates
  <2>1. /\ d \in Doc /\ t.op \in Operation
        /\ t.op \in {"add_subject", "delete_ow_user"} \union AdminCommands
             => d = S(t.login)
    BY <1>1, <1>2, TaskDocument
  <2>2. S(t.login) # M(l) /\ S(l) # M(l)
    BY DEF S, M
  <2> QED BY <2>1, <2>2 DEF Operation, Templated, Deletes
<1>5. acked \in [Login -> Env]
  BY DEF HistoryType
<1>6. CASE l # t.login \/ UNCHANGED <<store, acked>>
  BY <1>1, <1>3, <1>6 DEF SecretsInv, exists
<1>7. CASE Lost(w)
  <2>1. d # M(l) => UNCHANGED acked /\ store'[M(l)] = store[M(l)]
                    /\ marred'[M(l)] = marred[M(l)]
    BY <1>3, <1>7 DEF Lost
  <2>2. d = M(l) => marred'[M(l)] # {}
    BY <1>7 DEF Lost
  <2> QED BY <1>1, <2>1, <2>2 DEF SecretsInv, exists
<1>8. CASE l = t.login /\ Served(w)
  <2>1. /\ t.at = "write" /\ Taken(w) /\ Stores(w) /\ Acknowledged(w)
        /\ causes(w) \subseteq marred'[d]
    BY <1>4, <1>8 DEF Served, HistoryType
  <2>2. acked'[l] = IF t.op = "env" THEN acknowledged_env(acked[l], t.env)
                    ELSE IF t.op = "delete_user_metadata" THEN NoEnv ELSE acked[l]
    BY <1>5, <1>8, <2>1 DEF Acknowledged
  <2>3. CASE d # M(l)
    <3>1. t.op \notin {"env", "delete_user_metadata"}
      BY <1>1, <1>2, <1>8, <2>3, TaskDocument DEF Updates
    <3> QED BY <1>1, <1>3, <2>2, <2>3, <3>1 DEF SecretsInv, exists
  <2>4. CASE d = M(l)
    <3>1. PICK old, new : old = store[d].body /\ new = store'[d].body
      OBVIOUS
    <3> SUFFICES ASSUME marred'[M(l)] = {}
                 PROVE  acked'[l] = IF new # NoBody THEN new.userenv ELSE NoEnv
      BY <1>1, <2>4, <3>1 DEF SecretsInv, exists
    <3>2. /\ acked[l] = IF old # NoBody THEN old.userenv ELSE NoEnv
          /\ causes(w) = {}
      BY <1>3, <2>1, <2>4, <3>1 DEF SecretsInv, exists
    <3>3. "overlap" \notin causes(w)
      BY <3>2
    <3>4. NoBody \notin Metadata
      BY SpecsAssumption DEF Body
    <3>5. CASE t.op = "save_user_metadata"
      <4>1. ~exists(d) /\ t.op \notin AdminCommands /\ t.op \notin Deletes \union {"delete"}
        BY <3>2, <3>5, OperationKinds DEF causes, Templated
      <4>2. old = NoBody
        BY <3>1, <4>1 DEF exists
      <4>3. new.userenv = NoEnv /\ new # NoBody
        BY <2>1, <3>1, <3>3, <3>5, <4>1, Written
      <4> QED BY <2>2, <3>2, <3>5, <4>2, <4>3
    <3>6. CASE t.op \in {"password", "quota"}
      <4>1. /\ t.op \in Updates /\ t.op \notin Deletes \union {"delete"}
            /\ t.op # "env" /\ t.op # "delete_user_metadata"
        BY <3>6 DEF Updates, Deletes
      <4>2. old \in Metadata /\ new.userenv = old.userenv /\ new # NoBody
        BY <2>1, <3>1, <3>3, <4>1, Written
      <4> QED BY <2>2, <3>2, <3>4, <4>1, <4>2
    <3>7. CASE t.op = "env"
      <4>1. t.op \in Updates /\ t.op \notin Deletes \union {"delete"}
        BY <3>7 DEF Updates, Deletes
      <4>2. /\ old \in Metadata /\ t.env \in Envs /\ new # NoBody
            /\ new.userenv = handle_additional_env(old.userenv, t.env)
        BY <2>1, <3>1, <3>3, <3>7, <4>1, Written
      <4>3. acked[l] = old.userenv /\ acked[l] \in Env
        BY <1>5, <3>2, <3>4, <4>2
      <4> QED BY <2>2, <3>7, <4>2, <4>3, AcknowledgedEnv
    <3>8. CASE t.op = "delete_user_metadata"
      <4>1. t.op \in Deletes \union {"delete"}
        BY <3>8 DEF Deletes
      <4>2. new = NoBody
        BY <2>1, <3>1, <3>3, <4>1, Written
      <4> QED BY <2>2, <3>8, <4>2
    <3> QED BY <1>4, <2>4, <3>5, <3>6, <3>7, <3>8 DEF Updates
  <2> QED BY <2>3, <2>4
<1> QED BY <1>2, <1>6, <1>7, <1>8 DEF Going, Refused

\* wskadmin bars the subjects it blocks, and those only.
LEMMA BlockedRequest ==
  ASSUME IInv, HistoryType, NEW w \in Writer, Reads(w), Request(w),
         NEW l \in Login, BlockedInv(l)
  PROVE  BlockedInv(l)'
<1> DEFINE t == task[w]
           d == doc_of(w)
           none == {"again", "overlap", "fault"}
<1>1. Inv /\ S(l)' = S(l)
  BY DEF IInv, S
<1>2. /\ t.op # "none"
      /\ Going(w) \/ Served(w) \/ Lost(w) \/ Refused(w)
  BY RequestStep
<1>3. /\ marred[S(l)] \subseteq marred'[S(l)]
      /\ l # t.login \/ d # S(l) =>
           store'[S(l)] = store[S(l)] /\ marred'[S(l)] = marred[S(l)]
      /\ l # t.login => barred'[l] = barred[l]
  BY RequestPlace DEF MarksGrow
<1>4. /\ d \in Doc /\ t.op \in Operation
      /\ d = S(l) => t.op \in {"add_subject", "delete_ow_user"} \union AdminCommands
  <2>1. /\ d \in Doc /\ t.op \in Operation
        /\ t.op \in {"save_user_metadata", "delete_user_metadata"} \union Updates
             => d = M(t.login)
    BY <1>1, <1>2, TaskDocument
  <2>2. M(t.login) # S(l)
    BY DEF S, M
  <2> QED BY <2>1, <2>2 DEF Operation, Templated, Deletes
<1>5. barred \in [Login -> BOOLEAN]
  BY DEF HistoryType
<1>6. CASE l # t.login \/ UNCHANGED <<store, barred>>
  BY <1>1, <1>3, <1>6 DEF BlockedInv, exists
<1>7. CASE Lost(w)
  <2>1. d # S(l) => UNCHANGED barred /\ store'[S(l)] = store[S(l)]
                    /\ marred'[S(l)] = marred[S(l)]
    BY <1>3, <1>7 DEF Lost
  <2>2. d = S(l) => marred'[S(l)] \cap none # {}
    BY <1>7 DEF Lost
  <2> QED BY <1>1, <2>1, <2>2 DEF BlockedInv, exists
<1>8. CASE l = t.login /\ Served(w)
  <2>1. /\ t.at = "write" /\ Taken(w) /\ Stores(w) /\ Acknowledged(w)
        /\ causes(w) \subseteq marred'[d]
    BY <1>4, <1>8 DEF Served, HistoryType
  <2>2. barred'[l] = IF t.op = "block" THEN TRUE
                     ELSE IF t.op \in {"unblock", "delete", "delete_ow_user"}
                       THEN FALSE ELSE barred[l]
    BY <1>5, <1>8, <2>1 DEF Acknowledged
  <2>3. CASE d # S(l)
    <3>1. t.op \notin {"block", "unblock", "delete", "delete_ow_user"}
      <4>1. t.op \notin {"add_subject", "delete_ow_user"} \union AdminCommands
        BY <1>1, <1>2, <1>8, <2>3, TaskDocument
      <4> QED
        BY <1>4, <4>1 DEF Operation, Templated, Updates, Deletes
    <3> QED BY <1>1, <1>3, <2>2, <2>3, <3>1 DEF BlockedInv, exists
  <2>4. CASE d = S(l)
    <3>1. PICK old, new : old = store[d].body /\ new = store'[d].body
      OBVIOUS
    <3> SUFFICES ASSUME marred'[S(l)] \cap none = {}
                 PROVE  barred'[l] = (new # NoBody /\ new.blocked)
      BY <1>1, <2>4, <3>1 DEF BlockedInv, exists
    <3>2. /\ barred[l] = (old # NoBody /\ old.blocked)
          /\ causes(w) \cap none = {}
      BY <1>3, <2>1, <2>4, <3>1 DEF BlockedInv, exists
    <3>3. "overlap" \notin causes(w)
      BY <3>2
    <3>4. old \in Subject \union {NoBody}
      BY <1>1, <2>4, <3>1, BodyKinds
    <3>5. NoBody \notin Subject
      BY SpecsAssumption DEF Body
    <3>6. CASE t.op = "add_subject"
      <4>1. ~exists(d) /\ t.op \notin AdminCommands
        BY <3>2, <3>6, OperationKinds DEF causes, Templated
      <4>2. old = NoBody
        BY <3>1, <4>1 DEF exists
      <4>3. ~new.blocked
        BY <2>1, <3>1, <3>3, <3>6, Written
      <4> QED BY <2>2, <3>2, <3>6, <4>2, <4>3
    <3>7. CASE t.op \in {"delete_ow_user", "delete"}
      <4>1. t.op \in Deletes \union {"delete"}
        BY <3>7 DEF Deletes
      <4>2. new = NoBody
        BY <2>1, <3>1, <3>3, <4>1, Written
      <4> QED BY <2>2, <3>7, <4>2
    <3>8. CASE t.op = "create"
      <4>1. t.op \notin Deletes \union {"delete"}
        BY <3>8 DEF Deletes
      <4>2. /\ new # NoBody
            /\ old \in Subject /\ old # NoBody => new.blocked = old.blocked
            /\ old = NoBody => ~new.blocked
        BY <2>1, <3>1, <3>3, <3>8, <4>1, Written
      <4> QED BY <2>2, <3>2, <3>4, <3>5, <3>8, <4>2
    <3>9. CASE t.op \in {"block", "unblock"}
      <4>1. t.op \notin Deletes \union {"delete"}
        BY <3>9 DEF Deletes
      <4>2. new # NoBody /\ new.blocked = (t.op = "block")
        BY <2>1, <3>1, <3>3, <3>9, <4>1, Written
      <4> QED BY <2>2, <3>9, <4>2
    <3> QED BY <1>4, <2>4, <3>6, <3>7, <3>8, <3>9, OperationKinds
  <2> QED BY <2>3, <2>4
<1> QED BY <1>2, <1>6, <1>7, <1>8 DEF Going, Refused

\* What a handler gets done: its write is taken, or it finds no document to
\* edit or to remove, unless it is marred.
LEMMA OwnOutcome ==
  ASSUME IInv, HistoryType, NEW l \in Login, Reads(l), Request(l), Course(l), ~Going(l),
         NEW t, t = task[l], NEW d, d = doc_of(l), NEW h, h = handler[l],
         NEW g, g = handler'[l],
         NEW old, old = store[d].body, NEW new, new = store'[d].body
  PROVE  /\ g.kind = h.kind /\ g.spec = h.spec /\ g.todo = <<>> /\ h.spec \in Specs
         /\ wsku[l] # "absent" /\ t.op # "none"
         /\ wsku'[l] = wsku[l] /\ handled'[l] = handled[l] /\ attempt'[l] = attempt[l]
         /\ t.op # "add_subject" => g.auth = h.auth
         /\ t.op = "add_subject" =>
              /\ h.kind = "create" /\ task'[l].op = "save_user_metadata" /\ d = S(l)
              /\ g.auth # NoKey /\ "overlap" \notin marred'[d] =>
                   new # NoBody /\ new.key = g.auth
         /\ t.op = "save_user_metadata" =>
              /\ h.kind = "create" /\ task'[l].op = "none" /\ d = M(l)
              /\ marred'[d] \cap {"overlap", "fault"} = {} =>
                   /\ new # NoBody /\ new.password = h.spec.password
                   /\ new.quota = h.spec.quota /\ new.auth = h.auth
         /\ t.op \in {"password", "quota"} =>
              /\ h.kind = "update" /\ d = M(l)
              /\ \/ t.op = "password" /\ h.todo = <<"quota">> /\ task'[l].op = "quota"
                 \/ h.todo = <<>> /\ task'[l].op = "none"
              /\ marred'[d] \cap {"overlap", "fault"} = {} =>
                   \/ old = NoBody /\ new = NoBody
                   \/ /\ old # NoBody /\ new # NoBody /\ new.auth = old.auth
                      /\ new.password = IF t.op = "password" THEN h.spec.password
                                        ELSE old.password
                      /\ new.quota = IF t.op = "quota" THEN h.spec.quota ELSE old.quota
         /\ t.op \in Deletes =>
              /\ h.kind = "delete"
              /\ IF t.op = "delete_ow_user"
                   THEN d = S(l) /\ task'[l].op = "delete_user_metadata"
                   ELSE d = M(l) /\ task'[l].op = "none"
              /\ marred'[d] \cap {"overlap", "fault"} = {} => new = NoBody
         /\ t.op \in {"add_subject", "save_user_metadata", "password", "quota"}
              \union Deletes
<1>1. Inv /\ l \in Writer
  BY DEF IInv, Writer
<1>2. /\ UNCHANGED <<wsku, handled, attempt>> /\ t.op # "none"
      /\ Served(l) \/ Lost(l) \/ Refused(l)
  BY <1>1, RequestStep
<1>3. PICK ok \in BOOLEAN : Ends(l, ok) /\ (ok => Served(l))
  BY <1>2 DEF Served, Lost, Refused
<1>4. /\ g.kind = h.kind /\ g.spec = h.spec
      /\ g.auth = IF t.op = "add_subject" THEN auth_recorded(h, ok) ELSE h.auth
  BY <1>1, <1>3, EndsStep
<1>5. /\ t.op = "add_subject" => h.kind = "create" /\ task'[l].op = "save_user_metadata"
      /\ t.op = "save_user_metadata" => h.kind = "create" /\ task'[l].op = "none"
      /\ t.op = "password" =>
           /\ h.kind = "update"
           /\ \/ h.todo = <<"quota">> /\ task'[l].op = "quota"
              \/ h.todo = <<>> /\ task'[l].op = "none"
      /\ t.op = "quota" => h.kind = "update" /\ h.todo = <<>> /\ task'[l].op = "none"
      /\ t.op = "delete_ow_user" =>
           h.kind = "delete" /\ task'[l].op = "delete_user_metadata"
      /\ t.op = "delete_user_metadata" => h.kind = "delete" /\ task'[l].op = "none"
      /\ t.op \in {"add_subject", "save_user_metadata", "password", "quota",
                   "delete_ow_user", "delete_user_metadata"}
      /\ g.todo = <<>>
  BY <1>1, <1>2, <1>3, Turns
<1>6. h.kind # "idle" /\ h.spec \in Specs /\ wsku[l] # "absent"
  BY <1>2 DEF Course
<1>7. /\ t.login = l /\ d \in Doc
      /\ t.op \in {"add_subject", "delete_ow_user"} => d = S(l)
      /\ t.op \in {"save_user_metadata", "delete_user_metadata"} \union Updates => d = M(l)
  BY <1>1, <1>2, TaskDocument
<1>8. h.spec.auth \in Key /\ h.spec.auth # NoKey
  BY <1>6, SpecsAssumption DEF SpecType
<1>9. Served(l) => /\ t.at = "write" /\ Taken(l) /\ Stores(l)
                   /\ causes(l) \subseteq marred'[d]
  BY <1>7 DEF Served, HistoryType
<1>10. ASSUME Served(l), "overlap" \notin marred'[d]
       PROVE  /\ t.op = "save_user_metadata" =>
                   /\ new # NoBody /\ new.password = h.spec.password
                   /\ new.quota = h.spec.quota /\ new.auth = h.auth
              /\ t.op \in {"password", "quota"} =>
                   /\ old # NoBody /\ new # NoBody /\ new.auth = old.auth
                   /\ new.password = IF t.op = "password" THEN h.spec.password
                                     ELSE old.password
                   /\ new.quota = IF t.op = "quota" THEN h.spec.quota ELSE old.quota
              /\ t.op \in Deletes => new = NoBody
  <2>1. /\ t.at = "write" /\ Taken(l) /\ Stores(l) /\ "overlap" \notin causes(l)
    BY <1>9, <1>10
  <2>2. /\ t.op = "save_user_metadata" => t.op \notin Deletes \union {"delete"}
        /\ t.op \in {"password", "quota"} =>
             t.op \in Updates /\ t.op \notin Deletes \union {"delete"}
    BY DEF Updates, Deletes
  <2>3. t.op = "save_user_metadata" =>
          /\ new # NoBody /\ new.password = h.spec.password
          /\ new.quota = h.spec.quota /\ new.auth = h.auth
    BY <1>1, <1>7, <2>1, <2>2, Written
  <2>4. t.op \in Updates =>
          /\ old \in Metadata /\ new # NoBody /\ new.auth = old.auth
          /\ new.password = IF t.op = "password" THEN h.spec.password ELSE old.password
          /\ new.quota = IF t.op = "quota" THEN h.spec.quota ELSE old.quota
    <3>1. t.op \in Updates => t.op \notin Deletes \union {"delete"}
      BY OperationKinds
    <3> QED BY <1>1, <1>7, <2>1, <3>1, Written
  <2>5. t.op \in Deletes => new = NoBody
    BY <1>1, <1>7, <2>1, Written
  <2>6. NoBody \notin Metadata
    BY SpecsAssumption DEF Body
  <2> QED BY <2>2, <2>3, <2>4, <2>5, <2>6
<1>11. ASSUME Refused(l), "overlap" \notin marred'[d]
       PROVE  t.op \notin Templated /\ old = NoBody /\ new = NoBody
  BY <1>11 DEF Refused, exists
<1>12. "fault" \notin marred'[d] => Served(l) \/ Refused(l)
  BY <1>2 DEF Lost
<1>13. t.op = "add_subject" /\ g.auth # NoKey /\ "overlap" \notin marred'[d] =>
         new # NoBody /\ new.key = g.auth
  <2> SUFFICES ASSUME t.op = "add_subject", g.auth # NoKey, "overlap" \notin marred'[d]
               PROVE  new # NoBody /\ new.key = g.auth
    OBVIOUS
  <2>1. Served(l) /\ g.auth = h.spec.auth
    BY <1>3, <1>4 DEF auth_recorded
  <2>2. t.at = "write" /\ Taken(l) /\ Stores(l) /\ "overlap" \notin causes(l)
    BY <1>9, <2>1
  <2>3. t.op \notin Deletes \union {"delete"}
    BY DEF Deletes
  <2> QED BY <1>1, <1>7, <2>1, <2>2, <2>3, Written
<1> QED
  BY <1>2, <1>4, <1>5, <1>6, <1>7, <1>10, <1>11, <1>12, <1>13
  DEF Templated, Deletes, Updates

\* A handler that goes on knows what it has done.
LEMMA OwnRequest ==
  ASSUME IInv, HistoryType, NEW l \in Login, Reads(l), Request(l), Course(l), ~Going(l),
         PasswordInv(l), AuthInv(l), GoneInv(l)
  PROVE  PasswordInv(l)' /\ AuthInv(l)' /\ GoneInv(l)'
<1>1. PICK t, d, h, g, op : /\ t = task[l] /\ d = doc_of(l) /\ h = handler[l]
                            /\ g = handler'[l] /\ op = task'[l].op
  OBVIOUS
<1>2. PICK old, new : old = store[d].body /\ new = store'[d].body
  OBVIOUS
<1>3. l \in Writer /\ IInv
  BY DEF Writer
<1>4. /\ MarksGrow(l)
      /\ d # S(l) => store'[S(l)] = store[S(l)] /\ marred'[S(l)] = marred[S(l)]
      /\ d # M(l) => store'[M(l)] = store[M(l)] /\ marred'[M(l)] = marred[M(l)]
  BY <1>1, <1>3, RequestPlace
<1>5. /\ g.kind = h.kind /\ g.spec = h.spec /\ g.todo = <<>> /\ h.spec \in Specs
      /\ wsku[l] # "absent" /\ t.op # "none"
      /\ wsku'[l] = wsku[l] /\ handled'[l] = handled[l] /\ attempt'[l] = attempt[l]
      /\ t.op # "add_subject" => g.auth = h.auth
  BY <1>1, <1>2, OwnOutcome
<1>6. S(l)' = S(l) /\ M(l)' = M(l) /\ S(l) # M(l)
  BY DEF S, M
<1>7. t.op \in {"add_subject", "save_user_metadata", "password", "quota"} \union Deletes
  BY <1>1, <1>2, OwnOutcome
<1>8. /\ wsku[l] = "absent" => h.kind = "idle" /\ handled[l] = NoSpec
      /\ h.kind = "delete" => wsku[l] = "deleting"
      /\ h.kind = "create" => handled[l] = NoSpec
      /\ h.kind = "update" => handled[l] # NoSpec /\ attempt[l] = h.spec
  BY <1>1 DEF Course
<1>9. CASE t.op = "add_subject"
  <2>1. /\ h.kind = "create" /\ op = "save_user_metadata" /\ d = S(l)
        /\ g.auth # NoKey /\ "overlap" \notin marred'[d] => new # NoBody /\ new.key = g.auth
    BY <1>1, <1>2, <1>9, OwnOutcome
  <2>2. PasswordInv(l)'
    BY <1>1, <1>5, <1>8, <2>1 DEF PasswordInv
  <2>3. AuthInv(l)'
    BY <1>1, <1>2, <1>5, <1>6, <1>8, <2>1 DEF AuthInv, AuthOf, exists
  <2>4. GoneInv(l)'
    BY <1>1, <1>5, <2>1 DEF GoneInv
  <2> QED BY <2>2, <2>3, <2>4
<1>10. CASE t.op = "save_user_metadata"
  <2>1. /\ h.kind = "create" /\ op = "none" /\ d = M(l) /\ g.auth = h.auth
        /\ marred'[d] \cap {"overlap", "fault"} = {} =>
             /\ new # NoBody /\ new.password = h.spec.password
             /\ new.quota = h.spec.quota /\ new.auth = h.auth
    BY <1>1, <1>2, <1>5, <1>10, OwnOutcome
  <2>2. PasswordInv(l)'
    BY <1>1, <1>2, <1>5, <1>6, <1>8, <2>1 DEF PasswordInv, MetadataOf, exists
  <2>3. AuthInv(l)'
    BY <1>1, <1>2, <1>4, <1>5, <1>6, <1>8, <2>1 DEF AuthInv, AuthOf, exists
  <2>4. GoneInv(l)'
    BY <1>1, <1>5, <2>1 DEF GoneInv
  <2> QED BY <2>2, <2>3, <2>4
<1>11. CASE t.op \in {"password", "quota"}
  <2>1. /\ h.kind = "update" /\ d = M(l) /\ g.auth = h.auth
        /\ \/ t.op = "password" /\ h.todo = <<"quota">> /\ op = "quota"
           \/ h.todo = <<>> /\ op = "none"
        /\ marred'[d] \cap {"overlap", "fault"} = {} =>
             \/ old = NoBody /\ new = NoBody
             \/ /\ old # NoBody /\ new # NoBody /\ new.auth = old.auth
                /\ new.password = IF t.op = "password" THEN h.spec.password
                                  ELSE old.password
                /\ new.quota = IF t.op = "quota" THEN h.spec.quota ELSE old.quota
    <3>1. h.kind = "update" /\ d = M(l) /\ g.auth = h.auth
      BY <1>1, <1>2, <1>5, <1>11, OwnOutcome
    <3>2. \/ t.op = "password" /\ h.todo = <<"quota">> /\ op = "quota"
          \/ h.todo = <<>> /\ op = "none"
      <4>1. /\ t.op = "password" => \/ h.todo = <<"quota">> /\ op = "quota"
                                    \/ h.todo = <<>> /\ op = "none"
            /\ t.op = "quota" => h.todo = <<>> /\ op = "none"
        <5>1. PICK ok \in BOOLEAN : Ends(l, ok)
          BY <1>3, RequestStep DEF Served, Lost, Refused
        <5> QED BY <1>1, <1>3, <1>5, <5>1, Turns DEF IInv
      <4> QED BY <1>11, <4>1
    <3>3. marred'[d] \cap {"overlap", "fault"} = {} =>
             \/ old = NoBody /\ new = NoBody
             \/ /\ old # NoBody /\ new # NoBody /\ new.auth = old.auth
                /\ new.password = IF t.op = "password" THEN h.spec.password
                                  ELSE old.password
                /\ new.quota = IF t.op = "quota" THEN h.spec.quota ELSE old.quota
      BY <1>1, <1>2, <1>11, OwnOutcome
    <3> QED BY <3>1, <3>2, <3>3
  <2>2. PasswordInv(l)'
    <3> DEFINE specs == {handled[l], attempt[l]} \ {NoSpec}
    <3> SUFFICES ASSUME wsku[l] = "live", marred'[M(l)] \cap {"overlap", "fault"} = {},
                        "abandoned" \notin marred'[M(l)]
                 PROVE  /\ new # NoBody
                        /\ new.password \in {s.password : s \in specs}
                        /\ new.quota \in {s.quota : s \in specs}
                        /\ op # "password" => new.password = h.spec.password
                        /\ op # "quota" => new.quota = h.spec.quota
      BY <1>1, <1>2, <1>5, <1>6, <2>1 DEF PasswordInv, MetadataOf, exists
    <3>1. /\ old # NoBody
          /\ old.password \in {s.password : s \in specs}
          /\ old.quota \in {s.quota : s \in specs}
          /\ t.op # "password" => old.password = h.spec.password
          /\ t.op # "quota" /\ h.todo # <<"quota">> => old.quota = h.spec.quota
      BY <1>1, <1>2, <1>4, <1>8, <2>1 DEF PasswordInv, MetadataOf, exists, MarksGrow
    <3>2. h.spec \in specs
      BY <1>5, <1>8, <2>1, SpecsAssumption
    <3>3. /\ new # NoBody
          /\ new.password = IF t.op = "password" THEN h.spec.password ELSE old.password
          /\ new.quota = IF t.op = "quota" THEN h.spec.quota ELSE old.quota
      BY <2>1, <3>1
    <3> HIDE DEF specs
    <3>4. /\ new.password \in {s.password : s \in specs}
          /\ new.quota \in {s.quota : s \in specs}
      BY <3>1, <3>2, <3>3
    <3>5. op # "password" => new.password = h.spec.password
      BY <3>1, <3>3
    <3>6. op # "quota" => new.quota = h.spec.quota
      <4>1. <<>> # <<"quota">>
        OBVIOUS
      <4> QED BY <1>11, <2>1, <3>1, <3>3, <4>1
    <3> QED BY <3>3, <3>4, <3>5, <3>6
  <2>3. AuthInv(l)'
    BY <1>1, <1>2, <1>4, <1>5, <1>6, <2>1 DEF AuthInv, AuthOf, exists, MarksGrow
  <2>4. GoneInv(l)'
    BY <1>1, <1>5, <2>1 DEF GoneInv
  <2> QED BY <2>2, <2>3, <2>4
<1>12. CASE t.op \in Deletes
  <2>1. /\ h.kind = "delete"
        /\ IF t.op = "delete_ow_user" THEN d = S(l) /\ op = "delete_user_metadata"
           ELSE d = M(l) /\ op = "none"
        /\ marred'[d] \cap {"overlap", "fault"} = {} => new = NoBody
    BY <1>1, <1>2, <1>12, OwnOutcome
  <2>2. wsku'[l] = "deleting" /\ g.kind = "delete"
    BY <1>5, <1>8, <2>1
  <2>3. PasswordInv(l)' /\ AuthInv(l)'
    BY <2>2 DEF PasswordInv, AuthInv
  <2>4. ASSUME t.op = "delete_ow_user" PROVE GoneInv(l)'
    <3>1. d = S(l) /\ task'[l].op = "delete_user_metadata" /\ handler'[l].kind = "delete"
      BY <1>1, <2>1, <2>2, <2>4
    <3>2. marred'[S(l)] \cap {"overlap", "fault", "admin"} = {} => store'[S(l)].body = NoBody
      BY <1>2, <2>1, <3>1
    <3> QED BY <1>6, <2>2, <3>1, <3>2 DEF GoneInv, exists
  <2>5. ASSUME t.op # "delete_ow_user" PROVE GoneInv(l)'
    <3>1. d = M(l) /\ task'[l].op = "none" /\ handler'[l].kind = "delete"
      BY <1>1, <2>1, <2>2, <2>5
    <3>2. marred'[M(l)] \cap {"overlap", "fault", "admin"} = {} => store'[M(l)].body = NoBody
      BY <1>2, <2>1, <3>1
    <3>3. marred'[S(l)] \cap {"overlap", "fault", "admin"} = {} => store'[S(l)].body = NoBody
      <4>1. store'[S(l)] = store[S(l)] /\ marred'[S(l)] = marred[S(l)]
        BY <1>4, <1>6, <3>1
      <4>2. handler[l].kind = "delete" /\ task[l].op # "delete_ow_user"
        BY <1>1, <2>1, <2>5
      <4> QED BY <4>1, <4>2 DEF GoneInv, exists
    <3> QED BY <1>6, <2>2, <3>1, <3>2, <3>3 DEF GoneInv, exists
  <2> QED BY <2>3, <2>4, <2>5
<1> QED BY <1>7, <1>9, <1>10, <1>11, <1>12

\* A request keeps what is promised of every user.
LEMMA UsersRequest ==
  ASSUME IInv, HistoryType, ReadsInv, CourseInv, UsersInv, NEW w \in Writer, Request(w)
  PROVE  UsersInv'
<1>1. Inv /\ Reads(w)
  BY DEF IInv, ReadsInv
<1> SUFFICES ASSUME NEW l \in Login PROVE UserInv(l)'
  BY DEF UsersInv
<1>2. UserInv(l) /\ Course(l)
  BY DEF UsersInv, CourseInv
<1>3. SecretsInv(l)' /\ BlockedInv(l)'
  BY <1>1, <1>2, SecretsRequest, BlockedRequest DEF UserInv
<1>4. /\ MarksGrow(l) /\ (w # l => HandlerKept(l))
      /\ w \in Login => task[w].login = w
      /\ l # task[w].login => store'[S(l)] = store[S(l)] /\ store'[M(l)] = store[M(l)]
  BY <1>1, RequestPlace
<1>5. (store'[S(l)] = store[S(l)] /\ store'[M(l)] = store[M(l)])
        => MetadataKept(l) /\ SubjectKept(l)
  <2>1. S(l)' = S(l) /\ M(l)' = M(l)
    BY DEF S, M
  <2> QED BY <2>1 DEF MetadataKept, SubjectKept, exists
<1>6. PasswordInv(l)' /\ AuthInv(l)' /\ GoneInv(l)'
  <2>1. CASE w = l /\ ~Going(l)
    BY <1>1, <1>2, <2>1, OwnRequest DEF UserInv
  <2>2. CASE w = l /\ Going(l)
    <3>1. HandlerKept(l)
      BY <1>1, <2>2, RequestStep DEF Going, HandlerKept, Inv, TaskInv
    <3> QED
      BY <1>2, <1>4, <1>5, <2>2, <3>1, Bystander DEF Going, UserInv
  <2>3. CASE w # l /\ w \in Login
    BY <1>2, <1>4, <1>5, <2>3, Bystander DEF UserInv
  <2>4. CASE w \notin Login
    BY <1>1, <1>2, <1>4, <2>4, InvocationKeeps, Bystander DEF UserInv
  <2> QED BY <2>1, <2>2, <2>3, <2>4
<1> QED BY <1>3, <1>6 DEF UserInv

----------------------------------------------------------------------------
(* The steps that are not requests.                                        *)

\* The documents and what is said of them are as before; more may have marred
\* them.
Quiet ==
  /\ UNCHANGED <<store, acked, barred>>
  /\ \A d \in Doc : marred[d] \subseteq marred'[d]
  /\ \A l \in Login : MarksGrow(l)

LEMMA QuietMarks ==
  ASSUME UNCHANGED <<store, acked, barred, marred>>
  PROVE  Quiet
<1>1. \A l \in Login : MarksGrow(l)
  BY DEF MarksGrow
<1> QED BY <1>1 DEF Quiet

LEMMA ReadsQuiet ==
  ASSUME Inv, ReadsInv, Quiet,
         \A w \in Writer : \/ task'[w] = task[w] \/ task'[w] = Idle
                           \/ \E op, l, key, env : task'[w] = begun(op, l, key, env)
  PROVE  ReadsInv'
<1>1. ASSUME NEW w \in Writer PROVE Reads(w)'
  <2>1. CASE task'[w] = task[w]
    <3>1. task[w].op # "none" => doc_of(w) \in Doc
      BY TaskDocument
    <3>2. task[w].op # "none" =>
             /\ store'[doc_of(w)] = store[doc_of(w)]
             /\ marred[doc_of(w)] \subseteq marred'[doc_of(w)]
      BY <3>1 DEF Quiet
    <3> QED BY <2>1, <3>2, ReadsLater DEF ReadsInv
  <2>2. CASE task'[w] = Idle \/ \E op, l, key, env : task'[w] = begun(op, l, key, env)
    BY <2>2, ReadsNothing
  <2> QED BY <2>1, <2>2
<1> QED BY <1>1 DEF ReadsInv

LEMMA DocumentsQuiet ==
  ASSUME Quiet, NEW l \in Login
  PROVE  /\ SecretsInv(l) => SecretsInv(l)'
         /\ BlockedInv(l) => BlockedInv(l)'
         /\ MetadataKept(l) /\ SubjectKept(l) /\ MarksGrow(l)
<1>1. S(l)' = S(l) /\ M(l)' = M(l)
  BY DEF S, M
<1>2. MarksGrow(l) /\ UNCHANGED <<store, acked, barred>>
  BY DEF Quiet
<1>3. SecretsInv(l) => SecretsInv(l)'
  BY <1>1, <1>2 DEF SecretsInv, MarksGrow, exists
<1>4. BlockedInv(l) => BlockedInv(l)'
  BY <1>1, <1>2 DEF BlockedInv, MarksGrow, exists
<1>5. MetadataKept(l) /\ SubjectKept(l)
  BY <1>1, <1>2 DEF MetadataKept, SubjectKept, exists
<1> QED BY <1>2, <1>3, <1>4, <1>5

\* A step that is of no handler of l, and quiet, keeps what is promised of l.
LEMMA UserQuiet ==
  ASSUME Quiet, NEW l \in Login, HandlerKept(l), UserInv(l), Course(l)
  PROVE  UserInv(l)' /\ Course(l)'
<1>1. UserInv(l)'
  BY DocumentsQuiet, Bystander DEF UserInv
<1>2. Course(l)'
  BY DEF Course, HandlerKept
<1> QED BY <1>1, <1>2

\* A step of the handler of l alone.
LEMMA OneQuiet ==
  ASSUME Quiet, NEW l \in Login, UsersInv, CourseInv,
         \A k \in Login \ {l} : HandlerKept(k),
         PasswordInv(l)', AuthInv(l)', GoneInv(l)', Course(l)'
  PROVE  UsersInv' /\ CourseInv'
<1>1. \A k \in Login : UserInv(k) /\ Course(k)
  BY DEF UsersInv, CourseInv
<1>2. \A k \in Login \ {l} : UserInv(k)' /\ Course(k)'
  BY <1>1, UserQuiet
<1>3. UserInv(l)'
  BY <1>1, DocumentsQuiet DEF UserInv
<1>4. \A k \in Login : UserInv(k)' /\ Course(k)'
  BY <1>2, <1>3
<1> QED BY <1>4 DEF UsersInv, CourseInv

LEMMA ApplyUserStep ==
  ASSUME IInv, HistoryType, UsersInv, CourseInv,
         NEW l \in Login, NEW s \in Specs, ApplyUser(l, s)
  PROVE  UsersInv' /\ CourseInv' /\ Quiet
<1>1. /\ UNCHANGED <<handled, handler, task, store, acked, barred, marred, attempt>>
      /\ wsku[l] # "deleting" /\ wsku' = [wsku EXCEPT ![l] = "live"]
  BY DEF ApplyUser, historyVars
<1>2. Quiet
  BY <1>1, QuietMarks
<1>3. /\ \A k \in Login \ {l} : HandlerKept(k)
      /\ wsku'[l] = "live" /\ wsku[l] \in {"absent", "live"}
  BY <1>1 DEF HandlerKept, IInv, Inv, HandlerInv
<1>4. UserInv(l) /\ Course(l)
  BY DEF UsersInv, CourseInv
<1>5. CASE wsku[l] = "live"
  <2>1. HandlerKept(l)
    BY <1>1, <1>3, <1>5 DEF HandlerKept
  <2> QED BY <1>2, <1>3, <1>4, <2>1, UserQuiet, OneQuiet DEF UserInv
<1>6. CASE wsku[l] = "absent"
  <2>1. handler'[l].kind = "idle" /\ handled'[l] = NoSpec
    BY <1>1, <1>4, <1>6 DEF Course
  <2>2. Course(l)'
    BY <1>1, <1>3, <1>4, <2>1 DEF Course
  <2>3. PasswordInv(l)' /\ AuthInv(l)'
    BY <2>1 DEF PasswordInv, AuthInv
  <2>4. GoneInv(l)'
    BY <1>3, <2>1 DEF GoneInv
  <2> QED BY <1>2, <1>3, <2>2, <2>3, <2>4, OneQuiet
<1> QED BY <1>3, <1>5, <1>6

LEMMA DeleteUserStep ==
  ASSUME IInv, HistoryType, UsersInv, CourseInv, NEW l \in Login, DeleteUser(l)
  PROVE  UsersInv' /\ CourseInv' /\ Quiet
<1>1. /\ UNCHANGED <<handled, handler, task, store, acked, barred, marred, attempt>>
      /\ wsku[l] = "live" /\ wsku' = [wsku EXCEPT ![l] = "deleting"]
  BY DEF DeleteUser, historyVars
<1>2. Quiet
  BY <1>1, QuietMarks
<1>3. (\A k \in Login \ {l} : HandlerKept(k)) /\ wsku'[l] = "deleting"
  BY <1>1 DEF HandlerKept, IInv, Inv, HandlerInv
<1>4. UserInv(l) /\ Course(l)
  BY DEF UsersInv, CourseInv
<1>5. Course(l)'
  BY <1>1, <1>3, <1>4 DEF Course
<1>6. PasswordInv(l)' /\ AuthInv(l)'
  BY <1>3 DEF PasswordInv, AuthInv
<1>7. GoneInv(l)'
  <2>1. handler'[l].kind # "delete"
    BY <1>1, <1>4 DEF Course
  <2> QED BY <1>3, <2>1 DEF GoneInv
<1> QED BY <1>2, <1>3, <1>5, <1>6, <1>7, OneQuiet

\* What changes when a handler is started.
LEMMA StartQuiet ==
  ASSUME IInv, NEW l \in Login, NEW kind, NEW todo, StartHandler(l, kind, todo)
  PROVE  /\ \A w \in Writer : \/ task'[w] = task[w] \/ task'[w] = Idle
                              \/ \E op, k, key, env : task'[w] = begun(op, k, key, env)
         /\ \A k \in Login \ {l} : handler'[k] = handler[k] /\ task'[k] = task[k]
         /\ handler'[l].kind = kind /\ handler'[l].spec = spec[l] /\ handler'[l].auth = NoKey
         /\ IF todo = <<>> THEN task'[l].op = "none" /\ handler'[l].todo = <<>>
            ELSE task'[l].op = Head(todo) /\ handler'[l].todo = Tail(todo)
<1>1. Inv /\ Login \subseteq Writer
  BY DEF IInv, Writer
<1>2. /\ \A v \in Writer \ {l} : task'[v] = task[v]
      /\ \A k \in Login \ {l} : handler'[k] = handler[k]
      /\ handler'[l].kind = kind /\ handler'[l].spec = spec[l] /\ handler'[l].auth = NoKey
      /\ IF todo = <<>>
           THEN task'[l] = Idle /\ handler'[l].todo = <<>>
           ELSE task'[l] = begun(Head(todo), l, NoKey, <<>>) /\ handler'[l].todo = Tail(todo)
  BY <1>1, StartStep
<1>3. /\ begun(Head(todo), l, NoKey, <<>>).op = Head(todo) /\ Idle.op = "none"
  BY BegunOp
<1>4. ASSUME NEW w \in Writer
      PROVE  \/ task'[w] = task[w] \/ task'[w] = Idle
             \/ \E op, k, key, env : task'[w] = begun(op, k, key, env)
  BY <1>2
<1> QED BY <1>1, <1>2, <1>3, <1>4

LEMMA CreateStep ==
  ASSUME IInv, HistoryType, ReadsInv, UsersInv, CourseInv,
         NEW l \in Login, whisk_user_create(l)
  PROVE  UsersInv' /\ CourseInv' /\ ReadsInv'
<1>1. PICK h, todo : h = handler'[l] /\ todo = <<"add_subject", "save_user_metadata">>
  OBVIOUS
<1>2. /\ UNCHANGED <<wsku, spec, handled, store, acked, barred, marred, attempt>>
      /\ wsku[l] = "live" /\ handled[l] = NoSpec
      /\ StartHandler(l, "create", todo)
  BY <1>1 DEF whisk_user_create, historyVars
<1>3. Quiet
  BY <1>2, QuietMarks
<1>4. /\ todo # <<>> /\ Head(todo) = "add_subject" /\ Tail(todo) = <<"save_user_metadata">>
  BY <1>1
<1>5. /\ \A w \in Writer : \/ task'[w] = task[w] \/ task'[w] = Idle
                           \/ \E op, k, key, env : task'[w] = begun(op, k, key, env)
      /\ \A k \in Login \ {l} : handler'[k] = handler[k] /\ task'[k] = task[k]
      /\ h.kind = "create" /\ h.spec = spec[l] /\ h.auth = NoKey
      /\ task'[l].op = "add_subject" /\ h.todo = <<"save_user_metadata">>
  <2>1. PICK kind : kind = "create"
    OBVIOUS
  <2>2. StartHandler(l, kind, todo)
    BY <1>2, <2>1
  <2>3. /\ \A w \in Writer : \/ task'[w] = task[w] \/ task'[w] = Idle
                             \/ \E op, k, key, env : task'[w] = begun(op, k, key, env)
        /\ \A k \in Login \ {l} : handler'[k] = handler[k] /\ task'[k] = task[k]
        /\ handler'[l].kind = kind /\ handler'[l].spec = spec[l]
        /\ handler'[l].auth = NoKey
        /\ IF todo = <<>> THEN task'[l].op = "none" /\ handler'[l].todo = <<>>
           ELSE task'[l].op = Head(todo) /\ handler'[l].todo = Tail(todo)
    BY <2>2, StartQuiet
  <2> QED BY <1>1, <1>4, <2>1, <2>3
<1>6. \A k \in Login \ {l} : HandlerKept(k)
  BY <1>2, <1>5 DEF HandlerKept
<1>7. UserInv(l) /\ Course(l) /\ spec[l] \in Specs
  BY <1>2 DEF UsersInv, CourseInv, IInv, Inv, HandlerInv
<1>8. Course(l)'
  BY <1>1, <1>2, <1>5, <1>7 DEF Course
<1>9. PasswordInv(l)' /\ AuthInv(l)' /\ GoneInv(l)'
  <2>1. PasswordInv(l)'
    BY <1>1, <1>2, <1>5 DEF PasswordInv
  <2>2. AuthInv(l)'
    BY <1>1, <1>2, <1>5 DEF AuthInv, AuthOf
  <2>3. GoneInv(l)'
    BY <1>1, <1>2, <1>5 DEF GoneInv
  <2> QED BY <2>1, <2>2, <2>3
<1>10. ReadsInv'
  BY <1>3, <1>5, ReadsQuiet DEF IInv
<1> QED BY <1>3, <1>6, <1>8, <1>9, <1>10, OneQuiet

LEMMA DeleteStep ==
  ASSUME IInv, HistoryType, ReadsInv, UsersInv, CourseInv,
         NEW l \in Login, whisk_user_delete(l)
  PROVE  UsersInv' /\ CourseInv' /\ ReadsInv'
<1>1. PICK h, todo : h = handler'[l] /\ todo = delete_steps(spec[l])
  OBVIOUS
<1>2. /\ UNCHANGED <<wsku, spec, handled, store, acked, barred, marred, attempt>>
      /\ wsku[l] = "deleting" /\ StartHandler(l, "delete", todo)
  BY <1>1 DEF whisk_user_delete, historyVars
<1>3. Quiet
  BY <1>2, QuietMarks
<1>4. /\ todo # <<>> /\ Head(todo) = "delete_ow_user"
      /\ Tail(todo) = <<"delete_user_metadata">>
  BY <1>1 DEF delete_steps
<1>5. /\ \A w \in Writer : \/ task'[w] = task[w] \/ task'[w] = Idle
                           \/ \E op, k, key, env : task'[w] = begun(op, k, key, env)
      /\ \A k \in Login \ {l} : handler'[k] = handler[k] /\ task'[k] = task[k]
      /\ h.kind = "delete" /\ h.spec = spec[l]
      /\ task'[l].op = "delete_ow_user" /\ h.todo = <<"delete_user_metadata">>
  BY <1>1, <1>2, <1>4, StartQuiet
<1>6. \A k \in Login \ {l} : HandlerKept(k)
  BY <1>2, <1>5 DEF HandlerKept
<1>7. UserInv(l) /\ Course(l) /\ spec[l] \in Specs
  BY <1>2 DEF UsersInv, CourseInv, IInv, Inv, HandlerInv
<1>8. Course(l)'
  BY <1>1, <1>2, <1>5, <1>7 DEF Course
<1>9. PasswordInv(l)' /\ AuthInv(l)'
  BY <1>2 DEF PasswordInv, AuthInv
<1>10. GoneInv(l)'
  BY <1>1, <1>2, <1>5 DEF GoneInv
<1>11. ReadsInv'
  BY <1>3, <1>5, ReadsQuiet DEF IInv
<1> QED BY <1>3, <1>6, <1>8, <1>9, <1>10, <1>11, OneQuiet

\* What an update has to do.
LEMMA WhatToDo ==
  ASSUME NEW old, NEW new
  PROVE  LET todo == what_to_do(old, new)
         IN \/ /\ todo = <<>>
               /\ old.password = new.password /\ old.quota = new.quota
            \/ /\ todo # <<>> /\ Head(todo) = "password" /\ Tail(todo) = <<>>
               /\ old.quota = new.quota
            \/ /\ todo # <<>> /\ Head(todo) = "password" /\ Tail(todo) = <<"quota">>
            \/ /\ todo # <<>> /\ Head(todo) = "quota" /\ Tail(todo) = <<>>
               /\ old.password = new.password
<1> DEFINE todo == what_to_do(old, new)
<1>1. CASE old.password = new.password /\ old.quota = new.quota
  <2>1. todo = <<>> \o <<>>
    BY <1>1 DEF what_to_do
  <2> QED BY <1>1, <2>1
<1>2. CASE old.password # new.password /\ old.quota = new.quota
  <2>1. todo = <<"password">> \o <<>>
    BY <1>2 DEF what_to_do
  <2>2. todo = <<"password">>
    BY <2>1
  <2> QED BY <1>2, <2>2
<1>3. CASE old.password # new.password /\ old.quota # new.quota
  <2>1. todo = <<"password">> \o <<"quota">>
    BY <1>3 DEF what_to_do
  <2>2. <<"password">> \o <<"quota">> = <<"password", "quota">>
    <3> DEFINE T == {"password", "quota"}
               c == <<"password">> \o <<"quota">>
    <3>1. <<"password">> \in Seq(T) /\ <<"quota">> \in Seq(T)
      OBVIOUS
    <3>2. c \in Seq(T) /\ Len(c) = 2 /\ c[1] = "password" /\ c[2] = "quota"
      BY <3>1
    <3>3. <<"password", "quota">> \in Seq(T) /\ Len(<<"password", "quota">>) = 2
      OBVIOUS
    <3>4. \A i \in 1 .. Len(c) : c[i] = <<"password", "quota">>[i]
      BY <3>2
    <3> HIDE DEF c
    <3>5. PICK q : q = <<"password", "quota">>
      OBVIOUS
    <3> QED BY <3>2, <3>3, <3>4, <3>5, SeqEqual DEF c
  <2>3. todo = <<"password", "quota">>
    BY <2>1, <2>2
  <2> QED BY <2>3
<1>4. CASE old.password = new.password /\ old.quota # new.quota
  <2>1. todo = <<>> \o <<"quota">>
    BY <1>4 DEF what_to_do
  <2>2. todo = <<"quota">>
    BY <2>1
  <2> QED BY <1>4, <2>2
<1> QED BY <1>1, <1>2, <1>3, <1>4

LEMMA UpdateStep ==
  ASSUME IInv, HistoryType, ReadsInv, UsersInv, CourseInv,
         NEW l \in Login, whisk_user_update(l)
  PROVE  UsersInv' /\ CourseInv' /\ ReadsInv'
<1> DEFINE C == IF attempt[l] \in {NoSpec, spec[l]} THEN {} ELSE {"abandoned"}
<1>1. PICK h, op, todo : /\ h = handler'[l] /\ op = task'[l].op
                         /\ todo = what_to_do(handled[l], spec[l])
  OBVIOUS
<1>2. /\ UNCHANGED <<wsku, spec, handled, store, acked, barred>>
      /\ wsku[l] = "live" /\ handled[l] # NoSpec /\ handler[l] = NoHandler
      /\ attempt' = [attempt EXCEPT ![l] = spec[l]]
      /\ marred' = [marred EXCEPT ![M(l)] = @ \union C]
      /\ StartHandler(l, "update", todo)
  BY <1>1 DEF whisk_user_update, Marred, M
<1>3. M(l) \in Doc /\ \A k \in Login : S(k) \in Doc /\ M(k) \in Doc /\ S(k) # M(l)
  BY DEF M, S, Doc, Db
<1>4. \A k \in Login \ {l} : M(k) # M(l)
  BY DEF M
<1>5. /\ marred'[M(l)] = marred[M(l)] \union C
      /\ \A d \in Doc \ {M(l)} : marred'[d] = marred[d]
  BY <1>2, <1>3 DEF HistoryType
<1>6. UserInv(l) /\ Course(l) /\ spec[l] \in Specs /\ spec[l] # NoSpec
  BY <1>2, SpecsAssumption DEF UsersInv, CourseInv, IInv, Inv, HandlerInv
<1>7. /\ \A w \in Writer : \/ task'[w] = task[w] \/ task'[w] = Idle
                           \/ \E o, k, key, env : task'[w] = begun(o, k, key, env)
      /\ \A k \in Login \ {l} : handler'[k] = handler[k] /\ task'[k] = task[k]
      /\ h.kind = "update" /\ h.spec = spec[l]
      /\ IF todo = <<>> THEN op = "none" /\ h.todo = <<>>
         ELSE op = Head(todo) /\ h.todo = Tail(todo)
  BY <1>1, <1>2, StartQuiet
<1>8. \/ /\ op = "none" /\ h.todo = <<>>
         /\ handled[l].password = spec[l].password /\ handled[l].quota = spec[l].quota
      \/ op = "password" /\ h.todo = <<>> /\ handled[l].quota = spec[l].quota
      \/ op = "password" /\ h.todo = <<"quota">>
      \/ op = "quota" /\ h.todo = <<>> /\ handled[l].password = spec[l].password
  <2>1. PICK old, new : old = handled[l] /\ new = spec[l]
    OBVIOUS
  <2>2. todo = what_to_do(old, new)
    BY <1>1, <2>1
  <2>3. \/ /\ todo = <<>>
           /\ old.password = new.password /\ old.quota = new.quota
        \/ /\ todo # <<>> /\ Head(todo) = "password" /\ Tail(todo) = <<>>
           /\ old.quota = new.quota
        \/ /\ todo # <<>> /\ Head(todo) = "password" /\ Tail(todo) = <<"quota">>
        \/ /\ todo # <<>> /\ Head(todo) = "quota" /\ Tail(todo) = <<>>
           /\ old.password = new.password
    BY <2>2, WhatToDo
  <2> QED BY <1>7, <2>1, <2>3
<1>9. ReadsInv'
  <2>1. \A w \in Writer : task[w].op # "none" => doc_of(w) \in Doc
    BY TaskDocument DEF IInv
  <2>2. \A d \in Doc : marred[d] \subseteq marred'[d] /\ store'[d] = store[d]
    BY <1>2, <1>5
  <2>3. ASSUME NEW w \in Writer PROVE Reads(w)'
    <3>1. CASE task'[w] = task[w]
      BY <2>1, <2>2, <3>1, ReadsLater DEF ReadsInv, IInv
    <3>2. CASE task'[w] # task[w]
      BY <1>7, <3>2, ReadsNothing
    <3> QED BY <3>1, <3>2
  <2> QED BY <2>3 DEF ReadsInv
<1>10. ASSUME NEW k \in Login, k # l PROVE UserInv(k)' /\ Course(k)'
  <2>1. HandlerKept(k)
    BY <1>2, <1>7, <1>10 DEF HandlerKept
  <2>2. /\ S(k)' = S(k) /\ M(k)' = M(k)
        /\ marred'[S(k)] = marred[S(k)] /\ marred'[M(k)] = marred[M(k)]
    BY <1>3, <1>4, <1>5, <1>10 DEF S, M
  <2>3. MetadataKept(k) /\ SubjectKept(k) /\ MarksGrow(k)
    BY <1>2, <2>2 DEF MetadataKept, SubjectKept, MarksGrow, exists
  <2>4. UserInv(k) /\ Course(k)
    BY DEF UsersInv, CourseInv
  <2>5. SecretsInv(k)' /\ BlockedInv(k)'
    BY <1>2, <2>2, <2>4 DEF UserInv, SecretsInv, BlockedInv, exists
  <2>6. PasswordInv(k)' /\ AuthInv(k)' /\ GoneInv(k)'
    BY <2>1, <2>3, <2>4, Bystander DEF UserInv
  <2>7. Course(k)'
    BY <2>1, <2>4 DEF Course, HandlerKept
  <2> QED BY <2>5, <2>6, <2>7 DEF UserInv
<1>11. /\ S(l)' = S(l) /\ M(l)' = M(l)
       /\ marred'[S(l)] = marred[S(l)]
  BY <1>3, <1>5 DEF S, M
<1>12. attempt'[l] = spec[l]
  BY <1>2 DEF HistoryType
<1>13. Course(l)'
  <2>1. op = "none" => h.todo = <<>>
    BY <1>8
  <2> QED BY <1>1, <1>2, <1>6, <1>7, <1>8, <1>12, <2>1 DEF Course
<1>14. SecretsInv(l)' /\ BlockedInv(l)'
  <2>1. UNCHANGED <<store, acked, barred>> /\ marred[M(l)] \subseteq marred'[M(l)]
    BY <1>2, <1>5
  <2>2. SecretsInv(l)'
    BY <1>6, <1>11, <2>1 DEF UserInv, SecretsInv, exists
  <2>3. BlockedInv(l)'
    BY <1>6, <1>11, <2>1 DEF UserInv, BlockedInv, exists
  <2> QED BY <2>2, <2>3
<1>15. PasswordInv(l)'
  <2> DEFINE specs == {handled[l], attempt[l]} \ {NoSpec}
             later == {handled[l], spec[l]} \ {NoSpec}
             body == store[M(l)].body
  <2> SUFFICES ASSUME marred'[M(l)] \cap {"overlap", "fault"} = {},
                      "abandoned" \notin marred'[M(l)]
               PROVE  /\ body # NoBody
                      /\ body.password \in {s.password : s \in later}
                      /\ body.quota \in {s.quota : s \in later}
                      /\ op # "password" => body.password = spec[l].password
                      /\ op # "quota" /\ h.todo # <<"quota">> =>
                           body.quota = spec[l].quota
    BY <1>1, <1>2, <1>7, <1>11, <1>12 DEF PasswordInv, MetadataOf, exists
  <2>1. /\ body # NoBody
        /\ body.password \in {s.password : s \in specs}
        /\ body.quota \in {s.quota : s \in specs}
    BY <1>2, <1>5, <1>6 DEF UserInv, PasswordInv, MetadataOf, exists
  <2>2. specs \subseteq later
    BY <1>5
  <2>3. /\ body.password \in {s.password : s \in later}
        /\ body.quota \in {s.quota : s \in later}
    BY <2>1, <2>2
  <2>4. later = {handled[l], spec[l]}
    BY <1>2, <1>6
  <2>5. /\ body.password \in {handled[l].password, spec[l].password}
        /\ body.quota \in {handled[l].quota, spec[l].quota}
    BY <2>3, <2>4
  <2> HIDE DEF body
  <2>6. op # "password" => body.password = spec[l].password
    BY <1>8, <2>5
  <2>7. op # "quota" /\ h.todo # <<"quota">> => body.quota = spec[l].quota
    BY <1>8, <2>5
  <2> QED BY <2>1, <2>3, <2>6, <2>7
<1>16. AuthInv(l)'
  <2>1. marred'[M(l)] \cap {"overlap", "fault"} = marred[M(l)] \cap {"overlap", "fault"}
    BY <1>5
  <2> QED BY <1>1, <1>2, <1>6, <1>7, <1>11, <2>1 DEF UserInv, AuthInv, AuthOf, exists
<1>17. GoneInv(l)'
  BY <1>1, <1>2, <1>7 DEF GoneInv
<1>18. \A k \in Login : UserInv(k)' /\ Course(k)'
  BY <1>10, <1>13, <1>14, <1>15, <1>16, <1>17 DEF UserInv
<1> QED BY <1>9, <1>18 DEF UsersInv, CourseInv

\* kopf records the edit, or lets the resource go.
LEMMA HandlerDoneStep ==
  ASSUME IInv, HistoryType, ReadsInv, UsersInv, CourseInv,
         NEW l \in Login, HandlerDone(l)
  PROVE  UsersInv' /\ CourseInv' /\ ReadsInv'
<1>1. /\ UNCHANGED <<task, store, acked, barred, marred>>
      /\ handler[l].kind # "idle" /\ task[l] = Idle
      /\ handler' = [handler EXCEPT ![l] = NoHandler]
      /\ attempt' = [attempt EXCEPT ![l] = NoSpec]
      /\ IF handler[l].kind = "delete"
           THEN /\ wsku' = [wsku EXCEPT ![l] = "absent"]
                /\ handled' = [handled EXCEPT ![l] = NoSpec]
           ELSE /\ handled' = [handled EXCEPT ![l] = handler[l].spec]
                /\ UNCHANGED wsku
  BY DEF HandlerDone
<1>2. Quiet
  BY <1>1, QuietMarks
<1>3. ReadsInv'
  BY <1>1, <1>2, ReadsQuiet DEF IInv
<1>4. \A k \in Login \ {l} : HandlerKept(k)
  BY <1>1 DEF HandlerKept, IInv, Inv, HandlerInv, HistoryType
<1>5. PICK h : h = handler[l]
  OBVIOUS
<1>6. /\ UserInv(l) /\ Course(l) /\ handler'[l] = NoHandler /\ attempt'[l] = NoSpec
      /\ h \in HandlerType /\ task'[l].op = "none" /\ task[l].op = "none"
      /\ NoHandler.kind = "idle" /\ NoHandler.todo = <<>>
  BY <1>1, <1>5, BegunOp
  DEF UsersInv, CourseInv, IInv, Inv, HandlerInv, HistoryType, NoHandler
<1>7. S(l)' = S(l) /\ M(l)' = M(l)
  BY DEF S, M
<1>8. CASE h.kind = "delete"
  <2>1. wsku'[l] = "absent" /\ handled'[l] = NoSpec
    BY <1>1, <1>5, <1>8 DEF IInv, Inv, HandlerInv, HistoryType
  <2>2. Course(l)'
    BY <1>6, <2>1 DEF Course
  <2>3. PasswordInv(l)' /\ AuthInv(l)'
    BY <2>1 DEF PasswordInv, AuthInv
  <2>4. GoneInv(l)'
    BY <1>1, <1>5, <1>6, <1>7, <1>8 DEF UserInv, GoneInv, exists
  <2> QED BY <1>2, <1>3, <1>4, <2>2, <2>3, <2>4, OneQuiet
<1>9. CASE h.kind \in {"create", "update"}
  <2>1. /\ wsku' = wsku /\ handled'[l] = h.spec
        /\ h.spec \in Specs /\ h.spec # NoSpec /\ wsku[l] # "absent"
    BY <1>1, <1>5, <1>6, <1>9, SpecsAssumption
    DEF IInv, Inv, HandlerInv, HistoryType, Course
  <2>2. Course(l)'
    BY <1>6, <2>1 DEF Course
  <2>3. PasswordInv(l)'
    <3> DEFINE body == store[M(l)].body
    <3>1. CASE h.kind = "create"
      <4>1. wsku[l] = "live" /\ marred[M(l)] \cap {"overlap", "fault"} = {} =>
              MetadataOf(l, {h.spec.password}, {h.spec.quota})
        BY <1>5, <1>6, <3>1 DEF UserInv, PasswordInv
      <4>2. {handled'[l], attempt'[l]} \ {NoSpec} = {h.spec}
        BY <1>6, <2>1
      <4> QED BY <1>1, <1>6, <1>7, <2>1, <4>1, <4>2 DEF PasswordInv, MetadataOf, exists
    <3>2. CASE h.kind = "update"
      <4>1. /\ handled[l] # NoSpec /\ h.todo # <<"quota">>
        <5>1. <<>> # <<"quota">>
          OBVIOUS
        <5> QED BY <1>5, <1>6, <3>2, <5>1 DEF Course
      <4>2. wsku[l] = "live" /\ marred[M(l)] \cap {"overlap", "fault", "abandoned"} = {} =>
              /\ body # NoBody /\ body.password = h.spec.password
              /\ body.quota = h.spec.quota
        BY <1>5, <1>6, <3>2, <4>1 DEF UserInv, PasswordInv, MetadataOf, exists
      <4>3. {handled'[l], attempt'[l]} \ {NoSpec} = {h.spec}
        BY <1>6, <2>1
      <4> QED BY <1>1, <1>6, <1>7, <2>1, <4>2, <4>3 DEF PasswordInv, MetadataOf, exists
    <3> QED BY <1>9, <3>1, <3>2
  <2>4. AuthInv(l)'
    <3>1. CASE h.kind = "create"
      BY <1>1, <1>5, <1>6, <1>7, <2>1, <3>1 DEF UserInv, AuthInv, AuthOf, exists
    <3>2. CASE h.kind = "update"
      <4>1. handled[l] # NoSpec
        BY <1>5, <1>6, <3>2 DEF Course
      <4> QED BY <1>1, <1>6, <1>7, <2>1, <4>1 DEF UserInv, AuthInv, AuthOf, exists
    <3> QED BY <1>9, <3>1, <3>2
  <2>5. GoneInv(l)'
    BY <1>6, <2>1 DEF GoneInv
  <2> QED BY <1>2, <1>3, <1>4, <2>2, <2>3, <2>4, <2>5, OneQuiet
<1> QED BY <1>1, <1>5, <1>6, <1>8, <1>9 DEF HandlerType

\* The handlers of the process that dies have promised nothing.
LEMMA RestartStep ==
  ASSUME IInv, ReadsInv, UsersInv, CourseInv, Restart
  PROVE  UsersInv' /\ CourseInv' /\ ReadsInv'
<1>1. /\ UNCHANGED <<wsku, handled, store, acked, barred, marred, attempt>>
      /\ handler' = [l \in Login |-> NoHandler]
      /\ task' = [w \in Writer |-> IF w \in Login THEN Idle ELSE task[w]]
  BY DEF Restart, historyVars
<1>2. Quiet
  BY <1>1, QuietMarks
<1>3. ReadsInv'
  BY <1>1, <1>2, ReadsQuiet DEF IInv
<1>4. ASSUME NEW l \in Login PROVE UserInv(l)' /\ Course(l)'
  <2>1. /\ UserInv(l) /\ Course(l) /\ handler'[l] = NoHandler /\ task'[l].op = "none"
        /\ NoHandler.kind = "idle" /\ NoHandler.todo = <<>>
    BY <1>1, BegunOp, Disjoint DEF UsersInv, CourseInv, NoHandler
  <2>2. S(l)' = S(l) /\ M(l)' = M(l)
    BY DEF S, M
  <2>3. Course(l)'
    BY <1>1, <2>1 DEF Course
  <2>4. PasswordInv(l)'
    BY <1>1, <2>1, <2>2 DEF UserInv, PasswordInv, MetadataOf, exists
  <2>5. AuthInv(l)'
    BY <1>1, <2>1, <2>2 DEF UserInv, AuthInv, AuthOf, exists
  <2>6. GoneInv(l)'
    BY <1>1, <2>1, <2>2 DEF UserInv, GoneInv, exists
  <2> QED BY <1>2, <2>1, <2>3, <2>4, <2>5, <2>6, DocumentsQuiet DEF UserInv
<1> QED BY <1>3, <1>4 DEF UsersInv, CourseInv

\* An invocation begins: it has read and written nothing yet.
LEMMA InvocationStep ==
  ASSUME IInv, ReadsInv, UsersInv, CourseInv, NEW t, Invoke(t),
         \E op, l, key, env : t = begun(op, l, key, env)
  PROVE  UsersInv' /\ CourseInv' /\ ReadsInv'
<1>1. /\ UNCHANGED <<resourceVars, store, historyVars>>
      /\ task' = [task EXCEPT ![calls + 1] = t] /\ task \in [Writer -> TaskType]
  BY DEF Invoke, IInv, Inv, TaskInv
<1>2. Quiet
  BY <1>1, QuietMarks DEF historyVars
<1>3. ReadsInv'
  <2>1. \A w \in Writer : task'[w] = task[w] \/ task'[w] = t
    BY <1>1
  <2> QED BY <1>2, <2>1, ReadsQuiet DEF IInv
<1>4. ASSUME NEW l \in Login PROVE HandlerKept(l)
  <2>1. calls + 1 \in Nat
    BY DEF IInv
  <2>2. l # calls + 1
    BY <2>1, WritersAssumption
  <2>3. task'[l] = task[l]
    BY <1>1, <2>2, Disjoint
  <2> QED BY <1>1, <2>3 DEF HandlerKept, resourceVars, historyVars
<1>5. \A l \in Login : UserInv(l)' /\ Course(l)'
  BY <1>2, <1>4, UserQuiet DEF UsersInv, CourseInv
<1> QED BY <1>3, <1>5 DEF UsersInv, CourseInv

----------------------------------------------------------------------------
(* The history variables.                                                  *)

\* What a request acknowledges and what it may have cost.
LEMMA HistoryRequest ==
  ASSUME IInv, HistoryType, ReadsInv, NEW w \in Writer, Request(w)
  PROVE  HistoryType'
<1>1. Inv /\ Reads(w)
  BY DEF IInv, ReadsInv
<1>2. /\ UNCHANGED <<handled, attempt>> /\ Marks(w) /\ task[w].op # "none"
      /\ Going(w) \/ Served(w) \/ Lost(w) \/ Refused(w)
  BY <1>1, RequestStep
<1>3. marred' \in [Doc -> SUBSET Cause]
  BY <1>2 DEF Marks, HistoryType, Cause
<1>4. events' \in {events, events + 1}
  BY DEF Request, Find, Get, Write, NoEvent, Event
<1>5. acked' \in [Login -> Env] /\ barred' \in [Login -> BOOLEAN]
  <2>1. CASE Acknowledged(w) /\ task[w].at = "write" /\ Taken(w) /\ Stores(w)
    <3>1. PICK l \in Login : l = task[w].login
      BY <1>1, <1>2, TaskDocument
    <3>2. PICK env : env = task[w].env
      OBVIOUS
    <3>3. task[w].op = "env" => env \in Envs
      BY <1>1, <1>2, <3>2, TaskDocument DEF TaskFits
    <3>4. task[w].op = "env" => acknowledged_env(acked[l], env) \in Env
      <4>1. acked[l] \in Env
        BY DEF HistoryType
      <4> QED BY <3>3, <4>1, AcknowledgedEnv, EnvType
    <3>5. NoEnv \in Env
      BY DEF NoEnv, Env
    <3>6. PICK a : a = IF task[w].op = "env" THEN acknowledged_env(acked[l], env)
                       ELSE IF task[w].op = "delete_user_metadata" THEN NoEnv
                       ELSE acked[l]
      OBVIOUS
    <3>7. a \in Env /\ acked' = [acked EXCEPT ![l] = a]
      BY <2>1, <3>1, <3>2, <3>4, <3>5, <3>6 DEF Acknowledged, HistoryType
    <3>8. barred' = [barred EXCEPT ![l] =
                       IF task[w].op = "block" THEN TRUE
                       ELSE IF task[w].op \in {"unblock", "delete", "delete_ow_user"}
                         THEN FALSE ELSE @]
      BY <2>1, <3>1 DEF Acknowledged
    <3>9. barred' \in [Login -> BOOLEAN]
      BY <3>8 DEF HistoryType
    <3> QED BY <3>7, <3>9 DEF HistoryType
  <2>2. CASE UNCHANGED <<acked, barred>>
    BY <2>2 DEF HistoryType
  <2> QED BY <1>2, <2>1, <2>2 DEF Going, Served, Lost, Refused
<1> QED BY <1>2, <1>3, <1>4, <1>5 DEF HistoryType

\* What the other steps remember.
LEMMA HistoryQuiet ==
  ASSUME IInv, HistoryType,
         /\ UNCHANGED <<acked, barred>> /\ events' \in {events, events + 1}
         /\ \/ UNCHANGED <<handled, attempt, marred>>
            \/ \E l \in Login : whisk_user_update(l) \/ HandlerDone(l)
  PROVE  HistoryType'
<1>1. CASE UNCHANGED <<handled, attempt, marred>>
  BY <1>1 DEF HistoryType
<1>2. ASSUME NEW l \in Login, whisk_user_update(l) PROVE HistoryType'
  <2>1. /\ handled' = handled /\ attempt' = [attempt EXCEPT ![l] = spec[l]]
        /\ \E C \in SUBSET {"abandoned"} :
             marred' = [marred EXCEPT ![M(l)] = @ \union C]
    BY <1>2 DEF whisk_user_update, Marred, M
  <2>2. spec[l] \in Specs \union {NoSpec}
    BY DEF IInv, Inv, HandlerInv
  <2>3. marred' \in [Doc -> SUBSET Cause]
    BY <2>1 DEF HistoryType, Cause
  <2> QED BY <2>1, <2>2, <2>3 DEF HistoryType
<1>3. ASSUME NEW l \in Login, HandlerDone(l) PROVE HistoryType'
  <2>1. /\ marred' = marred /\ attempt' = [attempt EXCEPT ![l] = NoSpec]
        /\ \/ handled' = [handled EXCEPT ![l] = NoSpec]
           \/ handled' = [handled EXCEPT ![l] = handler[l].spec]
    BY <1>3 DEF HandlerDone
  <2>2. handler[l].spec \in Specs \union {NoSpec}
    BY DEF IInv, Inv, HandlerInv, HandlerType
  <2> QED BY <2>1, <2>2 DEF HistoryType
<1> QED BY <1>1, <1>2, <1>3

----------------------------------------------------------------------------
(* The invariant is inductive.                                             *)

LEMMA InitSafety == Init => SafetyInv
<1> SUFFICES ASSUME Init PROVE SafetyInv
  OBVIOUS
<1>1. IInv
  BY InitIInv
<1>2. HistoryType
  <2>1. NoEnv \in Env
    BY DEF NoEnv, Env
  <2> QED BY <2>1 DEF Init, HistoryType
<1>3. ReadsInv
  <2>1. \A w \in Writer : task[w].op = "none" /\ task[w].at = "idle"
    BY BegunOp DEF Init
  <2>2. "none" \notin Updates \union Deletes \union AdminCommands \union Templated
    BY WritersAssumption DEF Updates, Deletes, Templated
  <2> QED BY <2>1, <2>2 DEF ReadsInv, Reads
<1>4. ASSUME NEW l \in Login PROVE Course(l) /\ UserInv(l)
  <2>1. /\ wsku[l] = "absent" /\ handled[l] = NoSpec /\ handler[l] = NoHandler
        /\ attempt[l] = NoSpec /\ task[l].op = "none"
        /\ NoHandler.kind = "idle" /\ NoHandler.todo = <<>>
    BY BegunOp, Disjoint DEF Init, NoHandler
  <2>2. /\ S(l) \in Doc /\ M(l) \in Doc
    BY DEF S, M, Doc, Db
  <2>3. ~exists(S(l)) /\ ~exists(M(l)) /\ acked[l] = NoEnv /\ ~barred[l]
    BY <2>2 DEF Init, exists
  <2>4. Course(l)
    BY <2>1 DEF Course
  <2>5. SecretsInv(l) /\ BlockedInv(l) /\ GoneInv(l)
    <3>1. BlockedInv(l)
      BY <2>2, <2>3 DEF BlockedInv, Init
    <3> QED BY <2>3, <3>1 DEF SecretsInv, GoneInv
  <2>6. PasswordInv(l) /\ AuthInv(l)
    BY <2>1 DEF PasswordInv, AuthInv
  <2> QED BY <2>4, <2>5, <2>6 DEF UserInv
<1> QED BY <1>1, <1>2, <1>3, <1>4 DEF SafetyInv, CourseInv, UsersInv

LEMMA NextSafety ==
  ASSUME SafetyInv, [Next]_vars
  PROVE  SafetyInv'
<1>1. IInv /\ HistoryType /\ ReadsInv /\ CourseInv /\ UsersInv /\ IInv'
  BY NextInv DEF SafetyInv
<1> DEFINE Promises == HistoryType' /\ ReadsInv' /\ CourseInv' /\ UsersInv'
<1> SUFFICES Promises
  BY <1>1 DEF SafetyInv
<1>2. ASSUME NEW l \in Login, NEW s \in Specs, ApplyUser(l, s) PROVE Promises
  <2>1. HistoryType'
    BY <1>1, <1>2, HistoryQuiet DEF ApplyUser, historyVars, Event
  <2>2. UsersInv' /\ CourseInv' /\ Quiet /\ UNCHANGED task
    BY <1>1, <1>2, ApplyUserStep DEF ApplyUser
  <2>3. ReadsInv'
    BY <1>1, <2>2, ReadsQuiet DEF IInv
  <2> QED BY <2>1, <2>2, <2>3
<1>3. ASSUME NEW l \in Login, DeleteUser(l) PROVE Promises
  <2>1. HistoryType'
    BY <1>1, <1>3, HistoryQuiet DEF DeleteUser, historyVars, Event
  <2>2. UsersInv' /\ CourseInv' /\ Quiet /\ UNCHANGED task
    BY <1>1, <1>3, DeleteUserStep DEF DeleteUser
  <2>3. ReadsInv'
    BY <1>1, <2>2, ReadsQuiet DEF IInv
  <2> QED BY <2>1, <2>2, <2>3
<1>4. ASSUME NEW l \in Login, whisk_user_create(l) PROVE Promises
  <2>1. HistoryType'
    BY <1>1, <1>4, HistoryQuiet DEF whisk_user_create, historyVars, bounds
  <2> QED BY <1>1, <1>4, <2>1, CreateStep
<1>5. ASSUME NEW l \in Login, whisk_user_update(l) PROVE Promises
  <2>1. HistoryType'
    BY <1>1, <1>5, HistoryQuiet DEF whisk_user_update, bounds
  <2> QED BY <1>1, <1>5, <2>1, UpdateStep
<1>6. ASSUME NEW l \in Login, whisk_user_delete(l) PROVE Promises
  <2>1. HistoryType'
    BY <1>1, <1>6, HistoryQuiet DEF whisk_user_delete, historyVars, bounds
  <2> QED BY <1>1, <1>6, <2>1, DeleteStep
<1>7. ASSUME NEW l \in Login, HandlerDone(l) PROVE Promises
  <2>1. HistoryType'
    BY <1>1, <1>7, HistoryQuiet DEF HandlerDone, bounds
  <2> QED BY <1>1, <1>7, <2>1, HandlerDoneStep
<1>8. ASSUME NEW w \in Writer, Request(w) PROVE Promises
  BY <1>1, <1>8, HistoryRequest, ReadsRequest, CourseRequest, UsersRequest
<1>9. ASSUME NEW op, NEW l, NEW key, NEW env, Invoke(begun(op, l, key, env))
      PROVE  Promises
  <2>1. HistoryType'
    BY <1>1, <1>9, HistoryQuiet DEF Invoke, resourceVars, historyVars, Event
  <2>2. PICK t : t = begun(op, l, key, env)
    OBVIOUS
  <2>3. Invoke(t) /\ \E o, k, y, e : t = begun(o, k, y, e)
    BY <1>9, <2>2
  <2> QED BY <1>1, <2>1, <2>3, InvocationStep
<1>10. ASSUME Restart PROVE Promises
  <2>1. HistoryType'
    BY <1>1, <1>10, HistoryQuiet DEF Restart, historyVars, Event
  <2> QED BY <1>1, <1>10, <2>1, RestartStep
<1>11. CASE UNCHANGED vars
  <2>1. /\ UNCHANGED <<wsku, handled, handler, task, store, acked, barred, marred>>
        /\ UNCHANGED <<attempt, events>>
    BY <1>11 DEF vars, resourceVars, historyVars, bounds
  <2>2. HistoryType'
    BY <1>1, <2>1, HistoryQuiet
  <2>3. Quiet
    BY <2>1, QuietMarks
  <2>4. ReadsInv'
    BY <1>1, <2>1, <2>3, ReadsQuiet DEF IInv
  <2>5. \A l \in Login : UserInv(l)' /\ Course(l)'
    <3>1. \A l \in Login : HandlerKept(l)
      BY <2>1 DEF HandlerKept
    <3> QED BY <1>1, <2>3, <3>1, UserQuiet DEF UsersInv, CourseInv
  <2> QED BY <2>2, <2>4, <2>5 DEF UsersInv, CourseInv
<1> HIDE DEF Promises
<1>12. CASE Next
  <2>1. CASE \E l \in Login : DeleteUser(l) \/ Operator(l)
    BY <1>3, <1>4, <1>5, <1>6, <1>7, <1>8, <2>1, Disjoint DEF Operator
  <2>2. CASE \E l \in Login, s \in Specs : ApplyUser(l, s)
    BY <1>2, <2>2
  <2>3. CASE Invocation
    BY <1>8, <1>9, <2>3, Disjoint DEF Invocation, secrets, wskadmin
  <2> QED BY <1>10, <1>12, <2>1, <2>2, <2>3 DEF Next
<1> QED BY <1>11, <1>12

\* What a task has read, how far a handler is and what the documents say at
\* that point are true in every state.
THEOREM SafetyInvariant == Spec => []SafetyInv
<1>1. SafetyInv /\ [Next]_vars => SafetyInv'
  BY NextSafety
<1> QED BY <1>1, InitSafety, PTL DEF Spec

----------------------------------------------------------------------------
(* What the documents promise.                                             *)

\* The variables that the secrets action has acknowledged are in the metadata
\* until the user is deleted, whatever the operator writes meanwhile: every
\* request sends the revision that its own operation has read (update_doc),
\* so that a merge of handle_additional_env is lost only to a write that
\* overlapped it.
THEOREM AcknowledgedSecretsAreKept == Spec => []SecretsAreKept
<1>1. SafetyInv => SecretsAreKept
  <2> SUFFICES ASSUME UsersInv, NEW l \in Login, exists(M(l)), marred[M(l)] = {}
               PROVE  store[M(l)].body.userenv = acked[l]
    BY DEF SafetyInv, SecretsAreKept, M
  <2> QED BY DEF UsersInv, UserInv, SecretsInv
<1> QED BY <1>1, SafetyInvariant, PTL

\* A user whom wskadmin has blocked stays blocked, and one it has unblocked
\* does, however the commands and the handlers interleave.
THEOREM BlockedUsersStayBlocked == Spec => []BlockedStaysBlocked
<1>1. SafetyInv => BlockedStaysBlocked
  <2> SUFFICES ASSUME SafetyInv, NEW l \in Login, exists(S(l)),
                      marred[S(l)] \cap {"again", "overlap", "fault"} = {}
               PROVE  store[S(l)].body.blocked = barred[l]
    BY DEF SafetyInv, BlockedStaysBlocked, S
  <2>1. barred[l] = (exists(S(l)) /\ store[S(l)].body.blocked)
    BY DEF SafetyInv, UsersInv, UserInv, BlockedInv
  <2>2. store[S(l)].body \in Subject
    BY BodyKinds DEF SafetyInv, IInv, exists
  <2>3. store[S(l)].body.blocked \in BOOLEAN
    BY <2>2 DEF Subject
  <2> QED BY <2>1, <2>3
<1> QED BY <1>1, SafetyInvariant, PTL

\* Once an edit is handled the login action accepts the password of the
\* resource and the quota is the one of the resource, whatever edits,
\* restarts and repeated handlers came before.
THEOREM HandledPasswordIsAccepted == Spec => []PasswordIsHandled
<1>1. SafetyInv => PasswordIsHandled
  <2> SUFFICES ASSUME SafetyInv, NEW l \in Login,
                      wsku[l] = "live", handled[l] = spec[l], attempt[l] = NoSpec,
                      marred[M(l)] \cap {"overlap", "fault", "abandoned"} = {}
               PROVE  /\ exists(M(l))
                      /\ store[M(l)].body.password = handled[l].password
                      /\ store[M(l)].body.quota = handled[l].quota
    BY DEF PasswordIsHandled, M
  <2>1. handled[l] \in Specs /\ handled[l] # NoSpec
    BY SpecsAssumption DEF SafetyInv, IInv, Inv, HandlerInv
  <2>2. {handled[l], attempt[l]} \ {NoSpec} = {handled[l]}
    BY <2>1
  <2>3. PasswordInv(l)
    BY DEF SafetyInv, UsersInv, UserInv
  <2>4. MetadataOf(l, {s.password : s \in {handled[l]}}, {s.quota : s \in {handled[l]}})
    BY <2>1, <2>2, <2>3 DEF PasswordInv
  <2> QED BY <2>4 DEF MetadataOf
<1> QED BY <1>1, SafetyInvariant, PTL

\* The key that the login action hands out is the one OpenWhisk authenticates
\* the user with: whisk_user_create records it only when the subject is saved.
THEOREM RecordedAuthIsTheSubjects == Spec => []AuthIsOfTheSubject
<1>1. SafetyInv => AuthIsOfTheSubject
  <2> SUFFICES ASSUME UsersInv, NEW l \in Login,
                      wsku[l] = "live", handled[l] # NoSpec, exists(M(l)),
                      marred[M(l)] \cap {"overlap", "fault"} = {},
                      marred[S(l)] \cap {"overlap", "admin"} = {},
                      store[M(l)].body.auth # NoKey
               PROVE  exists(S(l)) /\ store[S(l)].body.key = store[M(l)].body.auth
    BY DEF SafetyInv, AuthIsOfTheSubject, M, S
  <2> QED BY DEF UsersInv, UserInv, AuthInv, AuthOf
<1> QED BY <1>1, SafetyInvariant, PTL

\* A user whose resource has gone has left neither a subject nor metadata.
THEOREM DeletedUsersLeaveNothing == Spec => []NothingOfTheDeleted
<1>1. SafetyInv => NothingOfTheDeleted
  <2> SUFFICES ASSUME UsersInv, NEW l \in Login, NEW db \in Db, wsku[l] = "absent",
                      marred[<<db, l>>] \cap {"overlap", "fault", "admin"} = {}
               PROVE  ~exists(<<db, l>>)
    BY DEF SafetyInv, NothingOfTheDeleted
  <2>1. <<db, l>> = S(l) \/ <<db, l>> = M(l)
    BY DEF Db, S, M
  <2> QED BY <2>1 DEF UsersInv, UserInv, GoneInv
<1> QED BY <1>1, SafetyInvariant, PTL

\* Every variable has its type, the documents of each database included.  An
\* idle task is of some user: there must be one.
THEOREM DocumentsTypeCorrect ==
  ASSUME Login # {}
  PROVE  Spec => []TypeOK
<1>1. SafetyInv => TypeOK
  <2> SUFFICES ASSUME SafetyInv PROVE TypeOK
    OBVIOUS
  <2>1. IInv /\ Inv /\ HistoryType
    BY DEF SafetyInv, IInv
  <2>2. TaskType \subseteq Task
    <3>1. Idle.login \in Login
      BY DEF Idle
    <3> QED BY <3>1 DEF TaskType, Task
  <2>3. HandlerType \subseteq Handler
    <3>1. Seq(Handled) \subseteq Seq(Operation)
      BY HandledOperations
    <3> QED BY <3>1 DEF HandlerType, Handler
  <2>4. task \in [Writer -> Task]
    BY <2>1, <2>2 DEF Inv, TaskInv
  <2>5. handler \in [Login -> Handler]
    BY <2>1, <2>3 DEF Inv, HandlerInv
  <2>6. \A l \in Login :
          /\ store[<<"subjects", l>>].body \in Subject \union {NoBody}
          /\ store[<<"users_metadata", l>>].body \in Metadata \union {NoBody}
    BY <2>1, BodyKinds DEF S, M
  <2> QED
    BY <2>1, <2>4, <2>5, <2>6 DEF TypeOK, Inv, IInv, StoreInv, HandlerInv, HistoryType
<1> QED BY <1>1, SafetyInvariant, PTL
=============================================================================
