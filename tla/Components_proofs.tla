-------------------------- MODULE Components_proofs --------------------------
(***************************************************************************)
(* The types of Components, proved for every set of scenarios and for any  *)
(* number of edits, failing calls and deaths of the process.               *)
(*                                                                         *)
(* First the orders of the components and the calls of each component: a   *)
(* component creates and deletes only what belongs to it, and only a       *)
(* manifest can have an owner.  Then the inductive invariant and, for each *)
(* action, what it does to it.                                             *)
(***************************************************************************)
EXTENDS Components, SequenceTheorems, WellFoundedInduction, TLAPS

----------------------------------------------------------------------------
(* The orders of the components.                                           *)

LEMMA Least ==
  ASSUME NEW S, S \subseteq Nat, S # {}
  PROVE  \E n \in S : \A m \in S : n <= m
<1> DEFINE R == {ss \in Nat \X Nat : ss[1] < ss[2]}
<1>1. IsWellFoundedOn(R, Nat)
  BY NatLessThanWellFounded DEF OpToRel
<1>2. PICK n \in S : \A m \in S : ~ (<<m, n>> \in R)
  BY <1>1, WFMin
<1>3. \A m \in S : ~ (m < n)
  BY <1>2
<1> QED
  BY <1>3

ComponentNames ==
  {"preloader", "couchdb", "redis", "registry", "issuer", "cron", "minio",
    "seaweedfs", "static", "postgres", "mongodb", "zookeeper", "kafka",
    "invoker", "openwhisk", "endpoint", "monitoring", "quota", "etcd", "milvus",
    "whisk_post_create"}

LEMMA Orders ==
  /\ Component = ComponentNames
  /\ ToSet(DeleteOrder) = ComponentNames \ {"whisk_post_create"}
  /\ DOMAIN CreateOrder = 1 .. 21 /\ DOMAIN DeleteOrder = 1 .. 20
<1>1. DOMAIN CreateOrder = 1 .. 21 /\ DOMAIN DeleteOrder = 1 .. 20
  BY DEF CreateOrder, DeleteOrder
<1>2. \A i \in 1 .. 21 : CreateOrder[i] \in ComponentNames
  BY DEF CreateOrder, ComponentNames
<1>3. ASSUME NEW c \in ComponentNames PROVE \E i \in 1 .. 21 : CreateOrder[i] = c
  BY DEF CreateOrder, ComponentNames
<1>4. \A i \in 1 .. 20 : DeleteOrder[i] \in ComponentNames \ {"whisk_post_create"}
  BY DEF DeleteOrder, ComponentNames
<1>5. ASSUME NEW c \in ComponentNames \ {"whisk_post_create"}
      PROVE  \E i \in 1 .. 20 : DeleteOrder[i] = c
  BY DEF DeleteOrder, ComponentNames
<1> QED
  BY <1>1, <1>2, <1>3, <1>4, <1>5 DEF Component, ToSet

\* The components that the handler h may have to do.
Ordered(h) == ToSet(order_of(h))

LEMMA HandlersOrders ==
  /\ Ordered("create") = Component
  /\ Ordered("update") = Component \cup {"redeployment"}
  /\ Ordered("delete") = ToSet(DeleteOrder)
  /\ \A h \in {"create", "update", "delete"} : DOMAIN order_of(h) \subseteq Nat
<1>1. order_of("create") = CreateOrder /\ order_of("delete") = DeleteOrder
  BY DEF order_of
<1>2. PICK order : order = order_of("update")
  OBVIOUS
<1>3. order = <<"redeployment">> \o CreateOrder
  BY <1>2 DEF order_of
<1>4. /\ DOMAIN order = 1 .. 22 /\ order[1] = "redeployment"
      /\ \A i \in 1 .. 21 : order[i + 1] = CreateOrder[i]
  BY <1>3 DEF CreateOrder
<1>5. \A i \in 1 .. 22 : i = 1 \/ (i - 1 \in 1 .. 21 /\ i = (i - 1) + 1)
  OBVIOUS
<1>6. \A i \in 1 .. 21 : i + 1 \in 1 .. 22
  OBVIOUS
<1>7. ToSet(order) = ToSet(CreateOrder) \cup {"redeployment"}
  BY <1>4, <1>5, <1>6, Orders DEF ToSet
<1> QED
  BY <1>1, <1>2, <1>4, <1>7, Orders DEF Ordered, Component

LEMMA Places ==
  ASSUME NEW h \in {"create", "update", "delete"}
  PROVE  /\ \A c \in Ordered(h) : place[h][c] \in Nat
         /\ \A c, d \in Ordered(h) : place[h][c] = place[h][d] => c = d
<1> PICK order : order = order_of(h)
  OBVIOUS
<1>1. Ordered(h) = {order[i] : i \in DOMAIN order} /\ DOMAIN order \subseteq Nat
  BY HandlersOrders DEF Ordered, ToSet
<1>2. place[h] = [c \in ToSet(order) |-> CHOOSE i \in DOMAIN order : order[i] = c]
  BY DEF place
<1>3. ASSUME NEW c \in Ordered(h)
      PROVE  place[h][c] \in DOMAIN order /\ order[place[h][c]] = c
  <2>1. place[h][c] = CHOOSE i \in DOMAIN order : order[i] = c
    BY <1>1, <1>2 DEF ToSet
  <2>2. \E i \in DOMAIN order : order[i] = c
    BY <1>1
  <2> QED
    BY <2>1, <2>2
<1> QED
  BY <1>1, <1>3

\* The first component is one of them, and comes before all others.
LEMMA FirstOne ==
  ASSUME NEW h \in {"create", "update", "delete"}, NEW q, q # {}, q \subseteq Ordered(h)
  PROVE  /\ first(h, q) \in q
         /\ \A d \in q \ {first(h, q)} : place[h][first(h, q)] < place[h][d]
<1> PICK S : S = {place[h][c] : c \in q}
  OBVIOUS
<1>1. S # {} /\ S \subseteq Nat
  BY Places
<1>2. PICK n \in S : \A m \in S : n <= m
  BY <1>1, Least
<1>3. PICK c \in q : n = place[h][c]
  OBVIOUS
<1>4. \A d \in q \ {c} : place[h][c] < place[h][d]
  BY <1>1, <1>2, <1>3, Places
<1>5. \E e \in q : \A d \in q \ {e} : place[h][e] < place[h][d]
  BY <1>4
<1> QED
  BY <1>5 DEF first

LEMMA OnlyOne ==
  ASSUME NEW h, NEW c
  PROVE  first(h, {c}) = c
BY DEF first

\* What an edit goes through has an order, or is one thing.
LEMMA UpdateQueues ==
  ASSUME NEW u \in Patchable \cup Updates
  PROVE  /\ update_queue(u) \subseteq Component \cup Updates
         /\ update_queue(u) \subseteq Ordered("update") \/ update_queue(u) = {u}
<1>1. /\ Patchable \subseteq Component
      /\ {"issuer", "endpoint", "whisk_post_create"} \subseteq Component
  BY Orders DEF ComponentNames, Patchable
<1>2. CASE u = "endpoint"
  BY <1>1, <1>2, HandlersOrders DEF update_queue
<1>3. CASE u \in Patchable \cup {"redeployment"}
  <2>1. u # "endpoint"
    BY <1>3 DEF Patchable
  <2>2. update_queue(u) = {u, "whisk_post_create"}
    BY <1>3, <2>1 DEF update_queue
  <2> QED
    BY <1>1, <1>3, <2>2, HandlersOrders DEF Updates
<1>4. CASE u \notin Patchable \cup {"redeployment", "endpoint"}
  BY <1>4 DEF update_queue
<1> QED
  BY <1>2, <1>3, <1>4

----------------------------------------------------------------------------
(* Sequences of calls.                                                     *)

List(s) == \E K : s \in Seq(K)

IsCall(k) == k = [do |-> k.do, what |-> k.what, in |-> k.in, ends |-> k.ends]

\* What a call rests on: the manifest of the store, or what it looks at.
needs(call) ==
  CASE call.do \in {"put", "make", "save", "discard"} -> {<<"set", call.what[1]>>}
    [] call.do \in {"look", "rollout"} -> {call.what}
    [] OTHER -> {}

\* The failures after which the calls that create something go on.
Quiet == {"nothing", "metadata"}

\* A call that may be among those that create what is in B.
MayCreate(call, B) ==
  /\ IsCall(call)
  /\ call.do \in Brings => call.in \cap (Quiet \cup {"handler"}) = {}
  /\ \A o \in needs(call) : o[1] \in {"set", "note"} /\ o # <<"set", "preloader">>
  /\ call.do \in Brings \cup {"look", "record", "rollout", "save", "raise"}
  /\ call.do \in Brings => call.what \in B \/ call.what[1] = "note"
  /\ call.do \in {"deploy", "record"} => call.what[1] = "set"
  /\ call.do = "annotate" => call.what[1] = "note"
  /\ call.do = "save" => call.what[1] = "couchdb"

\* A call that may be among those that delete what is in B.
MayDelete(call, B) ==
  /\ IsCall(call)
  /\ call.do \in {"delete", "delete built", "delete recorded", "delete once", "discard",
                  "add up"}
  /\ call.do # "add up" => call.what \in B
  /\ call.do \in {"delete built", "delete recorded", "delete once"} => call.what[1] = "set"

\* The call k deploys o, whenever the call l is reached after it.
Lays(k, o, l) == k.do = "deploy" /\ k.what = o /\ k.in \subseteq l.in

\* What a call rests on is in have, or a call before it deploys it.
Founded(calls, i, have) ==
  \A o \in needs(calls[i]) :
    o \in have \/ \E j \in 1 .. i - 1 : Lays(calls[j], o, calls[i])

\* Each of the calls that create B finds what it rests on, if what is in have is
\* there, or its failure ends one of the blocks in H.
Made(calls, B, have, H) ==
  /\ List(calls)
  /\ \A i \in DOMAIN calls :
       MayCreate(calls[i], B) /\ (calls[i].ends \in H \/ Founded(calls, i, have))

Unmade(calls, B) ==
  /\ List(calls)
  /\ \A i \in DOMAIN calls : MayDelete(calls[i], B)

LEMMA Single ==
  ASSUME NEW k
  PROVE  /\ List(<<k>>) /\ Len(<<k>>) = 1
         /\ \A i \in DOMAIN <<k>> : i = 1 /\ <<k>>[i] = k
<1>1. <<k>> \in Seq({k})
  OBVIOUS
<1>2. List(<<k>>)
  BY <1>1, Zenon DEF List
<1>3. Len(<<k>>) = 1 /\ \A i \in DOMAIN <<k>> : i = 1 /\ <<k>>[i] = k
  OBVIOUS
<1> QED
  BY <1>2, <1>3

LEMMA CallIsMade ==
  ASSUME NEW do, NEW what, NEW B, NEW have, NEW H,
         do \in Brings \cup {"look", "record", "rollout", "save", "raise"},
         do \in Brings => what \in B \/ what[1] = "note",
         do \in {"deploy", "record"} => what[1] = "set",
         do = "annotate" => what[1] = "note",
         do = "save" => what[1] = "couchdb",
         \A o \in needs([do |-> do, what |-> what, in |-> {}, ends |-> "handler"]) :
           o[1] \in {"set", "note"} /\ o # <<"set", "preloader">>,
         \/ "handler" \in H
         \/ needs([do |-> do, what |-> what, in |-> {}, ends |-> "handler"]) \subseteq have
  PROVE  Made(Call(do, what), B, have, H)
<1> DEFINE k == [do |-> do, what |-> what, in |-> {}, ends |-> "handler"]
<1>2. MayCreate(k, B)
  BY DEF MayCreate, IsCall
<1>3. k.ends \in H \/ needs(k) \subseteq have
  OBVIOUS
<1> HIDE DEF k
<1>4. List(<<k>>) /\ \A i \in DOMAIN <<k>> : <<k>>[i] = k
  BY Single, Zenon
<1>5. Made(<<k>>, B, have, H)
  BY <1>2, <1>3, <1>4 DEF Made, Founded
<1> QED
  BY <1>5 DEF Call, k

\* The calls of s and then those of t.
Appended(st, s, t) ==
  /\ List(st)
  /\ Len(s) \in Nat /\ DOMAIN s = 1 .. Len(s)
  /\ Len(t) \in Nat /\ DOMAIN t = 1 .. Len(t)
  /\ \A i \in DOMAIN s : i \in DOMAIN st /\ st[i] = s[i]
  /\ \A i \in DOMAIN t : Len(s) + i \in DOMAIN st /\ st[Len(s) + i] = t[i]
  /\ \A i \in DOMAIN st : i \in DOMAIN s \/ \E n \in DOMAIN t : i = Len(s) + n

LEMMA InTurn ==
  ASSUME NEW s, NEW t, List(s), List(t)
  PROVE  Appended(s \o t, s, t)
<1>1. PICK K : s \in Seq(K)
  BY DEF List
<1>2. PICK L : t \in Seq(L)
  BY DEF List
<1>3. PICK M : M = K \cup L
  OBVIOUS
<1>4. s \in Seq(M) /\ t \in Seq(M)
  BY <1>1, <1>2, <1>3
<1>5. PICK st : st = s \o t
  OBVIOUS
<1>6. /\ st \in Seq(M)
      /\ Len(s) \in Nat /\ DOMAIN s = 1 .. Len(s)
      /\ Len(t) \in Nat /\ DOMAIN t = 1 .. Len(t)
      /\ DOMAIN st = 1 .. Len(s) + Len(t)
      /\ \A i \in DOMAIN s : st[i] = s[i]
      /\ \A i \in DOMAIN t : st[Len(s) + i] = t[i]
  BY <1>4, <1>5
<1>7. ASSUME NEW i \in DOMAIN st, i \notin DOMAIN s
      PROVE  \E n \in DOMAIN t : i = Len(s) + n
  <2>1. i - Len(s) \in DOMAIN t /\ i = Len(s) + (i - Len(s))
    BY <1>6, <1>7
  <2> QED
    BY <2>1
<1>8. List(st)
  BY <1>6 DEF List
<1>9. Appended(st, s, t)
  BY <1>6, <1>7, <1>8 DEF Appended
<1> QED
  BY <1>5, <1>9

LEMMA MadeInTurn ==
  ASSUME NEW B, NEW have, NEW H, NEW s, NEW t, Made(s, B, have, H), Made(t, B, have, H)
  PROVE  Made(s \o t, B, have, H)
<1> PICK st : st = s \o t
  OBVIOUS
<1>1. Appended(s \o t, s, t)
  BY InTurn DEF Made
<1>2. Appended(st, s, t)
  BY <1>1
<1>3. ASSUME NEW i \in DOMAIN st
      PROVE  MayCreate(st[i], B) /\ (st[i].ends \in H \/ Founded(st, i, have))
  <2>1. CASE i \in DOMAIN s
    <3>1. st[i] = s[i] /\ \A j \in 1 .. i - 1 : st[j] = s[j]
      BY <1>2, <2>1 DEF Appended
    <3> QED
      BY <2>1, <3>1 DEF Made, Founded
  <2>2. ASSUME NEW n \in DOMAIN t, i = Len(s) + n
        PROVE  MayCreate(st[i], B) /\ (st[i].ends \in H \/ Founded(st, i, have))
    <3>1. st[i] = t[n]
      BY <1>2, <2>2 DEF Appended
    <3>2. \A j \in 1 .. n - 1 :
            j \in DOMAIN t /\ Len(s) + j \in 1 .. i - 1 /\ st[Len(s) + j] = t[j]
      BY <1>2, <2>2 DEF Appended
    <3>3. MayCreate(t[n], B) /\ (t[n].ends \in H \/ Founded(t, n, have))
      BY DEF Made
    <3>4. ASSUME NEW j \in 1 .. n - 1, NEW o, Lays(t[j], o, t[n])
          PROVE  \E m \in 1 .. i - 1 : Lays(st[m], o, st[i])
      BY <3>1, <3>2, <3>4
    <3>5. Founded(t, n, have) => Founded(st, i, have)
      BY <3>1, <3>4 DEF Founded
    <3> QED
      BY <3>1, <3>3, <3>5
  <2> QED
    BY <1>2, <2>1, <2>2 DEF Appended
<1>4. Made(st, B, have, H)
  BY <1>2, <1>3 DEF Made, Appended
<1> QED
  BY <1>4

\* One of the calls, in no block, deploys x.
Has(calls, x) ==
  \E i \in DOMAIN calls :
    calls[i].do = "deploy" /\ calls[i].what = <<"set", x>> /\ calls[i].in = {}

LEMMA DeployHas ==
  ASSUME NEW x
  PROVE  Has(Deploy(x), x)
<1> PICK k : k = [do |-> "deploy", what |-> <<"set", x>>, in |-> {}, ends |-> "handler"]
  OBVIOUS
<1>1. Deploy(x) = <<k>>
  BY DEF Deploy, Call
<1>2. k.do = "deploy" /\ k.what = <<"set", x>> /\ k.in = {}
  OBVIOUS
<1>3. 1 \in DOMAIN <<k>> /\ <<k>>[1] = k
  OBVIOUS
<1> QED
  BY <1>1, <1>2, <1>3 DEF Has

LEMMA HasInTurn ==
  ASSUME NEW s, NEW t, NEW x, List(s), List(t), Has(s, x) \/ Has(t, x)
  PROVE  Has(s \o t, x)
<1> PICK st : st = s \o t
  OBVIOUS
<1>1. Appended(st, s, t)
  BY InTurn
<1>2. ASSUME Has(s, x) PROVE Has(st, x)
  BY <1>1, <1>2 DEF Appended, Has
<1>3. ASSUME NEW i \in DOMAIN t,
             t[i].do = "deploy" /\ t[i].what = <<"set", x>> /\ t[i].in = {}
      PROVE  Has(st, x)
  <2>1. Len(s) + i \in DOMAIN st /\ st[Len(s) + i] = t[i]
    BY <1>1 DEF Appended
  <2>2. st[Len(s) + i].do = "deploy" /\ st[Len(s) + i].what = <<"set", x>>
        /\ st[Len(s) + i].in = {}
    BY <1>3, <2>1
  <2> QED
    BY <2>1, <2>2, Zenon DEF Has
<1>4. Has(t, x) => Has(st, x)
  BY <1>3 DEF Has
<1> QED
  BY <1>2, <1>4

\* A manifest that is deployed is there for the calls that follow.
LEMMA MadeOnTop ==
  ASSUME NEW B, NEW have, NEW H, NEW x, NEW s, NEW t, Has(s, x),
         Made(s, B, have, H), Made(t, B, have \cup {<<"set", x>>}, H)
  PROVE  Made(s \o t, B, have, H)
<1> PICK st : st = s \o t
  OBVIOUS
<1>1. Appended(st, s, t)
  BY InTurn DEF Made
<1>2. PICK m \in DOMAIN s :
        s[m].do = "deploy" /\ s[m].what = <<"set", x>> /\ s[m].in = {}
  BY DEF Has
<1>3. ASSUME NEW i \in DOMAIN st
      PROVE  MayCreate(st[i], B) /\ (st[i].ends \in H \/ Founded(st, i, have))
  <2>1. CASE i \in DOMAIN s
    <3>1. st[i] = s[i] /\ \A j \in 1 .. i - 1 : st[j] = s[j]
      BY <1>1, <2>1 DEF Appended
    <3> QED
      BY <2>1, <3>1 DEF Made, Founded
  <2>2. ASSUME NEW n \in DOMAIN t, i = Len(s) + n
        PROVE  MayCreate(st[i], B) /\ (st[i].ends \in H \/ Founded(st, i, have))
    <3>1. st[i] = t[n]
      BY <1>1, <2>2 DEF Appended
    <3>2. \A j \in 1 .. n - 1 :
            j \in DOMAIN t /\ Len(s) + j \in 1 .. i - 1 /\ st[Len(s) + j] = t[j]
      BY <1>1, <2>2 DEF Appended
    <3>3. MayCreate(t[n], B)
          /\ (t[n].ends \in H \/ Founded(t, n, have \cup {<<"set", x>>}))
      BY DEF Made
    <3>4. m \in 1 .. i - 1 /\ st[m] = s[m]
      BY <1>1, <2>2 DEF Appended
    <3>5. ASSUME NEW j \in 1 .. n - 1, NEW o, Lays(t[j], o, t[n])
          PROVE  \E l \in 1 .. i - 1 : Lays(st[l], o, st[i])
      BY <3>1, <3>2, <3>5
    <3>6. \E l \in 1 .. i - 1 : Lays(st[l], <<"set", x>>, st[i])
      <4>1. Lays(st[m], <<"set", x>>, st[i])
        BY <1>2, <3>4 DEF Lays
      <4> QED
        BY <3>4, <4>1
    <3>7. Founded(t, n, have \cup {<<"set", x>>}) => Founded(st, i, have)
      BY <3>1, <3>5, <3>6 DEF Founded
    <3> QED
      BY <3>1, <3>3, <3>7
  <2> QED
    BY <1>1, <2>1, <2>2 DEF Appended
<1>4. Made(st, B, have, H)
  BY <1>1, <1>3 DEF Made, Appended
<1> QED
  BY <1>4

LEMMA WithinRenames ==
  ASSUME NEW b, NEW s, List(s), \A i \in DOMAIN s : IsCall(s[i])
  PROVE  /\ List(Within(b, s)) /\ DOMAIN Within(b, s) = DOMAIN s
         /\ \A i \in DOMAIN s :
              /\ IsCall(Within(b, s)[i])
              /\ Within(b, s)[i].do = s[i].do /\ Within(b, s)[i].what = s[i].what
              /\ Within(b, s)[i].in = s[i].in \cup {b} /\ Within(b, s)[i].ends = s[i].ends
<1> PICK t : t = Within(b, s)
  OBVIOUS
<1>1. DOMAIN t = DOMAIN s /\ \A i \in DOMAIN s : t[i] = [s[i] EXCEPT !.in = @ \cup {b}]
  BY DEF Within
<1>2. \A i \in DOMAIN s :
        /\ IsCall(t[i])
        /\ t[i].do = s[i].do /\ t[i].what = s[i].what
        /\ t[i].in = s[i].in \cup {b} /\ t[i].ends = s[i].ends
  BY <1>1 DEF IsCall
<1>3. List(t)
  <2>1. PICK K : s \in Seq(K)
    BY DEF List
  <2>2. PICK L : L = {t[i] : i \in DOMAIN s}
    OBVIOUS
  <2>3. Len(s) \in Nat /\ DOMAIN s = 1 .. Len(s) /\ t = [i \in 1 .. Len(s) |-> t[i]]
    BY <2>1, <1>1 DEF Within
  <2>4. t \in Seq(L)
    BY <1>1, <2>2, <2>3
  <2> QED
    BY <2>4 DEF List
<1> QED
  BY <1>1, <1>2, <1>3

LEMMA CaughtRenames ==
  ASSUME NEW b, NEW s, List(s), \A i \in DOMAIN s : IsCall(s[i])
  PROVE  /\ List(Caught(b, s)) /\ DOMAIN Caught(b, s) = DOMAIN s
         /\ \A i \in DOMAIN s :
              /\ IsCall(Caught(b, s)[i])
              /\ Caught(b, s)[i].do = s[i].do /\ Caught(b, s)[i].what = s[i].what
              /\ Caught(b, s)[i].in = s[i].in
              /\ Caught(b, s)[i].ends = IF s[i].ends = "handler" THEN b ELSE s[i].ends
<1> PICK t : t = Caught(b, s)
  OBVIOUS
<1>1. /\ DOMAIN t = DOMAIN s
      /\ \A i \in DOMAIN s :
           t[i] = [s[i] EXCEPT !.ends = IF @ = "handler" THEN b ELSE @]
  BY DEF Caught
<1>2. \A i \in DOMAIN s :
        /\ IsCall(t[i])
        /\ t[i].do = s[i].do /\ t[i].what = s[i].what
        /\ t[i].in = s[i].in
        /\ t[i].ends = IF s[i].ends = "handler" THEN b ELSE s[i].ends
  BY <1>1 DEF IsCall
<1>3. List(t)
  <2>1. PICK K : s \in Seq(K)
    BY DEF List
  <2>2. PICK L : L = {t[i] : i \in DOMAIN s}
    OBVIOUS
  <2>3. Len(s) \in Nat /\ DOMAIN s = 1 .. Len(s) /\ t = [i \in 1 .. Len(s) |-> t[i]]
    BY <2>1, <1>1 DEF Caught
  <2>4. t \in Seq(L)
    BY <1>1, <2>2, <2>3
  <2> QED
    BY <2>4 DEF List
<1> QED
  BY <1>1, <1>2, <1>3

LEMMA MadeWithin ==
  ASSUME NEW B, NEW have, NEW H, NEW b, NEW s, Made(s, B, have, H),
         b \notin Quiet \cup {"handler"} \/ \A i \in DOMAIN s : s[i].do \notin Brings
  PROVE  Made(Within(b, s), B, have, H)
<1> PICK t : t = Within(b, s)
  OBVIOUS
<1>1. List(s) /\ \A i \in DOMAIN s : IsCall(s[i])
  BY DEF Made, MayCreate
<1>2. /\ List(t) /\ DOMAIN t = DOMAIN s
      /\ \A i \in DOMAIN s :
           /\ IsCall(t[i]) /\ t[i].do = s[i].do /\ t[i].what = s[i].what
           /\ t[i].in = s[i].in \cup {b} /\ t[i].ends = s[i].ends
  BY <1>1, WithinRenames
<1>3. ASSUME NEW i \in DOMAIN s
      PROVE  MayCreate(t[i], B) /\ (t[i].ends \in H \/ Founded(t, i, have))
  <2>1. MayCreate(s[i], B) /\ (s[i].ends \in H \/ Founded(s, i, have))
    BY DEF Made
  <2>3. needs(t[i]) = needs(s[i])
    BY <1>2 DEF needs
  <2>2. MayCreate(t[i], B)
    BY <1>2, <2>1, <2>3 DEF MayCreate
  <2>4. \A j \in 1 .. i - 1 : j \in DOMAIN s
    BY <1>1 DEF List
  <2>5. ASSUME NEW j \in 1 .. i - 1, NEW o, Lays(s[j], o, s[i]) PROVE Lays(t[j], o, t[i])
    BY <1>2, <2>4, <2>5 DEF Lays
  <2>6. Founded(s, i, have) => Founded(t, i, have)
    BY <2>3, <2>5 DEF Founded
  <2> QED
    BY <1>2, <2>1, <2>2, <2>6
<1> QED
  BY <1>2, <1>3 DEF Made

\* What is caught may need less.
LEMMA MadeCaught ==
  ASSUME NEW B, NEW have, NEW H, NEW G, NEW b, NEW s, Made(s, B, have, G),
         G = {} \/ (G = {"handler"} /\ b \in H)
  PROVE  Made(Caught(b, s), B, have, H)
<1> PICK t : t = Caught(b, s)
  OBVIOUS
<1>1. List(s) /\ \A i \in DOMAIN s : IsCall(s[i])
  BY DEF Made, MayCreate
<1>2. /\ List(t) /\ DOMAIN t = DOMAIN s
      /\ \A i \in DOMAIN s :
           /\ IsCall(t[i]) /\ t[i].do = s[i].do /\ t[i].what = s[i].what
           /\ t[i].in = s[i].in
           /\ t[i].ends = IF s[i].ends = "handler" THEN b ELSE s[i].ends
  BY <1>1, CaughtRenames
<1>3. ASSUME NEW i \in DOMAIN s
      PROVE  MayCreate(t[i], B) /\ (t[i].ends \in H \/ Founded(t, i, have))
  <2>1. MayCreate(s[i], B) /\ (s[i].ends \in G \/ Founded(s, i, have))
    BY DEF Made
  <2>3. needs(t[i]) = needs(s[i])
    BY <1>2 DEF needs
  <2>2. MayCreate(t[i], B)
    BY <1>2, <2>1, <2>3 DEF MayCreate
  <2>4. \A j \in 1 .. i - 1 : j \in DOMAIN s
    BY <1>1 DEF List
  <2>5. ASSUME NEW j \in 1 .. i - 1, NEW o, Lays(s[j], o, s[i]) PROVE Lays(t[j], o, t[i])
    BY <1>2, <2>4, <2>5 DEF Lays
  <2>6. Founded(s, i, have) => Founded(t, i, have)
    BY <2>3, <2>5 DEF Founded
  <2>7. s[i].ends \in G => t[i].ends \in H
    BY <1>2
  <2> QED
    BY <2>1, <2>2, <2>6, <2>7
<1> QED
  BY <1>2, <1>3 DEF Made

LEMMA NothingIsMade ==
  ASSUME NEW B, NEW have, NEW H
  PROVE  Made(<<>>, B, have, H)
<1>1. List(<<>>)
  <2>1. <<>> \in Seq({})
    OBVIOUS
  <2> QED
    BY <2>1 DEF List
<1>2. DOMAIN <<>> = {}
  OBVIOUS
<1> QED
  BY <1>1, <1>2 DEF Made

LEMMA MadeWhen ==
  ASSUME NEW B, NEW have, NEW H, NEW condition, NEW s,
         condition => Made(s, B, have, H)
  PROVE  Made(When(condition, s), B, have, H)
BY NothingIsMade DEF When

LEMMA MadeTry ==
  ASSUME NEW B, NEW have, NEW H, NEW G, NEW b, NEW s, Made(s, B, have, G),
         G = {} \/ (G = {"handler"} /\ b \in H), b \notin Quiet \cup {"handler"}
  PROVE  Made(Try(b, s), B, have, H)
BY MadeCaught, MadeWithin DEF Try

LEMMA MadeIf ==
  ASSUME NEW B, NEW have, NEW H, NEW b, NEW s, NEW t,
         Made(s, B, have, {}), Made(t, B, have, H), b \notin Quiet \cup {"handler"}
  PROVE  Made(If(b, s, t), B, have, H)
BY MadeTry, MadeWithin, MadeInTurn DEF If

LEMMA MadeEasier ==
  ASSUME NEW B, NEW have, NEW H, NEW s, Made(s, B, have, {})
  PROVE  Made(s, B, have, H)
BY DEF Made

----------------------------------------------------------------------------
(* What the components consist of.                                         *)

Web(names) == {"ingress", "route", "middleware"} \X names

\* The objects that are created for c and deleted with it.
Belongs(c) ==
  CASE c = "redis" -> {<<"set", "redis">>, <<"redis", "user">>}
    [] c = "registry" -> {<<"set", "registry">>, <<"secret", "registry-auth">>,
                          <<"secret", "registry-pull">>} \cup Web({"registry"})
    [] c = "minio" ->
         {<<"set", "minio">>} \cup Web({"minio-upload", "minio-s3", "minio-console"})
           \cup ({"minio"} \X {"user", "nuvolaris-data", "nuvolaris-web", "content",
                               "policy"})
    [] c = "seaweedfs" ->
         {<<"set", "seaweedfs">>} \cup Web({"seaweedfs-s3", "seaweedfs-filer"})
           \cup ({"seaweedfs"} \X {"nuvolaris-data", "anonymous", "nuvolaris-web",
                                   "public", "content", "user"})
    [] c = "static" -> {<<"set", "static">>} \cup Web({"static", "www-static"})
    [] c = "postgres" -> {"set"} \X {"postgres-operator", "postgres", "postgres-backup"}
    [] c = "mongodb" -> {<<"set", "ferretdb">>}
    [] c = "openwhisk" -> {"set"} \X {"controller", "enterprise-controller"}
    [] c = "endpoint" -> Web({"apihost", "apihost-my", "apihost-info", "apihost-www-my"})
    [] c = "monitoring" -> {"set"} \X {"monitoring", "alert-manager"}
    [] c = "milvus" -> {<<"set", "milvus">>}
                         \cup (Store \X {"milvus", "milvus-bucket", "milvus-policy"})
                         \cup ({"milvus"} \X {"user", "database", "role"})
    [] c = "redeployment" -> {"set"} \X {"invoker", "controller", "enterprise-controller"}
    [] c = "minio-ingresses" -> Web({"minio-upload", "minio-s3", "minio-console"})
    [] c \in {"whisk_post_create", "seaweedfs-ingresses"} -> {}
    [] OTHER -> {<<"set", c>>}

LEMMA DeployIsMade ==
  ASSUME NEW B, NEW have, NEW H, NEW x, <<"set", x>> \in B
  PROVE  Made(Deploy(x), B, have, H)
BY CallIsMade DEF Deploy, Brings, needs

LEMMA ApplyIsMade ==
  ASSUME NEW B, NEW have, NEW H, NEW kind, NEW x, <<kind, x>> \in B
  PROVE  Made(Apply(kind, x), B, have, H)
BY CallIsMade DEF Apply, Brings, needs

LEMMA NoteIsMade ==
  ASSUME NEW B, NEW have, NEW H, NEW x
  PROVE  Made(Note(x), B, have, H)
BY CallIsMade DEF Note, Brings, needs

LEMMA PutIsMade ==
  ASSUME NEW B, NEW have, NEW H, NEW store, NEW x,
         <<store, x>> \in B, <<"set", store>> \in have, store # "preloader"
  PROVE  Made(Put(store, x), B, have, H)
BY CallIsMade DEF Put, Brings, needs

LEMMA MakeIsMade ==
  ASSUME NEW B, NEW have, NEW H, NEW store, NEW x,
         <<store, x>> \in B, <<"set", store>> \in have, store # "preloader"
  PROVE  Made(Make(store, x), B, have, H)
BY CallIsMade DEF Make, Brings, needs

LEMMA LookIsMade ==
  ASSUME NEW B, NEW have, NEW H, NEW kind, NEW x,
         kind \in {"set", "note"}, x # "preloader", <<kind, x>> \in have
  PROVE  Made(Look(kind, x), B, have, H)
BY CallIsMade DEF Look, Brings, needs

LEMMA LookMayFail ==
  ASSUME NEW B, NEW have, NEW H, NEW kind, NEW x,
         kind \in {"set", "note"}, x # "preloader", "handler" \in H
  PROVE  Made(Look(kind, x), B, have, H)
BY CallIsMade DEF Look, Brings, needs

LEMMA RolloutMayFail ==
  ASSUME NEW B, NEW have, NEW H, NEW x, x # "preloader", "handler" \in H
  PROVE  Made(Rollout(x), B, have, H)
BY CallIsMade DEF Rollout, Brings, needs

\* A Look for what is there, and then an annotation.
LEMMA LookAndNote ==
  ASSUME NEW B, NEW have, NEW H, NEW x, NEW y, NEW b, <<"set", x>> \in have,
         x # "preloader", b \notin Quiet \cup {"handler"}
  PROVE  Made(Try(b, Look("set", x) \o Note(y)), B, have, H)
<1>1. Made(Look("set", x) \o Note(y), B, have, {})
  BY LookIsMade, NoteIsMade, MadeInTurn
<1> QED
  BY <1>1, MadeTry

\* An ingress, or a route, of a name.
LEMMA IngressIsMade ==
  ASSUME NEW B, NEW have, NEW H, NEW s, NEW name, Web({name}) \subseteq B
  PROVE  /\ Made(Apply("ingress", name), B, have, H)
         /\ Made(route(name), B, have, H)
         /\ Made(middleware(s, name), B, have, H)
         /\ Made(ingress(s, name), B, have, H)
<1>1. {<<"ingress", name>>, <<"route", name>>, <<"middleware", name>>} \subseteq B
  BY DEF Web
<1>2. /\ Made(Apply("ingress", name), B, have, H)
      /\ Made(Apply("route", name), B, have, H)
      /\ Made(Apply("middleware", name), B, have, H)
  BY <1>1, ApplyIsMade
<1>3. Made(middleware(s, name), B, have, H)
  BY <1>2, MadeWhen DEF middleware
<1> QED
  BY <1>2, <1>3, MadeInTurn DEF route, ingress

----------------------------------------------------------------------------
(* What the functions create of the components ask for.                    *)

LEMMA EasyCreations ==
  ASSUME NEW have, NEW H
  PROVE  /\ Made(preloader_create, Belongs("preloader"), have, H)
         /\ Made(couchdb_create, Belongs("couchdb"), have, H)
         /\ Made(cron_create, Belongs("cron"), have, H)
         /\ Made(zookeeper_create, Belongs("zookeeper"), have, H)
         /\ Made(kafka_create, Belongs("kafka"), have, H)
         /\ Made(invoker_create, Belongs("invoker"), have, H)
         /\ Made(etcd_create, Belongs("etcd"), have, H)
         /\ Made(quota_create, Belongs("quota"), have, H)
<1>1. /\ <<"set", "preloader">> \in Belongs("preloader")
      /\ <<"set", "couchdb">> \in Belongs("couchdb")
      /\ <<"set", "cron">> \in Belongs("cron")
      /\ <<"set", "zookeeper">> \in Belongs("zookeeper")
      /\ <<"set", "kafka">> \in Belongs("kafka")
      /\ <<"set", "invoker">> \in Belongs("invoker")
      /\ <<"set", "etcd">> \in Belongs("etcd")
      /\ <<"set", "quota">> \in Belongs("quota")
  BY DEF Belongs
<1>2. Made(quota_create, Belongs("quota"), have, H)
  BY <1>1, DeployIsMade, MadeTry DEF quota_create, Quiet
<1> QED
  BY <1>1, <1>2, DeployIsMade
     DEF preloader_create, couchdb_create, cron_create, zookeeper_create, kafka_create,
         invoker_create, etcd_create

LEMMA OpenwhiskIsMade ==
  ASSUME NEW s, NEW have, NEW H, NEW B,
         <<"set", "controller">> \in B, <<"set", "enterprise-controller">> \in B
  PROVE  Made(openwhisk_create(s), B, have, H)
BY DeployIsMade DEF openwhisk_create, enterprise_create, standalone_create

LEMMA IssuerIsMade ==
  ASSUME NEW have, NEW H
  PROVE  Made(issuer_create, Belongs("issuer"), have, H)
<1>1. <<"set", "issuer">> \in Belongs("issuer")
  BY DEF Belongs
<1>2. Made(Call("record", <<"set", "issuer">>), Belongs("issuer"), have, H)
  BY CallIsMade DEF Brings, needs
<1> QED
  BY <1>1, <1>2, ApplyIsMade, MadeInTurn DEF issuer_create

LEMMA RedisIsMade ==
  ASSUME NEW H
  PROVE  Made(redis_create, Belongs("redis"), {}, H)
<1> DEFINE B == Belongs("redis")
           have == {<<"set", "redis">>}
<1>1. <<"set", "redis">> \in B /\ <<"redis", "user">> \in B
  BY DEF Belongs
<1> HIDE DEF B
<1>2. /\ Made(Put("redis", "user"), B, have, {})
      /\ Made(Look("set", "redis"), B, have, {})
      /\ Made(Note("redis"), B, have, {})
  BY <1>1, PutIsMade, LookIsMade, NoteIsMade
<1>3. Made(Put("redis", "user") \o Look("set", "redis") \o Note("redis"), B, have, {})
  BY <1>2, MadeInTurn
<1>4. Made(create_nuvolaris_db_user, B, have, H)
  BY <1>3, MadeTry DEF create_nuvolaris_db_user, Quiet
<1>5. Made(create_nuvolaris_db_user, B, {} \cup have, H)
  BY <1>4
<1>6. Made(Deploy("redis"), B, {}, H)
  BY <1>1, DeployIsMade
<1>7. Made(redis_create, B, {}, H)
  BY <1>5, <1>6, MadeOnTop, DeployHas DEF redis_create
<1> QED
  BY <1>7 DEF B

LEMMA PostgresIsMade ==
  ASSUME NEW s, NEW H
  PROVE  Made(postgres_create(s), Belongs("postgres"), {}, H)
<1> DEFINE B == Belongs("postgres")
           have == {<<"set", "postgres">>}
           Both == Deploy("postgres-operator") \o Deploy("postgres")
           Backup == When("backup" \in s.options, Deploy("postgres-backup"))
<1>1. /\ <<"set", "postgres-operator">> \in B
      /\ <<"set", "postgres">> \in B
      /\ <<"set", "postgres-backup">> \in B
  BY DEF Belongs
<1> HIDE DEF B
<1>2. /\ Made(Deploy("postgres-operator"), B, {}, H)
      /\ Made(Deploy("postgres"), B, {}, H)
      /\ Made(Deploy("postgres-backup"), B, {}, H)
  BY <1>1, DeployIsMade
<1>3. Made(Both \o Backup, B, {}, H)
  BY <1>2, MadeWhen, MadeInTurn
<1>4. Has(Both \o Backup, "postgres")
  <2>1. Has(Both, "postgres")
    BY <1>2, DeployHas, HasInTurn DEF Made
  <2>2. Made(Both, B, {}, H) /\ Made(Backup, B, {}, H)
    BY <1>2, MadeWhen, MadeInTurn
  <2> QED
    BY <2>1, <2>2, HasInTurn DEF Made
<1>5. Made(update_system_cm_for_pdb, B, {} \cup have, H)
  BY LookAndNote DEF update_system_cm_for_pdb, Quiet
<1> HIDE DEF Both, Backup
<1>6. Made(Both \o Backup \o update_system_cm_for_pdb, B, {}, H)
  BY <1>3, <1>4, <1>5, MadeOnTop
<1> QED
  BY <1>6 DEF B, Both, Backup, postgres_create

LEMMA WebPart ==
  ASSUME NEW names, NEW name \in names
  PROVE  Web({name}) \subseteq Web(names)
BY DEF Web

LEMMA FerretdbIsMade ==
  ASSUME NEW H, "nothing" \in H
  PROVE  Made(ferretdb_create, Belongs("mongodb"), {}, H)
<1> DEFINE B == Belongs("mongodb")
           have == {<<"set", "ferretdb">>}
<1>1. <<"set", "ferretdb">> \in B
  BY DEF Belongs
<1> HIDE DEF B
<1>2. Made(Look("set", "postgres"), B, {}, {"handler"})
  BY LookMayFail
<1>3. Made(enrich_ferretdb_data, B, {}, H)
  <2>1. Made(Caught("nothing", Look("set", "postgres")), B, {}, H)
    BY <1>2, MadeCaught, Zenon
  <2> QED
    BY <2>1 DEF enrich_ferretdb_data, Unchecked
<1>4. Made(Deploy("ferretdb"), B, {}, H)
  BY <1>1, DeployIsMade
<1>5. Made(enrich_ferretdb_data \o Deploy("ferretdb"), B, {}, H)
  BY <1>3, <1>4, MadeInTurn
<1>6. Has(enrich_ferretdb_data \o Deploy("ferretdb"), "ferretdb")
  BY <1>3, <1>4, DeployHas, HasInTurn DEF Made
<1>7. Made(update_system_cm_for_mdb, B, {} \cup have, H)
  BY LookAndNote DEF update_system_cm_for_mdb, Quiet
<1>8. Made(ferretdb_create, B, {}, H)
  BY <1>5, <1>6, <1>7, MadeOnTop DEF ferretdb_create
<1> QED
  BY <1>8 DEF B

LEMMA RegistryIsMade ==
  ASSUME NEW s, NEW H
  PROVE  Made(registry_create(s), Belongs("registry"), {}, H)
<1> DEFINE B == Belongs("registry")
<1>1. /\ <<"set", "registry">> \in B
      /\ <<"secret", "registry-auth">> \in B
      /\ <<"secret", "registry-pull">> \in B
      /\ Web({"registry"}) \subseteq B
  BY DEF Belongs
<1> HIDE DEF B
<1>2. Made(annotate_registry_metadata, B, {}, H)
  BY NoteIsMade, MadeTry DEF annotate_registry_metadata, Quiet
<1>3. /\ Made(Apply("secret", "registry-auth"), B, {}, H)
      /\ Made(Apply("secret", "registry-pull"), B, {}, H)
  BY <1>1, ApplyIsMade
<1>4. Made(create_external_registry, B, {}, H)
  BY <1>2, <1>3, MadeInTurn DEF create_external_registry
<1>5. Made(create_registry_ingress(s), B, {}, H)
  BY <1>1, IngressIsMade
     DEF create_registry_ingress, deploy_registry_route, deploy_registry_ingress
<1>6. Made(Deploy("registry"), B, {}, H)
  BY <1>1, DeployIsMade
<1>7. Made(create_internal_registry(s), B, {}, H)
  BY <1>2, <1>5, <1>6, MadeInTurn, MadeWhen DEF create_internal_registry
<1> QED
  BY <1>4, <1>7 DEF registry_create, B

LEMMA MonitoringIsMade ==
  ASSUME NEW s, NEW H, "handler" \in H
  PROVE  Made(monitoring_create(s), Belongs("monitoring"), {}, H)
<1> DEFINE B == Belongs("monitoring")
<1>1. <<"set", "monitoring">> \in B /\ <<"set", "alert-manager">> \in B
  BY DEF Belongs
<1> HIDE DEF B
<1>2. Made(Deploy("alert-manager") \o Deploy("monitoring"), B, {}, H)
  BY <1>1, DeployIsMade, MadeInTurn
<1>3. Made(Call("raise", <<"error", "data">>), B, {}, H)
  BY CallIsMade DEF Brings, needs
<1> QED
  BY <1>2, <1>3 DEF monitoring_create, B

LEMMA ContentIsMade ==
  ASSUME NEW B, NEW have, NEW H, NEW s, NEW name, Web({name}) \subseteq B
  PROVE  Made(deploy_content(s, name), B, have, H)
BY IngressIsMade DEF deploy_content

\* The annotation is what the ingress of the web content looks for.
LEMMA StaticIsMade ==
  ASSUME NEW s, NEW have, NEW H, "handler" \in H \/ <<"note", "s3_bucket_static">> \in have
  PROVE  Made(static_create(s), Belongs("static"), have, H)
<1> DEFINE B == Belongs("static")
<1>1. <<"set", "static">> \in B /\ Web({"static", "www-static"}) \subseteq B
  BY DEF Belongs
<1> HIDE DEF B
<1>2. Web({"static"}) \subseteq B /\ Web({"www-static"}) \subseteq B
  BY <1>1, WebPart
<1>3. Made(Deploy("static"), B, have, H)
  BY <1>1, DeployIsMade
<1>4. Made(Look("note", "s3_bucket_static"), B, have, H)
  BY LookIsMade, LookMayFail
<1>5. Made(deploy_content(s, "static"), B, have, H)
  BY <1>2, ContentIsMade
<1>6. Made(Www(s, deploy_content(s, "www-static")), B, have, H)
  BY <1>2, ContentIsMade, MadeWhen DEF Www
<1>7. Made(create_nuv_static_ingress(s), B, have, H)
  BY <1>4, <1>5, <1>6, MadeInTurn DEF create_nuv_static_ingress
<1> QED
  BY <1>3, <1>7, MadeInTurn DEF static_create, B

LEMMA EndpointIsMade ==
  ASSUME NEW s, NEW have, NEW H
  PROVE  Made(endpoint_create(s), Belongs("endpoint"), have, H)
<1> DEFINE B == Belongs("endpoint")
<1>1. Web({"apihost", "apihost-my", "apihost-info", "apihost-www-my"}) \subseteq B
  BY DEF Belongs
<1> HIDE DEF B
<1>2. /\ Web({"apihost"}) \subseteq B
      /\ Web({"apihost-my"}) \subseteq B
      /\ Web({"apihost-info"}) \subseteq B
      /\ Web({"apihost-www-my"}) \subseteq B
  BY <1>1, WebPart
<1>3. /\ Made(deploy_info_route, B, have, H)
      /\ Made(deploy_info_ingress(s), B, have, H)
  BY <1>2, IngressIsMade DEF deploy_info_route, deploy_info_ingress
<1>4. Made(deploy_api_routes(s), B, have, H)
  <2>1. /\ Made(route("apihost"), B, have, H)
        /\ Made(route("apihost-my"), B, have, H)
        /\ Made(Www(s, route("apihost-www-my")), B, have, H)
    BY <1>2, IngressIsMade, MadeWhen DEF Www
  <2> QED
    BY <2>1, MadeInTurn DEF deploy_api_routes
<1>5. Made(deploy_api_ingresses(s), B, have, H)
  <2>1. /\ Made(middleware(s, "apihost"), B, have, H)
        /\ Made(middleware(s, "apihost-my"), B, have, H)
        /\ Made(Apply("ingress", "apihost"), B, have, H)
        /\ Made(Apply("ingress", "apihost-my"), B, have, H)
        /\ Made(Www(s, ingress(s, "apihost-www-my")), B, have, H)
    BY <1>2, IngressIsMade, MadeWhen DEF Www
  <2>2. Made(middleware(s, "apihost") \o middleware(s, "apihost-my"), B, have, H)
    BY <2>1, MadeInTurn
  <2>3. Made(middleware(s, "apihost") \o middleware(s, "apihost-my")
               \o Apply("ingress", "apihost") \o Apply("ingress", "apihost-my"), B, have, H)
    BY <2>1, <2>2, MadeInTurn
  <2> QED
    BY <2>1, <2>3, MadeInTurn DEF deploy_api_ingresses
<1>6. Made(Note("apihost"), B, have, H)
  BY NoteIsMade
<1>7. Made(IF OnOpenShift(s) THEN deploy_info_route \o deploy_api_routes(s)
           ELSE deploy_info_ingress(s) \o deploy_api_ingresses(s), B, have, H)
  BY <1>3, <1>4, <1>5, MadeInTurn
<1> QED
  BY <1>6, <1>7, MadeInTurn DEF endpoint_create, B

\* The call that saves the metadata is alone in its block.
LEMMA SaveIsMade ==
  ASSUME NEW B, NEW have, NEW H, "metadata" \in H
  PROVE  Made(update_nuvolaris_metadata, B, have, H)
<1> PICK k : k = [do |-> "save", what |-> <<"couchdb", "metadata">>, in |-> {},
                  ends |-> "handler"]
  OBVIOUS
<1>1. save_nuvolaris_metadata = <<k>>
  BY DEF save_nuvolaris_metadata, Call
<1>2. Made(save_nuvolaris_metadata, B, have, {"handler"})
  BY CallIsMade DEF save_nuvolaris_metadata, Brings, needs
<1> PICK t : t = Caught("metadata", save_nuvolaris_metadata)
  OBVIOUS
<1>3. Made(t, B, have, H)
  BY <1>2, MadeCaught
<1>4. DOMAIN t = DOMAIN <<k>> /\ \A i \in DOMAIN <<k>> : t[i].do = <<k>>[i].do
  BY <1>1, <1>2, CaughtRenames DEF Made, MayCreate
<1>5. k.do \notin Brings /\ \A i \in DOMAIN <<k>> : <<k>>[i] = k
  BY Single DEF Brings
<1>6. \A i \in DOMAIN t : t[i].do \notin Brings
  BY <1>4, <1>5
<1>7. Made(Within("metadata", t), B, have, H)
  BY <1>3, <1>6, MadeWithin
<1> QED
  BY <1>7 DEF update_nuvolaris_metadata, Try

LEMMA PostCreateIsMade ==
  ASSUME NEW have, NEW H, "metadata" \in H
  PROVE  Made(whisk_post_create, Belongs("whisk_post_create"), have, H)
<1> DEFINE B == Belongs("whisk_post_create")
<1> HIDE DEF B
<1>1. Made(update_nuvolaris_metadata, B, have, H)
  BY SaveIsMade
<1>2. Made(annotate_operator_components_version, B, have, H)
  BY NoteIsMade, MadeTry DEF annotate_operator_components_version, Quiet
<1>3. Made(Note("system_action_status"), B, have, H)
  BY NoteIsMade
<1> QED
  BY <1>1, <1>2, <1>3, MadeInTurn DEF whisk_post_create, B

LEMMA UncheckedIsMade ==
  ASSUME NEW B, NEW have, NEW H, NEW s, Made(s, B, have, {})
  PROVE  Made(Unchecked(s), B, have, H)
BY MadeCaught DEF Unchecked

LEMMA MinioIngressesAreMade ==
  ASSUME NEW s, NEW B, NEW have, NEW H,
         Web({"minio-upload", "minio-s3", "minio-console"}) \subseteq B
  PROVE  Made(create_minio_ingresses(s), B, have, H)
<1>1. /\ Web({"minio-upload"}) \subseteq B
      /\ Web({"minio-s3"}) \subseteq B
      /\ Web({"minio-console"}) \subseteq B
  BY WebPart
<1>2. Made(create_api_uploader_endpoint(s), B, have, H)
  BY <1>1, IngressIsMade
     DEF create_api_uploader_endpoint, deploy_minio_upload_route, deploy_minio_upload_ingress
<1>3. Made(expose_minio(s, "minio-s3"), B, have, H)
  BY <1>1, IngressIsMade DEF expose_minio, deploy_minio_route, deploy_minio_ingress
<1>4. Made(expose_minio(s, "minio-console"), B, have, H)
  BY <1>1, IngressIsMade DEF expose_minio, deploy_minio_route, deploy_minio_ingress
<1>5. Made(Note("s3_api_url"), B, have, H) /\ Made(Note("s3_console_url"), B, have, H)
  BY NoteIsMade
<1>6. /\ Made(expose_minio(s, "minio-s3") \o Note("s3_api_url"), B, have, H)
      /\ Made(expose_minio(s, "minio-console") \o Note("s3_console_url"), B, have, H)
  BY <1>3, <1>4, <1>5, MadeInTurn
<1>7. /\ Made(When("s3-ingress" \in s.options,
                   expose_minio(s, "minio-s3") \o Note("s3_api_url")), B, have, H)
      /\ Made(When("console-ingress" \in s.options,
                   expose_minio(s, "minio-console") \o Note("s3_console_url")), B, have, H)
  BY <1>6, MadeWhen
<1> QED
  BY <1>2, <1>7, MadeInTurn DEF create_minio_ingresses

LEMMA MinioIsMade ==
  ASSUME NEW s, NEW H
  PROVE  Made(minio_create(s), Belongs("minio"), {}, H)
<1> DEFINE B == Belongs("minio")
           have == {<<"set", "minio">>}
           Data == If("data", Make("minio", "nuvolaris-data"), Note("s3_bucket_data"))
           Content == Note("s3_bucket_static") \o Unchecked(Put("minio", "content"))
           Web_ == If("web", Make("minio", "nuvolaris-web"), Content)
           Policy == Unchecked(Put("minio", "policy"))
<1>1. /\ <<"set", "minio">> \in B
      /\ Web({"minio-upload", "minio-s3", "minio-console"}) \subseteq B
      /\ <<"minio", "user">> \in B /\ <<"minio", "content">> \in B
      /\ <<"minio", "policy">> \in B /\ <<"minio", "nuvolaris-data">> \in B
      /\ <<"minio", "nuvolaris-web">> \in B
  BY DEF Belongs
<1> HIDE DEF B
<1>2. /\ Made(Put("minio", "user"), B, have, {})
      /\ Made(Put("minio", "content"), B, have, {})
      /\ Made(Put("minio", "policy"), B, have, {})
      /\ Made(Make("minio", "nuvolaris-data"), B, have, {})
      /\ Made(Make("minio", "nuvolaris-web"), B, have, {})
  BY <1>1, PutIsMade, MakeIsMade
<1>3. /\ Made(Note("s3_bucket_data"), B, have, {})
      /\ Made(Note("s3_bucket_static"), B, have, {})
  BY NoteIsMade
<1>4. Made(minio_annotate, B, have, {})
  <2>1. <<"set", "minio">> \in have /\ "service" \notin Quiet \cup {"handler"}
    BY DEF Quiet
  <2> HIDE DEF have
  <2>2. Made(Try("service", Look("set", "minio") \o Note("s3_host")), B, have, {})
    BY <2>1, LookAndNote
  <2> QED
    BY <2>2 DEF minio_annotate
<1>5. Made(Data, B, have, {})
  BY <1>2, <1>3, MadeIf DEF Quiet
<1>6. Made(Content, B, have, {})
  BY <1>2, <1>3, UncheckedIsMade, MadeInTurn
<1>7. Made(Web_, B, have, {})
  BY <1>2, <1>6, MadeIf DEF Quiet
<1>8. Made(Policy, B, have, {})
  BY <1>2, UncheckedIsMade
<1> HIDE DEF Data, Web_, Policy
<1>9. Made(minio_annotate \o Data \o Web_ \o Policy, B, have, {})
  BY <1>4, <1>5, <1>7, <1>8, MadeInTurn
<1>10. Made(If("user", Put("minio", "user"), minio_annotate \o Data \o Web_ \o Policy),
            B, have, {})
  BY <1>2, <1>9, MadeIf DEF Quiet
<1>11. Made(minio_create_nuv_storage, B, {} \cup have, H)
  BY <1>10, MadeEasier DEF minio_create_nuv_storage, Data, Web_, Policy
<1>12. Made(Deploy("minio"), B, {}, H)
  BY <1>1, DeployIsMade
<1>13. Made(Deploy("minio") \o minio_create_nuv_storage, B, {}, H)
  BY <1>11, <1>12, DeployHas, MadeOnTop
<1>14. Made(create_minio_ingresses(s), B, {}, H)
  BY <1>1, MinioIngressesAreMade
<1> QED
  BY <1>13, <1>14, MadeInTurn DEF minio_create, B

LEMMA SeaweedfsIsMade ==
  ASSUME NEW s, NEW H
  PROVE  Made(seaweedfs_create(s), Belongs("seaweedfs"), {}, H)
<1> DEFINE B == Belongs("seaweedfs")
           have == {<<"set", "seaweedfs">>}
<1>1. /\ <<"set", "seaweedfs">> \in B
      /\ Web({"seaweedfs-s3", "seaweedfs-filer"}) \subseteq B
      /\ <<"seaweedfs", "nuvolaris-data">> \in B /\ <<"seaweedfs", "anonymous">> \in B
      /\ <<"seaweedfs", "nuvolaris-web">> \in B /\ <<"seaweedfs", "public">> \in B
      /\ <<"seaweedfs", "content">> \in B /\ <<"seaweedfs", "user">> \in B
  BY DEF Belongs
<1> HIDE DEF B
<1>2. /\ Made(Put("seaweedfs", "nuvolaris-data"), B, have, H)
      /\ Made(Put("seaweedfs", "anonymous"), B, have, H)
      /\ Made(Put("seaweedfs", "nuvolaris-web"), B, have, H)
      /\ Made(Put("seaweedfs", "public"), B, have, H)
      /\ Made(Put("seaweedfs", "content"), B, have, H)
      /\ Made(Put("seaweedfs", "user"), B, have, H)
  BY <1>1, PutIsMade
<1>3. /\ Made(Note("s3_bucket_data"), B, have, H)
      /\ Made(Note("s3_bucket_static"), B, have, H)
  BY NoteIsMade
<1>4. Made(seaweedfs_annotate, B, have, H)
  <2>1. <<"set", "seaweedfs">> \in have /\ "service" \notin Quiet \cup {"handler"}
    BY DEF Quiet
  <2> HIDE DEF have
  <2>2. Made(Try("service", Look("set", "seaweedfs") \o Note("s3_host")), B, have, H)
    BY <2>1, LookAndNote
  <2> QED
    BY <2>2 DEF seaweedfs_annotate
<1>5. Made(Put("seaweedfs", "nuvolaris-data") \o Note("s3_bucket_data")
             \o Put("seaweedfs", "anonymous"), B, have, H)
  BY <1>2, <1>3, MadeInTurn
<1>6. Made(Put("seaweedfs", "nuvolaris-data") \o Note("s3_bucket_data")
             \o Put("seaweedfs", "anonymous")
             \o Put("seaweedfs", "nuvolaris-web") \o Put("seaweedfs", "public")
             \o Note("s3_bucket_static"), B, have, H)
  BY <1>2, <1>3, <1>5, MadeInTurn
<1>7. Made(seaweedfs_create_nuv_storage, B, {} \cup have, H)
  BY <1>2, <1>4, <1>6, MadeInTurn DEF seaweedfs_create_nuv_storage
<1>8. /\ Web({"seaweedfs-s3"}) \subseteq B
      /\ Web({"seaweedfs-filer"}) \subseteq B
  BY <1>1, WebPart
<1>9. Made(expose_seaweedfs(s, "seaweedfs-s3"), B, {}, H)
  BY <1>8, IngressIsMade DEF expose_seaweedfs, deploy_seaweedfs_route, deploy_seaweedfs_ingress
<1>10. Made(expose_seaweedfs(s, "seaweedfs-filer"), B, {}, H)
  BY <1>8, IngressIsMade DEF expose_seaweedfs, deploy_seaweedfs_route, deploy_seaweedfs_ingress
<1>11. Made(Note("s3_api_url"), B, {}, H) /\ Made(Note("s3_console_url"), B, {}, H)
  BY NoteIsMade
<1>12. /\ Made(expose_seaweedfs(s, "seaweedfs-s3") \o Note("s3_api_url"), B, {}, H)
       /\ Made(expose_seaweedfs(s, "seaweedfs-filer") \o Note("s3_console_url"), B, {}, H)
  BY <1>9, <1>10, <1>11, MadeInTurn
<1>13. Made(create_seaweedfs_ingresses(s), B, {}, H)
  BY <1>12, MadeWhen, MadeInTurn DEF create_seaweedfs_ingresses
<1>14. Made(Deploy("seaweedfs"), B, {}, H)
  BY <1>1, DeployIsMade
<1>15. Made(Deploy("seaweedfs") \o create_seaweedfs_ingresses(s), B, {}, H)
  BY <1>13, <1>14, MadeInTurn
<1>16. Has(Deploy("seaweedfs") \o create_seaweedfs_ingresses(s), "seaweedfs")
  BY <1>13, <1>14, DeployHas, HasInTurn DEF Made
<1> QED
  BY <1>7, <1>15, <1>16, MadeOnTop DEF seaweedfs_create, B

LEMMA RedeploymentIsMade ==
  ASSUME NEW s, NEW H, {"invoker", "controller"} \subseteq H
  PROVE  Made(redeploy_whisk(s), Belongs("redeployment"), {}, H)
<1> DEFINE B == Belongs("redeployment")
<1>1. /\ <<"set", "invoker">> \in B /\ <<"set", "controller">> \in B
      /\ <<"set", "enterprise-controller">> \in B
  BY DEF Belongs
<1> HIDE DEF B
<1> PICK G : G = {"handler"}
  OBVIOUS
<1>2. Made(Rollout("invoker"), B, {}, G) /\ Made(Rollout(controller(s)), B, {}, G)
  BY RolloutMayFail DEF controller
<1>3. Made(invoker_create, B, {}, G) /\ Made(openwhisk_create(s), B, {}, G)
  BY <1>1, DeployIsMade, OpenwhiskIsMade DEF invoker_create
<1>4. /\ Made(invoker_create \o Rollout("invoker"), B, {}, G)
      /\ Made(openwhisk_create(s) \o Rollout(controller(s)), B, {}, G)
  BY <1>2, <1>3, MadeInTurn
<1>5. Made(redeploy_invoker, B, {}, H)
  <2>1. Made(Try("invoker", invoker_create \o Rollout("invoker")), B, {}, H)
    BY <1>4, MadeTry DEF Quiet
  <2> QED
    BY <2>1 DEF redeploy_invoker
<1>6. Made(redeploy_controller(s), B, {}, H)
  <2>1. Made(Try("controller", openwhisk_create(s) \o Rollout(controller(s))), B, {}, H)
    BY <1>4, MadeTry DEF Quiet
  <2> QED
    BY <2>1 DEF redeploy_controller
<1>7. Made(When("invoker" \in s.on, redeploy_invoker), B, {}, H)
  BY <1>5, MadeWhen
<1> QED
  BY <1>6, <1>7, MadeInTurn DEF redeploy_whisk, B

\* The store that the accounts of Milvus are made in.
account_store(s) == IF "minio" \in s.on THEN "minio" ELSE "seaweedfs"

LEMMA MilvusIsMade ==
  ASSUME NEW s, NEW H
  PROVE  Made(milvus_create(s), Belongs("milvus"), {<<"set", account_store(s)>>}, H)
<1> DEFINE B == Belongs("milvus")
           Accounts == create_milvus_accounts(s)
           Database == If("database", create_default_milvus_database, milvus_annotate)
<1> PICK have : have = {<<"set", account_store(s)>>}
  OBVIOUS
<1>1. /\ <<"set", "milvus">> \in B
      /\ <<"milvus", "user">> \in B /\ <<"milvus", "database">> \in B
      /\ <<"milvus", "role">> \in B
      /\ <<"minio", "milvus">> \in B /\ <<"minio", "milvus-bucket">> \in B
      /\ <<"minio", "milvus-policy">> \in B
      /\ <<"seaweedfs", "milvus">> \in B /\ <<"seaweedfs", "milvus-bucket">> \in B
  BY DEF Belongs, Store
<1> HIDE DEF B
<1>2. ASSUME "minio" \in s.on PROVE Made(Accounts, B, have, {})
  <2>1. <<"set", "minio">> \in have
    BY <1>2 DEF account_store
  <2>2. /\ Made(Put("minio", "milvus"), B, have, {})
        /\ Made(Make("minio", "milvus-bucket"), B, have, {})
        /\ Made(Put("minio", "milvus-policy"), B, have, {})
    BY <1>1, <2>1, PutIsMade, MakeIsMade
  <2>3. Made(create_minio_milvus_account, B, have, {})
    BY <2>2, MadeInTurn DEF create_minio_milvus_account
  <2> QED
    BY <1>2, <2>3 DEF create_milvus_accounts
<1>3. ASSUME "minio" \notin s.on PROVE Made(Accounts, B, have, {})
  <2>1. <<"set", "seaweedfs">> \in have
    BY <1>3 DEF account_store
  <2>2. /\ Made(Put("seaweedfs", "milvus"), B, have, {})
        /\ Made(Put("seaweedfs", "milvus-bucket"), B, have, {})
    BY <1>1, <2>1, PutIsMade
  <2>3. Made(create_seaweedfs_milvus_account, B, have, {})
    BY <2>2, MadeInTurn DEF create_seaweedfs_milvus_account
  <2> QED
    BY <1>3, <2>3 DEF create_milvus_accounts
<1>4. Made(Accounts, B, have, {})
  BY <1>2, <1>3
<1> PICK have2 : have2 = have \cup {<<"set", "milvus">>}
  OBVIOUS
<1>5. <<"set", "milvus">> \in have2
  OBVIOUS
<1>6. /\ Made(Make("milvus", "user"), B, have2, {})
      /\ Made(Make("milvus", "database"), B, have2, {})
      /\ Made(Make("milvus", "role"), B, have2, {})
  BY <1>1, <1>5, MakeIsMade
<1>7. Made(create_default_milvus_database, B, have2, {})
  BY <1>6, MadeInTurn DEF create_default_milvus_database
<1>8. Made(milvus_annotate, B, have2, H)
  <2>1. "service" \notin Quiet \cup {"handler"}
    BY DEF Quiet
  <2>2. Made(Try("service", Look("set", "milvus") \o Note("milvus")), B, have2, H)
    BY <1>5, <2>1, LookAndNote
  <2> QED
    BY <2>2 DEF milvus_annotate
<1>9. Made(Database, B, have2, H)
  BY <1>7, <1>8, MadeIf DEF Quiet
<1>10. Made(Deploy("milvus"), B, have, H)
  BY <1>1, DeployIsMade
<1> HIDE DEF Accounts, Database
<1>11. Made(Deploy("milvus") \o Database, B, have, H)
  BY <1>9, <1>10, DeployHas, MadeOnTop
<1>12. Made(If("accounts", Accounts, Deploy("milvus") \o Database), B, have, H)
  BY <1>4, <1>11, MadeIf DEF Quiet
<1>13. Made(When(Store \cap s.on # {},
                 If("accounts", Accounts, Deploy("milvus") \o Database)), B, have, H)
  BY <1>12, MadeWhen
<1> QED
  BY <1>13 DEF milvus_create, B, Accounts, Database

----------------------------------------------------------------------------
(* What is left of some calls.                                             *)

\* The calls r are those of t after the first k.
Follows(r, t, k) ==
  /\ List(r)
  /\ Len(t) \in Nat /\ DOMAIN t = 1 .. Len(t)
  /\ k \in 1 .. Len(t)
  /\ DOMAIN r = 1 .. Len(t) - k
  /\ \A i \in DOMAIN r : i + k \in DOMAIN t /\ r[i] = t[i + k]

LEMMA TailFollows ==
  ASSUME NEW t, List(t), t # <<>>
  PROVE  /\ Follows(Tail(t), t, 1)
         /\ 1 \in DOMAIN t /\ Head(t) = t[1]
<1>1. PICK K : t \in Seq(K)
  BY DEF List
<1>2. PICK r : r = Tail(t)
  OBVIOUS
<1>3. r \in Seq(K) /\ Len(r) = Len(t) - 1 /\ Len(t) \in Nat \ {0} /\ DOMAIN t = 1 .. Len(t)
  BY <1>1, <1>2
<1>4. DOMAIN r = 1 .. Len(t) - 1 /\ \A i \in DOMAIN r : i + 1 \in DOMAIN t /\ r[i] = t[i + 1]
  BY <1>1, <1>2, <1>3
<1>5. List(r)
  BY <1>3 DEF List
<1>6. Follows(r, t, 1)
  BY <1>3, <1>4, <1>5 DEF Follows
<1> QED
  BY <1>2, <1>3, <1>6

LEMMA NothingFollows ==
  ASSUME NEW t, List(t), t # <<>>
  PROVE  Follows(<<>>, t, Len(t))
<1>1. PICK K : t \in Seq(K)
  BY DEF List
<1>2. Len(t) \in Nat \ {0} /\ DOMAIN t = 1 .. Len(t)
  BY <1>1
<1>3. List(<<>>)
  BY NothingIsMade DEF Made
<1>4. DOMAIN <<>> = 1 .. Len(t) - Len(t)
  BY <1>2
<1> QED
  BY <1>2, <1>3, <1>4 DEF Follows

\* The calls that a failure of blocks leaves out are in one of the blocks.
LEMMA LeftFollows ==
  ASSUME NEW t, List(t), t # <<>>, NEW f
  PROVE  \E k : /\ Follows(left(Tail(t), f), t, k)
                /\ \A j \in 2 .. k : t[j].in \cap f # {}
<1>1. PICK K : t \in Seq(K)
  BY DEF List
<1>2. PICK r : r = Tail(t)
  OBVIOUS
<1>3. Follows(r, t, 1) /\ r \in Seq(K) /\ Len(r) = Len(t) - 1
  BY <1>1, <1>2, TailFollows
<1>4. PICK open : open = {i \in DOMAIN r : r[i].in \cap f = {}}
  OBVIOUS
<1>5. CASE open = {}
  <2>1. left(r, f) = <<>>
    BY <1>4, <1>5 DEF left
  <2>2. \A j \in 2 .. Len(t) : t[j].in \cap f # {}
    <3> SUFFICES ASSUME NEW j \in 2 .. Len(t) PROVE t[j].in \cap f # {}
      OBVIOUS
    <3>1. j - 1 \in DOMAIN r /\ r[j - 1] = t[j]
      BY <1>3 DEF Follows
    <3> QED
      BY <1>4, <1>5, <3>1
  <2> QED
    BY <1>2, <2>1, <2>2, NothingFollows
<1>6. CASE open # {}
  <2>1. open \subseteq Nat
    BY <1>3, <1>4 DEF Follows
  <2>2. PICK n : n = CHOOSE i \in open : \A j \in open : i <= j
    OBVIOUS
  <2>3. n \in open /\ \A j \in open : n <= j
    BY <1>6, <2>1, <2>2, Least
  <2>4. PICK u : u = SubSeq(r, n, Len(r))
    OBVIOUS
  <2>5. left(r, f) = u
    BY <1>4, <1>6, <2>2, <2>4 DEF left
  <2>6. n \in 1 .. Len(r) /\ Len(r) \in Nat /\ DOMAIN r = 1 .. Len(r)
    BY <1>3, <1>4, <2>3 DEF Follows
  <2>7. /\ u \in Seq(K) /\ Len(u) = Len(r) - n + 1
        /\ DOMAIN u = 1 .. Len(r) - n + 1
        /\ \A i \in DOMAIN u : u[i] = r[n + i - 1]
    BY <1>3, <2>4, <2>6
  <2>8. DOMAIN u = 1 .. Len(t) - n
    BY <1>3, <2>6, <2>7 DEF Follows
  <2>9. \A i \in DOMAIN u : i + n \in DOMAIN t /\ u[i] = t[i + n]
    <3> SUFFICES ASSUME NEW i \in DOMAIN u PROVE i + n \in DOMAIN t /\ u[i] = t[i + n]
      OBVIOUS
    <3>1. n + i - 1 \in DOMAIN r /\ n + i - 1 + 1 = i + n
      BY <2>6, <2>7
    <3> QED
      BY <1>3, <2>7, <3>1 DEF Follows
  <2>10. List(u)
    BY <2>7 DEF List
  <2>11. Follows(u, t, n)
    BY <1>3, <2>6, <2>8, <2>9, <2>10 DEF Follows
  <2>12. \A j \in 2 .. n : t[j].in \cap f # {}
    <3> SUFFICES ASSUME NEW j \in 2 .. n PROVE t[j].in \cap f # {}
      OBVIOUS
    <3>1. j - 1 \in DOMAIN r /\ r[j - 1] = t[j] /\ j - 1 \notin open
      BY <1>3, <2>3, <2>6 DEF Follows
    <3> QED
      BY <1>4, <3>1
  <2> QED
    BY <1>2, <2>5, <2>11, <2>12
<1> QED
  BY <1>5, <1>6

----------------------------------------------------------------------------
(* What the functions delete of the components ask for.                    *)

LEMMA CallIsUnmade ==
  ASSUME NEW k, NEW B, MayDelete(k, B)
  PROVE  Unmade(<<k>>, B)
<1>1. List(<<k>>) /\ \A i \in DOMAIN <<k>> : <<k>>[i] = k
  BY Single, Zenon
<1> QED
  BY <1>1 DEF Unmade

LEMMA DeletionIsUnmade ==
  ASSUME NEW do \in {"delete", "discard"}, NEW what, NEW B, what \in B
  PROVE  Unmade(Call(do, what), B)
<1> DEFINE k == [do |-> do, what |-> what, in |-> {}, ends |-> "handler"]
<1>1. MayDelete(k, B)
  BY DEF MayDelete, IsCall
<1> HIDE DEF k
<1>2. Unmade(<<k>>, B)
  BY <1>1, CallIsUnmade
<1> QED
  BY <1>2 DEF Call, k

LEMMA UndeploymentIsUnmade ==
  ASSUME NEW do \in {"delete built", "delete recorded", "delete once"}, NEW x, NEW B,
         <<"set", x>> \in B
  PROVE  Unmade(Call(do, <<"set", x>>), B)
<1> DEFINE k == [do |-> do, what |-> <<"set", x>>, in |-> {}, ends |-> "handler"]
<1>1. MayDelete(k, B)
  BY DEF MayDelete, IsCall
<1> HIDE DEF k
<1>2. Unmade(<<k>>, B)
  BY <1>1, CallIsUnmade
<1> QED
  BY <1>2 DEF Call, k

LEMMA AddIsUnmade ==
  ASSUME NEW block, NEW B
  PROVE  Unmade(Add(block), B)
<1> DEFINE k == [do |-> "add up", what |-> <<"answer", block>>, in |-> {}, ends |-> "handler"]
<1>1. MayDelete(k, B)
  BY DEF MayDelete, IsCall
<1> HIDE DEF k
<1>2. Unmade(<<k>>, B)
  BY <1>1, CallIsUnmade
<1> QED
  BY <1>2 DEF Add, Call, k

LEMMA UnmadeInTurn ==
  ASSUME NEW B, NEW s, NEW t, Unmade(s, B), Unmade(t, B)
  PROVE  Unmade(s \o t, B)
<1> PICK st : st = s \o t
  OBVIOUS
<1>1. Appended(st, s, t)
  BY InTurn DEF Unmade
<1>2. \A i \in DOMAIN st : MayDelete(st[i], B)
  BY <1>1 DEF Appended, Unmade
<1> QED
  BY <1>1, <1>2 DEF Unmade, Appended

LEMMA UnmadeTry ==
  ASSUME NEW B, NEW b, NEW s, Unmade(s, B)
  PROVE  /\ Unmade(Within(b, s), B)
         /\ Unmade(Caught(b, s), B)
         /\ Unmade(Try(b, s), B)
<1>1. ASSUME NEW r, Unmade(r, B) PROVE Unmade(Within(b, r), B)
  <2> PICK t : t = Within(b, r)
    OBVIOUS
  <2>0. List(r) /\ \A i \in DOMAIN r : IsCall(r[i])
    BY <1>1 DEF Unmade, MayDelete
  <2>1. /\ List(t) /\ DOMAIN t = DOMAIN r
        /\ \A i \in DOMAIN r : IsCall(t[i]) /\ t[i].do = r[i].do /\ t[i].what = r[i].what
    BY <2>0, WithinRenames
  <2>2. \A i \in DOMAIN t : MayDelete(t[i], B)
    BY <1>1, <2>1 DEF Unmade, MayDelete
  <2> QED
    BY <2>1, <2>2 DEF Unmade
<1>2. Unmade(Caught(b, s), B)
  <2> PICK t : t = Caught(b, s)
    OBVIOUS
  <2>0. List(s) /\ \A i \in DOMAIN s : IsCall(s[i])
    BY DEF Unmade, MayDelete
  <2>1. /\ List(t) /\ DOMAIN t = DOMAIN s
        /\ \A i \in DOMAIN s : IsCall(t[i]) /\ t[i].do = s[i].do /\ t[i].what = s[i].what
    BY <2>0, CaughtRenames
  <2>2. \A i \in DOMAIN t : MayDelete(t[i], B)
    BY <2>1 DEF Unmade, MayDelete
  <2> QED
    BY <2>1, <2>2 DEF Unmade
<1> QED
  BY <1>1, <1>2 DEF Try

LEMMA NothingIsUnmade ==
  ASSUME NEW B
  PROVE  Unmade(<<>>, B)
<1>1. List(<<>>)
  BY NothingIsMade DEF Made
<1>2. DOMAIN <<>> = {}
  OBVIOUS
<1> QED
  BY <1>1, <1>2 DEF Unmade

LEMMA UnmadeWhen ==
  ASSUME NEW B, NEW condition, NEW s, condition => Unmade(s, B)
  PROVE  Unmade(When(condition, s), B)
BY NothingIsUnmade DEF When

\* A list of names.
Names(names, S) == List(names) /\ \A i \in DOMAIN names : names[i] \in S

LEMMA NamesInTurn ==
  ASSUME NEW S, NEW m, NEW n, Names(m, S), Names(n, S)
  PROVE  Names(m \o n, S)
<1> PICK mn : mn = m \o n
  OBVIOUS
<1>1. Appended(mn, m, n)
  BY InTurn DEF Names
<1>2. \A i \in DOMAIN mn : mn[i] \in S
  BY <1>1 DEF Appended, Names
<1> QED
  BY <1>1, <1>2 DEF Names, Appended

LEMMA OneName ==
  ASSUME NEW S, NEW n \in S
  PROVE  Names(<<n>>, S)
BY Single DEF Names

LEMMA NoNames ==
  ASSUME NEW S
  PROVE  Names(<<>>, S)
<1>1. DOMAIN <<>> = {}
  OBVIOUS
<1> QED
  BY <1>1, NothingIsUnmade DEF Names, Unmade

LEMMA DeleteEachIsUnmade ==
  ASSUME NEW B, NEW S, NEW kind, NEW names, Names(names, S), {kind} \X S \subseteq B
  PROVE  Unmade(DeleteEach(kind, names), B)
<1> PICK t : t = DeleteEach(kind, names)
  OBVIOUS
<1>1. DOMAIN t = DOMAIN names /\ \A i \in DOMAIN names : t[i] = Delete(kind, names[i])[1]
  BY DEF DeleteEach
<1>2. \A i \in DOMAIN names :
        t[i] = [do |-> "delete", what |-> <<kind, names[i]>>, in |-> {}, ends |-> "handler"]
  BY <1>1 DEF Delete, Call
<1>3. ASSUME NEW i \in DOMAIN t PROVE MayDelete(t[i], B)
  <2>1. names[i] \in S /\ <<kind, names[i]>> \in B
    BY <1>1 DEF Names
  <2>2. PICK n : n = <<kind, names[i]>>
    OBVIOUS
  <2>3. t[i] = [do |-> "delete", what |-> n, in |-> {}, ends |-> "handler"] /\ n \in B
    BY <1>1, <1>2, <2>1, <2>2
  <2> QED
    BY <2>3 DEF MayDelete, IsCall
<1>4. List(t)
  <2>1. PICK K : names \in Seq(K)
    BY DEF Names, List
  <2>2. PICK L : L = {t[i] : i \in DOMAIN names}
    OBVIOUS
  <2>3. Len(names) \in Nat /\ DOMAIN names = 1 .. Len(names)
        /\ t = [i \in 1 .. Len(names) |-> t[i]]
    BY <2>1, <1>1 DEF DeleteEach
  <2>4. t \in Seq(L)
    BY <1>1, <2>2, <2>3
  <2> QED
    BY <2>4 DEF List
<1> QED
  BY <1>3, <1>4 DEF Unmade

LEMMA GroupsAreUnmade ==
  ASSUME NEW B, NEW S, NEW s, NEW names, Names(names, S), Web(S) \subseteq B
  PROVE  Unmade(delete_in_groups(s, names), B)
<1>1. /\ {"ingress"} \X S \subseteq B /\ {"route"} \X S \subseteq B
      /\ {"middleware"} \X S \subseteq B
  BY DEF Web
<1>2. /\ Unmade(DeleteEach("ingress", names), B) /\ Unmade(DeleteEach("route", names), B)
      /\ Unmade(DeleteEach("middleware", names), B)
  BY <1>1, DeleteEachIsUnmade
<1>3. Unmade(DeleteEach(IF OnOpenShift(s) THEN "route" ELSE "ingress", names), B)
  BY <1>2
<1>4. Unmade(When(s.ingress = "traefik", DeleteEach("middleware", names)), B)
  BY <1>2, UnmadeWhen
<1> QED
  BY <1>3, <1>4, UnmadeInTurn DEF delete_in_groups

LEMMA KindIsUnmade ==
  ASSUME NEW B, NEW s, NEW name, Web({name}) \subseteq B
  PROVE  Unmade(delete_by_kind(s, name), B)
<1>1. {<<"ingress", name>>, <<"route", name>>, <<"middleware", name>>} \subseteq B
  BY DEF Web
<1>2. /\ Unmade(Delete("ingress", name), B)
      /\ Unmade(Delete("route", name), B)
      /\ Unmade(Delete("middleware", name), B)
  BY <1>1, DeletionIsUnmade DEF Delete
<1>3. Unmade(delete_middleware(s, name), B)
  BY <1>2, UnmadeWhen DEF delete_middleware
<1> QED
  BY <1>2, <1>3, UnmadeInTurn DEF delete_by_kind

LEMMA UndeployIsUnmade ==
  ASSUME NEW B, NEW x, NEW owner, <<"set", x>> \in B
  PROVE  Unmade(Undeploy(x, owner), B)
<1>1. Unmade(Call("delete built", <<"set", x>>), B)
  BY UndeploymentIsUnmade
<1>2. Unmade(Call("delete recorded", <<"set", x>>), B)
  BY UndeploymentIsUnmade
<1>3. \/ Undeploy(x, owner) = Call("delete built", <<"set", x>>)
      \/ Undeploy(x, owner) = Call("delete recorded", <<"set", x>>)
  BY DEF Undeploy
<1> QED
  BY <1>1, <1>2, <1>3

LEMMA EasyDeletions ==
  ASSUME NEW s, NEW owner
  PROVE  /\ Unmade(preloader_delete(owner), Belongs("preloader"))
         /\ Unmade(couchdb_delete, Belongs("couchdb"))
         /\ Unmade(cron_delete(owner), Belongs("cron"))
         /\ Unmade(zookeeper_delete, Belongs("zookeeper"))
         /\ Unmade(kafka_delete, Belongs("kafka"))
         /\ Unmade(invoker_delete, Belongs("invoker"))
         /\ Unmade(etcd_delete(owner), Belongs("etcd"))
         /\ Unmade(quota_delete(owner), Belongs("quota"))
         /\ Unmade(issuer_delete(owner), Belongs("issuer"))
         /\ Unmade(redis_delete(owner), Belongs("redis"))
         /\ Unmade(ferretdb_delete(owner), Belongs("mongodb"))
         /\ Unmade(openwhisk_delete(s), Belongs("openwhisk"))
<1>1. /\ <<"set", "preloader">> \in Belongs("preloader")
      /\ <<"set", "couchdb">> \in Belongs("couchdb")
      /\ <<"set", "cron">> \in Belongs("cron")
      /\ <<"set", "zookeeper">> \in Belongs("zookeeper")
      /\ <<"set", "kafka">> \in Belongs("kafka")
      /\ <<"set", "invoker">> \in Belongs("invoker")
      /\ <<"set", "etcd">> \in Belongs("etcd")
      /\ <<"set", "quota">> \in Belongs("quota")
      /\ <<"set", "issuer">> \in Belongs("issuer")
      /\ <<"set", "redis">> \in Belongs("redis")
      /\ <<"set", "ferretdb">> \in Belongs("mongodb")
      /\ <<"set", "controller">> \in Belongs("openwhisk")
      /\ <<"set", "enterprise-controller">> \in Belongs("openwhisk")
  BY DEF Belongs
<1>2. Unmade(invoker_delete, Belongs("invoker"))
  BY <1>1, UndeploymentIsUnmade DEF invoker_delete
<1>3. Unmade(openwhisk_delete(s), Belongs("openwhisk"))
  BY <1>1, UndeploymentIsUnmade DEF openwhisk_delete, enterprise_delete, standalone_delete
<1>4. Unmade(quota_delete(owner), Belongs("quota"))
  BY <1>1, UndeployIsUnmade, UnmadeTry DEF quota_delete
<1> QED
  BY <1>1, <1>2, <1>3, <1>4, UndeployIsUnmade
     DEF preloader_delete, couchdb_delete, cron_delete, zookeeper_delete, kafka_delete,
         etcd_delete, issuer_delete, redis_delete, ferretdb_delete

LEMMA OtherDeletions ==
  ASSUME NEW s, NEW owner
  PROVE  /\ Unmade(endpoint_delete(s), Belongs("endpoint"))
         /\ Unmade(static_delete(s, owner), Belongs("static"))
         /\ Unmade(postgres_delete(s, owner), Belongs("postgres"))
         /\ Unmade(monitoring_delete(s, owner), Belongs("monitoring"))
         /\ Unmade(registry_delete(s, owner), Belongs("registry"))
<1>1. Unmade(endpoint_delete(s), Belongs("endpoint"))
  <2> PICK S : S = {"apihost", "apihost-my", "apihost-info", "apihost-www-my"}
    OBVIOUS
  <2>1. Web(S) \subseteq Belongs("endpoint")
    BY DEF Belongs
  <2>2. Names(<<"apihost", "apihost-my", "apihost-info">>, S)
    <3> PICK m : m = <<"apihost", "apihost-my", "apihost-info">>
      OBVIOUS
    <3>1. m \in Seq(S) /\ \A i \in DOMAIN m : m[i] \in S
      OBVIOUS
    <3>2. Names(m, S)
      BY <3>1 DEF Names, List
    <3> QED
      BY <3>2
  <2>3. Names(Www(s, <<"apihost-www-my">>), S)
    BY OneName, NoNames DEF Www, When
  <2>4. Names(<<"apihost", "apihost-my", "apihost-info">> \o Www(s, <<"apihost-www-my">>), S)
    BY <2>2, <2>3, NamesInTurn
  <2>5. Unmade(delete_in_groups(s, <<"apihost", "apihost-my", "apihost-info">>
                                    \o Www(s, <<"apihost-www-my">>)), Belongs("endpoint"))
    BY <2>1, <2>4, GroupsAreUnmade
  <2> QED
    BY <2>5, UnmadeTry DEF endpoint_delete
<1>2. Unmade(static_delete(s, owner), Belongs("static"))
  <2> PICK S : S = {"static", "www-static"}
    OBVIOUS
  <2>1. Web(S) \subseteq Belongs("static") /\ <<"set", "static">> \in Belongs("static")
    BY DEF Belongs
  <2>2. Names(<<"static">>, S) /\ Names(Www(s, <<"www-static">>), S)
    BY OneName, NoNames DEF Www, When
  <2>3. Names(<<"static">> \o Www(s, <<"www-static">>), S)
    BY <2>2, NamesInTurn
  <2>4. Unmade(delete_in_groups(s, <<"static">> \o Www(s, <<"www-static">>)), Belongs("static"))
    BY <2>1, <2>3, GroupsAreUnmade
  <2>5. Unmade(delete_nuv_ingresses(s), Belongs("static"))
    BY <2>4, UnmadeTry DEF delete_nuv_ingresses
  <2> QED
    BY <2>1, <2>5, UndeployIsUnmade, UnmadeInTurn DEF static_delete
<1>3. Unmade(postgres_delete(s, owner), Belongs("postgres"))
  <2>1. /\ <<"set", "postgres-backup">> \in Belongs("postgres")
        /\ <<"set", "postgres">> \in Belongs("postgres")
        /\ <<"set", "postgres-operator">> \in Belongs("postgres")
    BY DEF Belongs
  <2> QED
    BY <2>1, UndeployIsUnmade, UnmadeInTurn DEF postgres_delete
<1>4. Unmade(monitoring_delete(s, owner), Belongs("monitoring"))
  <2>1. /\ <<"set", "monitoring">> \in Belongs("monitoring")
        /\ <<"set", "alert-manager">> \in Belongs("monitoring")
    BY DEF Belongs
  <2> QED
    BY <2>1, UndeployIsUnmade, UnmadeWhen, UnmadeInTurn DEF monitoring_delete
<1>5. Unmade(registry_delete(s, owner), Belongs("registry"))
  <2>1. Web({"registry"}) \subseteq Belongs("registry")
        /\ <<"set", "registry">> \in Belongs("registry")
    BY DEF Belongs
  <2>2. Unmade(delete_registry_ingress(s), Belongs("registry"))
    BY <2>1, KindIsUnmade, UnmadeTry DEF delete_registry_ingress
  <2> QED
    BY <2>1, <2>2, UndeployIsUnmade, UnmadeInTurn DEF registry_delete
<1> QED
  BY <1>1, <1>2, <1>3, <1>4, <1>5

LEMMA StoreDeletions ==
  ASSUME NEW s, NEW owner
  PROVE  /\ Unmade(minio_delete(s, owner), Belongs("minio"))
         /\ Unmade(seaweedfs_delete(s, owner), Belongs("seaweedfs"))
         /\ Unmade(milvus_delete(s, owner), Belongs("milvus"))
<1>1. Unmade(minio_delete(s, owner), Belongs("minio"))
  <2> DEFINE B == Belongs("minio")
             S == {"minio-upload", "minio-s3", "minio-console"}
  <2>1. Web(S) \subseteq B /\ <<"set", "minio">> \in B
    BY DEF Belongs
  <2> HIDE DEF B
  <2>2. /\ Web({"minio-upload"}) \subseteq B
        /\ Web({"minio-s3"}) \subseteq B
        /\ Web({"minio-console"}) \subseteq B
    BY <2>1, WebPart
  <2>3. /\ Unmade(delete_minio_ingress(s, "minio-upload"), B)
        /\ Unmade(delete_minio_ingress(s, "minio-s3"), B)
        /\ Unmade(delete_minio_ingress(s, "minio-console"), B)
    BY <2>2, KindIsUnmade, UnmadeTry DEF delete_minio_ingress
  <2>4. /\ Unmade(Add("minio-upload"), B) /\ Unmade(Add("minio-s3"), B)
        /\ Unmade(Add("minio-console"), B)
    BY AddIsUnmade
  <2>5. /\ Unmade(delete_minio_ingress(s, "minio-s3")
                    \o Add("minio-upload") \o Add("minio-s3"), B)
        /\ Unmade(delete_minio_ingress(s, "minio-console")
                    \o Add("minio-upload") \o Add("minio-console"), B)
    BY <2>3, <2>4, UnmadeInTurn
  <2>6. Unmade(delete_minio_ingresses(s), B)
    BY <2>3, <2>5, UnmadeWhen, UnmadeInTurn DEF delete_minio_ingresses
  <2> QED
    BY <2>1, <2>6, UndeployIsUnmade, UnmadeInTurn DEF minio_delete, B
<1>2. Unmade(seaweedfs_delete(s, owner), Belongs("seaweedfs"))
  <2> DEFINE B == Belongs("seaweedfs")
             S == {"seaweedfs-s3", "seaweedfs-filer"}
  <2>1. Web(S) \subseteq B /\ <<"set", "seaweedfs">> \in B
    BY DEF Belongs
  <2> HIDE DEF B
  <2>2. /\ Web({"seaweedfs-s3"}) \subseteq B
        /\ Web({"seaweedfs-filer"}) \subseteq B
    BY <2>1, WebPart
  <2>3. /\ Unmade(delete_seaweedfs_ingress(s, "seaweedfs-s3"), B)
        /\ Unmade(delete_seaweedfs_ingress(s, "seaweedfs-filer"), B)
    BY <2>2, KindIsUnmade, UnmadeTry DEF delete_seaweedfs_ingress
  <2>4. Unmade(Add("seaweedfs-s3"), B) /\ Unmade(Add("seaweedfs-filer"), B)
    BY AddIsUnmade
  <2>5. Unmade(delete_seaweedfs_ingresses(s), B)
    BY <2>3, <2>4, UnmadeWhen, UnmadeInTurn DEF delete_seaweedfs_ingresses
  <2> QED
    BY <2>1, <2>5, UndeployIsUnmade, UnmadeInTurn DEF seaweedfs_delete, B
<1>3. Unmade(milvus_delete(s, owner), Belongs("milvus"))
  <2> DEFINE B == Belongs("milvus")
  <2>1. /\ <<"set", "milvus">> \in B
        /\ <<"minio", "milvus">> \in B /\ <<"minio", "milvus-bucket">> \in B
        /\ <<"seaweedfs", "milvus">> \in B /\ <<"seaweedfs", "milvus-bucket">> \in B
    BY DEF Belongs, Store
  <2> HIDE DEF B
  <2>2. /\ Unmade(Discard("minio", "milvus"), B)
        /\ Unmade(Discard("minio", "milvus-bucket"), B)
        /\ Unmade(Discard("seaweedfs", "milvus"), B)
        /\ Unmade(Discard("seaweedfs", "milvus-bucket"), B)
    BY <2>1, DeletionIsUnmade DEF Discard
  <2>3. Unmade(delete_minio_milvus_account, B)
    BY <2>2, UnmadeInTurn, UnmadeTry DEF delete_minio_milvus_account, Unchecked
  <2>4. Unmade(delete_seaweedfs_milvus_account, B)
    BY <2>2, UnmadeInTurn, UnmadeTry DEF delete_seaweedfs_milvus_account
  <2>5. Unmade(delete_milvus_accounts(s), B)
    BY <2>3, <2>4, UnmadeWhen DEF delete_milvus_accounts
  <2> QED
    BY <2>1, <2>5, UndeployIsUnmade, UnmadeInTurn DEF milvus_delete, B
<1> QED
  BY <1>1, <1>2, <1>3

\* Each deletion asks only for what belongs to its component.
LEMMA DeletionIsOfItsOwn ==
  ASSUME NEW s, NEW owner, NEW c \in ToSet(DeleteOrder)
  PROVE  Unmade(delete_calls(c, s, owner), Belongs(c))
<1>1. c \in ComponentNames \ {"whisk_post_create"}
  BY Orders
<1> QED
  BY <1>1, EasyDeletions, OtherDeletions, StoreDeletions DEF delete_calls, ComponentNames

----------------------------------------------------------------------------
(* The calls of each run.                                                  *)

\* Of most components every call finds what it rests on.
LEMMA CreationRestsOnItself ==
  ASSUME NEW s, NEW c \in Component \ {"static", "milvus", "monitoring"}
  PROVE  Made(create_calls(c, s), Belongs(c), {}, Quiet)
<1>1. "nothing" \in Quiet /\ "metadata" \in Quiet
  BY DEF Quiet
<1>2. Made(openwhisk_create(s), Belongs("openwhisk"), {}, Quiet)
  BY OpenwhiskIsMade DEF Belongs
<1>3. Made(ferretdb_create, Belongs("mongodb"), {}, Quiet)
  BY <1>1, FerretdbIsMade
<1>4. Made(whisk_post_create, Belongs("whisk_post_create"), {}, Quiet)
  BY <1>1, PostCreateIsMade
<1>5. c \in ComponentNames \ {"static", "milvus", "monitoring"}
  BY Orders
<1> QED
  BY <1>2, <1>3, <1>4, <1>5, EasyCreations, IssuerIsMade, RedisIsMade, PostgresIsMade,
     RegistryIsMade, EndpointIsMade, MinioIsMade, SeaweedfsIsMade
     DEF create_calls, ComponentNames

\* Each creation asks only for what belongs to its component, and for annotations.
LEMMA CreationIsOfItsOwn ==
  ASSUME NEW s, NEW c \in Component \cup Updates
  PROVE  /\ List(create_calls(c, s))
         /\ \A i \in DOMAIN create_calls(c, s) :
              MayCreate(create_calls(c, s)[i], Belongs(c))
<1> SUFFICES \E have, H : Made(create_calls(c, s), Belongs(c), have, H)
  BY DEF Made
<1>1. CASE c \in Component \ {"static", "milvus", "monitoring"}
  BY <1>1, CreationRestsOnItself
<1>2. CASE c = "static"
  <2>1. Made(static_create(s), Belongs("static"), {}, {"handler"})
    BY StaticIsMade
  <2> QED
    BY <1>2, <2>1 DEF create_calls
<1>3. CASE c = "milvus"
  <2>1. Made(milvus_create(s), Belongs("milvus"), {<<"set", account_store(s)>>}, {})
    BY MilvusIsMade
  <2> QED
    BY <1>3, <2>1 DEF create_calls
<1>4. CASE c = "monitoring"
  <2>1. Made(monitoring_create(s), Belongs("monitoring"), {}, {"handler"})
    BY MonitoringIsMade
  <2> QED
    BY <1>4, <2>1 DEF create_calls
<1>5. CASE c = "endpoint"
  <2>1. Made(endpoint_create(s), Belongs("endpoint"), {}, {})
    BY EndpointIsMade
  <2> QED
    BY <1>5, <2>1 DEF create_calls
<1>6. CASE c = "redeployment"
  <2>1. Made(redeploy_whisk(s), Belongs("redeployment"), {}, {"invoker", "controller"})
    BY RedeploymentIsMade
  <2> QED
    BY <1>6, <2>1 DEF create_calls
<1>7. CASE c = "minio-ingresses"
  <2>1. Web({"minio-upload", "minio-s3", "minio-console"}) \subseteq Belongs("minio-ingresses")
    BY DEF Belongs
  <2>2. Made(create_minio_ingresses(s), Belongs("minio-ingresses"), {}, {})
    BY <2>1, MinioIngressesAreMade
  <2> QED
    BY <1>7, <2>2 DEF create_calls
<1>8. CASE c = "seaweedfs-ingresses"
  <2>1. Made(Call("raise", <<"error", "key">>), Belongs("seaweedfs-ingresses"), {},
             {"handler"})
    BY CallIsMade DEF Brings, needs
  <2> QED
    BY <1>8, <2>1 DEF create_calls
<1> QED
  BY <1>1, <1>2, <1>3, <1>4, <1>5, <1>6, <1>7, <1>8 DEF Updates

\* What is promised belongs to the component, or is an annotation.
LEMMA PromiseIsOfItsOwn ==
  ASSUME NEW s, NEW c \in Component \cup Updates, NEW o \in promise(c, s)
  PROVE  /\ o \in Belongs(c) \/ o[1] = "note"
         /\ \E i \in DOMAIN create_calls(c, s) :
              create_calls(c, s)[i].do \in Brings /\ create_calls(c, s)[i].what = o
<1>1. PICK i \in DOMAIN create_calls(c, s) :
        create_calls(c, s)[i].do \in Brings /\ create_calls(c, s)[i].what = o
  BY DEF promise, ToSet
<1>2. MayCreate(create_calls(c, s)[i], Belongs(c))
  BY CreationIsOfItsOwn
<1>3. o \in Belongs(c) \/ o[1] = "note"
  BY <1>1, <1>2 DEF MayCreate
<1> QED
  BY <1>1, <1>3

\* A call of the watcher.
IsWatching(call) ==
  /\ IsCall(call)
  /\ \/ /\ call.do \in {"delete built", "delete recorded", "deploy"}
        /\ call.what = <<"set", "preloader">>
     \/ call.do = "rollout"

\* The watcher deploys the preloader once it has deleted it.
Watched(calls) ==
  /\ List(calls)
  /\ \A i \in DOMAIN calls :
       /\ IsWatching(calls[i])
       /\ calls[i].do \in {"delete built", "delete recorded"} =>
            i + 1 \in DOMAIN calls /\ calls[i + 1].do = "deploy"

LEMMA WatchedInTurn ==
  ASSUME NEW s, NEW t, Watched(s), Watched(t)
  PROVE  Watched(s \o t)
<1> PICK st : st = s \o t
  OBVIOUS
<1>1. Appended(st, s, t)
  BY InTurn DEF Watched
<1>2. ASSUME NEW i \in DOMAIN st
      PROVE  /\ IsWatching(st[i])
             /\ st[i].do \in {"delete built", "delete recorded"} =>
                  i + 1 \in DOMAIN st /\ st[i + 1].do = "deploy"
  <2>1. CASE i \in DOMAIN s
    BY <1>1, <2>1 DEF Appended, Watched
  <2>2. ASSUME NEW n \in DOMAIN t, i = Len(s) + n
        PROVE  /\ IsWatching(st[i])
               /\ st[i].do \in {"delete built", "delete recorded"} =>
                    i + 1 \in DOMAIN st /\ st[i + 1].do = "deploy"
    <3>1. st[i] = t[n] /\ n \in Nat /\ Len(s) \in Nat
      BY <1>1, <2>2 DEF Appended
    <3>2. n + 1 \in DOMAIN t => i + 1 \in DOMAIN st /\ st[i + 1] = t[n + 1]
      <4>1. i + 1 = Len(s) + (n + 1)
        BY <2>2, <3>1
      <4> QED
        BY <1>1, <4>1 DEF Appended
    <3> QED
      BY <3>1, <3>2 DEF Watched
  <2> QED
    BY <1>1, <2>1, <2>2 DEF Appended
<1>3. Watched(st)
  BY <1>1, <1>2 DEF Appended, Watched
<1> QED
  BY <1>3

LEMMA NoCallsAreWatched == Watched(<<>>)
<1>1. List(<<>>)
  BY NothingIsUnmade DEF Unmade
<1>2. DOMAIN <<>> = {}
  OBVIOUS
<1> QED
  BY <1>1, <1>2 DEF Watched

LEMMA DeletedAndDeployed ==
  ASSUME NEW d, NEW k, NEW r, NEW s, NEW b,
         IsWatching(d), IsWatching(k), k.do = "deploy",
         List(r), Len(r) = 1, \A i \in DOMAIN r : r[i] = d,
         List(s), Len(s) = 1, \A i \in DOMAIN s : s[i] = k
  PROVE  Watched(Try(b, r \o s))
<1>1. PICK two : two = r \o s
  OBVIOUS
<1>2. Appended(two, r, s)
  BY <1>1, InTurn
<1>3. /\ List(two) /\ 2 \in DOMAIN two
      /\ \A i \in DOMAIN two : (i = 1 /\ two[i] = d) \/ (i = 2 /\ two[i] = k)
  <2>1. DOMAIN r = {1} /\ DOMAIN s = {1}
    BY <1>2 DEF Appended
  <2>2. List(two) /\ Len(r) + 1 \in DOMAIN two
    BY <1>2, <2>1 DEF Appended
  <2>3. ASSUME NEW i \in DOMAIN two
        PROVE  (i = 1 /\ two[i] = d) \/ (i = 2 /\ two[i] = k)
    <3>1. CASE i \in DOMAIN r
      BY <1>2, <2>1, <3>1 DEF Appended
    <3>2. ASSUME NEW n \in DOMAIN s, i = Len(r) + n PROVE i = 2 /\ two[i] = k
      BY <1>2, <2>1, <3>2 DEF Appended
    <3> QED
      BY <1>2, <3>1, <3>2 DEF Appended
  <2> QED
    BY <2>2, <2>3
<1>4. List(two) /\ \A i \in DOMAIN two : IsCall(two[i])
  BY <1>3 DEF IsWatching
<1>5. PICK c : c = Caught(b, two)
  OBVIOUS
<1>6. /\ List(c) /\ DOMAIN c = DOMAIN two
      /\ \A i \in DOMAIN two :
           IsCall(c[i]) /\ c[i].do = two[i].do /\ c[i].what = two[i].what
  BY <1>4, <1>5, CaughtRenames
<1>7. PICK w : w = Within(b, c)
  OBVIOUS
<1>8. /\ List(w) /\ DOMAIN w = DOMAIN c
      /\ \A i \in DOMAIN c : IsCall(w[i]) /\ w[i].do = c[i].do /\ w[i].what = c[i].what
  BY <1>6, <1>7, WithinRenames
<1>9. ASSUME NEW i \in DOMAIN w
      PROVE  /\ IsWatching(w[i])
             /\ w[i].do \in {"delete built", "delete recorded"} =>
                  i + 1 \in DOMAIN w /\ w[i + 1].do = "deploy"
  <2>1. w[i].do = two[i].do /\ w[i].what = two[i].what /\ IsCall(w[i]) /\ i \in DOMAIN two
    BY <1>6, <1>8
  <2>2. IsWatching(w[i])
    BY <1>3, <2>1 DEF IsWatching
  <2>3. 2 \in DOMAIN w /\ w[2].do = two[2].do
    BY <1>3, <1>6, <1>8
  <2>4. two[2] = k
    BY <1>3
  <2>5. i = 1 \/ w[i].do = "deploy"
    BY <1>3, <2>1
  <2>6. i = 1 => i + 1 = 2
    OBVIOUS
  <2> QED
    BY <2>2, <2>3, <2>4, <2>5, <2>6
<1>10. Watched(w)
  BY <1>8, <1>9 DEF Watched
<1> QED
  BY <1>1, <1>5, <1>7, <1>10 DEF Try

LEMMA WatcherCallsAreWatched ==
  ASSUME NEW s
  PROVE  Watched(watcher_calls(s))
<1> DEFINE call(do) == [do |-> do, what |-> <<"set", "preloader">>, in |-> {},
                        ends |-> "handler"]
<1>1. ASSUME NEW do \in {"delete built", "delete recorded"}
      PROVE  Watched(Try("preloader", <<call(do)>> \o <<call("deploy")>>))
  <2>1. /\ IsWatching(call(do)) /\ call(do).do = do
        /\ IsWatching(call("deploy")) /\ call("deploy").do = "deploy"
    BY DEF IsWatching, IsCall
  <2> HIDE DEF call
  <2>2. \A k : List(<<k>>) /\ Len(<<k>>) = 1 /\ \A i \in DOMAIN <<k>> : <<k>>[i] = k
    BY Single, Zenon
  <2>3. PICK b : b = "preloader"
    OBVIOUS
  <2>4. PICK r : r = <<call(do)>>
    OBVIOUS
  <2>5. PICK s2 : s2 = <<call("deploy")>>
    OBVIOUS
  <2>6. /\ List(r) /\ Len(r) = 1 /\ \A i \in DOMAIN r : r[i] = call(do)
        /\ List(s2) /\ Len(s2) = 1 /\ \A i \in DOMAIN s2 : s2[i] = call("deploy")
    BY <2>2, <2>4, <2>5, Zenon
  <2>7. Watched(Try(b, r \o s2))
    BY <2>1, <2>6, DeletedAndDeployed
  <2> QED
    BY <2>3, <2>4, <2>5, <2>7
<1>2. preloader_create = <<call("deploy")>>
  BY DEF preloader_create, Deploy, Call
<1>3. \/ preloader_delete("owner" \in s.options) = <<call("delete built")>>
      \/ preloader_delete("owner" \in s.options) = <<call("delete recorded")>>
  BY DEF preloader_delete, Undeploy, Call
<1> HIDE DEF call
<1>4. Watched(patch_preloader("owner" \in s.options))
  BY <1>1, <1>2, <1>3 DEF patch_preloader
<1>5. ASSUME NEW x PROVE Watched(Rollout(x))
  <2>1. PICK r : r = [do |-> "rollout", what |-> <<"set", x>>, in |-> {}, ends |-> "handler"]
    OBVIOUS
  <2>2. IsWatching(r) /\ r.do = "rollout"
    BY <2>1 DEF IsWatching, IsCall
  <2>3. List(<<r>>) /\ \A i \in DOMAIN <<r>> : <<r>>[i] = r
    BY Single, Zenon
  <2>4. Watched(<<r>>)
    BY <2>2, <2>3 DEF Watched
  <2> QED
    BY <2>1, <2>4 DEF Rollout, Call
<1>6. Watched(<<>>)
  BY NoCallsAreWatched
<1>7. Watched(When("invoker" \in s.on, Rollout("invoker")))
  BY <1>5, <1>6 DEF When
<1>8. Watched(restart_whisk(s))
  BY <1>5, <1>7, WatchedInTurn DEF restart_whisk
<1>9. Watched(When("openwhisk" \in s.on, restart_whisk(s)))
  BY <1>6, <1>8 DEF When
<1> QED
  BY <1>4, <1>9, WatchedInTurn DEF watcher_calls

----------------------------------------------------------------------------
(* The types.                                                              *)

Settings ==
  [on : SUBSET (Component \cup {"tls"}), options : SUBSET Option,
   ingress : {"nginx", "traefik", "openshift"}, edits : SUBSET (Patchable \cup Updates)]

\* The components that the handler h may have to do for the settings s.
QueueFor(h, q, s) ==
  CASE h = "create" -> q \subseteq {c \in Component : create_enabled(c, s)}
    [] h = "delete" -> q \subseteq ToSet(DeleteOrder)
    [] h = "update" -> \E u \in Patchable \cup Updates : q \subseteq update_queue(u)
    [] OTHER -> q = {}

\* The calls of the present component belong to it.
CallsFor(calls, h, q, s) ==
  LET c == first(h, q)
  IN q # {} => IF creates(h, c, s)
                 THEN \A i \in DOMAIN calls : MayCreate(calls[i], Belongs(c))
                 ELSE \A i \in DOMAIN calls : MayDelete(calls[i], Belongs(c))

HandlingInv ==
  /\ QueueFor(handler, queue, settings)
  /\ List(todo)
  /\ CallsFor(todo, handler, queue, settings)
  /\ "handler" \in failed => todo = <<>>
  /\ handler = "update" => edited \in Patchable \cup Updates

TypeInv ==
  /\ TypeOK
  /\ settings \in Settings
  /\ \A o \in owned : o[1] = "set"
  /\ HandlingInv
  /\ Watched(watching)

LEMMA FirstOfQueue ==
  ASSUME NEW h, NEW q, NEW s, QueueFor(h, q, s), q # {}
  PROVE  /\ first(h, q) \in q
         /\ q \subseteq Component \cup Updates
         /\ h \in {"create", "update", "delete"}
         /\ h # "update" => q \subseteq Ordered(h)
<1>1. ToSet(DeleteOrder) \subseteq Component
  BY Orders
<1>2. CASE h = "create"
  BY <1>2, FirstOne, HandlersOrders DEF QueueFor
<1>3. CASE h = "delete"
  BY <1>1, <1>3, FirstOne, HandlersOrders DEF QueueFor
<1>4. CASE h = "update"
  <2>1. PICK u \in Patchable \cup Updates : q \subseteq update_queue(u)
    BY <1>4 DEF QueueFor
  <2>2. q \subseteq Component \cup Updates
    BY <2>1, UpdateQueues
  <2>3. CASE update_queue(u) \subseteq Ordered("update")
    BY <1>4, <2>1, <2>2, <2>3, FirstOne
  <2>4. CASE update_queue(u) = {u}
    <3>1. q = {u}
      BY <2>1, <2>4
    <3> QED
      BY <1>4, <2>2, <3>1, OnlyOne
  <2> QED
    BY <2>1, <2>3, <2>4, UpdateQueues
<1>5. h \in {"create", "update", "delete"}
  BY DEF QueueFor
<1> QED
  BY <1>2, <1>3, <1>4, <1>5

\* What is not created is deleted with Whisk, or switched off.
LEMMA NotCreated ==
  ASSUME NEW h, NEW q, NEW s, QueueFor(h, q, s), q # {}, ~ creates(h, first(h, q), s)
  PROVE  /\ first(h, q) \in ToSet(DeleteOrder)
         /\ h = "update" => first(h, q) \in Patchable
<1>1. Patchable \subseteq ToSet(DeleteOrder)
  BY Orders DEF ComponentNames, Patchable
<1> QED
  BY <1>1, FirstOfQueue DEF creates, QueueFor

LEMMA CallsOfARun ==
  ASSUME NEW h, NEW q, NEW s, QueueFor(h, q, s), q # {}
  PROVE  /\ List(calls_of(h, first(h, q), s))
         /\ CallsFor(calls_of(h, first(h, q), s), h, q, s)
<1> PICK c : c = first(h, q)
  OBVIOUS
<1>1. c \in Component \cup Updates
  BY FirstOfQueue
<1>2. CASE creates(h, c, s)
  <2>1. calls_of(h, c, s) = create_calls(c, s)
    BY <1>2 DEF calls_of
  <2> QED
    BY <1>1, <1>2, <2>1, CreationIsOfItsOwn DEF CallsFor
<1>3. CASE ~ creates(h, c, s)
  <2>1. calls_of(h, c, s) = delete_calls(c, s, h # "delete" /\ "owner" \in s.options)
    BY <1>3 DEF calls_of
  <2>2. c \in ToSet(DeleteOrder)
    BY <1>3, NotCreated
  <2> QED
    BY <1>3, <2>1, <2>2, DeletionIsOfItsOwn DEF CallsFor, Unmade
<1> QED
  BY <1>2, <1>3

\* A handler that goes to its next component keeps the types.
LEMMA GoingOn ==
  ASSUME NEW h \in {"create", "update", "delete"}, NEW q, QueueFor(h, q, settings'),
         NEW calm, GoesTo(h, q, calm), calm \subseteq Component \cup Updates,
         h = "update" => edited' \in Patchable \cup Updates
  PROVE  /\ handler' \in {"create", "idle", "update", "delete", "gone"}
         /\ queue' \subseteq Component \cup Updates
         /\ queue' = {} => todo' = <<>>
         /\ clean' \subseteq Component \cup Updates
         /\ HandlingInv'
<1>1. queue' = q /\ failed' = {}
  BY DEF GoesTo
<1>2. CASE q = {}
  <2>1. /\ handler' = IF h = "delete" THEN "gone" ELSE "idle"
        /\ todo' = <<>> /\ clean' = calm
    BY <1>1, <1>2 DEF GoesTo
  <2>2. List(<<>>)
    BY NothingIsUnmade DEF Unmade
  <2>3. QueueFor(handler', queue', settings')
    BY <1>1, <1>2, <2>1 DEF QueueFor
  <2> QED
    BY <1>1, <1>2, <2>1, <2>2, <2>3 DEF HandlingInv, CallsFor
<1>3. CASE q # {}
  <2>1. /\ handler' = h /\ todo' = calls_of(h, first(h, q), settings')
        /\ clean' = calm \cup {first(h, q)}
    BY <1>1, <1>3 DEF GoesTo
  <2>2. first(h, q) \in q /\ q \subseteq Component \cup Updates
    BY <1>3, FirstOfQueue
  <2>3. List(todo') /\ CallsFor(todo', handler', queue', settings')
    BY <1>1, <1>3, <2>1, CallsOfARun
  <2> QED
    BY <1>1, <1>3, <2>1, <2>2, <2>3 DEF HandlingInv
<1> QED
  BY <1>2, <1>3

\* The calls of t are some of those of s.
LEMMA FollowingCalls ==
  ASSUME NEW r, NEW t, NEW k, Follows(r, t, k)
  PROVE  List(r) /\ \A i \in DOMAIN r : \E j \in DOMAIN t : r[i] = t[j]
BY DEF Follows

\* A call that is made, or fails, leaves calls of the same run.
LEMMA CallsGoOn ==
  ASSUME HandlingInv, todo # <<>>, NEW blocks, failed' = blocks,
         UNCHANGED <<settings, handler, edited, queue>>,
         todo' = IF "handler" \in blocks THEN <<>> ELSE left(Tail(todo), blocks)
  PROVE  HandlingInv'
<1>1. \E k : Follows(todo', todo, k)
  <2>1. CASE "handler" \in blocks
    BY <2>1, NothingFollows DEF HandlingInv
  <2>2. CASE "handler" \notin blocks
    BY <2>2, LeftFollows DEF HandlingInv
  <2> QED
    BY <2>1, <2>2
<1>2. List(todo') /\ \A i \in DOMAIN todo' : \E j \in DOMAIN todo : todo'[i] = todo[j]
  BY <1>1, FollowingCalls
<1>3. /\ settings' = settings /\ handler' = handler /\ queue' = queue
      /\ edited' = edited
  OBVIOUS
<1>4. QueueFor(handler', queue', settings')
  BY <1>3 DEF HandlingInv
<1>5. CallsFor(todo', handler, queue, settings)
  BY <1>2 DEF HandlingInv, CallsFor
<1>6. "handler" \in failed' => todo' = <<>>
  OBVIOUS
<1>7. handler' = "update" => edited' \in Patchable \cup Updates
  BY <1>3 DEF HandlingInv
<1> QED
  BY <1>2, <1>3, <1>4, <1>5, <1>6, <1>7 DEF HandlingInv

\* What exists stays the owner's or is nobody's.
OwnedInv == owned \subseteq present /\ \A o \in owned : o[1] = "set"

LEMMA OwnedIsCarriedOut ==
  ASSUME OwnedInv, NEW call, call.do = "deploy" => call.what[1] = "set", carry_out(call)
  PROVE  OwnedInv'
BY DEF OwnedInv, carry_out, Brings

LEMMA StillWatched ==
  ASSUME NEW r, NEW t, NEW k, Follows(r, t, k), Watched(t)
  PROVE  Watched(r)
<1>1. ASSUME NEW i \in DOMAIN r
      PROVE  /\ IsWatching(r[i])
             /\ r[i].do \in {"delete built", "delete recorded"} =>
                  i + 1 \in DOMAIN r /\ r[i + 1].do = "deploy"
  <2>1. i + k \in DOMAIN t /\ r[i] = t[i + k] /\ IsWatching(t[i + k])
    BY DEF Follows, Watched
  <2>2. i + 1 + k \in DOMAIN t => i + 1 \in DOMAIN r /\ r[i + 1] = t[i + 1 + k]
    BY DEF Follows
  <2>3. i + k + 1 = i + 1 + k
    BY DEF Follows
  <2>4. t[i + k].do \in {"delete built", "delete recorded"} =>
          i + 1 + k \in DOMAIN t /\ t[i + 1 + k].do = "deploy"
    BY <2>1, <2>3 DEF Watched
  <2> QED
    BY <2>1, <2>2, <2>4
<1> QED
  BY <1>1 DEF Follows, Watched

LEMMA WatchingFollows ==
  ASSUME Watched(watching), watching # <<>>
  PROVE  /\ \E k : Follows(Tail(watching), watching, k)
         /\ \A call : \E k : Follows(stopped(call), watching, k)
<1>1. List(watching)
  BY DEF Watched
<1>2. Follows(Tail(watching), watching, 1)
  BY <1>1, TailFollows
<1>3. ASSUME NEW call PROVE \E k : Follows(stopped(call), watching, k)
  <2>1. CASE call.ends = "handler"
    <3>1. stopped(call) = <<>>
      BY <2>1 DEF stopped
    <3> QED
      BY <1>1, <3>1, NothingFollows
  <2>2. CASE call.ends # "handler"
    <3>1. stopped(call) = left(Tail(watching), {call.ends})
      BY <2>2 DEF stopped
    <3> QED
      BY <1>1, <3>1, LeftFollows
  <2> QED
    BY <2>1, <2>2
<1> QED
  BY <1>2, <1>3

LEMMA WatchingGoesOn ==
  ASSUME Watched(watching), watching # <<>>,
         watching' = Tail(watching) \/ watching' = stopped(Head(watching))
  PROVE  Watched(watching')
<1>1. \E k : Follows(watching', watching, k)
  BY WatchingFollows
<1> QED
  BY <1>1, StillWatched

\* The first of the calls may be of the component, or of the watcher.
LEMMA FirstCall ==
  ASSUME TypeInv
  PROVE  /\ todo # <<>> /\ Head(todo).do = "deploy" => Head(todo).what[1] = "set"
         /\ todo # <<>> /\ Head(todo).do = "save" => Head(todo).what[1] = "couchdb"
         /\ watching # <<>> /\ Head(watching).do = "deploy" =>
              Head(watching).what[1] = "set"
<1>1. ASSUME todo # <<>>
      PROVE  /\ Head(todo).do = "deploy" => Head(todo).what[1] = "set"
             /\ Head(todo).do = "save" => Head(todo).what[1] = "couchdb"
  <2>1. queue # {}
    BY <1>1 DEF TypeInv, TypeOK
  <2>2. 1 \in DOMAIN todo /\ Head(todo) = todo[1]
    BY <1>1, TailFollows DEF TypeInv, HandlingInv
  <2>3. \/ MayCreate(todo[1], Belongs(current))
        \/ MayDelete(todo[1], Belongs(current))
    BY <2>1, <2>2 DEF TypeInv, HandlingInv, CallsFor, current
  <2>4. CASE MayCreate(todo[1], Belongs(current))
    BY <2>2, <2>4 DEF MayCreate
  <2>5. CASE MayDelete(todo[1], Belongs(current))
    BY <2>2, <2>5 DEF MayDelete
  <2> QED
    BY <2>3, <2>4, <2>5
<1>2. ASSUME watching # <<>>
      PROVE  Head(watching).do = "deploy" => Head(watching).what[1] = "set"
  <2>1. 1 \in DOMAIN watching /\ Head(watching) = watching[1]
    BY <1>2, TailFollows DEF TypeInv, Watched
  <2>2. PICK call : call = Head(watching)
    OBVIOUS
  <2>3. IsWatching(call)
    BY <2>1, <2>2 DEF TypeInv, Watched
  <2>4. call.do = "deploy" => call.what[1] = "set"
    BY <2>3 DEF IsWatching
  <2> QED
    BY <2>2, <2>4
<1> QED
  BY <1>1, <1>2

LEMMA TypeInit == Init => TypeInv
<1> SUFFICES ASSUME Init PROVE TypeInv
  OBVIOUS
<1>1. settings \in Settings
  BY ScenariosAssumption DEF Init, Settings
<1>2. TypeOK
  <2>1. settings.on \subseteq Component \cup {"tls"}
    BY <1>1 DEF Settings
  <2> QED
    BY <2>1, BoundsAssumption DEF Init, TypeOK
<1>3. HandlingInv
  <2>1. List(<<>>)
    BY NothingIsUnmade DEF Unmade
  <2> QED
    BY <2>1 DEF Init, HandlingInv, QueueFor, CallsFor
<1> QED
  BY <1>1, <1>2, <1>3, NoCallsAreWatched DEF TypeInv, Init

\* The variables whose types a step of a handler that goes on may disturb.
HandlingTypes ==
  /\ handler \in {"absent", "create", "idle", "update", "delete", "gone"}
  /\ edited \in Patchable \cup Updates \cup {"none"}
  /\ queue \subseteq Component \cup Updates
  /\ queue = {} => todo = <<>>
  /\ clean \cup partial \subseteq Component \cup Updates
  /\ HandlingInv

OtherTypes ==
  /\ settings \in Settings
  /\ OwnedInv
  /\ report \in [Component -> {"none", "on", "off", "error"}]
  /\ edits \in 0 .. MaxEdits /\ disturbances \in 0 .. MaxDisturbances
  /\ Watched(watching)

LEMMA TypesTogether == TypeInv <=> HandlingTypes /\ OtherTypes
BY DEF TypeInv, TypeOK, HandlingTypes, OtherTypes, OwnedInv, Settings

LEMMA CurrentIsKnown ==
  ASSUME TypeInv, queue # {}
  PROVE  current \in queue /\ current \in Component \cup Updates
BY FirstOfQueue DEF TypeInv, HandlingInv, current

LEMMA TypesAgain ==
  ASSUME HandlingTypes', OtherTypes'
  PROVE  TypeInv'
BY DEF TypeInv, TypeOK, HandlingTypes, OtherTypes, OwnedInv, Settings

LEMMA OthersKeepTheirTypes ==
  ASSUME OtherTypes, settings' \in Settings,
         UNCHANGED <<present, owned, report, watching, disturbances>>,
         edits' \in 0 .. MaxEdits
  PROVE  OtherTypes'
<1>1. /\ present' = present /\ owned' = owned /\ report' = report
      /\ watching' = watching /\ disturbances' = disturbances
  OBVIOUS
<1> QED
  BY <1>1 DEF OtherTypes, OwnedInv

\* What whisk_update makes of the settings for an edit.
EditOf(u) ==
  CASE u \in Patchable ->
         /\ settings' = [settings EXCEPT !.on = IF u \in @ THEN @ \ {u}
                                                          ELSE @ \cup {u}]
         /\ Cardinality(Store \cap settings'.on) < 2
    [] u \in {"endpoint", "redeployment"} -> UNCHANGED settings
    [] OTHER ->
         \E o \in {"s3-ingress", "console-ingress"} \ settings.options :
           settings' = [settings EXCEPT !.options = @ \cup {o}]

LEMMA Switching ==
  ASSUME NEW u, u \in Patchable, EditOf(u)
  PROVE  settings' = [settings EXCEPT !.on = IF u \in settings.on
                                               THEN settings.on \ {u}
                                               ELSE settings.on \cup {u}]
<1>1. u \notin {"endpoint", "redeployment"}
  BY DEF Patchable
<1> QED
  BY <1>1, Zenon DEF EditOf

LEMMA TypeHandlers ==
  ASSUME TypeInv, ApplyWhisk \/ DeleteWhisk \/ whisk_create \/ whisk_delete
                           \/ whisk_update \/ whisk_update_again
  PROVE  TypeInv'
<1>t. HandlingTypes /\ OtherTypes
  BY TypesTogether
<1>e. edits \in 0 .. MaxEdits /\ settings \in Settings
  BY DEF TypeInv, TypeOK
<1>1. CASE ApplyWhisk
  <2>1. queue = {} /\ todo = <<>> /\ List(todo)
    BY <1>1 DEF ApplyWhisk, TypeInv, TypeOK, HandlingInv, QueueFor
  <2>2. HandlingTypes'
    BY <1>1, <1>t, <2>1
    DEF ApplyWhisk, HandlingTypes, HandlingInv, QueueFor, CallsFor, history
  <2>3. OtherTypes'
    BY <1>1, <1>t, <1>e, OthersKeepTheirTypes DEF ApplyWhisk
  <2> QED
    BY <2>2, <2>3, TypesAgain
<1>2. CASE DeleteWhisk
  <2>1. queue = {} /\ todo = <<>> /\ List(todo)
    BY <1>2 DEF DeleteWhisk, TypeInv, TypeOK, HandlingInv, QueueFor
  <2>2. HandlingTypes'
    BY <1>2, <1>t, <2>1
    DEF DeleteWhisk, HandlingTypes, HandlingInv, QueueFor, CallsFor, history
  <2>3. OtherTypes'
    BY <1>2, <1>t, <1>e, OthersKeepTheirTypes DEF DeleteWhisk
  <2> QED
    BY <2>2, <2>3, TypesAgain
<1>3. CASE whisk_create
  <2>1. PICK q : q = {c \in Component : create_enabled(c, settings)}
    OBVIOUS
  <2>2. QueueFor("create", q, settings')
    BY <1>3, <2>1 DEF whisk_create, QueueFor
  <2>3. GoesTo("create", q, clean)
    BY <1>3, <2>1 DEF whisk_create
  <2>4. HandlingTypes'
    BY <1>3, <2>2, <2>3, GoingOn DEF whisk_create, TypeInv, TypeOK, HandlingTypes
  <2>5. OtherTypes'
    BY <1>3, <1>t, <1>e, OthersKeepTheirTypes DEF whisk_create
  <2> QED
    BY <2>4, <2>5, TypesAgain
<1>4. CASE whisk_delete
  <2>1. PICK q : q = {c \in ToSet(DeleteOrder) : memory.configured /\ enabled(c, settings)}
    OBVIOUS
  <2>2. QueueFor("delete", q, settings')
    BY <1>4, <2>1 DEF whisk_delete, QueueFor
  <2>3. GoesTo("delete", q, clean)
    BY <1>4, <2>1 DEF whisk_delete
  <2>4. HandlingTypes'
    BY <1>4, <2>2, <2>3, GoingOn DEF whisk_delete, TypeInv, TypeOK, HandlingTypes
  <2>5. OtherTypes'
    BY <1>4, <1>t, <1>e, OthersKeepTheirTypes DEF whisk_delete
  <2> QED
    BY <2>4, <2>5, TypesAgain
<1>5. CASE whisk_update
  <2>1. PICK u \in settings.edits : /\ EditOf(u) /\ edited' = u
                                    /\ GoesTo("update", update_queue(u), clean)
    BY <1>5 DEF whisk_update, EditOf
  <2>2. u \in Patchable \cup Updates
    BY <2>1, <1>e DEF Settings
  <2>3. settings' \in Settings
    <3>1. CASE u \in Patchable
      <4>1. u \in Component
        BY <3>1, Orders DEF Patchable, ComponentNames
      <4>2. PICK on : on = IF u \in settings.on THEN settings.on \ {u}
                                                ELSE settings.on \cup {u}
        OBVIOUS
      <4>3. settings' = [settings EXCEPT !.on = on]
        <5>1. settings' = [settings EXCEPT !.on = IF u \in settings.on
                                                   THEN settings.on \ {u}
                                                   ELSE settings.on \cup {u}]
          BY <2>1, <3>1, Switching
        <5> QED
          BY <4>2, <5>1
      <4>4. on \subseteq Component \cup {"tls"}
        BY <1>e, <4>1, <4>2 DEF Settings
      <4> QED
        BY <1>e, <4>3, <4>4 DEF Settings
    <3>2. CASE u \notin Patchable
      <4>1. \/ settings' = settings
            \/ \E o \in {"s3-ingress", "console-ingress"} :
                 settings' = [settings EXCEPT !.options = @ \cup {o}]
        BY <2>1, <3>2, Zenon DEF EditOf
      <4>2. {"s3-ingress", "console-ingress"} \subseteq Option
        BY DEF Option
      <4>3. ASSUME NEW o \in {"s3-ingress", "console-ingress"},
                   settings' = [settings EXCEPT !.options = @ \cup {o}]
            PROVE  settings' \in Settings
        <5>1. PICK options : options = settings.options \cup {o}
          OBVIOUS
        <5>2. settings' = [settings EXCEPT !.options = options]
          BY <4>3, <5>1
        <5>3. options \subseteq Option
          BY <1>e, <4>2, <4>3, <5>1 DEF Settings
        <5> QED
          BY <1>e, <5>2, <5>3 DEF Settings
      <4> QED
        BY <1>e, <4>1, <4>3
    <3> QED
      BY <3>1, <3>2
  <2>4. QueueFor("update", update_queue(u), settings')
    BY <2>2 DEF QueueFor
  <2>5. clean \subseteq Component \cup Updates /\ partial' = partial
    BY <1>5, <1>t DEF whisk_update, HandlingTypes
  <2>6. HandlingTypes'
    BY <1>t, <2>1, <2>2, <2>4, <2>5, GoingOn DEF HandlingTypes
  <2>7. edits' \in 0 .. MaxEdits
    BY <1>5, <1>e, BoundsAssumption DEF whisk_update
  <2>8. OtherTypes'
    BY <1>5, <1>t, <2>3, <2>7, OthersKeepTheirTypes DEF whisk_update
  <2> QED
    BY <2>6, <2>8, TypesAgain
<1>6. CASE whisk_update_again
  <2>1. edited \in Patchable \cup Updates /\ edited' = edited
    BY <1>6, <1>t DEF whisk_update_again, Pending, HandlingTypes, HandlingInv
  <2>2. GoesTo("update", update_queue(edited), clean)
    BY <1>6 DEF whisk_update_again
  <2>3. QueueFor("update", update_queue(edited), settings')
    BY <2>1 DEF QueueFor
  <2>4. clean \subseteq Component \cup Updates /\ partial' = partial
    BY <1>6, <1>t DEF whisk_update_again, HandlingTypes
  <2>5. HandlingTypes'
    BY <1>t, <2>1, <2>2, <2>3, <2>4, GoingOn DEF HandlingTypes
  <2>6. OtherTypes'
    BY <1>6, <1>t, <1>e, OthersKeepTheirTypes DEF whisk_update_again
  <2> QED
    BY <2>5, <2>6, TypesAgain
<1> QED
  BY <1>1, <1>2, <1>3, <1>4, <1>5, <1>6

\* A call that is made, or fails, leaves the types of the handler.
LEMMA HandlersKeepTheirTypes ==
  ASSUME HandlingTypes, todo # <<>>, NEW blocks, failed' = blocks,
         UNCHANGED <<settings, handler, edited, queue>>,
         todo' = IF "handler" \in blocks THEN <<>> ELSE left(Tail(todo), blocks),
         clean' \cup partial' \subseteq Component \cup Updates
  PROVE  HandlingTypes'
<1>1. HandlingInv'
  BY CallsGoOn DEF HandlingTypes
<1>2. settings' = settings /\ handler' = handler /\ queue' = queue /\ queue # {}
  BY DEF HandlingTypes
<1> QED
  BY <1>1, <1>2 DEF HandlingTypes

LEMMA TypeCalls ==
  ASSUME TypeInv, HandlerCall \/ CallDisturbed
  PROVE  TypeInv'
<1>t. HandlingTypes /\ OtherTypes
  BY TypesTogether
<1>q. todo # <<>> /\ queue # {}
  BY <1>t DEF HandlerCall, CallDisturbed, HandlingTypes
<1>c. PICK call : call = Head(todo)
  OBVIOUS
<1>f. /\ call.do = "deploy" => call.what[1] = "set"
      /\ call.do = "save" => call.what[1] = "couchdb"
  BY <1>q, <1>c, FirstCall
<1>1. CASE HandlerCall
  <2>1. PICK blocks : /\ blocks = IF works(call) THEN failed ELSE failed \cup {call.ends}
                      /\ failed' = blocks
                      /\ todo' = IF "handler" \in blocks THEN <<>>
                                 ELSE left(Tail(todo), blocks)
    BY <1>1, <1>c DEF HandlerCall
  <2>2. clean' = clean /\ partial' = partial
    BY <1>1 DEF HandlerCall, history
  <2>3. HandlingTypes'
    BY <1>1, <1>t, <1>q, <2>1, <2>2, HandlersKeepTheirTypes DEF HandlerCall, HandlingTypes
  <2>4. carry_out(call) \/ UNCHANGED <<present, owned>>
    BY <1>1, <1>c DEF HandlerCall
  <2>5. OwnedInv'
    BY <1>t, <1>f, <2>4, OwnedIsCarriedOut DEF OtherTypes, OwnedInv
  <2>6. OtherTypes'
    BY <1>1, <1>t, <2>5 DEF HandlerCall, OtherTypes
  <2> QED
    BY <2>3, <2>6, TypesAgain
<1>2. CASE CallDisturbed
  <2>1. PICK blocks : /\ failed' = blocks
                      /\ todo' = IF "handler" \in blocks THEN <<>>
                                 ELSE left(Tail(todo), blocks)
    BY <1>2 DEF CallDisturbed
  <2>2. clean' = clean \ {current} /\ partial' = partial \cup {current}
    BY <1>2 DEF CallDisturbed
  <2>3. current \in Component \cup Updates
    BY <1>q, CurrentIsKnown
  <2>4. clean' \cup partial' \subseteq Component \cup Updates
    BY <1>t, <2>2, <2>3 DEF HandlingTypes
  <2>5. HandlingTypes'
    BY <1>2, <1>t, <1>q, <2>1, <2>4, HandlersKeepTheirTypes DEF CallDisturbed
  <2>6. \/ carry_out(call)
        \/ UNCHANGED <<present, owned>>
        \/ /\ call.do = "save" /\ owned' = owned
           /\ \E o \in present : present' = (present \ removes(call)) \cup saves(call, {o})
    BY <1>2, <1>c DEF CallDisturbed
  <2>7. OwnedInv'
    <3>1. ASSUME call.do = "save", owned' = owned,
                 NEW o, present' = (present \ removes(call)) \cup saves(call, {o})
          PROVE  OwnedInv'
      <4>1. \A m \in removes(call) : m[1] = "couchdb"
        BY <1>f, <3>1 DEF removes
      <4> QED
        BY <1>t, <3>1, <4>1 DEF OtherTypes, OwnedInv
    <3> QED
      BY <1>t, <1>f, <2>6, <3>1, OwnedIsCarriedOut DEF OtherTypes, OwnedInv
  <2>8. disturbances' \in 0 .. MaxDisturbances
    <3>1. disturbances < MaxDisturbances /\ disturbances' = disturbances + 1
      BY <1>2 DEF CallDisturbed
    <3> QED
      BY <1>t, <3>1, BoundsAssumption DEF OtherTypes
  <2>9. OtherTypes'
    BY <1>2, <1>t, <2>7, <2>8 DEF CallDisturbed, OtherTypes
  <2> QED
    BY <2>5, <2>9, TypesAgain
<1> QED
  BY <1>1, <1>2

LEMMA TypeDone ==
  ASSUME TypeInv, ComponentDone
  PROVE  TypeInv'
<1>t. HandlingTypes /\ OtherTypes
  BY TypesTogether
<1>s. settings \in Settings /\ settings' = settings
  BY <1>t DEF ComponentDone, OtherTypes
<1>c. PICK c : c = current
  OBVIOUS
<1>r. PICK raised : raised = ("handler" \in failed)
  OBVIOUS
<1>w. PICK with : with = IF raised THEN tried_with(c) ELSE {c}
  OBVIOUS
<1>q. queue # {} /\ c \in queue /\ c \in Component \cup Updates
  BY <1>c, CurrentIsKnown DEF ComponentDone
<1>h. /\ handler \in {"create", "update", "delete"}
      /\ QueueFor(handler, queue, settings)
  BY <1>q, <1>t, FirstOfQueue DEF HandlingTypes, HandlingInv
<1>p. partial' = partial \cup (IF raised THEN {c} \cap Store ELSE {})
  BY <1>c, <1>r DEF ComponentDone
<1>u. /\ edited' = edited /\ edited \in Patchable \cup Updates \cup {"none"}
      /\ handler = "update" => edited \in Patchable \cup Updates
  BY <1>t DEF ComponentDone, HandlingTypes, HandlingInv
<1>1. partial' \subseteq Component \cup Updates
  BY <1>p, <1>q, <1>t DEF HandlingTypes
<1>2. CASE raised /\ raises(c)
  <2>1. /\ queue' = {} /\ failed' = {} /\ todo' = todo /\ todo = <<>>
        /\ report' = report /\ handler' = handler /\ clean' = clean
    BY <1>2, <1>c, <1>r DEF ComponentDone
  <2>2. QueueFor(handler, {}, settings)
    BY <1>h DEF QueueFor
  <2>3. HandlingTypes'
    BY <1>1, <1>s, <1>t, <1>u, <2>1, <2>2 DEF HandlingTypes, HandlingInv, CallsFor
  <2>4. OtherTypes'
    BY <1>s, <1>t, <2>1, OthersKeepTheirTypes DEF ComponentDone, OtherTypes
  <2> QED
    BY <2>3, <2>4, TypesAgain
<1>3. CASE ~ (raised /\ raises(c))
  <2>1. /\ GoesTo(handler, queue \ with, clean)
        /\ report' = [d \in Component |-> IF d \in with \cap Component
                                           THEN says(c) ELSE report[d]]
    BY <1>3, <1>c, <1>r, <1>w DEF ComponentDone
  <2>2. QueueFor(handler, queue \ with, settings')
    BY <1>h, <1>s DEF QueueFor
  <2>3. HandlingTypes'
    BY <1>1, <1>h, <1>t, <1>u, <2>1, <2>2, GoingOn DEF HandlingTypes
  <2>4. report' \in [Component -> {"none", "on", "off", "error"}]
    <3>1. ASSUME NEW d \in with \cap Component
          PROVE  says(c) \in {"none", "on", "off", "error"}
      <4>1. c \in Component
        <5>1. with = {c} \/ (with = {"openwhisk", "endpoint"} /\ c \in with)
          BY <1>w DEF tried_with
        <5> QED
          BY <5>1, Orders DEF ComponentNames
      <4> QED
        BY <4>1, <1>t DEF says, OtherTypes
    <3> QED
      BY <1>t, <2>1, <3>1 DEF OtherTypes
  <2>5. OtherTypes'
    BY <1>s, <1>t, <2>4 DEF ComponentDone, OtherTypes, OwnedInv
  <2> QED
    BY <2>3, <2>5, TypesAgain
<1> QED
  BY <1>2, <1>3

LEMMA TypeRest ==
  ASSUME TypeInv, Collect \/ runtimes_cm_event_watcher \/ WatcherCall \/ WatcherDisturbed
  PROVE  TypeInv'
<1>t. HandlingTypes /\ OtherTypes
  BY TypesTogether
<1>h. ASSUME UNCHANGED <<settings, handling>>, clean' \cup partial' \subseteq Component \cup Updates
      PROVE  HandlingTypes'
  <2>1. /\ settings' = settings /\ handler' = handler /\ queue' = queue
        /\ todo' = todo /\ failed' = failed /\ edited' = edited
    BY <1>h DEF handling
  <2> QED
    BY <1>h, <1>t, <2>1 DEF HandlingTypes, HandlingInv
<1>1. CASE Collect
  <2>1. HandlingTypes'
    BY <1>1, <1>h, <1>t DEF Collect, history, HandlingTypes
  <2>2. OtherTypes'
    BY <1>1, <1>t DEF Collect, OtherTypes, OwnedInv
  <2> QED
    BY <2>1, <2>2, TypesAgain
<1>2. CASE runtimes_cm_event_watcher
  <2>1. HandlingTypes'
    BY <1>2, <1>h, <1>t DEF runtimes_cm_event_watcher, history, HandlingTypes
  <2>2. edits' \in 0 .. MaxEdits
    BY <1>2, <1>t, BoundsAssumption DEF runtimes_cm_event_watcher, OtherTypes
  <2>3. Watched(watching')
    BY <1>2, WatcherCallsAreWatched DEF runtimes_cm_event_watcher
  <2>4. OtherTypes'
    BY <1>2, <1>t, <2>2, <2>3 DEF runtimes_cm_event_watcher, OtherTypes, OwnedInv
  <2> QED
    BY <2>1, <2>4, TypesAgain
<1>3. CASE WatcherCall \/ WatcherDisturbed
  <2>c. PICK call : call = Head(watching)
    OBVIOUS
  <2>1. clean' \cup partial' \subseteq Component \cup Updates
    <3>1. "preloader" \in Component
      BY Orders DEF ComponentNames
    <3> QED
      BY <1>3, <1>t, <3>1 DEF WatcherCall, WatcherDisturbed, history, HandlingTypes
  <2>2. HandlingTypes'
    BY <1>3, <1>h, <2>1 DEF WatcherCall, WatcherDisturbed
  <2>3. call.do = "deploy" => call.what[1] = "set"
    BY <1>3, <2>c, FirstCall DEF WatcherCall, WatcherDisturbed
  <2>4. carry_out(call) \/ UNCHANGED <<present, owned>>
    BY <1>3, <2>c DEF WatcherCall, WatcherDisturbed
  <2>5. OwnedInv'
    BY <1>t, <2>3, <2>4, OwnedIsCarriedOut DEF OtherTypes, OwnedInv
  <2>6. watching # <<>> /\ (watching' = Tail(watching) \/ watching' = stopped(call))
    BY <1>3, <2>c DEF WatcherCall, WatcherDisturbed
  <2>7. Watched(watching')
    BY <1>t, <2>c, <2>6, WatchingGoesOn DEF OtherTypes
  <2>8. disturbances' \in 0 .. MaxDisturbances
    BY <1>3, <1>t, BoundsAssumption DEF WatcherCall, WatcherDisturbed, OtherTypes
  <2>9. settings' = settings /\ report' = report /\ edits' = edits
    BY <1>3 DEF WatcherCall, WatcherDisturbed
  <2>10. OtherTypes'
    BY <1>t, <2>5, <2>7, <2>8, <2>9 DEF OtherTypes
  <2> QED
    BY <2>2, <2>10, TypesAgain
<1> QED
  BY <1>1, <1>2, <1>3

LEMMA TypeRestart ==
  ASSUME TypeInv, Restart
  PROVE  TypeInv'
<1>t. HandlingTypes /\ OtherTypes
  BY TypesTogether
<1>d. disturbances' \in 0 .. MaxDisturbances
  BY <1>t, BoundsAssumption DEF Restart, OtherTypes
<1>s. settings' = settings /\ present' = present /\ owned' = owned /\ report' = report
      /\ edits' = edits /\ watching' = <<>>
  BY DEF Restart
<1>p. partial' \subseteq Component \cup Updates
  <2>1. {"preloader", "quota"} \subseteq Component
    BY Orders DEF ComponentNames
  <2> QED
    BY <1>t, <2>1 DEF Restart, HandlingTypes
<1>1. OtherTypes'
  BY <1>t, <1>d, <1>s, NoCallsAreWatched DEF OtherTypes, OwnedInv
<1>2. HandlingTypes'
  <2>1. /\ queue' = {} /\ todo' = <<>> /\ failed' = {}
        /\ clean' = clean \ queue /\ handler' = handler /\ edited' = edited
    BY DEF Restart
  <2>2. List(<<>>)
    BY NothingIsUnmade DEF Unmade
  <2>3. QueueFor(handler', queue', settings')
    BY <1>s, <1>t, <2>1 DEF HandlingTypes, HandlingInv, QueueFor
  <2>4. HandlingInv'
    BY <1>t, <2>1, <2>2, <2>3 DEF HandlingTypes, HandlingInv, CallsFor
  <2> QED
    BY <1>p, <1>t, <2>1, <2>4 DEF HandlingTypes
<1> QED
  BY <1>1, <1>2, TypesAgain

LEMMA TypeNext ==
  ASSUME TypeInv, [Next]_vars
  PROVE  TypeInv'
<1>1. CASE Next
  BY <1>1, TypeHandlers, TypeCalls, TypeDone, TypeRest, TypeRestart DEF Next, Handler
<1>2. CASE UNCHANGED vars
  <2>1. TypeInv <=> TypeInv'
    BY <1>2
    DEF vars, handling, history, TypeInv, TypeOK, HandlingInv, OwnedInv
  <2> QED
    BY <2>1
<1> QED
  BY <1>1, <1>2

\* In every state the variables have their types, only manifests that exist have
\* an owner, and a handler that has no component to do has no call to make.
THEOREM TypesAreKept == Spec => []TypeOK
<1>1. Spec => []TypeInv
  BY TypeInit, TypeNext, PTL DEF Spec
<1>2. TypeInv => TypeOK
  BY DEF TypeInv
<1> QED
  BY <1>1, <1>2, PTL
=============================================================================
