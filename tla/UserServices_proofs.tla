------------------------ MODULE UserServices_proofs ------------------------
(***************************************************************************)
(* The invariants of UserServices, proved for every set of users, specs,   *)
(* components and quotas and for any number of edits, failures and         *)
(* restarts.                                                               *)
(*                                                                         *)
(* The answers of the clients of the services are described first: which   *)
(* parts of an account a call leaves, and which variables it records.      *)
(* Then come the inductive invariant, the places of a handler in its list  *)
(* of services, and what each step does to the part of the invariant that  *)
(* is about one user.                                                      *)
(***************************************************************************)
EXTENDS UserServices, WellFoundedInduction, SequenceTheorems, TLAPS

----------------------------------------------------------------------------
(* The services and the answers of their clients.                          *)

\* A set of numbers that is not empty has a least one.
LEMMA LeastNumber ==
  ASSUME NEW S \in SUBSET Nat, S # {}
  PROVE  \E p \in S : \A q \in S : p <= q
<1>1. PICK p \in S : \A q \in S : ~ (<<q, p>> \in OpToRel(<, Nat))
  BY NatLessThanWellFounded, WFMin
<1>2. ASSUME NEW q \in S PROVE p <= q
  <2>1. <<q, p>> \in Nat \X Nat
    BY <1>1
  <2> QED
    BY <1>1, <2>1 DEF OpToRel
<1> QED
  BY <1>1, <1>2

\* The place is between i and the one after the last, it is of one of A, and
\* what is passed over is not of A.
LEMMA Place ==
  ASSUME NEW order, Len(order) \in Nat, NEW A, NEW i \in 1 .. Len(order) + 1
  PROVE  LET p == place(order, i, A)
         IN /\ p \in i .. Len(order) + 1
            /\ p <= Len(order) => order[p] \in A
            /\ \A q \in i .. p - 1 : order[q] \notin A
<1> DEFINE S == {p \in i .. Len(order) + 1 : p <= Len(order) => order[p] \in A}
<1>1. Len(order) + 1 \in S /\ S \in SUBSET Nat
  OBVIOUS
<1>a. \E p \in S : \A q \in S : p <= q
  <2> HIDE DEF S
  <2> QED
    BY <1>1, LeastNumber
<1>2. PICK p \in S : \A q \in S : p <= q
  BY <1>a
<1>3. \A q \in i .. p - 1 : order[q] \notin A
  BY <1>2
<1>4. \E m \in i .. Len(order) + 1 :
        /\ m <= Len(order) => order[m] \in A
        /\ \A q \in i .. m - 1 : order[q] \notin A
  BY <1>2, <1>3
<1> DEFINE P(m) == /\ m <= Len(order) => order[m] \in A
                   /\ \A q \in i .. m - 1 : order[q] \notin A
<1>5. place(order, i, A) = CHOOSE m \in i .. Len(order) + 1 : P(m)
  BY Zenon DEF place
<1>6. \E m \in i .. Len(order) + 1 : P(m)
  BY <1>4
<1> HIDE DEF P
<1>7. place(order, i, A) \in i .. Len(order) + 1 /\ P(place(order, i, A))
  BY <1>5, <1>6, Zenon
<1> QED
  BY <1>7 DEF P

\* The calls of a short sequence.
LEMMA AllOf ==
  \A a, b, c, d : /\ all_of(<<a>>) = {a}
                  /\ all_of(<<a, b>>) = {a, b}
                  /\ all_of(<<a, b, c, d>>) = {a, b, c, d}
<1> SUFFICES ASSUME NEW a, NEW b, NEW c, NEW d
             PROVE  /\ all_of(<<a>>) = {a}
                    /\ all_of(<<a, b>>) = {a, b}
                    /\ all_of(<<a, b, c, d>>) = {a, b, c, d}
  OBVIOUS
<1>1. all_of(<<a>>) = {a}
  BY DEF all_of
<1>2. all_of(<<a, b>>) = {a, b}
  BY DEF all_of
<1>3. all_of(<<a, b, c, d>>) = {a, b, c, d}
  BY DEF all_of
<1> QED
  BY <1>1, <1>2, <1>3

\* The calls of a short sequence that are reached and succeed when those of B fail.
LEMMA Upto1 ==
  ASSUME NEW a, NEW B PROVE upto(<<a>>, B) = {a} \ B
BY DEF upto

LEMMA Upto2 ==
  ASSUME NEW a, NEW b, NEW B
  PROVE upto(<<a, b>>, B) = IF a \in B THEN {} ELSE {a} \cup ({b} \ B)
BY DEF upto

LEMMA Upto4 ==
  ASSUME NEW a, NEW b, NEW c, NEW d, NEW B
  PROVE upto(<<a, b, c, d>>, B) =
          IF a \in B THEN {}
          ELSE {a} \cup (IF b \in B THEN {}
                        ELSE {b} \cup (IF c \in B THEN {} ELSE {c} \cup ({d} \ B)))
BY DEF upto


\* Of calls that follow one another the later are reached if the first all succeed.
LEMMA Joined ==
  ASSUME NEW S, NEW s \in Seq(S), NEW t \in Seq(S), NEW B
  PROVE  /\ s \o t \in Seq(S)
         /\ all_of(s \o t) = all_of(s) \cup all_of(t)
         /\ upto(s \o t, B) = IF all_of(s) \cap B = {} THEN all_of(s) \cup upto(t, B)
                              ELSE upto(s, B)
<1> DEFINE m == Len(s)
           n == Len(t)
<1>1. PICK u \in Seq(S) : u = s \o t
  BY ConcatProperties
<1>2. /\ m \in Nat /\ n \in Nat
      /\ Len(u) = m + n
      /\ \A i \in 1 .. m : u[i] = s[i]
      /\ \A i \in m + 1 .. m + n : u[i] = t[i - m]
  BY <1>1, ConcatProperties
<1>a. /\ all_of(s) = {s[i] : i \in 1 .. m}
      /\ all_of(t) = {t[i] : i \in 1 .. n}
      /\ all_of(u) = {u[i] : i \in 1 .. m + n}
      /\ \A x : x \in upto(s, B) <=>
                 \E i \in 1 .. m : x = s[i] /\ \A k \in 1 .. i : s[k] \notin B
      /\ \A x : x \in upto(t, B) <=>
                 \E i \in 1 .. n : x = t[i] /\ \A k \in 1 .. i : t[k] \notin B
      /\ \A x : x \in upto(u, B) <=>
                 \E i \in 1 .. m + n : x = u[i] /\ \A k \in 1 .. i : u[k] \notin B
  BY <1>2 DEF all_of, upto
<1> HIDE DEF m, n
<1>b. ASSUME NEW i \in 1 .. n
      PROVE  m + i \in m + 1 .. m + n /\ m + i \in 1 .. m + n /\ u[m + i] = t[i]
  <2>1. m + i \in m + 1 .. m + n /\ (m + i) - m = i /\ m + i \in 1 .. m + n
    BY <1>2
  <2> QED
    BY <1>2, <2>1
<1>c. ASSUME NEW i \in 1 .. m + n
      PROVE  (i \in 1 .. m /\ u[i] = s[i]) \/ (i - m \in 1 .. n /\ u[i] = t[i - m])
  BY <1>2
<1>3. all_of(u) = all_of(s) \cup all_of(t)
  <2>1. ASSUME NEW i \in 1 .. m PROVE s[i] \in all_of(u)
    <3>1. i \in 1 .. m + n /\ u[i] = s[i]
      BY <1>2
    <3> QED
      BY <1>a, <3>1
  <2>2. ASSUME NEW i \in 1 .. n PROVE t[i] \in all_of(u)
    BY <1>a, <1>b
  <2>3. ASSUME NEW i \in 1 .. m + n PROVE u[i] \in all_of(s) \cup all_of(t)
    BY <1>a, <1>c
  <2>4. \A x : x \in all_of(u) => x \in all_of(s) \cup all_of(t)
    BY <1>a, <2>3
  <2>5. \A x : x \in all_of(s) \cup all_of(t) => x \in all_of(u)
    BY <1>a, <2>1, <2>2
  <2> QED
    BY <2>4, <2>5
<1>4. CASE all_of(s) \cap B = {}
  <2>1. \A i \in 1 .. m : s[i] \notin B
    BY <1>a, <1>4
  <2>2. ASSUME NEW i \in 1 .. m PROVE s[i] \in upto(u, B)
    <3>1. i \in 1 .. m + n /\ \A k \in 1 .. i : u[k] \notin B
      BY <1>2, <2>1
    <3> QED
      BY <1>2, <1>a, <3>1
  <2>3. ASSUME NEW i \in 1 .. n, \A k \in 1 .. i : t[k] \notin B
        PROVE  t[i] \in upto(u, B)
    <3>1. ASSUME NEW k \in 1 .. m + i PROVE u[k] \notin B
      <4>1. k \in 1 .. m + n /\ (k - m \in 1 .. n => k - m \in 1 .. i)
        BY <1>2
      <4> QED
        BY <1>c, <2>1, <2>3, <4>1
    <3> QED
      BY <1>a, <1>b, <3>1
  <2>4. ASSUME NEW i \in 1 .. m + n, \A k \in 1 .. i : u[k] \notin B
        PROVE  u[i] \in all_of(s) \cup upto(t, B)
    <3>1. CASE i \in 1 .. m /\ u[i] = s[i]
      BY <1>a, <3>1
    <3>2. CASE i - m \in 1 .. n /\ u[i] = t[i - m]
      <4>1. ASSUME NEW k \in 1 .. i - m PROVE t[k] \notin B
        <5>1. k \in 1 .. n /\ m + k \in 1 .. i
          BY <1>2, <3>2
        <5> QED
          BY <1>b, <2>4, <5>1
      <4> QED
        BY <1>a, <3>2, <4>1
    <3> QED
      BY <1>c, <3>1, <3>2
  <2>5. \A x \in upto(u, B) : x \in all_of(s) \cup upto(t, B)
    BY <1>a, <2>4
  <2>6. \A x \in all_of(s) \cup upto(t, B) : x \in upto(u, B)
    BY <1>a, <2>2, <2>3
  <2>7. upto(u, B) = all_of(s) \cup upto(t, B)
    BY <2>5, <2>6
  <2> QED
    BY <1>1, <1>3, <1>4, <2>7
<1>5. CASE all_of(s) \cap B # {}
  <2>1. PICK b \in 1 .. m : s[b] \in B
    BY <1>5, <1>a
  <2>2. ASSUME NEW i \in 1 .. m + n, \A k \in 1 .. i : u[k] \notin B
        PROVE  u[i] \in upto(s, B)
    <3>1. i \in 1 .. m /\ \A k \in 1 .. i : k \in 1 .. m
      BY <1>2, <2>1, <2>2
    <3> QED
      BY <1>2, <1>a, <2>2, <3>1
  <2>3. ASSUME NEW i \in 1 .. m, \A k \in 1 .. i : s[k] \notin B
        PROVE  s[i] \in upto(u, B)
    <3>1. i \in 1 .. m + n /\ \A k \in 1 .. i : k \in 1 .. m
      BY <1>2
    <3> QED
      BY <1>2, <1>a, <2>3, <3>1
  <2>4. \A x : x \in upto(u, B) <=> x \in upto(s, B)
    BY <1>a, <2>2, <2>3
  <2>5. upto(u, B) = upto(s, B)
    BY <2>4 DEF upto
  <2> QED
    BY <1>1, <1>3, <1>5, <2>5
<1> QED
  BY <1>4, <1>5
LEMMA Reached ==
  ASSUME NEW calls, Len(calls) \in Nat, NEW B
  PROVE  /\ upto(calls, B) \subseteq all_of(calls) \ B
         /\ all_of(calls) \cap B = {} => upto(calls, B) = all_of(calls)
BY DEF upto, all_of

\* The objects of the API and of the web content, up to the first in B.
LEMMA ApiObjects ==
  ASSUME NEW B
  PROVE  LET o == api_objects(Ingress)
         IN /\ Ingress = "traefik" =>
                 /\ all_of(o) = {"api-mw", "my-mw", "api", "my"}
                 /\ upto(o, B) =
                      IF "api-mw" \in B THEN {}
                      ELSE {"api-mw"} \cup
                           (IF "my-mw" \in B THEN {}
                            ELSE {"my-mw"} \cup
                                 (IF "api" \in B THEN {}
                                  ELSE {"api"} \cup ({"my"} \ B)))
            /\ Ingress # "traefik" =>
                 /\ all_of(o) = {"api", "my"}
                 /\ upto(o, B) = IF "api" \in B THEN {}
                                 ELSE {"api"} \cup ({"my"} \ B)
<1>1. CASE Ingress = "traefik"
  <2>1. api_objects(Ingress) = <<"api-mw", "my-mw", "api", "my">>
    BY <1>1 DEF api_objects
  <2>2. all_of(<<"api-mw", "my-mw", "api", "my">>) = {"api-mw", "my-mw", "api", "my"}
    BY AllOf
  <2>3. upto(<<"api-mw", "my-mw", "api", "my">>, B) =
          IF "api-mw" \in B THEN {}
          ELSE {"api-mw"} \cup
               (IF "my-mw" \in B THEN {}
                ELSE {"my-mw"} \cup
                     (IF "api" \in B THEN {} ELSE {"api"} \cup ({"my"} \ B)))
    BY Upto4
  <2> QED
    BY <1>1, <2>1, <2>2, <2>3
<1>2. CASE Ingress # "traefik"
  <2>1. api_objects(Ingress) = <<"api", "my">>
    BY <1>2 DEF api_objects
  <2>2. all_of(<<"api", "my">>) = {"api", "my"}
    BY AllOf
  <2>3. upto(<<"api", "my">>, B) =
          IF "api" \in B THEN {} ELSE {"api"} \cup ({"my"} \ B)
    BY Upto2
  <2> QED
    BY <1>2, <2>1, <2>2, <2>3
<1> QED
  BY <1>1, <1>2

\* The objects of an endpoint for web content, in the order of their creation.
LEMMA StaticObjects ==
  ASSUME NEW B
  PROVE  LET o == static_objects(Ingress)
         IN /\ Ingress = "traefik" =>
                 /\ all_of(o) = {"middleware", "ingress"}
                 /\ upto(o, B) = IF "middleware" \in B THEN {}
                                 ELSE {"middleware"} \cup ({"ingress"} \ B)
            /\ Ingress # "traefik" =>
                 /\ all_of(o) = {"ingress"}
                 /\ upto(o, B) = {"ingress"} \ B
<1>1. CASE Ingress = "traefik"
  <2>1. static_objects(Ingress) = <<"middleware", "ingress">>
    BY <1>1 DEF static_objects
  <2>2. all_of(<<"middleware", "ingress">>) = {"middleware", "ingress"}
    BY AllOf
  <2>3. upto(<<"middleware", "ingress">>, B) =
          IF "middleware" \in B THEN {} ELSE {"middleware"} \cup ({"ingress"} \ B)
    BY DEF upto
  <2> QED
    BY <1>1, <2>1, <2>2, <2>3
<1>2. CASE Ingress # "traefik"
  <2>1. static_objects(Ingress) = <<"ingress">>
    BY <1>2 DEF static_objects
  <2> QED
    BY <1>2, <2>1, Upto1, AllOf
<1> QED
  BY <1>1, <1>2

\* Calls that follow one another, for all the sequences over one set.
LEMMA JoinedCalls ==
  ASSUME NEW S, NEW B
  PROVE  \A x \in Seq(S), y \in Seq(S) :
           /\ x \o y \in Seq(S)
           /\ all_of(x \o y) = all_of(x) \cup all_of(y)
           /\ upto(x \o y, B) = IF all_of(x) \cap B = {} THEN all_of(x) \cup upto(y, B)
                                ELSE upto(x, B)
<1> TAKE x \in Seq(S), y \in Seq(S)
<1> QED
  BY Joined, ZenonT(60)

\* The calls that make and remove the buckets a spec asks for.
LEMMA StorageCalls ==
  ASSUME NEW s, NEW B
  PROVE  LET bucket == {"data", "route"} \cap s
             public == IF "route" \in s THEN {"public", "content"} ELSE {}
         IN /\ all_of(minio_delete_calls(s)) = bucket \cup {"user", "policy"}
            /\ all_of(seaweedfs_delete_calls(s)) = bucket \cup {"user"}
            /\ all_of(seaweedfs_calls(s)) = bucket \cup public \cup {"user"}
            /\ Len(seaweedfs_calls(s)) \in Nat /\ Len(seaweedfs_delete_calls(s)) \in Nat
            /\ "public" \in upto(seaweedfs_calls(s), B) =>
                 "route" \in upto(seaweedfs_calls(s), B)
<1> DEFINE S == {"data", "route", "public", "content", "user", "policy"}
           d == IF "data" \in s THEN <<"data">> ELSE <<>>
           r == IF "route" \in s THEN <<"route">> ELSE <<>>
           p == IF "route" \in s THEN <<"route", "public", "content">> ELSE <<>>
           u == <<"user">>
           w == <<"user", "policy">>
<1>1. d \in Seq(S) /\ r \in Seq(S) /\ p \in Seq(S) /\ u \in Seq(S) /\ w \in Seq(S)
  <2>1. <<"data">> \in Seq(S) /\ <<"route">> \in Seq(S) /\ <<"user">> \in Seq(S)
    OBVIOUS
  <2>4. <<>> \in Seq(S)
    BY EmptySeq
  <2>2. <<"route", "public", "content">> \in Seq(S)
    OBVIOUS
  <2>3. <<"user", "policy">> \in Seq(S)
    OBVIOUS
  <2> QED
    BY <2>1, <2>2, <2>3, <2>4
<1>2. /\ all_of(d) = {"data"} \cap s
      /\ all_of(r) = {"route"} \cap s
      /\ all_of(p) = IF "route" \in s THEN {"route", "public", "content"} ELSE {}
      /\ all_of(u) = {"user"} /\ all_of(w) = {"user", "policy"}
  BY DEF all_of
<1>3. "public" \in upto(p, B) => "route" \in upto(p, B)
  BY DEF upto
<1>4. /\ minio_delete_calls(s) = (d \o r) \o w
      /\ seaweedfs_delete_calls(s) = (d \o r) \o u
      /\ seaweedfs_calls(s) = (d \o p) \o u
  BY Zenon DEF minio_delete_calls, seaweedfs_delete_calls, seaweedfs_calls
<1>5. PICK dd \in Seq(S), rr \in Seq(S), pp \in Seq(S), uu \in Seq(S), ww \in Seq(S) :
        dd = d /\ rr = r /\ pp = p /\ uu = u /\ ww = w
  BY <1>1
<1> HIDE DEF S, d, r, p, u, w
<1>6. \A x \in Seq(S), y \in Seq(S) :
        /\ x \o y \in Seq(S)
        /\ all_of(x \o y) = all_of(x) \cup all_of(y)
        /\ upto(x \o y, B) = IF all_of(x) \cap B = {} THEN all_of(x) \cup upto(y, B)
                             ELSE upto(x, B)
  BY JoinedCalls, Zenon
<1>7. \A x \in Seq(S) : Len(x) \in Nat
  OBVIOUS
<1>8. PICK dr \in Seq(S), dp \in Seq(S) : dr = d \o r /\ dp = d \o p
  BY <1>1, <1>6
<1>9. PICK m \in Seq(S), e \in Seq(S), c \in Seq(S) :
        m = dr \o w /\ e = dr \o u /\ c = dp \o u
  BY <1>1, <1>6
<1>10. m = minio_delete_calls(s) /\ e = seaweedfs_delete_calls(s) /\ c = seaweedfs_calls(s)
  BY <1>4, <1>8, <1>9
<1>11. /\ all_of(m) = ({"data", "route"} \cap s) \cup {"user", "policy"}
       /\ all_of(e) = ({"data", "route"} \cap s) \cup {"user"}
       /\ all_of(c) = ({"data", "route"} \cap s) \cup {"user"}
                       \cup (IF "route" \in s THEN {"public", "content"} ELSE {})
  <2>1. all_of(dr) = all_of(d) \cup all_of(r) /\ all_of(dp) = all_of(d) \cup all_of(p)
    BY <1>1, <1>6, <1>8
  <2>2. /\ all_of(m) = all_of(dr) \cup all_of(w)
        /\ all_of(e) = all_of(dr) \cup all_of(u)
        /\ all_of(c) = all_of(dp) \cup all_of(u)
    BY <1>1, <1>6, <1>9
  <2> QED
    BY <1>2, <2>1, <2>2
<1>12. "public" \in upto(c, B) => "route" \in upto(c, B)
  <2>1. upto(u, B) \subseteq {"user"} /\ upto(d, B) \subseteq {"data"}
    BY <1>1, <1>2, <1>7, Reached
  <2>2. upto(c, B) = IF all_of(dp) \cap B = {} THEN all_of(dp) \cup upto(u, B)
                     ELSE upto(dp, B)
    BY <1>1, <1>6, <1>9
  <2>3. upto(dp, B) = IF all_of(d) \cap B = {} THEN all_of(d) \cup upto(p, B)
                      ELSE upto(d, B)
    BY <1>1, <1>6, <1>8
  <2>4. all_of(dp) = all_of(d) \cup all_of(p)
    BY <1>1, <1>6, <1>8
  <2> QED
    BY <1>2, <1>3, <2>1, <2>2, <2>3, <2>4
<1>13. Len(c) \in Nat /\ Len(e) \in Nat
  BY <1>7
<1> QED
  BY <1>10, <1>11, <1>12, <1>13
LEMMA MilvusCalls ==
  ASSUME NEW B
  PROVE  /\ all_of(setup_calls) =
              {"user", "database", "role", "privileges", "granted"}
         /\ all_of(remove_calls) =
              {"collections", "privileges", "role", "user", "database"}
         /\ upto(setup_calls, B) \subseteq all_of(setup_calls) \ B
         /\ all_of(setup_calls) \cap B = {} =>
              upto(setup_calls, B) = all_of(setup_calls)
         /\ "user" \in B => upto(setup_calls, B) = {}
         /\ upto(remove_calls, B) \subseteq all_of(remove_calls) \ B
         /\ all_of(remove_calls) \cap B = {} =>
              upto(remove_calls, B) = all_of(remove_calls)
         /\ "collections" \in B => upto(remove_calls, B) = {}
<1>1. Len(setup_calls) \in Nat /\ Len(remove_calls) \in Nat
  BY DEF setup_calls, remove_calls
<1>2. all_of(setup_calls) = {"user", "database", "role", "privileges", "granted"}
  BY DEF all_of, setup_calls
<1>3. all_of(remove_calls) = {"collections", "privileges", "role", "user", "database"}
  BY DEF all_of, remove_calls
<1>4. "user" \in B => upto(setup_calls, B) = {}
  BY DEF upto, setup_calls
<1>5. "collections" \in B => upto(remove_calls, B) = {}
  BY DEF upto, remove_calls
<1> QED
  BY <1>1, <1>2, <1>3, <1>4, <1>5, Reached

\* What a sequence of calls does, whether its failures are noticed or not.
LEMMA Effective ==
  ASSUME NEW calls, Len(calls) \in Nat, NEW F, NEW silent
  PROVE  /\ effective(calls, F, silent) \subseteq all_of(calls) \ F
         /\ all_of(calls) \cap F = {} =>
              effective(calls, F, silent) = all_of(calls) /\ returns(calls, F, silent)
         /\ ~silent /\ returns(calls, F, silent) =>
              effective(calls, F, silent) = all_of(calls)
<1>1. /\ upto(calls, F) \subseteq all_of(calls) \ F
      /\ all_of(calls) \cap F = {} => upto(calls, F) = all_of(calls)
  BY Reached
<1>2. all_of(calls) \cap F = {} => all_of(calls) \ F = all_of(calls)
  OBVIOUS
<1> QED
  BY <1>1, <1>2 DEF effective, returns

\* The two scripts that make a database and its user.
LEMMA Scripts ==
  ASSUME NEW F, NEW silent
  PROVE  LET done == effective(manage_script, F, silent)
             then == effective(user_scripts, F, silent)
         IN /\ done \subseteq {"database", "role", "granted"}
            /\ then \subseteq {"schema", "vector"}
            /\ ~silent /\ returns(manage_script, F, silent) =>
                 done = {"database", "role", "granted"}
            /\ F = {} => /\ done = {"database", "role", "granted"}
                         /\ then = {"schema", "vector"}
                         /\ returns(manage_script, F, silent)
<1>1. /\ Len(manage_script) \in Nat
      /\ all_of(manage_script) = {"database", "role", "granted"}
  BY DEF all_of, manage_script
<1>2. Len(user_scripts) \in Nat /\ all_of(user_scripts) = {"schema", "vector"}
  BY DEF all_of, user_scripts
<1>3. F = {} => all_of(manage_script) \cap F = {} /\ all_of(user_scripts) \cap F = {}
  OBVIOUS
<1>4. /\ effective(manage_script, F, silent) \subseteq {"database", "role", "granted"}
      /\ ~silent /\ returns(manage_script, F, silent) =>
           effective(manage_script, F, silent) = {"database", "role", "granted"}
      /\ F = {} => /\ effective(manage_script, F, silent) = {"database", "role", "granted"}
                   /\ returns(manage_script, F, silent)
  BY <1>1, <1>3, Effective
<1>5. /\ effective(user_scripts, F, silent) \subseteq {"schema", "vector"}
      /\ F = {} => effective(user_scripts, F, silent) = {"schema", "vector"}
  BY <1>2, <1>3, Effective
<1> QED
  BY <1>4, <1>5

\* What the scripts add to an account.
LEMMA Managed ==
  ASSUME NEW has, NEW F, NEW silent
  PROVE  LET made == manage_user(has, F, silent)
             end == manage_schema(made, F, silent)
         IN /\ has \subseteq made /\ made \subseteq end
            /\ end \subseteq has \cup {"database", "role", "granted", "schema", "vector"}
            /\ ~silent /\ returns(manage_script, F, silent) =>
                 {"database", "role", "granted"} \subseteq made
            /\ F = {} => /\ {"database", "role", "granted"} \subseteq made
                         /\ {"schema", "vector"} \subseteq end
<1>1. PICK done : done = effective(manage_script, F, silent)
  OBVIOUS
<1>2. PICK then : then = effective(user_scripts, F, silent)
  OBVIOUS
<1>3. /\ done \subseteq {"database", "role", "granted"}
      /\ then \subseteq {"schema", "vector"}
      /\ ~silent /\ returns(manage_script, F, silent) =>
           done = {"database", "role", "granted"}
      /\ F = {} => done = {"database", "role", "granted"} /\ then = {"schema", "vector"}
  BY <1>1, <1>2, Scripts
<1>4. PICK made : made = manage_user(has, F, silent)
  OBVIOUS
<1>5. /\ has \subseteq made /\ made \subseteq has \cup done
      /\ {"database", "role"} \subseteq done => has \cup done = made
  BY <1>1, <1>4 DEF manage_user
<1>6. /\ made \subseteq manage_schema(made, F, silent)
      /\ manage_schema(made, F, silent) \subseteq made \cup then
      /\ {"database", "role"} \subseteq made /\ then = {"schema", "vector"} =>
           {"schema", "vector"} \subseteq manage_schema(made, F, silent)
  BY <1>2 DEF manage_schema
<1> QED
  BY <1>3, <1>4, <1>5, <1>6

\* An account in a database that is made.
LEMMA DatabaseMade ==
  ASSUME NEW has, NEW h, NEW F, NEW silent,
         NEW f \in {"mongodb", "postgres"}
  PROVE  LET a == created(f, has, h, F, silent)
         IN /\ has \subseteq a.has
            /\ a.has \subseteq has \cup {"database", "role", "granted", "schema",
                                         "vector", "write"}
            /\ a.vars \subseteq IF f = "mongodb" THEN {"MONGODB_URL"} ELSE {"POSTGRES"}
            /\ ~silent /\ a.vars # {} =>
                 {"database", "role", "granted"} \subseteq a.has
            /\ F = {} /\ has = {} => "write" \in a.has
<1>1. PICK made : made = manage_user(has, F, silent)
  OBVIOUS
<1>2. PICK full : full = manage_schema(made, F, silent)
  OBVIOUS
<1>3. PICK on \in BOOLEAN : on <=> returns(manage_script, F, silent)
  OBVIOUS
<1>4. /\ has \subseteq made /\ made \subseteq full
      /\ full \subseteq has \cup {"database", "role", "granted", "schema", "vector"}
      /\ ~silent /\ on => {"database", "role", "granted"} \subseteq made
      /\ F = {} => /\ {"database", "role", "granted"} \subseteq made
                   /\ {"schema", "vector"} \subseteq full
                   /\ on
  BY <1>1, <1>2, <1>3, Managed, Scripts
<1>5. CASE f = "mongodb"
  <2>1. created(f, has, h, F, silent) =
          Answer(made \cup (IF "granted" \in made \ has THEN {"write"} ELSE {}),
                 IF on THEN add_mdb_user_metadata(F) ELSE {}, FALSE)
    BY <1>1, <1>3, <1>5 DEF created, ferretdb_create_db_user
  <2> QED
    BY <1>4, <1>5, <2>1 DEF Answer, add_mdb_user_metadata
<1>6. CASE f = "postgres"
  <2>1. PICK end : end = IF on THEN full ELSE made
    OBVIOUS
  <2>2. created(f, has, h, F, silent) =
          Answer(end \cup (IF "schema" \in end \ has THEN {"write"} ELSE {}),
                 IF on THEN add_pdb_user_metadata(F) ELSE {}, FALSE)
    BY <1>1, <1>2, <1>3, <1>6, <2>1 DEF created, postgres_create_db_user
  <2> QED
    BY <1>4, <1>6, <2>1, <2>2 DEF Answer, add_pdb_user_metadata
<1> QED
  BY <1>5, <1>6

\* A user in redis that is made or made again.
LEMMA RedisMade ==
  ASSUME NEW has, NEW h, NEW F, NEW silent
  PROVE  LET a == created("redis", has, h, F, silent)
         IN /\ a.has = has \/ "user" \in a.has
            /\ a.has \subseteq has \cup {"user", "on", "read", "write"}
            /\ "on" \in has => "on" \in a.has
            /\ a.vars \subseteq {"REDIS_PREFIX", "REDIS"}
            /\ F \cap redis_script = {} =>
                 /\ a.vars # {} => "on" \in a.has
                 /\ a.has = has \/ ("write" \notin a.has <=> h.mark = "true")
            /\ F = {} => /\ a.vars = {"REDIS_PREFIX", "REDIS"}
                         /\ "write" \notin a.has <=> h.mark = "true"
<1>1. created("redis", has, h, F, silent) = redis_create_db_user(has, F, h.mark = "true")
  BY DEF created
<1>2. PICK done : done = IF F \cap {"exec", "auth"} = {} THEN redis_script \ F ELSE {}
  OBVIOUS
<1>3. PICK rights : rights = IF "rights" \in done
                               THEN {"read"} \cup (IF h.mark = "true" THEN {} ELSE {"write"})
                               ELSE has \cap {"read", "write"}
  OBVIOUS
<1>4. created("redis", has, h, F, silent) =
        Answer(IF "auth" \notin done THEN has
               ELSE {"user"} \cup ((has \cup done) \cap {"on"}) \cup rights,
               IF "exec" \in F THEN {}
               ELSE {"REDIS_PREFIX"} \cup add_redis_user_metadata(F), FALSE)
  BY <1>1, <1>2, <1>3 DEF redis_create_db_user
<1>5. rights \subseteq {"read", "write"}
  BY <1>3
<1>6. F \cap redis_script = {} =>
        done = IF "exec" \in F THEN {} ELSE {"auth", "on", "rights"}
  BY <1>2 DEF redis_script
<1>7. F = {} => done = {"auth", "on", "rights"}
  BY <1>2 DEF redis_script
<1> QED
  BY <1>3, <1>4, <1>5, <1>6, <1>7 DEF Answer, add_redis_user_metadata

\* An account of SeaweedFS that is made or made again.
LEMMA BucketsMade ==
  ASSUME NEW has, NEW h, NEW F, NEW silent
  PROVE  LET a == created("seaweedfs", has, h, F, silent)
         IN /\ has \subseteq a.has
            /\ a.has \subseteq has \cup ({"data", "route"} \cap h.spec) \cup {"user"}
                               \cup (IF "route" \in h.spec THEN {"public"} ELSE {})
            /\ a.vars \subseteq {"S3", "S3_BUCKET_DATA", "S3_BUCKET_STATIC"}
            /\ ~silent => /\ "S3" \in a.vars => "user" \in a.has
                          /\ "S3_BUCKET_DATA" \in a.vars => "data" \in a.has
                          /\ "S3_BUCKET_STATIC" \in a.vars =>
                               {"route", "public"} \subseteq a.has
            /\ F = {} /\ ~silent =>
                 /\ "S3" \in a.vars
                 /\ "data" \in h.spec => "S3_BUCKET_DATA" \in a.vars
                 /\ "route" \in h.spec => "S3_BUCKET_STATIC" \in a.vars
<1>1. PICK calls : calls = seaweedfs_calls(h.spec)
  OBVIOUS
<1>2. PICK all : all = all_of(calls)
  OBVIOUS
<1>3. PICK done : done = effective(calls, F, silent)
  OBVIOUS
<1>4. /\ all = ({"data", "route"} \cap h.spec) \cup {"user"}
                \cup (IF "route" \in h.spec THEN {"public", "content"} ELSE {})
      /\ Len(calls) \in Nat
      /\ "public" \in upto(calls, F) => "route" \in upto(calls, F)
  BY <1>1, <1>2, StorageCalls
<1>5. /\ done \subseteq all
      /\ F = {} => done = all
      /\ ~silent /\ "public" \in done => "route" \in done
  <2>1. F = {} => all_of(calls) \cap F = {}
    OBVIOUS
  <2>2. ~silent => done = upto(calls, F)
    BY <1>3 DEF effective
  <2> QED
    BY <1>2, <1>3, <1>4, <2>1, <2>2, Effective
<1>6. PICK made : made = has \cup (done \ {"public", "content"})
  OBVIOUS
<1>7. PICK told : told = IF silent THEN all \ (F \cap {"public"}) ELSE done
  OBVIOUS
<1>8. PICK ends : ends = ~returns(calls, F, silent)
  OBVIOUS
<1>9. created("seaweedfs", has, h, F, silent) =
         Answer(made \cup (IF "route" \in made THEN done \cap {"public"} ELSE {}),
                (IF "user" \in told THEN add_seaweedfs_user_metadata(F) ELSE {})
                \cup (IF "data" \in told THEN {"S3_BUCKET_DATA"} ELSE {})
                \cup (IF "public" \in told THEN {"S3_BUCKET_STATIC"} ELSE {}), ends)
  <2>1. created("seaweedfs", has, h, F, silent) =
          seaweedfs_create_ow_storage(has, h.spec, F, silent)
    BY DEF created
  <2> QED
    BY <1>1, <1>2, <1>3, <1>6, <1>7, <1>8, <2>1, Zenon DEF seaweedfs_create_ow_storage
<1>10. PICK vs : vs = (IF "user" \in told THEN add_seaweedfs_user_metadata(F) ELSE {})
                      \cup (IF "data" \in told THEN {"S3_BUCKET_DATA"} ELSE {})
                      \cup (IF "public" \in told THEN {"S3_BUCKET_STATIC"} ELSE {})
  OBVIOUS
<1>11. /\ vs \subseteq {"S3", "S3_BUCKET_DATA", "S3_BUCKET_STATIC"}
       /\ "S3" \in vs => "user" \in told
       /\ "S3_BUCKET_DATA" \in vs => "data" \in told
       /\ "S3_BUCKET_STATIC" \in vs => "public" \in told
       /\ "user" \in told /\ F = {} => "S3" \in vs
       /\ "data" \in told => "S3_BUCKET_DATA" \in vs
       /\ "public" \in told => "S3_BUCKET_STATIC" \in vs
  BY <1>10 DEF add_seaweedfs_user_metadata
<1>12. PICK end : end = made \cup (IF "route" \in made THEN done \cap {"public"} ELSE {})
  OBVIOUS
<1>13. created("seaweedfs", has, h, F, silent) = Answer(end, vs, ends)
  BY <1>9, <1>10, <1>12
<1>14. /\ has \subseteq end
       /\ end \subseteq has \cup ({"data", "route"} \cap h.spec) \cup {"user"}
                        \cup (IF "route" \in h.spec THEN {"public"} ELSE {})
  BY <1>4, <1>5, <1>6, <1>12
<1>15. ~silent => /\ "user" \in told => "user" \in end
                  /\ "data" \in told => "data" \in end
                  /\ "public" \in told => {"route", "public"} \subseteq end
  BY <1>5, <1>6, <1>7, <1>12
<1>16. F = {} /\ ~silent => told = all
  BY <1>5, <1>7
<1>17. PICK a : a = created("seaweedfs", has, h, F, silent)
  OBVIOUS
<1>18. a.has = end /\ a.vars = vs
  BY <1>13, <1>17 DEF Answer
<1>19. F = {} /\ ~silent =>
         /\ "S3" \in vs
         /\ "data" \in h.spec => "S3_BUCKET_DATA" \in vs
         /\ "route" \in h.spec => "S3_BUCKET_STATIC" \in vs
  BY <1>4, <1>11, <1>16
<1>20. ~silent => /\ "S3" \in vs => "user" \in end
                  /\ "S3_BUCKET_DATA" \in vs => "data" \in end
                  /\ "S3_BUCKET_STATIC" \in vs => {"route", "public"} \subseteq end
  BY <1>11, <1>15
<1>21. vs \subseteq {"S3", "S3_BUCKET_DATA", "S3_BUCKET_STATIC"}
  BY <1>11
<1> QED
  BY <1>14, <1>17, <1>18, <1>19, <1>20, <1>21

\* The services by name.
LEMMA Services ==
  /\ Service = {"api", "minio", "seaweedfs", "static", "mongodb", "redis",
                "postgres", "milvus"}
  /\ Kinds \subseteq Service
BY DEF Service, CreateOrder, Kinds

----------------------------------------------------------------------------
(* What the functions of ServiceClients leave.                             *)

\* What an account can be.
Possible(f, has) ==
  /\ has \subseteq Part
  /\ f = "redis" /\ has # {} => "user" \in has
  /\ f = "minio" /\ "public" \in has => "route" \in has
  /\ f = "minio" /\ "attached" \in has => {"user", "policy"} \subseteq has

\* What a client leaves is possible, and what it records is a variable, whatever fails.
LEMMA PossibleCreated ==
  ASSUME NEW f \in Service, NEW has, Possible(f, has), NEW h, NEW F,
         NEW silent
  PROVE  LET a == created(f, has, h, F, silent)
         IN /\ Possible(f, a.has)
            /\ a.vars \subseteq Variable
            /\ a.raised \in BOOLEAN
<1>1. CASE f = "api"
  BY <1>1, ApiObjects
     DEF created, create_ow_api_endpoint, Answer, Possible, Part, Variable
<1>2. CASE f = "minio"
  BY <1>2
     DEF created, minio_create_ow_storage, Answer, Possible, Part, Variable,
         assign_rw_bucket_policy_to_user, add_minio_user_metadata
<1>3. CASE f = "seaweedfs"
  <2>1. created(f, has, h, F, silent).raised \in BOOLEAN
    <3>1. PICK ends : ends = ~returns(seaweedfs_calls(h.spec), F, silent)
      OBVIOUS
    <3>2. created(f, has, h, F, silent).raised = ends
      BY <1>3, <3>1 DEF created, seaweedfs_create_ow_storage, Answer
    <3>3. ends \in BOOLEAN
      BY <3>1 DEF returns
    <3> QED
      BY <3>2, <3>3
  <2>2. /\ created("seaweedfs", has, h, F, silent).has
             \subseteq has \cup ({"data", "route"} \cap h.spec) \cup {"user"}
                      \cup (IF "route" \in h.spec THEN {"public"} ELSE {})
        /\ created("seaweedfs", has, h, F, silent).vars
             \subseteq {"S3", "S3_BUCKET_DATA", "S3_BUCKET_STATIC"}
    BY BucketsMade
  <2> QED
    BY <1>3, <2>1, <2>2 DEF Possible, Part, Variable
<1>4. CASE f = "static"
  BY <1>4, StaticObjects
     DEF created, create_ow_static_endpoint, Answer, Possible, Part, Variable
<1>5. CASE f = "mongodb"
  <2>1. created(f, has, h, F, silent).raised \in BOOLEAN
    BY <1>5 DEF created, ferretdb_create_db_user, Answer
  <2>2. /\ created("mongodb", has, h, F, silent).has
             \subseteq has \cup {"database", "role", "granted", "schema", "vector", "write"}
        /\ created("mongodb", has, h, F, silent).vars \subseteq {"MONGODB_URL"}
    BY DatabaseMade
  <2> QED
    BY <1>5, <2>1, <2>2 DEF Possible, Part, Variable
<1>6. CASE f = "redis"
  <2>1. created(f, has, h, F, silent).raised \in BOOLEAN
    BY <1>6 DEF created, redis_create_db_user, Answer
  <2> QED
    BY <1>6, <2>1, RedisMade DEF Possible, Part, Variable
<1>7. CASE f = "postgres"
  <2>1. created(f, has, h, F, silent).raised \in BOOLEAN
    BY <1>7 DEF created, postgres_create_db_user, Answer
  <2>2. /\ created("postgres", has, h, F, silent).has
             \subseteq has \cup {"database", "role", "granted", "schema", "vector", "write"}
        /\ created("postgres", has, h, F, silent).vars \subseteq {"POSTGRES"}
    BY DatabaseMade
  <2> QED
    BY <1>7, <2>1, <2>2 DEF Possible, Part, Variable
<1>8. CASE f = "milvus"
  <2>1. PICK done \in SUBSET Part, vs \in SUBSET Variable :
          created(f, has, h, F, silent) = Answer(has \cup (done \ F), vs, FALSE)
    <3>1. \A B : upto(setup_calls, B) \in SUBSET Part
      BY MilvusCalls DEF Part
    <3>2. \A p : (IF p THEN add_milvus_user_metadata(F) ELSE {}) \in SUBSET Variable
      BY DEF add_milvus_user_metadata, Variable
    <3>3. created(f, has, h, F, silent) = milvus_setup_user(has, F, silent)
      BY <1>8 DEF created
    <3> QED
      BY <3>1, <3>2, <3>3, Zenon DEF milvus_setup_user
  <2>2. has \subseteq Part
    BY DEF Possible
  <2>3. has \cup (done \ F) \subseteq Part
    BY <2>2
  <2>4. Possible(f, has \cup (done \ F))
    BY <1>8, <2>3 DEF Possible
  <2> QED
    BY <2>1, <2>4 DEF Answer
<1> QED
  BY <1>1, <1>2, <1>3, <1>4, <1>5, <1>6, <1>7, <1>8, Services

\* The same of the clients that remove.
LEMMA PossibleRemoved ==
  ASSUME NEW f \in Service, NEW has, Possible(f, has), NEW h, NEW F,
         NEW silent \in BOOLEAN, NEW session \in BOOLEAN
  PROVE  LET a == removed(f, has, h, F, silent, session)
         IN /\ Possible(f, a.has)
            /\ a.vars \subseteq Variable
            /\ a.raised \in BOOLEAN
<1>1. CASE f = "api"
  BY <1>1 DEF removed, delete_ow_api_endpoint, deletes_in_order, Answer, Possible
<1>2. CASE f = "minio"
  BY <1>2 DEF removed, minio_delete_ow_storage, Answer, Possible
<1>3. CASE f = "seaweedfs"
  BY <1>3 DEF removed, seaweedfs_delete_ow_storage, returns, Answer, Possible
<1>4. CASE f = "static"
  BY <1>4 DEF removed, delete_ow_static_endpoint, deletes_in_order, Answer, Possible
<1>5. CASE f = "mongodb"
  BY <1>5 DEF removed, ferretdb_delete_db_user, Answer, Possible
<1>6. CASE f = "redis"
  BY <1>6 DEF removed, redis_delete_db_user, Answer, Possible
<1>7. CASE f = "postgres"
  BY <1>7 DEF removed, postgres_delete_db_user, Answer, Possible
<1>8. CASE f = "milvus"
  BY <1>8 DEF removed, milvus_remove_user, Answer, Possible
<1> QED
  BY <1>1, <1>2, <1>3, <1>4, <1>5, <1>6, <1>7, <1>8, Services

\* The same of the quota checker.
LEMMA PossibleLimited ==
  ASSUME NEW k \in Kinds, NEW has, Possible(k, has), NEW act
  PROVE  LET a == limit_user(k, has, act)
         IN Possible(k, a.has) /\ a.ok \in BOOLEAN
<1>1. CASE k = "redis"
  BY <1>1 DEF limit_user, set_prefix_readonly, set_prefix_all, Possible, Part
<1>2. CASE k \in {"postgres", "mongodb"}
  BY <1>2 DEF limit_user, revoke_access_from_db, grant_access_on_db, Possible, Part
<1> QED
  BY <1>1, <1>2 DEF Kinds

\* What an account that no failure has touched is made of: what is removed in
\* order has been made in order, and is of what the user's spec asks for.
buckets(s) ==
  ({"data", "route"} \cap s) \cup (IF "route" \in s THEN {"public"} ELSE {})

Shape(f, has, s) ==
  CASE f = "api" ->
         IF Ingress = "traefik"
           THEN /\ has \subseteq {"api-mw", "my-mw", "api", "my"}
                /\ "my-mw" \in has => "api-mw" \in has
                /\ "api" \in has => "my-mw" \in has
                /\ "my" \in has => "api" \in has
           ELSE has \subseteq {"api", "my"} /\ ("my" \in has => "api" \in has)
    [] f = "static" ->
         /\ has \subseteq {"middleware", "ingress", "target"}
         /\ "middleware" \in has => Ingress = "traefik"
         /\ Ingress = "traefik" /\ "ingress" \in has => "middleware" \in has
         /\ "target" \in has => "ingress" \in has
    [] f = "minio" -> has \subseteq buckets(s) \cup {"user", "policy", "attached"}
    [] f = "seaweedfs" -> has \subseteq buckets(s) \cup {"user"}
    [] f = "milvus" -> has \in {{}, all_of(setup_calls)}
    [] OTHER -> TRUE

\* An account that is made keeps the shape, whatever fails (but for Milvus).
LEMMA ShapeCreated ==
  ASSUME NEW f \in Service, NEW has, NEW h, Shape(f, has, h.spec), NEW F,
         NEW silent \in BOOLEAN, f = "milvus" => F = {} /\ ~silent
  PROVE  Shape(f, created(f, has, h, F, silent).has, h.spec)
<1>1. CASE f = "api"
  <2>1. created(f, has, h, F, silent) = create_ow_api_endpoint(has, Ingress, F)
    BY <1>1 DEF created
  <2>2. PICK done : done = upto(api_objects(Ingress), F)
    OBVIOUS
  <2>3. /\ Ingress = "traefik" =>
             done = IF "api-mw" \in F THEN {}
                    ELSE {"api-mw"} \cup
                         (IF "my-mw" \in F THEN {}
                          ELSE {"my-mw"} \cup
                               (IF "api" \in F THEN {}
                                ELSE {"api"} \cup ({"my"} \ F)))
        /\ Ingress # "traefik" =>
             done = IF "api" \in F THEN {} ELSE {"api"} \cup ({"my"} \ F)
    BY <2>2, ApiObjects
  <2>4. created(f, has, h, F, silent).has \in {has, has \cup done}
    BY <2>1, <2>2 DEF create_ow_api_endpoint, Answer
  <2>5. Shape(f, has \cup done, h.spec)
    BY <1>1, <2>3 DEF Shape
  <2> QED
    BY <2>4, <2>5
<1>2. CASE f = "minio"
  BY <1>2
     DEF created, minio_create_ow_storage, Answer, Shape, buckets,
         assign_rw_bucket_policy_to_user
<1>3. CASE f = "seaweedfs"
  BY <1>3, BucketsMade DEF Shape, buckets
<1>4. CASE f = "static"
  <2>1. created(f, has, h, F, silent) = create_ow_static_endpoint(has, Ingress, F, h.vars)
    BY <1>4 DEF created
  <2>2. PICK done : done = upto(static_objects(Ingress), F)
    OBVIOUS
  <2>3. /\ Ingress = "traefik" =>
             done = IF "middleware" \in F THEN {}
                    ELSE {"middleware"} \cup ({"ingress"} \ F)
        /\ Ingress # "traefik" => done = {"ingress"} \ F
    BY <2>2, StaticObjects
  <2>4. created(f, has, h, F, silent).has
          \in {has, IF "ingress" \in done
                      THEN (has \ {"target"}) \cup done
                           \cup (IF "S3_BUCKET_STATIC" \in h.vars
                                   THEN {"target"} ELSE {})
                      ELSE has \cup done}
    BY <2>1, <2>2 DEF create_ow_static_endpoint, Answer
  <2>5. CASE created(f, has, h, F, silent).has = has
    BY <2>5
  <2>6. CASE "ingress" \notin done /\ created(f, has, h, F, silent).has = has \cup done
    BY <1>4, <2>3, <2>6 DEF Shape
  <2>7. CASE /\ "ingress" \in done
             /\ created(f, has, h, F, silent).has
                  \in {(has \ {"target"}) \cup done, (has \ {"target"}) \cup done \cup {"target"}}
    BY <1>4, <2>3, <2>7 DEF Shape
  <2> QED
    BY <2>4, <2>5, <2>6, <2>7
<1>5. CASE f \in {"mongodb", "redis", "postgres"}
  BY <1>5 DEF Shape
<1>8. CASE f = "milvus"
  <2>2. created(f, has, h, F, silent) = milvus_setup_user(has, {}, FALSE)
    BY <1>8 DEF created
  <2>3. CASE has = {}
    <3>1. upto(setup_calls, {}) = all_of(setup_calls)
      BY MilvusCalls
    <3> QED
      BY <1>8, <2>2, <2>3, <3>1 DEF milvus_setup_user, Answer, Shape
  <2>4. CASE has = all_of(setup_calls)
    <3>1. upto(setup_calls, {"user", "database", "role"} \cap has) = {}
      BY <2>4, MilvusCalls
    <3> QED
      BY <1>8, <2>2, <2>4, <3>1 DEF milvus_setup_user, Answer, Shape
  <2> QED
    BY <1>8, <2>3, <2>4 DEF Shape
<1> QED
  BY <1>1, <1>2, <1>3, <1>4, <1>5, <1>8, Services

\* No account has every shape.
LEMMA ShapeEmpty ==
  ASSUME NEW f \in Service, NEW s PROVE Shape(f, {}, s)
BY Services DEF Shape

\* What removes an account makes nothing.
LEMMA Shrinks ==
  ASSUME NEW f \in Service, NEW has, NEW h, NEW F, NEW silent \in BOOLEAN,
         NEW session \in BOOLEAN
  PROVE  removed(f, has, h, F, silent, session).has \subseteq has
<1>1. CASE f = "api"
  BY <1>1 DEF removed, delete_ow_api_endpoint, deletes_in_order, Answer
<1>2. CASE f = "minio"
  BY <1>2 DEF removed, minio_delete_ow_storage, Answer
<1>3. CASE f = "seaweedfs"
  BY <1>3 DEF removed, seaweedfs_delete_ow_storage, Answer
<1>4. CASE f = "static"
  BY <1>4 DEF removed, delete_ow_static_endpoint, deletes_in_order, Answer
<1>5. CASE f = "mongodb"
  BY <1>5 DEF removed, ferretdb_delete_db_user, Answer
<1>6. CASE f = "redis"
  BY <1>6 DEF removed, redis_delete_db_user, Answer
<1>7. CASE f = "postgres"
  BY <1>7 DEF removed, postgres_delete_db_user, Answer
<1>8. CASE f = "milvus"
  BY <1>8 DEF removed, milvus_remove_user, Answer
<1> QED
  BY <1>1, <1>2, <1>3, <1>4, <1>5, <1>6, <1>7, <1>8, Services

\* An account that no failure has touched is removed to the last part when no
\* call fails and no session keeps the database.
LEMMA GoneRemoved ==
  ASSUME NEW f \in Service, NEW has, NEW h, Shape(f, has, h.spec)
  PROVE  removed(f, has, h, {}, FALSE, FALSE).has = {}
<1>1. CASE f = "api"
  <2>1. PICK gone : gone = upto(api_objects(Ingress),
                                {} \cup (all_of(api_objects(Ingress)) \ has))
    OBVIOUS
  <2>2. removed(f, has, h, {}, FALSE, FALSE).has = has \ gone
    BY <1>1, <2>1
       DEF removed, delete_ow_api_endpoint, deletes_in_order, Answer
  <2>3. PICK B : B = {} \cup (all_of(api_objects(Ingress)) \ has)
    OBVIOUS
  <2>4. gone = upto(api_objects(Ingress), B)
    BY <2>1, <2>3
  <2>5. CASE Ingress = "traefik"
    <3>1. /\ all_of(api_objects(Ingress)) = {"api-mw", "my-mw", "api", "my"}
          /\ gone = IF "api-mw" \in B THEN {}
                    ELSE {"api-mw"} \cup
                         (IF "my-mw" \in B THEN {}
                          ELSE {"my-mw"} \cup
                               (IF "api" \in B THEN {}
                                ELSE {"api"} \cup ({"my"} \ B)))
      BY <2>4, <2>5, ApiObjects
    <3>2. B = {"api-mw", "my-mw", "api", "my"} \ has
      BY <2>3, <3>1
    <3>3. has \subseteq gone
      BY <1>1, <2>5, <3>1, <3>2 DEF Shape
    <3> QED
      BY <2>2, <3>3
  <2>6. CASE Ingress # "traefik"
    <3>1. /\ all_of(api_objects(Ingress)) = {"api", "my"}
          /\ gone = IF "api" \in B THEN {} ELSE {"api"} \cup ({"my"} \ B)
      BY <2>4, <2>6, ApiObjects
    <3>2. B = {"api", "my"} \ has
      BY <2>3, <3>1
    <3>3. has \subseteq gone
      BY <1>1, <2>6, <3>1, <3>2 DEF Shape
    <3> QED
      BY <2>2, <3>3
  <2> QED
    BY <2>5, <2>6
<1>2. CASE f = "minio"
  <2>1. PICK all : all = all_of(minio_delete_calls(h.spec))
    OBVIOUS
  <2>2. all = ({"data", "route"} \cap h.spec) \cup {"user", "policy"}
    BY <2>1, StorageCalls
  <2>3. removed(f, has, h, {}, FALSE, FALSE).has =
          has \ (all \cup (IF "route" \in all THEN {"public"} ELSE {})
                     \cup (IF all \cap {"user", "policy"} # {}
                             THEN {"attached"} ELSE {}))
    BY <1>2, <2>1 DEF removed, minio_delete_ow_storage, Answer
  <2> QED
    BY <1>2, <2>2, <2>3 DEF Shape, buckets
<1>3. CASE f = "seaweedfs"
  <2>1. PICK gone : gone = effective(seaweedfs_delete_calls(h.spec), {}, FALSE)
    OBVIOUS
  <2>2. gone = ({"data", "route"} \cap h.spec) \cup {"user"}
    <3>1. PICK calls : calls = seaweedfs_delete_calls(h.spec)
      OBVIOUS
    <3>2. Len(calls) \in Nat /\ all_of(calls) = ({"data", "route"} \cap h.spec) \cup {"user"}
      BY <3>1, StorageCalls
    <3>3. all_of(calls) \cap {} = {} /\ FALSE \in BOOLEAN
      OBVIOUS
    <3> QED
      BY <2>1, <3>1, <3>2, <3>3, Effective
  <2>3. removed(f, has, h, {}, FALSE, FALSE).has =
          has \ (gone \cup (IF "route" \in gone THEN {"public"} ELSE {}))
    BY <1>3, <2>1 DEF removed, seaweedfs_delete_ow_storage, Answer
  <2> QED
    BY <1>3, <2>2, <2>3 DEF Shape, buckets
<1>4. CASE f = "static"
  <2>1. PICK B : B = {} \cup (all_of(static_objects(Ingress)) \ has)
    OBVIOUS
  <2>2. PICK left : left = has \ upto(static_objects(Ingress), B)
    OBVIOUS
  <2>3. removed(f, has, h, {}, FALSE, FALSE).has =
          IF "ingress" \in left THEN left ELSE left \ {"target"}
    BY <1>4, <2>1, <2>2
       DEF removed, delete_ow_static_endpoint, deletes_in_order, Answer
  <2>4. CASE Ingress = "traefik"
    <3>1. /\ all_of(static_objects(Ingress)) = {"middleware", "ingress"}
          /\ left = has \ (IF "middleware" \in B THEN {}
                           ELSE {"middleware"} \cup ({"ingress"} \ B))
      BY <2>2, <2>4, StaticObjects
    <3>2. B = {"middleware", "ingress"} \ has
      BY <2>1, <3>1
    <3>3. left \subseteq {"target"} /\ "ingress" \notin left
      BY <1>4, <2>4, <3>1, <3>2 DEF Shape
    <3> QED
      BY <2>3, <3>3
  <2>5. CASE Ingress # "traefik"
    <3>1. /\ all_of(static_objects(Ingress)) = {"ingress"}
          /\ left = has \ ({"ingress"} \ B)
      BY <2>2, <2>5, StaticObjects
    <3>2. B = {"ingress"} \ has
      BY <2>1, <3>1
    <3>3. left \subseteq {"target"} /\ "ingress" \notin left
      BY <1>4, <2>5, <3>1, <3>2 DEF Shape
    <3> QED
      BY <2>3, <3>3
  <2> QED
    BY <2>4, <2>5
<1>5. CASE f = "mongodb"
  BY <1>5 DEF removed, ferretdb_delete_db_user, Answer
<1>6. CASE f = "redis"
  BY <1>6 DEF removed, redis_delete_db_user, Answer
<1>7. CASE f = "postgres"
  BY <1>7 DEF removed, postgres_delete_db_user, Answer
<1>8. CASE f = "milvus"
  <2>1. PICK done : done = upto(remove_calls,
                     (({"privileges", "role", "user", "database"} \ has)
                      \cup (IF "database" \in has THEN {} ELSE {"collections"}))
                     \cup {})
    OBVIOUS
  <2>2. removed(f, has, h, {}, FALSE, FALSE).has =
          has \ (done \cup (IF done \cap {"role", "user"} # {}
                              THEN {"granted"} ELSE {}))
    BY <1>8, <2>1 DEF removed, milvus_remove_user, Answer
  <2>3. CASE has = {}
    BY <2>2, <2>3
  <2>4. CASE has = all_of(setup_calls)
    <3>1. has = {"user", "database", "role", "privileges", "granted"}
      BY <2>4, MilvusCalls
    <3>2. (({"privileges", "role", "user", "database"} \ has)
            \cup (IF "database" \in has THEN {} ELSE {"collections"})) \cup {} = {}
      BY <3>1
    <3>3. done = all_of(remove_calls)
      BY <2>1, <3>2, MilvusCalls
    <3>4. done = {"collections", "privileges", "role", "user", "database"}
      BY <3>3, MilvusCalls
    <3> QED
      BY <2>2, <3>1, <3>4
  <2> QED
    BY <1>8, <2>3, <2>4 DEF Shape
<1> QED
  BY <1>1, <1>2, <1>3, <1>4, <1>5, <1>6, <1>7, <1>8, Services

\* A removal that is cut short leaves an account of that shape where the parts
\* are removed independently of one another.
LEMMA ShapeRemoved ==
  ASSUME NEW f \in Service \ {"api", "static", "milvus"}, NEW has, NEW h,
         Shape(f, has, h.spec), NEW F, NEW silent \in BOOLEAN,
         NEW session \in BOOLEAN
  PROVE  Shape(f, removed(f, has, h, F, silent, session).has, h.spec)
<1>1. removed(f, has, h, F, silent, session).has \subseteq has
  BY Shrinks
<1> QED
  BY <1>1, Services DEF Shape

\* What of an account is kept by whatever but a removal.
keeps(f, a, b) ==
  IF f = "redis" THEN "on" \in a => "on" \in b ELSE a \ {"write"} \subseteq b

\* To make an account again takes nothing away, but for the web content.
LEMMA CreatedKeeps ==
  ASSUME NEW f \in Service, NEW has, NEW h, NEW F, NEW silent,
         f = "static" => has = {}
  PROVE  keeps(f, has, created(f, has, h, F, silent).has)
<1>1. CASE f = "api"
  BY <1>1 DEF created, create_ow_api_endpoint, Answer, keeps
<1>2. CASE f = "minio"
  BY <1>2 DEF created, minio_create_ow_storage, Answer, keeps,
              assign_rw_bucket_policy_to_user
<1>3. CASE f = "seaweedfs"
  BY <1>3, BucketsMade DEF keeps
<1>4. CASE f = "static"
  BY <1>4 DEF keeps
<1>5. CASE f = "mongodb"
  BY <1>5, DatabaseMade DEF keeps
<1>6. CASE f = "redis"
  BY <1>6, RedisMade DEF keeps
<1>7. CASE f = "postgres"
  BY <1>7, DatabaseMade DEF keeps
<1>8. CASE f = "milvus"
  BY <1>8 DEF created, milvus_setup_user, Answer, keeps
<1> QED
  BY <1>1, <1>2, <1>3, <1>4, <1>5, <1>6, <1>7, <1>8, Services

\* The parts a variable promises.
backs(v, has) ==
  CASE v = "S3" -> "user" \in has
    [] v = "S3_BUCKET_DATA" -> "data" \in has
    [] v = "S3_BUCKET_STATIC" -> {"route", "public"} \subseteq has
    [] v \in {"MONGODB_URL", "POSTGRES"} -> {"database", "role", "granted"} \subseteq has
    [] v \in {"REDIS_PREFIX", "REDIS"} -> "on" \in has
    [] v = "MILVUS" -> {"user", "database", "role"} \subseteq has
    [] v = "USER_REST_API_URL" -> {"api", "my"} \subseteq has
    [] v = "STATIC_CONTENT_URL" -> {"ingress", "target"} \subseteq has

\* Whether the failures of a call, if any, are told where the variables of f
\* depend on it.
noticed(f, F, silent) ==
  /\ f \in {"seaweedfs", "mongodb", "postgres"} => ~silent
  /\ f = "redis" => F \cap redis_script = {}

\* The variables recorded lead to what has been made, whatever fails that is
\* noticed; the addresses of ingresses only when nothing fails.
LEMMA CreatedBacks ==
  ASSUME NEW f \in Service, NEW has, NEW h, NEW F, NEW silent,
         NEW v \in created(f, has, h, F, silent).vars
  PROVE  /\ v \in variables_of(f, {"data", "route"})
         /\ \/ f \notin {"api", "static"} /\ noticed(f, F, silent)
            \/ f \in {"api", "static"} /\ F = {}
               /\ (f = "static" => "S3_BUCKET_STATIC" \in h.vars)
            => backs(v, created(f, has, h, F, silent).has)
<1>1. CASE f = "api"
  <2>1. /\ created(f, has, h, F, silent) = create_ow_api_endpoint(has, Ingress, F)
        /\ v = "USER_REST_API_URL"
    BY <1>1 DEF created, create_ow_api_endpoint, Answer
  <2>2. ASSUME F = {} PROVE {"api", "my"} \subseteq created(f, has, h, F, silent).has
    <3>1. PICK done : done = upto(api_objects(Ingress), {})
      OBVIOUS
    <3>2. {"api", "my"} \subseteq done
      BY <3>1, ApiObjects
    <3>3. created(f, has, h, F, silent).has = has \cup done
      BY <2>1, <2>2, <3>1 DEF create_ow_api_endpoint, Answer
    <3> QED
      BY <3>2, <3>3
  <2> QED
    BY <1>1, <2>1, <2>2 DEF variables_of, backs
<1>2. CASE f = "minio"
  BY <1>2 DEF created, minio_create_ow_storage, Answer, variables_of, backs,
              assign_rw_bucket_policy_to_user, add_minio_user_metadata, add_user,
              make_bucket, make_public_bucket
<1>3. CASE f = "seaweedfs"
  <2>1. v \in {"S3", "S3_BUCKET_DATA", "S3_BUCKET_STATIC"}
    <3>1. created("seaweedfs", has, h, F, silent).vars
            \subseteq {"S3", "S3_BUCKET_DATA", "S3_BUCKET_STATIC"}
      BY BucketsMade
    <3> QED
      BY <1>3, <3>1
  <2>2. ASSUME ~silent PROVE backs(v, created(f, has, h, F, silent).has)
    <3>1. LET a == created("seaweedfs", has, h, F, silent)
          IN /\ "S3" \in a.vars => "user" \in a.has
             /\ "S3_BUCKET_DATA" \in a.vars => "data" \in a.has
             /\ "S3_BUCKET_STATIC" \in a.vars => {"route", "public"} \subseteq a.has
      BY <2>2, BucketsMade
    <3> QED
      BY <1>3, <2>1, <3>1 DEF backs
  <2> QED
    BY <1>3, <2>1, <2>2 DEF variables_of, noticed
<1>4. CASE f = "static"
  <2>1. /\ created(f, has, h, F, silent)
             = create_ow_static_endpoint(has, Ingress, F, h.vars)
        /\ v = "STATIC_CONTENT_URL"
    BY <1>4 DEF created, create_ow_static_endpoint, Answer
  <2>2. ASSUME F = {}, "S3_BUCKET_STATIC" \in h.vars
        PROVE  {"ingress", "target"} \subseteq created(f, has, h, F, silent).has
    <3>1. PICK done : done = upto(static_objects(Ingress), {})
      OBVIOUS
    <3>2. "ingress" \in done
      BY <3>1, StaticObjects
    <3>3. created(f, has, h, F, silent).has = (has \ {"target"}) \cup done \cup {"target"}
      BY <2>1, <2>2, <3>1, <3>2 DEF create_ow_static_endpoint, Answer
    <3> QED
      BY <3>2, <3>3
  <2> QED
    BY <1>4, <2>1, <2>2 DEF variables_of, backs
<1>5. CASE f = "mongodb"
  <2>1. v = "MONGODB_URL"
    BY <1>5, DatabaseMade
  <2>2. ~silent => {"database", "role", "granted"} \subseteq created(f, has, h, F, silent).has
    BY <1>5, DatabaseMade
  <2> QED
    BY <1>5, <2>1, <2>2 DEF variables_of, backs, noticed
<1>6. CASE f = "redis"
  <2>1. v \in {"REDIS_PREFIX", "REDIS"}
    BY <1>6, RedisMade
  <2>2. F \cap redis_script = {} => "on" \in created(f, has, h, F, silent).has
    BY <1>6, RedisMade
  <2> QED
    BY <1>6, <2>1, <2>2 DEF variables_of, backs, noticed
<1>7. CASE f = "postgres"
  <2>1. v = "POSTGRES"
    BY <1>7, DatabaseMade
  <2>2. ~silent => {"database", "role", "granted"} \subseteq created(f, has, h, F, silent).has
    BY <1>7, DatabaseMade
  <2> QED
    BY <1>7, <2>1, <2>2 DEF variables_of, backs, noticed
<1>8. CASE f = "milvus"
  <2>1. PICK B : B = ({"user", "database", "role"} \cap has)
                     \cup (IF silent THEN setup_misses(F) ELSE F)
    OBVIOUS
  <2>2. PICK done : done = upto(setup_calls, B)
    OBVIOUS
  <2>3. created(f, has, h, F, silent) =
          Answer(has \cup (done \ F),
                 IF done = all_of(setup_calls)
                   THEN add_milvus_user_metadata(F) ELSE {}, FALSE)
    BY <1>8, <2>1, <2>2, Zenon DEF created, milvus_setup_user
  <2>4. v = "MILVUS" /\ done = all_of(setup_calls)
    BY <2>3 DEF add_milvus_user_metadata, Answer
  <2>5. /\ done \cap B = {}
        /\ done = {"user", "database", "role", "privileges", "granted"}
    BY <2>2, <2>4, MilvusCalls
  <2>6. {"user", "database", "role"} \cap F = {}
    BY <2>1, <2>5 DEF setup_misses
  <2>7. {"user", "database", "role"} \subseteq created(f, has, h, F, silent).has
    BY <2>3, <2>5, <2>6 DEF Answer
  <2> QED
    BY <1>8, <2>4, <2>7 DEF variables_of, backs
<1> QED
  BY <1>1, <1>2, <1>3, <1>4, <1>5, <1>6, <1>7, <1>8, Services

\* When nothing fails, and MinIO and Milvus do not find what they are to make,
\* every variable of the service is recorded.
LEMMA CreatedComplete ==
  ASSUME NEW f \in Service, NEW has, NEW h, f \in {"minio", "milvus"} => has = {}
  PROVE  variables_of(f, h.spec) \subseteq created(f, has, h, {}, FALSE).vars
<1>1. CASE f = "api"
  BY <1>1 DEF created, create_ow_api_endpoint, Answer, variables_of
<1>2. CASE f = "minio"
  BY <1>2 DEF created, minio_create_ow_storage, Answer, variables_of,
              add_minio_user_metadata, add_user, make_bucket, make_public_bucket
<1>3. CASE f = "seaweedfs"
  <2>1. PICK none, quiet : none = {} /\ quiet = FALSE
    OBVIOUS
  <2>2. variables_of(f, h.spec) \subseteq created("seaweedfs", has, h, none, quiet).vars
    BY <1>3, <2>1, BucketsMade DEF variables_of
  <2> QED
    BY <1>3, <2>1, <2>2
<1>4. CASE f = "static"
  BY <1>4 DEF created, create_ow_static_endpoint, Answer, variables_of
<1>5. CASE f = "mongodb"
  <2>1. returns(manage_script, {}, FALSE)
    BY DEF returns
  <2> QED
    BY <1>5, <2>1
       DEF created, ferretdb_create_db_user, Answer, variables_of,
           add_mdb_user_metadata
<1>6. CASE f = "redis"
  <2>1. PICK none, quiet : none = {} /\ quiet = FALSE
    OBVIOUS
  <2>2. created("redis", has, h, none, quiet).vars = {"REDIS_PREFIX", "REDIS"}
    BY <2>1, RedisMade
  <2> QED
    BY <1>6, <2>1, <2>2 DEF variables_of
<1>7. CASE f = "postgres"
  <2>1. returns(manage_script, {}, FALSE)
    BY DEF returns
  <2> QED
    BY <1>7, <2>1
       DEF created, postgres_create_db_user, Answer, variables_of,
           add_pdb_user_metadata
<1>8. CASE f = "milvus"
  <2>1. ({"user", "database", "role"} \cap has) \cup {} = {}
    BY <1>8
  <2>2. upto(setup_calls, {}) = all_of(setup_calls)
    BY MilvusCalls
  <2>3. created(f, has, h, {}, FALSE).vars = {"MILVUS"}
    BY <1>8, <2>1, <2>2
       DEF created, milvus_setup_user, Answer, add_milvus_user_metadata
  <2> QED
    BY <1>8, <2>3 DEF variables_of
<1> QED
  BY <1>1, <1>2, <1>3, <1>4, <1>5, <1>6, <1>7, <1>8, Services

\* A new account has the right to write; redis restores the rights the
\* annotation tells.
LEMMA CreatedRights ==
  ASSUME NEW has, NEW h, NEW F, NEW silent \in BOOLEAN
  PROVE  /\ h.mark # "true" =>
              \A k \in Kinds : "write" \in created(k, {}, h, {}, silent).has
         /\ F \cap redis_script = {} =>
              LET a == created("redis", has, h, F, silent).has
              IN a = has \/ ("write" \notin a <=> h.mark = "true")
         /\ \A k \in Kinds : created(k, has, h, F, silent).has = {} => has = {}
<1>1. ASSUME NEW k \in Kinds, h.mark # "true"
      PROVE  "write" \in created(k, {}, h, {}, silent).has
  <2>1. CASE k \in {"mongodb", "postgres"}
    BY <2>1, DatabaseMade
  <2>2. CASE k = "redis"
    BY <1>1, <2>2, RedisMade
  <2> QED
    BY <2>1, <2>2 DEF Kinds
<1>2. F \cap redis_script = {} =>
        LET a == created("redis", has, h, F, silent).has
        IN a = has \/ ("write" \notin a <=> h.mark = "true")
  BY RedisMade
<1>3. ASSUME NEW k \in Kinds, created(k, has, h, F, silent).has = {} PROVE has = {}
  <2>1. CASE k \in {"mongodb", "postgres"}
    <3>1. has \subseteq created(k, has, h, F, silent).has
      BY <2>1, DatabaseMade
    <3> QED
      BY <1>3, <3>1
  <2>2. CASE k = "redis"
    BY <1>3, <2>2, RedisMade
  <2> QED
    BY <2>1, <2>2 DEF Kinds
<1> QED
  BY <1>1, <1>2, <1>3

\* What the quota checker does to an account.
LEMMA Limits ==
  ASSUME NEW k \in Kinds, NEW has, NEW act \in {"block", "reset"}
  PROVE  LET a == limit_user(k, has, act)
         IN /\ keeps(k, has, a.has)
            /\ IF a.ok THEN act = "block" <=> "write" \notin a.has
               ELSE k # "redis" /\ a.has = has
            /\ has = {} /\ k # "redis" => a.has = {} /\ ~a.ok
            /\ has # {} => a.has # {}
            /\ k = "redis" /\ "on" \notin has => "on" \notin a.has
<1>1. CASE k = "redis"
  BY <1>1 DEF limit_user, set_prefix_readonly, set_prefix_all, keeps
<1>2. CASE k \in {"postgres", "mongodb"}
  BY <1>2 DEF limit_user, revoke_access_from_db, grant_access_on_db, keeps
<1> QED
  BY <1>1, <1>2 DEF Kinds

----------------------------------------------------------------------------
(* The inductive invariant.                                                *)

\* The handler of l, of the given kind, has gone past the service f.
past(l, f, kind) ==
  /\ handler[l].kind = kind
  /\ \A i \in 1 .. Len(CreateOrder) : CreateOrder[i] = f => i < handler[l].at

HandlerType ==
  [kind : {"idle", "create", "update", "resume", "delete"},
   spec : Specs \cup {NoSpec}, at : 1 .. 10,
   vars : SUBSET Variable, mark : Mark]

JobType ==
  [at : {"idle", "list", "check", "annotate"}, no : 1 .. 3,
   sizes : SUBSET (Login \X Kinds), left : SUBSET Login,
   seen : [Login -> Mark], login : Login, act : {"none", "block", "reset"}]

Types ==
  /\ wsku \in [Login -> {"absent", "live", "deleting"}]
  /\ spec \in [Login -> Specs \cup {NoSpec}]
  /\ handled \in [Login -> Specs \cup {NoSpec}]
  /\ resumed \in [Login -> BOOLEAN]
  /\ mark \in [Login -> [Kinds -> Mark]]
  /\ handler \in [Login -> HandlerType]
  /\ cfg \in {{}, Components}
  /\ account \in [Login -> [Service -> SUBSET Part]]
  /\ saved \in [Login -> SUBSET Variable]
  /\ over \in [Login -> SUBSET Limited]
  /\ job \in JobType
  /\ spoilt \in [Login -> [Service \cup {"metadata"} -> SUBSET Cause]]
  /\ events \in 0 .. MaxEvents
  /\ \A l \in Login, f \in Service : Possible(f, account[l][f])
  /\ job.at = "annotate" => job.act \in {"block", "reset"}

\* Where a resource and its handler can be.
Course(l) ==
  /\ wsku[l] = "absent" =>
       /\ ~Handling(l) /\ handled[l] = NoSpec
       /\ \A k \in Kinds : mark[l][k] = "false"
  /\ wsku[l] # "absent" => spec[l] \in Specs
  /\ handler[l].kind = "delete" => wsku[l] = "deleting"
  /\ handler[l].kind = "create" => handled[l] = NoSpec /\ handler[l].mark = "false"
  /\ handler[l].kind \in {"update", "resume"} => handled[l] # NoSpec
  /\ Handling(l) =>
       /\ handler[l].spec \in Specs
       /\ handler[l].at \in 1 .. Len(services(handler[l].kind)) + 1
       /\ ~Ended(handler[l]) => current(handler[l]) \in asked(handler[l].spec)
       /\ handler[l].spec # spec[l] => \A f \in Service : "edited" \in spoilt[l][f]

untouched(l, f) ==
  /\ spoilt[l][f] \cap {"fault", "unconfigured", "edited", "session"} = {}
  /\ f \in {"api", "static", "milvus"} => "cut" \notin spoilt[l][f]
  /\ f = "milvus" => "died" \notin spoilt[l][f]

\* Nothing is left in f, or in redis a user a late quota checker has made.
no_trace(l, f) ==
  \/ account[l][f] = {}
  \/ f = "redis" /\ "late" \in spoilt[l][f] /\ "on" \notin account[l][f]

\* What is in f is what the deletion will remove, and it has removed it when
\* it has gone past f.
Traces(l, f) ==
  untouched(l, f) =>
    /\ \/ no_trace(l, f)
       \/ f \in asked(spec[l]) /\ Shape(f, account[l][f], spec[l])
    /\ wsku[l] = "absent" \/ past(l, f, "delete") => no_trace(l, f)

metadata_safe(l) == "fault" \notin spoilt[l]["metadata"]

\* What the handler has recorded and what is saved leads to accounts, and the
\* handler gets to the web content with the storage it has made for it.
Backed(l) ==
  /\ wsku[l] = "live" /\ handler[l].kind = "create" =>
       \A v \in handler[l].vars : backing(l, v)
  /\ wsku[l] = "live" /\ metadata_safe(l) => \A v \in saved[l] : backing(l, v)
  /\ (wsku[l] = "absent" \/ past(l, "metadata", "delete")) /\ metadata_safe(l)
       => saved[l] = {}
  /\ handler[l].kind = "create" /\ "route" \in handler[l].spec =>
       /\ past(l, "minio", "create") /\ "minio" \in Components =>
            \/ "S3_BUCKET_STATIC" \in handler[l].vars
            \/ spoilt[l]["minio"] \cap {"fault", "again", "unconfigured"} # {}
       /\ past(l, "seaweedfs", "create") /\ "seaweedfs" \in Components =>
            \/ "S3_BUCKET_STATIC" \in handler[l].vars
            \/ spoilt[l]["seaweedfs"] \cap {"fault", "unconfigured"} # {}

undisturbed(l, f) ==
  /\ spoilt[l][f] \cap {"fault", "unconfigured", "edited"} = {}
  /\ f \in {"minio", "milvus"} => "again" \notin spoilt[l][f]

\* The variables of f are recorded when the creation has gone past f, and
\* saved when it has gone past the metadata.
Complete(l, f) ==
  undisturbed(l, f) =>
    /\ past(l, f, "create") /\ f \in asked(handler[l].spec) =>
         variables_of(f, handler[l].spec) \subseteq handler[l].vars
    /\ /\ past(l, "metadata", "create") /\ f \in asked(handler[l].spec)
       /\ metadata_safe(l)
       => variables_of(f, handler[l].spec) \subseteq saved[l]
    /\ /\ wsku[l] = "live" /\ handled[l] # NoSpec /\ f \in asked(spec[l])
       /\ metadata_safe(l)
       => variables_of(f, spec[l]) \subseteq saved[l]

readable(l, k) ==
  /\ ~misread(l, k) /\ "block lost" \notin spoilt[l][k]
  /\ spoilt[l][k] \cap {"fault", "unconfigured", "edited", "session"} = {}

made(l, k) == handled[l] # NoSpec \/ past(l, k, "create")

\* The annotation, or the one the quota checker is about to write, is what the
\* rights are, and an account is made for a resource that is not annotated.
Marks(l, k) ==
  readable(l, k) =>
    /\ wsku[l] = "live" /\ made(l, k) /\ has_account(l, k) =>
         IF Annotating(l, k)
           THEN job.act = "block" <=> "write" \notin account[l][k]
           ELSE mark[l][k] = "true" <=> "write" \notin account[l][k]
    /\ wsku[l] # "deleting" /\ account[l][k] = {} =>
         mark[l][k] = "false" /\ ~Annotating(l, k)

Own(l) ==
  /\ Course(l)
  /\ \A f \in Service : Traces(l, f)
  /\ Backed(l)
  /\ \A f \in Service : Complete(l, f)
  /\ \A k \in Kinds : Marks(l, k)

IInv == Types /\ \A l \in Login : Own(l)

----------------------------------------------------------------------------
(* Steps and their effects.                                                *)

\* What the type says of the handler of a user and of the job.
LEMMA Typed ==
  ASSUME Types, NEW l \in Login
  PROVE  /\ handler[l].kind \in {"idle", "create", "update", "resume", "delete"}
         /\ handler[l].spec \in Specs \cup {NoSpec}
         /\ handler[l].at \in 1 .. 10 /\ handler[l].at \in Nat
         /\ handler[l].vars \in SUBSET Variable
         /\ handler[l].mark \in Mark
         /\ job.at \in {"idle", "list", "check", "annotate"}
         /\ job.no \in 1 .. 3 /\ checking \in Kinds
         /\ job.login \in Login /\ job.left \in SUBSET Login
         /\ job.seen \in [Login -> Mark] /\ job.act \in {"none", "block", "reset"}
<1>1. handler[l] \in HandlerType /\ job \in JobType
  BY DEF Types
<1>2. job.no \in 1 .. 3 => QuotaOrder[job.no] \in Kinds
  BY DEF QuotaOrder, Kinds
<1>3. handler[l].at \in 1 .. 10
  BY <1>1 DEF HandlerType
<1> QED
  BY <1>1, <1>2, <1>3 DEF HandlerType, JobType, checking

\* The places of the services: each has one, and the metadata are last.
LEMMA Orders ==
  /\ Len(CreateOrder) = 9
  /\ CreateOrder[9] = "metadata"
  /\ \A f \in Service \cup {"metadata"} : \E i \in 1 .. 9 : CreateOrder[i] = f
  /\ \A i \in 1 .. 9 : CreateOrder[i] \in Service \cup {"metadata"}
  /\ \A i, j \in 1 .. 9 : CreateOrder[i] = CreateOrder[j] => i = j
  /\ \A i \in 1 .. 9 : CreateOrder[i] = "metadata" => i = 9
  /\ \A i \in 1 .. 9 : CreateOrder[i] = "minio" => i = 2
  /\ \A i \in 1 .. 9 : CreateOrder[i] = "seaweedfs" => i = 3
  /\ \A i \in 1 .. 9 : CreateOrder[i] = "static" => i = 4
BY DEF CreateOrder, Service

\* The services each handler goes through.
LEMMA ServicesOf ==
  /\ services("create") = CreateOrder /\ services("delete") = CreateOrder
  /\ services("resume") = <<"redis">>
  /\ services("update") = <<>> /\ services("idle") = <<>>
  /\ \A kind : Len(services(kind)) \in {0, 1, 9}
  /\ "metadata" \notin Service
  /\ \A s : "metadata" \in asked(s)
<1>1. /\ services("create") = CreateOrder /\ services("delete") = CreateOrder
      /\ services("resume") = <<"redis">>
      /\ services("update") = <<>> /\ services("idle") = <<>>
  BY DEF services, DeleteOrder
<1>2. ASSUME NEW kind PROVE Len(services(kind)) \in {0, 1, 9}
  <2>1. services(kind) \in {CreateOrder, <<"redis">>, <<>>}
    BY DEF services, DeleteOrder
  <2>2. Len(<<"redis">>) = 1 /\ Len(<<>>) = 0
    OBVIOUS
  <2> QED
    BY <2>1, <2>2, Orders
<1>3. "metadata" \notin Service
  BY Services
<1>4. ASSUME NEW s PROVE "metadata" \in asked(s)
  BY DEF asked, wanted
<1> QED
  BY <1>1, <1>2, <1>3, <1>4

\* Where a handler that has begun, or goes on, gets to.
LEMMA NextPlace ==
  ASSUME NEW kind, NEW i \in 1 .. Len(services(kind)) + 1, NEW A
  PROVE  LET p == place(services(kind), i, A)
         IN /\ p \in i .. Len(services(kind)) + 1
            /\ p <= Len(services(kind)) => services(kind)[p] \in A
            /\ \A q \in i .. p - 1 : services(kind)[q] \notin A
<1>1. Len(services(kind)) \in Nat
  BY ServicesOf
<1> QED
  BY <1>1, Place

\* The handler that goes on from a service.
Follows(l, vs) ==
  LET h == handler[l]
  IN [h EXCEPT !.at = place(services(h.kind), h.at + 1, asked(h.spec)),
               !.vars = @ \cup vs]

\* Where a handler that goes on gets to.
LEMMA Following ==
  ASSUME NEW l \in Login, Types, Course(l), Handling(l), ~Ended(handler[l]),
         NEW vs, NEW raised \in BOOLEAN, GoesOn(l, vs, raised)
  PROVE  /\ \A m \in Login : m # l => handler'[m] = handler[m]
         /\ handler'[l] = IF raised THEN NoHandler ELSE Follows(l, vs)
         /\ Follows(l, vs).kind = handler[l].kind
         /\ Follows(l, vs).spec = handler[l].spec
         /\ Follows(l, vs).mark = handler[l].mark
         /\ Follows(l, vs).vars = handler[l].vars \cup vs
         /\ Follows(l, vs).at \in handler[l].at + 1 .. Len(services(handler[l].kind)) + 1
         /\ Follows(l, vs).at <= Len(services(handler[l].kind)) =>
              services(handler[l].kind)[Follows(l, vs).at] \in asked(handler[l].spec)
         /\ \A q \in handler[l].at + 1 .. Follows(l, vs).at - 1 :
              services(handler[l].kind)[q] \notin asked(handler[l].spec)
<1>1. handler[l] \in HandlerType /\ DOMAIN handler = Login
  BY DEF Types
<1>2. /\ \A m \in Login : m # l => handler'[m] = handler[m]
      /\ handler'[l] = IF raised THEN NoHandler ELSE Follows(l, vs)
  <2>1. PICK h : h = IF raised THEN NoHandler ELSE Follows(l, vs)
    OBVIOUS
  <2>2. handler' = [handler EXCEPT ![l] = h]
    BY <2>1 DEF GoesOn, Follows
  <2> QED
    BY <1>1, <2>1, <2>2
<1>3. PICK p, kind, i, A :
        /\ kind = handler[l].kind /\ i = handler[l].at + 1 /\ A = asked(handler[l].spec)
        /\ p = place(services(kind), i, A)
  OBVIOUS
<1>4. /\ Follows(l, vs).kind = handler[l].kind
      /\ Follows(l, vs).spec = handler[l].spec
      /\ Follows(l, vs).mark = handler[l].mark
      /\ Follows(l, vs).vars = handler[l].vars \cup vs
      /\ Follows(l, vs).at = p
  BY <1>1, <1>3 DEF Follows, HandlerType
<1>5. Len(services(kind)) \in Nat /\ i \in 1 .. Len(services(kind)) + 1
  BY <1>3, ServicesOf DEF Course, Ended
<1>6. /\ p \in i .. Len(services(kind)) + 1
      /\ p <= Len(services(kind)) => services(kind)[p] \in A
      /\ \A q \in i .. p - 1 : services(kind)[q] \notin A
  BY <1>3, <1>5, NextPlace
<1>7. Follows(l, vs).at \in handler[l].at + 1 .. Len(services(handler[l].kind)) + 1
  BY <1>3, <1>4, <1>6
<1>8. Follows(l, vs).at <= Len(services(handler[l].kind)) =>
        services(handler[l].kind)[Follows(l, vs).at] \in asked(handler[l].spec)
  BY <1>3, <1>4, <1>6
<1>9. \A q \in handler[l].at + 1 .. Follows(l, vs).at - 1 :
        services(handler[l].kind)[q] \notin asked(handler[l].spec)
  BY <1>3, <1>4, <1>6
<1> QED
  BY <1>2, <1>4, <1>7, <1>8, <1>9

\* A handler that goes on has got past the service it was at, and past those
\* that are not asked for.
LEMMA PastGrows ==
  ASSUME NEW l \in Login, Types, Course(l), Handling(l), ~Ended(handler[l]),
         NEW vs, NEW raised \in BOOLEAN, GoesOn(l, vs, raised),
         NEW kind \in {"create", "delete"}, NEW g \in Service \cup {"metadata"},
         past(l, g, kind)'
  PROVE  /\ ~raised /\ handler[l].kind = kind
         /\ \/ past(l, g, kind)
            \/ g = current(handler[l])
            \/ g \notin asked(handler[l].spec)
<1>1. ~raised
  BY Following DEF past, NoHandler
<1>a. PICK h, n : h = handler[l] /\ n = Follows(l, vs)
  OBVIOUS
<1>2. /\ h = handler[l] /\ handler'[l] = n /\ n.kind = h.kind
      /\ \A q \in h.at + 1 .. n.at - 1 : services(h.kind)[q] \notin asked(h.spec)
      /\ h.at \in Nat /\ n.at \in Nat
  <2>1. handler[l].at \in Nat /\ Len(services(handler[l].kind)) \in Nat
    BY Typed, ServicesOf
  <2>2. handler'[l] = n /\ n.kind = h.kind
    BY <1>1, <1>a, Following
  <2>3. /\ n.at \in h.at + 1 .. Len(services(h.kind)) + 1
        /\ \A q \in h.at + 1 .. n.at - 1 : services(h.kind)[q] \notin asked(h.spec)
    <3>1. /\ Follows(l, vs).at \in handler[l].at + 1 .. Len(services(handler[l].kind)) + 1
          /\ \A q \in handler[l].at + 1 .. Follows(l, vs).at - 1 :
               services(handler[l].kind)[q] \notin asked(handler[l].spec)
      BY Following
    <3> QED
      BY <1>a, <3>1
  <2>4. n.at \in Nat
    BY <2>1, <2>3, <1>a
  <2> QED
    BY <2>1, <2>2, <2>3, <2>4, <1>a
<1>3. h.kind = kind /\ services(kind) = CreateOrder
  BY <1>2, ServicesOf DEF past
<1>4. PICK i \in 1 .. 9 : CreateOrder[i] = g
  BY Orders
<1>5. i < n.at
  BY <1>2, <1>4, Orders DEF past
<1>6. CASE i < h.at
  <2>1. \A j \in 1 .. 9 : CreateOrder[j] = g => j = i
    BY <1>4, Orders
  <2> QED
    BY <1>1, <1>2, <1>3, <1>6, <2>1, Orders DEF past
<1>7. CASE i = h.at
  BY <1>1, <1>2, <1>3, <1>4, <1>7 DEF current
<1>8. CASE i > h.at
  <2>1. i \in h.at + 1 .. n.at - 1
    BY <1>2, <1>5, <1>8
  <2> QED
    BY <1>1, <1>2, <1>3, <1>4, <2>1
<1> QED
  BY <1>2, <1>6, <1>7, <1>8

\* A handler that begins.
Begun(l, kind) ==
  [kind |-> kind, spec |-> spec[l],
   at |-> place(services(kind), 1, asked(spec[l])), vars |-> {},
   mark |-> IF kind = "resume" THEN mark[l]["redis"] ELSE "false"]

\* Where a handler that begins gets to.
LEMMA Starting ==
  ASSUME NEW l \in Login, Types, NEW kind, StartHandler(l, kind)
  PROVE  /\ \A m \in Login : m # l => handler'[m] = handler[m]
         /\ handler'[l] = Begun(l, kind)
         /\ ~Handling(l)
         /\ Begun(l, kind).at \in 1 .. Len(services(kind)) + 1
         /\ Begun(l, kind).at <= Len(services(kind)) =>
              services(kind)[Begun(l, kind).at] \in asked(spec[l])
         /\ \A q \in 1 .. Begun(l, kind).at - 1 : services(kind)[q] \notin asked(spec[l])
<1>1. DOMAIN handler = Login
  BY DEF Types
<1>2. /\ \A m \in Login : m # l => handler'[m] = handler[m]
      /\ handler'[l] = Begun(l, kind)
      /\ ~Handling(l)
  BY <1>1 DEF StartHandler, Begun
<1>3. PICK p, A : A = asked(spec[l]) /\ p = place(services(kind), 1, A)
  OBVIOUS
<1>4. Begun(l, kind).at = p
  BY <1>3 DEF Begun
<1>5. 1 \in 1 .. Len(services(kind)) + 1
  BY ServicesOf
<1>6. /\ p \in 1 .. Len(services(kind)) + 1
      /\ p <= Len(services(kind)) => services(kind)[p] \in A
      /\ \A q \in 1 .. p - 1 : services(kind)[q] \notin A
  BY <1>3, <1>5, NextPlace
<1> QED
  BY <1>2, <1>3, <1>4, <1>6

\* A handler that begins has got past those that are not asked for.
LEMMA PastStarts ==
  ASSUME NEW l \in Login, Types, NEW kind, StartHandler(l, kind),
         NEW to \in {"create", "delete"}, NEW g \in Service \cup {"metadata"},
         past(l, g, to)'
  PROVE  kind = to /\ g \notin asked(spec[l])
<1>1. PICK p : /\ handler'[l].kind = kind /\ handler'[l].at = p
               /\ p \in 1 .. Len(services(kind)) + 1
               /\ \A q \in 1 .. p - 1 : services(kind)[q] \notin asked(spec[l])
  <2>1. PICK b : b = Begun(l, kind)
    OBVIOUS
  <2>2. /\ handler'[l] = b
        /\ b.at \in 1 .. Len(services(kind)) + 1
        /\ \A q \in 1 .. b.at - 1 : services(kind)[q] \notin asked(spec[l])
    BY <2>1, Starting
  <2>3. b.kind = kind
    BY <2>1 DEF Begun
  <2> QED
    BY <2>2, <2>3
<1>2. kind = to /\ services(kind) = CreateOrder
  BY <1>1, ServicesOf DEF past
<1>3. PICK i \in 1 .. 9 : CreateOrder[i] = g
  BY Orders
<1>4. i < p
  BY <1>1, <1>3, Orders DEF past
<1>5. i \in 1 .. p - 1
  BY <1>1, <1>2, <1>4, Orders
<1> QED
  BY <1>1, <1>2, <1>3, <1>5

\* A service is called: F are the calls that fail, or are not made when the
\* process dies, and causes what the history is told.
Called(l, f, F, silent, session, died, causes) ==
  LET a == answer_of(l, f, F, silent, session)
  IN /\ Handling(l) /\ ~Ended(handler[l])
     /\ f = current(handler[l]) /\ f \in asked(handler[l].spec)
     /\ handler[l].kind \in {"create", "resume", "delete"}
     /\ account' = [account EXCEPT ![l][f] = a.has]
     /\ spoilt' = [spoilt EXCEPT ![l][f] = @ \cup causes]
     /\ overlaps(l, f) \subseteq causes
     /\ silent => "silent" \in causes
     /\ f = "redis" /\ handler[l].kind # "delete" /\ ~silent =>
          F \cap redis_script = {}
     /\ \/ F = {} /\ ~silent /\ ~died /\ (session => "session" \in causes)
        \/ ~died /\ "fault" \in causes
        \/ /\ died /\ ~silent
           /\ (IF handler[l].kind = "delete" THEN "cut" ELSE "died") \in causes
     /\ IF died THEN Dies ELSE GoesOn(l, a.vars, a.raised) /\ UNCHANGED <<cfg, resumed>>
     /\ Drops(l, f, a.has)
     /\ events' \in {events, events + 1} /\ (events' # events => events < MaxEvents)
     /\ UNCHANGED <<wsku, spec, handled, mark, saved, job>>

\* Every way in which a service is called.
LEMMA Calling ==
  ASSUME NEW l \in Login, Types, Course(l), CallService(l)
  PROVE  \E f \in Service, silent \in BOOLEAN, session \in BOOLEAN,
            died \in BOOLEAN, causes \in SUBSET Cause :
           \E F : Called(l, f, F, silent, session, died, causes)
<1> DEFINE f == current(handler[l])
           calls == calls_of(handler[l], f)
           Told(F) == f = "redis" /\ handler[l].kind # "delete" =>
                        F \cap redis_script = {}
           Clean(session) ==
             LET a == answer_of(l, f, {}, FALSE, session)
             IN /\ NoEvent
                /\ account' = [account EXCEPT ![l][f] = a.has]
                /\ Drops(l, f, a.has)
                /\ GoesOn(l, a.vars, a.raised)
                /\ Spoils(l, f, overlaps(l, f)
                                \cup (IF session THEN {"session"} ELSE {}))
                /\ UNCHANGED <<cfg, resumed>>
           Fault(F, silent, session) ==
             LET a == answer_of(l, f, F, silent, session)
             IN /\ Told(F) \/ silent
                /\ Event
                /\ account' = [account EXCEPT ![l][f] = a.has]
                /\ Drops(l, f, a.has)
                /\ GoesOn(l, a.vars, a.raised)
                /\ Spoils(l, f, overlaps(l, f) \cup {"fault"}
                                \cup (IF silent THEN {"silent"} ELSE {}))
                /\ UNCHANGED <<cfg, resumed>>
           Death(F, session) ==
             LET a == answer_of(l, f, F, FALSE, session)
             IN /\ Told(F)
                /\ Event
                /\ account' = [account EXCEPT ![l][f] = a.has]
                /\ Drops(l, f, a.has)
                /\ Dies
                /\ Spoils(l, f, overlaps(l, f)
                                \cup (IF handler[l].kind = "delete"
                                        THEN {"cut"} ELSE {"died"}))
<1>1. PICK session \in BOOLEAN :
        \/ Clean(session)
        \/ \E F : \E silent \in BOOLEAN : Fault(F, silent, session)
        \/ \E F : Death(F, session)
  <2>1. ASSUME f = "redis", handler[l].kind # "delete"
        PROVE  calls = <<"exec", "service">>
    BY <2>1 DEF calls_of, create_calls
  <2>2. \A c \in all_of(calls) : Told({c})
    BY <2>1 DEF all_of, redis_script
  <2>3. \A i \in DOMAIN calls : Told({ calls[j] : j \in i .. Len(calls) })
    BY <2>1 DEF redis_script
  <2>4. \/ \E session \in BOOLEAN : Clean(session)
        \/ \E session \in BOOLEAN, silent \in BOOLEAN :
             \E c \in IF silent THEN silent_calls(f, handler[l]) ELSE all_of(calls) :
               Told({c}) \/ silent => Fault({c}, silent, session)
        \/ \E session \in BOOLEAN : \E i \in DOMAIN calls :
             Told({ calls[j] : j \in i .. Len(calls) })
               => Death({ calls[j] : j \in i .. Len(calls) }, session)
    BY DEF CallService
  <2> QED
    BY <2>2, <2>3, <2>4
<1>2. /\ Handling(l) /\ ~Ended(handler[l]) /\ f # "metadata"
      /\ UNCHANGED <<wsku, spec, handled, mark, saved, job>>
  BY DEF CallService
<1>3. f = current(handler[l])
  OBVIOUS
<1> HIDE DEF f, calls
<1>4. f \in asked(handler[l].spec) /\ f \in Service
  BY <1>2, <1>3 DEF Course, asked
<1>5. handler[l].kind \in {"create", "resume", "delete"}
  <2>1. handler[l].kind # "update"
    <3>1. Len(services("update")) = 0
      BY ServicesOf
    <3>2. handler[l].at \in 1 .. 10
      BY Typed
    <3>3. handler[l].kind = "update" => handler[l].at > Len(services(handler[l].kind))
      BY <3>1, <3>2
    <3> QED
      BY <1>2, <3>3 DEF Ended
  <2>2. handler[l].kind \in {"idle", "create", "update", "resume", "delete"}
    BY Typed
  <2> QED
    BY <1>2, <2>1, <2>2 DEF Handling
<1>6. overlaps(l, f) \subseteq Cause
  BY DEF overlaps, Cause
<1>7. ASSUME Clean(session)
      PROVE  \E causes \in SUBSET Cause : Called(l, f, {}, FALSE, session, FALSE, causes)
  <2>1. PICK causes : causes = overlaps(l, f) \cup (IF session THEN {"session"} ELSE {})
    OBVIOUS
  <2>2. causes \in SUBSET Cause
    BY <1>6, <2>1 DEF Cause
  <2>3. Called(l, f, {}, FALSE, session, FALSE, causes)
    BY <1>2, <1>3, <1>4, <1>5, <1>7, <2>1 DEF Called, Spoils, NoEvent
  <2> QED
    BY <2>2, <2>3
<1>8. ASSUME NEW F, NEW silent \in BOOLEAN, Fault(F, silent, session)
      PROVE  \E causes \in SUBSET Cause : Called(l, f, F, silent, session, FALSE, causes)
  <2>1. PICK causes : causes = overlaps(l, f) \cup {"fault"}
                               \cup (IF silent THEN {"silent"} ELSE {})
    OBVIOUS
  <2>2. causes \in SUBSET Cause
    BY <1>6, <2>1 DEF Cause
  <2>3. Called(l, f, F, silent, session, FALSE, causes)
    BY <1>2, <1>3, <1>4, <1>5, <1>8, <2>1 DEF Called, Spoils, Event
  <2> QED
    BY <2>2, <2>3
<1>9. ASSUME NEW F, Death(F, session)
      PROVE  \E causes \in SUBSET Cause : Called(l, f, F, FALSE, session, TRUE, causes)
  <2>1. PICK causes : causes = overlaps(l, f) \cup (IF handler[l].kind = "delete"
                                                     THEN {"cut"} ELSE {"died"})
    OBVIOUS
  <2>2. causes \in SUBSET Cause
    BY <1>6, <2>1 DEF Cause
  <2>3. Called(l, f, F, FALSE, session, TRUE, causes)
    BY <1>2, <1>3, <1>4, <1>5, <1>9, <2>1 DEF Called, Spoils, Event
  <2> QED
    BY <2>2, <2>3
<1> HIDE DEF Clean, Fault, Death
<1>10. \/ Clean(session)
       \/ \E F : \E silent \in BOOLEAN : Fault(F, silent, session)
       \/ \E F : Death(F, session)
  BY <1>1, Zenon
<1>11. ASSUME NEW F, NEW silent \in BOOLEAN, NEW died \in BOOLEAN,
              NEW causes \in SUBSET Cause, Called(l, f, F, silent, session, died, causes)
       PROVE  \E g \in Service, quiet \in BOOLEAN, open \in BOOLEAN,
                 dead \in BOOLEAN, why \in SUBSET Cause :
                \E G : Called(l, g, G, quiet, open, dead, why)
  BY <1>4, <1>11, Zenon
<1>12. FALSE \in BOOLEAN /\ TRUE \in BOOLEAN
  OBVIOUS
<1>13. CASE Clean(session)
  <2>1. PICK causes \in SUBSET Cause : Called(l, f, {}, FALSE, session, FALSE, causes)
    BY <1>7, <1>13
  <2> QED
    BY <1>11, <1>12, <2>1
<1>14. ASSUME NEW F, NEW silent \in BOOLEAN, Fault(F, silent, session)
       PROVE  \E g \in Service, quiet \in BOOLEAN, open \in BOOLEAN,
                 dead \in BOOLEAN, why \in SUBSET Cause :
                \E G : Called(l, g, G, quiet, open, dead, why)
  <2>1. PICK causes \in SUBSET Cause : Called(l, f, F, silent, session, FALSE, causes)
    BY <1>8, <1>14
  <2> QED
    BY <1>11, <1>12, <2>1
<1>15. ASSUME NEW F, Death(F, session)
       PROVE  \E g \in Service, quiet \in BOOLEAN, open \in BOOLEAN,
                 dead \in BOOLEAN, why \in SUBSET Cause :
                \E G : Called(l, g, G, quiet, open, dead, why)
  <2>1. PICK causes \in SUBSET Cause : Called(l, f, F, FALSE, session, TRUE, causes)
    BY <1>9, <1>15
  <2> QED
    BY <1>11, <1>12, <2>1
<1> QED
  BY <1>10, <1>13, <1>14, <1>15, Zenon

\* The quota checker gets to a service that has quotas, or to the end.
LEMMA PlaceOfQuota ==
  ASSUME NEW i \in 1 .. 4
  PROVE  /\ place(QuotaOrder, i, Limited) \in i .. 4
         /\ i = 1 /\ Limited # {} => place(QuotaOrder, i, Limited) \in 1 .. 3
<1>1. /\ Len(QuotaOrder) = 3 /\ QuotaOrder[1] = "postgres"
      /\ QuotaOrder[2] = "mongodb" /\ QuotaOrder[3] = "redis"
  BY DEF QuotaOrder
<1>2. PICK p : p = place(QuotaOrder, i, Limited)
  OBVIOUS
<1>3. /\ p \in i .. 4
      /\ \A q \in i .. p - 1 : QuotaOrder[q] \notin Limited
  <2>1. Len(QuotaOrder) \in Nat /\ i \in 1 .. Len(QuotaOrder) + 1
    BY <1>1
  <2>2. /\ p \in i .. Len(QuotaOrder) + 1
        /\ \A q \in i .. p - 1 : QuotaOrder[q] \notin Limited
    BY <1>2, <2>1, Place
  <2> QED
    BY <1>1, <2>2
<1>4. ASSUME i = 1, p = 4 PROVE Limited = {}
  <2>1. \A q \in 1 .. 3 : QuotaOrder[q] \notin Limited
    BY <1>3, <1>4
  <2> QED
    BY <1>1, <2>1, ConfigurationAssumption
<1> QED
  BY <1>2, <1>3, <1>4

\* Where the quota checker goes from a service or a user.
LEMMA JobTypes ==
  ASSUME Types, Login # {}
  PROVE  /\ NoJob \in JobType /\ NoJob.at = "idle"
         /\ NextKind \in JobType /\ NextKind.at \in {"idle", "list"}
         /\ \A l \in Login : Checked(l) \in JobType /\ Checked(l).at # "annotate"
<1>1. /\ NoJob \in JobType /\ NoJob.at = "idle"
  <2>1. (CHOOSE l \in Login : TRUE) \in Login
    OBVIOUS
  <2>2. [l \in Login |-> "false"] \in [Login -> Mark]
    BY DEF Mark
  <2> QED
    BY <2>1, <2>2 DEF NoJob, JobType
<1>2. job \in JobType /\ job.no \in 1 .. 3 /\ job.sizes \in SUBSET (Login \X Kinds)
  BY DEF Types, JobType
<1>3. NextKind \in JobType /\ NextKind.at \in {"idle", "list"}
  <2>1. PICK p : p = place(QuotaOrder, job.no + 1, Limited)
    OBVIOUS
  <2>2. p \in job.no + 1 .. 4 /\ Len(QuotaOrder) = 3
    <3>1. job.no + 1 \in 1 .. 4
      BY <1>2
    <3> QED
      BY <2>1, <3>1, PlaceOfQuota DEF QuotaOrder
  <2>3. CASE p > 3
    BY <1>1, <2>1, <2>2, <2>3 DEF NextKind
  <2>4. CASE ~ p > 3
    <3>1. NextKind = [NoJob EXCEPT !.at = "list", !.no = p, !.sizes = job.sizes]
      BY <2>1, <2>2, <2>4 DEF NextKind
    <3>2. p \in 1 .. 3
      BY <1>2, <2>2, <2>4
    <3> QED
      BY <1>1, <1>2, <3>1, <3>2 DEF JobType
  <2> QED
    BY <2>3, <2>4
<1>4. ASSUME NEW l \in Login
      PROVE  Checked(l) \in JobType /\ Checked(l).at # "annotate"
  BY <1>2, <1>3 DEF Checked, JobType
<1> QED
  BY <1>1, <1>3, <1>4

\* A handler that begins, goes on or is lost has its type.
LEMMA HandlerTypes ==
  ASSUME Types, NEW l \in Login, Course(l)
  PROVE  /\ NoHandler \in HandlerType
         /\ \A kind \in {"create", "update", "resume", "delete"} :
              StartHandler(l, kind) => handler' \in [Login -> HandlerType]
         /\ \A vs \in SUBSET Variable, raised \in BOOLEAN :
              Handling(l) /\ ~Ended(handler[l]) /\ GoesOn(l, vs, raised) =>
                handler' \in [Login -> HandlerType]
         /\ Dies => handler' \in [Login -> HandlerType]
<1>1. NoHandler \in HandlerType
  BY DEF NoHandler, HandlerType, Mark
<1>2. ASSUME NEW kind \in {"create", "update", "resume", "delete"}, StartHandler(l, kind)
      PROVE  handler' \in [Login -> HandlerType]
  <2>1. PICK b : b = Begun(l, kind)
    OBVIOUS
  <2>2. b.at \in 1 .. 10
    <3>1. b.at \in 1 .. Len(services(kind)) + 1
      BY <1>2, <2>1, Starting
    <3>2. PICK n : n = Len(services(kind))
      OBVIOUS
    <3>3. n \in {0, 1, 9}
      BY <3>2, ServicesOf
    <3>4. b.at \in 1 .. n + 1
      BY <3>1, <3>2
    <3> QED
      BY <3>3, <3>4
  <2>3. "redis" \in Kinds /\ mark[l] \in [Kinds -> Mark] /\ spec[l] \in Specs \cup {NoSpec}
    BY DEF Types, Kinds
  <2>4. b \in HandlerType
    BY <2>1, <2>2, <2>3 DEF Begun, HandlerType, Mark
  <2>5. handler' = [handler EXCEPT ![l] = b]
    BY <1>2, <2>1 DEF StartHandler, Begun
  <2> QED
    BY <2>4, <2>5 DEF Types
<1>3. ASSUME NEW vs \in SUBSET Variable, NEW raised \in BOOLEAN, Handling(l),
             ~Ended(handler[l]), GoesOn(l, vs, raised)
      PROVE  handler' \in [Login -> HandlerType]
  <2>1. PICK b : b = Follows(l, vs)
    OBVIOUS
  <2>2. b.at \in handler[l].at + 1 .. Len(services(handler[l].kind)) + 1
    BY <1>3, <2>1, Following
  <2>3. b.at \in 1 .. 10
    <3>1. PICK n, i : n = Len(services(handler[l].kind)) /\ i = handler[l].at
      OBVIOUS
    <3>2. n \in {0, 1, 9} /\ i \in 1 .. 10
      BY <3>1, ServicesOf, Typed
    <3>3. b.at \in i + 1 .. n + 1
      BY <2>2, <3>1
    <3> QED
      BY <3>2, <3>3
  <2>4. handler[l] \in HandlerType
    BY DEF Types
  <2>5. b \in HandlerType
    BY <2>1, <2>3, <2>4 DEF Follows, HandlerType
  <2>6. handler' = [handler EXCEPT ![l] = IF raised THEN NoHandler ELSE b]
    BY <1>3, <2>1 DEF GoesOn, Follows
  <2> QED
    BY <1>1, <2>5, <2>6 DEF Types
<1> QED
  BY <1>1, <1>2, <1>3 DEF Dies

\* The answers of the services in a reachable state.
LEMMA PossibleAnswers ==
  ASSUME Types, NEW l \in Login, NEW f \in Service, NEW F,
         NEW silent \in BOOLEAN, NEW session \in BOOLEAN
  PROVE  LET a == answer_of(l, f, F, silent, session)
         IN Possible(f, a.has) /\ a.vars \subseteq Variable /\ a.raised \in BOOLEAN
<1>1. Possible(f, account[l][f])
  BY DEF Types
<1> QED
  BY <1>1, PossibleCreated, PossibleRemoved DEF answer_of

\* A change of one account.
LEMMA AccountTypes ==
  ASSUME Types, NEW l \in Login, NEW f \in Service, NEW has, Possible(f, has),
         account' = [account EXCEPT ![l][f] = has]
  PROVE  /\ account' \in [Login -> [Service -> SUBSET Part]]
         /\ \A m \in Login, g \in Service : Possible(g, account'[m][g])
         /\ account'[l][f] = has
         /\ \A m \in Login, g \in Service :
              m # l \/ g # f => account'[m][g] = account[m][g]
<1>1. has \in SUBSET Part
  BY DEF Possible
<1>2. account \in [Login -> [Service -> SUBSET Part]]
  BY DEF Types
<1>3. /\ account'[l][f] = has
      /\ \A m \in Login, g \in Service :
           m # l \/ g # f => account'[m][g] = account[m][g]
  BY <1>2
<1>4. account' \in [Login -> [Service -> SUBSET Part]]
  BY <1>1, <1>2
<1>5. ASSUME NEW m \in Login, NEW g \in Service PROVE Possible(g, account'[m][g])
  <2>1. Possible(g, account[m][g])
    BY DEF Types
  <2> QED
    BY <1>3, <2>1
<1> QED
  BY <1>3, <1>4, <1>5

\* A change of the history of one service.
LEMMA SpoiltTypes ==
  ASSUME Types, NEW l \in Login, NEW f \in Service \cup {"metadata"},
         NEW causes \in SUBSET Cause,
         spoilt' = [spoilt EXCEPT ![l][f] = @ \cup causes]
  PROVE  /\ spoilt' \in [Login -> [Service \cup {"metadata"} -> SUBSET Cause]]
         /\ spoilt'[l][f] = spoilt[l][f] \cup causes
         /\ \A m \in Login, g \in Service \cup {"metadata"} :
              m # l \/ g # f => spoilt'[m][g] = spoilt[m][g]
<1>1. spoilt \in [Login -> [Service \cup {"metadata"} -> SUBSET Cause]]
  BY DEF Types
<1>2. PICK all : all = spoilt[l][f] \cup causes
  OBVIOUS
<1>3. all \in SUBSET Cause /\ spoilt' = [spoilt EXCEPT ![l][f] = all]
  <2>1. spoilt[l][f] \in SUBSET Cause
    BY <1>1
  <2>2. spoilt' = [spoilt EXCEPT ![l][f] = all]
    BY <1>2
  <2> QED
    BY <1>2, <2>1, <2>2
<1>4. spoilt' \in [Login -> [Service \cup {"metadata"} -> SUBSET Cause]]
  <2>1. PICK D, C : D = Service \cup {"metadata"} /\ C = SUBSET Cause
    OBVIOUS
  <2>2. spoilt \in [Login -> [D -> C]] /\ all \in C /\ f \in D
    BY <1>1, <1>3, <2>1
  <2>3. [spoilt[l] EXCEPT ![f] = all] \in [D -> C]
    BY <2>2
  <2>4. spoilt' = [spoilt EXCEPT ![l] = [spoilt[l] EXCEPT ![f] = all]]
    BY <1>3, Zenon
  <2>5. spoilt' \in [Login -> [D -> C]]
    BY <2>2, <2>3, <2>4
  <2> QED
    BY <2>1, <2>5
<1>5. spoilt'[l][f] = spoilt[l][f] \cup causes
  BY <1>1, <1>2, <1>3
<1>6. ASSUME NEW m \in Login, NEW g \in Service \cup {"metadata"}, m # l \/ g # f
      PROVE  spoilt'[m][g] = spoilt[m][g]
  BY <1>1, <1>3, <1>6
<1> QED
  BY <1>4, <1>5, <1>6

----------------------------------------------------------------------------
(* The types are kept.                                                     *)

\* The type is inductive with where the handlers can be.
LEMMA TypesStep ==
  ASSUME Types, \A l \in Login : Course(l), Login # {}, Next
  PROVE  Types'
<1>1. ASSUME NEW l \in Login, NEW s \in Specs, ApplyUser(l, s) PROVE Types'
  <2>1. spoilt' \in [Login -> [Service \cup {"metadata"} -> SUBSET Cause]]
    <3>1. PICK D : D = Service \cup {"metadata"}
      OBVIOUS
    <3>2. spoilt \in [Login -> [D -> SUBSET Cause]]
      BY <3>1 DEF Types
    <3>3. PICK e : e = [f \in D |-> spoilt[l][f] \cup {"edited"}]
      OBVIOUS
    <3>4. e \in [D -> SUBSET Cause]
      BY <3>2, <3>3 DEF Cause
    <3>5. spoilt' = spoilt \/ spoilt' = [spoilt EXCEPT ![l] = e]
      BY <1>1, <3>2, <3>3 DEF ApplyUser
    <3> QED
      BY <3>1, <3>2, <3>4, <3>5
  <2>2. events' \in 0 .. MaxEvents
    BY <1>1, ConfigurationAssumption DEF ApplyUser, Event, NoEvent, Types
  <2> QED
    BY <1>1, <2>1, <2>2 DEF ApplyUser, Types
<1>2. ASSUME NEW l \in Login, DeleteUser(l) PROVE Types'
  <2>2. events' \in 0 .. MaxEvents
    BY <1>2, ConfigurationAssumption DEF DeleteUser, Event, Types
  <2> QED
    BY <1>2, <2>2 DEF DeleteUser, Types
<1>3. ASSUME NEW l \in Login, NEW kind \in {"create", "update", "resume", "delete"},
             StartHandler(l, kind)
      PROVE  Types'
  <2>1. handler' \in [Login -> HandlerType]
    BY <1>3, HandlerTypes
  <2> QED
    BY <1>3, <2>1 DEF StartHandler, Types
<1>4. ASSUME NEW l \in Login, SkipService(l) PROVE Types'
  <2>1. PICK f : f = current(handler[l])
    OBVIOUS
  <2>2. f \in Service \cup {"metadata"}
    BY <1>4, <2>1 DEF SkipService, Course, asked
  <2>3. handler' \in [Login -> HandlerType]
    BY <1>4, HandlerTypes DEF SkipService
  <2>4. spoilt' = [spoilt EXCEPT ![l][f] = @ \cup {"unconfigured"}]
    BY <1>4, <2>1 DEF SkipService, Spoils
  <2>5. spoilt' \in [Login -> [Service \cup {"metadata"} -> SUBSET Cause]]
    <3>1. {"unconfigured"} \in SUBSET Cause
      BY DEF Cause
    <3> QED
      BY <2>2, <2>4, <3>1, SpoiltTypes
  <2> QED
    BY <1>4, <2>3, <2>5 DEF SkipService, Types
<1>5. ASSUME NEW l \in Login, CallService(l) PROVE Types'
  <2>1. PICK f \in Service, silent \in BOOLEAN, session \in BOOLEAN,
             died \in BOOLEAN, causes \in SUBSET Cause :
          \E F : Called(l, f, F, silent, session, died, causes)
    BY <1>5, Calling
  <2>2. PICK F : Called(l, f, F, silent, session, died, causes)
    BY <2>1
  <2>3. PICK a : a = answer_of(l, f, F, silent, session)
    OBVIOUS
  <2>4. Possible(f, a.has) /\ a.vars \subseteq Variable /\ a.raised \in BOOLEAN
    BY <2>3, PossibleAnswers
  <2>5. handler' \in [Login -> HandlerType]
    BY <2>2, <2>3, <2>4, HandlerTypes DEF Called
  <2>6. account' = [account EXCEPT ![l][f] = a.has]
    BY <2>2, <2>3 DEF Called
  <2>7. /\ account' \in [Login -> [Service -> SUBSET Part]]
        /\ \A m \in Login, g \in Service : Possible(g, account'[m][g])
    BY <2>4, <2>6, AccountTypes
  <2>8. spoilt' = [spoilt EXCEPT ![l][f] = @ \cup causes]
    BY <2>2 DEF Called
  <2>9. spoilt' \in [Login -> [Service \cup {"metadata"} -> SUBSET Cause]]
    BY <2>8, SpoiltTypes
  <2>10. over' \in [Login -> SUBSET Limited]
    BY <2>2 DEF Called, Drops, Types
  <2>11. events' \in 0 .. MaxEvents
    BY <2>2, ConfigurationAssumption DEF Called, Types
  <2>12. cfg' \in {{}, Components} /\ resumed' \in [Login -> BOOLEAN]
    BY <2>2 DEF Called, Dies, Types
  <2> QED
    BY <2>2, <2>5, <2>7, <2>9, <2>10, <2>11, <2>12 DEF Called, Types
<1>6. ASSUME NEW l \in Login, SaveMetadata(l) PROVE Types'
  <2>1. handler' \in [Login -> HandlerType]
    BY <1>6, HandlerTypes DEF SaveMetadata
  <2>2. saved' \in [Login -> SUBSET Variable]
    BY <1>6, Typed DEF SaveMetadata, Types
  <2>3. spoilt' \in [Login -> [Service \cup {"metadata"} -> SUBSET Cause]]
    <3>1. {"fault"} \in SUBSET Cause
      BY DEF Cause
    <3>2. spoilt' = spoilt \/ spoilt' = [spoilt EXCEPT ![l]["metadata"] = @ \cup {"fault"}]
      BY <1>6 DEF SaveMetadata, Spoils
    <3> QED
      BY <3>1, <3>2, SpoiltTypes DEF Types
  <2>4. events' \in 0 .. MaxEvents
    BY <1>6, ConfigurationAssumption DEF SaveMetadata, Event, NoEvent, Types
  <2> QED
    BY <1>6, <2>1, <2>2, <2>3, <2>4 DEF SaveMetadata, Types
<1>7. ASSUME NEW l \in Login, HandlerDone(l) PROVE Types'
  <2>1. handler' \in [Login -> HandlerType]
    BY <1>7, HandlerTypes DEF HandlerDone, Types
  <2>2. /\ wsku' \in [Login -> {"absent", "live", "deleting"}]
        /\ spec' \in [Login -> Specs \cup {NoSpec}]
    <3>1. /\ wsku' = wsku \/ wsku' = [wsku EXCEPT ![l] = "absent"]
          /\ spec' = spec \/ spec' = [spec EXCEPT ![l] = NoSpec]
      BY <1>7 DEF HandlerDone
    <3> QED
      BY <3>1 DEF Types
  <2>3. handled' \in [Login -> Specs \cup {NoSpec}]
    <3>1. PICK x \in Specs \cup {NoSpec} : handled' = [handled EXCEPT ![l] = x]
      <4>1. \/ handled' = [handled EXCEPT ![l] = NoSpec]
            \/ handled' = [handled EXCEPT ![l] = handled[l]]
            \/ handled' = [handled EXCEPT ![l] = handler[l].spec]
        BY <1>7 DEF HandlerDone
      <4>2. handler[l].spec \in Specs \cup {NoSpec} /\ handled[l] \in Specs \cup {NoSpec}
        BY Typed DEF Types
      <4> QED
        BY <4>1, <4>2
    <3> QED
      BY <3>1 DEF Types
  <2>4. mark' \in [Login -> [Kinds -> Mark]] /\ resumed' \in [Login -> BOOLEAN]
    <3>1. PICK x : x = [k \in Kinds |-> "false"]
      OBVIOUS
    <3>2. x \in [Kinds -> Mark]
      BY <3>1 DEF Mark
    <3>3. /\ mark' = mark \/ mark' = [mark EXCEPT ![l] = x]
          /\ resumed' = [resumed EXCEPT ![l] = TRUE]
      BY <1>7, <3>1 DEF HandlerDone
    <3> QED
      BY <3>2, <3>3 DEF Types
  <2>5. spoilt' \in [Login -> [Service \cup {"metadata"} -> SUBSET Cause]]
    <3>1. PICK D : D = Service \cup {"metadata"}
      OBVIOUS
    <3>2. spoilt \in [Login -> [D -> SUBSET Cause]]
      BY <3>1 DEF Types
    <3>3. PICK e : e = [f \in D |->
                         (IF IF f = "metadata" THEN saved[l] = {}
                             ELSE account[l][f] = {} THEN {} ELSE spoilt[l][f])
                         \cup (IF Annotating(l, f) THEN {"overlap"} ELSE {})]
      OBVIOUS
    <3>4. e \in [D -> SUBSET Cause]
      BY <3>2, <3>3 DEF Cause
    <3>5. spoilt' = spoilt \/ spoilt' = [spoilt EXCEPT ![l] = e]
      BY <1>7, <3>2, <3>3 DEF HandlerDone
    <3> QED
      BY <3>1, <3>2, <3>4, <3>5
  <2> QED
    BY <1>7, <2>1, <2>2, <2>3, <2>4, <2>5 DEF HandlerDone, Types
<1>8. ASSUME NEW l \in Login, Usage(l) PROVE Types'
  <2>1. PICK x \in SUBSET Limited : over' = [over EXCEPT ![l] = x]
    <3>1. PICK k \in Limited : \/ over' = [over EXCEPT ![l] = over[l] \cup {k}]
                              \/ over' = [over EXCEPT ![l] = over[l] \ {k}]
      BY <1>8 DEF Usage
    <3>2. over[l] \in SUBSET Limited
      BY DEF Types
    <3> QED
      BY <3>1, <3>2
  <2>2. over' \in [Login -> SUBSET Limited]
    BY <2>1 DEF Types
  <2> QED
    BY <1>8, <2>2 DEF Usage, Types
<1>9. CASE Restart
  <2>1. handler' \in [Login -> HandlerType]
    BY <1>9, HandlerTypes DEF Restart
  <2>2. events' \in 0 .. MaxEvents
    BY <1>9, ConfigurationAssumption DEF Restart, Event, Types
  <2> QED
    BY <1>9, <2>1, <2>2 DEF Restart, Dies, Types
<1>10. CASE clean
  <2>2. events' \in 0 .. MaxEvents
    BY <1>10, ConfigurationAssumption DEF clean, Event, Types
  <2> QED
    BY <1>10, <2>2 DEF clean, Types
<1>11. CASE configure
  BY <1>11 DEF configure, Types
<1>12. CASE start
  <2>1. place(QuotaOrder, 1, Limited) \in 1 .. 3
    BY <1>12, PlaceOfQuota DEF start
  <2>2. { large \in Login \X {"postgres", "mongodb"} : large[2] \in over[large[1]] }
          \in SUBSET (Login \X Kinds)
    BY DEF Kinds
  <2>3. job' \in JobType /\ job'.at = "list"
    BY <1>12, <2>1, <2>2, JobTypes DEF start, JobType
  <2> QED
    BY <1>12, <2>3 DEF start, jobless, Types
<1>13. CASE get_wsk_users
  <2>1. job' \in JobType /\ job'.at # "annotate"
    <3>1. PICK limited \in SUBSET Login :
            job' = IF limited = {} THEN NextKind
                   ELSE [job EXCEPT !.at = "check", !.left = limited,
                                    !.seen = [l \in Login |-> mark[l][checking]]]
      <4>1. PICK limited :
              /\ limited = { l \in Login : /\ wsku[l] # "absent"
                                           /\ checking \in spec[l] \cap Limited }
              /\ job' = IF limited = {} THEN NextKind
                        ELSE [job EXCEPT !.at = "check", !.left = limited,
                                         !.seen = [l \in Login |-> mark[l][checking]]]
        BY <1>13 DEF get_wsk_users
      <4> QED
        BY <4>1
    <3>2. [l \in Login |-> mark[l][checking]] \in [Login -> Mark]
      BY Typed DEF Types
    <3> QED
      BY <3>1, <3>2, JobTypes DEF JobType, Types
  <2> QED
    BY <1>13, <2>1 DEF get_wsk_users, jobless, Types
<1>14. ASSUME NEW l \in Login, check_quota(l) PROVE Types'
  <2> DEFINE k == checking
             exceeds == IF k = "redis" THEN k \in over[l] ELSE <<l, k>> \in job.sizes
             act == quota_action(exceeds, job.seen[l])
             a == limit_user(k, account[l][k], act)
  <2>1. /\ k \in Kinds
        /\ act \in {"none", "block", "reset"}
        /\ IF act = "none"
             THEN NoEvent /\ job' = Checked(l) /\ UNCHANGED <<account, spoilt>>
             ELSE \/ /\ NoEvent
                     /\ account' = [account EXCEPT ![l][k] = a.has]
                     /\ job' = IF a.ok THEN [job EXCEPT !.at = "annotate",
                                                       !.login = l, !.act = act]
                               ELSE Checked(l)
                     /\ Spoils(l, k,
                          (IF account[l][k] = {} THEN {"late"} ELSE {})
                          \cup (IF job.seen[l] # mark[l][k] THEN {"overlap"} ELSE {}))
                  \/ Event /\ job' = Checked(l) /\ UNCHANGED <<account, spoilt>>
    <3>1. k \in Kinds
      BY Typed
    <3>2. act \in {"none", "block", "reset"}
      BY DEF quota_action
    <3> QED
      BY <1>14, <3>1, <3>2 DEF check_quota
  <2>a. a = limit_user(k, account[l][k], act)
    OBVIOUS
  <2> HIDE DEF k, exceeds, act, a
  <2>2. k \in Service
    BY <2>1, Services
  <2>3. /\ job' \in JobType
        /\ job'.at = "annotate" => job'.act \in {"block", "reset"}
    <3>1. CASE job' = Checked(l)
      BY <3>1, JobTypes
    <3>2. CASE /\ job' = [job EXCEPT !.at = "annotate", !.login = l, !.act = act]
               /\ act # "none"
      BY <2>1, <3>2 DEF JobType, Types
    <3> QED
      BY <2>1, <3>1, <3>2
  <2>4. Possible(k, a.has)
    <3>1. Possible(k, account[l][k])
      BY <2>2 DEF Types
    <3> QED
      BY <2>1, <2>a, <3>1, PossibleLimited
  <2>5. /\ account' \in [Login -> [Service -> SUBSET Part]]
        /\ \A m \in Login, g \in Service : Possible(g, account'[m][g])
    <3>1. CASE account' = account
      BY <3>1 DEF Types
    <3>2. CASE account' = [account EXCEPT ![l][k] = a.has]
      BY <2>2, <2>4, <3>2, AccountTypes
    <3> QED
      BY <2>1, <3>1, <3>2
  <2>6. spoilt' \in [Login -> [Service \cup {"metadata"} -> SUBSET Cause]]
    <3>1. PICK causes : causes = (IF account[l][k] = {} THEN {"late"} ELSE {})
                                 \cup (IF job.seen[l] # mark[l][k] THEN {"overlap"} ELSE {})
      OBVIOUS
    <3>2. causes \in SUBSET Cause
      BY <3>1 DEF Cause
    <3>3. spoilt' = spoilt \/ spoilt' = [spoilt EXCEPT ![l][k] = @ \cup causes]
      BY <2>1, <3>1 DEF Spoils
    <3> QED
      BY <2>2, <3>2, <3>3, SpoiltTypes DEF Types
  <2>7. events' \in 0 .. MaxEvents
    BY <2>1, ConfigurationAssumption DEF Event, NoEvent, Types
  <2> QED
    BY <1>14, <2>3, <2>5, <2>6, <2>7 DEF check_quota, jobless, Types
<1>15. CASE annotate
  <2>1. job' \in JobType /\ job'.at # "annotate"
    BY <1>15, JobTypes, Typed DEF annotate
  <2>2. mark' \in [Login -> [Kinds -> Mark]]
    <3>1. PICK l, k, v : l = job.login /\ k = checking /\ v = annotation_of(job.act)
      OBVIOUS
    <3>2. l \in Login /\ k \in Kinds /\ v \in Mark
      BY <3>1, Typed DEF annotation_of, Mark
    <3>3. mark' = mark \/ mark' = [mark EXCEPT ![l][k] = v]
      BY <1>15, <3>1 DEF annotate
    <3>4. mark \in [Login -> [Kinds -> Mark]]
      BY DEF Types
    <3>5. [mark[l] EXCEPT ![k] = v] \in [Kinds -> Mark]
      BY <3>2, <3>4
    <3>6. mark' = mark \/ mark' = [mark EXCEPT ![l] = [mark[l] EXCEPT ![k] = v]]
      BY <3>3, Zenon
    <3> QED
      BY <3>2, <3>4, <3>5, <3>6
  <2> QED
    BY <1>15, <2>1, <2>2 DEF annotate, jobless, Types
<1>16. CASE JobDies
  <2>1. job' \in JobType /\ job'.at # "annotate"
    BY <1>16, JobTypes DEF JobDies
  <2>2. events' \in 0 .. MaxEvents
    <3>1. events' = events + 1 /\ events < MaxEvents
      BY <1>16 DEF JobDies, Event
    <3> QED
      BY <3>1, ConfigurationAssumption DEF Types
  <2>3. spoilt' \in [Login -> [Service \cup {"metadata"} -> SUBSET Cause]]
    <3>1. PICK causes : causes = {IF job.act = "block" THEN "block lost" ELSE "reset lost"}
      OBVIOUS
    <3>2. causes \in SUBSET Cause
      BY <3>1 DEF Cause
    <3>3. \/ spoilt' = spoilt
          \/ spoilt' = [spoilt EXCEPT ![job.login][checking] = @ \cup causes]
      BY <1>16, <3>1 DEF JobDies, Spoils
    <3>4. job.login \in Login /\ checking \in Service \cup {"metadata"}
      BY Typed, Services
    <3> QED
      BY <3>2, <3>3, <3>4, SpoiltTypes DEF Types
  <2> QED
    BY <1>16, <2>1, <2>2, <2>3 DEF JobDies, jobless, Types
<1>17. ASSUME NEW l \in Login, Handler(l) PROVE Types'
  BY <1>3, <1>4, <1>5, <1>6, <1>7, <1>17
     DEF Handler, whisk_user_create, whisk_user_update, whisk_user_resume,
         whisk_user_delete
<1> QED
  BY <1>1, <1>2, <1>8, <1>9, <1>10, <1>11, <1>12, <1>13, <1>14, <1>15, <1>16, <1>17
     DEF Next, Job

----------------------------------------------------------------------------
(* The steps that leave a user alone.                                      *)

\* The step is of another user, or of nothing the invariant of l is about;
\* the handler of l may be lost.
SameAccount(l) ==
  /\ account'[l] = account[l] /\ saved'[l] = saved[l] /\ spoilt'[l] = spoilt[l]
  /\ wsku'[l] = wsku[l] /\ spec'[l] = spec[l] /\ handled'[l] = handled[l]
  /\ mark'[l] = mark[l]

SameAnnotating(l) ==
  \A k \in Kinds : /\ Annotating(l, k)' <=> Annotating(l, k)
                   /\ Annotating(l, k) => job'.act = job.act

Same(l) ==
  /\ SameAccount(l)
  /\ handler'[l] \in {handler[l], NoHandler}
  /\ SameAnnotating(l)

\* They keep the invariant of that user.
LEMMA SameKeeps ==
  ASSUME NEW l \in Login, Own(l), Same(l)
  PROVE  Own(l)'
<1>1. SameAccount(l) /\ SameAnnotating(l) /\ handler'[l] \in {handler[l], NoHandler}
  BY DEF Same
<1>2. NoHandler.kind = "idle"
  BY DEF NoHandler
<1>3. \A f, kind : kind # "idle" /\ past(l, f, kind)' =>
         past(l, f, kind) /\ handler'[l] = handler[l]
  BY <1>1, <1>2 DEF past
<1>4. Course(l)'
  <2>1. CASE handler'[l] = handler[l]
    BY <1>1, <2>1 DEF Own, Course, SameAccount, Handling, Ended, current
  <2>2. CASE handler'[l] = NoHandler
    BY <1>1, <1>2, <2>2 DEF Own, Course, SameAccount, Handling
  <2> QED
    BY <1>1, <2>1, <2>2
<1>5. ASSUME NEW f \in Service PROVE Traces(l, f)'
  <2>1. Traces(l, f)
    BY DEF Own
  <2> QED
    BY <1>1, <1>3, <2>1 DEF Traces, SameAccount, untouched, no_trace
<1>6. Backed(l)'
  <2>1. Backed(l)
    BY DEF Own
  <2>2. \A v : backing(l, v)' <=> backing(l, v)
    BY <1>1 DEF SameAccount, backing
  <2>3. metadata_safe(l)' <=> metadata_safe(l)
    BY <1>1 DEF SameAccount, metadata_safe
  <2>4. handler'[l].kind = "create" => handler'[l] = handler[l]
    BY <1>1, <1>2
  <2> QED
    BY <1>1, <1>3, <2>1, <2>2, <2>3, <2>4 DEF Backed, SameAccount
<1>7. ASSUME NEW f \in Service PROVE Complete(l, f)'
  <2>1. Complete(l, f)
    BY DEF Own
  <2>2. /\ metadata_safe(l)' <=> metadata_safe(l)
        /\ undisturbed(l, f)' <=> undisturbed(l, f)
    BY <1>1 DEF SameAccount, metadata_safe, undisturbed
  <2> QED
    BY <1>1, <1>3, <2>1, <2>2 DEF Complete, SameAccount
<1>8. ASSUME NEW k \in Kinds PROVE Marks(l, k)'
  <2>1. Marks(l, k)
    BY DEF Own
  <2>2. /\ readable(l, k)' <=> readable(l, k)
        /\ has_account(l, k)' <=> has_account(l, k)
        /\ made(l, k)' => made(l, k)
        /\ Annotating(l, k)' <=> Annotating(l, k)
        /\ Annotating(l, k) => job'.act = job.act
    BY <1>1, <1>3
       DEF SameAccount, SameAnnotating, readable, misread, has_account, made
  <2> QED
    BY <1>1, <2>1, <2>2 DEF Marks, SameAccount
<1> QED
  BY <1>4, <1>5, <1>6, <1>7, <1>8 DEF Own

\* The steps of the quota checker before and after an annotation.
LEMMA NotAnnotating ==
  ASSUME job.at # "annotate", job'.at # "annotate", NEW l
  PROVE  SameAnnotating(l)
BY DEF SameAnnotating, Annotating

\* The quota checker stands still.
LEMMA JobSame ==
  ASSUME NEW l, job' = job
  PROVE  SameAnnotating(l)
BY DEF SameAnnotating, Annotating, checking

\* The steps of no user in particular.
LEMMA CommonSteps ==
  ASSUME Types, Login # {}, NEW l \in Login,
         \/ Restart \/ clean \/ configure \/ start \/ get_wsk_users
         \/ \E m \in Login : Usage(m)
  PROVE  Same(l)
<1>1. CASE Restart
  BY <1>1, JobSame DEF Restart, Dies, Same, SameAccount
<1>2. CASE clean \/ configure
  BY <1>2, JobSame DEF clean, configure, Same, SameAccount
<1>3. CASE start
  <2>1. job.at # "annotate" /\ job'.at # "annotate"
    BY <1>3, JobTypes DEF start, JobType
  <2> QED
    BY <1>3, <2>1, NotAnnotating DEF start, jobless, Same, SameAccount
<1>4. CASE get_wsk_users
  <2>1. job.at # "annotate" /\ job'.at # "annotate"
    BY <1>4, JobTypes DEF get_wsk_users, JobType, Types
  <2> QED
    BY <1>4, <2>1, NotAnnotating DEF get_wsk_users, jobless, Same, SameAccount
<1>5. CASE \E m \in Login : Usage(m)
  BY <1>5, JobSame DEF Usage, Same, SameAccount
<1> QED
  BY <1>1, <1>2, <1>3, <1>4, <1>5

\* The steps of another user.
LEMMA OtherSteps ==
  ASSUME Types, Login # {}, NEW l \in Login, NEW m \in Login, m # l, Course(m),
         \/ \E s \in Specs : ApplyUser(m, s)
         \/ DeleteUser(m)
         \/ Handler(m)
  PROVE  Same(l)
<1>1. CASE \E s \in Specs : ApplyUser(m, s)
  <2>1. job' = job /\ handler' = handler
    BY <1>1 DEF ApplyUser
  <2>2. SameAccount(l)
    BY <1>1 DEF ApplyUser, Types, SameAccount
  <2> QED
    BY <2>1, <2>2, JobSame DEF Same
<1>2. CASE DeleteUser(m)
  BY <1>2, JobSame DEF DeleteUser, Types, Same, SameAccount
<1>3. ASSUME NEW kind, StartHandler(m, kind) PROVE Same(l)
  BY <1>3, Starting, JobSame DEF StartHandler, Same, SameAccount
<1>4. CASE SkipService(m)
  <2>1. handler'[l] = handler[l]
    <3>1. PICK vs \in SUBSET Variable, raised \in BOOLEAN : vs = {} /\ raised = FALSE
      OBVIOUS
    <3>2. Handling(m) /\ ~Ended(handler[m]) /\ GoesOn(m, vs, raised)
      BY <1>4, <3>1 DEF SkipService
    <3> QED
      BY <3>2, Following
  <2>2. spoilt'[l] = spoilt[l]
    BY <1>4 DEF SkipService, Spoils, Types
  <2> QED
    BY <1>4, <2>1, <2>2, JobSame DEF SkipService, Same, SameAccount
<1>5. CASE CallService(m)
  <2>1. PICK f \in Service, silent \in BOOLEAN, session \in BOOLEAN,
             died \in BOOLEAN, causes \in SUBSET Cause :
          \E F : Called(m, f, F, silent, session, died, causes)
    BY <1>5, Calling
  <2>2. PICK F : Called(m, f, F, silent, session, died, causes)
    BY <2>1
  <2>3. PICK a : a = answer_of(m, f, F, silent, session)
    OBVIOUS
  <2>4. a.raised \in BOOLEAN
    BY <2>3, PossibleAnswers
  <2>5. handler'[l] \in {handler[l], NoHandler}
    <3>1. CASE died
      BY <2>2, <3>1 DEF Called, Dies
    <3>2. CASE ~died
      <4>1. GoesOn(m, a.vars, a.raised) /\ Handling(m) /\ ~Ended(handler[m])
        BY <2>2, <2>3, <3>2 DEF Called
      <4> QED
        BY <2>4, <4>1, Following
    <3> QED
      BY <3>1, <3>2
  <2>6. account'[l] = account[l] /\ spoilt'[l] = spoilt[l]
    BY <2>2 DEF Called, Types
  <2> QED
    BY <2>2, <2>5, <2>6, JobSame DEF Called, Same, SameAccount
<1>6. CASE SaveMetadata(m)
  <2>1. handler'[l] = handler[l]
    <3>1. PICK vs \in SUBSET Variable, raised \in BOOLEAN : vs = {} /\ raised = FALSE
      OBVIOUS
    <3>2. Handling(m) /\ ~Ended(handler[m]) /\ GoesOn(m, vs, raised)
      BY <1>6, <3>1 DEF SaveMetadata
    <3> QED
      BY <3>2, Following
  <2>2. spoilt'[l] = spoilt[l] /\ saved'[l] = saved[l]
    BY <1>6 DEF SaveMetadata, Spoils, Types
  <2> QED
    BY <1>6, <2>1, <2>2, JobSame DEF SaveMetadata, Same, SameAccount
<1>7. CASE HandlerDone(m)
  <2>1. /\ wsku'[l] = wsku[l] /\ spec'[l] = spec[l] /\ handled'[l] = handled[l]
        /\ mark'[l] = mark[l] /\ spoilt'[l] = spoilt[l] /\ handler'[l] = handler[l]
    BY <1>7 DEF HandlerDone, Types
  <2> QED
    BY <1>7, <2>1, JobSame DEF HandlerDone, Same, SameAccount
<1> QED
  BY <1>1, <1>2, <1>3, <1>4, <1>5, <1>6, <1>7
     DEF Handler, whisk_user_create, whisk_user_update, whisk_user_resume,
         whisk_user_delete

\* The steps of the quota checker about another user.
LEMMA OtherJobs ==
  ASSUME Types, Login # {}, NEW l \in Login,
         \/ \E m \in Login \ {l} : check_quota(m)
         \/ annotate /\ job.login # l
         \/ JobDies /\ (job.at = "annotate" => job.login # l)
  PROVE  Same(l)
<1>1. ASSUME NEW m \in Login \ {l}, check_quota(m) PROVE Same(l)
  <2>1. /\ job.at = "check"
        /\ job'.at = "annotate" => job'.login = m
    <3>1. job.at = "check" /\ Checked(m).at # "annotate"
      BY <1>1, JobTypes DEF check_quota
    <3>2. \A x : [job EXCEPT !.at = "annotate", !.login = m, !.act = x].login = m
      BY DEF Types, JobType
    <3>3. \/ job' = Checked(m)
          \/ \E x : job' = [job EXCEPT !.at = "annotate", !.login = m, !.act = x]
      BY <1>1 DEF check_quota
    <3> QED
      BY <3>1, <3>2, <3>3
  <2>2. SameAnnotating(l)
    BY <2>1 DEF SameAnnotating, Annotating
  <2>3. account'[l] = account[l] /\ spoilt'[l] = spoilt[l]
    BY <1>1, Typed, Services DEF check_quota, Spoils, Types
  <2> QED
    BY <1>1, <2>2, <2>3 DEF check_quota, jobless, Same, SameAccount
<1>2. CASE annotate /\ job.login # l
  <2>1. job'.at # "annotate"
    BY <1>2, JobTypes, Typed DEF annotate
  <2>2. SameAnnotating(l)
    BY <1>2, <2>1 DEF SameAnnotating, Annotating
  <2>3. mark'[l] = mark[l]
    BY <1>2, Typed DEF annotate, Types
  <2> QED
    BY <1>2, <2>2, <2>3 DEF annotate, jobless, Same, SameAccount
<1>3. CASE JobDies /\ (job.at = "annotate" => job.login # l)
  <2>1. job'.at # "annotate"
    BY <1>3, JobTypes DEF JobDies
  <2>2. SameAnnotating(l)
    BY <1>3, <2>1 DEF SameAnnotating, Annotating
  <2>3. spoilt'[l] = spoilt[l]
    BY <1>3, Typed, Services DEF JobDies, Spoils, Types
  <2> QED
    BY <1>3, <2>2, <2>3 DEF JobDies, jobless, Same, SameAccount
<1> QED
  BY <1>1, <1>2, <1>3

----------------------------------------------------------------------------
(* The steps of a user's handler.                                          *)

Grows(l) ==
  \A f \in Service \cup {"metadata"} : spoilt[l][f] \subseteq spoilt'[l][f]

SameResource(l) ==
  /\ wsku'[l] = wsku[l] /\ spec'[l] = spec[l] /\ handled'[l] = handled[l]
  /\ mark'[l] = mark[l]

Onward(l, vs) ==
  LET h == handler[l]
      n == handler'[l]
  IN /\ n.kind = h.kind /\ n.spec = h.spec /\ n.mark = h.mark
     /\ n.vars = h.vars \cup vs
     /\ n.at \in 1 .. Len(services(h.kind)) + 1
     /\ n.at <= Len(services(h.kind)) => services(h.kind)[n.at] \in asked(h.spec)
     /\ \A kind \in {"create", "delete"}, g \in Service \cup {"metadata"} :
          past(l, g, kind)' => \/ past(l, g, kind)
                               \/ g = current(h)
                               \/ g \notin asked(h.spec)

\* The code's step to the next service is one onward.
LEMMA GoesOnward ==
  ASSUME NEW l \in Login, Types, Course(l), Handling(l), ~Ended(handler[l]),
         NEW vs, NEW raised \in BOOLEAN, GoesOn(l, vs, raised)
  PROVE  IF raised THEN handler'[l] = NoHandler ELSE Onward(l, vs)
<1>1. handler'[l] = IF raised THEN NoHandler ELSE Follows(l, vs)
  BY Following
<1>2. CASE raised
  BY <1>1, <1>2
<1>3. CASE ~raised
  <2>1. PICK n, h : n = handler'[l] /\ h = handler[l] /\ n = Follows(l, vs)
    BY <1>1, <1>3
  <2>2. /\ n.kind = h.kind /\ n.spec = h.spec /\ n.mark = h.mark
        /\ n.vars = h.vars \cup vs
    BY <2>1, Following
  <2>3. /\ n.at \in h.at + 1 .. Len(services(h.kind)) + 1
        /\ n.at <= Len(services(h.kind)) => services(h.kind)[n.at] \in asked(h.spec)
    <3>1. /\ Follows(l, vs).at \in handler[l].at + 1 .. Len(services(handler[l].kind)) + 1
          /\ Follows(l, vs).at <= Len(services(handler[l].kind)) =>
               services(handler[l].kind)[Follows(l, vs).at] \in asked(handler[l].spec)
      BY Following
    <3> QED
      BY <2>1, <3>1
  <2>4. n.at \in 1 .. Len(services(h.kind)) + 1
    <3>1. h.at \in Nat
      BY <2>1, Typed
    <3> QED
      BY <2>3, <3>1
  <2>5. ASSUME NEW kind \in {"create", "delete"}, NEW g \in Service \cup {"metadata"},
               past(l, g, kind)'
        PROVE  past(l, g, kind) \/ g = current(h) \/ g \notin asked(h.spec)
    BY <2>1, <2>5, PastGrows
  <2> QED
    BY <1>3, <2>1, <2>2, <2>3, <2>4, <2>5 DEF Onward
<1> QED
  BY <1>2, <1>3

\* Onward, the handler stays where a handler can be.
LEMMA CourseOnward ==
  ASSUME NEW l \in Login, Course(l), SameResource(l), Grows(l),
         \/ handler'[l] = NoHandler
         \/ Handling(l) /\ \E vs : Onward(l, vs)
  PROVE  Course(l)'
<1>1. CASE handler'[l] = NoHandler
  BY <1>1 DEF Course, SameResource, Handling, NoHandler
<1>2. CASE Handling(l) /\ \E vs : Onward(l, vs)
  <2>1. PICK n, h : n = handler'[l] /\ h = handler[l]
    OBVIOUS
  <2>2. /\ n.kind = h.kind /\ n.spec = h.spec /\ n.mark = h.mark
        /\ n.at \in 1 .. Len(services(h.kind)) + 1
        /\ n.at <= Len(services(h.kind)) => services(h.kind)[n.at] \in asked(h.spec)
    BY <1>2, <2>1 DEF Onward
  <2>3. Handling(l) /\ h.kind # "idle" /\ h.spec \in Specs /\ wsku[l] # "absent"
    BY <1>2, <2>1 DEF Handling, Course
  <2>4. n.spec # spec'[l] => \A f \in Service : "edited" \in spoilt'[l][f]
    BY <2>1, <2>2, <2>3 DEF Course, SameResource, Grows
  <2>5. ~Ended(n) => current(n) \in asked(n.spec)
    <3>1. PICK len, i, kind :
            len = Len(services(kind)) /\ len \in Nat /\ i = n.at /\ kind = n.kind
      BY ServicesOf
    <3>2. i \in 1 .. len + 1 /\ (i <= len => services(kind)[i] \in asked(n.spec))
      BY <2>2, <3>1
    <3>3. ~ i > len => services(kind)[i] \in asked(n.spec)
      BY <3>1, <3>2
    <3> QED
      BY <3>1, <3>3 DEF Ended, current
  <2> QED
    BY <2>1, <2>2, <2>3, <2>4, <2>5 DEF Course, SameResource, Handling
<1> QED
  BY <1>1, <1>2

\* A service the user does not ask for has nothing of it.
LEMMA NotAsked ==
  ASSUME NEW l \in Login, Own(l), NEW f \in Service, untouched(l, f), Handling(l),
         f \notin asked(handler[l].spec)
  PROVE  no_trace(l, f)
<1>1. handler[l].spec = spec[l]
  BY DEF Own, Course, untouched
<1> QED
  BY <1>1 DEF Own, Traces

\* What the annotation is read for is what the deletion is to remove.
LEMMA Unmarked ==
  ASSUME NEW l \in Login, NEW k \in Kinds, readable(l, k)
  PROVE  /\ untouched(l, k)
         /\ no_trace(l, k) => ~has_account(l, k)
<1>1. untouched(l, k)
  BY DEF readable, untouched, Kinds
<1>2. no_trace(l, k) => account[l][k] = {}
  BY DEF readable, misread, no_trace
<1> QED
  BY <1>1, <1>2 DEF has_account

\* The services the handler is not at.
LEMMA PassingBy ==
  ASSUME NEW l \in Login, Own(l), Handling(l), SameResource(l), SameAnnotating(l),
         NEW g \in Service, g # current(handler[l]),
         account'[l][g] = account[l][g], spoilt'[l][g] = spoilt[l][g],
         \/ handler'[l] = NoHandler
         \/ \E vs : Onward(l, vs)
  PROVE  Traces(l, g)' /\ (g \in Kinds => Marks(l, g)')
<1>1. ASSUME NEW kind \in {"create", "delete"}, past(l, g, kind)'
      PROVE  past(l, g, kind) \/ g \notin asked(handler[l].spec)
  <2>1. handler'[l].kind = kind
    BY <1>1 DEF past
  <2> QED
    BY <1>1, <2>1 DEF Onward, NoHandler
<1>2. /\ untouched(l, g)' <=> untouched(l, g)
      /\ no_trace(l, g)' <=> no_trace(l, g)
  BY DEF untouched, no_trace
<1>3. Traces(l, g)'
  <2>1. Traces(l, g)
    BY DEF Own
  <2>2. past(l, g, "delete")' /\ untouched(l, g) => no_trace(l, g)
    BY <1>1, <2>1, NotAsked DEF Traces
  <2> QED
    BY <1>2, <2>1, <2>2 DEF Traces, SameResource
<1>4. ASSUME g \in Kinds PROVE Marks(l, g)'
  <2>1. Marks(l, g)
    BY <1>4 DEF Own
  <2>2. /\ readable(l, g)' <=> readable(l, g)
        /\ has_account(l, g)' <=> has_account(l, g)
    BY DEF readable, misread, has_account
  <2>3. /\ Annotating(l, g)' <=> Annotating(l, g)
        /\ Annotating(l, g) => job'.act = job.act
    BY <1>4 DEF SameAnnotating
  <2>4. made(l, g)' /\ readable(l, g) => made(l, g) \/ ~has_account(l, g)
    <3>1. CASE handled'[l] # NoSpec
      BY <3>1 DEF made, SameResource
    <3>2. ASSUME past(l, g, "create")', readable(l, g)
          PROVE  made(l, g) \/ ~has_account(l, g)
      BY <1>1, <1>4, <3>2, NotAsked, Unmarked DEF made
    <3> QED
      BY <3>1, <3>2 DEF made
  <2> QED
    BY <2>1, <2>2, <2>3, <2>4 DEF Marks, SameResource
<1> QED
  BY <1>3, <1>4

\* What is recorded of them.
LEMMA RecordedBefore ==
  ASSUME NEW l \in Login, Own(l), Handling(l), SameResource(l),
         NEW g \in Service, g # current(handler[l]), current(handler[l]) # "metadata",
         spoilt'[l][g] = spoilt[l][g], saved'[l] = saved[l],
         metadata_safe(l)' => metadata_safe(l),
         \/ handler'[l] = NoHandler
         \/ \E vs : Onward(l, vs)
  PROVE  Complete(l, g)'
<1>1. undisturbed(l, g)' <=> undisturbed(l, g)
  BY DEF undisturbed
<1>2. Complete(l, g)
  BY DEF Own
<1>3. ASSUME NEW f \in {g, "metadata"}, past(l, f, "create")', f \in asked(handler'[l].spec)
      PROVE  /\ past(l, f, "create") /\ handler'[l].spec = handler[l].spec
             /\ handler[l].vars \subseteq handler'[l].vars
  <2>1. handler'[l].kind = "create"
    BY <1>3 DEF past
  <2>2. PICK vs : Onward(l, vs)
    BY <2>1 DEF NoHandler
  <2>3. f # current(handler[l]) /\ f \in Service \cup {"metadata"}
    OBVIOUS
  <2> QED
    BY <1>3, <2>2, <2>3 DEF Onward
<1>4. \A s : "metadata" \in asked(s)
  BY ServicesOf
<1> QED
  BY <1>1, <1>2, <1>3, <1>4 DEF Complete, SameResource

\* Variables lead to what is kept.
LEMMA BackingKept ==
  ASSUME NEW l \in Login, NEW v \in Variable, backing(l, v), Grows(l),
         \A g \in Service : \/ keeps(g, account[l][g], account'[l][g])
                            \/ g = "static" /\ "again" \in spoilt'[l]["static"]
  PROVE  backing(l, v)'
<1>1. /\ {"api", "minio", "seaweedfs", "static"} \subseteq Service
      /\ {"mongodb", "redis", "postgres", "milvus"} \subseteq Service
  BY Services
<1>2. /\ spoilt[l]["api"] \subseteq spoilt'[l]["api"]
      /\ spoilt[l]["static"] \subseteq spoilt'[l]["static"]
      /\ spoilt[l]["minio"] \subseteq spoilt'[l]["minio"]
      /\ spoilt[l]["seaweedfs"] \subseteq spoilt'[l]["seaweedfs"]
      /\ spoilt[l]["mongodb"] \subseteq spoilt'[l]["mongodb"]
      /\ spoilt[l]["redis"] \subseteq spoilt'[l]["redis"]
      /\ spoilt[l]["postgres"] \subseteq spoilt'[l]["postgres"]
  BY <1>1 DEF Grows
<1>3. /\ account[l]["api"] \ {"write"} \subseteq account'[l]["api"]
      /\ account[l]["minio"] \ {"write"} \subseteq account'[l]["minio"]
      /\ account[l]["seaweedfs"] \ {"write"} \subseteq account'[l]["seaweedfs"]
      /\ account[l]["mongodb"] \ {"write"} \subseteq account'[l]["mongodb"]
      /\ account[l]["postgres"] \ {"write"} \subseteq account'[l]["postgres"]
      /\ account[l]["milvus"] \ {"write"} \subseteq account'[l]["milvus"]
      /\ "on" \in account[l]["redis"] => "on" \in account'[l]["redis"]
      /\ \/ account[l]["static"] \ {"write"} \subseteq account'[l]["static"]
         \/ "again" \in spoilt'[l]["static"]
  BY <1>1 DEF keeps
<1>4. CASE v \in {"S3", "S3_BUCKET_DATA", "S3_BUCKET_STATIC"}
  BY <1>2, <1>3, <1>4 DEF backing
<1>5. CASE v \in {"MONGODB_URL", "REDIS_PREFIX", "REDIS", "POSTGRES", "MILVUS"}
  BY <1>2, <1>3, <1>5 DEF backing
<1>6. CASE v = "USER_REST_API_URL"
  BY <1>2, <1>3, <1>6 DEF backing
<1>7. CASE v = "STATIC_CONTENT_URL"
  BY <1>2, <1>3, <1>7 DEF backing
<1> QED
  BY <1>4, <1>5, <1>6, <1>7 DEF Variable

\* No account changes.
LEMMA BackingSame ==
  ASSUME NEW l \in Login, NEW v \in Variable, backing(l, v), Grows(l),
         account'[l] = account[l]
  PROVE  backing(l, v)'
<1>1. \A g \in Service : keeps(g, account[l][g], account'[l][g])
  BY DEF keeps
<1> QED
  BY <1>1, BackingKept

\* An edit of a resource that is there excuses everything; a resource that is
\* made finds what the deletion of the one before it has left.
LEMMA ApplyKeeps ==
  ASSUME Types, NEW l \in Login, NEW s \in Specs, Own(l), ApplyUser(l, s)
  PROVE  Own(l)'
<1>1. /\ wsku'[l] = "live" /\ spec'[l] = s
      /\ UNCHANGED <<handled, mark, handler, account, saved, job>>
      /\ wsku[l] \in {"absent", "live"}
      /\ wsku[l] = "absent" => spoilt' = spoilt
      /\ wsku[l] # "absent" => \A f \in Service \cup {"metadata"} :
                                 spoilt'[l][f] = spoilt[l][f] \cup {"edited"}
  <2>1. /\ wsku'[l] = "live" /\ spec'[l] = s
        /\ UNCHANGED <<handled, mark, handler, account, saved, job>>
        /\ wsku[l] \in {"absent", "live"}
        /\ wsku[l] = "absent" => spoilt' = spoilt
    BY DEF ApplyUser, Types
  <2>2. ASSUME wsku[l] # "absent", NEW f \in Service \cup {"metadata"}
        PROVE  spoilt'[l][f] = spoilt[l][f] \cup {"edited"}
    <3>1. PICK D : D = Service \cup {"metadata"}
      OBVIOUS
    <3>2. spoilt \in [Login -> [D -> SUBSET Cause]]
      BY <3>1 DEF Types
    <3>3. PICK e : e = [g \in D |-> spoilt[l][g] \cup {"edited"}]
      OBVIOUS
    <3>4. spoilt' = [spoilt EXCEPT ![l] = e]
      BY <2>2, <3>2, <3>3 DEF ApplyUser
    <3> QED
      BY <3>1, <3>2, <3>3, <3>4
  <2> QED
    BY <2>1, <2>2
<1>2. Grows(l)
  BY <1>1 DEF Grows
<1>3. Course(l)'
  <2>1. CASE wsku[l] = "absent"
    BY <1>1, <2>1 DEF Own, Course, Handling
  <2>2. CASE wsku[l] # "absent"
    <3>1. \A f \in Service : "edited" \in spoilt'[l][f]
      BY <1>1, <2>2
    <3> QED
      BY <1>1, <2>2, <3>1 DEF Own, Course, Handling, Ended, current
  <2> QED
    BY <2>1, <2>2
<1>4. Backed(l)'
  <2>1. Backed(l)
    BY DEF Own
  <2>2. \A v \in Variable : backing(l, v) => backing(l, v)'
    BY <1>1, <1>2, BackingSame
  <2>3. /\ metadata_safe(l)' => metadata_safe(l)
        /\ past(l, "metadata", "delete")' <=> past(l, "metadata", "delete")
        /\ past(l, "minio", "create")' <=> past(l, "minio", "create")
        /\ past(l, "seaweedfs", "create")' <=> past(l, "seaweedfs", "create")
    BY <1>1, <1>2 DEF metadata_safe, Grows, past
  <2>4. saved[l] \subseteq Variable /\ handler[l].vars \subseteq Variable
    BY Typed DEF Types
  <2>5. wsku[l] = "absent" => handler[l].kind = "idle" /\ (metadata_safe(l) => saved[l] = {})
    BY <2>1 DEF Own, Course, Handling, Backed
  <2>6. /\ spoilt[l]["minio"] \subseteq spoilt'[l]["minio"]
        /\ spoilt[l]["seaweedfs"] \subseteq spoilt'[l]["seaweedfs"]
    BY <1>2, Services DEF Grows
  <2> QED
    BY <1>1, <2>1, <2>2, <2>3, <2>4, <2>5, <2>6 DEF Backed
<1>5. CASE wsku[l] = "absent"
  <2>1. handler[l].kind = "idle" /\ handled[l] = NoSpec
    BY <1>5 DEF Own, Course, Handling
  <2>2. \A f, kind : kind # "idle" => ~past(l, f, kind)'
    BY <1>1, <2>1 DEF past
  <2>3. ASSUME NEW f \in Service PROVE Traces(l, f)'
    BY <1>1, <1>5, <2>2 DEF Own, Traces, untouched, no_trace
  <2>4. ASSUME NEW f \in Service PROVE Complete(l, f)'
    BY <1>1, <2>1, <2>2 DEF Complete
  <2>5. ASSUME NEW k \in Kinds PROVE Marks(l, k)'
    BY <1>1, <1>5, <2>1, <2>2
       DEF Own, Marks, readable, misread, made, has_account, Annotating, checking
  <2> QED
    BY <1>3, <1>4, <2>3, <2>4, <2>5 DEF Own
<1>6. CASE wsku[l] # "absent"
  <2>1. \A f \in Service : "edited" \in spoilt'[l][f]
    BY <1>1, <1>6
  <2>2. \A f \in Service : ~untouched(l, f)' /\ ~undisturbed(l, f)'
    BY <2>1 DEF untouched, undisturbed
  <2>3. \A k \in Kinds : ~readable(l, k)'
    BY <2>1, Services DEF readable
  <2> QED
    BY <1>3, <1>4, <2>2, <2>3 DEF Own, Traces, Complete, Marks
<1> QED
  BY <1>5, <1>6

\* To ask for the deletion of the resource changes no account.
LEMMA DeleteKeeps ==
  ASSUME Types, NEW l \in Login, Own(l), DeleteUser(l)
  PROVE  Own(l)'
<1>1. /\ wsku[l] = "live" /\ wsku'[l] = "deleting"
      /\ UNCHANGED <<spec, handled, mark, handler, account, saved, spoilt, job>>
  BY DEF DeleteUser, Types
<1>2. \A f, kind : past(l, f, kind)' <=> past(l, f, kind)
  BY <1>1 DEF past
<1>3. Course(l)'
  BY <1>1 DEF Own, Course, Handling, Ended, current
<1>4. ASSUME NEW f \in Service PROVE Traces(l, f)'
  BY <1>1, <1>2 DEF Own, Traces, untouched, no_trace
<1>5. Backed(l)'
  <2>1. Backed(l)
    BY DEF Own
  <2> QED
    BY <1>1, <1>2, <2>1 DEF Backed, metadata_safe
<1>6. ASSUME NEW f \in Service PROVE Complete(l, f)'
  BY <1>1, <1>2 DEF Own, Complete, undisturbed, metadata_safe
<1>7. ASSUME NEW k \in Kinds PROVE Marks(l, k)'
  BY <1>1 DEF Marks
<1> QED
  BY <1>3, <1>4, <1>5, <1>6, <1>7 DEF Own

\* The handlers begin.
LEMMA StartKeeps ==
  ASSUME Types, NEW l \in Login, Own(l),
         \/ whisk_user_create(l) \/ whisk_user_update(l)
         \/ whisk_user_resume(l) \/ whisk_user_delete(l)
  PROVE  Own(l)'
<1>1. PICK kind : /\ StartHandler(l, kind)
                  /\ \/ kind = "create" /\ wsku[l] = "live" /\ handled[l] = NoSpec
                     \/ kind \in {"update", "resume"} /\ wsku[l] = "live" /\ handled[l] # NoSpec
                     \/ kind = "delete" /\ wsku[l] = "deleting"
  <2>1. wsku[l] = "live" => spec[l] # NoSpec
    BY ConfigurationAssumption DEF Own, Course
  <2> QED
    BY <2>1
       DEF whisk_user_create, whisk_user_update, whisk_user_resume,
           whisk_user_delete
<1>2. UNCHANGED <<wsku, spec, handled, mark, account, saved, spoilt, job>> /\ ~Handling(l)
  BY <1>1 DEF StartHandler
<1>3. PICK n : /\ n = handler'[l] /\ n = Begun(l, kind)
               /\ n.at \in 1 .. Len(services(kind)) + 1
               /\ n.at <= Len(services(kind)) => services(kind)[n.at] \in asked(spec[l])
  BY <1>1, Starting
<1>4. /\ n.kind = kind /\ n.spec = spec[l] /\ n.vars = {}
      /\ kind # "resume" => n.mark = "false"
  BY <1>3 DEF Begun
<1>5. ASSUME NEW to \in {"create", "delete"}, NEW g \in Service \cup {"metadata"},
             past(l, g, to)'
      PROVE  kind = to /\ g \notin asked(spec[l])
  BY <1>1, <1>5, PastStarts
<1>6. \A s : "metadata" \in asked(s)
  BY ServicesOf
<1>7. Course(l)'
  <2>1. ~Ended(n) => current(n) \in asked(n.spec)
    <3>1. PICK len, i : len = Len(services(kind)) /\ len \in Nat /\ i = n.at
      BY ServicesOf
    <3>2. i \in 1 .. len + 1 /\ (i <= len => services(kind)[i] \in asked(n.spec))
      BY <1>3, <1>4, <3>1
    <3>3. ~ i > len => services(kind)[i] \in asked(n.spec)
      BY <3>1, <3>2
    <3> QED
      BY <1>4, <3>1, <3>3 DEF Ended, current
  <2> QED
    BY <1>1, <1>2, <1>3, <1>4, <2>1 DEF Own, Course, Handling
<1>8. ASSUME NEW f \in Service PROVE Traces(l, f)'
  BY <1>2, <1>5 DEF Own, Traces, untouched, no_trace
<1>9. Backed(l)'
  <2>1. Backed(l)
    BY DEF Own
  <2>2. ASSUME NEW f \in {"minio", "seaweedfs"}, "route" \in spec[l], f \in Components
        PROVE  ~past(l, f, "create")'
    BY <1>5, <2>2, Services DEF asked, wanted, storage_enabled
  <2>3. \A v : backing(l, v)' <=> backing(l, v)
    BY <1>2 DEF backing
  <2>4. ~past(l, "metadata", "delete")'
    BY <1>5, <1>6
  <2>5. handler'[l].vars = {} /\ handler'[l].spec = spec[l]
    BY <1>3, <1>4
  <2>6. metadata_safe(l)' <=> metadata_safe(l)
    BY <1>2 DEF metadata_safe
  <2> QED
    BY <1>2, <2>1, <2>2, <2>3, <2>4, <2>5, <2>6 DEF Backed
<1>10. ASSUME NEW f \in Service PROVE Complete(l, f)'
  BY <1>2, <1>3, <1>4, <1>5, <1>6 DEF Own, Complete, undisturbed, metadata_safe
<1>11. ASSUME NEW k \in Kinds PROVE Marks(l, k)'
  <2>1. Marks(l, k) /\ Traces(l, k)
    BY Services DEF Own
  <2>2. made(l, k)' /\ readable(l, k) => made(l, k) \/ ~has_account(l, k)
    <3>1. CASE handled[l] # NoSpec
      BY <3>1 DEF made
    <3>2. ASSUME past(l, k, "create")', readable(l, k) PROVE ~has_account(l, k)
      <4>1. k \notin asked(spec[l])
        BY <1>5, <3>2, Services
      <4> QED
        BY <2>1, <3>2, <4>1, Unmarked DEF Traces
    <3> QED
      BY <1>2, <3>1, <3>2 DEF made
  <2> QED
    BY <1>2, <2>1, <2>2
       DEF Marks, readable, misread, has_account, Annotating, checking
<1> QED
  BY <1>7, <1>8, <1>9, <1>10, <1>11 DEF Own

\* A service that is passed over is unconfigured and excuses what it lacks.
LEMMA SkipKeeps ==
  ASSUME Types, NEW l \in Login, Own(l), SkipService(l)
  PROVE  Own(l)'
<1>1. PICK f : f = current(handler[l])
  OBVIOUS
<1>2. /\ Handling(l) /\ ~Ended(handler[l]) /\ ~wanted(f, cfg, handler[l].spec)
      /\ GoesOn(l, {}, FALSE)
      /\ spoilt' = [spoilt EXCEPT ![l][f] = @ \cup {"unconfigured"}]
      /\ UNCHANGED <<wsku, spec, handled, mark, account, saved, job>>
  BY <1>1 DEF SkipService, Spoils
<1>3. f \in Service /\ f # "metadata"
  <2>1. f \in Service \cup {"metadata"}
    BY <1>1, <1>2 DEF Own, Course, asked
  <2>2. f # "metadata"
    BY <1>2 DEF wanted
  <2> QED
    BY <2>1, <2>2
<1>4. Onward(l, {})
  <2>1. PICK vs \in {{}}, raised \in BOOLEAN : raised = FALSE
    OBVIOUS
  <2>2. Onward(l, vs)
    BY <1>2, <2>1, GoesOnward DEF Own
  <2> QED
    BY <2>2
<1>5. /\ "unconfigured" \in spoilt'[l][f]
      /\ \A g \in Service \cup {"metadata"} : g # f => spoilt'[l][g] = spoilt[l][g]
      /\ Grows(l)
  <2>1. {"unconfigured"} \in SUBSET Cause
    BY DEF Cause
  <2>2. /\ spoilt'[l][f] = spoilt[l][f] \cup {"unconfigured"}
        /\ \A g \in Service \cup {"metadata"} : g # f => spoilt'[l][g] = spoilt[l][g]
    BY <1>2, <1>3, <2>1, SpoiltTypes
  <2> QED
    BY <2>2 DEF Grows
<1>6. SameResource(l) /\ SameAnnotating(l)
  BY <1>2, JobSame DEF SameResource
<1>7. metadata_safe(l)' <=> metadata_safe(l)
  BY <1>3, <1>5 DEF metadata_safe
<1>8. Course(l)'
  BY <1>2, <1>4, <1>5, <1>6, CourseOnward DEF Own
<1>9. ASSUME NEW g \in Service, g # f
      PROVE  Traces(l, g)' /\ Complete(l, g)' /\ (g \in Kinds => Marks(l, g)')
  <2>1. account'[l][g] = account[l][g] /\ spoilt'[l][g] = spoilt[l][g] /\ saved'[l] = saved[l]
    BY <1>2, <1>5, <1>9
  <2>2. Traces(l, g)' /\ (g \in Kinds => Marks(l, g)')
    BY <1>1, <1>2, <1>4, <1>6, <1>9, <2>1, PassingBy
  <2>3. Complete(l, g)'
    BY <1>1, <1>2, <1>3, <1>4, <1>6, <1>7, <1>9, <2>1, RecordedBefore
  <2> QED
    BY <2>2, <2>3
<1>10. Traces(l, f)' /\ Complete(l, f)' /\ Marks(l, f)'
  <2>1. ~untouched(l, f)' /\ ~undisturbed(l, f)' /\ ~readable(l, f)'
    BY <1>5 DEF untouched, undisturbed, readable
  <2> QED
    BY <2>1 DEF Traces, Complete, Marks
<1>11. Backed(l)'
  <2>1. Backed(l)
    BY DEF Own
  <2>2. \A v \in Variable : backing(l, v) => backing(l, v)'
    BY <1>2, <1>5, BackingSame
  <2>3. saved[l] \subseteq Variable /\ handler[l].vars \subseteq Variable
    BY Typed DEF Types
  <2>4. /\ handler'[l].kind = handler[l].kind /\ handler'[l].spec = handler[l].spec
        /\ handler'[l].vars = handler[l].vars
    BY <1>4 DEF Onward
  <2>5. past(l, "metadata", "delete")' => past(l, "metadata", "delete")
    BY <1>1, <1>3, <1>4, ServicesOf DEF Onward
  <2>6. ASSUME NEW g \in {"minio", "seaweedfs"}, past(l, g, "create")', g \in Components,
               "route" \in handler[l].spec
        PROVE  past(l, g, "create") \/ (g = f /\ "unconfigured" \in spoilt'[l][g])
    <3>1. g \in asked(handler[l].spec)
      BY <2>6, Services DEF asked, wanted, storage_enabled
    <3> QED
      BY <1>1, <1>4, <1>5, <2>6, <3>1, Services DEF Onward
  <2>7. /\ spoilt[l]["minio"] \subseteq spoilt'[l]["minio"]
        /\ spoilt[l]["seaweedfs"] \subseteq spoilt'[l]["seaweedfs"]
    BY <1>5, Services DEF Grows
  <2> QED
    BY <1>2, <1>7, <2>1, <2>2, <2>3, <2>4, <2>5, <2>6, <2>7 DEF Backed
<1>12. \A g \in Service : Traces(l, g)' /\ Complete(l, g)'
  BY <1>9, <1>10
<1>13. \A k \in Kinds : Marks(l, k)'
  BY <1>9, <1>10, Services
<1> QED
  BY <1>8, <1>11, <1>12, <1>13 DEF Own

\* What a service has recorded leads to its account.
LEMMA BacksBacking ==
  ASSUME NEW l \in Login, NEW f \in Service, NEW s, f \in asked(s),
         NEW v \in variables_of(f, {"data", "route"}), backs(v, account'[l][f])
  PROVE  backing(l, v)'
<1>1. /\ f = "minio" => "minio" \in Components
      /\ f = "seaweedfs" => "minio" \notin Components
  BY ConfigurationAssumption DEF asked, wanted
<1>2. CASE f = "api"
  BY <1>2 DEF variables_of, backs, backing
<1>3. CASE f \in {"minio", "seaweedfs"}
  <2>1. v \in {"S3", "S3_BUCKET_DATA", "S3_BUCKET_STATIC"}
    BY <1>3 DEF variables_of
  <2> QED
    BY <1>1, <1>3, <2>1 DEF backs, backing
<1>4. CASE f = "static"
  BY <1>4 DEF variables_of, backs, backing
<1>5. CASE f \in {"mongodb", "redis", "postgres", "milvus"}
  BY <1>5 DEF variables_of, backs, backing
<1> QED
  BY <1>2, <1>3, <1>4, <1>5, Services

\* How far a handler is that has ended, or is at its last service.
LEMMA EndedPast ==
  ASSUME Types, NEW l \in Login, NEW kind \in {"create", "delete"},
         handler[l].kind = kind
  PROVE  /\ Ended(handler[l]) =>
              \A g \in Service \cup {"metadata"} : past(l, g, kind)
         /\ ~Ended(handler[l]) => ~past(l, "metadata", kind)
         /\ ~Ended(handler[l]) /\ current(handler[l]) = "metadata" =>
              \A g \in Service : past(l, g, kind)
         /\ ~Ended(handler[l]) /\ current(handler[l]) = "static" =>
              past(l, "minio", kind) /\ past(l, "seaweedfs", kind)
<1>1. services(kind) = CreateOrder /\ Len(CreateOrder) = 9
  BY ServicesOf, Orders
<1>2. PICK at : at = handler[l].at /\ at \in 1 .. 10
  BY Typed
<1>3. /\ Ended(handler[l]) <=> at > 9
      /\ current(handler[l]) = CreateOrder[at]
  BY <1>1, <1>2 DEF Ended, current
<1>4. \A g : past(l, g, kind) <=> \A i \in 1 .. 9 : CreateOrder[i] = g => i < at
  BY <1>1, <1>2 DEF past
<1>5. at > 9 => \A g : past(l, g, kind)
  BY <1>2, <1>4
<1>6. ~ at > 9 => ~past(l, "metadata", kind)
  BY <1>2, <1>4, Orders
<1>7. ~ at > 9 /\ CreateOrder[at] = "metadata" => \A g \in Service : past(l, g, kind)
  <2>1. \A i \in 1 .. 9 : CreateOrder[i] \in Service => i # 9
    BY Orders, ServicesOf
  <2>2. ASSUME ~ at > 9, CreateOrder[at] = "metadata" PROVE at = 9
    BY <1>2, <2>2, Orders
  <2> QED
    BY <1>4, <2>1, <2>2
<1>8. ~ at > 9 /\ CreateOrder[at] = "static" =>
        past(l, "minio", kind) /\ past(l, "seaweedfs", kind)
  <2>1. ASSUME ~ at > 9, CreateOrder[at] = "static" PROVE at = 4
    BY <1>2, <2>1, Orders
  <2>2. \A i \in 1 .. 9 : CreateOrder[i] \in {"minio", "seaweedfs"} => i < 4
    BY Orders
  <2> QED
    BY <1>4, <2>1, <2>2
<1> QED
  BY <1>3, <1>5, <1>6, <1>7, <1>8

\* To resume a user is to restore it in redis.
LEMMA ResumesRedis ==
  ASSUME Types, NEW l \in Login, handler[l].kind = "resume", ~Ended(handler[l])
  PROVE  current(handler[l]) = "redis"
<1>1. handler[l].at \in 1 .. 10
  BY Typed
<1> QED
  BY <1>1, ServicesOf DEF Ended, current

\* A call of a service: what it makes has the shape its removal undoes, what it
\* records leads there, and a call that fails is told to the history.
LEMMA CallKeeps ==
  ASSUME Types, NEW l \in Login, Own(l), CallService(l)
  PROVE  Own(l)'
<1>1. PICK f \in Service, silent \in BOOLEAN, session \in BOOLEAN,
           died \in BOOLEAN, causes \in SUBSET Cause :
        \E F : Called(l, f, F, silent, session, died, causes)
  BY Calling DEF Own
<1>2. PICK F : Called(l, f, F, silent, session, died, causes)
  BY <1>1
<1>3. PICK h, a : h = handler[l] /\ a = answer_of(l, f, F, silent, session)
  OBVIOUS
<1>4. /\ Handling(l) /\ ~Ended(h) /\ f = current(h) /\ f \in asked(h.spec)
      /\ h.kind \in {"create", "resume", "delete"}
      /\ overlaps(l, f) \subseteq causes
      /\ silent => "silent" \in causes
      /\ f = "redis" /\ h.kind # "delete" /\ ~silent => F \cap redis_script = {}
      /\ \/ F = {} /\ ~silent /\ ~died /\ (session => "session" \in causes)
         \/ ~died /\ "fault" \in causes
         \/ /\ died /\ ~silent
            /\ (IF h.kind = "delete" THEN "cut" ELSE "died") \in causes
      /\ UNCHANGED <<wsku, spec, handled, mark, saved, job>>
  BY <1>2, <1>3 DEF Called
<1>5. Possible(f, a.has) /\ a.vars \subseteq Variable /\ a.raised \in BOOLEAN
  BY <1>3, PossibleAnswers
<1>6. /\ account'[l][f] = a.has
      /\ \A g \in Service : g # f => account'[l][g] = account[l][g]
  <2>1. PICK has : has = a.has
    OBVIOUS
  <2>2. Possible(f, has) /\ account' = [account EXCEPT ![l][f] = has]
    BY <1>2, <1>3, <1>5, <2>1 DEF Called
  <2>3. account'[l][f] = has /\ \A g \in Service : g # f => account'[l][g] = account[l][g]
    BY <2>2 DEF Types
  <2> QED
    BY <2>1, <2>3
<1>7. /\ spoilt'[l][f] = spoilt[l][f] \cup causes
      /\ \A g \in Service \cup {"metadata"} : g # f => spoilt'[l][g] = spoilt[l][g]
      /\ Grows(l)
  <2>1. spoilt' = [spoilt EXCEPT ![l][f] = @ \cup causes]
    BY <1>2 DEF Called
  <2>2. /\ spoilt'[l][f] = spoilt[l][f] \cup causes
        /\ \A g \in Service \cup {"metadata"} : g # f => spoilt'[l][g] = spoilt[l][g]
    BY <2>1, SpoiltTypes
  <2> QED
    BY <2>2 DEF Grows
<1>8. /\ died => handler'[l] = NoHandler
      /\ handler'[l] = NoHandler \/ (~died /\ Onward(l, a.vars))
  <2>1. CASE died
    BY <1>2, <2>1 DEF Called, Dies
  <2>2. CASE ~died
    <3>1. GoesOn(l, a.vars, a.raised)
      BY <1>2, <1>3, <2>2 DEF Called
    <3> QED
      BY <1>3, <1>4, <1>5, <2>2, <3>1, GoesOnward DEF Own
  <2> QED
    BY <2>1, <2>2
<1>9. SameResource(l) /\ SameAnnotating(l)
  BY <1>4, JobSame DEF SameResource
<1>10. f # "metadata" /\ (metadata_safe(l)' <=> metadata_safe(l))
  BY <1>7, ServicesOf DEF metadata_safe
<1>11. Course(l)'
  BY <1>4, <1>7, <1>8, <1>9, CourseOnward DEF Own
<1>12. wsku[l] # "absent" /\ (h.kind = "delete" => wsku[l] = "deleting")
  BY <1>3, <1>4 DEF Own, Course
<1>13. handler'[l].kind \in {"idle", h.kind}
  BY <1>3, <1>8 DEF Onward, NoHandler
<1>14. /\ h.kind = "delete" => a = removed(f, account[l][f], h, F, silent, session)
       /\ h.kind # "delete" => a = created(f, account[l][f], h, F, silent)
  BY <1>3 DEF answer_of
<1>15. h.kind = "create" /\ account[l][f] # {} => "again" \in causes
  BY <1>3, <1>4 DEF overlaps
<1>16. h.kind = "resume" => f = "redis"
  BY <1>3, <1>4, ResumesRedis
<1>17. ASSUME NEW g \in Service, g # f
       PROVE  Traces(l, g)' /\ Complete(l, g)' /\ (g \in Kinds => Marks(l, g)')
  <2>1. /\ account'[l][g] = account[l][g] /\ spoilt'[l][g] = spoilt[l][g]
        /\ saved'[l] = saved[l]
    BY <1>4, <1>6, <1>7, <1>17
  <2>2. Traces(l, g)' /\ (g \in Kinds => Marks(l, g)')
    BY <1>3, <1>4, <1>8, <1>9, <1>17, <2>1, PassingBy
  <2>3. Complete(l, g)'
    BY <1>3, <1>4, <1>8, <1>9, <1>10, <1>17, <2>1, RecordedBefore
  <2> QED
    BY <2>2, <2>3
<1>18. Traces(l, f)'
  <2> SUFFICES ASSUME untouched(l, f)'
               PROVE  /\ \/ no_trace(l, f)'
                         \/ f \in asked(spec'[l]) /\ Shape(f, account'[l][f], spec'[l])
                      /\ past(l, f, "delete")' => no_trace(l, f)'
    BY <1>4, <1>12 DEF Traces
  <2>1. /\ untouched(l, f)
        /\ causes \cap {"fault", "unconfigured", "edited", "session"} = {}
        /\ f \in {"api", "static", "milvus"} => "cut" \notin causes
        /\ f = "milvus" => "died" \notin causes
    BY <1>7 DEF untouched
  <2>2. h.spec = spec[l] /\ spec'[l] = spec[l] /\ f \in asked(spec'[l])
    BY <1>3, <1>4, <2>1 DEF Own, Course, untouched
  <2>3. no_trace(l, f) \/ Shape(f, account[l][f], h.spec)
    BY <2>1, <2>2 DEF Own, Traces
  <2>4. CASE h.kind = "delete"
    <3>1. a.has \subseteq account[l][f]
      BY <1>14, <2>4, Shrinks
    <3>2. no_trace(l, f) => no_trace(l, f)'
      BY <1>6, <1>7, <3>1 DEF no_trace
    <3>3. CASE F = {} /\ ~silent /\ ~died /\ (session => "session" \in causes)
      <4>1. ~session
        BY <2>1, <3>3
      <4>2. Shape(f, account[l][f], h.spec) => a.has = {}
        BY <1>14, <2>4, <3>3, <4>1, GoneRemoved
      <4> QED
        BY <1>6, <2>3, <3>2, <4>2 DEF no_trace
    <3>4. CASE died /\ "cut" \in causes
      <4>1. f \in Service \ {"api", "static", "milvus"}
        BY <2>1, <3>4
      <4>2. Shape(f, account[l][f], h.spec) => Shape(f, a.has, h.spec)
        BY <1>14, <2>4, <4>1, ShapeRemoved
      <4>3. ~past(l, f, "delete")'
        BY <1>8, <3>4 DEF past, NoHandler
      <4> QED
        BY <1>6, <2>2, <2>3, <3>2, <4>2, <4>3
    <3> QED
      BY <1>4, <2>1, <2>4, <3>3, <3>4
  <2>5. CASE h.kind # "delete"
    <3>1. Shape(f, account[l][f], h.spec)
      <4>1. no_trace(l, f) => account[l][f] = {} \/ f = "redis"
        BY DEF no_trace
      <4>2. f = "redis" => Shape(f, account[l][f], h.spec)
        BY DEF Shape
      <4> QED
        BY <2>3, <4>1, <4>2, ShapeEmpty
    <3>2. f = "milvus" => F = {} /\ ~silent
      BY <1>4, <2>1, <2>5
    <3>3. Shape(f, a.has, h.spec)
      BY <1>14, <2>5, <3>1, <3>2, ShapeCreated
    <3>4. ~past(l, f, "delete")'
      BY <1>4, <1>13, <2>5 DEF past
    <3> QED
      BY <1>6, <2>2, <3>3, <3>4
  <2> QED
    BY <2>4, <2>5
<1>19. ASSUME h.kind # "delete", NEW v \in Variable, backing(l, v)
       PROVE  backing(l, v)'
  <2>1. ASSUME NEW g \in Service
        PROVE  \/ keeps(g, account[l][g], account'[l][g])
               \/ g = "static" /\ "again" \in spoilt'[l]["static"]
    <3>1. CASE g # f
      BY <1>6, <3>1 DEF keeps
    <3>2. CASE g = f /\ (f = "static" => account[l][f] = {})
      BY <1>6, <1>14, <1>19, <3>2, CreatedKeeps
    <3>3. CASE g = f /\ f = "static" /\ account[l][f] # {}
      <4>1. h.kind = "create"
        BY <1>4, <1>16, <1>19, <3>3
      <4> QED
        BY <1>7, <1>15, <3>3, <4>1
    <3> QED
      BY <3>1, <3>2, <3>3
  <2> QED
    BY <1>7, <1>19, <2>1, BackingKept
<1>20. ASSUME h.kind = "create", ~died, NEW v \in a.vars
       PROVE  backing(l, v)'
  <2>1. v \in variables_of(f, {"data", "route"})
    BY <1>14, <1>20, CreatedBacks
  <2>2. ASSUME \/ f \notin {"api", "static"} /\ noticed(f, F, silent)
               \/ f \in {"api", "static"} /\ F = {}
                  /\ (f = "static" => "S3_BUCKET_STATIC" \in h.vars)
        PROVE  backing(l, v)'
    <3>1. backs(v, account'[l][f])
      BY <1>6, <1>14, <1>20, <2>2, CreatedBacks
    <3> QED
      BY <1>4, <2>1, <3>1, BacksBacking
  <2>3. CASE f \in {"api", "static"} /\ "fault" \in causes
    <3>1. v = IF f = "api" THEN "USER_REST_API_URL" ELSE "STATIC_CONTENT_URL"
      BY <2>1, <2>3 DEF variables_of
    <3> QED
      BY <1>7, <2>3, <3>1 DEF backing
  <2>4. CASE f = "static" /\ F = {} /\ "S3_BUCKET_STATIC" \notin h.vars
    <3>1. v = "STATIC_CONTENT_URL"
      BY <2>1, <2>4 DEF variables_of
    <3>2. "route" \in h.spec /\ {"minio", "seaweedfs"} \cap Components # {}
      BY <1>4, <2>4 DEF asked, wanted
    <3>3. past(l, "minio", "create") /\ past(l, "seaweedfs", "create")
      BY <1>3, <1>4, <1>20, <2>4, EndedPast
    <3>4. \/ spoilt[l]["minio"] \cap {"fault", "again", "unconfigured"} # {}
          \/ spoilt[l]["seaweedfs"] \cap {"fault", "unconfigured"} # {}
      BY <1>3, <1>20, <2>4, <3>2, <3>3 DEF Own, Backed
    <3>5. /\ spoilt[l]["minio"] \subseteq spoilt'[l]["minio"]
          /\ spoilt[l]["seaweedfs"] \subseteq spoilt'[l]["seaweedfs"]
      BY <1>7, Services DEF Grows
    <3> QED
      BY <3>1, <3>4, <3>5 DEF backing
  <2>5. CASE f \notin {"api", "static"} /\ ~noticed(f, F, silent)
    <3>1. f \in {"seaweedfs", "mongodb", "postgres", "redis"} /\ silent
      BY <1>4, <1>20, <2>5 DEF noticed
    <3>2. "silent" \in spoilt'[l][f]
      BY <1>4, <1>7, <3>1
    <3>3. CASE f = "seaweedfs"
      <4>1. "minio" \notin Components
        BY <1>4, <3>3, ConfigurationAssumption DEF asked, wanted
      <4>2. v \in {"S3", "S3_BUCKET_DATA", "S3_BUCKET_STATIC"}
        BY <2>1, <3>3 DEF variables_of
      <4> QED
        BY <3>2, <3>3, <4>1, <4>2 DEF backing
    <3>4. CASE f \in {"mongodb", "postgres", "redis"}
      <4>1. v \in IF f = "redis" THEN {"REDIS_PREFIX", "REDIS"}
                  ELSE IF f = "mongodb" THEN {"MONGODB_URL"} ELSE {"POSTGRES"}
        BY <2>1, <3>4 DEF variables_of
      <4> QED
        BY <3>2, <3>4, <4>1 DEF backing
    <3> QED
      BY <3>1, <3>3, <3>4
  <2> QED
    BY <1>4, <1>20, <2>2, <2>3, <2>4, <2>5
<1>21. Backed(l)'
  <2>1. Backed(l)
    BY DEF Own
  <2>2. saved[l] \subseteq Variable /\ handler[l].vars \subseteq Variable
    BY Typed DEF Types
  <2>3. wsku'[l] = "live" /\ handler'[l].kind = "create" =>
          \A v \in handler'[l].vars : backing(l, v)'
    <3> SUFFICES ASSUME wsku[l] = "live", handler'[l].kind = "create",
                        NEW v \in handler'[l].vars
                 PROVE  backing(l, v)'
      BY <1>4
    <3>1. h.kind = "create" /\ ~died /\ Onward(l, a.vars)
      BY <1>8, <1>13 DEF NoHandler
    <3>2. v \in h.vars \/ v \in a.vars
      BY <1>3, <3>1 DEF Onward
    <3> QED
      BY <1>3, <1>19, <1>20, <2>1, <2>2, <3>1, <3>2 DEF Backed
  <2>4. wsku'[l] = "live" /\ metadata_safe(l)' => \A v \in saved'[l] : backing(l, v)'
    BY <1>4, <1>10, <1>12, <1>19, <2>1, <2>2 DEF Backed
  <2>5. (wsku'[l] = "absent" \/ past(l, "metadata", "delete")') /\ metadata_safe(l)'
          => saved'[l] = {}
    <3>1. past(l, "metadata", "delete")' => past(l, "metadata", "delete")
      BY <1>3, <1>4, <1>8, <1>10, ServicesOf DEF Onward, past, NoHandler
    <3> QED
      BY <1>4, <1>10, <1>12, <2>1, <3>1 DEF Backed
  <2>6. ASSUME handler'[l].kind = "create", "route" \in handler'[l].spec,
               NEW g \in {"minio", "seaweedfs"}, past(l, g, "create")', g \in Components
        PROVE  \/ "S3_BUCKET_STATIC" \in handler'[l].vars
               \/ spoilt'[l][g] \cap {"fault", "unconfigured"} # {}
               \/ g = "minio" /\ "again" \in spoilt'[l][g]
    <3>1. h.kind = "create" /\ ~died /\ Onward(l, a.vars)
      BY <1>8, <1>13, <2>6 DEF NoHandler
    <3>2. /\ handler'[l].spec = h.spec
          /\ handler'[l].vars = h.vars \cup a.vars
          /\ past(l, g, "create") \/ g = f \/ g \notin asked(h.spec)
      <4>1. handler'[l].spec = h.spec /\ handler'[l].vars = h.vars \cup a.vars
        BY <1>3, <3>1 DEF Onward
      <4>2. "create" \in {"create", "delete"} /\ g \in Service \cup {"metadata"}
        BY Services
      <4>3. past(l, g, "create") \/ g = current(h) \/ g \notin asked(h.spec)
        BY <1>3, <2>6, <3>1, <4>2 DEF Onward
      <4> QED
        BY <1>4, <4>1, <4>3
    <3>3. g \in asked(h.spec)
      <4>1. "route" \in h.spec /\ g \in Service
        BY <2>6, <3>2, Services
      <4> QED
        BY <2>6, <4>1 DEF asked, wanted, storage_enabled
    <3>4. spoilt[l][g] \subseteq spoilt'[l][g]
      BY <1>7, Services DEF Grows
    <3>5. CASE past(l, g, "create")
      BY <1>3, <2>1, <2>6, <3>1, <3>2, <3>4, <3>5 DEF Backed
    <3>6. CASE g = f /\ "fault" \in causes
      BY <1>7, <3>6
    <3>7. CASE g = f /\ g = "minio" /\ account[l][f] # {}
      BY <1>7, <1>15, <3>1, <3>7
    <3>8. CASE /\ g = f /\ F = {} /\ ~silent
               /\ f \in {"minio", "milvus"} => account[l][f] = {}
      <4>1. variables_of(f, h.spec) \subseteq a.vars
        BY <1>14, <3>1, <3>8, CreatedComplete
      <4>2. "S3_BUCKET_STATIC" \in variables_of(f, h.spec)
        BY <2>6, <3>2, <3>8 DEF variables_of
      <4> QED
        BY <3>2, <4>1, <4>2
    <3> QED
      BY <1>4, <3>1, <3>2, <3>3, <3>5, <3>6, <3>7, <3>8
  <2> QED
    BY <2>3, <2>4, <2>5, <2>6 DEF Backed
<1>22. Complete(l, f)'
  <2> SUFFICES ASSUME undisturbed(l, f)'
               PROVE  /\ past(l, f, "create")' =>
                           variables_of(f, handler'[l].spec) \subseteq handler'[l].vars
                      /\ ~past(l, "metadata", "create")'
                      /\ /\ wsku'[l] = "live" /\ handled'[l] # NoSpec
                         /\ f \in asked(spec'[l]) /\ metadata_safe(l)'
                         => variables_of(f, spec'[l]) \subseteq saved'[l]
    BY DEF Complete
  <2>1. /\ undisturbed(l, f)
        /\ "fault" \notin causes
        /\ f \in {"minio", "milvus"} => "again" \notin causes
    BY <1>7 DEF undisturbed
  <2>2. ASSUME past(l, f, "create")'
        PROVE  variables_of(f, handler'[l].spec) \subseteq handler'[l].vars
    <3>1. h.kind = "create" /\ ~died /\ Onward(l, a.vars)
      BY <1>8, <1>13, <2>2 DEF past, NoHandler
    <3>2. variables_of(f, h.spec) \subseteq a.vars
      BY <1>4, <1>14, <1>15, <2>1, <3>1, CreatedComplete
    <3> QED
      BY <1>3, <3>1, <3>2 DEF Onward
  <2>3. ~past(l, "metadata", "create")'
    <3> SUFFICES ASSUME past(l, "metadata", "create")' PROVE FALSE
      OBVIOUS
    <3>1. h.kind = "create" /\ Onward(l, a.vars)
      BY <1>8, <1>13 DEF past, NoHandler
    <3>2. past(l, "metadata", "create")
      BY <1>3, <1>4, <1>10, <3>1, ServicesOf DEF Onward
    <3> QED
      BY <1>3, <1>4, <3>1, <3>2, EndedPast
  <2>4. /\ wsku'[l] = "live" /\ handled'[l] # NoSpec
        /\ f \in asked(spec'[l]) /\ metadata_safe(l)'
        => variables_of(f, spec'[l]) \subseteq saved'[l]
    BY <1>4, <1>10, <2>1 DEF Own, Complete
  <2> QED
    BY <2>2, <2>3, <2>4
<1>23. ASSUME f \in Kinds PROVE Marks(l, f)'
  <2> SUFFICES ASSUME readable(l, f)'
               PROVE  /\ wsku'[l] = "live" /\ made(l, f)' /\ has_account(l, f)' =>
                           IF Annotating(l, f)'
                             THEN job'.act = "block" <=> "write" \notin account'[l][f]
                             ELSE mark'[l][f] = "true" <=> "write" \notin account'[l][f]
                      /\ wsku'[l] # "deleting" /\ account'[l][f] = {} =>
                           mark'[l][f] = "false" /\ ~Annotating(l, f)'
    BY DEF Marks
  <2>1. /\ readable(l, f)
        /\ causes \cap {"fault", "again", "overlap"} = {}
    BY <1>7 DEF readable, misread
  <2>2. Annotating(l, f)' <=> Annotating(l, f)
    BY <1>9, <1>23 DEF SameAnnotating
  <2>3. Marks(l, f)
    BY <1>23 DEF Own
  <2>4. ASSUME wsku[l] # "deleting", account'[l][f] = {}
        PROVE  mark'[l][f] = "false" /\ ~Annotating(l, f)'
    <3>1. h.kind # "delete"
      BY <1>12, <2>4
    <3>2. account[l][f] = {}
      <4>1. created(f, account[l][f], h, F, silent).has = {}
        BY <1>6, <1>14, <2>4, <3>1
      <4> QED
        BY <1>23, <4>1, CreatedRights
    <3> QED
      BY <1>4, <2>1, <2>2, <2>3, <2>4, <3>2 DEF Marks
  <2>5. ASSUME wsku[l] = "live", made(l, f)', has_account(l, f)'
        PROVE  IF Annotating(l, f)'
                 THEN job'.act = "block" <=> "write" \notin account'[l][f]
                 ELSE mark'[l][f] = "true" <=> "write" \notin account'[l][f]
    <3>1. h.kind \in {"create", "resume"}
      BY <1>4, <1>12, <2>5
    <3>2. CASE h.kind = "create"
      <4>1. account[l][f] = {} /\ h.mark = "false" /\ handled[l] = NoSpec
        BY <1>3, <1>15, <2>1, <3>2 DEF Own, Course
      <4>2. mark[l][f] = "false" /\ ~Annotating(l, f)
        BY <2>1, <2>3, <2>5, <4>1 DEF Marks
      <4>3. ~died
        BY <1>4, <1>8, <2>5, <4>1 DEF made, past, NoHandler
      <4>4. F = {}
        BY <1>4, <2>1, <4>3
      <4>5. "write" \in a.has
        BY <1>14, <1>23, <3>1, <4>1, <4>4, CreatedRights
      <4> QED
        BY <1>4, <1>6, <2>2, <4>2, <4>5
    <3>3. CASE h.kind = "resume"
      <4>1. f = "redis" /\ handled[l] # NoSpec
        BY <1>3, <1>16, <3>3 DEF Own, Course
      <4>2. h.mark = mark[l][f] /\ ~Annotating(l, f)
        BY <1>3, <1>4, <2>1, <3>3, <4>1 DEF overlaps
      <4>3. a.has = account[l][f] \/ ("write" \notin a.has <=> h.mark = "true")
        <5>1. ~silent
          BY <1>4, <2>1
        <5>2. F \cap redis_script = {}
          BY <1>4, <3>3, <4>1, <5>1
        <5> QED
          BY <1>14, <3>1, <4>1, <5>2, CreatedRights
      <4>4. CASE a.has = account[l][f]
        <5>1. made(l, f) /\ has_account(l, f)
          BY <1>6, <2>5, <4>1, <4>4 DEF made, has_account
        <5> QED
          BY <1>4, <1>6, <2>1, <2>2, <2>3, <2>5, <4>2, <4>4, <5>1 DEF Marks
      <4>5. CASE "write" \notin a.has <=> h.mark = "true"
        BY <1>4, <1>6, <2>2, <4>2, <4>5
      <4> QED
        BY <4>3, <4>4, <4>5
    <3> QED
      BY <3>1, <3>2, <3>3
  <2> QED
    BY <1>4, <2>4, <2>5
<1>24. \A g \in Service : Traces(l, g)' /\ Complete(l, g)'
  BY <1>17, <1>18, <1>22
<1>25. \A k \in Kinds : Marks(l, k)'
  BY <1>17, <1>23, Services
<1> QED
  BY <1>11, <1>21, <1>24, <1>25 DEF Own

\* What is saved is what the handler has recorded, or nothing when it deletes.
LEMMA SaveKeeps ==
  ASSUME Types, NEW l \in Login, Own(l), SaveMetadata(l)
  PROVE  Own(l)'
<1>1. PICK h : h = handler[l]
  OBVIOUS
<1>2. /\ Handling(l) /\ ~Ended(h) /\ current(h) = "metadata"
      /\ GoesOn(l, {}, FALSE)
      /\ UNCHANGED <<wsku, spec, handled, mark, account, job>>
      /\ \/ /\ spoilt' = spoilt
            /\ saved' = [saved EXCEPT ![l] = IF h.kind = "delete" THEN {} ELSE h.vars]
         \/ /\ spoilt' = [spoilt EXCEPT ![l]["metadata"] = @ \cup {"fault"}]
            /\ saved' = saved
  BY <1>1 DEF SaveMetadata, Spoils
<1>3. h.kind \in {"create", "delete"}
  <2>1. h.kind \in {"idle", "create", "update", "resume", "delete"} /\ h.at \in 1 .. 10
    BY <1>1, Typed
  <2>2. h.kind # "idle"
    BY <1>1, <1>2 DEF Handling
  <2>3. h.kind # "resume"
    BY <1>1, <1>2, ResumesRedis
  <2>4. h.kind # "update"
    BY <1>2, <2>1, ServicesOf DEF Ended
  <2> QED
    BY <2>1, <2>2, <2>3, <2>4
<1>4. Onward(l, {})
  <2>1. PICK vs \in {{}}, raised \in BOOLEAN : raised = FALSE
    OBVIOUS
  <2>2. Onward(l, vs)
    BY <1>1, <1>2, <2>1, GoesOnward DEF Own
  <2> QED
    BY <2>2
<1>5. /\ \A g \in Service : spoilt'[l][g] = spoilt[l][g]
      /\ Grows(l)
      /\ metadata_safe(l)' =>
           saved'[l] = IF h.kind = "delete" THEN {} ELSE h.vars
  <2>1. CASE /\ spoilt' = spoilt
             /\ saved' = [saved EXCEPT ![l] = IF h.kind = "delete" THEN {} ELSE h.vars]
    BY <2>1 DEF Grows, Types
  <2>2. CASE spoilt' = [spoilt EXCEPT ![l]["metadata"] = @ \cup {"fault"}]
    <3>1. {"fault"} \in SUBSET Cause /\ "metadata" \in Service \cup {"metadata"}
      BY DEF Cause
    <3>2. /\ spoilt'[l]["metadata"] = spoilt[l]["metadata"] \cup {"fault"}
          /\ \A g \in Service \cup {"metadata"} :
               g # "metadata" => spoilt'[l][g] = spoilt[l][g]
      BY <2>2, <3>1, SpoiltTypes
    <3> QED
      BY <3>2, ServicesOf DEF Grows, metadata_safe
  <2> QED
    BY <1>2, <2>1, <2>2
<1>6. SameResource(l) /\ SameAnnotating(l)
  BY <1>2, JobSame DEF SameResource
<1>7. Course(l)'
  BY <1>2, <1>4, <1>5, <1>6, CourseOnward DEF Own
<1>8. ASSUME NEW g \in Service PROVE Traces(l, g)' /\ (g \in Kinds => Marks(l, g)')
  <2>1. g # current(handler[l]) /\ account'[l][g] = account[l][g]
    BY <1>1, <1>2, ServicesOf
  <2> QED
    BY <1>2, <1>4, <1>5, <1>6, <2>1, PassingBy
<1>9. /\ wsku[l] # "absent"
      /\ h.kind = "delete" => wsku[l] = "deleting"
      /\ h.kind = "create" => handled[l] = NoSpec
  BY <1>1, <1>2 DEF Own, Course
<1>10. /\ handler'[l].kind = h.kind /\ handler'[l].spec = h.spec
       /\ handler'[l].vars = h.vars
  BY <1>1, <1>4 DEF Onward
<1>11. ASSUME NEW g \in Service, NEW kind \in {"create", "delete"}, past(l, g, kind)'
       PROVE  past(l, g, kind)
  <2>1. handler'[l].kind = kind
    BY <1>11 DEF past
  <2> QED
    BY <1>1, <1>2, <1>10, <2>1, EndedPast
<1>12. ASSUME NEW g \in Service PROVE Complete(l, g)'
  <2>1. (undisturbed(l, g)' <=> undisturbed(l, g)) /\ Complete(l, g)
    BY <1>5 DEF undisturbed, Own
  <2>2. past(l, g, "create")' => past(l, g, "create")
    BY <1>11
  <2>3. past(l, "metadata", "create")' => h.kind = "create" /\ past(l, g, "create")
    BY <1>1, <1>2, <1>10, EndedPast DEF past
  <2> QED
    BY <1>1, <1>2, <1>3, <1>5, <1>9, <1>10, <2>1, <2>2, <2>3 DEF Complete
<1>13. Backed(l)'
  <2>1. Backed(l)
    BY DEF Own
  <2>2. \A v \in Variable : backing(l, v) => backing(l, v)'
    BY <1>2, <1>5, BackingSame
  <2>3. h.vars \subseteq Variable
    BY <1>1, Typed
  <2>4. past(l, "metadata", "delete")' => h.kind = "delete"
    BY <1>10 DEF past
  <2>5. /\ past(l, "minio", "create")' => past(l, "minio", "create")
        /\ past(l, "seaweedfs", "create")' => past(l, "seaweedfs", "create")
        /\ spoilt'[l]["minio"] = spoilt[l]["minio"]
        /\ spoilt'[l]["seaweedfs"] = spoilt[l]["seaweedfs"]
    BY <1>5, <1>11, Services
  <2> QED
    BY <1>1, <1>2, <1>3, <1>5, <1>9, <1>10, <2>1, <2>2, <2>3, <2>4, <2>5 DEF Backed
<1>14. \A k \in Kinds : Marks(l, k)'
  BY <1>8, Services
<1> QED
  BY <1>7, <1>8, <1>12, <1>13, <1>14 DEF Own

\* A handler returns only past all its services.
LEMMA DoneKeeps ==
  ASSUME Types, NEW l \in Login, Own(l), HandlerDone(l)
  PROVE  Own(l)'
<1>1. PICK h : h = handler[l]
  OBVIOUS
<1>2. /\ Handling(l) /\ Ended(h) /\ h.kind # "idle"
      /\ handler' = [handler EXCEPT ![l] = NoHandler]
      /\ UNCHANGED <<account, saved, job>>
  BY <1>1 DEF HandlerDone, Handling
<1>3. handler'[l] = NoHandler /\ NoHandler.kind = "idle"
  BY <1>2 DEF Types, NoHandler
<1>4. \A f, kind : kind # "idle" => ~past(l, f, kind)'
  BY <1>3 DEF past
<1>5. ~Handling(l)'
  BY <1>3 DEF Handling
<1>6. CASE h.kind = "delete"
  <2>1. /\ wsku'[l] = "absent" /\ handled'[l] = NoSpec
        /\ \A k \in Kinds : mark'[l][k] = "false"
    BY <1>1, <1>6 DEF HandlerDone, Types
  <2>2. \A f \in Service \cup {"metadata"} :
          spoilt'[l][f] =
            (IF IF f = "metadata" THEN saved[l] = {} ELSE account[l][f] = {}
               THEN {} ELSE spoilt[l][f])
            \cup (IF Annotating(l, f) THEN {"overlap"} ELSE {})
    <3>1. PICK D : D = Service \cup {"metadata"}
      OBVIOUS
    <3>2. spoilt \in [Login -> [D -> SUBSET Cause]]
      BY <3>1 DEF Types
    <3>3. PICK e : e = [f \in D |->
                         (IF IF f = "metadata" THEN saved[l] = {}
                             ELSE account[l][f] = {} THEN {} ELSE spoilt[l][f])
                         \cup (IF Annotating(l, f) THEN {"overlap"} ELSE {})]
      OBVIOUS
    <3>4. spoilt' = [spoilt EXCEPT ![l] = e]
      BY <1>1, <1>6, <3>2, <3>3 DEF HandlerDone
    <3>5. spoilt'[l] = e
      BY <3>2, <3>4
    <3>6. \A f \in D : e[f] = (IF IF f = "metadata" THEN saved[l] = {}
                                  ELSE account[l][f] = {} THEN {} ELSE spoilt[l][f])
                              \cup (IF Annotating(l, f) THEN {"overlap"} ELSE {})
      BY <3>3
    <3> QED
      BY <3>1, <3>5, <3>6
  <2>3. \A f \in Service \cup {"metadata"} : past(l, f, "delete")
    BY <1>1, <1>2, <1>6, EndedPast
  <2>4. Course(l)'
    BY <1>3, <1>5, <2>1 DEF Course
  <2>5. ASSUME NEW f \in Service PROVE Traces(l, f)'
    <3>1. CASE account[l][f] = {}
      BY <1>2, <3>1 DEF Traces, no_trace
    <3>2. CASE account[l][f] # {}
      <4>1. spoilt[l][f] \subseteq spoilt'[l][f]
        BY <2>2, <3>2, ServicesOf
      <4>2. untouched(l, f)' => untouched(l, f)
        BY <4>1 DEF untouched
      <4>3. untouched(l, f) => no_trace(l, f)
        BY <2>3 DEF Own, Traces
      <4>4. no_trace(l, f) => no_trace(l, f)'
        BY <1>2, <4>1 DEF no_trace
      <4> QED
        BY <4>2, <4>3, <4>4 DEF Traces
    <3> QED
      BY <3>1, <3>2
  <2>6. Backed(l)'
    <3>1. saved[l] # {} => spoilt[l]["metadata"] \subseteq spoilt'[l]["metadata"]
      BY <2>2
    <3>2. metadata_safe(l) => saved[l] = {}
      BY <2>3 DEF Own, Backed
    <3> QED
      BY <1>2, <1>3, <2>1, <3>1, <3>2 DEF Backed, metadata_safe
  <2>7. ASSUME NEW f \in Service PROVE Complete(l, f)'
    BY <1>4, <2>1 DEF Complete
  <2>8. ASSUME NEW k \in Kinds PROVE Marks(l, k)'
    <3>1. k \in Service
      BY Services
    <3>2. Annotating(l, k)' => "overlap" \in spoilt'[l][k]
      BY <1>2, <2>2, <3>1 DEF Annotating, checking
    <3> QED
      BY <2>1, <3>2 DEF Marks, readable, misread
  <2> QED
    BY <2>4, <2>5, <2>6, <2>7, <2>8 DEF Own
<1>7. CASE h.kind # "delete"
  <2>1. /\ UNCHANGED <<wsku, spec, mark, spoilt>>
        /\ handled'[l] = IF h.kind = "resume" THEN handled[l] ELSE h.spec
    BY <1>1, <1>7 DEF HandlerDone, Types
  <2>2. /\ wsku[l] # "absent" /\ h.spec \in Specs
        /\ h.kind \in {"create", "update", "resume"}
        /\ h.kind \in {"update", "resume"} => handled[l] # NoSpec
        /\ h.spec # spec[l] => \A f \in Service : "edited" \in spoilt[l][f]
    BY <1>1, <1>2, <1>7, Typed DEF Own, Course
  <2>3. handled'[l] # NoSpec
    BY <2>1, <2>2, ConfigurationAssumption
  <2>4. h.kind = "create" => \A f \in Service \cup {"metadata"} : past(l, f, "create")
    BY <1>1, <1>2, EndedPast
  <2>5. Course(l)'
    BY <1>3, <1>5, <2>1, <2>2 DEF Own, Course
  <2>6. ASSUME NEW f \in Service PROVE Traces(l, f)'
    BY <1>2, <1>4, <2>1 DEF Own, Traces, untouched, no_trace
  <2>7. Backed(l)'
    <3>1. \A v : backing(l, v)' <=> backing(l, v)
      BY <1>2, <2>1 DEF backing
    <3>2. metadata_safe(l)' <=> metadata_safe(l)
      BY <2>1 DEF metadata_safe
    <3> QED
      BY <1>2, <1>3, <1>4, <2>1, <2>2, <3>1, <3>2 DEF Own, Backed
  <2>8. ASSUME NEW f \in Service PROVE Complete(l, f)'
    <3>1. /\ metadata_safe(l)' <=> metadata_safe(l)
          /\ undisturbed(l, f)' <=> undisturbed(l, f)
      BY <2>1 DEF metadata_safe, undisturbed
    <3>2. Complete(l, f)
      BY DEF Own
    <3>3. handled[l] # NoSpec \/ h.kind = "create"
      BY <2>2
    <3>4. undisturbed(l, f) => h.spec = spec[l]
      BY <2>2 DEF undisturbed
    <3>5. h.kind = "create" => past(l, "metadata", "create")
      BY <2>4
    <3> QED
      BY <1>1, <1>2, <1>4, <2>1, <3>1, <3>2, <3>3, <3>4, <3>5 DEF Complete
  <2>9. ASSUME NEW k \in Kinds PROVE Marks(l, k)'
    <3>1. Marks(l, k)
      BY DEF Own
    <3>2. made(l, k)
      BY <2>2, <2>4, Services DEF made
    <3>3. /\ readable(l, k)' <=> readable(l, k)
          /\ has_account(l, k)' <=> has_account(l, k)
          /\ Annotating(l, k)' <=> Annotating(l, k)
      BY <1>2, <2>1 DEF readable, misread, has_account, Annotating, checking
    <3> QED
      BY <1>2, <2>1, <3>1, <3>2, <3>3 DEF Marks
  <2> QED
    BY <2>5, <2>6, <2>7, <2>8, <2>9 DEF Own
<1> QED
  BY <1>6, <1>7

----------------------------------------------------------------------------
(* The steps of the quota checker about a user.                            *)

\* It changes rights and says so, and touches nothing else.
SameCourse(l) ==
  /\ handler'[l] = handler[l] /\ saved'[l] = saved[l]
  /\ wsku'[l] = wsku[l] /\ spec'[l] = spec[l] /\ handled'[l] = handled[l]
  /\ spoilt'[l]["metadata"] = spoilt[l]["metadata"]
  /\ Grows(l)
  /\ \A g \in Service : keeps(g, account[l][g], account'[l][g])

\* So they keep what the invariant says of resource, handler and variables.
LEMMA SameCourseKeeps ==
  ASSUME Types, NEW l \in Login, Own(l), SameCourse(l),
         wsku[l] = "absent" => mark'[l] = mark[l]
  PROVE  Course(l)' /\ Backed(l)' /\ \A f \in Service : Complete(l, f)'
<1>1. /\ handler'[l] = handler[l] /\ saved'[l] = saved[l]
      /\ wsku'[l] = wsku[l] /\ spec'[l] = spec[l] /\ handled'[l] = handled[l]
      /\ Grows(l)
      /\ metadata_safe(l)' <=> metadata_safe(l)
  BY DEF SameCourse, metadata_safe
<1>2. \A f, kind : past(l, f, kind)' <=> past(l, f, kind)
  BY <1>1 DEF past
<1>3. Course(l)'
  <2>1. (\A f \in Service : "edited" \in spoilt[l][f]) =>
          \A f \in Service : "edited" \in spoilt'[l][f]
    BY <1>1 DEF Grows
  <2> QED
    BY <1>1, <2>1 DEF Own, Course, Handling, Ended, current
<1>4. Backed(l)'
  <2>1. Backed(l)
    BY DEF Own
  <2>2. \A v \in Variable : backing(l, v) => backing(l, v)'
    BY BackingKept DEF SameCourse
  <2>3. saved[l] \subseteq Variable /\ handler[l].vars \subseteq Variable
    BY Typed DEF Types
  <2>4. /\ spoilt[l]["minio"] \subseteq spoilt'[l]["minio"]
        /\ spoilt[l]["seaweedfs"] \subseteq spoilt'[l]["seaweedfs"]
    BY <1>1, Services DEF Grows
  <2> QED
    BY <1>1, <1>2, <2>1, <2>2, <2>3, <2>4 DEF Backed
<1>5. ASSUME NEW f \in Service PROVE Complete(l, f)'
  <2>1. spoilt[l][f] \subseteq spoilt'[l][f]
    BY <1>1 DEF Grows
  <2>2. undisturbed(l, f)' => undisturbed(l, f)
    BY <2>1 DEF undisturbed
  <2>3. Complete(l, f)
    BY DEF Own
  <2> QED
    BY <1>1, <1>2, <2>2, <2>3 DEF Complete
<1> QED
  BY <1>3, <1>4, <1>5

\* A service the checker is not at.
LEMMA OtherKind ==
  ASSUME Types, NEW l \in Login, Own(l), SameCourse(l), NEW g \in Service,
         account'[l][g] = account[l][g], spoilt'[l][g] = spoilt[l][g]
  PROVE  /\ Traces(l, g)'
         /\ /\ g \in Kinds /\ mark'[l][g] = mark[l][g]
            /\ ~Annotating(l, g) /\ ~Annotating(l, g)'
            => Marks(l, g)'
<1>1. /\ handler'[l] = handler[l]
      /\ wsku'[l] = wsku[l] /\ spec'[l] = spec[l] /\ handled'[l] = handled[l]
  BY DEF SameCourse
<1>2. \A f, kind : past(l, f, kind)' <=> past(l, f, kind)
  BY <1>1 DEF past
<1>3. Traces(l, g)'
  BY <1>1, <1>2 DEF Own, Traces, untouched, no_trace
<1>4. ASSUME g \in Kinds, mark'[l][g] = mark[l][g], ~Annotating(l, g), ~Annotating(l, g)'
      PROVE  Marks(l, g)'
  <2>1. Marks(l, g)
    BY <1>4 DEF Own
  <2>2. /\ readable(l, g)' <=> readable(l, g)
        /\ has_account(l, g)' <=> has_account(l, g)
        /\ made(l, g)' <=> made(l, g)
    BY <1>1, <1>2 DEF readable, misread, has_account, made
  <2> QED
    BY <1>1, <1>4, <2>1, <2>2 DEF Marks
<1> QED
  BY <1>3, <1>4

\* The rights change before the annotation says so.
LEMMA CheckKeeps ==
  ASSUME Types, Login # {}, NEW l \in Login, Own(l), check_quota(l)
  PROVE  Own(l)'
<1> DEFINE exceeds == IF checking = "redis" THEN checking \in over[l]
                      ELSE <<l, checking>> \in job.sizes
           action == quota_action(exceeds, job.seen[l])
<1>1. PICK k, act, a, causes :
        /\ k = checking /\ act = action
        /\ a = limit_user(k, account[l][k], act)
        /\ causes = (IF account[l][k] = {} THEN {"late"} ELSE {})
                    \cup (IF job.seen[l] # mark[l][k] THEN {"overlap"} ELSE {})
  OBVIOUS
<1>2. /\ k \in Kinds /\ job.at = "check"
      /\ UNCHANGED <<wsku, spec, handled, mark, handler, saved>>
      /\ IF act = "none"
           THEN NoEvent /\ job' = Checked(l) /\ UNCHANGED <<account, spoilt>>
           ELSE \/ /\ NoEvent
                   /\ account' = [account EXCEPT ![l][k] = a.has]
                   /\ job' = IF a.ok THEN [job EXCEPT !.at = "annotate",
                                                     !.login = l, !.act = act]
                             ELSE Checked(l)
                   /\ Spoils(l, k, causes)
                \/ Event /\ job' = Checked(l) /\ UNCHANGED <<account, spoilt>>
  <2>1. k \in Kinds
    BY <1>1, Typed
  <2> QED
    BY <1>1, <2>1 DEF check_quota, jobless
<1>3. /\ act \in {"none", "block", "reset"}
      /\ act = "block" => job.seen[l] = "false"
      /\ act = "reset" => job.seen[l] = "true"
      /\ account[l][k] = {} => "late" \in causes
      /\ job.seen[l] # mark[l][k] => "overlap" \in causes
      /\ causes \in SUBSET Cause
  BY <1>1 DEF quota_action, Cause
<1> HIDE DEF exceeds, action
<1>4. CASE job' = Checked(l) /\ UNCHANGED <<account, spoilt>>
  <2>1. SameAnnotating(l)
    BY <1>2, <1>4, JobTypes, NotAnnotating
  <2>2. Same(l)
    BY <1>2, <1>4, <2>1 DEF Same, SameAccount
  <2> QED
    BY <2>2, SameKeeps
<1>5. CASE /\ act # "none"
           /\ account' = [account EXCEPT ![l][k] = a.has]
           /\ job' = IF a.ok THEN [job EXCEPT !.at = "annotate",
                                             !.login = l, !.act = act]
                     ELSE Checked(l)
           /\ Spoils(l, k, causes)
  <2>1. k \in Service /\ k \in Kinds
    BY <1>2, Services
  <2>2. PICK has, new : has = account[l][k] /\ new = a.has
    OBVIOUS
  <2>3. /\ account'[l][k] = new
        /\ \A g \in Service : g # k => account'[l][g] = account[l][g]
    BY <1>5, <2>1, <2>2 DEF Types
  <2>4. /\ spoilt'[l][k] = spoilt[l][k] \cup causes
        /\ \A g \in Service \cup {"metadata"} : g # k => spoilt'[l][g] = spoilt[l][g]
    <3>1. spoilt' = [spoilt EXCEPT ![l][k] = @ \cup causes]
      BY <1>5 DEF Spoils
    <3> QED
      BY <1>3, <2>1, <3>1, SpoiltTypes
  <2>5. /\ keeps(k, has, new)
        /\ IF a.ok THEN act = "block" <=> "write" \notin new
           ELSE k # "redis" /\ new = has
        /\ has = {} /\ k # "redis" => new = {} /\ ~a.ok
        /\ has # {} => new # {}
        /\ k = "redis" /\ "on" \notin has => "on" \notin new
    <3>1. act \in {"block", "reset"}
      BY <1>3, <1>5
    <3> QED
      BY <1>1, <2>1, <2>2, <3>1, Limits
  <2>6. SameCourse(l)
    <3>1. spoilt'[l]["metadata"] = spoilt[l]["metadata"]
      BY <2>1, <2>4, ServicesOf
    <3>2. Grows(l)
      BY <2>4 DEF Grows
    <3>3. ASSUME NEW g \in Service PROVE keeps(g, account[l][g], account'[l][g])
      <4>1. CASE g = k
        BY <2>2, <2>3, <2>5, <4>1
      <4>2. CASE g # k
        BY <2>3, <4>2 DEF keeps
      <4> QED
        BY <4>1, <4>2
    <3> QED
      BY <1>2, <3>1, <3>2, <3>3 DEF SameCourse
  <2>7. Course(l)' /\ Backed(l)' /\ \A f \in Service : Complete(l, f)'
    BY <1>2, <2>6, SameCourseKeeps
  <2>8. /\ \A g : ~Annotating(l, g)
        /\ Annotating(l, k)' <=> a.ok
        /\ a.ok => job'.act = act
        /\ \A g : g # k => ~Annotating(l, g)'
    <3>1. \A g : ~Annotating(l, g)
      BY <1>2 DEF Annotating
    <3>2. CASE a.ok
      <4>1. job' = [job EXCEPT !.at = "annotate", !.login = l, !.act = act]
        BY <1>5, <3>2
      <4>2. job'.at = "annotate" /\ job'.login = l /\ job'.act = act /\ job'.no = job.no
        BY <4>1 DEF Types, JobType
      <4>3. checking' = k
        BY <1>1, <4>2 DEF checking
      <4> QED
        BY <3>1, <3>2, <4>2, <4>3 DEF Annotating
    <3>3. CASE ~a.ok
      <4>1. job'.at # "annotate"
        BY <1>5, <3>3, JobTypes
      <4> QED
        BY <3>1, <3>3, <4>1 DEF Annotating
    <3> QED
      BY <3>2, <3>3
  <2>9. ASSUME NEW g \in Service, g # k
        PROVE  Traces(l, g)' /\ (g \in Kinds => Marks(l, g)')
    <3>1. account'[l][g] = account[l][g] /\ spoilt'[l][g] = spoilt[l][g]
      BY <2>3, <2>4, <2>9
    <3> QED
      BY <1>2, <2>6, <2>8, <2>9, <3>1, OtherKind
  <2>10. Traces(l, k)'
    <3>1. \A kind : past(l, k, kind)' <=> past(l, k, kind)
      BY <1>2 DEF past
    <3>2. untouched(l, k)' => untouched(l, k)
      BY <2>4 DEF untouched
    <3>3. no_trace(l, k) => no_trace(l, k)'
      BY <1>3, <2>2, <2>3, <2>4, <2>5 DEF no_trace
    <3>4. Shape(k, account'[l][k], spec[l])
      BY <2>1 DEF Shape, Kinds
    <3>5. Traces(l, k)
      BY <2>1 DEF Own
    <3> QED
      BY <1>2, <3>1, <3>2, <3>3, <3>4, <3>5 DEF Traces
  <2>11. Marks(l, k)'
    <3> SUFFICES ASSUME readable(l, k)' PROVE
                 /\ wsku'[l] = "live" /\ made(l, k)' /\ has_account(l, k)' =>
                      IF Annotating(l, k)'
                        THEN job'.act = "block" <=> "write" \notin account'[l][k]
                        ELSE mark'[l][k] = "true" <=> "write" \notin account'[l][k]
                 /\ wsku'[l] # "deleting" /\ account'[l][k] = {} =>
                      mark'[l][k] = "false" /\ ~Annotating(l, k)'
      BY DEF Marks
    <3>1. readable(l, k) /\ has # {}
      BY <1>3, <2>2, <2>4 DEF readable, misread
    <3>2. new # {}
      BY <2>5, <3>1
    <3>3. CASE a.ok
      BY <1>2, <1>3, <1>5, <2>3, <2>5, <2>8, <3>2, <3>3
    <3>4. CASE ~a.ok
      <4>1. new = has /\ Marks(l, k)
        BY <2>1, <2>5, <3>4 DEF Own
      <4>2. /\ has_account(l, k)' <=> has_account(l, k)
            /\ made(l, k)' <=> made(l, k)
        BY <1>2, <2>2, <2>3, <4>1 DEF has_account, made, past
      <4> QED
        BY <1>2, <2>2, <2>3, <2>8, <3>1, <3>2, <3>4, <4>1, <4>2 DEF Marks
    <3> QED
      BY <3>3, <3>4
  <2>12. \A g \in Service : Traces(l, g)'
    BY <2>9, <2>10
  <2>13. \A g \in Kinds : Marks(l, g)'
    BY <2>9, <2>11, Services
  <2> QED
    BY <2>7, <2>12, <2>13 DEF Own
<1> QED
  BY <1>2, <1>4, <1>5

\* Then it does.
LEMMA AnnotateKeeps ==
  ASSUME Types, Login # {}, NEW l \in Login, Own(l), annotate, job.login = l
  PROVE  Own(l)'
<1>1. PICK k \in Kinds : k = checking
  BY Typed
<1>2. /\ job.at = "annotate" /\ job'.at # "annotate"
      /\ UNCHANGED <<wsku, spec, handled, handler, saved, account, spoilt>>
      /\ wsku[l] = "absent" => mark' = mark
      /\ wsku[l] # "absent" => mark' = [mark EXCEPT ![l][k] = annotation_of(job.act)]
  BY <1>1, JobTypes DEF annotate, jobless
<1>3. \A g \in Service : keeps(g, account[l][g], account'[l][g])
  BY <1>2 DEF keeps
<1>4. SameCourse(l)
  BY <1>2, <1>3 DEF SameCourse, Grows
<1>5. Course(l)' /\ Backed(l)' /\ \A f \in Service : Complete(l, f)'
  BY <1>2, <1>4, SameCourseKeeps
<1>6. /\ Annotating(l, k)
      /\ \A g : g # k => ~Annotating(l, g)
      /\ \A g : ~Annotating(l, g)'
  BY <1>1, <1>2 DEF Annotating
<1>7. ASSUME NEW g \in Service
      PROVE  Traces(l, g)' /\ (g \in Kinds /\ g # k => Marks(l, g)')
  <2>1. account'[l][g] = account[l][g] /\ spoilt'[l][g] = spoilt[l][g]
    BY <1>2
  <2>2. g \in Kinds /\ g # k => mark'[l][g] = mark[l][g]
    BY <1>2 DEF Types
  <2> QED
    BY <1>4, <1>6, <2>1, <2>2, OtherKind
<1>8. Marks(l, k)'
  <2>1. Marks(l, k)
    BY DEF Own
  <2>2. /\ readable(l, k)' <=> readable(l, k)
        /\ has_account(l, k)' <=> has_account(l, k)
        /\ made(l, k)' <=> made(l, k)
    BY <1>2 DEF readable, misread, has_account, made, past
  <2>3. CASE wsku[l] = "absent"
    BY <1>2, <1>6, <2>3 DEF Marks, Own, Course
  <2>4. CASE wsku[l] # "absent"
    <3>1. mark'[l][k] = annotation_of(job.act)
      BY <1>2, <2>4 DEF Types
    <3>2. mark'[l][k] = "true" <=> job.act = "block"
      BY <3>1 DEF annotation_of
    <3> QED
      BY <1>2, <1>6, <2>1, <2>2, <3>2 DEF Marks
  <2> QED
    BY <2>3, <2>4
<1>9. \A g \in Kinds : Marks(l, g)'
  BY <1>7, <1>8, Services
<1> QED
  BY <1>5, <1>7, <1>9 DEF Own

\* Or the job dies between the two, which the history is told.
LEMMA JobDiesKeeps ==
  ASSUME Types, Login # {}, NEW l \in Login, Own(l), JobDies, job.at = "annotate",
         job.login = l
  PROVE  Own(l)'
<1>1. PICK k \in Kinds, causes \in SUBSET Cause :
        /\ k = checking
        /\ causes = {IF job.act = "block" THEN "block lost" ELSE "reset lost"}
  BY Typed DEF Cause
<1>2. /\ job'.at # "annotate"
      /\ UNCHANGED <<wsku, spec, handled, handler, saved, account, mark>>
      /\ spoilt' = [spoilt EXCEPT ![l][k] = @ \cup causes]
  BY <1>1, JobTypes DEF JobDies, jobless, Spoils
<1>3. k \in Service
  BY Services
<1>4. /\ spoilt'[l][k] = spoilt[l][k] \cup causes
      /\ \A g \in Service \cup {"metadata"} : g # k => spoilt'[l][g] = spoilt[l][g]
  <2>1. spoilt' = [spoilt EXCEPT ![l][k] = @ \cup causes]
    BY <1>2
  <2>2. k \in Service \cup {"metadata"} /\ causes \in SUBSET Cause
    BY <1>3
  <2>3. \A m \in Login, g \in Service \cup {"metadata"} :
          m # l \/ g # k => spoilt'[m][g] = spoilt[m][g]
    BY <2>1, <2>2, SpoiltTypes
  <2>4. spoilt'[l][k] = spoilt[l][k] \cup causes
    BY <2>1, <2>2 DEF Types
  <2> QED
    BY <2>3, <2>4
<1>5. SameCourse(l)
  <2>1. spoilt'[l]["metadata"] = spoilt[l]["metadata"]
    BY <1>3, <1>4, ServicesOf
  <2>2. Grows(l)
    BY <1>4 DEF Grows
  <2>3. \A g \in Service : keeps(g, account[l][g], account'[l][g])
    BY <1>2 DEF keeps
  <2> QED
    BY <1>2, <2>1, <2>2, <2>3 DEF SameCourse
<1>6. Course(l)' /\ Backed(l)' /\ \A f \in Service : Complete(l, f)'
  BY <1>2, <1>5, SameCourseKeeps
<1>7. /\ \A g : g # k => ~Annotating(l, g)
      /\ \A g : ~Annotating(l, g)'
  BY <1>1, <1>2 DEF Annotating
<1>8. ASSUME NEW g \in Service, g # k
      PROVE  Traces(l, g)' /\ (g \in Kinds => Marks(l, g)')
  <2>1. account'[l][g] = account[l][g] /\ spoilt'[l][g] = spoilt[l][g] /\ mark' = mark
    BY <1>2, <1>4, <1>8
  <2> QED
    BY <1>5, <1>7, <1>8, <2>1, OtherKind
<1>9. Traces(l, k)'
  <2>1. \A kind : past(l, k, kind)' <=> past(l, k, kind)
    BY <1>2 DEF past
  <2>2. untouched(l, k)' => untouched(l, k)
    BY <1>4 DEF untouched
  <2>3. no_trace(l, k) => no_trace(l, k)'
    BY <1>2, <1>4 DEF no_trace
  <2>4. Traces(l, k)
    BY <1>3 DEF Own
  <2> QED
    BY <1>2, <2>1, <2>2, <2>3, <2>4 DEF Traces
<1>10. Marks(l, k)'
  <2>1. "block lost" \in spoilt'[l][k] \/ "reset lost" \in spoilt'[l][k]
    BY <1>1, <1>4
  <2> QED
    BY <2>1 DEF Marks, readable, misread
<1>11. \A g \in Service : Traces(l, g)'
  BY <1>8, <1>9
<1>12. \A g \in Kinds : Marks(l, g)'
  BY <1>8, <1>10, Services
<1> QED
  BY <1>6, <1>11, <1>12 DEF Own

----------------------------------------------------------------------------
(* The invariant holds.                                                    *)

\* Nobody is there at first.
LEMMA Begins == Login # {} /\ Init => IInv
<1> SUFFICES ASSUME Login # {}, Init PROVE IInv
  OBVIOUS
<1>1. /\ NoHandler \in HandlerType /\ NoHandler.kind = "idle"
      /\ NoJob \in JobType /\ NoJob.at = "idle"
  <2>1. (CHOOSE l \in Login : TRUE) \in Login
    OBVIOUS
  <2>2. [l \in Login |-> "false"] \in [Login -> Mark]
    BY DEF Mark
  <2> QED
    BY <2>1, <2>2 DEF NoHandler, HandlerType, NoJob, JobType, Mark
<1>2. Types
  <2>1. \A f \in Service : Possible(f, {})
    BY DEF Possible
  <2>2. /\ mark \in [Login -> [Kinds -> Mark]]
        /\ spoilt \in [Login -> [Service \cup {"metadata"} -> SUBSET Cause]]
        /\ account \in [Login -> [Service -> SUBSET Part]]
    BY DEF Init, Mark
  <2>3. \A l \in Login, f \in Service : account[l][f] = {}
    BY DEF Init
  <2> QED
    BY <1>1, <2>1, <2>2, <2>3, ConfigurationAssumption DEF Init, Types
<1>3. ASSUME NEW l \in Login PROVE Own(l)
  <2>1. /\ wsku[l] = "absent" /\ handled[l] = NoSpec /\ handler[l].kind = "idle"
        /\ saved[l] = {} /\ job.at = "idle"
        /\ \A k \in Kinds : mark[l][k] = "false"
        /\ \A f \in Service : account[l][f] = {}
    BY <1>1 DEF Init
  <2>2. \A f, kind : kind # "idle" => ~past(l, f, kind)
    BY <2>1 DEF past
  <2>3. Course(l)
    BY <2>1 DEF Course, Handling
  <2>4. \A f \in Service : Traces(l, f)
    BY <2>1 DEF Traces, no_trace
  <2>5. Backed(l)
    BY <2>1, <2>2 DEF Backed
  <2>6. \A f \in Service : Complete(l, f)
    BY <2>1, <2>2 DEF Complete
  <2>7. \A k \in Kinds : Marks(l, k)
    BY <2>1 DEF Marks, Annotating
  <2> QED
    BY <2>3, <2>4, <2>5, <2>6, <2>7 DEF Own
<1> QED
  BY <1>2, <1>3 DEF IInv

\* The invariant is inductive.
LEMMA Step == Login # {} /\ IInv /\ [Next]_vars => IInv'
<1> SUFFICES ASSUME Login # {}, IInv, [Next]_vars PROVE IInv'
  OBVIOUS
<1>1. Types /\ \A l \in Login : Own(l) /\ Course(l)
  BY DEF IInv, Own
<1>2. CASE UNCHANGED vars
  <2>1. Types'
    BY <1>1, <1>2 DEF vars, Types
  <2>2. ASSUME NEW l \in Login PROVE Own(l)'
    <3>1. Same(l)
      BY <1>2, JobSame DEF vars, Same, SameAccount
    <3> QED
      BY <1>1, <3>1, SameKeeps
  <2> QED
    BY <2>1, <2>2 DEF IInv
<1>3. CASE Next
  <2>1. Types'
    BY <1>1, <1>3, TypesStep
  <2> SUFFICES ASSUME NEW l \in Login PROVE Own(l)'
    BY <2>1 DEF IInv
  <2>2. Same(l) => Own(l)'
    BY <1>1, SameKeeps
  <2>3. CASE \/ Restart \/ clean \/ configure \/ start \/ get_wsk_users
             \/ \E m \in Login : Usage(m)
    BY <1>1, <2>2, <2>3, CommonSteps
  <2>4. ASSUME NEW m \in Login,
               (\E s \in Specs : ApplyUser(m, s)) \/ DeleteUser(m) \/ Handler(m)
        PROVE  Own(l)'
    <3>1. CASE m # l
      BY <1>1, <2>2, <2>4, <3>1, OtherSteps
    <3>2. CASE m = l
      BY <1>1, <2>4, <3>2, ApplyKeeps, DeleteKeeps, StartKeeps, SkipKeeps,
         CallKeeps, SaveKeeps, DoneKeeps DEF Handler
    <3> QED
      BY <3>1, <3>2
  <2>5. ASSUME NEW m \in Login, check_quota(m) PROVE Own(l)'
    BY <1>1, <2>2, <2>5, OtherJobs, CheckKeeps
  <2>6. CASE annotate
    BY <1>1, <2>2, <2>6, OtherJobs, AnnotateKeeps
  <2>7. CASE JobDies
    BY <1>1, <2>2, <2>7, OtherJobs, JobDiesKeeps
  <2> QED
    BY <1>3, <2>3, <2>4, <2>5, <2>6, <2>7 DEF Next, Job
<1> QED
  BY <1>2, <1>3

\* With no user there is nothing to say, not even a type of the job.
LEMMA Invariance == Spec => [](Login # {} => IInv)
<1>1. Init => (Login # {} => IInv)
  BY Begins
<1>2. (Login # {} => IInv) /\ [Next]_vars => (Login # {} => IInv)'
  BY Step
<1> QED
  BY <1>1, <1>2, PTL DEF Spec

----------------------------------------------------------------------------
(* Theorems.                                                               *)

\* For every set of users that is not empty, all specs and every component:
\* the variables have their types, a user has rights in redis only with an
\* account there, no bucket is open that does not exist, and no policy is
\* attached to nobody (the calls of create_ow_storage and its clients).
THEOREM TypesAreKept ==
  ASSUME Login # {}
  PROVE  Spec => []TypeOK
<1>1. IInv => TypeOK
  <2> SUFFICES ASSUME Types PROVE TypeOK
    BY DEF IInv
  <2>1. ASSUME NEW l \in Login
        PROVE  /\ account[l]["redis"] # {} => "user" \in account[l]["redis"]
               /\ "public" \in account[l]["minio"] => "route" \in account[l]["minio"]
               /\ "attached" \in account[l]["minio"] =>
                    {"user", "policy"} \subseteq account[l]["minio"]
    <3>1. Possible("redis", account[l]["redis"]) /\ Possible("minio", account[l]["minio"])
      BY Services DEF Types
    <3> QED
      BY <3>1 DEF Possible
  <2> QED
    BY <2>1 DEF Types, TypeOK, HandlerType, JobType
<1>2. (Login # {} => IInv) => TypeOK
  BY <1>1
<1> QED
  BY <1>2, Invariance, PTL

\* For every number of users, failures and restarts, and for every set of
\* components: the variables saved for a user whose resource is live lead to
\* accounts that exist, whatever failure the operator was told of
\* (whisk_user_create saves them with its metadata).  They may lead nowhere
\* when a statement failed in a script of psql, redis-cli or weed shell, which
\* exits with 0 all the same, and the addresses of ingresses when a call failed.
THEOREM SavedVariablesAreBacked == Spec => []VariablesAreBacked
<1>1. (Login # {} => IInv) => VariablesAreBacked
  BY DEF IInv, Own, Backed, metadata_safe, VariablesAreBacked
<1> QED
  BY <1>1, Invariance, PTL

\* For every number of users, failures and restarts: a user whose creation
\* kopf has recorded as handled has the variables of every service it asked
\* for, also when the creation was interrupted and done again.
THEOREM HandledUsersHaveTheirVariables == Spec => []VariablesAreComplete
<1>1. (Login # {} => IInv) => VariablesAreComplete
  <2> SUFFICES ASSUME Login # {} => IInv, NEW l \in Login, NEW f \in Service,
                      wsku[l] = "live", handled[l] = spec[l],
                      wanted(f, Components, spec[l]),
                      spoilt[l][f] \cap {"fault", "unconfigured", "edited"} = {},
                      f \in {"minio", "milvus"} => "again" \notin spoilt[l][f],
                      "fault" \notin spoilt[l]["metadata"]
               PROVE  variables_of(f, spec[l]) \subseteq saved[l]
    BY DEF VariablesAreComplete
  <2>1. Course(l) /\ Complete(l, f)
    BY DEF IInv, Own
  <2>2. handled[l] # NoSpec
    BY <2>1, ConfigurationAssumption DEF Course
  <2>3. f \in asked(spec[l])
    BY DEF asked
  <2> QED
    BY <2>1, <2>2, <2>3 DEF Complete, undisturbed, metadata_safe
<1> QED
  BY <1>1, Invariance, PTL

\* For every number of users, failures and restarts: when the resource of a
\* user has gone whisk_user_delete has left nothing of it in a service no call
\* to which failed, and in redis at most a user a late quota checker made, who
\* can not log in.
THEOREM NothingIsLeft == Spec => []NothingOfTheDeleted
<1>1. (Login # {} => IInv) => NothingOfTheDeleted
  BY DEF IInv, Own, Traces, untouched, no_trace, NothingOfTheDeleted
<1> QED
  BY <1>1, Invariance, PTL

\* For every number of users, failures and restarts, and whatever services
\* have quotas: between two runs of the quota checker the annotation of a user
\* says whether it may write, unless one of the races the property names has
\* happened.
THEOREM MarksAreRights == Spec => []QuotaMarks
<1>1. (Login # {} => IInv) => QuotaMarks
  <2> SUFFICES ASSUME Login # {} => IInv, NEW l \in Login, NEW k \in Limited,
                      wsku[l] = "live", handled[l] # NoSpec, job.at # "annotate",
                      readable(l, k), has_account(l, k)
               PROVE  mark[l][k] = "true" <=> "write" \notin account[l][k]
    BY DEF QuotaMarks, readable
  <2>1. k \in Kinds
    BY ConfigurationAssumption DEF Kinds
  <2>2. Marks(l, k)
    BY <2>1 DEF IInv, Own
  <2>3. made(l, k) /\ ~Annotating(l, k)
    BY DEF made, Annotating
  <2> QED
    BY <2>2, <2>3 DEF Marks
<1> QED
  BY <1>1, Invariance, PTL
=============================================================================
