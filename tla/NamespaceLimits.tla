-------------------------- MODULE NamespaceLimits --------------------------
(***************************************************************************)
(* The limits of the namespaces, which wskadmin reads, merges and writes   *)
(* back with the revision it has read.                                     *)
(***************************************************************************)
EXTENDS GithubApp

CONSTANTS
  Limit,       \* invocationsPerMinute, concurrentInvocations, ...
  Allows,      \* what a limit may be set to
  Unset,       \* no value of a limit
  MaxCommands  \* bound on the invocations of wskadmin

ASSUME LimitsAssumption ==
  Unset \notin Allows /\ 0 \in Allows /\ MaxCommands \in Nat

Admin == 1 .. MaxCommands

NoLimits == [limit \in Limit |-> Unset]

VARIABLES
  limits,   \* the documents: the revision, whether it exists, what it says
  admin,    \* the invocations of wskadmin
  granted,  \* history: what wskadmin has said to be set
  spoilt    \* history: the documents of which a request failed

limitVars == <<limits, admin, granted, spoilt>>

NoCommand ==
  [cmd |-> "none", ns |-> CHOOSE l \in Login : TRUE, given |-> NoLimits,
   at |-> "none", rev |-> 0, base |-> NoLimits]

\* wskadmin limits set, get or delete.
limitsCmd(c, cmd, ns, given) ==
  /\ c <= scenario.limits /\ admin[c].at = "none"
  /\ admin' = [admin EXCEPT ![c] = [NoCommand EXCEPT
                 !.cmd = cmd, !.ns = ns, !.given = given, !.at = "read"]]
  /\ UNCHANGED <<scenario, faults, limits, granted, spoilt>>

merged(old, given) ==
  [limit \in Limit |-> IF given[limit] # Unset THEN given[limit] ELSE old[limit]]

\* The document a command leaves.
sets(doc, a) ==
  [rev |-> doc.rev + 1, exists |-> TRUE, says |-> merged(a.base, a.given)]
deletes(doc) == [rev |-> doc.rev + 1, exists |-> FALSE, says |-> NoLimits]

\* Whether a command writes after it has read.
goes_on(a, exists) == a.cmd = "set" \/ (a.cmd = "delete" /\ exists)

Ends(c) == admin' = [admin EXCEPT ![c].at = "done"]

\* An answer other than 200 is taken for no document.
getDocumentFromDb(c) ==
  LET a == admin[c]
      doc == limits[a.ns]
      Reads(exists) ==
        IF ~goes_on(a, exists) THEN Ends(c)
        ELSE admin' = [admin EXCEPT
               ![c].at = "write",
               ![c].rev = IF exists THEN doc.rev ELSE 0,
               ![c].base = IF exists THEN doc.says ELSE NoLimits]
  IN /\ a.at = "read"
     /\ \/ Reads(doc.exists) /\ UNCHANGED faults
        \/ Reads(FALSE) /\ Fault
     /\ UNCHANGED <<scenario, limits, granted, spoilt>>

\* Mutant: CouchDB is sent the revision it has by then.
revision_by_then(c) == IF limits[admin[c].ns].exists THEN limits[admin[c].ns].rev ELSE 0

revision(c) == admin[c].rev

\* CouchDB takes a write with the revision of the document, or with none
\* when there is no such document.
accepted(c) ==
  LET doc == limits[admin[c].ns]
  IN revision(c) = IF doc.exists THEN doc.rev ELSE 0

\* insertIntoDatabase, or the DELETE of deleteLimitsCmd.
Write(c) ==
  LET a == admin[c]
      doc == limits[a.ns]
      Writes ==
        limits' = [limits EXCEPT ![a.ns] =
          IF a.cmd = "set" THEN sets(doc, a) ELSE deletes(doc)]
  IN /\ a.at = "write"
     /\ Ends(c)
     /\ \/ /\ accepted(c) /\ Writes
           /\ granted' = [granted EXCEPT ![a.ns] =
                IF a.cmd = "set"
                  THEN [limit \in Limit |->
                          IF a.given[limit] = Unset THEN @[limit] ELSE a.given[limit]]
                  ELSE NoLimits]
           /\ UNCHANGED <<faults, spoilt>>
        \/ ~accepted(c) /\ UNCHANGED <<limits, granted, faults, spoilt>>
        \/ /\ Fault /\ spoilt' = spoilt \union {a.ns}
           /\ \/ accepted(c) /\ Writes
              \/ UNCHANGED limits
           /\ UNCHANGED granted
     /\ UNCHANGED scenario

\* OpenWhisk refuses the invocations of a namespace.
throttled(ns) == \E limit \in Limit : limits[ns].says[limit] = 0

LimitsInit ==
  /\ limits = [ns \in Login |-> [rev |-> 0, exists |-> FALSE, says |-> NoLimits]]
  /\ admin = [c \in Admin |-> NoCommand]
  /\ granted = [ns \in Login |-> NoLimits]
  /\ spoilt = {}

LimitsNext ==
  \/ \E c \in Admin, ns \in Acceptable, given \in scenario.given :
       limitsCmd(c, "set", ns, given)
  \/ \E c \in Admin, ns \in Acceptable, cmd \in {"get", "delete"} :
       limitsCmd(c, cmd, ns, NoLimits)
  \/ \E c \in Admin : getDocumentFromDb(c) \/ Write(c)

LimitsTypeOK ==
  LET Says == [Limit -> Allows \union {Unset}]
  IN /\ limits \in [Login -> [rev : Nat, exists : BOOLEAN, says : Says]]
     /\ admin \in [Admin -> [cmd : {"none", "set", "get", "delete"}, ns : Login,
                             given : Says, at : {"none", "read", "write", "done"},
                             rev : Nat, base : Says]]
     /\ granted \in [Login -> Says]
     /\ spoilt \subseteq Login
=============================================================================
