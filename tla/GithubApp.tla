----------------------------- MODULE GithubApp -----------------------------
(***************************************************************************)
(* The accounts of the users who install the GitHub app: the callback      *)
(* action makes a WhiskUser resource for them, the webhook action deletes  *)
(* it, and the operator, in one step here (UserDB and UserServices have    *)
(* its steps), makes and removes what belongs to the resource.             *)
(***************************************************************************)
EXTENDS Naturals

CONSTANTS
  Login,       \* the users, by their login at GitHub
  Acceptable,  \* the logins that may be the name of a user
  MaxVisits    \* bound on the invocations of the callback

ASSUME LoginAssumption == Acceptable \subseteq Login /\ Login # {}
ASSUME VisitsAssumption == MaxVisits \in Nat

VARIABLES
  scenario,     \* what may happen, and how often
  faults,       \* how many calls have failed, and processes have died
  installed,    \* who has the app installed
  undelivered,  \* the events GitHub has to send to the webhook
  visit,        \* the invocations of the callback
  used,         \* the codes that were exchanged for a token
  wsku,         \* the visit that made the resource of a user, 0: no resource
  leaving,      \* the users whose resource is being deleted
  users,        \* the visit whose password and key the databases have, 0: none
  disturbed,    \* history: the visits a call of which failed, and those that
                \* met another way to an account of the same user
  made          \* history: the visits that made a resource

setup == <<installed, undelivered, visit, used>>
accounts == <<wsku, leaving, users>>
appHistory == <<disturbed, made>>
appVars == <<setup, accounts, appHistory>>

Visit == 1 .. MaxVisits

NoVisit ==
  [login |-> CHOOSE l \in Login : TRUE, code |-> 0, at |-> "none",
   page |-> "none"]

underway(v) == visit[v].at \notin {"none", "answered"}
underway_of(l) == {v \in Visit : underway(v) /\ visit[v].login = l}

Fault == faults < scenario.faults /\ faults' = faults + 1

----------------------------------------------------------------------------
(* The callback.                                                           *)

\* GitHub calls the callback with a code.
Visits(v, l, code) ==
  /\ v \in Visit /\ v <= scenario.visits
  /\ \A w \in Visit : (visit[w].at = "none") <=> (w >= v)
  /\ visit' = [visit EXCEPT ![v] =
                 [login |-> l, code |-> code, at |-> "exchange", page |-> "none"]]
  /\ UNCHANGED <<scenario, faults, undelivered, used, accounts, made>>

Install(v, l) ==
  /\ ~installed[l]
  /\ installed' = [installed EXCEPT ![l] = TRUE]
  /\ disturbed' = IF underway_of(l) = {} THEN disturbed
                  ELSE disturbed \union underway_of(l) \union {v}
  /\ Visits(v, l, v)

\* The browser loads the page again.
Reload(v, w) ==
  /\ visit[w].at # "none"
  /\ Visits(v, visit[w].login, visit[w].code)
  /\ disturbed' = IF w \notin disturbed THEN disturbed
                  ELSE disturbed \union underway_of(visit[w].login) \union {v}
  /\ UNCHANGED installed

Goes_on(v, at) == visit' = [visit EXCEPT ![v].at = at]
Shows(v, page) == visit' = [visit EXCEPT ![v].at = "answered", ![v].page = page]

\* GitHub takes a code once.
github_code_exchange(v) ==
  /\ visit[v].at = "exchange"
  /\ \/ /\ visit[v].code \notin used
        /\ Goes_on(v, "detail")
        /\ used' = used \union {visit[v].code}
        /\ UNCHANGED <<faults, disturbed>>
     \/ /\ visit[v].code \in used
        /\ Shows(v, "error")
        /\ UNCHANGED <<used, faults, disturbed>>
     \/ /\ Fault /\ disturbed' = disturbed \union {v}
        /\ Shows(v, "error")
        /\ used' \in {used, used \union {visit[v].code}}
  /\ UNCHANGED <<scenario, installed, undelivered, accounts, made>>

\* A login that is too short, or not lower case, is refused.
is_valid_username(l) == l \in Acceptable

github_user_detail(v) ==
  /\ visit[v].at = "detail"
  /\ \/ /\ IF is_valid_username(visit[v].login) THEN Goes_on(v, "check")
           ELSE Shows(v, "error")
        /\ UNCHANGED <<faults, disturbed>>
     \/ /\ Fault /\ disturbed' = disturbed \union {v}
        /\ Shows(v, "error")
  /\ UNCHANGED <<scenario, installed, undelivered, used, accounts, made>>

\* Mutant: the callback does not look for an account.
has_account_never(v) == FALSE

has_account(v) == wsku[visit[v].login] # 0

\* An answer other than 200 is taken for no account.
get_whisk_user(v) ==
  /\ visit[v].at = "check"
  /\ \/ /\ IF has_account(v) THEN Shows(v, "error") ELSE Goes_on(v, "create")
        /\ UNCHANGED <<faults, disturbed>>
     \/ /\ Fault /\ disturbed' = disturbed \union {v}
        /\ Goes_on(v, "create")
  /\ UNCHANGED <<scenario, installed, undelivered, used, accounts, made>>

\* The resource has a password and keys of its own; the visit stands for them.
generate_whisk_user_yaml(v) == v

\* The API server makes the resource unless there is one of that name; the
\* callback shows the password of the resource it asked for in any case.
create_whisk_user(v) ==
  LET l == visit[v].login
      Made ==
        /\ wsku[l] = 0
        /\ wsku' = [wsku EXCEPT ![l] = generate_whisk_user_yaml(v)]
        /\ made' = made \union {v}
  IN /\ visit[v].at = "create"
     /\ Shows(v, "account")
     /\ \/ Made /\ UNCHANGED <<faults, disturbed>>
        \/ wsku[l] # 0 /\ UNCHANGED <<wsku, made, faults, disturbed>>
        \/ /\ Fault /\ disturbed' = disturbed \union {v}
           /\ \/ Made
              \/ UNCHANGED <<wsku, made>>
     /\ UNCHANGED <<scenario, installed, undelivered, used, leaving, users>>

Callback(v) ==
  \/ github_code_exchange(v)
  \/ github_user_detail(v)
  \/ get_whisk_user(v)
  \/ create_whisk_user(v)

----------------------------------------------------------------------------
(* The webhook.                                                            *)

Uninstall(l) ==
  /\ installed[l] /\ scenario.visits > 0
  /\ installed' = [installed EXCEPT ![l] = FALSE]
  /\ undelivered' = undelivered \union {[action |-> "deleted", login |-> l]}
  /\ UNCHANGED <<scenario, faults, visit, used, accounts, appHistory>>

Push(l) ==
  /\ installed[l] /\ scenario.visits > 0
  /\ undelivered' = undelivered \union {[action |-> "push", login |-> l]}
  /\ UNCHANGED <<scenario, faults, installed, visit, used, accounts, appHistory>>

delete_whisk_user(l) ==
  leaving' = IF wsku[l] = 0 THEN leaving ELSE leaving \union {l}

\* Whatever the API server answers, GitHub is told that the event is handled.
webhook(event) ==
  /\ event \in undelivered
  /\ undelivered' = undelivered \ {event}
  /\ \/ /\ event.action = "deleted"
        /\ \/ delete_whisk_user(event.login) /\ UNCHANGED faults
           \/ Fault /\ (delete_whisk_user(event.login) \/ UNCHANGED leaving)
     \/ event.action = "push" /\ UNCHANGED <<leaving, faults>>
  /\ UNCHANGED <<scenario, installed, visit, used, wsku, users, appHistory>>

----------------------------------------------------------------------------
(* The operator.                                                           *)

whisk_user_create(l) ==
  /\ wsku[l] # 0 /\ l \notin leaving /\ users[l] # wsku[l]
  /\ users' = [users EXCEPT ![l] = wsku[l]]
  /\ UNCHANGED <<scenario, faults, setup, wsku, leaving, appHistory>>

\* The body of the deletion; what else belongs to a user goes with it.
whisk_user_delete(l) ==
  /\ l \in leaving
  /\ users' = [users EXCEPT ![l] = 0]
  /\ wsku' = [wsku EXCEPT ![l] = 0]
  /\ leaving' = leaving \ {l}
  /\ UNCHANGED <<scenario, faults, setup, appHistory>>

AppInit ==
  /\ faults = 0
  /\ installed = [l \in Login |-> FALSE]
  /\ undelivered = {}
  /\ visit = [v \in Visit |-> NoVisit]
  /\ used = {}
  /\ leaving = {}
  /\ disturbed = {} /\ made = {}

AppNext ==
  \/ \E v \in Visit, l \in scenario.logins : Install(v, l)
  \/ \E v, w \in Visit : Reload(v, w)
  \/ \E v \in Visit : Callback(v)
  \/ \E l \in Login : Uninstall(l) \/ Push(l)
  \/ \E event \in undelivered : webhook(event)

AppTypeOK ==
  /\ faults \in Nat
  /\ installed \in [Login -> BOOLEAN]
  /\ undelivered \subseteq [action : {"deleted", "push"}, login : Login]
  /\ visit \in [Visit -> [login : Login, code : Visit \union {0},
                          at : {"none", "exchange", "detail", "check", "create",
                                "answered"},
                          page : {"none", "error", "account"}]]
  /\ used \subseteq Visit
  /\ wsku \in [Login -> Nat] /\ users \in [Login -> Nat]
  /\ leaving \subseteq Login
  /\ disturbed \subseteq Visit /\ made \subseteq Visit
=============================================================================
