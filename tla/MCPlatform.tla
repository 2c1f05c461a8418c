----------------------------- MODULE MCPlatform -----------------------------
EXTENDS Platform

CONSTANTS u, w

MCOwner == [a \in Action |-> u]

MCCrons == {NoCron, Invalid, {0, 1}}

\* The key of the account of u that is there, or made, first; 0 is no key.
Key == MaxVisits

Asked(key, action, cmd, from, to) ==
  [NoRequest EXCEPT !.action = action, !.cmd = cmd, !.user = u, !.header = TRUE,
                    !.body = TRUE, !.key = key, !.from = from, !.to = to]

File1(action, cmds, bucket, p, q) ==
  { Asked(Key, action, cmd, Object(u, bucket, p), Object(u, bucket, q)) : cmd \in cmds }
Rows(keys, action, cmds, store) ==
  { Asked(key, action, cmd, Row(u, store), Row(u, store)) : cmd \in cmds, key \in keys }

Page == <<"bucket", "page">>
DocsPage == <<"bucket", "docs", "page">>

\* Paths of a user: at the root and in a directory.
MCPaths == {Page, DocsPage}

Nothing ==
  [visits |-> 0, logins |-> {u}, accounts |-> {}, deployments |-> FALSE, requests |-> 0,
   templates |-> {}, stores |-> Bucket \union Store, updates |-> 0,
   clock |-> FALSE, limits |-> 0, given |-> {}, couchdbs |-> 0,
   crons |-> MCCrons, workflows |-> 0, faults |-> 0]

\* The app is installed, removed and installed again, and its pages are loaded
\* again, while calls fail; or while an administrator makes and deletes the user.
Signup == [Nothing EXCEPT !.visits = 3, !.faults = 1]
AdminSignup == [Nothing EXCEPT !.visits = 2, !.updates = 1]

\* Two users install the app, the name of one of them is not acceptable.
Signups == [Nothing EXCEPT !.visits = 2, !.logins = Login]

\* A user who comes and goes logs in, while the system actions are deployed.
Logins ==
  [Nothing EXCEPT !.accounts = {u}, !.requests = 1, !.updates = 2,
     !.deployments = TRUE,
     !.templates = Rows({Key, Key + 2}, "login", {"login"}, "redis")]

\* Objects are moved, copied and removed while they are replaced.
Moves ==
  [Nothing EXCEPT !.accounts = {u}, !.requests = 3, !.faults = 1,
     !.templates = File1("content", {"put"}, "web", Page, Page)
                   \union File1("content", {"put"}, "web", DocsPage, DocsPage)
                   \union File1("minio", {"mv", "cp", "clean"}, "web", Page, DocsPage)
                   \union File1("minio", {"mv"}, "web", DocsPage, Page)]

\* The other commands, by users who come and go.
Commands(templates) ==
  [Nothing EXCEPT !.accounts = {u}, !.requests = 2, !.faults = 1, !.updates = 1,
     !.stores = @ \ {"mongodb"}, !.templates = templates]

Uploads == File1("devel_upload", {"put", "delete"}, "data", Page, Page)
           \union File1("minio", {"ls", "rm", "dry-run"}, "data", Page, Page)
           \union File1("content", {"delete"}, "data", Page, Page)
           \union File1("devel_download", {"get"}, "data", Page, Page)
Queries == Rows({Key}, "psql", {"script", "query", "returning-query", "writing-query"},
                "postgres")
           \union Rows({Key}, "redis", {"put", "get"}, "redis")
           \union Rows({Key}, "ferretdb", {"put"}, "mongodb")
           \union Rows({0}, "redis", {"get"}, "redis")
           \union { [t EXCEPT !.body = FALSE] : t \in Rows({Key}, "redis", {"put"}, "redis") }

\* The executor, late and overlapping, while a user annotates an action.
Jobs ==
  [Nothing EXCEPT !.accounts = {u}, !.updates = 2, !.clock = TRUE,
     !.crons = {NoCron, {0, 1}}]
FailingJobs == [Jobs EXCEPT !.updates = 1, !.crons = MCCrons, !.faults = 1]

\* Administrators set limits at the same time, and while the executor runs.
Limiting == [Nothing EXCEPT !.limits = MaxCommands, !.faults = 1,
     !.given = [Limit -> Allows \union {Unset}]]
Limited ==
  [Nothing EXCEPT !.accounts = {u}, !.updates = 1, !.clock = TRUE, !.limits = 1,
     !.crons = {NoCron},
     !.given = {[limit \in Limit |-> 0]}]

\* CouchDB is prepared, deleted and prepared again.
Initialising == [Nothing EXCEPT !.couchdbs = 2, !.faults = 1]

\* A workflow is made, edited, deleted and made again.
Workflowing == [Nothing EXCEPT !.workflows = 4, !.faults = 2]

MCNamespace == <<"nuvolaris", "whisk-system">>

MCScenarios ==
  {Signup, AdminSignup, Signups, Logins, Moves, Commands(Uploads),
   Commands(Queries), Jobs, FailingJobs, Limiting, Limited, Initialising,
   Workflowing}
=============================================================================
