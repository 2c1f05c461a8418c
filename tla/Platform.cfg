SPECIFICATION Spec
CONSTANTS
  u = u
  w = w
  Login = {u, w}
  Acceptable = {u}
  MaxVisits = 3
  Deadline = 5
  MaxBackoff = 3
  MaxDuration = 2
  Limit = {"invocationsPerMinute", "concurrentInvocations"}
  Allows = {0, 1}
  Unset = Unset
  MaxCommands = 2
  Path <- MCPaths
  MaxRequests = 3
  Period = 4
  Schedule = {0, 2}
  MaxDelay = 2
  MaxJobs = 2
  Action = {"hello"}
  owner_of <- MCOwner
  Crons <- MCCrons
  NoCron = NoCron
  Invalid = Invalid
  Namespace <- MCNamespace
  Complete = {"one", "other"}
  Incomplete = "incomplete"
  Scenarios <- MCScenarios
INVARIANTS
  TypeOK
  ShownPasswordIsTheAccounts
  ContentIsKept
  EveryInstantIsServed
  LimitsAccumulate
  DeploymentIsTimely
  CompleteIsPrepared
  WorkflowsHaveTheirJobs
PROPERTIES
  AutoexecIsRetired
  WorkIsCompleted
CHECK_DEADLOCK FALSE
