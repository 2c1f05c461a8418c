CONSTANTS
  a = a
  b = b
  default = default
  tuned = tuned
  Host = {a, b}
  Config = {default, tuned}
  NoSpec = NoSpec
  NoHost = NoHost
  Pending = Pending
  Specs <- RestartSpecs
  Runtime = "microk8s"
  FaultyHandlers = {"update", "resume", "owner", "watcher"}
  MaxEdits = 2
  MaxFaults = 1
  MaxRestarts = 2
  MaxRuntimeChanges = 1
SPECIFICATION Spec
INVARIANTS
  CfgCoherent
  ApihostCoherent
CHECK_DEADLOCK FALSE
