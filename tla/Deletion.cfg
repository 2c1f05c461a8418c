CONSTANTS
  a = a
  b = b
  default = default
  tuned = tuned
  Host = {a, b}
  Config = {default, tuned}
  NoSpec = NoSpec
  NoHost = NoHost
  Pending = Pending
  Specs <- DeleteSpecs
  Runtime = "microk8s"
  FaultyHandlers = {}
  MaxEdits = 4
  MaxFaults = 0
  MaxRestarts = 0
  MaxRuntimeChanges = 0
SPECIFICATION Spec
INVARIANTS
  NothingLeftBehind
CHECK_DEADLOCK FALSE
