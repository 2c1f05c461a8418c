CONSTANTS
  a = a
  b = b
  default = default
  tuned = tuned
  Host = {a, b}
  Config = {default, tuned}
  NoSpec = NoSpec
  NoHost = NoHost
  Pending = Pending
  Specs <- RegistrySpecs
  Runtime = "microk8s"
  FaultyHandlers = {}
  MaxEdits = 2
  MaxFaults = 0
  MaxRestarts = 0
  MaxRuntimeChanges = 0
SPECIFICATION Spec
PROPERTIES
  EditsAreHandled
CHECK_DEADLOCK FALSE
