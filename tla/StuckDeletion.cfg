CONSTANTS
  a = a
  b = b
  default = default
  tuned = tuned
  Host = {a, b}
  Config = {default, tuned}
  NoSpec = NoSpec
  NoHost = NoHost
  Pending = Pending
  Specs <- IssuerSpecs
  Runtime = "microk8s"
  FaultyHandlers = {"create"}
  MaxEdits = 2
  MaxFaults = 1
  MaxRestarts = 0
  MaxRuntimeChanges = 0
SPECIFICATION Spec
PROPERTIES
  DeletionCompletes
CHECK_DEADLOCK FALSE
