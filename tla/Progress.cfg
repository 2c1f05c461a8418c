CONSTANTS
  a = a
  b = b
  default = default
  tuned = tuned
  Host = {a, b}
  Config = {default, tuned}
  NoSpec = NoSpec
  NoHost = NoHost
  Pending = Pending
  Specs <- ProgressSpecs
  Runtime = "microk8s"
  FaultyHandlers = {"create", "update", "resume", "delete"}
  MaxEdits = 2
  MaxFaults = 2
  MaxRestarts = 1
  MaxRuntimeChanges = 0
SPECIFICATION Spec
PROPERTIES
  EditsAreHandled
  ResumeCompletes
  DeletionCompletes
CHECK_DEADLOCK FALSE
