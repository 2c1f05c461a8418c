CONSTANTS
  a = a
  b = b
  default = default
  tuned = tuned
  Host = {a, b}
  Config = {default, tuned}
  NoSpec = NoSpec
  NoHost = NoHost
  Pending = Pending
  Specs <- EditSpecs
  Runtime = "microk8s"
  FaultyHandlers = {"create", "update"}
  MaxEdits = 3
  MaxFaults = 2
  MaxRestarts = 0
  MaxRuntimeChanges = 0
SPECIFICATION Spec
INVARIANTS
  TypeOK
  OnMeansDeployed
  OffMeansGone
  PublishedApihost
PROPERTIES
  EnabledNotDeleted
CHECK_DEADLOCK FALSE
