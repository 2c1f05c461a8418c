CONSTANTS
  Login = {u}
  Specs <- PostgresSpecs
  Components = {"postgres"}
  Ingress = "nginx"
  RoleIsDatabase = FALSE
  Limited = {"postgres"}
  NoSpec = NoSpec
  MaxEvents = 0
SPECIFICATION Spec
PROPERTIES
  QuotaIsEnforced
CHECK_DEADLOCK FALSE
