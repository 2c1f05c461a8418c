CONSTANTS
  Login = {u}
  Specs <- UserSpecs
  Components = {"minio", "static", "mongodb", "redis", "postgres", "milvus"}
  Ingress = "nginx"
  RoleIsDatabase = TRUE
  Limited = {"redis"}
  NoSpec = NoSpec
  MaxEvents = 2
SPECIFICATION Spec
INVARIANTS
  TypeOK
  VariablesAreBacked
  VariablesAreComplete
  NothingOfTheDeleted
  QuotaMarks
PROPERTIES
  QuotaIsEnforced
CHECK_DEADLOCK FALSE
