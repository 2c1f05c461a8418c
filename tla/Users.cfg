CONSTANTS
  Login = {u}
  p1 = p1
  p2 = p2
  q1 = q1
  q2 = q2
  k1 = k1
  k2 = k2
  n1 = n1
  n2 = n2
  v = v
  Password = {p1, p2}
  Quota = {q1, q2}
  Key = {k1, k2}
  Name = {n1, n2}
  Value = {v}
  Specs <- UserSpecs
  Envs <- UserEnvs
  NoSpec = NoSpec
  NoBody = NoBody
  NoKey = NoKey
  Unset = Unset
  Empty = Empty
  AdminCommands = {"block", "unblock", "create", "delete"}
  MaxEvents = 4
  MaxCalls = 2
SPECIFICATION Spec
INVARIANTS
  TypeOK
  PasswordIsHandled
  SecretsAreKept
  BlockedStaysBlocked
  AuthIsOfTheSubject
  NothingOfTheDeleted
PROPERTIES
  ImplementsDocuments
  UsersAreHandled
CHECK_DEADLOCK FALSE
