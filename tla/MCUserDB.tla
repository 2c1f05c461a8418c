------------------------------ MODULE MCUserDB ------------------------------
(* One user with two versions of its resource, and two invocations of the  *)
(* secrets action or of wskadmin.                                          *)
EXTENDS UserDB, TLC

CONSTANTS p1, p2, q1, q2, k1, k2, n1, n2, v

UserSpecs ==
  { [password |-> p1, quota |-> q1, auth |-> k1],
    [password |-> p2, quota |-> q2, auth |-> k2] }

\* A variable is set; it is removed and another one is set.
UserEnvs == { n1 :> v, n1 :> Empty @@ n2 :> v }
=============================================================================
