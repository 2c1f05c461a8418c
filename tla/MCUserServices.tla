--------------------------- MODULE MCUserServices ---------------------------
(* One user, whose resource may ask for the services of two specs.         *)
EXTENDS UserServices

UserSpecs == { {"data", "route", "mongodb", "milvus"}, {"data", "redis", "postgres"} }

\* The resource of tests/whisk-user.yaml asks for a database whose name is
\* not the one of its namespace.
PostgresSpecs == { {"postgres"} }
=============================================================================
