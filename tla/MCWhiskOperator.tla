-------------------------- MODULE MCWhiskOperator --------------------------
(* Small sets of specs for TLC: each one differs from the others in what a *)
(* user would edit.                                                        *)
EXTENDS WhiskOperator

CONSTANTS a, b, default, tuned

MCSpec(components, host, config, stores) ==
  [components |-> components, apihost |-> host, configs |-> config,
   ingress |-> stores]

\* Edits that switch redis, minio with its ingress, etcd and tls, move the
\* host and tune the controller.
EditSpecs ==
  { MCSpec({"openwhisk", "redis", "minio"}, a, default, {}),
    MCSpec({"openwhisk", "minio", "tls"}, a, default, {"minio"}),
    MCSpec({"openwhisk", "invoker", "redis", "etcd"}, b, tuned, {}) }

\* A resource that is refused at first, and what may become of it.
RestartSpecs ==
  { MCSpec({"minio", "seaweedfs"}, a, default, {}),
    MCSpec({"openwhisk", "redis", "milvus"}, a, default, {}),
    MCSpec({"openwhisk", "tls", "quota", "registry"}, b, default, {}) }

\* OpenWhisk is always enabled, every object has an owner and no edit is
\* refused.
ProgressSpecs ==
  { MCSpec({"openwhisk", "redis"}, a, default, {}),
    MCSpec({"openwhisk", "monitoring", "postgres"}, a, default, {}),
    MCSpec({"openwhisk", "static"}, b, default, {}) }

\* The edits that the patcher can follow: OpenWhisk and the registry stay.
DeleteSpecs ==
  { MCSpec({"openwhisk", "registry", "static", "mongodb"}, a, default, {}),
    MCSpec({"openwhisk", "registry", "redis", "static"}, a, tuned, {}),
    MCSpec({"openwhisk", "registry", "minio"}, b, default, {"minio"}) }

\* The endpoint moves and static stays.
StaticSpecs ==
  { MCSpec({"openwhisk", "static"}, h, default, {}) : h \in {a, b} }

\* The registry is switched on.
RegistrySpecs ==
  { MCSpec({"redis"}, a, default, {}),
    MCSpec({"redis", "registry"}, a, default, {}) }

\* A cluster with a certificate issuer.
IssuerSpecs ==
  { MCSpec({"tls", "redis"}, h, default, {}) : h \in {a, b} }
=============================================================================
