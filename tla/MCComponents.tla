---------------------------- MODULE MCComponents ----------------------------
EXTENDS Components

\* Components that work together, what they look at, and the edits they meet.
Scenario(on, options, ingresses, met) ==
  [on : {on}, options : {options, options \cup {"owner"}}, ingress : ingresses,
   edits : {met}]

MCScenarios ==
  UNION {
    Scenario({"minio", "static", "etcd", "milvus"}, {"s3-ingress", "www"},
             {"nginx", "openshift"}, {"minio", "static", "milvus"}),
    Scenario({"couchdb", "minio"}, {"s3-ingress"}, {"nginx", "traefik"},
             {"minio", "minio-ingresses"}),
    Scenario({"seaweedfs", "static", "milvus"}, {"s3-ingress"}, {"traefik"},
             {"milvus", "seaweedfs-ingresses"}),
    Scenario({"couchdb", "postgres", "mongodb", "redis", "quota"}, {}, {"nginx"},
             {"postgres", "mongodb", "quota"}),
    Scenario({"mongodb"}, {"backup"}, {"nginx"}, {"postgres", "mongodb"}),
    Scenario({"openwhisk", "tls", "invoker"}, {"www"}, {"traefik"},
             {"endpoint", "redeployment"}),
    Scenario({"openwhisk", "couchdb", "kafka", "zookeeper"}, {}, {"openshift"},
             {"redis", "redeployment"}),
    Scenario({"registry", "monitoring", "cron"}, {"registry-ingress", "alert-manager"},
             {"nginx", "openshift"}, {"cron", "endpoint"}),
    Scenario({"registry", "monitoring"}, {"external-registry"}, {"nginx"}, {"etcd"})
  }
=============================================================================
