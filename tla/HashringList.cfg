SPECIFICATION Spec
CONSTANTS
    Rings = {1, 2}
    MaxReplicas = 2
    TenantLists = {"t", "u"}
    Policies = {"static", "dynamic"}
    Protocols = {"grpc", "capnproto"}
    rf = 1
INVARIANTS TypeOK MergesTables TwoReconcilesSettle
