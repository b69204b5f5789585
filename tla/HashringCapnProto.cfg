SPECIFICATION Spec
CONSTANTS
    Rings = {1, 2}
    MaxReplicas = 2
    TenantLists = {"t"}
    Policies = {"static", "dynamic"}
    Protocols = {"capnproto"}
    rf = 1
PROPERTY TroubledEntryKept
