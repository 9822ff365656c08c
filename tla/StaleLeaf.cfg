SPECIFICATION Spec
CONSTANTS
    Host = {"a"}
    Worker = {"w1"}
    Client = {"c1"}
    MaxPayload = 2
INVARIANTS
    LeafCacheClearedOnRotation
