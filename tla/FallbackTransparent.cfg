SPECIFICATION Spec
CONSTANTS
    Conn = {"k1"}
    Host = {"a"}
INVARIANTS
    FallbackIsTransparent
