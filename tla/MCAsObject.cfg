CONSTANTS
    Names = {a, b}
    Kinds = {"null", "array", "sign", "packedArray"}
SPECIFICATION Spec
INVARIANTS
    OnlyConnected
    BinsAreRead
    OwnStatus
    PutIsRead
PROPERTIES
    ComesAlive
