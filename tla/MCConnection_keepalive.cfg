CONSTANTS
    Requests = 2
    BufferParts = 2
    Kinds = {"keep", "close", "bad"}
SPECIFICATION Spec
INVARIANTS
    KeptOnRequest
