CONSTANTS
    Apis = {"", "/status", "/get", "/put", "/del"}
    Bins = {"scalar", "word"}
    MaxBins = 2
SPECIFICATION Spec
INVARIANTS
    StringsDelivered
