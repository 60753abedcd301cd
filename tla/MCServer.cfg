CONSTANTS
    Workers = {w1, w2}
    Clients = {"k1", "k2"}
    Handles = {1, 2}
    MaxErrors = 1
SPECIFICATION FairSpec
INVARIANTS
    OneHandler
    AcceptChain
    FreedLast
PROPERTIES
    ClientsServed
    StopTerminates
