CONSTANTS
    Workers = {w1, w2}
    Main = main
    NewFirst = FALSE
    MaxAllocs = 3
    MaxFlips = 0
SPECIFICATION Spec
SYMMETRY Threadwise
INVARIANTS
    TypeOK
    ExclusiveHandle
    NoUseAfterFree
    PoolComplete
PROPERTIES
    PoolSettles
    ImplementsHandlePool
