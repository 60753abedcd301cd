CONSTANTS
    Workers = {w1}
    Main = main
    NewFirst = TRUE
    MaxAllocs = 2
    MaxFlips = 3
SPECIFICATION FairSpec
PROPERTY
    DeadHandlesRecover
