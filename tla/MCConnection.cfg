CONSTANTS
    Requests = 3
    BufferParts = 3
    Kinds = {"keep", "close", "bad"}
SPECIFICATION FairSpec
INVARIANTS
    OneOperation
    HeaderHonest
    RepliesMatch
PROPERTIES
    ReplyStable
    ConnectionFreed
    EveryRequestAnswered
