CONSTANTS
    Alphabet = {38, 61, 63, 37, 43, 32, 50, 115}
    MaxKey = 3
    MaxSet = 2
    Bytes = {0, 63, 64, 170, 255}
    MaxBytes = 5
    Chars = {65, 47, 113, 61, 10}
    MaxChars = 5
    Room = {1, 2, 3, 4}
    Lens = {1, 2, 4}
    Sizes = {0, 16, 17, 31, 64, 65, 1032, 2000, 2047, 2048, 2064, 4128}
    UInt = 4096
    Block = 3
    MaxStream = 8
    Apis = {"", "/status", "/get", "/put", "/del"}
    Bins = {"nameless", "scalar", "emptyString", "word", "packed", "sign",
            "emptyBytes", "jsonBytes", "rawBytes", "list", "map", "other"}
    MaxBins = 2
SPECIFICATION MCSpec
INVARIANTS
    NothingLeaks
    BinsComplete
    ResultsWhenFound
    RoundTrip
    PackedUnpacks
    DecodesBits
    WholeIsRead
    InBlock
    AllReleased
    WholeStream
