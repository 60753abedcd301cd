CONSTANTS
    Chars <- MCChars
    INI_MAX_LINE = 14
    MAX_SECTION = 3
    MAX_NAME = 3
    Sections <- MCSections
    Names <- MCNames
    HostLists <- MCHostLists
    Closings <- Plainly
    MaxLines = 4
    Servers <- MCServers
    Builders = {t1, t2}
    MaxBuilt = 2
SPECIFICATION MCSpec
CHECK_DEADLOCK FALSE
INVARIANTS
    HostsRead
    FirstErrorKept
    HostsAreServers
