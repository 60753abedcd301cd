CONSTANTS
    Chars <- MCChars
    INI_MAX_LINE = 14
    MAX_SECTION = 3
    MAX_NAME = 3
    Sections <- MCSections
    Names <- MCNames
    HostLists <- MCHostLists
    Closings <- AsInReadme
    MaxLines = 4
SPECIFICATION IniSpec
CHECK_DEADLOCK FALSE
INVARIANTS
    ReadmeServersRead
