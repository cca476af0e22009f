CONSTANTS
    Kinds = {"iso", "aamva"}
    Base <- MCBase
    Values <- MCValues
    Keys <- MCElementKeys
    LaterKeys <- MCLaterKeys
    MaxChanges = 1
    MaxU32 = 1000
    MaxTime = 1000
    to_lowercase <- MCLowercase
    to_uppercase <- MCUppercase
SPECIFICATION NamespaceSpec
INVARIANT ParsedIsWritable
CHECK_DEADLOCK FALSE
