CONSTANTS
    Engagements <- MCEngagements
    Alterations <- MCAlterations
    MaxU16 = 65535
    MaxU32 = 70000
    DeviceKeys_ <- MCDeviceKeyValues
    Namespaces = {"n1", "n2"}
    Elements = {"e1", "e2"}
    HolderAges = {8, 9, 17, 18, 20, 21, 22, 30}
    AgeSuffixes <- MCSuffixes
    OtherElements <- MCOtherElements
    Requests <- MCAgeRequests
    Kinds = {"iso", "aamva"}
    Base <- MCBase
    Values <- MCValues
    Keys <- MCElementKeys
    LaterKeys <- MCLaterKeys
    MaxChanges = 2
    MaxTime = 1000
    to_lowercase <- MCLowercase
    to_uppercase <- MCUppercase
SPECIFICATION DataSpec
INVARIANTS
    ScannedIsMeant
    TranscriptAgrees
    ReaderFindsDevice
    PermittedWasListed
    AnswerIsTrue
    AnswerIsNearest
    NothingLost
    JurisdictionInCountry
PROPERTY OnlyThatEntry
CHECK_DEADLOCK FALSE
