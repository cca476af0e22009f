CONSTANTS
    d1 = d1
    d2 = d2
    r1 = r1
    NoKey = NoKey
    EDeviceKeys = {d1}
    EReaderKeys = {r1}
    MaxCount = 2
    DocTypes <- MCDocTypes
    Items <- MCItems
    Documents <- MCDocuments
    Requests <- MCRequests
    Permissions <- MCPermissions
SPECIFICATION DeviceSpec
INVARIANTS
    ConsentRespected
    SignatureMatchesDocument
    EverythingAnswered
PROPERTY SigningCompletes
CHECK_DEADLOCK FALSE
