CONSTANTS
    d1 = d1
    d2 = d2
    r1 = r1
    NoKey = NoKey
    EDeviceKeys = {d1}
    EReaderKeys = {r1}
    MaxCount = 2
    DocTypes <- MCDocTypes
    Items <- MCItems
    Documents <- MCDocuments
    Requests <- MCRequests
    Permissions <- MCPermissions
SPECIFICATION DeviceSpec
INVARIANT PermittedIsSpecified
CHECK_DEADLOCK FALSE
