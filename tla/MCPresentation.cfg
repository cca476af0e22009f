CONSTANTS
    EDeviceKeys = {d1, d2}
    EReaderKeys = {r1, r2}
    NoKey = NoKey
    MaxCount = 2
    DocTypes <- MCDocTypes
    Items <- MCItems
    Documents <- MCDocuments
    Requests = {}
    Permissions <- MCPermissions
    Mdl = 1
    IsoItems <- MCIsoItems
    AamvaItems <- MCAamvaItems
    JsonItems <- MCItems
    Issuer <- MCIssuer
    Wanted <- MCWanted
SYMMETRY Symmetry
CONSTRAINTS
    ShortAfterRestart
    OneReaderContinues
SPECIFICATION Spec
INVARIANTS
    SessionInv
    OpenedInOrder
    AcceptedWasGranted
    NonceUnique
    OneReaderPerEngagement
PROPERTIES
    DeliverySpec
    CountersOnlyGrow
CHECK_DEADLOCK FALSE
