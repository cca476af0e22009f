CONSTANTS
    DeviceKeys_ <- MCDeviceKeyValues
    Namespaces = {"n1", "n2"}
    Elements = {"e1", "e2"}
    MaxU32 = 70000
SPECIFICATION DeviceKeysSpec
INVARIANT ListedIsPermitted
CHECK_DEADLOCK FALSE
