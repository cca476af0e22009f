---------------------------- MODULE MCDeviceKeys ----------------------------
(* Instance of DeviceKeys for TLC: every authorization over two namespaces and two     *)
(* elements, and keys of each kind.                                                    *)
EXTENDS DeviceKeys

Coordinate(id, len) == [id |-> id, len |-> len]
MCDeviceKeyValues == {EC2Key("P256", Coordinate("x", 32), Bytes(Coordinate("y", 32))),
           EC2Key("P384", Coordinate("x", 48), Bool(FALSE)),
           OKPKey("Ed448", Coordinate("x", 57)), OKPKey("X25519", Coordinate("x", 32))}
=============================================================================
