------------------------------ MODULE CoseKeys ------------------------------
(* COSE_Key: definitions/device_key/cose_key.rs.  Coordinates are byte strings    *)
(* [id, len]; a y coordinate is a byte string or a sign bit.                      *)
EXTENDS CborValues

EC2Curves == [P256 |-> 1, P384 |-> 2, P521 |-> 3, P256K |-> 8]
OKPCurves == [X25519 |-> 4, X448 |-> 5, Ed25519 |-> 6, Ed448 |-> 7]

EC2Key(crv, x, y) == [kty |-> "EC2", crv |-> crv, x |-> x, y |-> y]
OKPKey(crv, x) == [kty |-> "OKP", crv |-> crv, x |-> x]

\* The keys that the type allows: an EC2 curve with a y coordinate, or an OKP curve.
IsKey(key) ==
    \/ /\ key.kty = "EC2" /\ key = EC2Key(key.crv, key.x, key.y)
       /\ key.crv \in DOMAIN EC2Curves /\ (Is("bytes", key.y) \/ Is("bool", key.y))
    \/ key.kty = "OKP" /\ key = OKPKey(key.crv, key.x) /\ key.crv \in DOMAIN OKPCurves

\* The curve of an identifier, among the curves of the key type.
CurveOf(curves, id) == {crv \in DOMAIN curves : curves[crv] = id}

signature_algorithm(key) ==
    CASE key.crv = "P256" -> {"ES256"} [] key.crv = "P384" -> {"ES384"}
      [] key.crv = "P521" -> {"ES512"} [] key.crv \in {"Ed25519", "Ed448"} -> {"EdDSA"}
      [] OTHER -> {}

\* From<CoseKey> for Value
KeyValue(key) ==
    Map(IF key.kty = "EC2"
        THEN <<<<Integer(1), Integer(2)>>, <<Integer(-1), Integer(EC2Curves[key.crv])>>, <<Integer(-2), Bytes(key.x)>>,
               <<Integer(-3), key.y>>>>
        ELSE <<<<Integer(1), Integer(1)>>, <<Integer(-1), Integer(OKPCurves[key.crv])>>, <<Integer(-2), Bytes(key.x)>>>>)

\* EC2Y: a byte string or a bool.
EC2Y(v) == IF Is("bytes", v) \/ Is("bool", v) THEN {v} ELSE {}

\* TryFrom<Value> for CoseKey
KeyFromValue(v) ==
    UNION {IF {1, -1, -2} \subseteq DOMAIN m /\ Is("int", m[1]) /\ Is("int", m[-1]) /\ Is("bytes", m[-2])
           THEN CASE m[1].int = 2 ->
                       {EC2Key(crv, m[-2].bytes, y) :
                           crv \in CurveOf(EC2Curves, m[-1].int),
                           y \in UNION {EC2Y(w) : w \in Get(m, -3)}}
                  [] m[1].int = 1 -> {OKPKey(crv, m[-2].bytes) : crv \in CurveOf(OKPCurves, m[-1].int)}
                  [] OTHER -> {}
           ELSE {} : m \in IntegerMap(v)}

\* TryFrom<CoseKey> for EncodedPoint: a P-256 key with coordinates of 32 bytes; the
\* leading byte is 4, or 3 and 2 for the two sign bits.
EncodedPoint(key) ==
    IF key.crv # "P256" \/ key.x.len # 32 THEN {}
    ELSE IF Is("bytes", key.y)
         THEN IF key.y.bytes.len = 32 THEN {<<4, key.x, key.y.bytes>>} ELSE {}
         ELSE {<<IF key.y.bool THEN 3 ELSE 2, key.x>>}
=============================================================================
