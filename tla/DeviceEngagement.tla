-------------------------- MODULE DeviceEngagement --------------------------
(***************************************************************************)
(* The device engagement: definitions/device_engagement.rs and its NFC       *)
(* options.  A device shows an engagement as a QR code, a reader scans a     *)
(* code, which may be another one, and derives from it the transports, the   *)
(* key and the bytes of the session transcript.                              *)
(***************************************************************************)
EXTENDS CoseKeys

CONSTANTS
    Engagements,        \* engagements that a device makes
    Alterations(_),     \* other contents that a reader may scan instead of a content
    MaxU16              \* the largest u16

VARIABLES
    device,      \* the engagement that the device shows: a Tag24 (Option)
    scanned,     \* what the reader scanned (Option)
    reader,      \* the engagement that the reader uses: a Tag24 (Option)
    session      \* where the reader connects, and with which point (Option)
engagementVars == <<device, scanned, reader, session>>

-----------------------------------------------------------------------------
(* nfc_options.rs *)

CommandMin == 255
CommandMax == 65535
ResponseMin == 256
ResponseMax == 65536

ASSUME WidthAssumption ==
    MaxU16 \in Nat /\ MaxU32 \in Nat /\ CommandMax <= MaxU16 /\ ResponseMax <= MaxU32 /\ MaxU16 < MaxU32

\* CommandDataLength::new, ResponseDataLength::new
NfcOptions(command, response) ==
    IF command \in CommandMin..CommandMax /\ response \in ResponseMin..ResponseMax
    THEN {[command |-> command, response |-> response]} ELSE {}

NfcValue(o) == Map(<<<<Integer(0), Integer(o.command)>>, <<Integer(1), Integer(o.response)>>>>)

\* The largest command length is the largest u16; the response length is compared with
\* its minimum only.
NfcFromValue(v) ==
    UNION {IF \A k \in {0, 1} : k \in DOMAIN m /\ Is("int", m[k])
           THEN IF m[0].int \in CommandMin..MaxU16 /\ m[1].int \in ResponseMin..MaxU32
                THEN {[command |-> m[0].int, response |-> m[1].int]} ELSE {}
           ELSE {} : m \in IntegerMap(v)}

-----------------------------------------------------------------------------
(* BLE and Wi-Fi *)

Uuid(v) == IF Is("bytes", v) /\ v.bytes.len = 16 THEN {v.bytes} ELSE {}

\* Both modes are always there, on or off.
BleValue(o) ==
    Map(<<<<Integer(1), Bool(o.central # {})>>>> \o Entry(11, o.central, Bytes)
        \o <<<<Integer(0), Bool(o.peripheral # {})>>>> \o Entry(10, o.peripheral, Bytes)
        \o IF o.peripheral = {} THEN <<>> ELSE Entry(20, o.address, Bytes))

\* A mode is on with its UUID, or off; anything else is malformed.
Mode(m, flag, label) ==
    CASE Get(m, flag) = {Bool(TRUE)} -> {{u} : u \in UNION {Uuid(v) : v \in Get(m, label)}}
      [] Get(m, flag) = {Bool(FALSE)} -> {{}}
      [] OTHER -> {}

\* The address is looked for in peripheral server mode only.
Address(m) == IF Get(m, 0) = {Bool(TRUE)} THEN Optional(m, 20, ByteStr) ELSE {{}}

BleFromValue(v) ==
    UNION {{[central |-> c, peripheral |-> p, address |-> a] :
                c \in Mode(m, 1, 11), p \in Mode(m, 0, 10), a \in Address(m)} :
           m \in IntegerMap(v)}

\* Mutant: class and channel change places.
WifiValue_Swapped(o) ==
    Map(Entry(0, o.pass_phrase, Text) \o Entry(1, o.channel_number, Integer)
        \o Entry(2, o.operating_class, Integer) \o Entry(3, o.band_info, Bytes))

WifiValue(o) ==
    Map(Entry(0, o.pass_phrase, Text) \o Entry(1, o.operating_class, Integer)
        \o Entry(2, o.channel_number, Integer) \o Entry(3, o.band_info, Bytes))

WifiFromValue(v) ==
    UNION {{[pass_phrase |-> p, operating_class |-> o, channel_number |-> c, band_info |-> b] :
                p \in Optional(m, 0, String), o \in Optional(m, 1, Unsigned),
                c \in Optional(m, 2, Unsigned), b \in Optional(m, 3, ByteStr)} :
           m \in IntegerMap(v)}

-----------------------------------------------------------------------------
(* DeviceRetrievalMethod, ServerRetrievalMethods, DeviceEngagement *)

transport_type(kind) == CASE kind = "NFC" -> 1 [] kind = "BLE" -> 2 [] kind = "WIFI" -> 3

Method(kind, options) == [kind |-> kind, options |-> options]

MethodValue(method) ==
    Array(<<Integer(transport_type(method.kind)), Integer(1),
            CASE method.kind = "NFC" -> NfcValue(method.options)
              [] method.kind = "BLE" -> BleValue(method.options)
              [] method.kind = "WIFI" -> WifiValue(method.options)>>)

MethodFromValue(v) ==
    IF Is("array", v) /\ Len(v.array) = 3 /\ Is("int", v.array[1]) /\ v.array[2] = Integer(1)
    THEN CASE v.array[1].int = 1 -> {Method("NFC", o) : o \in NfcFromValue(v.array[3])}
           [] v.array[1].int = 2 -> {Method("BLE", o) : o \in BleFromValue(v.array[3])}
           [] v.array[1].int = 3 -> {Method("WIFI", o) : o \in WifiFromValue(v.array[3])}
           [] OTHER -> {}
    ELSE {}

\* A service is a triple of version, URL and token.  A tuple takes the first entries of an
\* array; what follows them is not looked at.
ServiceValue(s) == Array(<<Integer(s[1]), Text(s[2]), Text(s[3])>>)
ServiceFromValue(v) ==
    IF Is("array", v) /\ Len(v.array) >= 3
    THEN {<<x, y, z>> : x \in Unsigned(v.array[1]), y \in String(v.array[2]), z \in String(v.array[3])}
    ELSE {}

ServerValue(m) ==
    Map(FieldEntry("webApi", m.web_api, ServiceValue) \o FieldEntry("oidc", m.oidc, ServiceValue))
ServerFromValue(v) ==
    IF Is("map", v)
    THEN {[web_api |-> w, oidc |-> o] : w \in Field(v, "webApi", ServiceFromValue),
                                        o \in Field(v, "oidc", ServiceFromValue)}
    ELSE {}

\* From<DeviceEngagement> for Value; protocol_info is not written.
EngagementValue(e) ==
    Map(<<<<Integer(0), Text(e.version)>>, <<Integer(1), Array(<<Integer(e.cipher), Tag24Value(e.key)>>)>>>>
        \o Entry(2, e.methods, LAMBDA ms : Array([i \in DOMAIN ms |-> MethodValue(ms[i])]))
        \o Entry(3, e.server, ServerValue))

KeyBytes(v) == UNION {Tag24FromBytes(b, FromSlice(b, KeyFromValue)) : b \in Tag24Bytes(v)}
Methods(v) == NonEmptyVec(Decoded(v, MethodFromValue))
AnyValue(v) == {v}

\* TryFrom<Value> for DeviceEngagement; protocol_info is kept as it is.
EngagementFromMap(m) ==
    IF /\ Get(m, 0) = {Text("1.0")}
       /\ 1 \in DOMAIN m /\ Is("array", m[1]) /\ Len(m[1].array) >= 2
    THEN {[version |-> "1.0", cipher |-> c, key |-> k, methods |-> ms, server |-> s, protocol_info |-> p] :
             c \in Unsigned(m[1].array[1]), k \in KeyBytes(m[1].array[2]), ms \in Optional(m, 2, Methods),
             s \in Optional(m, 3, ServerFromValue), p \in Optional(m, 4, AnyValue)}
    ELSE {}
EngagementFromValue(v) == UNION {EngagementFromMap(m) : m \in IntegerMap(v)}

\* A QR code URI is its prefix and the encoded engagement; base64 is injective.
to_qr_code_uri(t) == [prefix |-> "mdoc:", encoded |-> t.inner_bytes]

\* Mutant: the bytes are made again from what was read.
from_qr_code_uri_Again(uri) ==
    IF uri.prefix = "mdoc:"
    THEN {Tag24New(e, EngagementValue(e)) : e \in FromSlice(uri.encoded, EngagementFromValue)} ELSE {}

from_qr_code_uri(uri) ==
    IF uri.prefix = "mdoc:" THEN Tag24FromBytes(uri.encoded, FromSlice(uri.encoded, EngagementFromValue)) ELSE {}

Central(method) == IF method.kind = "BLE" THEN method.options.central ELSE {}

\* Mutant: of the methods only the first is looked at.
first_central_client_uuid_FirstMethod(e) == UNION {Central(ms[1]) : ms \in e.methods}

\* The first central client among the methods.
first_central_client_uuid(e) ==
    UNION {LET offers == {i \in DOMAIN ms : Central(ms[i]) # {}}
           IN  UNION {Central(ms[i]) : i \in {j \in offers : \A k \in offers : j <= k}} :
           ms \in e.methods}

-----------------------------------------------------------------------------
(* What the types of the library allow a device to make *)

\* A BLE address belongs to the peripheral server mode.
IsBle(o) ==
    /\ o = [central |-> o.central, peripheral |-> o.peripheral, address |-> o.address]
    /\ AtMostOne(o.central) /\ AtMostOne(o.peripheral) /\ AtMostOne(o.address)
    /\ \A u \in o.central \cup o.peripheral : u.len = 16
    /\ o.peripheral = {} => o.address = {}

IsWifi(o) ==
    /\ o = [pass_phrase |-> o.pass_phrase, operating_class |-> o.operating_class,
            channel_number |-> o.channel_number, band_info |-> o.band_info]
    /\ AtMostOne(o.pass_phrase) /\ AtMostOne(o.band_info)
    /\ AtMostOne(o.operating_class) /\ o.operating_class \subseteq Nat
    /\ AtMostOne(o.channel_number) /\ o.channel_number \subseteq Nat

IsMethod(method) ==
    /\ method = Method(method.kind, method.options)
    /\ \/ method.kind = "NFC" /\ method.options \in [command : CommandMin..CommandMax, response : ResponseMin..ResponseMax]
       \/ method.kind = "BLE" /\ IsBle(method.options)
       \/ method.kind = "WIFI" /\ IsWifi(method.options)

IsMethods(ms) == ms = [i \in 1..Len(ms) |-> ms[i]] /\ Len(ms) \in Nat \ {0} /\ \A i \in DOMAIN ms : IsMethod(ms[i])

IsService(s) == s = <<s[1], s[2], s[3]>> /\ s[1] \in Nat

IsServer(m) ==
    /\ m = [web_api |-> m.web_api, oidc |-> m.oidc]
    /\ AtMostOne(m.web_api) /\ AtMostOne(m.oidc) /\ \A s \in m.web_api \cup m.oidc : IsService(s)

IsEngagement(e) ==
    /\ e = [version |-> "1.0", cipher |-> e.cipher, key |-> e.key, methods |-> e.methods, server |-> e.server,
            protocol_info |-> e.protocol_info]
    /\ e.cipher \in Nat /\ IsKey(e.key.inner) /\ e.key = Tag24New(e.key.inner, KeyValue(e.key.inner))
    /\ AtMostOne(e.methods) /\ \A ms \in e.methods : IsMethods(ms)
    /\ AtMostOne(e.server) /\ \A m \in e.server : IsServer(m)

ASSUME EngagementsAssumption == \A e \in Engagements : IsEngagement(e)

\* A code that is scanned: a value has the field of its type only.
IsValue(v) ==
    /\ Is("int", v) => v = Integer(v.int)
    /\ Is("bytes", v) => v = Bytes(v.bytes)
    /\ Is("tag", v) => v = Tag(v.tag, v.content)
    /\ Is("array", v) => v = Array([i \in 1..Len(v.array) |-> v.array[i]]) /\ Len(v.array) \in Nat
    /\ Is("map", v) => DOMAIN v.map = 1..Len(v.map) /\ Len(v.map) \in Nat

IsCode(uri) ==
    /\ uri = [prefix |-> uri.prefix, encoded |-> uri.encoded] /\ IsValue(uri.encoded.item)
    /\ Is("map", uri.encoded.item) =>
        \A k \in DOMAIN uri.encoded.item.map :
            LET v == uri.encoded.item.map[k][2]
            IN  /\ IsValue(v)
                /\ Is("array", v) => \A i \in DOMAIN v.array :
                        IsValue(v.array[i]) /\ (Is("tag", v.array[i]) => IsValue(v.array[i].content))

ASSUME CodesAssumption ==
    \A e \in Engagements : \A uri \in Alterations(to_qr_code_uri(Tag24New(e, EngagementValue(e)))) : IsCode(uri)

-----------------------------------------------------------------------------
(* Operations *)

EngagementInit == device = {} /\ scanned = {} /\ reader = {} /\ session = {}

Engage ==
    /\ device = {}
    /\ \E e \in Engagements : device' = {Tag24New(e, EngagementValue(e))}
    /\ UNCHANGED <<scanned, reader, session>>

\* The reader scans the code of the device, or another one.
Scan ==
    /\ scanned = {}
    /\ \E t \in device :
        \E uri \in {to_qr_code_uri(t)} \cup Alterations(to_qr_code_uri(t)) :
            /\ scanned' = {uri}
            /\ reader' = from_qr_code_uri(uri)
    /\ UNCHANGED <<device, session>>

\* The reader agrees on a key with the point of the scanned key, or fails, and asks where
\* to connect.
Connect ==
    /\ session = {}
    /\ \E t \in reader : \E point \in EncodedPoint(t.inner.key.inner) :
        session' = {[uuid |-> first_central_client_uuid(t.inner), point |-> point]}
    /\ UNCHANGED <<device, scanned, reader>>

EngagementNext == Engage \/ Scan \/ Connect

EngagementSpec == EngagementInit /\ [][EngagementNext]_engagementVars

-----------------------------------------------------------------------------
(* Properties *)

WithoutProtocolInfo(e) == [e EXCEPT !.protocol_info = {}]

\* A reader that scans what the device shows uses what the device meant, apart from
\* protocol_info: the encoding and the decoding are inverse.
ScannedIsMeant ==
    \A t \in device : scanned = {to_qr_code_uri(t)} =>
        {u.inner : u \in reader} = {WithoutProtocolInfo(t.inner)}

\* The entry of the security of engagement e.
IsSecurityOf(v, e) ==
    /\ Is("array", v) /\ Len(v.array) >= 2
    /\ v.array[1] = Integer(e.cipher) /\ v.array[2] = Tag24Value(e.key)

\* The reader puts the scanned bytes into the session transcript, as the device does,
\* and shows them again as the same code, also when the code has parts that the library
\* does not write itself: repeated or unknown entries, protocol information, longer
\* arrays, bytes after the item (Tag24::from_bytes).
TranscriptAgrees ==
    \A t \in reader, uri \in scanned :
        /\ to_qr_code_uri(t) = uri
        /\ \E k \in DOMAIN uri.encoded.item.map : IsSecurityOf(uri.encoded.item.map[k][2], t.inner)

\* A reader of the code of a device that offers to be a central client finds it, after
\* whatever other methods, and agrees on a key with the point that the device has.
ReaderFindsDevice ==
    \A t \in device, found \in session : scanned = {to_qr_code_uri(t)} =>
        /\ {found.point} = EncodedPoint(t.inner.key.inner)
        /\ \A ms \in t.inner.methods : \A i \in DOMAIN ms :
            Central(ms[i]) # {} => found.uuid # {} /\ \E j \in 1..i : found.uuid = Central(ms[j])

-----------------------------------------------------------------------------
(* The inductive invariant: what the reader uses is read from one code, that of the device *)
(* or another, and the session is that of the engagement that the reader uses.             *)
EngagementInv ==
    /\ AtMostOne(device) /\ \A t \in device : \E e \in Engagements : t = Tag24New(e, EngagementValue(e))
    /\ AtMostOne(scanned) /\ (scanned = {} => reader = {})
    /\ \A uri \in scanned :
        /\ reader = from_qr_code_uri(uri)
        /\ \E t \in device : uri \in {to_qr_code_uri(t)} \cup Alterations(to_qr_code_uri(t))
    /\ \A found \in session : \E t \in reader :
        found.point \in EncodedPoint(t.inner.key.inner) /\ found.uuid = first_central_client_uuid(t.inner)
=============================================================================
