---------------------------- MODULE MCEngagement ----------------------------
(* Instance of DeviceEngagement for TLC: engagements with every kind of method, and   *)
(* codes that differ from the one shown in one place.                                *)
EXTENDS DeviceEngagement

B(id, len) == [id |-> id, len |-> len]
coordinate == B("x", 32)
keys == {EC2Key("P256", coordinate, Bytes(B("y", 32))), EC2Key("P256", coordinate, Bool(TRUE)),
         EC2Key("P256K", B("x", 31), Bytes(B("y", 32))), OKPKey("Ed25519", coordinate)}
key == LET k == CHOOSE k \in keys : k.crv = "P256" IN Tag24New(k, KeyValue(k))

Ble(central, peripheral, address) ==
    Method("BLE", [central |-> central, peripheral |-> peripheral, address |-> address])
Wifi(p, o, c, b) ==
    Method("WIFI", [pass_phrase |-> p, operating_class |-> o, channel_number |-> c, band_info |-> b])
Nfc(command, response) == Method("NFC", CHOOSE o \in NfcOptions(command, response) : TRUE)
uuid1 == B("u1", 16)
uuid2 == B("u2", 16)
methods == {Ble({uuid1}, {}, {}), Ble({}, {uuid2}, {B("a", 6)}), Ble({uuid2}, {uuid1}, {}), Ble({}, {}, {}),
            Nfc(255, 256), Nfc(65535, 65536), Wifi({}, {}, {}, {}), Wifi({"p"}, {1}, {2}, {B("b", 3)})}

Engagement(k, ms, server, info) ==
    [version |-> "1.0", cipher |-> 1, key |-> k, methods |-> ms, server |-> server, protocol_info |-> info]
service == <<1, "url", "token">>
MCEngagements ==
    {Engagement(Tag24New(k, KeyValue(k)), {}, {}, {}) : k \in keys}
    \cup {Engagement(key, {<<a>>}, {}, {}) : a \in methods}
    \cup {Engagement(key, {<<a, b>>}, {}, {}) : a, b \in methods}
    \cup {Engagement(key, {}, {[web_api |-> w, oidc |-> o]}, {}) : w, o \in {{}, {service}}}
    \cup {Engagement(key, {}, {}, {Integer(7)})}

\* Methods and keys that the library does not write.
RawMethod(transport, version, entries) == Array(<<Integer(transport), version, Map(entries)>>)
rawMethods ==
    {RawMethod(1, Integer(1), <<<<Integer(0), Integer(c)>>, <<Integer(1), Integer(r)>>>>) :
        c \in {254, 255, 65535, 65536}, r \in {255, 256, 65536, 65537}}
    \cup {RawMethod(1, Integer(1), <<<<Integer(0), Integer(255)>>>>),
          RawMethod(2, Integer(1), <<<<Integer(1), Bool(TRUE)>>, <<Integer(0), Bool(FALSE)>>>>),
          RawMethod(2, Integer(1), <<<<Integer(1), Bool(TRUE)>>, <<Integer(11), Bytes(B("u", 15))>>, <<Integer(0), Bool(FALSE)>>>>),
          RawMethod(2, Integer(1), <<<<Integer(1), Bool(FALSE)>>>>),
          RawMethod(2, Integer(1), <<<<Integer(0), Bool(FALSE)>>, <<Integer(1), Bool(TRUE)>>, <<Integer(11), Bytes(uuid1)>>,
                                    <<Integer(11), Bytes(uuid2)>>, <<Integer(20), Bytes(B("a", 6))>>>>),
          RawMethod(3, Integer(1), <<<<Integer(1), Integer(-1)>>>>), RawMethod(3, Integer(1), <<<<Text("a"), Integer(1)>>>>),
          RawMethod(3, Integer(1), <<<<Integer(9), Integer(1)>>, <<Integer(0), Text("p")>>>>),
          RawMethod(3, Integer(2), <<>>), RawMethod(4, Integer(1), <<>>), Integer(3)}
rawKeys ==
    {Map(<<<<Integer(1), Integer(t)>>, <<Integer(-1), Integer(c)>>, <<Integer(-2), Bytes(coordinate)>>>> \o y) :
        t \in 1..3, c \in {1, 6, 9}, y \in {<<>>, <<<<Integer(-3), Bool(TRUE)>>>>, <<<<Integer(-3), Integer(1)>>>>}}

\* An array with one more entry than its tuple has.
Longer(v) == Array(Append(v.array, Integer(7)))

Rewritten(uri, item) == [uri EXCEPT !.encoded.item = item]
MCAlterations(uri) ==
    LET entries == uri.encoded.item.map
        odd == {Integer(7), Text("2.0"), Array(<<>>), Map(<<>>)}
    IN  {[uri EXCEPT !.prefix = "mdoc"], [uri EXCEPT !.encoded.rest = "more"], Rewritten(uri, Broken),
         Rewritten(uri, Array(<<>>)), Rewritten(uri, Map(Append(entries, <<Text("k"), Integer(1)>>)))}
        \cup {Rewritten(uri, Map(RemoveAt(entries, i))) : i \in DOMAIN entries}
        \cup {Rewritten(uri, Map(Append(entries, <<Integer(k), v>>))) : k \in 0..5, v \in odd}
        \cup IF Len(entries) > 2 THEN {}
             ELSE {Rewritten(uri, Map(Append(entries, <<Integer(2), Array(<<m>>)>>))) : m \in rawMethods}
                  \cup {Rewritten(uri, Map(<<entries[1], <<Integer(1), Array(<<Integer(1), Tag(n, Bytes(to_vec(k)))>>)>>>>)) :
                           k \in rawKeys, n \in {24, 25}}
                  \cup {Rewritten(uri, Map(<<entries[1], <<Integer(1), Longer(entries[2][2])>>>>))}
                  \cup {Rewritten(uri, Map(Append(entries, <<Integer(3), Map(<<<<Text("oidc"), v>>, <<Text(k), v>>>>)>>))) :
                           k \in {"oidc", "other"}, v \in {ServiceValue(service), Longer(ServiceValue(service)), Integer(1)}}
=============================================================================
