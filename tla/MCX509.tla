------------------------------- MODULE MCX509 -------------------------------
(* Instance of X509Validation for TLC: certificates that differ from a good one in   *)
(* one respect, for every check, and registries of up to two anchors.              *)
EXTENDS X509Validation

Name(cn, countries, states) == [CN |-> <<cn>>, C |-> countries, ST |-> states]
Ext(oid, critical, v) == [oid |-> oid, critical |-> critical, value |-> {v}]
Point(names, issuer) == [full_name |-> names, crl_issuer |-> issuer, reasons |-> FALSE]

\* The extensions that every profile has, and the ones of the three profiles.
Common(key, usage) ==
    <<Ext("SubjectKeyIdentifier", FALSE, key), Ext("KeyUsage", TRUE, usage),
      Ext("CrlDistributionPoints", FALSE, <<Point({"uri"}, FALSE)>>),
      Ext("IssuerAlternativeName", FALSE, {"rfc822"})>>
CaExtensions(key, path) ==
    Append(Common(key, {"CRLSign", "KeyCertSign"}),
           Ext("BasicConstraints", TRUE, [ca |-> TRUE, path_len |-> path]))
LeafExtensions(key, authority, usage, oids) ==
    Common(key, usage) \o <<Ext("AuthorityKeyIdentifier", FALSE, authority),
                            Ext("ExtendedKeyUsage", TRUE, oids)>>

Certificate(subject, issuer, key, signer, curve, from, to, extensions) ==
    [subject |-> subject, issuer |-> issuer, key |-> key,
     signature |-> [curve |-> "P-256", key |-> signer],
     spki |-> [algorithm |-> "id-ecPublicKey", curve |-> curve, unused_bits |-> 0],
     not_before |-> from, not_after |-> to, extensions |-> extensions]

rootName == Name("root", <<"US">>, <<>>)
stateName == Name("state root", <<"US">>, <<"NY">>)
twiceName == Name("twice root", <<"US", "US">>, <<>>)
readerName == Name("reader root", <<"US">>, <<>>)
Ca(name, key, curve, to, path) ==
    Certificate(name, name, key, key, curve, 0, to, CaExtensions(key, path))
Ds(name, issuer, signer) ==
    Certificate(name, issuer, "kd", signer, "P-256", 0, 1,
        LeafExtensions("kd", "kr", {"DigitalSignature"}, {"1.0.18013.5.1.2"}))
good == Ds(Name("ds", <<"US">>, <<>>), rootName, "kr")
Replaced(i, ext) == [good EXCEPT !.extensions[i] = ext]
Added(ext) == [good EXCEPT !.extensions = Append(@, ext)]

CertNames ==
    {"root", "rootLong", "rootOld", "rootWide", "rootState", "rootTwice", "readerCa",
     "ds", "dsForged", "dsState", "dsOtherState", "dsNoState", "dsLoneState",
     "dsOtherCountry", "dsNoCountry", "dsTwice", "dsOfTwice", "dsOld", "dsFuture",
     "dsWrongSki", "dsBrokenSki", "dsUsage", "dsPoints", "dsNames", "dsNoAki",
     "dsCriticalAki", "dsBothUses", "dsNoUse", "dsAgain", "dsMapped", "dsPlain", "reader"}

CertOf(c) ==
    CASE c = "root" -> Ca(rootName, "kr", "P-256", 1, {0})
      [] c = "rootLong" -> Ca(rootName, "kr", "P-256", 1, {1})
      [] c = "rootOld" -> Ca(rootName, "kr", "P-256", 0, {0})
      [] c = "rootWide" -> Ca(rootName, "kr", "P-384", 1, {0})
      [] c = "rootState" -> Ca(stateName, "kr", "P-256", 1, {0})
      [] c = "rootTwice" -> Ca(twiceName, "kr", "P-256", 1, {0})
      [] c = "readerCa" -> Ca(readerName, "kr", "P-256", 1, {})
      [] c = "ds" -> good
      [] c = "dsForged" -> Ds(good.subject, rootName, "kx")
      [] c = "dsState" -> Ds(Name("ds", <<"US">>, <<"NY">>), stateName, "kr")
      [] c = "dsOtherState" -> Ds(Name("ds", <<"US">>, <<"CA">>), stateName, "kr")
      [] c = "dsNoState" -> Ds(Name("ds", <<"US">>, <<>>), stateName, "kr")
      [] c = "dsLoneState" -> Ds(Name("ds", <<"US">>, <<"NY">>), rootName, "kr")
      [] c = "dsOtherCountry" -> Ds(Name("ds", <<"CA">>, <<>>), rootName, "kr")
      [] c = "dsNoCountry" -> Ds(Name("ds", <<>>, <<>>), rootName, "kr")
      [] c = "dsTwice" -> Ds(Name("twice ds", <<"US", "US">>, <<>>), rootName, "kr")
      [] c = "dsOfTwice" -> Ds(Name("ds", <<"US">>, <<>>), twiceName, "kr")
      [] c = "dsOld" -> [good EXCEPT !.not_after = 0]
      [] c = "dsFuture" -> [good EXCEPT !.not_before = 1]
      [] c = "dsWrongSki" -> Replaced(1, Ext("SubjectKeyIdentifier", FALSE, "kx"))
      [] c = "dsBrokenSki" -> Replaced(1, [oid |-> "SubjectKeyIdentifier", critical |-> FALSE, value |-> {}])
      [] c = "dsUsage" -> Replaced(2, Ext("KeyUsage", TRUE, {"DigitalSignature", "KeyCertSign"}))
      [] c = "dsPoints" -> Replaced(3, Ext("CrlDistributionPoints", FALSE,
                                 <<Point({"uri"}, FALSE), Point({"uri"}, TRUE)>>))
      [] c = "dsNames" -> Replaced(4, Ext("IssuerAlternativeName", FALSE, {"uri", "dns"}))
      [] c = "dsNoAki" -> Replaced(5, Ext("Other", FALSE, "x"))
      [] c = "dsCriticalAki" -> Replaced(5, Ext("AuthorityKeyIdentifier", TRUE, "kr"))
      [] c = "dsBothUses" -> Replaced(6, Ext("ExtendedKeyUsage", TRUE, {"1.0.18013.5.1.2", "1.0.18013.5.1.6"}))
      [] c = "dsNoUse" -> Replaced(6, Ext("Other", FALSE, "x"))
      [] c = "dsAgain" -> Added(Ext("KeyUsage", FALSE, {"KeyCertSign"}))
      [] c = "dsMapped" -> Added(Ext("PolicyMappings", FALSE, "x"))
      [] c = "dsPlain" -> Added(Ext("Other", FALSE, "x"))
      [] c = "reader" -> [good EXCEPT !.issuer = readerName,
                            !.extensions[6] = Ext("ExtendedKeyUsage", TRUE, {"1.0.18013.5.1.6"})]
MCCert == [c \in CertNames |-> CertOf(c)]

Roots == {"root", "rootLong", "rootOld", "rootWide", "rootState", "rootTwice", "readerCa"}
Anchors == [certificate : Roots, purpose : {"Iaca"}]
              \cup [certificate : {"root", "readerCa"}, purpose : {"ReaderCa"}]
Broken == [certificate |-> "broken", purpose |-> "Iaca"]
MCPemLists == {<<a>> : a \in Anchors} \cup {<<a, b>> : a, b \in Anchors}
                  \cup {<<CHOOSE a \in Anchors : TRUE, Broken>>}

Header(kind, items) == [kind |-> kind, items |-> items]
MCCborChains == {Header("bytes", <<c>>) : c \in DOMAIN MCCert \ {"rootLong", "rootOld", "rootWide"}}
    \cup {Header("array", <<"ds", "root">>), Header("array", <<"dsForged", "ds", "root">>),
           Header("array", <<"ds", "broken">>), Header("array", <<>>), Header("text", <<"ds">>)}
=============================================================================
