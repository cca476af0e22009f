----------------------------- MODULE MCNamespace -----------------------------
(* Instance of NamespaceElements for TLC: a complete description of each kind and strings *)
(* at the limits of the types.  Times are minutes; the numbers stand for the largest u32   *)
(* and the last minute that can be written.                                               *)
EXTENDS NamespaceElements

Str(w) == [word |-> w, chars |-> 8, bytes |-> 8, latin |-> TRUE, digits |-> 0, begins |-> {}, base64 |-> {}, time |-> {}]
MCWord(w) == Text(Str(w))
Day(d) == Text([Str("date") EXCEPT !.time = {[day |-> d]}])
Moment(l, o, f) == Text([Str("date-time") EXCEPT !.time = {[local |-> l, offset |-> o, fraction |-> f]}])
Long(c, b, l) == Text([Str("name") EXCEPT !.chars = c, !.bytes = b, !.latin = l])
Country(c) == Text([Str(c) EXCEPT !.begins = {c}])
Jurisdiction(w, c) == Text([Str(w) EXCEPT !.begins = {c}])
Base64(b) == Text([Str("base64") EXCEPT !.base64 = {b}])

Obj(pairs) == Object([k \in {Name(p[1]) : p \in pairs} |-> (CHOOSE p \in pairs : Name(p[1]) = k)[2]])

Privilege ==
    Obj({<<"vehicle_category_code", MCWord("c1e")>>, <<"issue_date", Day(10)>>, <<"expiry_date", Null>>,
         <<"codes", Array(<<Obj({<<"code", MCWord("01")>>, <<"sign", MCWord("=")>>})>>)>>})
Domestic ==
    Obj({<<"domestic_vehicle_class", Obj({<<"domestic_vehicle_class_code", MCWord("A")>>,
                                          <<"domestic_vehicle_class_description", MCWord("unknown")>>})>>,
         <<"domestic_vehicle_restrictions", Array(<<Obj({<<"domestic_vehicle_restriction_description", MCWord("glasses")>>})>>)>>,
         <<"domestic_vehicle_endorsements", Array(<<Obj({<<"domestic_vehicle_endorsement_description", MCWord("tanks")>>})>>)>>})

MCBase(k) ==
    IF k = "iso"
    THEN (Key("age_over_", <<1, 8>>) :> Bool(TRUE)) @@ (Key("biometric_template_", <<10>>) :> Base64("face")) @@
         Obj({<<"family_name", Long(4, 4, TRUE)>>, <<"given_name", Long(5, 6, TRUE)>>, <<"birth_date", Day(1)>>,
              <<"issue_date", Moment(100, 60, TRUE)>>, <<"expiry_date", Day(200)>>, <<"issuing_country", Country("US")>>,
              <<"issuing_authority", MCWord("DMV")>>, <<"document_number", MCWord("DL1")>>, <<"portrait", Base64("jpeg")>>,
              <<"driving_privileges", Array(<<Privilege>>)>>, <<"un_distinguishing_sign", MCWord("USA")>>,
              <<"sex", Integer(1)>>, <<"height", Integer(170)>>, <<"eye_colour", MCWord("Hazel")>>,
              <<"issuing_jurisdiction", Jurisdiction("US-NY", "US")>>, <<"nationality", Country("CA")>>}).object
    ELSE Obj({<<"domestic_driving_privileges", Array(<<Domestic>>)>>, <<"family_name_truncation", MCWord("N")>>,
              <<"given_name_truncation", MCWord("U")>>, <<"sex", Integer(9)>>, <<"DHS_compliance", MCWord("F")>>,
              <<"organ_donor", Integer(1)>>, <<"name_suffix", MCWord("III")>>}).object

MCValues ==
    {Null, Bool(FALSE), Integer(-1), Integer(0), Integer(9), Integer(MaxU32), Integer(MaxU32 + 1), Array(<<>>),
     MCWord("T"), MCWord("Hazel"), MCWord("JR"), Text([Str("001") EXCEPT !.digits = 3]), Day(366),
     Moment(0, 1, FALSE), Moment(MaxTime - 60, -60, TRUE), Moment(MaxTime, 60, TRUE),
     Long(150, 150, TRUE), Long(76, 152, TRUE), Long(3, 6, FALSE),
     Country("US"), Country("CA"), Country("XX"), Jurisdiction("CA-ON", "CA"), Base64("png"),
     Array(<<Privilege, Obj({<<"vehicle_category_code", MCWord("T")>>})>>),
     Array(<<Obj({<<"vehicle_category_code", MCWord("A")>>, <<"codes", Array(<<>>)>>})>>),
     Array(<<Obj({<<"domestic_vehicle_class", Null>>})>>)}

MCElementKeys(k) ==
    {Name(f.name) : f \in Fields(k)} \cup {Name("nickname")} \cup
    (IF k = "iso" THEN {Name("issuing_jurisdiction"), Key("age_over_", <<2, 1>>), Key("age_over_", <<7>>),
                        Key("biometric_template_", <<>>), Key("biometric_template_", <<10>>)} ELSE {})
MCLaterKeys == {Name(x) : x \in {"issuing_country", "issuing_jurisdiction", "expiry_date"}}

MCLowercase(s) == IF s.word = "Hazel" THEN [s EXCEPT !.word = "hazel"] ELSE s
MCUppercase(s) == IF s.word = "c1e" THEN [s EXCEPT !.word = "C1E"] ELSE s
=============================================================================
