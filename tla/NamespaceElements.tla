-------------------------- MODULE NamespaceElements --------------------------
(***************************************************************************)
(* How a JSON description becomes the elements of a credential: FromJson and *)
(* ToCbor of definitions/traits, what the derive macros generate for a       *)
(* structure, the types of the two namespaces, and the two structures        *)
(* OrgIso1801351 and OrgIso1801351Aamva.                                     *)
(*                                                                         *)
(* A JSON value is null, bool, int, text, array or object; an object maps    *)
(* identifiers (AgeOver) to values, and so does a map of elements.  A string *)
(* is a record: its word, how many characters and bytes it has, whether all  *)
(* are Latin 1, how many digits it is, the countries that it begins with,    *)
(* the bytes and the time that it encodes (Options).  A date-time is its     *)
(* local time, its offset and whether it has a fraction; a date is its day.  *)
(* A conversion goes from JSON to CBOR at once, a set with at most one       *)
(* member.                                                                   *)
(***************************************************************************)
EXTENDS AgeOver

CONSTANTS
    Kinds,            \* the structures that are converted: "iso", "aamva"
    Base(_),          \* a JSON object of each kind
    Values,           \* JSON values that an application may put in
    Keys(_),          \* identifiers of each kind that it may change
    LaterKeys,        \* identifiers that it may change after that
    MaxChanges,       \* how often it changes the description
    MaxTime,          \* the last moment of the year 9999, where 0 is the first of the year 0
    to_lowercase(_), to_uppercase(_)    \* on strings

VARIABLES
    kind,       \* the structure that is converted
    json,       \* its JSON description
    result,     \* what the last conversion did
    changes     \* how often the description was changed
namespaceVars == <<kind, json, result, changes>>

\* Entries of a description have identifiers.
IsIdentifier(j) == j = Key(j.base, j.suffix)
ASSUME IdentifiersAssumption == \A k \in Kinds : \A j \in DOMAIN Base(k) \cup Keys(k) : IsIdentifier(j)

Null == [null |-> TRUE]
Object(m) == [object |-> m]

-----------------------------------------------------------------------------
(* Types *)

MaxLatin1 == 150

Latin1(s) == IF s.bytes <= MaxLatin1 /\ s.latin THEN {Text(s)} ELSE {}

Alpha2 ==
    {"AD", "AE", "AF", "AG", "AI", "AL", "AM", "AO", "AQ", "AR", "AS", "AT", "AU", "AW", "AX", "AZ", "BA", "BB",
     "BD", "BE", "BF", "BG", "BH", "BI", "BJ", "BL", "BM", "BN", "BO", "BQ", "BR", "BS", "BT", "BV", "BW", "BY",
     "BZ", "CA", "CC", "CD", "CF", "CG", "CH", "CI", "CK", "CL", "CM", "CN", "CO", "CR", "CU", "CV", "CW", "CX",
     "CY", "CZ", "DE", "DJ", "DK", "DM", "DO", "DZ", "EC", "EE", "EG", "EH", "ER", "ES", "ET", "FI", "FJ", "FK",
     "FM", "FO", "FR", "GA", "GB", "GD", "GE", "GF", "GG", "GH", "GI", "GL", "GM", "GN", "GP", "GQ", "GR", "GS",
     "GT", "GU", "GW", "GY", "HK", "HM", "HN", "HR", "HT", "HU", "ID", "IE", "IL", "IM", "IN", "IO", "IQ", "IR",
     "IS", "IT", "JE", "JM", "JO", "JP", "KE", "KG", "KH", "KI", "KM", "KN", "KP", "KR", "KW", "KY", "KZ", "LA",
     "LB", "LC", "LI", "LK", "LR", "LS", "LT", "LU", "LV", "LY", "MA", "MC", "MD", "ME", "MF", "MG", "MH", "MK",
     "ML", "MM", "MN", "MO", "MP", "MQ", "MR", "MS", "MT", "MU", "MV", "MW", "MX", "MY", "MZ", "NA", "NC", "NE",
     "NF", "NG", "NI", "NL", "NO", "NP", "NR", "NU", "NZ", "OM", "PA", "PE", "PF", "PG", "PH", "PK", "PL", "PM",
     "PN", "PR", "PS", "PT", "PW", "PY", "QA", "RE", "RO", "RS", "RU", "RW", "SA", "SB", "SC", "SD", "SE", "SG",
     "SH", "SI", "SJ", "SK", "SL", "SM", "SN", "SO", "SR", "SS", "ST", "SV", "SX", "SY", "SZ", "TC", "TD", "TF",
     "TG", "TH", "TJ", "TK", "TL", "TM", "TN", "TO", "TR", "TT", "TV", "TW", "TZ", "UA", "UG", "UM", "US", "UY",
     "UZ", "VA", "VC", "VE", "VG", "VI", "VN", "VU", "WF", "WS", "YE", "YT", "ZA", "ZM", "ZW"}

EyeColour == {"black", "blue", "brown", "dichromatic", "grey", "green", "hazel", "maroon", "pink", "unknown"}
HairColour == {"bald", "black", "blond", "brown", "grey", "red", "auburn", "sandy", "white", "unknown"}
VehicleCategoryCode ==
    {"A", "B", "C", "D", "BE", "CE", "DE", "AM", "A1", "A2", "B1", "C1", "D1", "C1E", "D1E"}
NameSuffix ==
    {"JR", "SR", "1ST", "I", "2ND", "II", "3RD", "III", "4TH", "IV", "5TH", "V", "6TH", "VI", "7TH", "VII",
     "8TH", "VIII", "9TH", "IX"}
NameTruncation == {"T", "N", "U"}
RaceAndEthnicity == {"AI", "AP", "BK", "H", "O", "U", "W"}
DHSCompliance == {"F", "N"}
Sex == {0, 1, 2, 9}
AamvaSex == {1, 2, 9}
WeightRange == 0..9
Present == {1}
EDLIndicator == {1, 2}

\* Read as a sign and written again, a listed string is itself; another is kept as it is.
UNDistinguishingSign(s) == {Text(s)}

CountyCode(s) == IF s.digits = 3 THEN {Text(s)} ELSE {}

FullDate(s) == {Tag(1004, Text(t)) : t \in {u \in s.time : Is("day", u)}}

\* The same moment at offset zero, without a fraction of a second.
TDate(s) ==
    {Tag(0, Text([local |-> t.local - t.offset, offset |-> 0, fraction |-> FALSE])) :
        t \in {u \in s.time : Is("local", u)}}

\* That moment may lie in a year that cannot be written: the unwrap panics.
TDatePanics(s) == \E t \in {u \in s.time : Is("local", u)} : t.local - t.offset \notin 0..MaxTime

TDateOrFullDate(s) == IF TDate(s) # {} THEN TDate(s) ELSE FullDate(s)

Word(s, words) == IF s.word \in words THEN {Text(s)} ELSE {}

\* FromJson for String and u32
JsonString(v) == IF Is("text", v) THEN {v.text} ELSE {}
JsonU32(v) == IF Is("int", v) THEN {v.int} \cap 0..MaxU32 ELSE {}
Number(v, numbers) == {Integer(n) : n \in JsonU32(v) \cap numbers}

OfString(type, s) ==
    CASE type = "String" -> {Text(s)}
      [] type = "UNDistinguishingSign" -> UNDistinguishingSign(s)
      [] type = "Latin1" -> Latin1(s)
      [] type = "ByteStr" -> {Bytes(b) : b \in s.base64}
      [] type = "FullDate" -> FullDate(s)
      [] type = "TDate" -> TDate(s)
      [] type = "TDateOrFullDate" -> TDateOrFullDate(s)
      [] type = "CountyCode" -> CountyCode(s)
      [] type = "Alpha2" -> Word(s, Alpha2)
      [] type = "EyeColour" -> Word(to_lowercase(s), EyeColour)
      [] type = "HairColour" -> Word(to_lowercase(s), HairColour)
      [] type = "VehicleCategoryCode" -> Word(to_uppercase(s), VehicleCategoryCode)
      [] type = "NameSuffix" -> Word(s, NameSuffix)
      [] type = "NameTruncation" -> Word(s, NameTruncation)
      [] type = "RaceAndEthnicity" -> Word(s, RaceAndEthnicity)
      [] type = "DHSCompliance" -> Word(s, DHSCompliance)

OfNumber == [u32 |-> 0..MaxU32, Sex |-> Sex, AamvaSex |-> AamvaSex, WeightRange |-> WeightRange,
             Present |-> Present, EDLIndicator |-> EDLIndicator]

Leaf(type, v) ==
    IF type \in DOMAIN OfNumber THEN Number(v, OfNumber[type]) ELSE UNION {OfString(type, s) : s \in JsonString(v)}

-----------------------------------------------------------------------------
(* What the macros generate.  A field is converted to the elements that it makes: none or *)
(* one of its own name, and any number for a field with the attribute "many".             *)

Mandatory(name, type) == [name |-> name, type |-> type, optional |-> FALSE]
Optionally(name, type) == [name |-> name, type |-> type, optional |-> TRUE]

NoElement == [k \in {} |-> Null]
Element(name, x) == [k \in {Name(name)} |-> x]

\* Mutant: an optional field that cannot be converted is absent.
from_json_opt_Lenient(f, value, converted) ==
    IF converted # {} THEN {Element(f.name, x) : x \in converted} ELSE IF f.optional THEN {NoElement} ELSE {}

\* from_json_opt: an optional field may be absent or null.
from_json_opt(f, value, converted) ==
    IF f.optional /\ value \subseteq {Null} THEN {NoElement}
    ELSE {Element(f.name, x) : x \in converted}

\* Mutant: the conversion ends at the first field that it refuses.
Faults_First(converted) ==
    One({f.name : f \in {g \in DOMAIN converted : converted[g] = {}}})

\* The names of the fields that cannot be converted: every field is tried, while the
\* conversion of one field, an array or the age_over entries, ends at its first fault.
Faults(converted) == {f.name : f \in {g \in DOMAIN converted : converted[g] = {}}}

\* to_ns_map
ToNsMap(converted) ==
    LET map == [f \in DOMAIN converted |-> CHOOSE m \in converted[f] : TRUE]
    IN  [k \in UNION {DOMAIN map[f] : f \in DOMAIN map} |-> map[CHOOSE f \in DOMAIN map : k \in DOMAIN map[f]][k]]

\* The conversion of each field.
FieldsOf(fields, m, Convert(_, _)) ==
    [f \in fields |->
        LET value == Get(m, Name(f.name))
        IN  from_json_opt(f, value, UNION {Convert(f.type, v) : v \in value})]

\* A nested structure, from its converted fields.
Struct(converted) == IF Faults(converted) = {} THEN {Map(ToNsMap(converted))} ELSE {}
StructFrom(fields, v, Convert(_, _)) == IF Is("object", v) THEN Struct(FieldsOf(fields, v.object, Convert)) ELSE {}

\* NonEmptyVec and Vec, from their converted elements.
NonEmpty(converted) == {Array(s) : s \in NonEmptyVec(converted)}
Vec(converted) == IF converted = <<>> THEN {Array(<<>>)} ELSE NonEmpty(converted)

-----------------------------------------------------------------------------
(* Nested structures *)

Code(v) ==
    StructFrom({Mandatory("code", "String"), Optionally("sign", "String"), Optionally("value", "String")}, v, Leaf)
DomesticVehicleClass(v) ==
    StructFrom({Mandatory("domestic_vehicle_class_code", "String"), Mandatory("domestic_vehicle_class_description", "String"),
                Optionally("issue_date", "FullDate"), Optionally("expiry_date", "FullDate")}, v, Leaf)
DomesticVehicleRestriction(v) ==
    StructFrom({Optionally("domestic_vehicle_restriction_code", "String"),
                Mandatory("domestic_vehicle_restriction_description", "String")}, v, Leaf)
DomesticVehicleEndorsement(v) ==
    StructFrom({Optionally("domestic_vehicle_endorsement_code", "String"),
                Mandatory("domestic_vehicle_endorsement_description", "String")}, v, Leaf)

InPrivilege(type, v) ==
    CASE type = "Codes" -> NonEmpty(Decoded(v, Code))
      [] type = "DomesticVehicleClass" -> DomesticVehicleClass(v)
      [] type = "DomesticVehicleRestrictions" -> NonEmpty(Decoded(v, DomesticVehicleRestriction))
      [] type = "DomesticVehicleEndorsements" -> NonEmpty(Decoded(v, DomesticVehicleEndorsement))
      [] OTHER -> Leaf(type, v)

DrivingPrivilege(v) ==
    StructFrom({Mandatory("vehicle_category_code", "VehicleCategoryCode"), Optionally("issue_date", "FullDate"),
                Optionally("expiry_date", "FullDate"), Optionally("codes", "Codes")}, v, InPrivilege)
DomesticDrivingPrivilege(v) ==
    StructFrom({Optionally("domestic_vehicle_class", "DomesticVehicleClass"),
                Optionally("domestic_vehicle_restrictions", "DomesticVehicleRestrictions"),
                Optionally("domestic_vehicle_endorsements", "DomesticVehicleEndorsements")}, v, InPrivilege)

InNamespace(type, v) ==
    CASE type = "DrivingPrivileges" -> Vec(Decoded(v, DrivingPrivilege))
      [] type = "DomesticDrivingPrivileges" -> Vec(Decoded(v, DomesticDrivingPrivilege))
      [] OTHER -> Leaf(type, v)

-----------------------------------------------------------------------------
(* The two namespaces *)

OrgIso1801351 ==
    {Mandatory(x, "Latin1") : x \in {"family_name", "given_name", "issuing_authority", "document_number"}} \cup
    {Mandatory("birth_date", "FullDate"), Mandatory("issue_date", "TDateOrFullDate"),
     Mandatory("expiry_date", "TDateOrFullDate"), Mandatory("issuing_country", "Alpha2"),
     Mandatory("portrait", "ByteStr"), Mandatory("driving_privileges", "DrivingPrivileges"),
     Mandatory("un_distinguishing_sign", "UNDistinguishingSign")} \cup
    {Optionally(x, "Latin1") : x \in {"administrative_number", "birth_place", "resident_address", "resident_city",
                                      "resident_state", "resident_postal_code"}} \cup
    {Optionally(x, "u32") : x \in {"height", "weight", "age_in_years", "age_birth_year"}} \cup
    {Optionally(x, "Alpha2") : x \in {"nationality", "resident_country"}} \cup
    {Optionally(x, "String") : x \in {"family_name_national_character", "given_name_national_character"}} \cup
    {Optionally("sex", "Sex"), Optionally("eye_colour", "EyeColour"), Optionally("hair_colour", "HairColour"),
     Optionally("portrait_capture_date", "TDate"), Optionally("signature_usual_mark", "ByteStr")}

OrgIso1801351Aamva ==
    {Mandatory("domestic_driving_privileges", "DomesticDrivingPrivileges"), Mandatory("sex", "AamvaSex"),
     Mandatory("family_name_truncation", "NameTruncation"), Mandatory("given_name_truncation", "NameTruncation"),
     Mandatory("DHS_compliance", "DHSCompliance"),
     Optionally("weight_range", "WeightRange"), Optionally("race_ethnicity", "RaceAndEthnicity"),
     Optionally("EDL_credential", "EDLIndicator"), Optionally("resident_county", "CountyCode"),
     Optionally("hazmat_endorsement_expiration_date", "FullDate"), Optionally("DHS_compliance_text", "String")} \cup
    {Optionally(x, "NameSuffix") : x \in {"name_suffix", "aka_suffix"}} \cup
    {Optionally(x, "Latin1") : x \in {"aka_family_name.v2", "aka_given_name.v2"}} \cup
    {Optionally(x, "Present") : x \in {"organ_donor", "veteran", "CDL_indicator", "DHS_temporary_lawful_status"}}

Fields(k) == IF k = "iso" THEN OrgIso1801351 ELSE OrgIso1801351Aamva

\* Mutant: any country that is listed will do.
IssuingJurisdiction_AnyCountry(m) ==
    LET jurisdiction == Get(m, Name("issuing_jurisdiction"))
        country == Get(m, Name("issuing_country"))
    IN  IF jurisdiction = {} \/ country = {} THEN {NoElement}
        ELSE {Element("issuing_jurisdiction", Text(s)) : s \in
                {x \in UNION {JsonString(v) : v \in jurisdiction} : x.begins \cap Alpha2 # {}}}

\* FromJsonMap for Option<IssuingJurisdiction>: none when one of the two is missing.
IssuingJurisdiction(m) ==
    LET jurisdiction == Get(m, Name("issuing_jurisdiction"))
        country == Get(m, Name("issuing_country"))
    IN  IF jurisdiction = {} THEN {NoElement}
        ELSE UNION {IF country = {} THEN {NoElement}
                    ELSE {Element("issuing_jurisdiction", Text(s)) : c \in
                            {x \in UNION {Leaf("Alpha2", v) : v \in country} : x.text.word \in s.begins}} :
                    s \in UNION {JsonString(v) : v \in jurisdiction}}

\* FromJsonMap and ToNamespaceMap for BiometricTemplate
BiometricTemplate(m) ==
    LET keys == {k \in DOMAIN m : k.base = "biometric_template_"}
    IN  IF \A k \in keys : Leaf("ByteStr", m[k]) # {}
        THEN {[k \in keys |-> CHOOSE x \in Leaf("ByteStr", m[k]) : TRUE]} ELSE {}

\* The fields with the attributes "many" and "dynamic_parse" read the whole object.
DynamicFields(k) ==
    IF k = "iso"
    THEN {Mandatory(x, "dynamic") : x \in {"age_over_xx", "issuing_jurisdiction", "biometric_template_xx"}}
    ELSE {}
Dynamic(f, m) ==
    CASE f.name = "age_over_xx" -> {AgeOverToNsMap(a) : a \in AgeOverFromMap(m)}
      [] f.name = "issuing_jurisdiction" -> IssuingJurisdiction(m)
      [] f.name = "biometric_template_xx" -> BiometricTemplate(m)

\* The conversion of all fields of a namespace.
AllFields(k, m) ==
    LET static == FieldsOf(Fields(k), m, InNamespace)
    IN  [f \in Fields(k) \cup DynamicFields(k) |-> IF f \in Fields(k) THEN static[f] ELSE Dynamic(f, m)]

-----------------------------------------------------------------------------
(* The application converts a description, changes one entry of it, converts it again *)

Panics(k, m) ==
    \E f \in {g \in Fields(k) : g.type \in {"TDate", "TDateOrFullDate"}} :
        \E s \in UNION {JsonString(v) : v \in Get(m, Name(f.name))} : TDatePanics(s)

Converted(k, m) ==
    IF Panics(k, m) THEN [panic |-> TRUE, errors |-> {}, elements |-> {}]
    ELSE LET converted == AllFields(k, m)
             faults == Faults(converted)
         IN  [panic |-> FALSE, errors |-> faults, elements |-> IF faults = {} THEN {ToNsMap(converted)} ELSE {}]

NamespaceInit ==
    /\ kind \in Kinds
    /\ json = Base(kind)
    /\ result = Converted(kind, json)
    /\ changes = 0

Changed(m) ==
    /\ changes < MaxChanges
    /\ json' = m
    /\ result' = Converted(kind, m)
    /\ changes' = changes + 1
    /\ UNCHANGED kind

Changeable == IF changes = 0 THEN Keys(kind) ELSE Keys(kind) \cap LaterKeys

PutEntry ==
    \E k \in Changeable, v \in Values :
        Changed([j \in DOMAIN json \cup {k} |-> IF j = k THEN v ELSE json[j]])

RemoveEntry == \E k \in Changeable \cap DOMAIN json : Changed(Restrict(json, DOMAIN json \ {k}))

NamespaceNext == PutEntry \/ RemoveEntry

NamespaceSpec == NamespaceInit /\ [][NamespaceNext]_namespaceVars

-----------------------------------------------------------------------------
(* Properties *)

\* The identifiers of a kind that an element may have.
Known(k, j) ==
    \/ j.base \in {f.name : f \in Fields(k)} /\ j.suffix = <<>>
    \/ k = "iso" /\ \/ j.base = "age_over_" /\ to_age(j.suffix) # {}
                    \/ j.base = "biometric_template_"
                    \/ j = Name("issuing_jurisdiction")

\* Elements are made of what was described, all of it that the structure knows, mandatory
\* elements included, and nothing else: an entry is never left out because it could not
\* be converted (the macros collect errors and unwrap only without any).
NothingLost ==
    \A m \in result.elements :
        /\ DOMAIN m = {j \in DOMAIN json : Known(kind, j) /\ json[j] # Null}
        /\ \A f \in Fields(kind) : ~f.optional => Name(f.name) \in DOMAIN m

\* An issuing jurisdiction lies in the country that is issued with it, whichever of the
\* two was changed last.
JurisdictionInCountry ==
    \A m \in result.elements :
        (Name("issuing_jurisdiction") \in DOMAIN m) =>
            m[Name("issuing_country")].text.word \in m[Name("issuing_jurisdiction")].text.begins

\* What an entry of the description may be blamed for.
Concerns(j) ==
    {j.base} \cup (IF j.base = "age_over_" THEN {"age_over_xx"} ELSE {})
             \cup (IF j.base = "biometric_template_" THEN {"biometric_template_xx"} ELSE {})
             \cup (IF j.base = "issuing_country" THEN {"issuing_jurisdiction"} ELSE {})

\* A change of one entry changes the verdict on its field and on no other, so that all
\* fields at fault are reported together, and its element and no other.
OnlyThatEntry ==
    [][\A j \in Keys(kind) :
            (/\ json' # json /\ ~result.panic /\ ~result'.panic
             /\ \A i \in (DOMAIN json \cup DOMAIN json') \ {j} : i \in DOMAIN json \cap DOMAIN json' /\ json'[i] = json[i]) =>
                /\ \A name \in (result.errors \cup result'.errors) \ Concerns(j) :
                        name \in result.errors \cap result'.errors
                /\ \A m \in result.elements, n \in result'.elements :
                        \A i \in (DOMAIN m \cup DOMAIN n) \ {j} : i \in DOMAIN m \cap DOMAIN n /\ m[i] = n[i]]_namespaceVars

\* A date-time that was parsed can be written.
ParsedIsWritable == ~result.panic

-----------------------------------------------------------------------------
(* The inductive invariant: the last result is that of the present description. *)
NamespaceInv ==
    /\ kind \in Kinds /\ \A j \in DOMAIN json : IsIdentifier(j)
    /\ result = Converted(kind, json)
=============================================================================
