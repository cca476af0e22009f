----------------------------- MODULE CborValues -----------------------------
(***************************************************************************)
(* CBOR values and the wrappers of definitions/helpers.  A value is a record *)
(* with one field, named for its type; a map is the sequence of its entries, *)
(* keys may repeat.  A byte string is a record with its length, and the      *)
(* encoding of an item is [item, rest]: rest is what follows the item.       *)
(* A conversion that can fail yields a set with at most one member.          *)
(***************************************************************************)
EXTENDS Integers, Sequences, FiniteSets, SequencesExt

CONSTANT MaxU32     \* the largest u32

Integer(i) == [int |-> i]
Text(t) == [text |-> t]
Bytes(b) == [bytes |-> b]
Bool(b) == [bool |-> b]
Array(s) == [array |-> s]
Map(entries) == [map |-> entries]
Tag(n, v) == [tag |-> n, content |-> v]
Broken == [broken |-> TRUE]

Is(type, v) == type \in DOMAIN v

\* cbor::to_vec, cbor::from_slice: bytes after the item are not looked at.
to_vec(v) == [item |-> v, rest |-> "empty"]
from_slice(encoded) == IF Is("broken", encoded.item) THEN {} ELSE {encoded.item}

\* A map whose keys are integers, as BTreeMap<i128, Value>: the last entry of a key
\* counts.
IntegerMap(v) ==
    IF Is("map", v) /\ \A i \in DOMAIN v.map : Is("int", v.map[i][1])
    THEN {[k \in {v.map[i][1].int : i \in DOMAIN v.map} |->
              v.map[CHOOSE i \in DOMAIN v.map :
                        /\ v.map[i][1].int = k
                        /\ \A j \in DOMAIN v.map : v.map[j][1].int = k => j <= i][2]]}
    ELSE {}

\* An Option.
AtMostOne(option) == \A x, y \in option : x = y

\* map.remove, map.get: an Option.
Get(m, k) == IF k \in DOMAIN m THEN {m[k]} ELSE {}

\* An entry for an optional field.
Entry(k, option, Encode(_)) == IF option = {} THEN <<>> ELSE <<<<Integer(k), Encode(CHOOSE x \in option : TRUE)>>>>

ByteStr(v) == IF Is("bytes", v) THEN {v.bytes} ELSE {}
Unsigned(v) == IF Is("int", v) /\ v.int >= 0 THEN {v.int} ELSE {}
String(v) == IF Is("text", v) THEN {v.text} ELSE {}

\* An optional field: none when it is absent, and a failure when it has another type.
Optional(m, k, Decode(_)) ==
    IF k \notin DOMAIN m THEN {{}} ELSE {{x} : x \in Decode(m[k])}

\* A field of a derived structure: at most once, by its name; other keys are ignored.
Field(v, name, Decode(_)) ==
    LET places == {i \in DOMAIN v.map : v.map[i][1] = Text(name)}
    IN  IF places = {} THEN {{}}
        ELSE IF Cardinality(places) > 1 THEN {}
        ELSE UNION {{{x} : x \in Decode(v.map[i][2])} : i \in places}

FieldEntry(name, option, Encode(_)) ==
    IF option = {} THEN <<>> ELSE <<<<Text(name), Encode(CHOOSE x \in option : TRUE)>>>>

\* The elements of an array, each decoded.
Decoded(v, Decode(_)) == IF Is("array", v) THEN [i \in DOMAIN v.array |-> Decode(v.array[i])] ELSE <<{}>>

\* NonEmptyVec from its decoded elements: at least one, and none that failed.
NonEmptyVec(decoded) ==
    IF decoded # <<>> /\ \A i \in DOMAIN decoded : decoded[i] # {}
    THEN {[i \in DOMAIN decoded |-> CHOOSE x \in decoded[i] : TRUE]} ELSE {}

-----------------------------------------------------------------------------
(* helpers/tag24.rs *)

Tag24(inner, inner_bytes) == [inner |-> inner, inner_bytes |-> inner_bytes]

\* Tag24::new, with the value that inner is written as
Tag24New(inner, value) == Tag24(inner, to_vec(value))

\* cbor::from_slice as a T
FromSlice(encoded, Decode(_)) == UNION {Decode(v) : v \in from_slice(encoded)}

\* Tag24::from_bytes keeps the bytes that it reads, whose content is inner.
Tag24FromBytes(encoded, inner) == {Tag24(x, encoded) : x \in inner}

Tag24Value(t) == Tag(24, Bytes(t.inner_bytes))

\* TryFrom<Value>: the bytes that are given to from_bytes.
Tag24Bytes(v) ==
    IF Is("tag", v) /\ v.tag = 24 /\ Is("bytes", v.content) THEN {v.content.bytes} ELSE {}
=============================================================================
