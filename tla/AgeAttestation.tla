--------------------------- MODULE AgeAttestation ---------------------------
(***************************************************************************)
(* An issuer describes a holder's age in JSON, the elements are issued, and  *)
(* a reader asks whether the holder has an age for which there may be no     *)
(* element: the device answers with the nearest statement.                   *)
(***************************************************************************)
EXTENDS AgeOver

CONSTANTS
    HolderAges,      \* ages that a holder may have
    AgeSuffixes,        \* suffixes of the age_over_ keys in the JSON
    OtherElements,   \* sets of further elements of the credential, by identifier
    Requests         \* identifiers that a reader may ask for

\* Only AgeOver makes identifiers of the form age_over_NN.
ASSUME AgesAssumption ==
    /\ HolderAges \subseteq Nat /\ AgeSuffixes \subseteq Seq(0..10)
    /\ \A other \in OtherElements : \A k \in other : k.base # "age_over_"
    /\ \A r \in Requests : r.suffix \in Seq(0..10)

VARIABLES
    age,         \* age of the holder
    description, \* the JSON object (Option)
    items,       \* the issued elements (Option)
    answer       \* the last request with its answer (Option)
ageVars == <<age, description, items, answer>>

AgeInit == age \in HolderAges /\ description = {} /\ items = {} /\ answer = {}

\* The issuer states the truth for the ages of some keys; keys of another form have any
\* content.
Describe ==
    /\ description = {}
    /\ \E S \in SUBSET AgeSuffixes :
        description' = {[k \in {Key("age_over_", s) : s \in S} |->
                    IF to_age(k.suffix) = {} THEN Text("?") ELSE Bool(\A n \in ParseU8(k.suffix) : age >= n)]}
    /\ UNCHANGED <<age, items, answer>>

\* Further elements, whose values are no statements about an age.
AddElements(m, other) ==
    [k \in DOMAIN m \cup other |-> IF k \in DOMAIN m THEN m[k] ELSE Bytes("template")]

\* The elements of the namespace, next to others that the application adds.
Issue ==
    /\ items = {}
    /\ \E m \in description : \E other \in OtherElements :
        items' = {AddElements(AgeOverToNsMap(a), other) : a \in AgeOverFromMap(m)}
    /\ UNCHANGED <<age, description, answer>>

Ask ==
    /\ answer = {}
    /\ \E r \in Requests : \E m \in {x \in items : DOMAIN x # {}} :
        answer' = {[request |-> r, result |-> nearest_age_attestation(r, m)]}
    /\ UNCHANGED <<age, description, items>>

AgeNext == Describe \/ Issue \/ Ask

AgeSpec == AgeInit /\ [][AgeNext]_ageVars

-----------------------------------------------------------------------------
(* Properties *)

\* A statement settles a request: true for this age or a higher one, or false for this
\* age or a lower one.
Settles(items_, k, request) ==
    IF items_[k] = Bool(TRUE) THEN ~Less(parse_age(k), parse_age(request)) ELSE ~Less(parse_age(request), parse_age(k))

\* Whatever is returned says the truth about the age that was asked for, not only about
\* the age of its own identifier.
AnswerIsTrue ==
    \A q \in answer : \A k \in q.result.item, n \in parse_age(q.request), m \in items :
        (m[k] = Bool(TRUE)) <=> (age >= n)

\* A request for an age is answered whenever an element that was issued settles it, for
\* credentials without other identifiers that contain "age_over"; and of the statements
\* that settle it, the one returned says least about the holder: none lies between it and
\* the requested age.
AnswerIsNearest ==
    \A q \in answer, m \in items :
        LET settling == {k \in DOMAIN m : ContainsAgeOver(k) /\ Settles(m, k, q.request)}
        IN  /\ (parse_age(q.request) # {} /\ \A k \in DOMAIN m : ContainsAgeOver(k) => k.base = "age_over_") =>
                   q.result.ok /\ (settling # {} => q.result.item # {})
            /\ \A k \in q.result.item : \A j \in settling :
                   ~(IF m[k] = Bool(TRUE) THEN Less(parse_age(j), parse_age(k)) ELSE Less(parse_age(k), parse_age(j)))

-----------------------------------------------------------------------------
(***************************************************************************)
(* The inductive invariant: what the description states of an age is true, *)
(* and so is what was issued; an answer was found in what was issued.      *)
(***************************************************************************)
\* The statement about the age of a suffix.
Statement(suffix) == Bool(\A n \in ParseU8(suffix) : age >= n)

AgeInv ==
    /\ age \in HolderAges
    /\ \A m \in description : \A k \in DOMAIN m :
        /\ k = Key("age_over_", k.suffix) /\ k.suffix \in AgeSuffixes
        /\ to_age(k.suffix) # {} => m[k] = Statement(k.suffix)
    /\ \A m \in items : \A k \in DOMAIN m : k.base = "age_over_" =>
        /\ k.suffix \in AgeSuffixes /\ to_age(k.suffix) # {}
        /\ m[k] = Statement(k.suffix)
    /\ (\A m, x \in items : m = x) /\ (answer # {} => items # {})
    /\ \A q \in answer : /\ q.request \in Requests
                         /\ \A m \in items : q.result = nearest_age_attestation(q.request, m)
=============================================================================
