------------------------------ MODULE AgeOver ------------------------------
(***************************************************************************)
(* The age_over_NN elements: how namespaces/org_iso_18013_5_1/age_over.rs    *)
(* makes them from JSON, and how presentation/device.rs finds the one that   *)
(* answers a request.  An element identifier is [base, suffix]: what stands  *)
(* in front, and the characters after it: digits as numbers, 10 for another. *)
(***************************************************************************)
EXTENDS CborValues

Key(base, suffix) == [base |-> base, suffix |-> suffix]
Name(base) == Key(base, <<>>)

\* Two digits, nothing else.
to_age(suffix) == IF Len(suffix) = 2 /\ Range(suffix) \subseteq 0..9 THEN {suffix} ELSE {}

\* FromJsonMap for AgeOver: keys of another form are passed over, a value that is no
\* boolean is an error.
AgeOverFromMap(m) ==
    LET ages == {k \in DOMAIN m : k.base = "age_over_" /\ to_age(k.suffix) # {}}
    IN  IF \A k \in ages : Is("bool", m[k]) THEN {[s \in {k.suffix : k \in ages} |-> m[Key("age_over_", s)].bool]} ELSE {}

\* ToNamespaceMap for AgeOver
AgeOverToNsMap(a) == [k \in {Key("age_over_", s) : s \in DOMAIN a} |-> Bool(a[k.suffix])]

-----------------------------------------------------------------------------
(* presentation/device.rs *)

MaxAge == 255   \* the largest u8

\* str::parse::<u8>: the number of the digits, perhaps with zeros in front; without the
\* sign that it would also read.
DigitFromRight(suffix, i) == IF i <= Len(suffix) THEN suffix[Len(suffix) + 1 - i] ELSE 0

ParseU8(suffix) ==
    LET n == 100 * DigitFromRight(suffix, 3) + 10 * DigitFromRight(suffix, 2)
                 + DigitFromRight(suffix, 1)
    IN  IF /\ suffix # <<>> /\ Range(suffix) \subseteq 0..9
           /\ \A i \in 4..Len(suffix) : DigitFromRight(suffix, i) = 0
        THEN IF n <= MaxAge THEN {n} ELSE {} ELSE {}

\* AgeOver::try_from, parse_age_from_element_identifier
parse_age(identifier) == IF identifier.base = "age_over_" THEN ParseU8(identifier.suffix) ELSE {}

\* element.0.contains("age_over"), for the bases that occur
ContainsAgeOver(identifier) == identifier.base \in {"age_over_", "biometric_template_age_over_"}

Answer(option) == [ok |-> TRUE, item |-> option]
Error == [ok |-> FALSE, item |-> {}]

Less(x, y) == \E m \in x, n \in y : m < n

\* min_by_key, max_by_key: the items of the lowest and of the highest age.
Lowest(S) == {k \in S : \A j \in S : ~Less(parse_age(j), parse_age(k))}
Highest(S) == {k \in S : \A j \in S : ~Less(parse_age(k), parse_age(j))}
One(S) == IF S = {} THEN {} ELSE {CHOOSE x \in S : TRUE}

\* Mutant: the farthest statement instead of the nearest.
nearest_age_attestation_Farthest(identifier, items) ==
    LET owned == {k \in DOMAIN items : ContainsAgeOver(k)}
        truths == {k \in owned : items[k] = Bool(TRUE)}
        over == {k \in truths : ~Less(parse_age(k), parse_age(identifier))}
        under == {k \in owned \ truths : ~Less(parse_age(identifier), parse_age(k))}
    IN  IF \E k \in owned \cup {identifier} : parse_age(k) = {} THEN Error
        ELSE IF over # {} THEN Answer(One(Highest(over)))
        ELSE Answer(One(Highest(under)))

\* Mutant: a false statement about a higher age is an answer.
nearest_age_attestation_AnyFalse(identifier, items) ==
    LET owned == {k \in DOMAIN items : ContainsAgeOver(k)}
        truths == {k \in owned : items[k] = Bool(TRUE)}
        over == {k \in truths : ~Less(parse_age(k), parse_age(identifier))}
    IN  IF \E k \in owned \cup {identifier} : parse_age(k) = {} THEN Error
        ELSE IF over # {} THEN Answer(One(Lowest(over)))
        ELSE Answer(One(Highest(owned \ truths)))

\* The lowest true statement about the requested age or a higher one, else the highest
\* other statement about the requested age or a lower one.  Every identifier is parsed,
\* and one that cannot be parsed fails the request.
nearest_age_attestation(identifier, items) ==
    LET owned == {k \in DOMAIN items : ContainsAgeOver(k)}
        truths == {k \in owned : items[k] = Bool(TRUE)}
        over == {k \in truths : ~Less(parse_age(k), parse_age(identifier))}
        under == {k \in owned \ truths : ~Less(parse_age(identifier), parse_age(k))}
    IN  IF \E k \in owned \cup {identifier} : parse_age(k) = {} THEN Error
        ELSE IF over # {} THEN Answer(One(Lowest(over)))
        ELSE Answer(One(Highest(under)))
=============================================================================
