--------------------------- MODULE ElementProofs ----------------------------
(*****************************************************************************)
(* Proofs about AgeAttestation for every age, every set of age_over_ keys,   *)
(* every further element and every request, and about NamespaceElements for  *)
(* every description, every change of one of its entries and every table of  *)
(* values.                                                                   *)
(*****************************************************************************)
EXTENDS AgeAttestation, NamespaceElements, WellFoundedInduction, TLAPS

-----------------------------------------------------------------------------
(* Ages *)

\* A set of numbers that is not empty has a least one.
LEMMA LeastNumber ==
    ASSUME NEW S, S \subseteq Nat, S # {}
    PROVE  \E x \in S : \A y \in S : x <= y
<1>1. IsWellFoundedOn(OpToRel(<, Nat), Nat)
  BY NatLessThanWellFounded
<1>2. \E x \in S : \A y \in S : ~ (<<y, x>> \in OpToRel(<, Nat))
  BY <1>1, WFMin
<1>3. ASSUME NEW x \in S, NEW y \in S, ~ (<<y, x>> \in OpToRel(<, Nat))
      PROVE  x <= y
  BY <1>3 DEF OpToRel
<1> QED
  BY <1>2, <1>3

\* A character of a list of digits is a digit, from the right as well.
LEMMA DigitType ==
    ASSUME NEW s \in Seq(0..10), Range(s) \subseteq 0..9, NEW i \in 1..3
    PROVE  DigitFromRight(s, i) \in 0..9
<1>1. PICK n : n = Len(s)
  OBVIOUS
<1>2. n \in Nat /\ DOMAIN s = 1..n
  BY <1>1
<1>3. CASE i <= n
  <2>1. n + 1 - i \in 1..n
    BY <1>2, <1>3
  <2>2. s[n + 1 - i] \in Range(s)
    BY <1>2, <2>1 DEF Range
  <2> QED
    BY <1>1, <1>3, <2>2 DEF DigitFromRight
<1>4. CASE ~(i <= n)
  BY <1>1, <1>4 DEF DigitFromRight
<1> QED
  BY <1>3, <1>4

\* A parsed age is one u8.
LEMMA ParsedAge ==
    ASSUME NEW s \in Seq(0..10)
    PROVE  ParseU8(s) = {} \/ \E n \in 0..MaxAge : ParseU8(s) = {n}
<1>1. PICK n : n = 100 * DigitFromRight(s, 3) + 10 * DigitFromRight(s, 2) + DigitFromRight(s, 1)
  OBVIOUS
<1>2. CASE ParseU8(s) # {}
  <2>1. Range(s) \subseteq 0..9 /\ n <= MaxAge /\ ParseU8(s) = {n}
    BY <1>1, <1>2 DEF ParseU8
  <2>2. /\ DigitFromRight(s, 1) \in 0..9 /\ DigitFromRight(s, 2) \in 0..9
        /\ DigitFromRight(s, 3) \in 0..9
    BY <2>1, DigitType
  <2>3. PICK a, b, c : /\ a = DigitFromRight(s, 1) /\ b = DigitFromRight(s, 2)
                       /\ c = DigitFromRight(s, 3)
    OBVIOUS
  <2>4. a \in 0..9 /\ b \in 0..9 /\ c \in 0..9 /\ n = 100 * c + 10 * b + a
    BY <1>1, <2>2, <2>3
  <2>5. n \in 0..MaxAge
    BY <2>1, <2>4 DEF MaxAge
  <2> QED
    BY <2>1, <2>5
<1> QED
  BY <1>2

\* Two digits are an age.
LEMMA TwoDigitsParse ==
    ASSUME NEW s \in Seq(0..10), to_age(s) # {}
    PROVE  ParseU8(s) # {}
<1>1. Len(s) = 2 /\ Range(s) \subseteq 0..9
  BY DEF to_age
<1>2. /\ DigitFromRight(s, 1) \in 0..9 /\ DigitFromRight(s, 2) \in 0..9
  BY <1>1, DigitType
<1>3. DigitFromRight(s, 3) = 0
  BY <1>1 DEF DigitFromRight
<1>4. PICK n : n = 100 * DigitFromRight(s, 3) + 10 * DigitFromRight(s, 2) + DigitFromRight(s, 1)
  OBVIOUS
<1>5. n <= MaxAge
  <2>1. PICK a, b : a = DigitFromRight(s, 1) /\ b = DigitFromRight(s, 2)
    OBVIOUS
  <2>2. a \in 0..9 /\ b \in 0..9 /\ n = 100 * 0 + 10 * b + a
    BY <1>2, <1>3, <1>4, <2>1
  <2> QED
    BY <2>2 DEF MaxAge
<1>6. \A i \in 4..Len(s) : DigitFromRight(s, i) = 0
  BY <1>1
<1>7. s # <<>>
  BY <1>1
<1> QED
  BY <1>1, <1>4, <1>5, <1>6, <1>7 DEF ParseU8

\* The age of an identifier, when there is one.
AgeOf(k) == CHOOSE n \in parse_age(k) : TRUE

\* An identifier that parses has one age.
LEMMA AgeOfIdentifier ==
    ASSUME NEW k, k.suffix \in Seq(0..10), parse_age(k) # {}
    PROVE  AgeOf(k) \in 0..MaxAge /\ parse_age(k) = {AgeOf(k)} /\ k.base = "age_over_"
<1>1. k.base = "age_over_" /\ parse_age(k) = ParseU8(k.suffix)
  BY DEF parse_age
<1>2. PICK n \in 0..MaxAge : parse_age(k) = {n}
  BY <1>1, ParsedAge
<1> QED
  BY <1>1, <1>2 DEF AgeOf

\* The order of identifiers is the order of their ages.
LEMMA LessIsLess ==
    ASSUME NEW j, j.suffix \in Seq(0..10), parse_age(j) # {},
           NEW k, k.suffix \in Seq(0..10), parse_age(k) # {}
    PROVE  Less(parse_age(j), parse_age(k)) <=> AgeOf(j) < AgeOf(k)
<1>1. parse_age(j) = {AgeOf(j)} /\ parse_age(k) = {AgeOf(k)}
  BY AgeOfIdentifier
<1> QED
  BY <1>1 DEF Less

\* Identifiers that all parse.
AllParse(S) == \A k \in S : k.suffix \in Seq(0..10) /\ parse_age(k) # {}

\* Of several ages one is the lowest.
LEMMA LowestExists ==
    ASSUME NEW S, S # {}, AllParse(S)
    PROVE  Lowest(S) # {}
<1>1. PICK A : A = {AgeOf(k) : k \in S}
  OBVIOUS
<1>2. A \subseteq Nat /\ A # {}
  <2>1. \A k \in S : AgeOf(k) \in 0..MaxAge
    BY AgeOfIdentifier DEF AllParse
  <2>2. 0..MaxAge \subseteq Nat
    BY DEF MaxAge
  <2> QED
    BY <1>1, <2>1, <2>2
<1>3. PICK x \in A : \A y \in A : x <= y
  BY <1>2, LeastNumber
<1>4. PICK k \in S : x = AgeOf(k)
  BY <1>1
<1>5. ASSUME NEW j \in S
      PROVE  ~Less(parse_age(j), parse_age(k))
  <2>1. x <= AgeOf(j) /\ AgeOf(j) \in A
    BY <1>1, <1>3
  <2>2. PICK y, z : y = AgeOf(j) /\ z = AgeOf(k)
    OBVIOUS
  <2>3. y \in Nat /\ z \in Nat /\ z <= y
    BY <1>2, <1>4, <2>1, <2>2
  <2>4. ~(AgeOf(j) < AgeOf(k))
    BY <2>2, <2>3
  <2> QED
    BY <2>4, LessIsLess DEF AllParse
<1> QED
  BY <1>5 DEF Lowest

\* And one is the highest, since ages are bounded.
LEMMA HighestExists ==
    ASSUME NEW S, S # {}, AllParse(S)
    PROVE  Highest(S) # {}
<1>1. PICK A : A = {MaxAge - AgeOf(k) : k \in S}
  OBVIOUS
<1>2. \A k \in S : AgeOf(k) \in 0..MaxAge
  BY AgeOfIdentifier DEF AllParse
<1>3. A \subseteq Nat /\ A # {}
  BY <1>1, <1>2 DEF MaxAge
<1>4. PICK x \in A : \A y \in A : x <= y
  BY <1>3, LeastNumber
<1>5. PICK k \in S : x = MaxAge - AgeOf(k)
  BY <1>1
<1>6. ASSUME NEW j \in S
      PROVE  ~Less(parse_age(k), parse_age(j))
  <2>1. x <= MaxAge - AgeOf(j)
    BY <1>1, <1>4
  <2>2. PICK y, z : y = AgeOf(j) /\ z = AgeOf(k)
    OBVIOUS
  <2>3. y \in 0..MaxAge /\ z \in 0..MaxAge /\ MaxAge - z <= MaxAge - y
    BY <1>2, <1>5, <2>1, <2>2
  <2>4. ~(z < y)
    BY <2>3 DEF MaxAge
  <2> QED
    BY <2>2, <2>4, LessIsLess DEF AllParse
<1> QED
  BY <1>6 DEF Highest

\* One takes a member when there is one.
LEMMA OneMember ==
    ASSUME NEW S
    PROVE  /\ One(S) \subseteq S /\ (S # {} => One(S) # {})
BY DEF One

-----------------------------------------------------------------------------
(* The statements *)

\* The description is turned into elements that say the same.
LEMMA IssuedStatements ==
    ASSUME AgeInv, NEW m \in description, NEW a \in AgeOverFromMap(m),
           NEW other \in OtherElements, NEW k \in DOMAIN AddElements(AgeOverToNsMap(a), other),
           k.base = "age_over_"
    PROVE  /\ k.suffix \in AgeSuffixes /\ to_age(k.suffix) # {}
           /\ AddElements(AgeOverToNsMap(a), other)[k] = Statement(k.suffix)
<1>1. PICK ages : ages = {x \in DOMAIN m : x.base = "age_over_" /\ to_age(x.suffix) # {}}
  OBVIOUS
<1>2. a = [s \in {x.suffix : x \in ages} |-> m[Key("age_over_", s)].bool]
  BY <1>1 DEF AgeOverFromMap
<1>3. k \in {Key("age_over_", s) : s \in DOMAIN a}
  <2>1. k \notin other
    BY AgesAssumption
  <2> QED
    BY <2>1 DEF AddElements, AgeOverToNsMap
<1>4. PICK s \in DOMAIN a : k = Key("age_over_", s)
  BY <1>3
<1>5. k.suffix = s
  BY <1>4 DEF Key
<1>6. PICK x \in ages : s = x.suffix
  BY <1>2, <1>4
<1>7. /\ x = Key("age_over_", x.suffix) /\ x.suffix \in AgeSuffixes
      /\ to_age(x.suffix) # {} /\ m[x] = Statement(x.suffix) /\ x \in DOMAIN m
  BY <1>1, <1>6 DEF AgeInv
<1>8. k = x
  BY <1>4, <1>6, <1>7
<1>9. a[s] = Statement(s).bool
  BY <1>2, <1>4, <1>6, <1>7
<1>10. AddElements(AgeOverToNsMap(a), other)[k] = Bool(a[s])
  BY <1>3, <1>5 DEF AddElements, AgeOverToNsMap
<1>11. Bool(Statement(s).bool) = Statement(s)
  BY DEF Bool, Statement
<1> QED
  BY <1>5, <1>6, <1>7, <1>9, <1>10, <1>11

\* One step keeps the invariant.
LEMMA AgeStep ==
    ASSUME AgeInv, [AgeNext]_ageVars
    PROVE  AgeInv'
<1>1. CASE Describe
  <2>1. PICK S \in SUBSET AgeSuffixes :
          description' = {[k \in {Key("age_over_", s) : s \in S} |->
             IF to_age(k.suffix) = {} THEN Text("?")
             ELSE Bool(\A n \in ParseU8(k.suffix) : age >= n)]}
    BY <1>1 DEF Describe
  <2>2. PICK d : d = [k \in {Key("age_over_", s) : s \in S} |->
             IF to_age(k.suffix) = {} THEN Text("?")
             ELSE Bool(\A n \in ParseU8(k.suffix) : age >= n)]
    OBVIOUS
  <2>3. description' = {d}
    BY <2>1, <2>2
  <2>4. UNCHANGED <<age, items, answer>>
    BY <1>1 DEF Describe
  <2>5. ASSUME NEW k \in DOMAIN d
        PROVE  /\ k = Key("age_over_", k.suffix) /\ k.suffix \in AgeSuffixes
               /\ to_age(k.suffix) # {} => d[k] = Statement(k.suffix)
    <3>1. PICK s \in S : k = Key("age_over_", s)
      BY <2>2, <2>5
    <3>2. k.suffix = s
      BY <3>1 DEF Key
    <3>3. to_age(k.suffix) # {} => d[k] = Bool(\A n \in ParseU8(k.suffix) : age >= n)
      BY <2>2, <2>5
    <3> QED
      BY <3>1, <3>2, <3>3 DEF Statement
  <2>6. \A suffix : Statement(suffix)' = Statement(suffix)
    BY <2>4 DEF Statement
  <2> QED
    BY <2>3, <2>4, <2>5, <2>6 DEF AgeInv
<1>2. CASE Issue
  <2>1. PICK m \in description, other \in OtherElements :
          items' = {AddElements(AgeOverToNsMap(a), other) : a \in AgeOverFromMap(m)}
    BY <1>2 DEF Issue
  <2>2. UNCHANGED <<age, description, answer>> /\ items = {}
    BY <1>2 DEF Issue
  <2>3. ASSUME NEW x \in items', NEW k \in DOMAIN x, k.base = "age_over_"
        PROVE  /\ k.suffix \in AgeSuffixes /\ to_age(k.suffix) # {}
               /\ x[k] = Statement(k.suffix)
    <3>1. PICK a \in AgeOverFromMap(m) : x = AddElements(AgeOverToNsMap(a), other)
      BY <2>1, <2>3
    <3> QED
      BY <2>3, <3>1, IssuedStatements
  <2>4. \A suffix : Statement(suffix)' = Statement(suffix)
    BY <2>2 DEF Statement
  <2>5. answer = {}
    BY <2>2 DEF AgeInv
  <2>6. \A x, y \in items' : x = y
    <3>1. \A a, b \in AgeOverFromMap(m) : a = b
      BY DEF AgeOverFromMap
    <3> QED
      BY <2>1, <3>1
  <2> QED
    BY <2>2, <2>3, <2>4, <2>5, <2>6 DEF AgeInv
<1>3. CASE Ask
  <2>1. PICK r \in Requests, m \in items :
          answer' = {[request |-> r, result |-> nearest_age_attestation(r, m)]}
    BY <1>3 DEF Ask
  <2>2. UNCHANGED <<age, description, items>>
    BY <1>3 DEF Ask
  <2>3. PICK q : q = [request |-> r, result |-> nearest_age_attestation(r, m)]
    OBVIOUS
  <2>4. answer' = {q} /\ q.request = r /\ q.result = nearest_age_attestation(r, m)
    BY <2>1, <2>3
  <2>5. \A x \in items' : x = m
    BY <2>2 DEF AgeInv
  <2>6. \A suffix : Statement(suffix)' = Statement(suffix)
    BY <2>2 DEF Statement
  <2> QED
    BY <2>2, <2>4, <2>5, <2>6 DEF AgeInv
<1>4. CASE UNCHANGED ageVars
  BY <1>4 DEF ageVars, AgeInv, Statement
<1> QED
  BY <1>1, <1>2, <1>3, <1>4 DEF AgeNext

\* In every state the statements of description and elements are true of the holder.
THEOREM StatementsInductive == AgeSpec => []AgeInv
<1>1. AgeInit => AgeInv
  BY DEF AgeInit, AgeInv
<1> QED
  BY <1>1, AgeStep, PTL DEF AgeSpec

-----------------------------------------------------------------------------
(* The answers *)

\* An element whose identifier parses is a true statement about the age it names.
LEMMA ElementIsTrue ==
    ASSUME AgeInv, NEW m \in items, NEW k \in DOMAIN m, parse_age(k) # {}
    PROVE  /\ k.suffix \in Seq(0..10) /\ AgeOf(k) \in 0..MaxAge /\ age \in Nat
           /\ m[k] = Bool(TRUE) <=> age >= AgeOf(k)
<1>1. k.base = "age_over_" /\ parse_age(k) = ParseU8(k.suffix)
  BY DEF parse_age
<1>2. k.suffix \in AgeSuffixes /\ m[k] = Statement(k.suffix) /\ age \in HolderAges
  BY <1>1 DEF AgeInv
<1>3. k.suffix \in Seq(0..10) /\ age \in Nat
  BY <1>2, AgesAssumption
<1>4. AgeOf(k) \in 0..MaxAge /\ ParseU8(k.suffix) = {AgeOf(k)}
  BY <1>1, <1>3, AgeOfIdentifier
<1>5. (\A n \in ParseU8(k.suffix) : age >= n) <=> age >= AgeOf(k)
  BY <1>4
<1>6. m[k] = Bool(TRUE) <=> (\A n \in ParseU8(k.suffix) : age >= n)
  <2>1. Bool(TRUE) # Bool(FALSE)
    <3>1. Bool(TRUE).bool = TRUE /\ Bool(FALSE).bool = FALSE
      BY DEF Bool
    <3> QED
      BY <3>1
  <2>2. CASE \A n \in ParseU8(k.suffix) : age >= n
    BY <1>2, <2>2 DEF Statement
  <2>3. CASE ~\A n \in ParseU8(k.suffix) : age >= n
    <3>1. Statement(k.suffix) = Bool(FALSE)
      BY <2>3 DEF Statement, Bool
    <3> QED
      BY <1>2, <2>1, <2>3, <3>1
  <2> QED
    BY <2>2, <2>3
<1> QED
  BY <1>3, <1>4, <1>5, <1>6

\* The elements that nearest_age_attestation looks at, and the ones that settle a request.
Owned(m) == {k \in DOMAIN m : ContainsAgeOver(k)}
Over(r, m) == {k \in Owned(m) : m[k] = Bool(TRUE) /\ ~Less(parse_age(k), parse_age(r))}
Under(r, m) == {k \in Owned(m) : m[k] # Bool(TRUE) /\ ~Less(parse_age(r), parse_age(k))}

\* What nearest_age_attestation returns: an error for an identifier that does not parse,
\* else the lowest true statement at or above the request, else the highest false one at
\* or below it.
LEMMA NearestCases ==
    ASSUME NEW r, NEW m
    PROVE  /\ (\E k \in Owned(m) \cup {r} : parse_age(k) = {})
                 => nearest_age_attestation(r, m) = Error
           /\ ~(\E k \in Owned(m) \cup {r} : parse_age(k) = {})
                 => nearest_age_attestation(r, m) = Answer(One(
                        IF Over(r, m) # {} THEN Lowest(Over(r, m)) ELSE Highest(Under(r, m))))
<1>1. PICK owned : owned = {k \in DOMAIN m : ContainsAgeOver(k)}
  OBVIOUS
<1>2. PICK truths : truths = {k \in owned : m[k] = Bool(TRUE)}
  OBVIOUS
<1>3. PICK over : over = {k \in truths : ~Less(parse_age(k), parse_age(r))}
  OBVIOUS
<1>4. PICK under : under = {k \in owned \ truths : ~Less(parse_age(r), parse_age(k))}
  OBVIOUS
<1>5. nearest_age_attestation(r, m) =
        IF \E k \in owned \cup {r} : parse_age(k) = {} THEN Error
        ELSE IF over # {} THEN Answer(One(Lowest(over))) ELSE Answer(One(Highest(under)))
  BY <1>1, <1>2, <1>3, <1>4 DEF nearest_age_attestation
<1>6. owned = Owned(m) /\ over = Over(r, m) /\ under = Under(r, m)
  BY <1>1, <1>2, <1>3, <1>4 DEF Owned, Over, Under
<1> QED
  BY <1>5, <1>6

\* The answer says the truth about the age that was asked for.
LEMMA InvTrue == AgeInv => AnswerIsTrue
<1> SUFFICES ASSUME AgeInv, NEW q \in answer, NEW k \in q.result.item,
                    NEW n \in parse_age(q.request), NEW m \in items
             PROVE  m[k] = Bool(TRUE) <=> age >= n
  BY DEF AnswerIsTrue
<1>1. PICK r : r = q.request
  OBVIOUS
<1>2. q.result = nearest_age_attestation(r, m) /\ r \in Requests
  BY <1>1 DEF AgeInv
<1>3. /\ ~\E j \in Owned(m) \cup {r} : parse_age(j) = {}
      /\ q.result = Answer(One(IF Over(r, m) # {} THEN Lowest(Over(r, m))
                               ELSE Highest(Under(r, m))))
  <2>1. q.result # Error
    BY DEF Error
  <2> QED
    BY <1>2, <2>1, NearestCases
<1>4. k \in Over(r, m) \/ k \in Under(r, m)
  <2>1. k \in One(IF Over(r, m) # {} THEN Lowest(Over(r, m)) ELSE Highest(Under(r, m)))
    BY <1>3 DEF Answer
  <2> QED
    BY <2>1, OneMember DEF Lowest, Highest
<1>5. r.suffix \in Seq(0..10) /\ parse_age(r) # {} /\ n = AgeOf(r) /\ n \in 0..MaxAge
  <2>1. r.suffix \in Seq(0..10)
    BY <1>2, AgesAssumption
  <2> QED
    BY <1>1, <2>1, AgeOfIdentifier
<1>6. k \in DOMAIN m /\ parse_age(k) # {}
  BY <1>3, <1>4 DEF Over, Under, Owned
<1>7. /\ k.suffix \in Seq(0..10) /\ AgeOf(k) \in 0..MaxAge /\ age \in Nat
      /\ m[k] = Bool(TRUE) <=> age >= AgeOf(k)
  BY <1>6, ElementIsTrue
<1>8. PICK y : y = AgeOf(k)
  OBVIOUS
<1>9. n \in 0..MaxAge /\ y \in 0..MaxAge /\ age \in Nat
  <2>1. n \in 0..MaxAge
    BY <1>5
  <2>2. AgeOf(k) \in 0..MaxAge /\ age \in Nat
    BY <1>7
  <2> QED
    BY <1>8, <2>1, <2>2
<1>10. n \in Int /\ y \in Int /\ age \in Int
  BY <1>9 DEF MaxAge
<1>11. CASE k \in Over(r, m)
  <2>1. m[k] = Bool(TRUE) /\ ~(y < n)
    BY <1>5, <1>6, <1>7, <1>8, <1>11, LessIsLess DEF Over
  <2>2. age >= y
    BY <1>7, <1>8, <2>1
  <2>3. age >= n
    BY <1>10, <2>1, <2>2
  <2> QED
    BY <2>1, <2>3
<1>12. CASE k \in Under(r, m)
  <2>1. m[k] # Bool(TRUE) /\ ~(n < y)
    BY <1>5, <1>6, <1>7, <1>8, <1>12, LessIsLess DEF Under
  <2>2. ~(age >= y)
    BY <1>7, <1>8, <2>1
  <2>3. ~(age >= n)
    BY <1>10, <2>1, <2>2
  <2> QED
    BY <2>1, <2>3
<1> QED
  BY <1>4, <1>11, <1>12

\* Every settling statement is in Over or Under, and every age that is needed parses.
LEMMA InvNearest == AgeInv => AnswerIsNearest
<1> SUFFICES ASSUME AgeInv, NEW q \in answer, NEW m \in items
             PROVE  LET settling == {k \in DOMAIN m : ContainsAgeOver(k) /\ Settles(m, k, q.request)}
                    IN  /\ (/\ parse_age(q.request) # {}
                            /\ \A k \in DOMAIN m : ContainsAgeOver(k) => k.base = "age_over_")
                              => q.result.ok /\ (settling # {} => q.result.item # {})
                        /\ \A k \in q.result.item : \A j \in settling :
                              ~(IF m[k] = Bool(TRUE) THEN Less(parse_age(j), parse_age(k))
                                ELSE Less(parse_age(k), parse_age(j)))
  BY DEF AnswerIsNearest
<1>1. PICK r : r = q.request
  OBVIOUS
<1>2. PICK settling : settling = {k \in DOMAIN m : ContainsAgeOver(k) /\ Settles(m, k, r)}
  OBVIOUS
<1>3. q.result = nearest_age_attestation(r, m) /\ r.suffix \in Seq(0..10)
  BY <1>1, AgesAssumption DEF AgeInv
<1>4. settling = Over(r, m) \cup Under(r, m)
  BY <1>2 DEF Settles, Over, Under, Owned
<1>5. ASSUME ~\E k \in Owned(m) \cup {r} : parse_age(k) = {}
      PROVE  AllParse(Over(r, m)) /\ AllParse(Under(r, m)) /\ parse_age(r) # {}
  <2>1. ASSUME NEW k \in Owned(m)
        PROVE  k.suffix \in Seq(0..10) /\ parse_age(k) # {}
    BY <1>5, <2>1, ElementIsTrue DEF Owned
  <2> QED
    BY <1>5, <2>1 DEF AllParse, Over, Under
<1>6. ASSUME parse_age(r) # {},
             \A k \in DOMAIN m : ContainsAgeOver(k) => k.base = "age_over_"
      PROVE  q.result.ok /\ (settling # {} => q.result.item # {})
  <2>1. ASSUME NEW k \in Owned(m)
        PROVE  parse_age(k) # {}
    <3>1. k \in DOMAIN m /\ k.base = "age_over_"
      BY <1>6, <2>1 DEF Owned
    <3>2. k.suffix \in Seq(0..10) /\ to_age(k.suffix) # {}
      BY <3>1, AgesAssumption DEF AgeInv
    <3> QED
      BY <3>1, <3>2, TwoDigitsParse DEF parse_age
  <2>2. ~\E k \in Owned(m) \cup {r} : parse_age(k) = {}
    BY <1>6, <2>1
  <2>3. PICK found : found = IF Over(r, m) # {} THEN Lowest(Over(r, m)) ELSE Highest(Under(r, m))
    OBVIOUS
  <2>4. q.result = Answer(One(found))
    BY <1>3, <2>2, <2>3, NearestCases
  <2>5. q.result.ok /\ q.result.item = One(found)
    BY <2>4 DEF Answer
  <2>6. settling # {} => found # {}
    BY <1>4, <1>5, <2>2, <2>3, LowestExists, HighestExists
  <2> QED
    BY <2>5, <2>6, OneMember
<1>7. ASSUME NEW k \in q.result.item, NEW j \in settling
      PROVE  ~(IF m[k] = Bool(TRUE) THEN Less(parse_age(j), parse_age(k))
               ELSE Less(parse_age(k), parse_age(j)))
  <2>1. PICK found : found = IF Over(r, m) # {} THEN Lowest(Over(r, m)) ELSE Highest(Under(r, m))
    OBVIOUS
  <2>2. ~\E x \in Owned(m) \cup {r} : parse_age(x) = {}
    <3>1. q.result # Error
      BY <1>7 DEF Error
    <3> QED
      BY <1>3, <3>1, NearestCases
  <2>3. q.result = Answer(One(found))
    BY <1>3, <2>1, <2>2, NearestCases
  <2>4. k \in found
    <3>1. k \in One(found)
      BY <1>7, <2>3 DEF Answer
    <3> QED
      BY <3>1, OneMember
  <2>5. AllParse(Over(r, m)) /\ AllParse(Under(r, m)) /\ parse_age(r) # {}
    BY <1>5, <2>2
  <2>6. CASE Over(r, m) # {}
    <3>1. k \in Over(r, m) /\ \A x \in Over(r, m) : ~Less(parse_age(x), parse_age(k))
      BY <2>1, <2>4, <2>6 DEF Lowest
    <3>2. m[k] = Bool(TRUE)
      BY <3>1 DEF Over
    <3>3. CASE j \in Over(r, m)
      BY <3>1, <3>2, <3>3
    <3>4. CASE j \in Under(r, m)
      <4>1. /\ k \in DOMAIN m /\ j \in DOMAIN m /\ m[j] # Bool(TRUE)
            /\ ~Less(parse_age(k), parse_age(r)) /\ ~Less(parse_age(r), parse_age(j))
        BY <3>1, <3>4 DEF Over, Under, Owned
      <4>2. PICK x, y, z : x = AgeOf(j) /\ y = AgeOf(r) /\ z = AgeOf(k)
        OBVIOUS
      <4>3. /\ parse_age(k) # {} /\ k.suffix \in Seq(0..10)
            /\ parse_age(j) # {} /\ j.suffix \in Seq(0..10)
        BY <2>5, <3>1, <3>4 DEF AllParse
      <4>4. ~(z < y) /\ ~(y < x)
        BY <1>3, <2>5, <4>1, <4>2, <4>3, LessIsLess
      <4>5. age >= z /\ ~(age >= x) /\ age \in Nat
        BY <3>2, <4>1, <4>2, <4>3, ElementIsTrue
      <4>6. x \in 0..MaxAge /\ y \in 0..MaxAge /\ z \in 0..MaxAge
        BY <1>3, <2>5, <4>2, <4>3, AgeOfIdentifier
      <4> QED
        BY <4>4, <4>5, <4>6 DEF MaxAge
    <3> QED
      BY <1>4, <1>7, <3>3, <3>4
  <2>7. CASE Over(r, m) = {}
    <3>1. k \in Under(r, m) /\ \A x \in Under(r, m) : ~Less(parse_age(k), parse_age(x))
      BY <2>1, <2>4, <2>7 DEF Highest
    <3>2. m[k] # Bool(TRUE) /\ j \in Under(r, m)
      BY <1>4, <1>7, <2>7, <3>1 DEF Under
    <3> QED
      BY <3>1, <3>2
  <2> QED
    BY <2>6, <2>7
<1> QED
  BY <1>1, <1>2, <1>6, <1>7

\* For every age of the holder, set of statements and request, what the device returns is
\* true of the age that was asked for.
THEOREM AnswersAreTrue == AgeSpec => []AnswerIsTrue
BY InvTrue, StatementsInductive, PTL

\* A request that a statement settles is answered, with the statement nearest to the age
\* that was asked for.
THEOREM AnswersAreNearest == AgeSpec => []AnswerIsNearest
BY InvNearest, StatementsInductive, PTL

-----------------------------------------------------------------------------
(* The fields of the two namespaces *)

\* The field of a name.
IsoField(name) ==
    IF name \in {"family_name", "given_name", "issuing_authority", "document_number"} THEN Mandatory(name, "Latin1")
    ELSE IF name = "birth_date" THEN Mandatory(name, "FullDate")
    ELSE IF name \in {"issue_date", "expiry_date"} THEN Mandatory(name, "TDateOrFullDate")
    ELSE IF name = "issuing_country" THEN Mandatory(name, "Alpha2")
    ELSE IF name = "portrait" THEN Mandatory(name, "ByteStr")
    ELSE IF name = "driving_privileges" THEN Mandatory(name, "DrivingPrivileges")
    ELSE IF name = "un_distinguishing_sign" THEN Mandatory(name, "UNDistinguishingSign")
    ELSE IF name \in {"administrative_number", "birth_place", "resident_address", "resident_city",
                      "resident_state", "resident_postal_code"} THEN Optionally(name, "Latin1")
    ELSE IF name \in {"height", "weight", "age_in_years", "age_birth_year"} THEN Optionally(name, "u32")
    ELSE IF name \in {"nationality", "resident_country"} THEN Optionally(name, "Alpha2")
    ELSE IF name \in {"family_name_national_character", "given_name_national_character"}
         THEN Optionally(name, "String")
    ELSE IF name = "sex" THEN Optionally(name, "Sex")
    ELSE IF name = "eye_colour" THEN Optionally(name, "EyeColour")
    ELSE IF name = "hair_colour" THEN Optionally(name, "HairColour")
    ELSE IF name = "portrait_capture_date" THEN Optionally(name, "TDate")
    ELSE Optionally(name, "ByteStr")

AamvaField(name) ==
    IF name = "domestic_driving_privileges" THEN Mandatory(name, "DomesticDrivingPrivileges")
    ELSE IF name = "sex" THEN Mandatory(name, "AamvaSex")
    ELSE IF name \in {"family_name_truncation", "given_name_truncation"} THEN Mandatory(name, "NameTruncation")
    ELSE IF name = "DHS_compliance" THEN Mandatory(name, "DHSCompliance")
    ELSE IF name = "weight_range" THEN Optionally(name, "WeightRange")
    ELSE IF name = "race_ethnicity" THEN Optionally(name, "RaceAndEthnicity")
    ELSE IF name = "EDL_credential" THEN Optionally(name, "EDLIndicator")
    ELSE IF name = "resident_county" THEN Optionally(name, "CountyCode")
    ELSE IF name = "hazmat_endorsement_expiration_date" THEN Optionally(name, "FullDate")
    ELSE IF name = "DHS_compliance_text" THEN Optionally(name, "String")
    ELSE IF name \in {"name_suffix", "aka_suffix"} THEN Optionally(name, "NameSuffix")
    ELSE IF name \in {"aka_family_name.v2", "aka_given_name.v2"} THEN Optionally(name, "Latin1")
    ELSE Optionally(name, "Present")

\* Names of fields are different, and none is the name of an element with its own parser.
ReservedNames ==
    {"issuing_jurisdiction", "age_over_", "biometric_template_", "age_over_xx", "biometric_template_xx"}

LEMMA FieldNames ==
    ASSUME NEW k
    PROVE  /\ \A f, g \in Fields(k) : f.name = g.name => f = g
           /\ \A f \in Fields(k) : f.name \notin ReservedNames
<1>1. \A f \in OrgIso1801351 : f = IsoField(f.name)
    BY DEF OrgIso1801351, Mandatory, Optionally, IsoField
<1>2. \A f \in OrgIso1801351Aamva : f = AamvaField(f.name)
    BY DEF OrgIso1801351Aamva, Mandatory, Optionally, AamvaField
<1>3. \A f \in OrgIso1801351 : f.name \notin ReservedNames
    BY DEF OrgIso1801351, Mandatory, Optionally, ReservedNames
<1>4. \A f \in OrgIso1801351Aamva : f.name \notin ReservedNames
    BY DEF OrgIso1801351Aamva, Mandatory, Optionally, ReservedNames
<1>. QED BY <1>1, <1>2, <1>3, <1>4 DEF Fields

\* The mandatory country of the ISO namespace.
LEMMA CountryField == Mandatory("issuing_country", "Alpha2") \in Fields("iso")
BY DEF Fields, OrgIso1801351

\* Fields with a parser of their own.
LEMMA DynamicNames ==
    ASSUME NEW k
    PROVE  /\ \A f \in DynamicFields(k) :
                f.name \in {"age_over_xx", "issuing_jurisdiction", "biometric_template_xx"} /\ k = "iso"
           /\ \A f, g \in DynamicFields(k) : f.name = g.name => f = g
           /\ Fields(k) \cap DynamicFields(k) = {}
           /\ \A name \in {"age_over_xx", "issuing_jurisdiction", "biometric_template_xx"} :
                Mandatory(name, "dynamic") \in DynamicFields("iso")
<1>1. \A f \in DynamicFields(k) :
        /\ f.name \in {"age_over_xx", "issuing_jurisdiction", "biometric_template_xx"} /\ k = "iso"
        /\ f = Mandatory(f.name, "dynamic")
    BY DEF DynamicFields, Mandatory
<1>2. \A name \in {"age_over_xx", "issuing_jurisdiction", "biometric_template_xx"} :
                Mandatory(name, "dynamic") \in DynamicFields("iso")
    BY DEF DynamicFields
<1>3. \A f \in Fields(k) : f.name \notin {"age_over_xx", "issuing_jurisdiction", "biometric_template_xx"}
    BY FieldNames DEF ReservedNames
<1>. QED BY <1>1, <1>2, <1>3

\* Null is no value of any type.
LEMMA NullFails == ASSUME NEW type PROVE InNamespace(type, Null) = {}
<1>1. \A t : Is(t, Null) => t = "null"
    BY DEF Is, Null
<1>2. Leaf(type, Null) = {}
    <2>1. JsonU32(Null) = {} /\ JsonString(Null) = {}
        BY <1>1 DEF JsonU32, JsonString
    <2>2. \A numbers : Number(Null, numbers) = {}
        BY <2>1 DEF Number
    <2>. QED BY <2>1, <2>2 DEF Leaf
<1>3. Vec(<<{}>>) = {}
    <2>1. <<{}>> # <<>> /\ 1 \in DOMAIN <<{}>> /\ <<{}>>[1] = {}
        OBVIOUS
    <2>2. NonEmptyVec(<<{}>>) = {}
        BY <2>1 DEF NonEmptyVec
    <2>3. NonEmpty(<<{}>>) = {}
        BY <2>2 DEF NonEmpty
    <2>. QED BY <2>1, <2>3 DEF Vec
<1>4. Decoded(Null, DrivingPrivilege) = <<{}>> /\ Decoded(Null, DomesticDrivingPrivilege) = <<{}>>
    BY <1>1 DEF Decoded
<1>. QED BY <1>2, <1>3, <1>4 DEF InNamespace

-----------------------------------------------------------------------------
(* What each field contributes *)

\* What the macros generate for one field, from the value of its name.
StaticField(f, value) == from_json_opt(f, value, UNION {InNamespace(f.type, v) : v \in value})

LEMMA FieldConversions ==
    ASSUME NEW k, NEW m
    PROVE  /\ DOMAIN AllFields(k, m) = Fields(k) \cup DynamicFields(k)
           /\ \A f \in Fields(k) : AllFields(k, m)[f] = StaticField(f, Get(m, Name(f.name)))
           /\ \A f \in DynamicFields(k) : AllFields(k, m)[f] = Dynamic(f, m)
<1>1. PICK static : static = FieldsOf(Fields(k), m, InNamespace)
    OBVIOUS
<1>2. \A f \in Fields(k) : static[f] = StaticField(f, Get(m, Name(f.name)))
    BY <1>1 DEF FieldsOf, StaticField
<1>3. AllFields(k, m) = [f \in Fields(k) \cup DynamicFields(k) |->
                            IF f \in Fields(k) THEN static[f] ELSE Dynamic(f, m)]
    BY <1>1 DEF AllFields
<1>. QED BY <1>2, <1>3, DynamicNames

\* An entry that is there and not null makes an element of its own name; a field without
\* one makes none, and only if it is optional.
Described(m, j) == j \in DOMAIN m /\ m[j] # Null

LEMMA StaticElements ==
    ASSUME NEW f, NEW m, NEW e \in StaticField(f, Get(m, Name(f.name)))
    PROVE  /\ Described(m, Name(f.name)) => DOMAIN e = {Name(f.name)}
           /\ ~Described(m, Name(f.name)) => DOMAIN e = {} /\ f.optional
<1>1. PICK value : value = Get(m, Name(f.name))
    OBVIOUS
<1>2. PICK converted : converted = UNION {InNamespace(f.type, v) : v \in value}
    OBVIOUS
<1>3. e \in from_json_opt(f, value, converted)
    BY <1>1, <1>2 DEF StaticField
<1>4. DOMAIN NoElement = {} /\ \A x : DOMAIN Element(f.name, x) = {Name(f.name)}
    BY DEF NoElement, Element
<1>5. CASE Described(m, Name(f.name))
    <2>1. value = {m[Name(f.name)]} /\ ~(value \subseteq {Null})
        BY <1>1, <1>5 DEF Described, Get
    <2>2. \E x \in converted : e = Element(f.name, x)
        BY <1>3, <2>1 DEF from_json_opt
    <2>. QED BY <1>4, <1>5, <2>2
<1>6. CASE ~Described(m, Name(f.name))
    <2>1. value = {} \/ value = {Null}
        BY <1>1, <1>6 DEF Described, Get
    <2>2. converted = {}
        BY <1>2, <2>1, NullFails
    <2>3. f.optional /\ e = NoElement
        BY <1>3, <2>1, <2>2 DEF from_json_opt
    <2>. QED BY <1>4, <1>6, <2>3
<1>. QED BY <1>5, <1>6

\* The base of the identifiers that a field makes.
BaseOf(f) ==
    IF f.name = "age_over_xx" THEN "age_over_"
    ELSE IF f.name = "biometric_template_xx" THEN "biometric_template_" ELSE f.name

\* No two fields make elements of the same base.
LEMMA OneOwner ==
    ASSUME NEW k, NEW f \in Fields(k) \cup DynamicFields(k), NEW g \in Fields(k) \cup DynamicFields(k),
           BaseOf(f) = BaseOf(g)
    PROVE  f = g
<1>1. CASE f \in Fields(k) /\ g \in Fields(k)
    <2>1. BaseOf(f) = f.name /\ BaseOf(g) = g.name
        BY <1>1, FieldNames DEF BaseOf, ReservedNames
    <2>. QED BY <1>1, <2>1, FieldNames
<1>2. CASE f \in DynamicFields(k) /\ g \in DynamicFields(k)
    <2>1. f.name = g.name
        BY <1>2, DynamicNames DEF BaseOf
    <2>. QED BY <1>2, <2>1, DynamicNames
<1>3. \A h \in Fields(k) : BaseOf(h) \notin ReservedNames
    BY FieldNames DEF BaseOf, ReservedNames
<1>4. \A h \in DynamicFields(k) : BaseOf(h) \in ReservedNames
    BY DynamicNames DEF BaseOf, ReservedNames
<1>. QED BY <1>1, <1>2, <1>3, <1>4

\* Descriptions whose entries have identifiers.
Identified(m) == \A j \in DOMAIN m : IsIdentifier(j)

\* An identifier is made of its parts.
LEMMA KeyParts ==
    ASSUME NEW base, NEW suffix
    PROVE  Key(base, suffix).base = base /\ Key(base, suffix).suffix = suffix
BY DEF Key

AgeKeys(m) == {k \in DOMAIN m : k.base = "age_over_" /\ to_age(k.suffix) # {}}

LEMMA AgeElements ==
    ASSUME NEW m, Identified(m), NEW a \in AgeOverFromMap(m), NEW e, e = AgeOverToNsMap(a)
    PROVE  /\ DOMAIN e = AgeKeys(m)
           /\ \A j \in AgeKeys(m) : m[j] # Null /\ e[j] = Bool(m[j].bool)
<1>1. /\ \A k \in AgeKeys(m) : Is("bool", m[k])
      /\ a = [s \in {k.suffix : k \in AgeKeys(m)} |-> m[Key("age_over_", s)].bool]
    BY DEF AgeOverFromMap, AgeKeys
<1>2. \A k \in AgeKeys(m) : k = Key("age_over_", k.suffix)
    BY DEF AgeKeys, Identified, IsIdentifier
<1>3. DOMAIN a = {k.suffix : k \in AgeKeys(m)} /\ \A k \in AgeKeys(m) : a[k.suffix] = m[k].bool
    BY <1>1, <1>2
<1>4. {Key("age_over_", s) : s \in DOMAIN a} = AgeKeys(m)
    BY <1>2, <1>3
<1>5. e = [k \in AgeKeys(m) |-> Bool(a[k.suffix])]
    BY <1>4 DEF AgeOverToNsMap
<1>6. ~Is("bool", Null)
    BY DEF Is, Null
<1>. QED BY <1>1, <1>3, <1>5, <1>6

\* An issuing jurisdiction is made of its entry when a country is described, and begins
\* with that country.
LEMMA JurisdictionElements ==
    ASSUME NEW m, NEW e \in IssuingJurisdiction(m), Name("issuing_country") \in DOMAIN m
    PROVE  LET j == Name("issuing_jurisdiction") IN
           /\ j \notin DOMAIN m => DOMAIN e = {}
           /\ j \in DOMAIN m =>
                /\ DOMAIN e = {j} /\ m[j] # Null /\ e[j] = Text(m[j].text)
                /\ \E c \in Leaf("Alpha2", m[Name("issuing_country")]) : c.text.word \in m[j].text.begins
<1>1. PICK j, c : j = Name("issuing_jurisdiction") /\ c = Name("issuing_country")
    OBVIOUS
<1>2. Get(m, c) = {m[c]}
    BY <1>1 DEF Get
<1>3. CASE j \notin DOMAIN m
    <2>1. e = NoElement
        BY <1>1, <1>3 DEF IssuingJurisdiction, Get
    <2>. QED BY <1>1, <1>3, <2>1 DEF NoElement
<1>4. CASE j \in DOMAIN m
    <2>1. Get(m, j) = {m[j]}
        BY <1>4 DEF Get
    <2>2. PICK s \in JsonString(m[j]) :
            e \in {Element("issuing_jurisdiction", Text(s)) : d \in
                    {x \in UNION {Leaf("Alpha2", v) : v \in {m[c]}} : x.text.word \in s.begins}}
        BY <1>1, <1>2, <2>1 DEF IssuingJurisdiction
    <2>3. PICK d \in Leaf("Alpha2", m[c]) :
            d.text.word \in s.begins /\ e = Element("issuing_jurisdiction", Text(s))
        BY <2>2
    <2>4. Is("text", m[j]) /\ s = m[j].text
        BY <2>2 DEF JsonString
    <2>5. m[j] # Null
        BY <2>4 DEF Is, Null
    <2>6. DOMAIN e = {j} /\ e[j] = Text(s)
        BY <1>1, <2>3 DEF Element
    <2>. QED BY <1>1, <1>4, <2>3, <2>4, <2>5, <2>6
<1>. QED BY <1>3, <1>4

BiometricKeys(m) == {k \in DOMAIN m : k.base = "biometric_template_"}

LEMMA BiometricElements ==
    ASSUME NEW m, NEW e \in BiometricTemplate(m)
    PROVE  /\ DOMAIN e = BiometricKeys(m)
           /\ \A j \in BiometricKeys(m) : m[j] # Null /\ e[j] = CHOOSE x \in Leaf("ByteStr", m[j]) : TRUE
<1>1. /\ \A k \in BiometricKeys(m) : Leaf("ByteStr", m[k]) # {}
      /\ e = [k \in BiometricKeys(m) |-> CHOOSE x \in Leaf("ByteStr", m[k]) : TRUE]
    BY DEF BiometricTemplate, BiometricKeys
<1>2. InNamespace("ByteStr", Null) = Leaf("ByteStr", Null)
    BY DEF InNamespace
<1>. QED BY <1>1, <1>2, NullFails

-----------------------------------------------------------------------------
(* The elements of a description without faults *)

\* What each field contributes to the elements.
Contribution(k, m, f) == CHOOSE e \in AllFields(k, m)[f] : TRUE
EveryField(k) == Fields(k) \cup DynamicFields(k)

LEMMA Contributions ==
    ASSUME NEW k, NEW m, Faults(AllFields(k, m)) = {}, NEW f \in EveryField(k)
    PROVE  /\ Contribution(k, m, f) \in AllFields(k, m)[f]
           /\ f \in Fields(k) => Contribution(k, m, f) \in StaticField(f, Get(m, Name(f.name)))
           /\ f \in DynamicFields(k) => Contribution(k, m, f) \in Dynamic(f, m)
<1>1. f \in DOMAIN AllFields(k, m)
    BY FieldConversions DEF EveryField
<1>2. AllFields(k, m)[f] # {}
    BY <1>1 DEF Faults
<1>3. Contribution(k, m, f) \in AllFields(k, m)[f]
    BY <1>2 DEF Contribution
<1>4. f \in Fields(k) => AllFields(k, m)[f] = StaticField(f, Get(m, Name(f.name)))
    BY FieldConversions
<1>5. f \in DynamicFields(k) => AllFields(k, m)[f] = Dynamic(f, m)
    BY FieldConversions
<1>. QED BY <1>3, <1>4, <1>5

\* The country is mandatory.
LEMMA CountryDescribed ==
    ASSUME NEW m, Faults(AllFields("iso", m)) = {}
    PROVE  Described(m, Name("issuing_country"))
<1>1. PICK f \in Fields("iso") : f = Mandatory("issuing_country", "Alpha2")
    BY CountryField
<1>2. f.name = "issuing_country" /\ ~f.optional
    BY <1>1 DEF Mandatory
<1>3. Contribution("iso", m, f) \in StaticField(f, Get(m, Name(f.name)))
    BY Contributions DEF EveryField
<1>. QED BY <1>2, <1>3, StaticElements

\* A value that a field with its own parser makes of an entry.
DynamicValue(f, v) ==
    CASE f.name = "age_over_xx" -> Bool(v.bool)
      [] f.name = "issuing_jurisdiction" -> Text(v.text)
      [] f.name = "biometric_template_xx" -> CHOOSE x \in Leaf("ByteStr", v) : TRUE

\* The entries that such a field reads.
DynamicKeys(f, m) ==
    CASE f.name = "age_over_xx" -> AgeKeys(m)
      [] f.name = "issuing_jurisdiction" -> DOMAIN m \cap {Name("issuing_jurisdiction")}
      [] f.name = "biometric_template_xx" -> BiometricKeys(m)

LEMMA DynamicElements ==
    ASSUME NEW k, NEW m, Identified(m), Faults(AllFields(k, m)) = {}, NEW f \in DynamicFields(k),
           NEW e, e = Contribution(k, m, f)
    PROVE  /\ DOMAIN e = DynamicKeys(f, m)
           /\ \A j \in DynamicKeys(f, m) : m[j] # Null /\ e[j] = DynamicValue(f, m[j])
<1>1. k = "iso" /\ f.name \in {"age_over_xx", "issuing_jurisdiction", "biometric_template_xx"}
    BY DynamicNames
<1>2. e \in Dynamic(f, m)
    BY Contributions DEF EveryField
<1>3. CASE f.name = "age_over_xx"
    <2>1. PICK a \in AgeOverFromMap(m) : e = AgeOverToNsMap(a)
        BY <1>2, <1>3 DEF Dynamic
    <2>2. DynamicKeys(f, m) = AgeKeys(m) /\ \A v : DynamicValue(f, v) = Bool(v.bool)
        BY <1>3 DEF DynamicKeys, DynamicValue
    <2>. QED BY <2>1, <2>2, AgeElements
<1>4. CASE f.name = "issuing_jurisdiction"
    <2>1. e \in IssuingJurisdiction(m)
        BY <1>2, <1>4 DEF Dynamic
    <2>2. /\ DynamicKeys(f, m) = DOMAIN m \cap {Name("issuing_jurisdiction")}
          /\ \A v : DynamicValue(f, v) = Text(v.text)
        BY <1>4 DEF DynamicKeys, DynamicValue
    <2>3. Name("issuing_country") \in DOMAIN m
        BY <1>1, CountryDescribed DEF Described
    <2>. QED BY <2>1, <2>2, <2>3, JurisdictionElements
<1>5. CASE f.name = "biometric_template_xx"
    <2>1. e \in BiometricTemplate(m)
        BY <1>2, <1>5 DEF Dynamic
    <2>2. /\ DynamicKeys(f, m) = BiometricKeys(m)
          /\ \A v : DynamicValue(f, v) = CHOOSE x \in Leaf("ByteStr", v) : TRUE
        BY <1>5 DEF DynamicKeys, DynamicValue
    <2>. QED BY <2>1, <2>2, BiometricElements
<1>. QED BY <1>1, <1>3, <1>4, <1>5

\* A field makes elements of its base.
LEMMA ElementBase ==
    ASSUME NEW k, NEW m, Identified(m), Faults(AllFields(k, m)) = {}, NEW f \in EveryField(k),
           NEW j \in DOMAIN Contribution(k, m, f)
    PROVE  j.base = BaseOf(f)
<1>1. CASE f \in Fields(k)
    <2>1. Contribution(k, m, f) \in StaticField(f, Get(m, Name(f.name)))
        BY <1>1, Contributions
    <2>2. j = Name(f.name)
        BY <2>1, StaticElements
    <2>3. BaseOf(f) = f.name
        BY <1>1, FieldNames DEF BaseOf, ReservedNames
    <2>. QED BY <2>2, <2>3, KeyParts DEF Name
<1>2. CASE f \in DynamicFields(k)
    <2>1. j \in DynamicKeys(f, m)
        BY <1>2, DynamicElements
    <2>2. f.name \in {"age_over_xx", "issuing_jurisdiction", "biometric_template_xx"}
        BY <1>2, DynamicNames
    <2>3. Name("issuing_jurisdiction").base = "issuing_jurisdiction"
        BY KeyParts DEF Name
    <2>. QED BY <2>1, <2>2, <2>3 DEF DynamicKeys, BaseOf, AgeKeys, BiometricKeys
<1>. QED BY <1>1, <1>2 DEF EveryField

\* The elements are those of the fields, each the contribution of one field.
LEMMA ElementsOfFields ==
    ASSUME NEW k, NEW m
    PROVE  DOMAIN ToNsMap(AllFields(k, m)) = UNION {DOMAIN Contribution(k, m, f) : f \in EveryField(k)}
<1>0. DOMAIN AllFields(k, m) = EveryField(k)
    BY FieldConversions DEF EveryField
<1>1. PICK map : map = [f \in EveryField(k) |-> Contribution(k, m, f)]
    OBVIOUS
<1>2. UNION {DOMAIN map[f] : f \in DOMAIN map} = UNION {DOMAIN Contribution(k, m, f) : f \in EveryField(k)}
    BY <1>1
<1>3. ToNsMap(AllFields(k, m)) =
        [i \in UNION {DOMAIN map[g] : g \in DOMAIN map} |-> map[CHOOSE g \in DOMAIN map : i \in DOMAIN map[g]][i]]
    BY <1>1, <1>0 DEF ToNsMap, Contribution
<1>. QED BY <1>2, <1>3

LEMMA ElementOfField ==
    ASSUME NEW k, NEW m, Identified(m), Faults(AllFields(k, m)) = {}, NEW f \in EveryField(k),
           NEW j \in DOMAIN Contribution(k, m, f)
    PROVE  ToNsMap(AllFields(k, m))[j] = Contribution(k, m, f)[j]
<1>0. DOMAIN AllFields(k, m) = EveryField(k)
    BY FieldConversions DEF EveryField
<1>1. PICK map : map = [g \in EveryField(k) |-> Contribution(k, m, g)]
    OBVIOUS
<1>2. (CHOOSE g \in DOMAIN map : j \in DOMAIN map[g]) = f
    <2>1. \A g \in EveryField(k) : j \in DOMAIN map[g] => BaseOf(g) = BaseOf(f)
        BY <1>1, ElementBase
    <2>2. \A g \in EveryField(k) : j \in DOMAIN map[g] => g = f
        BY <2>1, OneOwner DEF EveryField
    <2>. QED BY <1>1, <2>2
<1>3. j \in UNION {DOMAIN map[g] : g \in DOMAIN map}
    BY <1>1
<1>4. ToNsMap(AllFields(k, m)) =
        [i \in UNION {DOMAIN map[g] : g \in DOMAIN map} |-> map[CHOOSE g \in DOMAIN map : i \in DOMAIN map[g]][i]]
    BY <1>1, <1>0 DEF ToNsMap, Contribution
<1>5. ToNsMap(AllFields(k, m))[j] = map[CHOOSE g \in DOMAIN map : j \in DOMAIN map[g]][j]
    BY <1>3, <1>4
<1>. QED BY <1>1, <1>2, <1>5

\* The elements are the entries that the structure knows and that are not null.
LEMMA ElementsAreEntries ==
    ASSUME NEW k, NEW m, Identified(m), Faults(AllFields(k, m)) = {}
    PROVE  DOMAIN ToNsMap(AllFields(k, m)) = {j \in DOMAIN m : Known(k, j) /\ m[j] # Null}
<1>1. \A f \in Fields(k) : Contribution(k, m, f) \in StaticField(f, Get(m, Name(f.name)))
    BY Contributions DEF EveryField
<1>2. ASSUME NEW f \in EveryField(k), NEW j \in DOMAIN Contribution(k, m, f)
      PROVE  j \in DOMAIN m /\ Known(k, j) /\ m[j] # Null
    <2>1. CASE f \in Fields(k)
        <3>1. j = Name(f.name) /\ Described(m, j)
            BY <1>1, <1>2, <2>1, StaticElements
        <3>2. j.base = f.name /\ j.suffix = <<>>
            BY <3>1, KeyParts DEF Name
        <3>. QED BY <2>1, <3>1, <3>2 DEF Described, Known
    <2>2. CASE f \in DynamicFields(k)
        <3>1. j \in DynamicKeys(f, m) /\ m[j] # Null
            BY <1>2, <2>2, DynamicElements
        <3>2. k = "iso" /\ f.name \in {"age_over_xx", "issuing_jurisdiction", "biometric_template_xx"}
            BY <2>2, DynamicNames
        <3>3. j \in DOMAIN m /\ (\/ j.base = "age_over_" /\ to_age(j.suffix) # {}
                                 \/ j.base = "biometric_template_"
                                 \/ j = Name("issuing_jurisdiction"))
            BY <3>1, <3>2 DEF DynamicKeys, AgeKeys, BiometricKeys
        <3>. QED BY <3>1, <3>2, <3>3 DEF Known
    <2>. QED BY <1>2, <2>1, <2>2 DEF EveryField
<1>3. ASSUME NEW j \in DOMAIN m, Known(k, j), m[j] # Null
      PROVE  \E f \in EveryField(k) : j \in DOMAIN Contribution(k, m, f)
    <2>1. CASE j.base \in {f.name : f \in Fields(k)} /\ j.suffix = <<>>
        <3>1. PICK f \in Fields(k) : j.base = f.name
            BY <2>1
        <3>2. j = Name(f.name)
            BY <1>3, <2>1, <3>1 DEF Identified, IsIdentifier, Name
        <3>3. Described(m, Name(f.name))
            BY <1>3, <3>2 DEF Described
        <3>. QED BY <1>1, <3>2, <3>3, StaticElements DEF EveryField
    <2>2. ASSUME k = "iso", NEW name \in {"age_over_xx", "issuing_jurisdiction", "biometric_template_xx"},
                 j \in DynamicKeys(Mandatory(name, "dynamic"), m)
          PROVE  \E f \in EveryField(k) : j \in DOMAIN Contribution(k, m, f)
        <3>1. Mandatory(name, "dynamic") \in DynamicFields(k)
            BY <2>2, DynamicNames
        <3>. QED BY <2>2, <3>1, DynamicElements DEF EveryField
    <2>3. CASE k = "iso" /\ j.base = "age_over_" /\ to_age(j.suffix) # {}
        <3>1. j \in DynamicKeys(Mandatory("age_over_xx", "dynamic"), m)
            BY <1>3, <2>3 DEF DynamicKeys, Mandatory, AgeKeys
        <3>. QED BY <2>2, <2>3, <3>1
    <2>4. CASE k = "iso" /\ j.base = "biometric_template_"
        <3>1. j \in DynamicKeys(Mandatory("biometric_template_xx", "dynamic"), m)
            BY <1>3, <2>4 DEF DynamicKeys, Mandatory, BiometricKeys
        <3>. QED BY <2>2, <2>4, <3>1
    <2>5. CASE k = "iso" /\ j = Name("issuing_jurisdiction")
        <3>1. j \in DynamicKeys(Mandatory("issuing_jurisdiction", "dynamic"), m)
            BY <1>3, <2>5 DEF DynamicKeys, Mandatory
        <3>. QED BY <2>2, <2>5, <3>1
    <2>. QED BY <1>3, <2>1, <2>3, <2>4, <2>5 DEF Known
<1>4. DOMAIN ToNsMap(AllFields(k, m)) = UNION {DOMAIN Contribution(k, m, f) : f \in EveryField(k)}
    BY ElementsOfFields
<1>5. \A j : j \in UNION {DOMAIN Contribution(k, m, f) : f \in EveryField(k)}
                <=> j \in {i \in DOMAIN m : Known(k, i) /\ m[i] # Null}
    BY <1>2, <1>3
<1>. QED BY <1>4, <1>5

-----------------------------------------------------------------------------
(* Changes of the description *)

\* The last result is that of the present description, whose entries have identifiers:
\* every change converts the description again (FromJson of the structures).
THEOREM NamespaceInductive == NamespaceSpec => []NamespaceInv
<1>1. NamespaceInit => NamespaceInv
    BY IdentifiersAssumption DEF NamespaceInit, NamespaceInv
<1>2. NamespaceInv /\ [NamespaceNext]_namespaceVars => NamespaceInv'
    <2>. SUFFICES ASSUME NamespaceInv, [NamespaceNext]_namespaceVars
                  PROVE  NamespaceInv'
        OBVIOUS
    <2>1. CASE PutEntry
        <3>1. PICK k \in Changeable, v \in Values :
                Changed([j \in DOMAIN json \cup {k} |-> IF j = k THEN v ELSE json[j]])
            BY <2>1 DEF PutEntry
        <3>2. IsIdentifier(k)
            BY IdentifiersAssumption DEF NamespaceInv, Changeable
        <3>3. DOMAIN json' = DOMAIN json \cup {k} /\ kind' = kind /\ result' = Converted(kind, json')
            BY <3>1 DEF Changed
        <3>. QED BY <3>2, <3>3 DEF NamespaceInv
    <2>2. CASE RemoveEntry
        <3>1. PICK k : Changed(Restrict(json, DOMAIN json \ {k}))
            BY <2>2 DEF RemoveEntry
        <3>2. DOMAIN json' = DOMAIN json \ {k} /\ kind' = kind /\ result' = Converted(kind, json')
            BY <3>1 DEF Changed, Restrict
        <3>. QED BY <3>2 DEF NamespaceInv
    <2>3. CASE UNCHANGED namespaceVars
        BY <2>3 DEF NamespaceInv, namespaceVars
    <2>. QED BY <2>1, <2>2, <2>3 DEF NamespaceNext
<1>. QED BY <1>1, <1>2, PTL DEF NamespaceSpec

\* What a conversion without a panic reports.
LEMMA Conversion ==
    ASSUME NEW k, NEW m, ~Converted(k, m).panic
    PROVE  /\ Converted(k, m).errors = Faults(AllFields(k, m))
           /\ \A e \in Converted(k, m).elements : Faults(AllFields(k, m)) = {} /\ e = ToNsMap(AllFields(k, m))
<1>1. PICK converted : converted = AllFields(k, m)
    OBVIOUS
<1>2. PICK faults : faults = Faults(converted)
    OBVIOUS
<1>3. ~Panics(k, m)
    BY DEF Converted
<1>4. Converted(k, m) = [panic |-> FALSE, errors |-> faults,
                         elements |-> IF faults = {} THEN {ToNsMap(converted)} ELSE {}]
    BY <1>1, <1>2, <1>3 DEF Converted
<1>. QED BY <1>1, <1>2, <1>4

\* Elements are made only without a panic.
LEMMA ElementsWithoutPanic ==
    ASSUME NEW k, NEW m, NEW e \in Converted(k, m).elements
    PROVE  ~Converted(k, m).panic
<1>1. CASE Panics(k, m)
    <2>1. Converted(k, m).elements = {}
        BY <1>1 DEF Converted
    <2>. QED BY <2>1
<1>2. CASE ~Panics(k, m)
    BY <1>2 DEF Converted
<1>. QED BY <1>1, <1>2

\* The last result's elements are those of the present description.
LEMMA PresentElements ==
    ASSUME NamespaceInv, NEW m \in result.elements
    PROVE  /\ Identified(json) /\ Faults(AllFields(kind, json)) = {} /\ m = ToNsMap(AllFields(kind, json))
           /\ \A f \in Fields(kind) : Contribution(kind, json, f) \in StaticField(f, Get(json, Name(f.name)))
<1>1. ~Converted(kind, json).panic /\ m \in Converted(kind, json).elements
    BY ElementsWithoutPanic DEF NamespaceInv
<1>2. Faults(AllFields(kind, json)) = {} /\ m = ToNsMap(AllFields(kind, json))
    BY <1>1, Conversion
<1>. QED BY <1>2, Contributions DEF NamespaceInv, Identified, EveryField

\* A credential has exactly the described elements that its namespace knows, all mandatory
\* ones among them, whatever entries an application puts into the description or takes out
\* of it: no entry is left out because it could not be converted.
THEOREM NothingIsLost == NamespaceSpec => []NothingLost
<1>1. NamespaceInv => NothingLost
    <2>. SUFFICES ASSUME NamespaceInv, NEW m \in result.elements
                  PROVE  /\ DOMAIN m = {j \in DOMAIN json : Known(kind, j) /\ json[j] # Null}
                         /\ \A f \in Fields(kind) : ~f.optional => Name(f.name) \in DOMAIN m
        BY DEF NothingLost
    <2>1. DOMAIN m = {j \in DOMAIN json : Known(kind, j) /\ json[j] # Null}
        BY PresentElements, ElementsAreEntries
    <2>2. ASSUME NEW f \in Fields(kind), ~f.optional
          PROVE  Name(f.name) \in DOMAIN m
        <3>1. Contribution(kind, json, f) \in StaticField(f, Get(json, Name(f.name)))
            BY PresentElements
        <3>2. Name(f.name) \in DOMAIN Contribution(kind, json, f)
            BY <2>2, <3>1, StaticElements
        <3>3. DOMAIN m = UNION {DOMAIN Contribution(kind, json, g) : g \in EveryField(kind)}
            BY PresentElements, ElementsOfFields
        <3>. QED BY <3>2, <3>3 DEF EveryField
    <2>. QED BY <2>1, <2>2
<1>. QED BY <1>1, NamespaceInductive, PTL

\* The element of the country is made of its entry.
LEMMA CountryElement ==
    ASSUME NEW m, Identified(m), Faults(AllFields("iso", m)) = {}
    PROVE  ToNsMap(AllFields("iso", m))[Name("issuing_country")] \in Leaf("Alpha2", m[Name("issuing_country")])
<1>1. PICK f \in Fields("iso") : f = Mandatory("issuing_country", "Alpha2")
    BY CountryField
<1>2. f.name = "issuing_country" /\ f.type = "Alpha2" /\ ~f.optional
    BY <1>1 DEF Mandatory
<1>3. PICK c : c = Name("issuing_country")
    OBVIOUS
<1>4. c \in DOMAIN m /\ Get(m, c) = {m[c]}
    BY <1>3, CountryDescribed DEF Described, Get
<1>5. Contribution("iso", m, f) \in StaticField(f, {m[c]})
    BY <1>2, <1>3, <1>4, Contributions DEF EveryField
<1>6. PICK x \in InNamespace("Alpha2", m[c]) : Contribution("iso", m, f) = Element("issuing_country", x)
    BY <1>2, <1>5 DEF StaticField, from_json_opt
<1>7. InNamespace("Alpha2", m[c]) = Leaf("Alpha2", m[c])
    BY DEF InNamespace
<1>8. c \in DOMAIN Contribution("iso", m, f) /\ Contribution("iso", m, f)[c] = x
    BY <1>3, <1>6 DEF Element
<1>9. ToNsMap(AllFields("iso", m))[c] = x
    BY <1>8, ElementOfField DEF EveryField
<1>. QED BY <1>3, <1>6, <1>7, <1>9

\* A country that is converted is the string of its entry.
LEMMA CountryIsItsText ==
    ASSUME NEW v, NEW c \in Leaf("Alpha2", v)
    PROVE  c = Text(v.text)
<1>1. "Alpha2" \notin DOMAIN OfNumber
    BY DEF OfNumber
<1>2. PICK s \in JsonString(v) : c \in OfString("Alpha2", s)
    BY <1>1 DEF Leaf
<1>3. s = v.text
    BY <1>2 DEF JsonString
<1>4. c \in Word(s, Alpha2)
    BY <1>2 DEF OfString
<1>. QED BY <1>3, <1>4 DEF Word

\* The jurisdiction of a credential begins with the country of the same credential, after
\* any changes of either: both are read from the whole object (FromJsonMap for
\* Option<IssuingJurisdiction>).
THEOREM JurisdictionIsInCountry == NamespaceSpec => []JurisdictionInCountry
<1>1. NamespaceInv => JurisdictionInCountry
    <2>. SUFFICES ASSUME NamespaceInv, NEW m \in result.elements, Name("issuing_jurisdiction") \in DOMAIN m
                  PROVE  m[Name("issuing_country")].text.word \in m[Name("issuing_jurisdiction")].text.begins
        BY DEF JurisdictionInCountry
    <2>1. /\ Identified(json) /\ Faults(AllFields(kind, json)) = {}
          /\ m = ToNsMap(AllFields(kind, json))
        BY PresentElements
    <2>2. PICK j, c : j = Name("issuing_jurisdiction") /\ c = Name("issuing_country")
        OBVIOUS
    <2>3. j.base = "issuing_jurisdiction"
        BY <2>2, KeyParts DEF Name
    <2>4. PICK f \in EveryField(kind) : j \in DOMAIN Contribution(kind, json, f)
        <3>1. DOMAIN m = UNION {DOMAIN Contribution(kind, json, g) : g \in EveryField(kind)}
            BY <2>1, ElementsOfFields
        <3>. QED BY <2>2, <3>1
    <2>5. BaseOf(f) = "issuing_jurisdiction"
        BY <2>1, <2>3, <2>4, ElementBase
    <2>6. f \in DynamicFields(kind) /\ f.name = "issuing_jurisdiction"
        BY <2>5, FieldNames DEF BaseOf, EveryField, ReservedNames
    <2>7. kind = "iso"
        BY <2>6, DynamicNames
    <2>8. PICK e : e = Contribution(kind, json, f)
        OBVIOUS
    <2>9. e \in IssuingJurisdiction(json)
        BY <2>1, <2>6, <2>8, Contributions DEF EveryField, Dynamic
    <2>10. c \in DOMAIN json
        BY <2>1, <2>2, <2>7, CountryDescribed DEF Described
    <2>11. PICK d \in Leaf("Alpha2", json[c]) : d.text.word \in json[j].text.begins /\ e[j] = Text(json[j].text)
        BY <2>2, <2>4, <2>8, <2>9, <2>10, JurisdictionElements
    <2>12. m[j] = e[j]
        BY <2>1, <2>4, <2>8, ElementOfField
    <2>13. m[c] \in Leaf("Alpha2", json[c])
        BY <2>1, <2>2, <2>7, CountryElement
    <2>14. m[c] = d
        BY <2>11, <2>13, CountryIsItsText
    <2>15. m[j].text = json[j].text
        BY <2>11, <2>12 DEF Text
    <2>. QED BY <2>2, <2>11, <2>14, <2>15
<1>. QED BY <1>1, NamespaceInductive, PTL

-----------------------------------------------------------------------------
(* One entry at a time *)

\* Two descriptions that agree on all entries but one.
AgreeBut(m, n, j) ==
    \A i : i # j => /\ i \in DOMAIN m <=> i \in DOMAIN n
                    /\ i \in DOMAIN m => m[i] = n[i]

\* The jurisdiction depends on two entries.
JurisdictionFrom(jurisdiction, country) ==
    IF jurisdiction = {} THEN {NoElement}
    ELSE UNION {IF country = {} THEN {NoElement}
                ELSE {Element("issuing_jurisdiction", Text(s)) : c \in
                        {x \in UNION {Leaf("Alpha2", v) : v \in country} : x.text.word \in s.begins}} :
                s \in UNION {JsonString(v) : v \in jurisdiction}}

LEMMA JurisdictionOf ==
    ASSUME NEW m
    PROVE  IssuingJurisdiction(m) =
             JurisdictionFrom(Get(m, Name("issuing_jurisdiction")), Get(m, Name("issuing_country")))
BY DEF IssuingJurisdiction, JurisdictionFrom

\* A field that an entry does not concern is converted alike.
LEMMA UnconcernedField ==
    ASSUME NEW k, NEW m, NEW n, NEW j, AgreeBut(m, n, j), Identified(m), Identified(n),
           NEW f \in EveryField(k), f.name \notin Concerns(j)
    PROVE  AllFields(k, m)[f] = AllFields(k, n)[f]
<1>0. f.name # j.base
    BY DEF Concerns
<1>1. CASE f \in Fields(k)
    <2>1. Name(f.name) # j
        BY <1>0, KeyParts DEF Name
    <2>2. Get(m, Name(f.name)) = Get(n, Name(f.name))
        BY <2>1 DEF AgreeBut, Get
    <2>3. AllFields(k, m)[f] = StaticField(f, Get(m, Name(f.name)))
        BY <1>1, FieldConversions
    <2>4. AllFields(k, n)[f] = StaticField(f, Get(n, Name(f.name)))
        BY <1>1, FieldConversions
    <2>. QED BY <2>2, <2>3, <2>4
<1>2. CASE f \in DynamicFields(k)
    <2>1. Dynamic(f, m) = Dynamic(f, n)
        <3>1. f.name \in {"age_over_xx", "issuing_jurisdiction", "biometric_template_xx"}
            BY <1>2, DynamicNames
        <3>2. CASE f.name = "age_over_xx"
            <4>1. j.base # "age_over_"
                BY <3>2 DEF Concerns
            <4>2. AgeKeys(m) = AgeKeys(n) /\ \A i \in AgeKeys(m) : m[i] = n[i]
                BY <4>1 DEF AgeKeys, AgreeBut
            <4>3. \A i \in AgeKeys(m) : i = Key("age_over_", i.suffix)
                BY DEF AgeKeys, Identified, IsIdentifier
            <4>4. PICK A : A = AgeKeys(m)
                OBVIOUS
            <4>5. \A s \in {i.suffix : i \in A} : m[Key("age_over_", s)].bool = n[Key("age_over_", s)].bool
                BY <4>2, <4>3, <4>4
            <4>6. [s \in {i.suffix : i \in A} |-> m[Key("age_over_", s)].bool]
                    = [s \in {i.suffix : i \in A} |-> n[Key("age_over_", s)].bool]
                BY <4>5
            <4>7. (\A i \in A : Is("bool", m[i])) <=> (\A i \in A : Is("bool", n[i]))
                BY <4>2, <4>4
            <4>8. /\ AgeOverFromMap(m) = IF \A i \in A : Is("bool", m[i])
                                         THEN {[s \in {i.suffix : i \in A} |-> m[Key("age_over_", s)].bool]} ELSE {}
                  /\ AgeOverFromMap(n) = IF \A i \in A : Is("bool", n[i])
                                         THEN {[s \in {i.suffix : i \in A} |-> n[Key("age_over_", s)].bool]} ELSE {}
                BY <4>2, <4>4 DEF AgeOverFromMap, AgeKeys
            <4>9. AgeOverFromMap(m) = AgeOverFromMap(n)
                BY <4>6, <4>7, <4>8
            <4>. QED BY <3>2, <4>9 DEF Dynamic
        <3>3. CASE f.name = "issuing_jurisdiction"
            <4>1. j.base # "issuing_country" /\ j.base # "issuing_jurisdiction"
                BY <1>0, <3>3 DEF Concerns
            <4>2. Name("issuing_jurisdiction") # j /\ Name("issuing_country") # j
                BY <4>1, KeyParts DEF Name
            <4>3. /\ Get(m, Name("issuing_jurisdiction")) = Get(n, Name("issuing_jurisdiction"))
                  /\ Get(m, Name("issuing_country")) = Get(n, Name("issuing_country"))
                BY <4>2 DEF AgreeBut, Get
            <4>4. IssuingJurisdiction(m) = IssuingJurisdiction(n)
                BY <4>3, JurisdictionOf
            <4>. QED BY <3>3, <4>4 DEF Dynamic
        <3>4. CASE f.name = "biometric_template_xx"
            <4>1. j.base # "biometric_template_"
                BY <3>4 DEF Concerns
            <4>2. BiometricKeys(m) = BiometricKeys(n) /\ \A i \in BiometricKeys(m) : m[i] = n[i]
                BY <4>1 DEF BiometricKeys, AgreeBut
            <4>3. PICK A : A = BiometricKeys(m)
                OBVIOUS
            <4>4. [i \in A |-> CHOOSE x \in Leaf("ByteStr", m[i]) : TRUE]
                    = [i \in A |-> CHOOSE x \in Leaf("ByteStr", n[i]) : TRUE]
                BY <4>2, <4>3
            <4>5. (\A i \in A : Leaf("ByteStr", m[i]) # {}) <=> (\A i \in A : Leaf("ByteStr", n[i]) # {})
                BY <4>2, <4>3
            <4>6. /\ BiometricTemplate(m) = IF \A i \in A : Leaf("ByteStr", m[i]) # {}
                                            THEN {[i \in A |-> CHOOSE x \in Leaf("ByteStr", m[i]) : TRUE]} ELSE {}
                  /\ BiometricTemplate(n) = IF \A i \in A : Leaf("ByteStr", n[i]) # {}
                                            THEN {[i \in A |-> CHOOSE x \in Leaf("ByteStr", n[i]) : TRUE]} ELSE {}
                BY <4>2, <4>3 DEF BiometricTemplate, BiometricKeys
            <4>7. BiometricTemplate(m) = BiometricTemplate(n)
                BY <4>4, <4>5, <4>6
            <4>. QED BY <3>4, <4>7 DEF Dynamic
        <3>. QED BY <3>1, <3>2, <3>3, <3>4
    <2>. QED BY <1>2, <2>1, FieldConversions
<1>. QED BY <1>1, <1>2 DEF EveryField

\* An element is made of its own entry.
LEMMA ElementOfItsEntry ==
    ASSUME NEW k, NEW m, NEW n, NEW j, AgreeBut(m, n, j), Identified(m), Identified(n),
           Faults(AllFields(k, m)) = {}, Faults(AllFields(k, n)) = {},
           NEW f \in EveryField(k), NEW i, i # j,
           i \in DOMAIN Contribution(k, m, f), i \in DOMAIN Contribution(k, n, f)
    PROVE  Contribution(k, m, f)[i] = Contribution(k, n, f)[i]
<1>1. CASE f \in Fields(k)
    <2>1. Contribution(k, m, f) \in StaticField(f, Get(m, Name(f.name)))
        BY <1>1, Contributions
    <2>2. i = Name(f.name)
        BY <2>1, StaticElements
    <2>3. Get(m, Name(f.name)) = Get(n, Name(f.name))
        BY <2>2 DEF AgreeBut, Get
    <2>4. AllFields(k, m)[f] = StaticField(f, Get(m, Name(f.name)))
        BY <1>1, FieldConversions
    <2>5. AllFields(k, n)[f] = StaticField(f, Get(n, Name(f.name)))
        BY <1>1, FieldConversions
    <2>6. AllFields(k, m)[f] = AllFields(k, n)[f]
        BY <2>3, <2>4, <2>5
    <2>. QED BY <2>6 DEF Contribution
<1>2. CASE f \in DynamicFields(k)
    <2>1. i \in DynamicKeys(f, m) /\ Contribution(k, m, f)[i] = DynamicValue(f, m[i])
        BY <1>2, DynamicElements
    <2>2. i \in DynamicKeys(f, n) /\ Contribution(k, n, f)[i] = DynamicValue(f, n[i])
        BY <1>2, DynamicElements
    <2>3. f.name \in {"age_over_xx", "issuing_jurisdiction", "biometric_template_xx"}
        BY <1>2, DynamicNames
    <2>4. i \in DOMAIN m
        BY <2>1, <2>3 DEF DynamicKeys, AgeKeys, BiometricKeys
    <2>5. m[i] = n[i]
        BY <2>4 DEF AgreeBut
    <2>. QED BY <2>1, <2>2, <2>5
<1>. QED BY <1>1, <1>2 DEF EveryField

\* A change of one entry of a description changes the verdict on that entry, or on what is
\* read together with it, and no other verdict and no other element: the macros try every
\* field and collect all faults.
THEOREM OnlyThatEntryChanges == NamespaceSpec => OnlyThatEntry
<1>1. ASSUME NamespaceInv, NamespaceInv', kind' = kind, NEW j, ~result.panic, ~result'.panic,
             \A i \in (DOMAIN json \cup DOMAIN json') \ {j} :
                i \in DOMAIN json \cap DOMAIN json' /\ json'[i] = json[i]
      PROVE  /\ \A name \in (result.errors \cup result'.errors) \ Concerns(j) :
                    name \in result.errors \cap result'.errors
             /\ \A m \in result.elements, n \in result'.elements :
                    \A i \in (DOMAIN m \cup DOMAIN n) \ {j} : i \in DOMAIN m \cap DOMAIN n /\ m[i] = n[i]
    <2>1. PICK k, p, q : k = kind /\ p = json /\ q = json'
        OBVIOUS
    <2>2. AgreeBut(p, q, j)
        BY <1>1, <2>1 DEF AgreeBut
    <2>3. Identified(p) /\ Identified(q)
        BY <1>1, <2>1 DEF NamespaceInv, Identified
    <2>4. /\ result = Converted(k, p) /\ result' = Converted(k, q)
          /\ ~Converted(k, p).panic /\ ~Converted(k, q).panic
        BY <1>1, <2>1 DEF NamespaceInv
    <2>5. ASSUME NEW name \in (result.errors \cup result'.errors) \ Concerns(j)
          PROVE  name \in result.errors \cap result'.errors
        <3>1. result.errors = Faults(AllFields(k, p)) /\ result'.errors = Faults(AllFields(k, q))
            BY <2>4, Conversion
        <3>2. DOMAIN AllFields(k, p) = EveryField(k) /\ DOMAIN AllFields(k, q) = EveryField(k)
            BY FieldConversions DEF EveryField
        <3>3. PICK f \in EveryField(k) : f.name = name /\ (AllFields(k, p)[f] = {} \/ AllFields(k, q)[f] = {})
            BY <2>5, <3>1, <3>2 DEF Faults
        <3>4. AllFields(k, p)[f] = AllFields(k, q)[f]
            BY <2>2, <2>3, <2>5, <3>3, UnconcernedField
        <3>. QED BY <3>1, <3>2, <3>3, <3>4 DEF Faults
    <2>6. ASSUME NEW m \in result.elements, NEW n \in result'.elements,
                 NEW i \in (DOMAIN m \cup DOMAIN n) \ {j}
          PROVE  i \in DOMAIN m \cap DOMAIN n /\ m[i] = n[i]
        <3>1. /\ Faults(AllFields(k, p)) = {} /\ m = ToNsMap(AllFields(k, p))
              /\ Faults(AllFields(k, q)) = {} /\ n = ToNsMap(AllFields(k, q))
            BY <2>4, <2>6, Conversion
        <3>2. /\ DOMAIN m = {h \in DOMAIN p : Known(k, h) /\ p[h] # Null}
              /\ DOMAIN n = {h \in DOMAIN q : Known(k, h) /\ q[h] # Null}
            BY <2>3, <3>1, ElementsAreEntries
        <3>3. i \in DOMAIN m \cap DOMAIN n
            BY <2>2, <2>6, <3>2 DEF AgreeBut
        <3>4. /\ DOMAIN m = UNION {DOMAIN Contribution(k, p, f) : f \in EveryField(k)}
              /\ DOMAIN n = UNION {DOMAIN Contribution(k, q, f) : f \in EveryField(k)}
            BY <2>3, <3>1, ElementsOfFields
        <3>5. PICK f \in EveryField(k) : i \in DOMAIN Contribution(k, p, f)
            BY <3>3, <3>4
        <3>6. PICK g \in EveryField(k) : i \in DOMAIN Contribution(k, q, g)
            BY <3>3, <3>4
        <3>7. f = g
            <4>1. i.base = BaseOf(f) /\ i.base = BaseOf(g)
                BY <2>3, <3>1, <3>5, <3>6, ElementBase
            <4>. QED BY <4>1, OneOwner DEF EveryField
        <3>8. m[i] = Contribution(k, p, f)[i]
            BY <2>3, <3>1, <3>5, ElementOfField
        <3>9. n[i] = Contribution(k, q, f)[i]
            BY <2>3, <3>1, <3>6, <3>7, ElementOfField
        <3>10. Contribution(k, p, f)[i] = Contribution(k, q, f)[i]
            BY <2>2, <2>3, <2>6, <3>1, <3>5, <3>6, <3>7, ElementOfItsEntry
        <3>. QED BY <3>3, <3>8, <3>9, <3>10
    <2>. QED BY <2>5, <2>6
<1>2. [NamespaceNext]_namespaceVars => kind' = kind
    BY DEF NamespaceNext, PutEntry, RemoveEntry, Changed, namespaceVars
<1>3. NamespaceInv /\ NamespaceInv' /\ [NamespaceNext]_namespaceVars =>
        [\A j \in Keys(kind) :
            (/\ json' # json /\ ~result.panic /\ ~result'.panic
             /\ \A i \in (DOMAIN json \cup DOMAIN json') \ {j} : i \in DOMAIN json \cap DOMAIN json' /\ json'[i] = json[i]) =>
                /\ \A name \in (result.errors \cup result'.errors) \ Concerns(j) :
                        name \in result.errors \cap result'.errors
                /\ \A m \in result.elements, n \in result'.elements :
                        \A i \in (DOMAIN m \cup DOMAIN n) \ {j} : i \in DOMAIN m \cap DOMAIN n /\ m[i] = n[i]]_namespaceVars
    BY <1>1, <1>2
<1>. QED BY <1>3, NamespaceInductive, PTL DEF NamespaceSpec, OnlyThatEntry

=============================================================================
