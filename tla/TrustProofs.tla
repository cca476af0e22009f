---------------------------- MODULE TrustProofs -----------------------------
(*****************************************************************************)
(* Proofs about X509Validation for every set of certificates, every          *)
(* registry, every header and every clock, and about CoseMessages for every  *)
(* set of builders, keys and payloads and every order of preparing, storing, *)
(* signing, sending and verifying.                                           *)
(*****************************************************************************)
EXTENDS X509Validation, CoseMessages, WellFoundedInduction, TLAPS

-----------------------------------------------------------------------------
(* Lists, and sets of errors *)

\* A list has positions 1 to its length.
LEMMA ListPositions ==
    ASSUME NEW s, IsList(s)
    PROVE  Len(s) \in Nat /\ DOMAIN s = 1..Len(s) /\ s \in Seq(Range(s))
BY DEF IsList

\* A set of numbers that is not empty has a least one.
LEMMA LeastNumber ==
    ASSUME NEW S, S \subseteq Nat, S # {}
    PROVE  \E x \in S : \A y \in S : x <= y
<1>1. IsWellFoundedOn(OpToRel(<, Nat), Nat)
  BY NatLessThanWellFounded
<1>2. \E x \in S : \A y \in S : ~ (<<y, x>> \in OpToRel(<, Nat))
  BY <1>1, WFMin
<1>3. ASSUME NEW x \in S, NEW y \in S, ~ (<<y, x>> \in OpToRel(<, Nat))
      PROVE  x <= y
  BY <1>3 DEF OpToRel
<1> QED
  BY <1>2, <1>3

\* Context and wording neither add nor hide an error.
LEMMA NoErrorInContext ==
    ASSUME NEW context, NEW errors
    PROVE  /\ InContext(context, errors) = {} <=> errors = {}
           /\ Plain(errors) = {} <=> errors = {}
BY DEF InContext, Plain

\* What is appended comes after what is there.
LEMMA AppendedList ==
    ASSUME NEW S, NEW s \in Seq(S), NEW t \in Seq(S)
    PROVE  Len(s \o t) = Len(s) + Len(t) /\ \A i \in 1..Len(s) : (s \o t)[i] = s[i]
OBVIOUS

\* The anchor that counts is the candidate with the least position.
LEMMA FirstIsLeast ==
    ASSUME NEW S, S \subseteq Nat, S # {}
    PROVE  FirstCandidate(S) \in S /\ \A j \in S : FirstCandidate(S) <= j
<1>1. \E i \in S : \A j \in S : i <= j
  BY LeastNumber
<1> QED
  BY <1>1 DEF FirstCandidate

-----------------------------------------------------------------------------
(* What it means that a ruleset finds no error *)

\* The anchor that mdl_validate compares the document signer with.
Issuer(ds, anchors, r) ==
    anchors[FirstCandidate(find_trust_anchor_candidates(ds, anchors, "Iaca", r))].certificate

\* The end entity fits the profile and its period.
LEMMA LeafClean ==
    ASSUME NEW leaf, NEW profile, NEW r
    PROVE  LeafErrors(leaf, profile, r) = {} <=>
              /\ check_validity_period(leaf, r[1], r[2]) = {}
              /\ validate_extensions(leaf, profile) = {}
<1>1. PICK period, extensions : /\ period = check_validity_period(leaf, r[1], r[2])
                                /\ extensions = validate_extensions(leaf, profile)
  OBVIOUS
<1>2. LeafErrors(leaf, profile, r) = InContext(profile, Plain(period) \cup extensions)
  BY <1>1 DEF LeafErrors
<1>3. LeafErrors(leaf, profile, r) = {} <=> Plain(period) \cup extensions = {}
  BY <1>2, NoErrorInContext
<1>4. Plain(period) = {} <=> period = {}
  BY NoErrorInContext
<1> QED
  BY <1>1, <1>3, <1>4

\* Mdl and AamvaMdl accept a document signer that fits its profile and period and has
\* a candidate, the first of which agrees on the names and fits the profile too.
LEMMA MdlClean ==
    ASSUME NEW rules, NEW ds, NEW anchors, NEW r
    PROVE  mdl_validate(rules, ds, anchors, r) = {} <=>
              /\ LeafErrors(ds, "ds", r) = {}
              /\ find_trust_anchor_candidates(ds, anchors, "Iaca", r) # {}
              /\ name_matches("C", ds, Issuer(ds, anchors, r)) = {}
              /\ StateErrors(rules, ds, Issuer(ds, anchors, r)) = {}
              /\ validate_extensions(Issuer(ds, anchors, r), "iaca") = {}
<1>1. PICK candidates, iaca, leaf, country, state, extensions :
        /\ candidates = find_trust_anchor_candidates(ds, anchors, "Iaca", r)
        /\ iaca = Issuer(ds, anchors, r) /\ leaf = LeafErrors(ds, "ds", r)
        /\ country = name_matches("C", ds, iaca)
        /\ state = StateErrors(rules, ds, iaca)
        /\ extensions = validate_extensions(iaca, "iaca")
  OBVIOUS
<1>2. mdl_validate(rules, ds, anchors, r) = leaf \cup
        IF candidates = {} THEN InContext("iaca", Plain({"no valid trust anchor found"}))
        ELSE InContext("comparison", country \cup state) \cup InContext("iaca", extensions)
  BY <1>1 DEF mdl_validate, Issuer
<1>3. InContext("iaca", Plain({"no valid trust anchor found"})) # {}
  BY NoErrorInContext
<1>4. /\ InContext("comparison", country \cup state) = {} <=> country \cup state = {}
      /\ InContext("iaca", extensions) = {} <=> extensions = {}
  BY NoErrorInContext
<1> QED
  BY <1>1, <1>2, <1>3, <1>4

\* MdlReaderOneStep accepts a reader that fits its profile and period and has a
\* candidate.
LEMMA ReaderClean ==
    ASSUME NEW reader, NEW anchors, NEW r
    PROVE  mdl_reader_one_step_validate(reader, anchors, r) = {} <=>
              /\ LeafErrors(reader, "reader", r) = {}
              /\ find_trust_anchor_candidates(reader, anchors, "ReaderCa", r) # {}
<1>1. InContext("reader ca", Plain({"no valid trust anchor found"})) # {}
  BY NoErrorInContext
<1> QED
  BY <1>1 DEF mdl_reader_one_step_validate

\* The profile that a ruleset asks of the end entity.
ProfileOf(v) == IF v.rules = "MdlReaderOneStep" THEN "reader" ELSE "ds"

\* Candidates of an accepted end entity, for any of the rulesets.
LEMMA AcceptedHasCandidate ==
    ASSUME VerdictInv, NEW v \in Accepted
    PROVE  /\ LeafErrors(Leaf(v), ProfileOf(v), v.readings) = {}
           /\ find_trust_anchor_candidates(Leaf(v), registry, PurposeOf(v), v.readings) # {}
           /\ v.rules # "MdlReaderOneStep" =>
                 mdl_validate(v.rules, Leaf(v), registry, v.readings) = {}
           /\ from_der(Leaf(v))
<1>1. validate(v.rules, v.chain, registry, v.readings) = {}
  BY DEF Accepted, VerdictInv
<1>2. from_der(Leaf(v))
  <2>1. v.chain # <<>> /\ IsList(v.chain) /\ \A i \in DOMAIN v.chain : from_der(v.chain[i])
    BY DEF Accepted, VerdictInv
  <2>2. PICK chain : chain = v.chain
    OBVIOUS
  <2>3. Len(chain) \in Nat /\ DOMAIN chain = 1..Len(chain) /\ chain \in Seq(Range(chain))
    BY <2>1, <2>2, ListPositions
  <2>4. Len(chain) # 0
    BY <2>1, <2>2, <2>3
  <2> QED
    BY <2>1, <2>2, <2>3, <2>4 DEF Leaf, end_entity_certificate
<1>3. CASE v.rules = "MdlReaderOneStep"
  BY <1>1, <1>2, <1>3, ReaderClean DEF validate, Leaf, ProfileOf, PurposeOf
<1>4. CASE v.rules # "MdlReaderOneStep"
  BY <1>1, <1>2, <1>4, MdlClean DEF validate, Leaf, ProfileOf, PurposeOf
<1> QED
  BY <1>3, <1>4

\* What a candidate is: an anchor for the purpose that has the issuer's name, made the
\* signature and was within its period when it was looked at.
LEMMA CandidateIssued ==
    ASSUME NEW subject, NEW anchors, NEW purpose, NEW r,
           NEW i \in find_trust_anchor_candidates(subject, anchors, purpose, r)
    PROVE  /\ i \in DOMAIN anchors /\ anchors[i].purpose = purpose
           /\ Cert[anchors[i].certificate].subject = Cert[subject].issuer
           /\ Cert[anchors[i].certificate].key = Cert[subject].signature.key
           /\ check_validity_period(anchors[i].certificate, r[2 * i + 1], r[2 * i + 2]) = {}
<1>1. /\ i \in DOMAIN anchors /\ anchors[i].purpose = purpose
      /\ Cert[anchors[i].certificate].subject = Cert[subject].issuer
      /\ issuer_signed_subject(subject, anchors[i].certificate)
      /\ check_validity_period(anchors[i].certificate, r[2 * i + 1], r[2 * i + 2]) = {}
  BY DEF find_trust_anchor_candidates
<1>2. PICK key \in public_key_with_oid(anchors[i].certificate, "P-256") :
        Cert[subject].signature = [curve |-> "P-256", key |-> key]
  BY <1>1 DEF issuer_signed_subject
<1>3. key = Cert[anchors[i].certificate].key
  BY <1>2 DEF public_key_with_oid
<1> QED
  BY <1>1, <1>2, <1>3

-----------------------------------------------------------------------------
(* The properties of what is accepted *)

\* An accepted chain leads to an anchor.
LEMMA InvAnchored == VerdictInv => AcceptedIsAnchored
<1> SUFFICES ASSUME VerdictInv, NEW v \in Accepted
             PROVE  \E i \in DOMAIN registry :
                        /\ registry[i].purpose = PurposeOf(v)
                        /\ Cert[registry[i].certificate].key = Cert[Leaf(v)].signature.key
                        /\ Cert[registry[i].certificate].subject = Cert[Leaf(v)].issuer
  BY DEF AcceptedIsAnchored
<1>1. PICK i \in find_trust_anchor_candidates(Leaf(v), registry, PurposeOf(v), v.readings) : TRUE
  BY AcceptedHasCandidate
<1> QED
  BY <1>1, CandidateIssued

\* A certificate that passes the two checks of its period, read one after the other,
\* was valid at a moment between them.
LEMMA ValidBetween ==
    ASSUME NEW c, from_der(c), NEW t \in Nat, NEW u \in Nat, t <= u,
           check_validity_period(c, t, u) = {}
    PROVE  \E m \in t..u : Cert[c].not_before <= m /\ m <= Cert[c].not_after
<1>1. PICK from, to : from = Cert[c].not_before /\ to = Cert[c].not_after
  OBVIOUS
<1>2. from \in Int /\ to \in Int /\ from <= to
  BY <1>1, CertAssumption DEF from_der
<1>3. ~(to < t) /\ ~(from > u)
  BY <1>1 DEF check_validity_period
<1>4. PICK m : m = IF from <= t THEN t ELSE from
  OBVIOUS
<1>5. m \in t..u /\ from <= m /\ m <= to
  BY <1>2, <1>3, <1>4
<1> QED
  BY <1>1, <1>5

\* Both were valid during the call.
LEMMA InvValidDuringCall == VerdictInv => ValidDuringCall
<1> SUFFICES ASSUME VerdictInv, NEW v \in Accepted
             PROVE  \E t, u \in v.readings[1]..Last(v.readings), i \in DOMAIN registry :
                        /\ Cert[Leaf(v)].not_before <= t /\ t <= Cert[Leaf(v)].not_after
                        /\ Cert[registry[i].certificate].subject = Cert[Leaf(v)].issuer
                        /\ Cert[registry[i].certificate].not_before <= u
                        /\ u <= Cert[registry[i].certificate].not_after
  BY DEF ValidDuringCall
<1>1. PICK r : r = v.readings
  OBVIOUS
<1>2. PICK i \in find_trust_anchor_candidates(Leaf(v), registry, PurposeOf(v), r) : TRUE
  BY <1>1, AcceptedHasCandidate
<1>3. /\ i \in DOMAIN registry
      /\ Cert[registry[i].certificate].subject = Cert[Leaf(v)].issuer
      /\ check_validity_period(registry[i].certificate, r[2 * i + 1], r[2 * i + 2]) = {}
  BY <1>2, CandidateIssued
<1>4. PICK n : n = Len(registry)
  OBVIOUS
<1>5. n \in Nat /\ DOMAIN registry = 1..n
  BY <1>4, ListPositions DEF VerdictInv
<1>6. r \in [1..2 * n + 2 -> Nat] /\ \A k, l \in 1..2 * n + 2 : k <= l => r[k] <= r[l]
  BY <1>1, <1>4 DEF VerdictInv, Accepted, ReadingsOf
<1>7. Last(r) = r[2 * n + 2]
  <2>1. Len(r) = 2 * n + 2
    BY <1>5, <1>6
  <2> QED
    BY <2>1 DEF Last
<1>8. PICK a, b : a = 2 * i + 1 /\ b = 2 * i + 2
  OBVIOUS
<1>9. /\ a \in 1..2 * n + 2 /\ b \in 1..2 * n + 2 /\ a <= b
      /\ 1 \in 1..2 * n + 2 /\ 2 \in 1..2 * n + 2 /\ 2 * n + 2 \in 1..2 * n + 2
  BY <1>3, <1>5, <1>8
<1>10. PICK t \in r[1]..r[2] : Cert[Leaf(v)].not_before <= t /\ t <= Cert[Leaf(v)].not_after
  <2>1. check_validity_period(Leaf(v), r[1], r[2]) = {} /\ from_der(Leaf(v))
    BY <1>1, AcceptedHasCandidate, LeafClean
  <2>2. r[1] \in Nat /\ r[2] \in Nat /\ r[1] <= r[2]
    BY <1>6, <1>9
  <2> QED
    BY <2>1, <2>2, ValidBetween
<1>11. PICK u \in r[a]..r[b] : /\ Cert[registry[i].certificate].not_before <= u
                               /\ u <= Cert[registry[i].certificate].not_after
  <2>1. check_validity_period(registry[i].certificate, r[a], r[b]) = {}
    BY <1>3, <1>8
  <2>2. from_der(registry[i].certificate)
    BY <1>3 DEF VerdictInv
  <2>3. r[a] \in Nat /\ r[b] \in Nat /\ r[a] <= r[b]
    BY <1>6, <1>9
  <2> QED
    BY <2>1, <2>2, <2>3, ValidBetween
<1>12. t \in r[1]..r[2 * n + 2] /\ u \in r[1]..r[2 * n + 2]
  <2>1. PICK last : last = 2 * n + 2
    OBVIOUS
  <2>2. /\ r[1] \in Nat /\ r[2] \in Nat /\ r[a] \in Nat /\ r[b] \in Nat /\ r[last] \in Nat
        /\ r[1] <= r[a] /\ r[2] <= r[last] /\ r[b] <= r[last]
    BY <1>5, <1>6, <1>9, <2>1
  <2> QED
    BY <1>10, <1>11, <2>1, <2>2
<1> QED
  BY <1>1, <1>3, <1>7, <1>10, <1>11, <1>12

-----------------------------------------------------------------------------
(* Roles *)

\* A certificate that fits a profile has each extension that the profile requires, and
\* every extension of that kind has the content that the profile expects.
LEMMA RequiredFits ==
    ASSUME NEW c, NEW profile, validate_extensions(c, profile) = {},
           NEW oid \in Required(profile)
    PROVE  /\ \E e \in ExtensionsOf(c) : e.oid = oid
           /\ \A e \in ExtensionsOf(c) : e.oid = oid => ExtensionFits(c, profile, e)
<1>1. ASSUME NEW e \in ExtensionsOf(c), e.oid = oid, ~ExtensionFits(c, profile, e)
      PROVE  FALSE
  <2>1. [error |-> "invalid extension", names |-> e.oid] \in validate_extensions(c, profile)
    BY <1>1 DEF validate_extensions
  <2> QED
    BY <2>1
<1>2. ASSUME ~\E e \in ExtensionsOf(c) : e.oid = oid
      PROVE  FALSE
  <2>1. oid \in Required(profile) \ {e.oid : e \in ExtensionsOf(c)}
    BY <1>2
  <2>2. [error |-> "required extension not found", names |-> oid]
            \in validate_extensions(c, profile)
    BY <2>1 DEF validate_extensions
  <2> QED
    BY <2>2
<1> QED
  BY <1>1, <1>2

\* An extension has one content.
LEMMA OneContent ==
    ASSUME NEW c, from_der(c), NEW e \in ExtensionsOf(c), NEW v \in e.value, NEW w \in e.value
    PROVE  v = w
<1>1. PICK i \in DOMAIN Cert[c].extensions : e = Cert[c].extensions[i]
  BY DEF ExtensionsOf, Range
<1> QED
  BY <1>1, CertAssumption DEF from_der

\* No certificate fits two profiles: the key usage tells an authority from an end
\* entity, and the extended key usage a document signer from a reader.
LEMMA OneProfile ==
    ASSUME NEW c, from_der(c), NEW p \in Profiles, NEW q \in Profiles,
           validate_extensions(c, p) = {}, validate_extensions(c, q) = {}
    PROVE  p = q
<1>1. p = "iaca" <=> q = "iaca"
  <2>1. "KeyUsage" \in Required(p) /\ "KeyUsage" \in Required(q)
    BY DEF Required
  <2>2. PICK e \in ExtensionsOf(c) : e.oid = "KeyUsage"
    BY <2>1, RequiredFits
  <2>3. ExtensionFits(c, p, e) /\ ExtensionFits(c, q, e)
    BY <2>1, <2>2, RequiredFits
  <2>4. ExpectedUsage(p) \in e.value /\ ExpectedUsage(q) \in e.value
    BY <2>2, <2>3 DEF ExtensionFits, KeyUsageCheck
  <2>5. ExpectedUsage(p) = ExpectedUsage(q)
    BY <2>4, OneContent
  <2>6. {"CRLSign", "KeyCertSign"} # {"DigitalSignature"}
    OBVIOUS
  <2> QED
    BY <2>5, <2>6 DEF ExpectedUsage, Profiles
<1>2. CASE p # "iaca" /\ q # "iaca"
  <2>1. "ExtendedKeyUsage" \in Required(p) /\ "ExtendedKeyUsage" \in Required(q)
    BY <1>2 DEF Required
  <2>2. PICK e \in ExtensionsOf(c) : e.oid = "ExtendedKeyUsage"
    BY <2>1, RequiredFits
  <2>3. ExtensionFits(c, p, e) /\ ExtensionFits(c, q, e)
    BY <2>1, <2>2, RequiredFits
  <2>4. PICK v \in e.value : ExtendedKeyUsageCheck(p, v)
    BY <2>2, <2>3 DEF ExtensionFits
  <2>5. PICK w \in e.value : ExtendedKeyUsageCheck(q, w)
    BY <2>2, <2>3 DEF ExtensionFits
  <2>6. v = w
    BY OneContent
  <2>7. ExpectedOid(p) = ExpectedOid(q)
    BY <2>4, <2>5, <2>6 DEF ExtendedKeyUsageCheck
  <2> QED
    BY <1>2, <2>7 DEF ExpectedOid, Profiles
<1> QED
  BY <1>1, <1>2

\* What is accepted in one role has the profile of no other.
LEMMA InvRoles == VerdictInv => RolesSeparate
<1> SUFFICES ASSUME VerdictInv, NEW v \in Accepted, NEW profile \in Profiles,
                    validate_extensions(Leaf(v), profile) = {}
             PROVE  profile = ProfileOf(v)
  BY DEF RolesSeparate, ProfileOf
<1>1. from_der(Leaf(v)) /\ validate_extensions(Leaf(v), ProfileOf(v)) = {}
  BY AcceptedHasCandidate, LeafClean
<1>2. ProfileOf(v) \in Profiles
  BY DEF ProfileOf, Profiles
<1> QED
  BY <1>1, <1>2, OneProfile

-----------------------------------------------------------------------------
(* Names *)

\* Two certificates without a complaint about a name have it once, with one value.
LEMMA NamesAgree ==
    ASSUME NEW this, from_der(this), NEW that, from_der(that), NEW name \in {"C", "ST"},
           name_matches(name, this, that) = {}
    PROVE  /\ Len(Cert[this].subject[name]) = 1
           /\ Cert[this].subject[name] = Cert[that].subject[name]
<1>1. PICK these, those : these = Cert[this].subject[name] /\ those = Cert[that].subject[name]
  OBVIOUS
<1>2. IsList(these) /\ IsList(those)
  BY <1>1, CertAssumption DEF from_der
<1>3. /\ Len(these) \in Nat /\ DOMAIN these = 1..Len(these) /\ these \in Seq(Range(these))
      /\ Len(those) \in Nat /\ DOMAIN those = 1..Len(those) /\ those \in Seq(Range(those))
  BY <1>2, ListPositions
<1>4. \A c, error : Blame(c, error) # {}
  BY DEF Blame
<1>5. /\ these # <<>> /\ those # <<>> /\ ~(Len(these) > 1)
      /\ ~(Len(these) = 1 /\ Len(those) > 1) /\ these[1] = those[1]
  <2>1. name_matches(name, this, that) =
          CASE these = <<>> -> Blame(this, "missing")
            [] these # <<>> /\ those = <<>> -> Blame(that, "missing")
            [] Len(these) > 1 /\ those # <<>> -> Blame(that, "multiple")
            [] Len(these) = 1 /\ Len(those) > 1 -> Blame(this, "multiple")
            [] OTHER -> IF these[1] # those[1] THEN Blame(this, "mismatch") ELSE {}
    BY <1>1 DEF name_matches
  <2> QED
    BY <1>3, <1>4, <2>1
<1>6. Len(these) = 1 /\ Len(those) = 1
  BY <1>3, <1>5
<1>7. these = those
  BY <1>3, <1>5, <1>6
<1> QED
  BY <1>1, <1>6, <1>7

\* The issuing authority of an accepted document signer is a registered one that made
\* its signature.
LEMMA IssuerOfAccepted ==
    ASSUME VerdictInv, NEW v \in Accepted, v.rules # "MdlReaderOneStep"
    PROVE  \E i \in DOMAIN registry :
              /\ Issuer(Leaf(v), registry, v.readings) = registry[i].certificate
              /\ from_der(registry[i].certificate)
              /\ Cert[registry[i].certificate].key = Cert[Leaf(v)].signature.key
<1>1. PICK S : S = find_trust_anchor_candidates(Leaf(v), registry, "Iaca", v.readings)
  OBVIOUS
<1>2. S # {}
  BY <1>1, AcceptedHasCandidate DEF PurposeOf
<1>3. S \subseteq DOMAIN registry /\ DOMAIN registry = 1..Len(registry) /\ Len(registry) \in Nat
  BY <1>1, ListPositions DEF find_trust_anchor_candidates, VerdictInv
<1>4. PICK i \in S : i = FirstCandidate(S)
  BY <1>2, <1>3, FirstIsLeast
<1>5. i \in DOMAIN registry /\ Cert[registry[i].certificate].key = Cert[Leaf(v)].signature.key
  BY <1>1, CandidateIssued
<1>6. Issuer(Leaf(v), registry, v.readings) = registry[i].certificate
  BY <1>1, <1>4 DEF Issuer
<1> QED
  BY <1>5, <1>6 DEF VerdictInv

\* A document signer and its issuing authority agree on where they are.
LEMMA InvJurisdiction == VerdictInv => JurisdictionAgrees
<1> SUFFICES ASSUME VerdictInv, NEW v \in Accepted, v.rules # "MdlReaderOneStep"
             PROVE  /\ Len(Cert[Leaf(v)].subject["C"]) = 1
                    /\ \E i \in DOMAIN registry :
                        LET iaca == Cert[registry[i].certificate]
                        IN  /\ iaca.key = Cert[Leaf(v)].signature.key
                            /\ iaca.subject["C"] = Cert[Leaf(v)].subject["C"]
                            /\ iaca.subject["ST"] = Cert[Leaf(v)].subject["ST"]
                    /\ v.rules = "AamvaMdl" => Len(Cert[Leaf(v)].subject["ST"]) = 1
  BY DEF JurisdictionAgrees
<1>1. PICK i \in DOMAIN registry :
        /\ Issuer(Leaf(v), registry, v.readings) = registry[i].certificate
        /\ from_der(registry[i].certificate)
        /\ Cert[registry[i].certificate].key = Cert[Leaf(v)].signature.key
  BY IssuerOfAccepted
<1>2. PICK iaca : iaca = registry[i].certificate
  OBVIOUS
<1>3. /\ from_der(Leaf(v)) /\ from_der(iaca)
      /\ name_matches("C", Leaf(v), iaca) = {} /\ StateErrors(v.rules, Leaf(v), iaca) = {}
  BY <1>1, <1>2, AcceptedHasCandidate, MdlClean
<1>4. /\ Len(Cert[Leaf(v)].subject["C"]) = 1
      /\ Cert[Leaf(v)].subject["C"] = Cert[iaca].subject["C"]
  BY <1>3, NamesAgree
<1>5. /\ Cert[Leaf(v)].subject["ST"] = Cert[iaca].subject["ST"]
      /\ v.rules = "AamvaMdl" => Len(Cert[Leaf(v)].subject["ST"]) = 1
  <2>1. CASE v.rules = "AamvaMdl" \/ has_rdn(Leaf(v), "ST") \/ has_rdn(iaca, "ST")
    <3>1. name_matches("ST", Leaf(v), iaca) = {}
      BY <1>3, <2>1 DEF StateErrors
    <3> QED
      BY <1>3, <3>1, NamesAgree
  <2>2. CASE ~(v.rules = "AamvaMdl" \/ has_rdn(Leaf(v), "ST") \/ has_rdn(iaca, "ST"))
    BY <2>2 DEF has_rdn
  <2> QED
    BY <2>1, <2>2
<1> QED
  BY <1>1, <1>2, <1>4, <1>5

-----------------------------------------------------------------------------
(* A registry that grows *)

\* A new anchor at the end, looked at after the others, adds at most its own position
\* to the candidates.
LEMMA CandidatesGrow ==
    ASSUME NEW n \in Nat, NEW anchors, DOMAIN anchors = 1..n,
           NEW grown, DOMAIN grown = 1..n + 1, \A i \in 1..n : grown[i] = anchors[i],
           NEW r, NEW after, \A k \in 1..2 * n + 2 : after[k] = r[k],
           NEW subject, NEW purpose
    PROVE  /\ find_trust_anchor_candidates(subject, anchors, purpose, r) \subseteq 1..n
           /\ find_trust_anchor_candidates(subject, grown, purpose, after) \subseteq 1..n + 1
           /\ \A i \in 1..n : i \in find_trust_anchor_candidates(subject, grown, purpose, after)
                 <=> i \in find_trust_anchor_candidates(subject, anchors, purpose, r)
<1>1. ASSUME NEW i \in 1..n
      PROVE  i \in find_trust_anchor_candidates(subject, grown, purpose, after)
                 <=> i \in find_trust_anchor_candidates(subject, anchors, purpose, r)
  <2>1. 2 * i + 1 \in 1..2 * n + 2 /\ 2 * i + 2 \in 1..2 * n + 2
    OBVIOUS
  <2>2. after[2 * i + 1] = r[2 * i + 1] /\ after[2 * i + 2] = r[2 * i + 2]
    BY <2>1
  <2>3. grown[i] = anchors[i] /\ i \in DOMAIN grown /\ i \in DOMAIN anchors
    OBVIOUS
  <2> QED
    BY <2>2, <2>3, Zenon DEF find_trust_anchor_candidates
<1>2. /\ find_trust_anchor_candidates(subject, anchors, purpose, r) \subseteq 1..n
      /\ find_trust_anchor_candidates(subject, grown, purpose, after) \subseteq 1..n + 1
  BY DEF find_trust_anchor_candidates
<1> QED
  BY <1>1, <1>2

\* The first of the candidates stays the first.
LEMMA FirstStays ==
    ASSUME NEW n \in Nat, NEW C, C \subseteq 1..n, C # {}, NEW D, D \subseteq 1..n + 1,
           \A i \in 1..n : i \in D <=> i \in C
    PROVE  D # {} /\ FirstCandidate(D) = FirstCandidate(C)
<1>1. PICK f, g : f = FirstCandidate(C) /\ g = FirstCandidate(D)
  OBVIOUS
<1>2. C \subseteq Nat /\ D \subseteq Nat /\ D # {}
  <2>1. 1..n \subseteq Nat /\ 1..n + 1 \subseteq Nat
    OBVIOUS
  <2>2. PICK i \in C : i \in 1..n
    OBVIOUS
  <2>3. i \in D
    BY <2>2
  <2> QED
    BY <2>1, <2>3
<1>3. f \in C /\ \A j \in C : f <= j
  BY <1>1, <1>2, FirstIsLeast
<1>4. g \in D /\ \A j \in D : g <= j
  BY <1>1, <1>2, FirstIsLeast
<1>5. f \in D /\ f \in 1..n
  BY <1>3
<1>6. g <= f /\ g \in 1..n
  BY <1>4, <1>5
<1>7. g \in C
  BY <1>4, <1>6
<1>8. f = g
  BY <1>3, <1>6, <1>7
<1> QED
  BY <1>1, <1>2, <1>8

\* An appended anchor takes nothing away.
LEMMA InvAppend == VerdictInv => AppendKeepsTrust
<1> SUFFICES ASSUME VerdictInv, NEW v \in Accepted, NEW pems \in PemLists, Len(pems) = 1,
                    NEW anchors \in from_pem_certificates(pems)
             PROVE  validate(v.rules, v.chain, registry \o anchors,
                             v.readings \o <<Last(v.readings), Last(v.readings)>>) = {}
  BY DEF AppendKeepsTrust
<1>1. PICK r, n, last : r = v.readings /\ n = Len(registry) /\ last = Last(v.readings)
  OBVIOUS
<1>2. PICK grown, after : grown = registry \o anchors /\ after = r \o <<last, last>>
  OBVIOUS
<1>3. n \in Nat /\ DOMAIN registry = 1..n /\ registry \in Seq(Range(registry))
  BY <1>1, ListPositions DEF VerdictInv
<1>4. anchors = pems /\ Len(anchors) = 1 /\ anchors \in Seq(Range(anchors))
  <2>1. anchors = pems
    BY DEF from_pem_certificates
  <2> QED
    BY <2>1, ListsAssumption, ListPositions
<1>5. DOMAIN grown = 1..n + 1 /\ \A i \in 1..n : grown[i] = registry[i]
  <2>1. PICK A, B : A = Range(registry) /\ B = Range(anchors)
    OBVIOUS
  <2>2. PICK S : S = A \cup B
    OBVIOUS
  <2>3. registry \in Seq(S) /\ anchors \in Seq(S)
    BY <1>3, <1>4, <2>1, <2>2
  <2>4. Len(grown) = n + 1 /\ \A i \in 1..n : grown[i] = registry[i]
    BY <1>1, <1>2, <1>4, <2>3, AppendedList
  <2>5. grown \in Seq(S)
    BY <1>2, <2>3
  <2> QED
    BY <2>4, <2>5
<1>6. r \in [1..2 * n + 2 -> Nat]
  BY <1>1 DEF VerdictInv, Accepted, ReadingsOf
<1>7. \A k \in 1..2 * n + 2 : after[k] = r[k]
  <2>1. PICK m : m = 2 * n + 2
    OBVIOUS
  <2>2. m \in Nat /\ m >= 2
    BY <1>3, <2>1
  <2>3. r \in Seq(Nat) /\ Len(r) = m
    BY <1>6, <2>1, <2>2
  <2>4. last \in Nat
    BY <1>1, <1>6, <2>1, <2>2, <2>3 DEF Last
  <2>5. <<last, last>> \in Seq(Nat) /\ Len(<<last, last>>) = 2
    BY <2>4
  <2>6. \A k \in 1..m : after[k] = r[k]
    BY <1>2, <2>3, <2>5
  <2> QED
    BY <2>1, <2>6
<1>8. after[1] = r[1] /\ after[2] = r[2]
  <2>1. 1 \in 1..2 * n + 2 /\ 2 \in 1..2 * n + 2
    BY <1>3
  <2> QED
    BY <1>7, <2>1
<1>9. PICK C, D : /\ C = find_trust_anchor_candidates(Leaf(v), registry, PurposeOf(v), r)
                  /\ D = find_trust_anchor_candidates(Leaf(v), grown, PurposeOf(v), after)
  OBVIOUS
<1>10. C \subseteq 1..n /\ D \subseteq 1..n + 1 /\ \A i \in 1..n : i \in D <=> i \in C
  BY <1>3, <1>5, <1>7, <1>9, CandidatesGrow
<1>11. C # {} /\ LeafErrors(Leaf(v), ProfileOf(v), r) = {}
  BY <1>1, <1>9, AcceptedHasCandidate
<1>12. D # {} /\ FirstCandidate(D) = FirstCandidate(C)
  BY <1>3, <1>10, <1>11, FirstStays
<1>13. LeafErrors(Leaf(v), ProfileOf(v), after) = {}
  BY <1>8, <1>11, LeafClean
<1>14. CASE v.rules = "MdlReaderOneStep"
  <2>1. mdl_reader_one_step_validate(Leaf(v), grown, after) = {}
    BY <1>9, <1>12, <1>13, <1>14, ReaderClean DEF ProfileOf, PurposeOf
  <2> QED
    BY <1>1, <1>2, <1>14, <2>1 DEF validate, Leaf
<1>15. CASE v.rules # "MdlReaderOneStep"
  <2>1. Issuer(Leaf(v), grown, after) = Issuer(Leaf(v), registry, r)
    <3>1. FirstCandidate(C) \in 1..n
      <4>1. C \subseteq Nat
        BY <1>10
      <4>2. FirstCandidate(C) \in C
        BY <1>11, <4>1, FirstIsLeast
      <4> QED
        BY <1>10, <4>2
    <3>2. PurposeOf(v) = "Iaca"
      BY <1>15 DEF PurposeOf
    <3> QED
      BY <1>5, <1>9, <1>12, <3>1, <3>2 DEF Issuer
  <2>2. mdl_validate(v.rules, Leaf(v), registry, r) = {}
    BY <1>1, <1>15, AcceptedHasCandidate
  <2>3. PICK iaca : iaca = Issuer(Leaf(v), registry, r)
    OBVIOUS
  <2>4. /\ name_matches("C", Leaf(v), iaca) = {} /\ StateErrors(v.rules, Leaf(v), iaca) = {}
        /\ validate_extensions(iaca, "iaca") = {}
    BY <2>2, <2>3, MdlClean
  <2>5. mdl_validate(v.rules, Leaf(v), grown, after) = {}
    BY <1>9, <1>12, <1>13, <1>15, <2>1, <2>3, <2>4, MdlClean DEF ProfileOf, PurposeOf
  <2> QED
    BY <1>1, <1>2, <1>15, <2>5 DEF validate, Leaf
<1> QED
  BY <1>14, <1>15

-----------------------------------------------------------------------------
(* The specification *)

\* Headers, received or written from a chain that was read, decode to lists of
\* certificates.
LEMMA DecodedChain ==
    ASSUME NEW cbor \in Headers, NEW chain \in from_cbor(cbor)
    PROVE  chain # <<>> /\ IsList(chain) /\ \A i \in DOMAIN chain : from_der(chain[i])
<1>1. ASSUME NEW items, NEW c \in build(items)
      PROVE  c = items /\ items # <<>> /\ \A i \in DOMAIN items : from_der(items[i])
  BY DEF build
<1>2. chain = cbor.items /\ chain # <<>> /\ \A i \in DOMAIN chain : from_der(chain[i])
  BY <1>1 DEF from_cbor
<1>3. CASE cbor \in CborChains
  BY <1>2, <1>3, ListsAssumption
<1>4. CASE cbor \notin CborChains
  <2>1. PICK first \in CborChains : \E c \in from_cbor(first) : cbor = into_cbor(c)
    BY <1>4 DEF Headers
  <2>2. PICK c \in from_cbor(first) : cbor = into_cbor(c)
    BY <2>1
  <2>3. c = first.items
    BY <1>1 DEF from_cbor
  <2>4. cbor.items = first.items
    BY <2>2, <2>3 DEF into_cbor
  <2> QED
    BY <1>2, <2>4, ListsAssumption
<1> QED
  BY <1>2, <1>3, <1>4

\* One step keeps the invariant: the registry is not replaced under a verdict, and a
\* new verdict is what validate says of it.
LEMMA VerdictStep ==
    ASSUME VerdictInv, [X509Next]_x509Vars
    PROVE  VerdictInv'
<1>1. CASE Tick
  BY <1>1 DEF Tick, VerdictInv
<1>2. CASE LoadRegistry
  <2>1. PICK pems \in PemLists : /\ \A i \in DOMAIN pems : from_der(pems[i].certificate)
                                 /\ registry' = pems
    BY <1>2 DEF LoadRegistry, from_pem_certificates
  <2>2. IsList(registry')
    BY <2>1, ListsAssumption
  <2> QED
    BY <1>2, <2>1, <2>2 DEF LoadRegistry, VerdictInv
<1>3. ASSUME NEW rules \in Rulesets, Validate(rules)
      PROVE  VerdictInv'
  <2>1. PICK cbor \in Headers, r \in Readings : \E chain \in from_cbor(cbor) :
          /\ verdict' = {[rules |-> rules, chain |-> chain, readings |-> r,
                          errors |-> validate(rules, chain, registry, r)]}
          /\ now' = Last(r)
    BY <1>3 DEF Validate
  <2>2. PICK chain \in from_cbor(cbor) :
          /\ verdict' = {[rules |-> rules, chain |-> chain, readings |-> r,
                          errors |-> validate(rules, chain, registry, r)]}
          /\ now' = Last(r)
    BY <2>1
  <2>3. registry' = registry
    BY <1>3 DEF Validate
  <2>4. chain # <<>> /\ IsList(chain) /\ \A i \in DOMAIN chain : from_der(chain[i])
    BY DecodedChain
  <2>5. PICK n : n = Len(registry)
    OBVIOUS
  <2>6. n \in Nat
    BY <2>5, ListPositions DEF VerdictInv
  <2>7. /\ r \in [1..2 * n + 2 -> now..MaxTime]
        /\ \A i, j \in DOMAIN r : i <= j => r[i] <= r[j]
    BY <2>5 DEF Readings
  <2>8. r \in [1..2 * n + 2 -> Nat]
    BY <2>7 DEF VerdictInv
  <2>9. now' \in Nat
    <3>1. PICK m : m = 2 * n + 2
      OBVIOUS
    <3>2. m \in Nat /\ m \in 1..m
      BY <2>6, <3>1
    <3>3. Len(r) = m
      BY <2>8, <3>1, <3>2
    <3> QED
      BY <2>2, <2>8, <3>1, <3>2, <3>3 DEF Last
  <2>10. ReadingsOf(registry, r)
    BY <2>5, <2>7, <2>8 DEF ReadingsOf
  <2>11. PICK v : v = [rules |-> rules, chain |-> chain, readings |-> r,
                       errors |-> validate(rules, chain, registry, r)]
    OBVIOUS
  <2>12. /\ v.rules = rules /\ v.chain = chain /\ v.readings = r
         /\ v.errors = validate(rules, chain, registry, r) /\ verdict' = {v}
    BY <2>2, <2>11
  <2> QED
    BY <2>3, <2>4, <2>9, <2>10, <2>12 DEF VerdictInv
<1>4. CASE UNCHANGED x509Vars
  BY <1>4 DEF x509Vars, VerdictInv
<1> QED
  BY <1>1, <1>2, <1>3, <1>4 DEF X509Next

\* The verdict that a verifier holds is about the registry it holds.
THEOREM VerdictInductive == ValidationSpec => []VerdictInv
<1>1. X509Init => VerdictInv
  <2>1. IsList(<<>>) /\ DOMAIN <<>> = {}
    BY DEF IsList
  <2> QED
    BY <2>1 DEF X509Init, VerdictInv
<1> QED
  BY <1>1, VerdictStep, PTL DEF ValidationSpec

\* Nothing is accepted without a registered anchor, of the right purpose, whose key made
\* the signature: for every registry, chain and clock.
THEOREM TrustIsAnchored == ValidationSpec => []AcceptedIsAnchored
BY InvAnchored, VerdictInductive, PTL

\* End entity and anchor were within their periods at moments of the call, although the
\* clock runs on between the checks of one bound and of the other.
THEOREM TrustIsTimely == ValidationSpec => []ValidDuringCall
BY InvValidDuringCall, VerdictInductive, PTL

\* An accepted certificate has the profile of its role only.
THEOREM TrustKeepsRoles == ValidationSpec => []RolesSeparate
BY InvRoles, VerdictInductive, PTL

\* A document signer is accepted only under an authority of its own jurisdiction.
THEOREM TrustKeepsJurisdiction == ValidationSpec => []JurisdictionAgrees
BY InvJurisdiction, VerdictInductive, PTL

\* Appending an anchor to a registry revokes nothing.
THEOREM TrustIsMonotonic == ValidationSpec => []AppendKeepsTrust
BY InvAppend, VerdictInductive, PTL

-----------------------------------------------------------------------------
(* Forms of messages *)

\* An Option has at most one value.
LEMMA OptionSingle ==
    ASSUME NEW S, NEW x \in Options(S), NEW a \in x, NEW b \in x
    PROVE  a = b
BY DEF Options

\* What is prepared has no signature yet, and what it hands out is the structure of its
\* own header, external data and payload.
LEMMA NewPrepared ==
    ASSUME NEW b \in Builders, NEW prep \in new(b)
    PROVE  /\ prep.message \in MessageForm({NoSignature})
           /\ \E p \in PayloadOf(b.attached, b.detached) :
                 prep.signature_payload = StructureData(b.kind, b.protected, b.aad, p)
<1>1. PICK p \in PayloadOf(b.attached, b.detached) :
        prep = [message |-> [kind |-> b.kind, tagged |-> b.tagged, protected |-> b.protected,
                             payload |-> b.attached, signature |-> NoSignature],
                signature_payload |-> StructureData(b.kind, b.protected, b.aad, p)]
  BY DEF new
<1>2. /\ b.kind \in Kinds /\ b.tagged \in BOOLEAN /\ b.attached \in Options(Payloads)
      /\ b.protected \in {d.protected : d \in Builders}
  BY BuildersAssumption
<1>3. /\ prep.message = [kind |-> b.kind, tagged |-> b.tagged, protected |-> b.protected,
                         payload |-> b.attached, signature |-> NoSignature]
      /\ prep.signature_payload = StructureData(b.kind, b.protected, b.aad, p)
  BY <1>1
<1> QED
  BY <1>2, <1>3 DEF MessageForm

\* More builders have handed out no less.
LEMMA ProducedGrows ==
    ASSUME made \subseteq made'
    PROVE  Produced \subseteq Produced'
BY DEF Produced, new

\* A message is serialised with the tag of its kind or with none.
LEMMA SerializedForm ==
    ASSUME NEW S, NEW msg \in MessageForm(S)
    PROVE  serialize(msg) \in WireForm(S)
<1>1. /\ msg.kind \in Kinds /\ msg.protected \in {b.protected : b \in Builders}
      /\ msg.payload \in Options(Payloads) /\ msg.signature \in S
  BY DEF MessageForm
<1>2. (IF msg.tagged THEN {TAG(msg.kind)} ELSE {}) \in Options({17, 18})
  BY <1>1 DEF TAG, Kinds, Options
<1> QED
  BY <1>1, <1>2 DEF serialize, WireForm

\* What is deserialised has the header, payload and signature of the bytes.
LEMMA DeserializedForm ==
    ASSUME NEW kind \in Kinds, NEW cbor, NEW msg \in deserialize(kind, cbor)
    PROVE  /\ msg.kind = kind /\ msg.protected = cbor.array.protected
           /\ msg.payload = cbor.array.payload /\ msg.signature = cbor.array.signature
           /\ \A S : cbor \in WireForm(S) => msg \in MessageForm(S)
<1>1. msg = MaybeTagged(kind, cbor.tag # {}, cbor.array)
  BY DEF deserialize
<1>2. /\ msg.kind = kind /\ msg.protected = cbor.array.protected
      /\ msg.payload = cbor.array.payload /\ msg.signature = cbor.array.signature
  BY <1>1 DEF MaybeTagged
<1>3. ASSUME NEW S, cbor \in WireForm(S)
      PROVE  msg \in MessageForm(S)
  BY <1>1, <1>3 DEF MaybeTagged, MessageForm, WireForm
<1> QED
  BY <1>2, <1>3

\* More signatures make no message ill-formed.
LEMMA FormsGrow ==
    ASSUME NEW S, NEW T, S \subseteq T
    PROVE  MessageForm(S) \subseteq MessageForm(T) /\ WireForm(S) \subseteq WireForm(T)
BY DEF MessageForm, WireForm

\* What a carrier delivers has an optional payload, and a signature that came back or
\* none.
LEMMA DeliveredForm ==
    ASSUME SignedInv, NEW cbor \in Delivered
    PROVE  /\ cbor.array.payload \in Options(Payloads)
           /\ cbor.array.signature \in signatures \cup {NoSignature}
<1>1. ASSUME NEW c \in wire
      PROVE  /\ c \in WireForm(signatures)
             /\ c.array.payload \in Options(Payloads) /\ c.array.signature \in signatures
  BY <1>1 DEF SignedInv, WireForm
<1>2. ASSUME NEW c \in wire, NEW t, cbor = [c EXCEPT !.tag = t]
      PROVE  cbor.array = c.array
  BY <1>1, <1>2 DEF WireForm
<1>3. ASSUME NEW c \in wire, NEW p \in Options(Payloads), cbor = [c EXCEPT !.array.payload = p]
      PROVE  cbor.array.payload = p /\ cbor.array.signature = c.array.signature
  BY <1>1, <1>3 DEF WireForm
<1>4. ASSUME NEW c \in wire, NEW b \in Builders,
             cbor = [c EXCEPT !.array.protected.alg = b.protected.alg]
      PROVE  cbor.array.payload = c.array.payload /\ cbor.array.signature = c.array.signature
  BY <1>1, <1>4 DEF WireForm
<1>5. ASSUME NEW c \in wire, NEW s \in signatures \cup {NoSignature},
             cbor = [c EXCEPT !.array.signature = s]
      PROVE  cbor.array.payload = c.array.payload /\ cbor.array.signature = s
  BY <1>1, <1>5 DEF WireForm
<1> QED
  BY <1>1, <1>2, <1>3, <1>4, <1>5 DEF Delivered

-----------------------------------------------------------------------------
(* The invariant *)

\* Preparing, storing and loading hand out nothing that no builder made.
LEMMA PreparedStep ==
    ASSUME CoseInv, [CoseNext]_coseVars
    PROVE  PreparedInv'
<1> USE DEF CoseInv, PreparedInv
<1>1. ASSUME NEW b \in Builders, PrepareMessage(b)
      PROVE  PreparedInv'
  <2>1. made \subseteq made' /\ made' \subseteq Builders
    BY <1>1 DEF PrepareMessage
  <2>2. Produced \subseteq Produced'
    BY <2>1, ProducedGrows
  <2>3. ASSUME NEW prep \in new(b)
        PROVE  /\ prep.message \in MessageForm({NoSignature})
               /\ prep.signature_payload \in Produced'
    <3>1. prep.message \in MessageForm({NoSignature})
      BY NewPrepared
    <3>2. b \in made'
      BY <1>1, <2>3 DEF PrepareMessage
    <3> QED
      BY <3>1, <3>2 DEF Produced, new
  <2> QED
    BY <1>1, <2>1, <2>2, <2>3 DEF PrepareMessage
<1>2. CASE Store
  <2>1. PICK prep \in preparedMessage :
          stored' = {[cose |-> serialize(prep.message), kind |-> prep.message.kind,
                      signature_payload |-> prep.signature_payload]}
    BY <1>2 DEF Store
  <2>2. /\ serialize(prep.message) \in WireForm({NoSignature}) /\ prep.message.kind \in Kinds
        /\ prep.signature_payload \in Produced
    BY SerializedForm DEF MessageForm
  <2>3. Produced' = Produced
    BY <1>2 DEF Store, Produced
  <2>4. PICK s : s = [cose |-> serialize(prep.message), kind |-> prep.message.kind,
                      signature_payload |-> prep.signature_payload]
    OBVIOUS
  <2>5. stored' = {s} /\ s.kind \in Kinds /\ s.cose \in WireForm({NoSignature})
        /\ s.signature_payload \in Produced
    BY <2>1, <2>2, <2>4
  <2> QED
    BY <1>2, <2>3, <2>5 DEF Store
<1>3. CASE Load
  <2>1. PICK s \in stored : \E msg \in deserialize(s.kind, s.cose) :
          preparedMessage' = {[message |-> msg, signature_payload |-> s.signature_payload]}
    BY <1>3 DEF Load
  <2>2. PICK msg \in deserialize(s.kind, s.cose) :
          preparedMessage' = {[message |-> msg, signature_payload |-> s.signature_payload]}
    BY <2>1
  <2>3. msg \in MessageForm({NoSignature})
    BY DeserializedForm
  <2>4. Produced' = Produced
    BY <1>3 DEF Load, Produced
  <2>5. PICK prep : prep = [message |-> msg, signature_payload |-> s.signature_payload]
    OBVIOUS
  <2>6. /\ preparedMessage' = {prep} /\ prep.message \in MessageForm({NoSignature})
        /\ prep.signature_payload \in Produced
    BY <2>2, <2>3, <2>5
  <2> QED
    BY <1>3, <2>4, <2>6 DEF Load
<1>4. CASE RequestSignature
  <2>1. Produced' = Produced
    BY <1>4 DEF RequestSignature, Produced
  <2> QED
    BY <1>4, <2>1 DEF RequestSignature
<1>5. CASE \/ Restart \/ Finalize \/ SetTagged \/ Send \/ UNCHANGED coseVars
           \/ \E key \in DOMAIN Keys : Sign(key) \/ Verify(key)
  <2>1. /\ UNCHANGED <<stored, requested, made>> /\ preparedMessage' \in {preparedMessage, {}}
    BY <1>5 DEF Restart, Finalize, SetTagged, Send, Sign, Verify, coseVars
  <2>2. Produced' = Produced
    BY <2>1 DEF Produced
  <2> QED
    BY <2>1, <2>2
<1> QED
  BY <1>1, <1>2, <1>3, <1>4, <1>5 DEF CoseNext

\* Signers sign what was requested, and messages get signatures that came back.
LEMMA SignedStep ==
    ASSUME CoseInv, [CoseNext]_coseVars
    PROVE  SignedInv'
<1> USE DEF CoseInv, SignedInv
<1>1. CASE \/ \E b \in Builders : PrepareMessage(b)
           \/ Store \/ Restart \/ Load \/ RequestSignature \/ UNCHANGED coseVars
           \/ \E key \in DOMAIN Keys : Verify(key)
  <2>1. /\ UNCHANGED <<signatures, wire>> /\ message' \subseteq message
        /\ requested \subseteq requested'
    BY <1>1 DEF PrepareMessage, Store, Restart, Load, RequestSignature, Verify, coseVars
  <2> QED
    BY <2>1
<1>2. ASSUME NEW key \in DOMAIN Keys, Sign(key)
      PROVE  SignedInv'
  <2>1. PICK structure \in requested : signatures' = signatures \cup {Signature(key, structure)}
    BY <1>2 DEF Sign
  <2>2. UNCHANGED <<requested, message, wire>>
    BY <1>2 DEF Sign
  <2>3. signatures \subseteq signatures'
    BY <2>1
  <2>4. message' \subseteq MessageForm(signatures') /\ wire' \subseteq WireForm(signatures')
    BY <2>2, <2>3, FormsGrow
  <2>5. \A s \in signatures' : \E k \in DOMAIN Keys, x \in requested' : s = Signature(k, x)
    BY <2>1, <2>2
  <2> QED
    BY <2>4, <2>5
<1>3. CASE Finalize
  <2>1. PICK prep \in preparedMessage, s \in signatures : message' = {finalize(prep, s)}
    BY <1>3 DEF Finalize
  <2>2. prep.message \in MessageForm({NoSignature})
    BY DEF PreparedInv
  <2>3. finalize(prep, s) \in MessageForm(signatures)
    BY <2>2 DEF finalize, MessageForm
  <2> QED
    BY <1>3, <2>1, <2>3 DEF Finalize
<1>4. CASE SetTagged
  <2>1. ASSUME NEW msg \in message
        PROVE  [msg EXCEPT !.tagged = TRUE] \in MessageForm(signatures)
    BY <2>1 DEF MessageForm
  <2>2. message' \subseteq MessageForm(signatures)
    BY <1>4, <2>1 DEF SetTagged
  <2> QED
    BY <1>4, <2>2 DEF SetTagged
<1>5. CASE Send
  <2>1. ASSUME NEW msg \in message
        PROVE  serialize(msg) \in WireForm(signatures)
    BY <2>1, SerializedForm
  <2>2. wire' \subseteq WireForm(signatures)
    BY <1>5, <2>1 DEF Send
  <2> QED
    BY <1>5, <2>2 DEF Send
<1> QED
  BY <1>1, <1>2, <1>3, <1>4, <1>5 DEF CoseNext

\* A verification is what verify computes of a delivered message.
LEMMA VerifiedStep ==
    ASSUME CoseInv, [CoseNext]_coseVars
    PROVE  VerifiedInv'
<1> USE DEF CoseInv, VerifiedInv
<1>1. ASSUME NEW key \in DOMAIN Keys, Verify(key)
      PROVE  VerifiedInv'
  <2>1. PICK cbor \in Delivered, detached \in Options(Payloads), aad \in Options(Aads) :
          \E msg \in deserialize(Keys[key].kind, cbor) :
            verification' = {[cbor |-> cbor, msg |-> msg, key |-> key, detached |-> detached,
                              aad |-> aad, result |-> verify(msg, key, detached, aad),
                              claims |-> claims_set(msg)]}
    BY <1>1 DEF Verify
  <2>2. PICK msg \in deserialize(Keys[key].kind, cbor) :
          verification' = {[cbor |-> cbor, msg |-> msg, key |-> key, detached |-> detached,
                            aad |-> aad, result |-> verify(msg, key, detached, aad),
                            claims |-> claims_set(msg)]}
    BY <2>1
  <2>3. /\ msg.payload \in Options(Payloads)
        /\ msg.signature \in signatures \cup {NoSignature}
    <3>1. msg = MaybeTagged(Keys[key].kind, cbor.tag # {}, cbor.array)
      BY DEF deserialize
    <3> QED
      BY <3>1, DeliveredForm DEF MaybeTagged
  <2>4. signatures' = signatures
    BY <1>1 DEF Verify
  <2>5. PICK v : v = [cbor |-> cbor, msg |-> msg, key |-> key, detached |-> detached,
                      aad |-> aad, result |-> verify(msg, key, detached, aad),
                      claims |-> claims_set(msg)]
    OBVIOUS
  <2>6. /\ v.msg = msg /\ v.key = key /\ v.detached = detached /\ v.aad = aad
        /\ v.result = verify(msg, key, detached, aad) /\ v.claims = claims_set(msg)
        /\ verification' = {v}
    BY <2>2, <2>5
  <2> QED
    BY <2>3, <2>4, <2>6
<1>2. CASE \/ \E b \in Builders : PrepareMessage(b)
           \/ Store \/ Restart \/ Load \/ RequestSignature \/ Finalize \/ SetTagged \/ Send
           \/ \E key \in DOMAIN Keys : Sign(key)
  <2>1. verification = {} /\ verification' = verification
    BY <1>2 DEF PrepareMessage, Store, Restart, Load, RequestSignature, Finalize, SetTagged, Send, Sign
  <2> QED
    BY <2>1
<1>3. CASE UNCHANGED coseVars
  BY <1>3 DEF coseVars
<1> QED
  BY <1>1, <1>2, <1>3 DEF CoseNext

\* In every state, what is verified or waits was prepared, requested and signed.
THEOREM CoseInductive == CoseSpec => []CoseInv
<1>1. CoseInit => CoseInv
  BY DEF CoseInit, CoseInv, PreparedInv, SignedInv, VerifiedInv
<1>2. ASSUME CoseInv, [CoseNext]_coseVars PROVE CoseInv'
  BY <1>2, PreparedStep, SignedStep, VerifiedStep DEF CoseInv
<1> QED
  BY <1>1, <1>2, PTL DEF CoseSpec

-----------------------------------------------------------------------------
(* What verification shows *)

\* Success means that the key signed the structure of this header, external data and
\* payload, and that this signature came from a signer.
LEMMA SuccessIsSigned ==
    ASSUME CoseInv, NEW v \in Succeeded
    PROVE  /\ ~AlgorithmDiffers(v.msg, v.key)
           /\ v.msg.signature \in signatures
           /\ \E p \in PayloadOf(v.msg.payload, v.detached) :
                 v.msg.signature = Signature(v.key,
                    StructureData(v.msg.kind, v.msg.protected, v.aad, p))
<1>1. verify(v.msg, v.key, v.detached, v.aad) = "Success"
  BY DEF Succeeded, CoseInv, VerifiedInv
<1>2. PICK msg, payload : msg = v.msg /\ payload = PayloadOf(v.msg.payload, v.detached)
  OBVIOUS
<1>3. /\ ~AlgorithmDiffers(msg, v.key)
      /\ \E s \in {StructureData(msg.kind, msg.protected, v.aad, p) : p \in payload} :
            Authentic(v.key, s, msg.signature)
  BY <1>1, <1>2 DEF verify
<1>4. PICK p \in payload :
        msg.signature = Signature(v.key, StructureData(msg.kind, msg.protected, v.aad, p))
  BY <1>3 DEF Authentic
<1>5. msg.signature # NoSignature
  BY <1>4 DEF Signature, NoSignature
<1>6. msg.signature \in signatures
  BY <1>2, <1>5 DEF Succeeded, CoseInv, VerifiedInv
<1> QED
  BY <1>2, <1>3, <1>4, <1>6

\* What verifies was prepared like that.
LEMMA InvPrepared == CoseInv => VerifiedWasPrepared
<1> SUFFICES ASSUME CoseInv, NEW v \in Succeeded
             PROVE  \E b \in made :
                /\ b.kind = v.msg.kind /\ b.protected = v.msg.protected /\ b.aad = v.aad
                /\ PayloadOf(b.attached, b.detached) = PayloadOf(v.msg.payload, v.detached)
                /\ \E prep \in new(b) : SignedFor(v.key, prep.signature_payload)
                /\ v.msg.protected.alg \notin Assigned \ {Keys[v.key].algorithm}
  BY DEF VerifiedWasPrepared
<1>1. PICK p \in PayloadOf(v.msg.payload, v.detached) :
        v.msg.signature = Signature(v.key, StructureData(v.msg.kind, v.msg.protected, v.aad, p))
  BY SuccessIsSigned
<1>2. ~AlgorithmDiffers(v.msg, v.key) /\ v.msg.signature \in signatures
  BY SuccessIsSigned
<1>3. PICK asked : asked = StructureData(v.msg.kind, v.msg.protected, v.aad, p)
  OBVIOUS
<1>4. PICK key \in DOMAIN Keys, structure \in requested :
        v.msg.signature = Signature(key, structure)
  BY <1>2 DEF CoseInv, SignedInv
<1>5. structure = asked
  BY <1>1, <1>3, <1>4 DEF Signature
<1>6. PICK b \in made : \E prep \in new(b) : prep.signature_payload = asked
  BY <1>4, <1>5 DEF CoseInv, PreparedInv, Produced
<1>7. PICK prep \in new(b) : prep.signature_payload = asked
  BY <1>6
<1>8. b \in Builders
  BY DEF CoseInv, PreparedInv
<1>9. PICK q \in PayloadOf(b.attached, b.detached) :
        asked = StructureData(b.kind, b.protected, b.aad, q)
  BY <1>7, <1>8, NewPrepared
<1>10. b.kind = v.msg.kind /\ b.protected = v.msg.protected /\ b.aad = v.aad /\ p = q
  BY <1>3, <1>9 DEF StructureData
<1>11. PayloadOf(b.attached, b.detached) = {q}
  BY <1>8, BuildersAssumption DEF PayloadOf, Options
<1>12. PayloadOf(v.msg.payload, v.detached) = {p}
  <2>1. v.msg.payload \in Options(Payloads) /\ v.detached \in Options(Payloads)
    BY DEF Succeeded, CoseInv, VerifiedInv
  <2> QED
    BY <2>1 DEF PayloadOf, Options
<1>13. SignedFor(v.key, prep.signature_payload)
  BY <1>1, <1>2, <1>3, <1>7 DEF SignedFor
<1>14. v.msg.protected.alg \notin Assigned \ {Keys[v.key].algorithm}
  BY <1>2 DEF AlgorithmDiffers
<1> QED
  BY <1>10, <1>11, <1>12, <1>13, <1>14

\* An honest message verifies.
LEMMA InvHonest == CoseInv => HonestMessageVerifies
<1> SUFFICES ASSUME CoseInv, NEW v \in verification, NEW b \in made,
                    b.kind = v.msg.kind, b.protected = v.msg.protected,
                    b.attached = v.msg.payload, b.detached = v.detached, b.aad = v.aad,
                    NEW prep \in new(b), v.msg.signature = Signature(v.key, prep.signature_payload),
                    ~AlgorithmDiffers(v.msg, v.key)
             PROVE  v.result = "Success"
  BY DEF HonestMessageVerifies
<1>1. b \in Builders
  BY DEF CoseInv, PreparedInv
<1>2. PICK p \in PayloadOf(b.attached, b.detached) :
        prep.signature_payload = StructureData(b.kind, b.protected, b.aad, p)
  BY <1>1, NewPrepared
<1>3. PICK msg, payload, aad : /\ msg = v.msg /\ aad = v.aad
                               /\ payload = PayloadOf(v.msg.payload, v.detached)
  OBVIOUS
<1>4. PICK s : s = StructureData(msg.kind, msg.protected, aad, p)
  OBVIOUS
<1>5. p \in payload /\ msg.signature = Signature(v.key, s)
  BY <1>2, <1>3, <1>4
<1>6. msg.signature.size = SizeOf(Keys[v.key].algorithm)
  BY <1>5 DEF Signature
<1>7. \E x \in {StructureData(msg.kind, msg.protected, aad, y) : y \in payload} :
        Authentic(v.key, x, msg.signature)
  BY <1>4, <1>5 DEF Authentic
<1>8. verify(msg, v.key, v.detached, aad) = "Success"
  BY <1>3, <1>5, <1>6, <1>7 DEF verify
<1> QED
  BY <1>3, <1>8 DEF CoseInv, VerifiedInv

\* Claims are read from the payload that was signed.
LEMMA InvClaims == CoseInv => ClaimsWereVerified
<1> SUFFICES ASSUME CoseInv, NEW v \in Succeeded, NEW c \in v.claims.claims
             PROVE  \E s \in signatures : \E structure \in s.over :
                        structure.payload = c /\ s = v.msg.signature /\ s.key = {v.key}
  BY DEF ClaimsWereVerified
<1>1. PICK p \in PayloadOf(v.msg.payload, v.detached) :
        v.msg.signature = Signature(v.key, StructureData(v.msg.kind, v.msg.protected, v.aad, p))
  BY SuccessIsSigned
<1>2. v.msg.signature \in signatures
  BY SuccessIsSigned
<1>3. c \in v.msg.payload /\ v.msg.payload \in Options(Payloads)
  <2>1. v.claims = claims_set(v.msg) /\ v.msg.payload \in Options(Payloads)
    BY DEF Succeeded, CoseInv, VerifiedInv
  <2>2. claims_set(v.msg).claims = v.msg.payload \cap Claims
    BY DEF claims_set
  <2>3. c \in v.msg.payload \cap Claims
    BY <2>1, <2>2
  <2> QED
    BY <2>1, <2>3
<1>4. p = c
  <2>1. p \in v.msg.payload
    BY <1>1, <1>3 DEF PayloadOf
  <2> QED
    BY <1>3, <2>1, OptionSingle
<1>5. PICK structure : structure = StructureData(v.msg.kind, v.msg.protected, v.aad, p)
  OBVIOUS
<1>6. structure.payload = c
  BY <1>4, <1>5 DEF StructureData
<1>7. v.msg.signature.over = {structure} /\ v.msg.signature.key = {v.key}
  BY <1>1, <1>5 DEF Signature
<1> QED
  BY <1>2, <1>6, <1>7

\* Whatever is stored, tagged, mixed up or changed on the way, what verifies under a key
\* was prepared with that kind, header, external data and payload, and signed with it.
THEOREM VerifiedIsPrepared == CoseSpec => []VerifiedWasPrepared
BY InvPrepared, CoseInductive, PTL

\* A message with the signature over its own payload verifies, for both kinds and every
\* algorithm, attached or detached.
THEOREM HonestVerifies == CoseSpec => []HonestMessageVerifies
BY InvHonest, CoseInductive, PTL

\* The claims of a verified message are the ones that the key signed.
THEOREM ClaimsAreSigned == CoseSpec => []ClaimsWereVerified
BY InvClaims, CoseInductive, PTL

=============================================================================
