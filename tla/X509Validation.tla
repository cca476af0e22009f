--------------------------- MODULE X509Validation ---------------------------
(***************************************************************************)
(* Certificate validation: definitions/x509.  A verifier keeps a registry   *)
(* of trust anchors and a clock, receives certificate chains as CBOR, and   *)
(* validates them with one of three rulesets.                               *)
(*                                                                         *)
(* A certificate is an identifier in DOMAIN Cert; bytes that do not decode  *)
(* are other identifiers.  SHA-1 of a key is the key; a signature is the    *)
(* key that made it.  An Option is a set with at most one member, and so is *)
(* the content of an extension: empty when it does not decode.  Errors are  *)
(* records, collected in a set: only whether there is one matters, and      *)
(* which certificate it names.                                              *)
(***************************************************************************)
EXTENDS Integers, Sequences, FiniteSets, SequencesExt

CONSTANTS
    Cert,         \* the contents of the certificates
    PemLists,     \* lists of PEM anchors that an application loads
    CborChains,   \* x5chain headers that are received
    MaxTime       \* bound of the clock

\* A finite list, whatever its members are.
IsList(s) == s \in Seq(Range(s))

\* Bounds of a period are in order: whoever signs a certificate sees to that, validation
\* compares each of them with the clock only.  Names and extensions are lists.
ASSUME CertAssumption ==
    \A c \in DOMAIN Cert :
        /\ Cert[c].not_before \in Int /\ Cert[c].not_after \in Int
        /\ Cert[c].not_before <= Cert[c].not_after
        /\ DOMAIN Cert[c].subject = {"CN", "C", "ST"}
        /\ \A name \in {"CN", "C", "ST"} : IsList(Cert[c].subject[name])
        /\ IsList(Cert[c].extensions)
        /\ \A i \in DOMAIN Cert[c].extensions :
            \A v, w \in Cert[c].extensions[i].value : v = w
ASSUME ListsAssumption ==
    /\ \A pems \in PemLists : IsList(pems)
    /\ \A cbor \in CborChains : IsList(cbor.items)
ASSUME TimeAssumption == MaxTime \in Nat

VARIABLES
    registry,     \* TrustAnchorRegistry: a sequence of [certificate, purpose]
    now,          \* OffsetDateTime::now_utc
    verdict       \* the last call of ValidationRuleset::validate (Option)
x509Vars == <<registry, now, verdict>>

-----------------------------------------------------------------------------
(* x5chain.rs, trust_anchor.rs, util.rs *)

\* A chain of one certificate is a byte string, a longer one an array of them.
into_cbor(chain) == [kind |-> IF Len(chain) = 1 THEN "bytes" ELSE "array", items |-> chain]

\* CertificateWithDer::from_der, and from_pem, which calls it.
from_der(bytes) == bytes \in DOMAIN Cert

\* Builder: the certificates that were added, when each decodes and there is one.
build(items) == IF items # <<>> /\ \A i \in DOMAIN items : from_der(items[i]) THEN {items} ELSE {}

from_cbor(cbor) == IF cbor.kind \in {"bytes", "array"} THEN build(cbor.items) ELSE {}

end_entity_certificate(chain) == chain[1]

\* All PEM certificates decode, or there is no registry.
from_pem_certificates(pems) ==
    IF \A i \in DOMAIN pems : from_der(pems[i].certificate) THEN {pems} ELSE {}

\* An EC key on the expected named curve whose bit string has whole bytes.
public_key_with_oid(c, curve) ==
    IF Cert[c].spki = [algorithm |-> "id-ecPublicKey", curve |-> curve, unused_bits |-> 0]
    THEN {Cert[c].key} ELSE {}

common_name_or_unknown(c) ==
    IF Cert[c].subject["CN"] = <<>> THEN "Unknown" ELSE Cert[c].subject["CN"][1]

-----------------------------------------------------------------------------
(* validity.rs, signature.rs, names.rs *)

\* Mutant: the end of the period is not looked at.
check_validity_period_Start(c, t, u) ==
    IF Cert[c].not_before > u THEN {"not yet valid"} ELSE {}

\* The clock is read once for each bound.
check_validity_period(c, t, u) ==
    (IF Cert[c].not_after < t THEN {"expired"} ELSE {})
        \cup (IF Cert[c].not_before > u THEN {"not yet valid"} ELSE {})

issuer_signed_subject(subject, issuer) ==
    \E key \in public_key_with_oid(issuer, "P-256") :
        Cert[subject].signature = [curve |-> "P-256", key |-> key]

Blame(c, error) == {[error |-> error, names |-> common_name_or_unknown(c)]}

\* Each certificate has the attribute once, with one value.  The error for several
\* values of the one certificate carries the name of the other.
name_matches(name, this, that) ==
    LET these == Cert[this].subject[name]
        those == Cert[that].subject[name]
    IN  CASE these = <<>> -> Blame(this, "missing")
          [] these # <<>> /\ those = <<>> -> Blame(that, "missing")
          [] Len(these) > 1 /\ those # <<>> -> Blame(that, "multiple")
          [] Len(these) = 1 /\ Len(those) > 1 -> Blame(this, "multiple")
          [] OTHER -> IF these[1] # those[1] THEN Blame(this, "mismatch") ELSE {}

has_rdn(c, name) == Cert[c].subject[name] # <<>>

-----------------------------------------------------------------------------
(* extensions/ *)

ExtensionsOf(c) == Range(Cert[c].extensions)

\* Some authority key identifier of the subject is some subject key identifier of
\* the issuer.
key_identifier_check(issuer, subject) ==
    \E aki \in ExtensionsOf(subject), ski \in ExtensionsOf(issuer) :
        /\ aki.oid = "AuthorityKeyIdentifier" /\ ski.oid = "SubjectKeyIdentifier"
        /\ aki.value # {} /\ aki.value = ski.value

Profiles == {"iaca", "ds", "reader"}

\* ExtensionValidators::with
Required(profile) ==
    {"SubjectKeyIdentifier", "KeyUsage", "CrlDistributionPoints", "IssuerAlternativeName"}
        \cup IF profile = "iaca" THEN {"BasicConstraints"} ELSE {"ExtendedKeyUsage"}

ExpectedUsage(profile) ==
    IF profile = "iaca" THEN {"CRLSign", "KeyCertSign"} ELSE {"DigitalSignature"}

KeyUsageCheck(profile, usages) == usages = ExpectedUsage(profile)

ExpectedOid(profile) == IF profile = "ds" THEN "1.0.18013.5.1.2" ELSE "1.0.18013.5.1.6"

\* Mutant: any of the purposes will do.
ExtendedKeyUsageCheck_Any(profile, oids) == ExpectedOid(profile) \in oids

ExtendedKeyUsageCheck(profile, oids) ==
    (\A oid \in oids : oid = ExpectedOid(profile)) /\ oids # {}

BasicConstraintsCheck(constraints) == constraints.ca /\ constraints.path_len = {0}

CrlDistributionPointsCheck(points) ==
    /\ points # <<>>
    /\ \A i \in DOMAIN points : /\ ~points[i].crl_issuer /\ ~points[i].reasons
                                /\ "uri" \in points[i].full_name

IssuerAlternativeNameCheck(names) == names \subseteq {"rfc822", "uri"}

\* A required extension decodes and has the content that its validator expects.
ExtensionFits(c, profile, ext) ==
    \E v \in ext.value :
        CASE ext.oid = "SubjectKeyIdentifier" -> v = Cert[c].key
          [] ext.oid = "KeyUsage" -> KeyUsageCheck(profile, v)
          [] ext.oid = "ExtendedKeyUsage" -> ExtendedKeyUsageCheck(profile, v)
          [] ext.oid = "BasicConstraints" -> BasicConstraintsCheck(v)
          [] ext.oid = "CrlDistributionPoints" -> CrlDistributionPointsCheck(v)
          [] ext.oid = "IssuerAlternativeName" -> IssuerAlternativeNameCheck(v)

DisallowedExtensions == {"PolicyMappings", "NameConstraints", "PolicyConstraints",
                         "InhibitAnyPolicy", "FreshestCrl"}

\* Every extension is looked at, also when it repeats one before it.
validate_extensions(c, profile) ==
    {[error |-> "invalid extension", names |-> ext.oid] :
        ext \in {e \in ExtensionsOf(c) : e.oid \in Required(profile) /\ ~ExtensionFits(c, profile, e)}}
    \cup {[error |-> "unknown critical extension", names |-> ext.oid] :
        ext \in {e \in ExtensionsOf(c) : e.oid \notin Required(profile) /\ e.critical}}
    \cup {[error |-> "required extension not found", names |-> oid] :
        oid \in Required(profile) \ {e.oid : e \in ExtensionsOf(c)}}
    \cup {[error |-> "extension is not allowed", names |-> ext.oid] :
        ext \in {e \in ExtensionsOf(c) : e.oid \in DisallowedExtensions}}

-----------------------------------------------------------------------------
(* validation/mod.rs *)

\* Errors get the context of the certificate that they are about.
InContext(context, errors) == {[context |-> context, what |-> e] : e \in errors}

Plain(errors) == {[error |-> e, names |-> ""] : e \in errors}

\* Mutant: the key identifier stands for the signature.
find_trust_anchor_candidates_ByIdentifier(subject, anchors, purpose, r) ==
    {i \in DOMAIN anchors :
        LET candidate == anchors[i].certificate
        IN  /\ anchors[i].purpose = purpose
            /\ Cert[candidate].subject = Cert[subject].issuer
            /\ key_identifier_check(candidate, subject)
            /\ check_validity_period(candidate, r[2 * i + 1], r[2 * i + 2]) = {}}

\* The places of the anchors that may have issued the subject.
find_trust_anchor_candidates(subject, anchors, purpose, r) ==
    {i \in DOMAIN anchors :
        LET candidate == anchors[i].certificate
        IN  /\ anchors[i].purpose = purpose
            /\ Cert[candidate].subject = Cert[subject].issuer
            /\ key_identifier_check(candidate, subject)
            /\ issuer_signed_subject(subject, candidate)
            /\ check_validity_period(candidate, r[2 * i + 1], r[2 * i + 2]) = {}}

\* Mutant: the latest anchor that fits is used.
FirstCandidate_Last(candidates) == CHOOSE i \in candidates : \A j \in candidates : j <= i

\* When several anchors fit, the first is used.
FirstCandidate(candidates) == CHOOSE i \in candidates : \A j \in candidates : i <= j

LeafErrors(leaf, profile, r) ==
    InContext(profile, Plain(check_validity_period(leaf, r[1], r[2]))
                          \cup validate_extensions(leaf, profile))

\* Mutant: a document signer without the attribute is let through.
StateErrors_IfBoth(rules, ds, iaca) ==
    IF has_rdn(ds, "ST") /\ has_rdn(iaca, "ST")
    THEN name_matches("ST", ds, iaca) ELSE {}

\* mdl_validate looks at stateOrProvinceName when one certificate has it,
\* aamva_mdl_validate always.
StateErrors(rules, ds, iaca) ==
    IF rules = "AamvaMdl" \/ has_rdn(ds, "ST") \/ has_rdn(iaca, "ST")
    THEN name_matches("ST", ds, iaca) ELSE {}

\* mdl_validate_inner, with what mdl_validate and aamva_mdl_validate add.
mdl_validate(rules, ds, anchors, r) ==
    LET candidates == find_trust_anchor_candidates(ds, anchors, "Iaca", r)
        iaca == anchors[FirstCandidate(candidates)].certificate
    IN  LeafErrors(ds, "ds", r)
        \cup IF candidates = {} THEN InContext("iaca", Plain({"no valid trust anchor found"}))
             ELSE InContext("comparison", name_matches("C", ds, iaca)
                                             \cup StateErrors(rules, ds, iaca))
                  \cup InContext("iaca", validate_extensions(iaca, "iaca"))

\* The extensions of the reader CA are not looked at.
mdl_reader_one_step_validate(reader, anchors, r) ==
    LeafErrors(reader, "reader", r)
        \cup IF find_trust_anchor_candidates(reader, anchors, "ReaderCa", r) = {}
             THEN InContext("reader ca", Plain({"no valid trust anchor found"})) ELSE {}

Rulesets == {"Mdl", "AamvaMdl", "MdlReaderOneStep"}

\* ValidationRuleset::validate; of the chain only the end entity counts.  r holds the
\* readings of the clock: two for the end entity, then two for each anchor in turn.
validate(rules, chain, anchors, r) ==
    IF rules = "MdlReaderOneStep"
    THEN mdl_reader_one_step_validate(end_entity_certificate(chain), anchors, r)
    ELSE mdl_validate(rules, end_entity_certificate(chain), anchors, r)

-----------------------------------------------------------------------------
(* Operations *)

X509Init == registry = <<>> /\ now = 0 /\ verdict = {}

Tick == now < MaxTime /\ now' = now + 1 /\ UNCHANGED <<registry, verdict>>

\* A list with a certificate that does not decode is not loaded.
LoadRegistry ==
    /\ verdict = {}
    /\ \E pems \in PemLists : \E anchors \in from_pem_certificates(pems) : registry' = anchors
    /\ UNCHANGED <<now, verdict>>

\* The clock may advance while a chain is validated.
Readings ==
    {r \in [1..2 * Len(registry) + 2 -> now..MaxTime] : \A i, j \in DOMAIN r : i <= j => r[i] <= r[j]}

\* Header values: what an issuer writes of a chain that it read, and others.
Headers == CborChains \cup {into_cbor(chain) : chain \in UNION {from_cbor(cbor) : cbor \in CborChains}}

Validate(rules) ==
    /\ verdict = {}
    /\ \E cbor \in Headers, r \in Readings : \E chain \in from_cbor(cbor) :
        /\ verdict' = {[rules |-> rules, chain |-> chain, readings |-> r,
                        errors |-> validate(rules, chain, registry, r)]}
        /\ now' = Last(r)
    /\ UNCHANGED registry

X509Next == Tick \/ LoadRegistry \/ \E rules \in Rulesets : Validate(rules)

ValidationSpec == X509Init /\ [][X509Next]_x509Vars

-----------------------------------------------------------------------------
(* Properties *)

Accepted == {v \in verdict : v.errors = {}}
Leaf(v) == end_entity_certificate(v.chain)
PurposeOf(v) == IF v.rules = "MdlReaderOneStep" THEN "ReaderCa" ELSE "Iaca"

\* Nothing is accepted without an anchor, registered for the purpose of the ruleset,
\* whose key made the signature of the end entity; other certificates of the chain
\* and key identifiers do not replace it.
AcceptedIsAnchored ==
    \A v \in Accepted : \E i \in DOMAIN registry :
        /\ registry[i].purpose = PurposeOf(v)
        /\ Cert[registry[i].certificate].key = Cert[Leaf(v)].signature.key
        /\ Cert[registry[i].certificate].subject = Cert[Leaf(v)].issuer

\* An accepted end entity was within its period at a moment of the call, and so was
\* an anchor that can have issued it, although the clock is read for each bound.
ValidDuringCall ==
    \A v \in Accepted :
        \E t, u \in v.readings[1]..Last(v.readings), i \in DOMAIN registry :
            /\ Cert[Leaf(v)].not_before <= t /\ t <= Cert[Leaf(v)].not_after
            /\ Cert[registry[i].certificate].subject = Cert[Leaf(v)].issuer
            /\ Cert[registry[i].certificate].not_before <= u
            /\ u <= Cert[registry[i].certificate].not_after

\* A certificate that is accepted in one role has the profile of no other: a reader
\* does not pass as document signer, and no end entity as issuing authority.
RolesSeparate ==
    \A v \in Accepted : \A profile \in Profiles :
        validate_extensions(Leaf(v), profile) = {}
            => profile = IF v.rules = "MdlReaderOneStep" THEN "reader" ELSE "ds"

\* A document signer is accepted only with an issuing authority of the same country,
\* and of the same state or province as far as the ruleset asks for one.
JurisdictionAgrees ==
    \A v \in Accepted : v.rules # "MdlReaderOneStep" =>
        /\ Len(Cert[Leaf(v)].subject["C"]) = 1
        /\ \E i \in DOMAIN registry :
            LET iaca == Cert[registry[i].certificate]
            IN  /\ iaca.key = Cert[Leaf(v)].signature.key
                /\ iaca.subject["C"] = Cert[Leaf(v)].subject["C"]
                /\ iaca.subject["ST"] = Cert[Leaf(v)].subject["ST"]
        /\ v.rules = "AamvaMdl" => Len(Cert[Leaf(v)].subject["ST"]) = 1

\* An anchor that is added at the end of the registry takes nothing away, whichever
\* it is: the first candidate stays the first (find_trust_anchor_candidates).
AppendKeepsTrust ==
    \A v \in Accepted : \A pems \in {p \in PemLists : Len(p) = 1} :
        \A anchors \in from_pem_certificates(pems) :
            LET after == v.readings \o <<Last(v.readings), Last(v.readings)>>
            IN  validate(v.rules, v.chain, registry \o anchors, after) = {}

-----------------------------------------------------------------------------
(***************************************************************************)
(* The inductive invariant: the verdict is what validate computes of the   *)
(* registry that is still loaded, from readings of a clock that does not   *)
(* run backwards.  The properties of an accepted chain follow from it.     *)
(***************************************************************************)
ReadingsOf(anchors, r) ==
    /\ r \in [1..2 * Len(anchors) + 2 -> Nat]
    /\ \A i, j \in DOMAIN r : i <= j => r[i] <= r[j]

VerdictInv ==
    /\ now \in Nat /\ IsList(registry)
    /\ \A i \in DOMAIN registry : from_der(registry[i].certificate)
    /\ \A v \in verdict :
        /\ v.rules \in Rulesets /\ v.chain # <<>>
        /\ IsList(v.chain) /\ \A i \in DOMAIN v.chain : from_der(v.chain[i])
        /\ ReadingsOf(registry, v.readings)
        /\ v.errors = validate(v.rules, v.chain, registry, v.readings)
=============================================================================
