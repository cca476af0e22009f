---------------------------- MODULE CoseMessages ----------------------------
(***************************************************************************)
(* COSE_Sign1 and COSE_Mac0 with remote signing: cose.rs, cose/sign1.rs,     *)
(* cose/mac0.rs.  An application prepares messages, may store a prepared     *)
(* message and load it again, sends payloads to signers, attaches what comes *)
(* back, and serialises the result.  A verifier parses what a carrier        *)
(* delivers, as either kind, and verifies it.                                *)
(*                                                                         *)
(* Bytes that are signed are the record of what they encode.  An Option is a *)
(* set with at most one member.  Unprotected headers take no part.           *)
(***************************************************************************)
EXTENDS Integers, FiniteSets

CONSTANTS
    Builders,        \* messages that are prepared: builder and arguments of new
    Keys,            \* [kind, algorithm] of each key, by its name
    Payloads, Aads,  \* values of payloads and of external data
    Claims,          \* the payloads that are CWT claims sets
    MaxPrepared,     \* number of messages that are prepared
    MaxSigned        \* number of payloads that are signed

Kinds == {"Sign1", "Mac0"}
Options(S) == {{}} \cup {{x} : x \in S}
Assigned == {"ES256", "ES384", "HMAC_256_256"}

ASSUME BuildersAssumption ==
    \A b \in Builders : /\ b.kind \in Kinds /\ b.tagged \in BOOLEAN
                        /\ b.attached \in Options(Payloads) /\ b.detached \in Options(Payloads)
                        /\ b.aad \in Options(Aads)
ASSUME KeysAssumption ==
    \A k \in DOMAIN Keys : (Keys[k].algorithm = "HMAC_256_256") = (Keys[k].kind = "Mac0")
ASSUME BoundsAssumption == MaxPrepared \in Nat /\ MaxSigned \in Nat

VARIABLES
    preparedMessage, \* PreparedCoseSign1 or PreparedCoseMac0 in memory (Option)
    stored,          \* its serialised form (Option)
    requested,       \* payloads that are with the signers, each with its builder
    signatures,      \* signatures and tags that the signers returned
    message,         \* a finalized message in memory (Option)
    wire,            \* messages that were sent
    verification,    \* the last verification (Option)
    made             \* history: the builders of all prepared messages
coseVars == <<preparedMessage, stored, requested, signatures, message, wire, verification, made>>

-----------------------------------------------------------------------------
(* cose.rs: MaybeTagged *)

TAG(kind) == IF kind = "Sign1" THEN 18 ELSE 17

serialize(msg) ==
    [tag |-> IF msg.tagged THEN {TAG(msg.kind)} ELSE {},
     array |-> [protected |-> msg.protected, payload |-> msg.payload, signature |-> msg.signature]]

MaybeTagged(kind, tagged, array) ==
    [kind |-> kind, tagged |-> tagged, protected |-> array.protected,
     payload |-> array.payload, signature |-> array.signature]

\* No tag, or the tag of the kind; the two kinds have the same array.
deserialize(kind, cbor) ==
    IF cbor.tag \subseteq {TAG(kind)} THEN {MaybeTagged(kind, cbor.tag # {}, cbor.array)} ELSE {}

-----------------------------------------------------------------------------
(* sign1.rs, mac0.rs *)

\* coset: sig_structure_data, mac_structure_data.
StructureData(kind, protected, aad, payload) ==
    [context |-> kind, protected |-> protected, aad |-> aad, payload |-> payload]

\* Either attached or detached; none for NoPayload and for DoublePayload.
PayloadOf(attached, detached) ==
    IF attached = {} \/ detached = {} THEN attached \cup detached ELSE {}

NoSignature == [size |-> 0, key |-> {}, over |-> {}]

\* Mutant: the external data are left out of what is signed.
new_IgnoresAad(b) ==
    {[message |-> [kind |-> b.kind, tagged |-> b.tagged, protected |-> b.protected,
                   payload |-> b.attached, signature |-> NoSignature],
      signature_payload |-> StructureData(b.kind, b.protected, {}, p)] :
        p \in PayloadOf(b.attached, b.detached)}

\* PreparedCoseSign1::new, PreparedCoseMac0::new.
new(b) ==
    {[message |-> [kind |-> b.kind, tagged |-> b.tagged, protected |-> b.protected,
                   payload |-> b.attached, signature |-> NoSignature],
      signature_payload |-> StructureData(b.kind, b.protected, b.aad, p)] :
        p \in PayloadOf(b.attached, b.detached)}

finalize(prep, signature) == [prep.message EXCEPT !.signature = signature]

\* Bytes of a signature or of a tag.
SizeOf(algorithm) ==
    CASE algorithm = "ES256" -> 64 [] algorithm = "ES384" -> 96 [] algorithm = "HMAC_256_256" -> 32

\* HmacSha256Key::tag, and the remote signers, which are not part of the library.
Signature(key, structure) ==
    [size |-> SizeOf(Keys[key].algorithm), key |-> {key}, over |-> {structure}]

\* P256Verifier, P384Verifier, HmacSha256Key::verify_payload.
Authentic(key, structure, signature) == signature = Signature(key, structure)

AlgorithmDiffers(msg, key) ==
    msg.protected.alg \in Assigned /\ msg.protected.alg # Keys[key].algorithm

\* Mutant: the external data of the caller are not used.
verify_NoAad(msg, key, detached, aad) ==
    LET payload == PayloadOf(msg.payload, detached)
        structures == {StructureData(msg.kind, msg.protected, {}, p) : p \in payload}
    IN  CASE AlgorithmDiffers(msg, key) -> "Failure"
          [] payload = {} -> "Error"
          [] OTHER -> IF \E s \in structures : Authentic(key, s, msg.signature)
                      THEN "Success" ELSE "Failure"

\* Mutant: a detached payload goes before an attached one.
verify_PrefersDetached(msg, key, detached, aad) ==
    LET payload == IF detached # {} THEN detached ELSE msg.payload
        structures == {StructureData(msg.kind, msg.protected, aad, p) : p \in payload}
    IN  CASE AlgorithmDiffers(msg, key) -> "Failure"
          [] payload = {} -> "Error"
          [] OTHER -> IF \E s \in structures : Authentic(key, s, msg.signature)
                      THEN "Success" ELSE "Failure"

\* MaybeTagged<CoseSign1>::verify, MaybeTagged<CoseMac0>::verify.  A signature of another
\* size is an error, a tag of another size a failure.
verify(msg, key, detached, aad) ==
    LET payload == PayloadOf(msg.payload, detached)
        structures == {StructureData(msg.kind, msg.protected, aad, p) : p \in payload}
    IN  CASE AlgorithmDiffers(msg, key) -> "Failure"
          [] ~AlgorithmDiffers(msg, key) /\ payload = {} -> "Error"
          [] /\ ~AlgorithmDiffers(msg, key) /\ payload # {}
             /\ msg.kind = "Sign1" /\ msg.signature.size # SizeOf(Keys[key].algorithm) -> "Error"
          [] OTHER -> IF \E s \in structures : Authentic(key, s, msg.signature)
                      THEN "Success" ELSE "Failure"

\* The claims of an attached payload: none for a detached one, an error when it is
\* something else.
claims_set(msg) ==
    [ok |-> msg.payload \subseteq Claims, claims |-> msg.payload \cap Claims]

-----------------------------------------------------------------------------
(* Operations *)

CoseInit ==
    /\ preparedMessage = {} /\ stored = {} /\ requested = {} /\ signatures = {}
    /\ message = {} /\ wire = {} /\ verification = {} /\ made = {}

\* A builder with no payload, or two, is refused.
PrepareMessage(b) ==
    /\ preparedMessage = {} /\ message = {} /\ verification = {} /\ Cardinality(made) < MaxPrepared
    /\ preparedMessage' = new(b)
    /\ made' = IF new(b) = {} THEN made ELSE made \cup {b}
    /\ UNCHANGED <<stored, requested, signatures, message, wire, verification>>

\* Both prepared messages can be serialised, with the payload that is to be signed.
Store ==
    /\ verification = {}
    /\ \E prep \in preparedMessage :
        stored' = {[cose |-> serialize(prep.message), kind |-> prep.message.kind,
                    signature_payload |-> prep.signature_payload]}
    /\ UNCHANGED <<preparedMessage, requested, signatures, message, wire, verification, made>>

\* The process ends; what was stored remains, and signatures still arrive.
Restart ==
    /\ verification = {} /\ stored # {} /\ preparedMessage' = {} /\ message' = {}
    /\ UNCHANGED <<stored, requested, signatures, wire, verification, made>>

Load ==
    /\ verification = {} /\ preparedMessage = {} /\ message = {}
    /\ \E s \in stored : \E msg \in deserialize(s.kind, s.cose) :
        preparedMessage' = {[message |-> msg, signature_payload |-> s.signature_payload]}
    /\ UNCHANGED <<stored, requested, signatures, message, wire, verification, made>>

\* signature_payload
RequestSignature ==
    /\ verification = {}
    /\ requested' = requested \cup {prep.signature_payload : prep \in preparedMessage}
    /\ requested' # requested
    /\ UNCHANGED <<preparedMessage, stored, signatures, message, wire, verification, made>>

\* A signer signs what was requested, with the key that it has.
Sign(key) ==
    /\ verification = {} /\ Cardinality(signatures) < MaxSigned
    /\ \E structure \in requested : /\ structure.context = Keys[key].kind
                                   /\ signatures' = signatures \cup {Signature(key, structure)}
    /\ UNCHANGED <<preparedMessage, stored, requested, message, wire, verification, made>>

\* Any signature that came back, also the one for another message.
Finalize ==
    /\ verification = {}
    /\ \E prep \in preparedMessage, s \in signatures : message' = {finalize(prep, s)}
    /\ preparedMessage' = {}
    /\ UNCHANGED <<stored, requested, signatures, wire, verification, made>>

SetTagged ==
    /\ verification = {} /\ \E msg \in message : ~msg.tagged
    /\ message' = {[msg EXCEPT !.tagged = TRUE] : msg \in message}
    /\ UNCHANGED <<preparedMessage, stored, requested, signatures, wire, verification, made>>

Send ==
    /\ verification = {} /\ message # {}
    /\ wire' = wire \cup {serialize(msg) : msg \in message} /\ message' = {}
    /\ UNCHANGED <<preparedMessage, stored, requested, signatures, verification, made>>

\* A carrier delivers what was sent, or a copy that differs in one field.
Delivered ==
    wire \cup {[c EXCEPT !.tag = t] : c \in wire, t \in Options({17, 18})}
         \cup {[c EXCEPT !.array.payload = p] : c \in wire, p \in Options(Payloads)}
         \cup {[c EXCEPT !.array.protected.alg = b.protected.alg] : c \in wire, b \in Builders}
         \cup {[c EXCEPT !.array.signature = s] : c \in wire, s \in signatures \cup {NoSignature}}

\* Verification does not depend on what is in preparation: it is looked at between two
\* messages.
Verify(key) ==
    /\ verification = {} /\ preparedMessage = {} /\ message = {}
    /\ \E cbor \in Delivered, detached \in Options(Payloads), aad \in Options(Aads) :
        \E msg \in deserialize(Keys[key].kind, cbor) :
            verification' = {[cbor |-> cbor, msg |-> msg, key |-> key, detached |-> detached, aad |-> aad,
                         result |-> verify(msg, key, detached, aad), claims |-> claims_set(msg)]}
    /\ UNCHANGED <<preparedMessage, stored, requested, signatures, message, wire, made>>

CoseNext ==
    \/ \E b \in Builders : PrepareMessage(b)
    \/ Store \/ Restart \/ Load \/ RequestSignature \/ Finalize \/ SetTagged \/ Send
    \/ \E key \in DOMAIN Keys : Sign(key) \/ Verify(key)

CoseSpec == CoseInit /\ [][CoseNext]_coseVars

-----------------------------------------------------------------------------
(* Properties *)

Succeeded == {v \in verification : v.result = "Success"}
SignedFor(key, structure) == Signature(key, structure) \in signatures

\* What verifies was prepared: the same kind of message with the same protected header,
\* payload, attached or detached, and external data, and the key signed that message.
VerifiedWasPrepared ==
    \A v \in Succeeded : \E b \in made :
        /\ b.kind = v.msg.kind /\ b.protected = v.msg.protected /\ b.aad = v.aad
        /\ PayloadOf(b.attached, b.detached) = PayloadOf(v.msg.payload, v.detached)
        /\ \E prep \in new(b) : SignedFor(v.key, prep.signature_payload)
        /\ v.msg.protected.alg \notin Assigned \ {Keys[v.key].algorithm}

\* A message that got the signature over its own payload verifies at the receiver with
\* what it was prepared with, whether it was stored in between, tagged or not.
HonestMessageVerifies ==
    \A v \in verification, b \in made :
        (/\ b.kind = v.msg.kind /\ b.protected = v.msg.protected /\ b.attached = v.msg.payload
         /\ b.detached = v.detached /\ b.aad = v.aad
         /\ \E prep \in new(b) : v.msg.signature = Signature(v.key, prep.signature_payload)
         /\ ~AlgorithmDiffers(v.msg, v.key))
        => v.result = "Success"

\* The claims that an application reads from a verified message are the ones that were
\* signed, not a payload beside them (claims_set looks at the attached payload only).
ClaimsWereVerified ==
    \A v \in Succeeded : \A c \in v.claims.claims :
        \E s \in signatures : \E structure \in s.over :
            structure.payload = c /\ s = v.msg.signature /\ s.key = {v.key}

-----------------------------------------------------------------------------
(***************************************************************************)
(* The inductive invariant: what waits for a signature was prepared, what  *)
(* signers return is over what they were asked to sign, and what is sent   *)
(* carries a signature that came back, in memory, stored or on the wire.   *)
(***************************************************************************)
MessageForm(S) ==
    [kind : Kinds, tagged : BOOLEAN, protected : {b.protected : b \in Builders},
     payload : Options(Payloads), signature : S]
WireForm(S) ==
    [tag : Options({17, 18}),
     array : [protected : {b.protected : b \in Builders}, payload : Options(Payloads), signature : S]]

\* What new has handed out to be signed.
Produced == UNION {{prep.signature_payload : prep \in new(b)} : b \in made}

PreparedInv ==
    /\ made \subseteq Builders /\ requested \subseteq Produced
    /\ \A prep \in preparedMessage : /\ prep.message \in MessageForm({NoSignature})
                              /\ prep.signature_payload \in Produced
    /\ \A s \in stored : /\ s.kind \in Kinds /\ s.cose \in WireForm({NoSignature})
                         /\ s.signature_payload \in Produced

SignedInv ==
    /\ \A s \in signatures : \E key \in DOMAIN Keys, structure \in requested :
            s = Signature(key, structure)
    /\ message \subseteq MessageForm(signatures)
    /\ wire \subseteq WireForm(signatures)

VerifiedInv ==
    \A v \in verification :
        /\ v.key \in DOMAIN Keys /\ v.msg.payload \in Options(Payloads)
        /\ v.detached \in Options(Payloads)
        /\ v.msg.signature \in signatures \cup {NoSignature}
        /\ v.result = verify(v.msg, v.key, v.detached, v.aad)
        /\ v.claims = claims_set(v.msg)

CoseInv == PreparedInv /\ SignedInv /\ VerifiedInv
=============================================================================
