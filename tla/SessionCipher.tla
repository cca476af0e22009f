--------------------------- MODULE SessionCipher ---------------------------
(***************************************************************************)
(* Session encryption of ISO 18013-5 proximity presentation, as written in *)
(* definitions/session.rs: two ephemeral P-256 keys give a shared secret,  *)
(* HKDF over the session transcript gives one key per direction, and each  *)
(* direction is a sequence of AES-GCM messages whose 12-byte nonce is an   *)
(* identifier of the direction followed by a 32-bit message counter that   *)
(* is never transmitted: both ends count.                                  *)
(*                                                                         *)
(* Keys are free constructors (HKDF and ECDH are taken to be injective)    *)
(* and a ciphertext opens exactly under the key and nonce that sealed it   *)
(* (AES-GCM, external).  MaxCount stands for u32::MAX.                     *)
(***************************************************************************)
EXTENDS Integers, Sequences

CONSTANTS
    EDeviceKeys,   \* ephemeral device keys that the random generator can return
    EReaderKeys,   \* ephemeral reader keys that the random generator can return
    NoKey,         \* a COSE key that is not a point of the curve
    MaxCount       \* u32::MAX, the last value of a message counter

ASSUME KeysAssumption ==
    /\ EDeviceKeys \cap EReaderKeys = {}
    /\ NoKey \notin EDeviceKeys \cup EReaderKeys
ASSUME MaxCountAssumption == MaxCount \in Nat \ {0}

(***************************************************************************)
(* History of the cipher, read by the properties only: per session key the *)
(* ciphertexts that were sealed with it and the ones that were opened with *)
(* it, each in the order in which that happened.                           *)
(***************************************************************************)
VARIABLES sealed, opened
cipherVars == <<sealed, opened>>

-----------------------------------------------------------------------------
(* Key agreement *)

\* SessionTranscript180135(device_engagement, e_reader_key, Handover::QR); the
\* engagement is the one that carries the device key.
SessionTranscript(eDevice, eReader) == <<eDevice, eReader>>

Transcripts == {SessionTranscript(d, r) : d \in EDeviceKeys, r \in EReaderKeys}

\* Diffie-Hellman: both sides compute the same secret from their private half
\* and the other's public half.
get_shared_secret(public, private) == {public, private}

derive_session_key(secret, transcript, reader) ==
    [secret |-> secret, salt |-> transcript,
     info |-> IF reader THEN "SKReader" ELSE "SKDevice"]

\* The keys of the two directions of the session with the given transcript.
sk_reader(transcript) ==
    derive_session_key(get_shared_secret(transcript[1], transcript[2]), transcript, TRUE)
sk_device(transcript) ==
    derive_session_key(get_shared_secret(transcript[1], transcript[2]), transcript, FALSE)

SessionKeys == {sk_reader(t) : t \in Transcripts} \cup {sk_device(t) : t \in Transcripts}

-----------------------------------------------------------------------------
(* Authenticated encryption under a message counter *)

\* Mutant: wrapping_add in place of checked_add.
get_initialization_vector_Wrapping(count, reader) ==
    LET next == (count + 1) % (MaxCount + 1)
    IN  [ok |-> TRUE, count |-> next,
         iv |-> [identifier |-> IF reader THEN 0 ELSE 1, counter |-> next]]

\* The counter is advanced before use and fails closed when it is exhausted.
get_initialization_vector(count, reader) ==
    IF count = MaxCount
    THEN [ok |-> FALSE, count |-> count]
    ELSE [ok |-> TRUE, count |-> count + 1,
          iv |-> [identifier |-> IF reader THEN 0 ELSE 1, counter |-> count + 1]]

\* AES-256-GCM: the ciphertext remembers the key and the nonce that made it.
seal(key, iv, plaintext) == {[key |-> key, iv |-> iv, body |-> plaintext]}

\* It authenticates under that key and nonce only.
open(key, iv, ciphertext) == ciphertext.key = key /\ ciphertext.iv = iv

\* A failing backend restores the counter.
encrypt(key, plaintext, count, reader, backendOk) ==
    LET next == get_initialization_vector(count, reader)
    IN  IF next.ok /\ backendOk
        THEN [ok |-> TRUE, count |-> next.count,
              data |-> seal(key, next.iv, plaintext)]
        ELSE [ok |-> FALSE, count |-> count, data |-> {}]

\* Mutant: the counter is not restored when the ciphertext does not authenticate.
decrypt_NoRollback(key, ciphertext, count, reader) ==
    LET next == get_initialization_vector(count, reader)
    IN  [ok |-> next.ok /\ open(key, next.iv, ciphertext),
         count |-> next.count]

\* Mutant: the nonce is taken from the message.
decrypt_AnyNonce(key, ciphertext, count, reader) ==
    LET next == get_initialization_vector(count, reader)
    IN  IF next.ok /\ ciphertext.key = key
        THEN [ok |-> TRUE, count |-> next.count]
        ELSE [ok |-> FALSE, count |-> count]

\* A ciphertext that does not authenticate under the expected nonce leaves the
\* counter where it was.
decrypt(key, ciphertext, count, reader) ==
    LET next == get_initialization_vector(count, reader)
    IN  IF next.ok /\ open(key, next.iv, ciphertext)
        THEN [ok |-> TRUE, count |-> next.count]
        ELSE [ok |-> FALSE, count |-> count]

\* Bytes that authenticate under no session key.
Garbage == [key |-> derive_session_key({}, SessionTranscript(NoKey, NoKey), TRUE),
            iv |-> [identifier |-> 0, counter |-> 0], body |-> [kind |-> "garbage"]]

RecordSealed(key, data) ==
    sealed' = IF data = {} THEN sealed
              ELSE [sealed EXCEPT ![key] = Append(@, CHOOSE c \in data : TRUE)]

RecordOpened(key, data, ok) ==
    opened' = IF ok THEN [opened EXCEPT ![key] = Append(@, CHOOSE c \in data : TRUE)]
              ELSE opened

CipherInit == /\ sealed = [k \in SessionKeys |-> <<>>]
              /\ opened = [k \in SessionKeys |-> <<>>]

-----------------------------------------------------------------------------
(* Properties of the history *)

\* No nonce is used twice with one session key: AES-GCM loses all its guarantees
\* otherwise.  The counters of encrypt() are the only thing that prevents it.
NonceUnique ==
    \A k \in SessionKeys : \A i, j \in 1..Len(sealed[k]) :
        sealed[k][i].iv = sealed[k][j].iv => i = j

\* The receiver of a direction has opened a prefix of what its sender sealed:
\* nothing is accepted twice, out of order, or after a gap, and a rejected
\* message does not move the counter of decrypt().
OpenedInOrder ==
    \A k \in SessionKeys :
        /\ Len(opened[k]) <= Len(sealed[k])
        /\ \A i \in 1..Len(opened[k]) : opened[k][i] = sealed[k][i]
=============================================================================
