--------------------------- MODULE ReaderSession ---------------------------
(***************************************************************************)
(* The verifier's side of a presentation: presentation/reader.rs with      *)
(* reader_utils.rs and authentication/mdoc.rs.  establish_session          *)
(* generates an ephemeral key, so a reader session is identified by it; a  *)
(* session that is dropped is one that takes no further step.              *)
(***************************************************************************)
EXTENDS DeviceSession

CONSTANTS
    Mdl,           \* the document type org.iso.18013.5.1.mDL
    IsoItems,      \* elements of the namespace org.iso.18013.5.1
    AamvaItems,    \* elements of the namespace org.iso.18013.5.1.aamva
    JsonItems,     \* elements whose value parse_response can convert
    Issuer,        \* the issuer authentication of the mDL: what its certificate
                   \* chain, its signature and its device key are worth
    Wanted         \* sets of elements that the reader application asks for

ASSUME ReaderAssumption ==
    /\ Mdl \in DocTypes
    /\ IsoItems \subseteq Items /\ AamvaItems \subseteq Items /\ JsonItems \subseteq Items
    /\ Issuer.chain \in {"missing", "undecodable", "untrusted", "trusted"}
    /\ Issuer.signature \in BOOLEAN /\ Issuer.p256DeviceKey \in BOOLEAN
    /\ \A w \in Wanted : w \subseteq Items

VARIABLES
    rDevice,       \* device key of the session transcript; NoKey: no session yet
    rReaderCount,  \* reader_message_counter
    rDeviceCount,  \* device_message_counter
    rOutcome       \* the ResponseAuthenticationOutcome the application got last
readerVars == <<rDevice, rReaderCount, rDeviceCount, rOutcome>>

NoResponse == [response |-> {}, issuer_authentication |-> "Unchecked",
               device_authentication |-> "Unchecked", errors |-> {}]
RejectedResponse(error) == [NoResponse EXCEPT !.errors = {error}]

rTranscript(r) == SessionTranscript(rDevice[r], r)

-----------------------------------------------------------------------------
(* Requests *)

\* The body that build_request encrypts: one mDL request without reader
\* authentication.
DeviceRequest(items) ==
    [kind |-> "ok", version_ok |-> TRUE,
     doc_requests |-> <<[doc_type |-> Mdl, items |-> items, reader_auth |-> {}]>>]

-----------------------------------------------------------------------------
(* Responses *)

\* device_authentication: the signature is over this session's transcript and
\* the type of the document, under the P-256 device key of the issuer's MSO.
device_authentication(doc, transcript) ==
    Issuer.p256DeviceKey /\ doc.signature = {PayloadOf(doc, transcript)}

\* issuer_authentication: the signature of the MSO under the P-256 key of the
\* chain's end entity.  The digests of the elements are not compared here.
issuer_authentication == Issuer.signature

\* parse and parse_namespaces need an mDL with a certificate chain and with data
\* in the ISO namespace.
Parses(response) ==
    \E doc \in response.documents :
        /\ doc.doc_type = Mdl
        /\ Issuer.chain \notin {"missing", "undecodable"}
        /\ doc.items \cap IsoItems # {}

\* validate_response
validate_response(doc, transcript) ==
    LET device == device_authentication(doc, transcript)
        issuer == Issuer.chain = "trusted" /\ issuer_authentication
        status(valid) == IF valid THEN "Valid" ELSE "Invalid"
    IN  [response |-> doc.items \cap (IsoItems \cup AamvaItems) \cap JsonItems,
         device_authentication |-> status(device),
         issuer_authentication |-> status(issuer),
         errors |->
            (IF device THEN {} ELSE {"device_authentication"}) \cup
            (IF issuer THEN {}
             ELSE IF Issuer.chain = "trusted" THEN {"issuer_authentication"}
                  ELSE {"certificate"})]

\* The outcome of handle_response for a response that was decrypted.
ResponseOutcome(response, transcript) ==
    IF Parses(response)
    THEN validate_response(CHOOSE doc \in response.documents : doc.doc_type = Mdl,
                           transcript)
    ELSE RejectedResponse("parsing")

-----------------------------------------------------------------------------
(* Operations *)

ReaderInit ==
    /\ rDevice = [r \in EReaderKeys |-> NoKey]
    /\ rReaderCount = [r \in EReaderKeys |-> 0]
    /\ rDeviceCount = [r \in EReaderKeys |-> 0]
    /\ rOutcome = [r \in EReaderKeys |-> NoResponse]

\* establish_session with the engagement of device key d: r is the fresh
\* ephemeral key, and the first request travels with it.  The message that it
\* returns is in EstablishmentFor.
EstablishSession(r, d, items) ==
    LET key == sk_reader(SessionTranscript(d, r))
        encrypted == encrypt(key, DeviceRequest(items), 0, TRUE, TRUE)
    IN  /\ rDevice[r] = NoKey
        /\ encrypted.ok
        /\ rDevice' = [rDevice EXCEPT ![r] = d]
        /\ rReaderCount' = [rReaderCount EXCEPT ![r] = encrypted.count]
        /\ RecordSealed(key, encrypted.data)
        /\ UNCHANGED <<rDeviceCount, rOutcome, opened>>

EstablishmentFor(r, d, items) ==
    SessionEstablishment(r, encrypt(sk_reader(SessionTranscript(d, r)),
                                    DeviceRequest(items), 0, TRUE, TRUE).data)

\* new_request; when the counter is exhausted it is an error that changes nothing.
NewRequest(r, items) ==
    LET key == sk_reader(rTranscript(r))
        encrypted == encrypt(key, DeviceRequest(items), rReaderCount[r], TRUE, TRUE)
    IN  /\ rDevice[r] # NoKey
        /\ encrypted.ok
        /\ rReaderCount' = [rReaderCount EXCEPT ![r] = encrypted.count]
        /\ RecordSealed(key, encrypted.data)
        /\ UNCHANGED <<rDevice, rDeviceCount, rOutcome, opened>>

RequestFor(r, items) ==
    SessionData(encrypt(sk_reader(rTranscript(r)), DeviceRequest(items),
                        rReaderCount[r], TRUE, TRUE).data, {})

\* handle_response with decrypt_response.  The counter moves with the decryption,
\* whatever parsing makes of the plaintext.
HandleResponse(r, m) ==
    LET key == sk_device(rTranscript(r))
        ciphertext == CHOOSE c \in m.data : TRUE
        decrypted == decrypt(key, ciphertext, rDeviceCount[r], FALSE)
    IN  /\ rDevice[r] # NoKey
        /\ IF m.data = {} \/ ~decrypted.ok
           THEN /\ rOutcome' = [rOutcome EXCEPT ![r] = RejectedResponse("decryption")]
                /\ UNCHANGED <<rDeviceCount, opened>>
           ELSE /\ rDeviceCount' = [rDeviceCount EXCEPT ![r] = decrypted.count]
                /\ rOutcome' = [rOutcome EXCEPT
                        ![r] = ResponseOutcome(ciphertext.body, rTranscript(r))]
                /\ RecordOpened(key, m.data, TRUE)
        /\ UNCHANGED <<rDevice, rReaderCount, sealed>>
=============================================================================
