--------------------------- MODULE DeviceSession ---------------------------
(***************************************************************************)
(* The holder's side of a presentation: presentation/device.rs.  The three *)
(* owner types SessionManagerInit, SessionManagerEngaged and SessionManager *)
(* are the phases of one device; a transition consumes the previous owner. *)
(* A device process runs one presentation at a time and may end at any     *)
(* moment; nothing of a session survives it (the types are not             *)
(* serializable), so the next presentation starts with a fresh key.        *)
(*                                                                         *)
(* Document types are numbers in the order of the BTreeMap keys; a data    *)
(* element is a pair <<namespace, identifier>>, and its value is what the  *)
(* identifier stands for.  An Option is a set with at most one member.     *)
(***************************************************************************)
EXTENDS SessionCipher, FiniteSets

CONSTANTS
    DocTypes,      \* document types that a request can name
    Items,         \* data elements that a request can name
    Documents,     \* the documents the holder owns, by type
    Requests,      \* DeviceRequest bodies that a reader may send
    Permissions    \* PermittedItems that the holder may grant

ASSUME DocumentsAssumption ==
    /\ DocTypes \subseteq Nat
    /\ DOMAIN Documents \subseteq DocTypes
    /\ \A t \in DOMAIN Documents :
          /\ Documents[t].items \subseteq Items
          /\ Documents[t].signs \in BOOLEAN       \* the device key can sign
ASSUME PermissionsAssumption ==
    \A p \in Permissions : /\ DOMAIN p \subseteq DocTypes
                           /\ \A t \in DOMAIN p : p[t] \subseteq Items

\* What parse_request accepts has at least one document request.
WellFormedRequest(q) ==
    q.kind \notin {"undecodable", "invalid"} =>
        /\ Len(q.doc_requests) \in Nat \ {0}
        /\ DOMAIN q.doc_requests = 1..Len(q.doc_requests)
        /\ \A i \in DOMAIN q.doc_requests : /\ q.doc_requests[i].doc_type \in DocTypes
                                          /\ q.doc_requests[i].items \subseteq Items
ASSUME RequestsAssumption == \A q \in Requests : WellFormedRequest(q)

VARIABLES
    dPhase,        \* which owner exists: "none", "init", "engaged", "established"
    dUsedKeys,     \* ephemeral keys generated so far
    dKey,          \* e_device_key; the engagement that carries it
    dReader,       \* e_reader_key of the session transcript
    dDeviceCount,  \* device_message_counter
    dReaderCount,  \* reader_message_counter
    dState,        \* state: AwaitingRequest, Signing(p) or ReadyToRespond(bytes)
    dOutcome,      \* the RequestAuthenticationOutcome the application got last
    dPayload,      \* signature payload the application is signing (Option)
    dConsent       \* history: arguments of the last prepare_response
deviceVars == <<dPhase, dUsedKeys, dKey, dReader, dDeviceCount, dReaderCount,
                dState, dOutcome, dPayload, dConsent>>

-----------------------------------------------------------------------------
(* Data *)

ItemsRequest == [doc_type : DocTypes, items : SUBSET Items]
Payload == [transcript : Transcripts, doc_type : DocTypes]
PreparedDocument == [doc_type : DocTypes, items : SUBSET Items, errors : SUBSET Items]
SignedDocument == [doc_type : DocTypes, items : SUBSET Items, errors : SUBSET Items,
                   signature : SUBSET Payload]
ResponseStatus == {"OK", "CborDecodingError", "CborValidationError"}
PreparedDeviceResponse ==
    [status : ResponseStatus, prepared : SUBSET PreparedDocument,
     signed : SUBSET SignedDocument, document_errors : SUBSET DocTypes]
AuthenticationStatus == {"Unchecked", "Invalid", "Valid"}

Undecodable == [kind |-> "undecodable", data |-> {}, status |-> {}]
SessionData(data, status) == [kind |-> "data", data |-> data, status |-> status]
SessionEstablishment(key, data) ==
    [kind |-> "establishment", e_reader_key |-> key, data |-> data]

AwaitingRequest == [tag |-> "AwaitingRequest"]
Signing(p) == [tag |-> "Signing", p |-> p]
ReadyToRespond(msg) == [tag |-> "ReadyToRespond", msg |-> msg]

NoOutcome == [items_request |-> <<>>, reader_authentication |-> "Unchecked",
              errors |-> {}]
Rejected(error) == [NoOutcome EXCEPT !.errors = {error}]

dTranscript == SessionTranscript(dKey, dReader)

\* PreparedDeviceResponse::empty
EmptyResponse(status) == [status |-> status, prepared |-> {}, signed |-> {},
                          document_errors |-> {}]

-----------------------------------------------------------------------------
(* Requests *)

\* The errors of reader_authentication for one document request.  A chain that
\* is missing or cannot be decoded, and a key that is not P-256, stop the check
\* early; a chain that does not validate does not.
reader_authentication(doc, transcript) ==
    LET auth == CHOOSE a \in doc.reader_auth : TRUE
    IN  IF doc.reader_auth = {} THEN {"no reader auth"}
        ELSE IF auth.chain \in {"missing", "undecodable"} THEN {"no chain"}
        ELSE (IF auth.chain = "untrusted" THEN {"certificate"} ELSE {})
             \cup (IF ~auth.p256 THEN {"key"}
                   ELSE IF auth.over # <<transcript, doc.doc_type, doc.items>>
                        THEN {"signature"} ELSE {})

\* Every requested document is reported; the reader is authenticated by the
\* first document request alone.
validate_request(request, transcript) ==
    [items_request |->
        [i \in DOMAIN request.doc_requests |->
            [doc_type |-> request.doc_requests[i].doc_type,
             items |-> request.doc_requests[i].items]],
     reader_authentication |->
        IF reader_authentication(request.doc_requests[1], transcript) = {}
        THEN "Valid" ELSE "Invalid",
     errors |-> IF request.version_ok THEN {} ELSE {"parsing"}]

\* The status with which parse_request rejects a decrypted body, if it does: not
\* CBOR, or CBOR that is not a DeviceRequest.
parse_request(body) ==
    CASE body.kind = "undecodable" -> {"CborDecodingError"}
      [] body.kind = "invalid" -> {"CborValidationError"}
      [] OTHER -> {}

\* What handle_decoded_request does to the reader counter and to the state, and
\* the outcome it returns.  A request that decrypts but does not parse replaces
\* the state, whatever it was.
handle_decoded_request(transcript, count, state, data) ==
    LET ciphertext == CHOOSE c \in data : TRUE
        decrypted == decrypt(sk_reader(transcript), ciphertext, count, TRUE)
        request == ciphertext.body
        result(s, o) == [ok |-> decrypted.ok, count |-> decrypted.count,
                         state |-> s, outcome |-> o]
    IN  CASE data = {} ->
                [ok |-> FALSE, count |-> count, state |-> state,
                 outcome |-> Rejected("parsing")]
          [] data # {} /\ ~decrypted.ok -> result(state, Rejected("decryption"))
          [] data # {} /\ decrypted.ok /\ parse_request(request) # {} ->
                result(Signing(EmptyResponse(CHOOSE s \in parse_request(request) : TRUE)),
                       NoOutcome)
          [] OTHER -> result(state, validate_request(request, transcript))

-----------------------------------------------------------------------------
(* Responses *)

\* The first request for a document type is the one that counts.
FirstFor(requests, t) ==
    CHOOSE i \in DOMAIN requests :
        /\ requests[i].doc_type = t
        /\ \A j \in DOMAIN requests : requests[j].doc_type = t => i <= j

\* Mutant: a permitted document type is returned with all permitted elements.
filter_permitted_ByType(requests, permitted) ==
    [t \in {u \in DOMAIN permitted :
                \E i \in DOMAIN requests : requests[i].doc_type = u} |-> permitted[t]]

\* Mutant: a permitted document type is returned with all requested elements.
filter_permitted_Requested(requests, permitted) ==
    [t \in {u \in DOMAIN permitted :
                \E i \in DOMAIN requests : requests[i].doc_type = u} |->
        requests[FirstFor(requests, t)].items]

filter_permitted(requests, permitted) ==
    [t \in {u \in DOMAIN permitted :
                \E i \in DOMAIN requests : requests[i].doc_type = u} |->
        permitted[t] \cap requests[FirstFor(requests, t)].items]

Signable == {t \in DOMAIN Documents : Documents[t].signs}

\* Mutant: a document whose key cannot sign is skipped without an error.
PreparedResponse_SkipsUnsignable(requests, permitted) ==
    LET asked == filter_permitted(requests, permitted)
    IN  [status |-> "OK",
         prepared |-> {[doc_type |-> t,
                        items |-> asked[t] \cap Documents[t].items,
                        errors |-> asked[t] \ Documents[t].items] :
                            t \in DOMAIN asked \cap Signable},
         signed |-> {},
         document_errors |-> DOMAIN asked \ DOMAIN Documents]

\* DeviceSession::prepare_response: one document to sign per permitted type that
\* the holder owns with a signing key, an error for every other permitted type.
PreparedResponse(requests, permitted) ==
    LET asked == filter_permitted(requests, permitted)
    IN  [status |-> "OK",
         prepared |-> {[doc_type |-> t,
                        items |-> asked[t] \cap Documents[t].items,
                        errors |-> asked[t] \ Documents[t].items] :
                            t \in DOMAIN asked \cap Signable},
         signed |-> {},
         document_errors |-> DOMAIN asked \ Signable]

\* PreparedDocument::finalize attaches the signature that was submitted.
finalize(doc, signature) ==
    [doc_type |-> doc.doc_type, items |-> doc.items, errors |-> doc.errors,
     signature |-> signature]

finalize_response(p) ==
    [kind |-> "response", status |-> p.status, documents |-> p.signed,
     document_errors |-> p.document_errors]

\* The prepared documents are a stack in document type order.
IsLast(doc, prepared) ==
    doc \in prepared /\ \A other \in prepared : other.doc_type <= doc.doc_type

PayloadOf(doc, transcript) == [transcript |-> transcript, doc_type |-> doc.doc_type]

\* Mutant: the first prepared document is offered, while the last is popped.
NextPayload_First ==
    IF dState.tag # "Signing" THEN {}
    ELSE {PayloadOf(doc, dTranscript) :
            doc \in {x \in dState.p.prepared :
                        \A y \in dState.p.prepared : x.doc_type <= y.doc_type}}

\* get_next_signature_payload
NextPayload ==
    IF dState.tag # "Signing" THEN {}
    ELSE {PayloadOf(doc, dTranscript) :
            doc \in {x \in dState.p.prepared : IsLast(x, dState.p.prepared)}}

-----------------------------------------------------------------------------
(* Operations *)

DeviceInit ==
    /\ dPhase = "none" /\ dUsedKeys = {} /\ dKey = NoKey /\ dReader = NoKey
    /\ dDeviceCount = 0 /\ dReaderCount = 0
    /\ dState = AwaitingRequest /\ dOutcome = NoOutcome
    /\ dPayload = {} /\ dConsent = [requests |-> <<>>, permitted |-> <<>>]

\* No owner is left: what a session kept is gone, the generated keys stay used.
Gone ==
    /\ dPhase' = "none" /\ dKey' = NoKey /\ dReader' = NoKey
    /\ dDeviceCount' = 0 /\ dReaderCount' = 0
    /\ dState' = AwaitingRequest /\ dOutcome' = NoOutcome
    /\ dPayload' = {} /\ dConsent' = [requests |-> <<>>, permitted |-> <<>>]
    /\ UNCHANGED dUsedKeys

\* Mutant: an ephemeral key that was used before.
Initialise_StaticKey(key) ==
    /\ dPhase = "none"
    /\ dPhase' = "init" /\ dKey' = key /\ dUsedKeys' = dUsedKeys \cup {key}
    /\ UNCHANGED <<dReader, dDeviceCount, dReaderCount, dState, dOutcome,
                   dPayload, dConsent, sealed, opened>>

\* SessionManagerInit::initialise generates an ephemeral key.
Initialise(key) ==
    /\ dPhase = "none"
    /\ key \notin dUsedKeys
    /\ dPhase' = "init" /\ dKey' = key /\ dUsedKeys' = dUsedKeys \cup {key}
    /\ UNCHANGED <<dReader, dDeviceCount, dReaderCount, dState, dOutcome,
                   dPayload, dConsent, sealed, opened>>

\* SessionManagerInit::qr_engagement
QrEngagement ==
    /\ dPhase = "init"
    /\ dPhase' = "engaged"
    /\ UNCHANGED <<dUsedKeys, dKey, dReader, dDeviceCount, dReaderCount, dState,
                   dOutcome, dPayload, dConsent, sealed, opened>>

\* Mutant: the engagement can be used again, for a second reader, once the first one
\* was answered.
ProcessSessionEstablishment_Reusable(m) ==
    /\ dPhase = "engaged" \/ (dPhase = "established" /\ dDeviceCount > 0)
    /\ m.e_reader_key # NoKey
    /\ LET transcript == SessionTranscript(dKey, m.e_reader_key)
           handled == handle_decoded_request(transcript, 0, AwaitingRequest, m.data)
       IN  /\ dPhase' = "established"
           /\ dReader' = m.e_reader_key
           /\ dDeviceCount' = 0
           /\ dReaderCount' = handled.count
           /\ dState' = handled.state
           /\ dOutcome' = handled.outcome
           /\ RecordOpened(sk_reader(transcript), m.data, handled.ok)
    /\ UNCHANGED <<dUsedKeys, dKey, dPayload, dConsent, sealed>>

\* SessionManagerEngaged::process_session_establishment.  A reader key that is
\* not on the curve is an error that still consumes the engagement; a first
\* request that does not decrypt is not an error of the establishment.
ProcessSessionEstablishment(m) ==
    /\ dPhase = "engaged"
    /\ \/ /\ m.e_reader_key = NoKey
          /\ Gone
          /\ UNCHANGED cipherVars
       \/ /\ m.e_reader_key # NoKey
          /\ LET transcript == SessionTranscript(dKey, m.e_reader_key)
                 handled == handle_decoded_request(transcript, 0, AwaitingRequest, m.data)
             IN  /\ dPhase' = "established"
                 /\ dReader' = m.e_reader_key
                 /\ dDeviceCount' = 0
                 /\ dReaderCount' = handled.count
                 /\ dState' = handled.state
                 /\ dOutcome' = handled.outcome
                 /\ RecordOpened(sk_reader(transcript), m.data, handled.ok)
          /\ UNCHANGED <<dUsedKeys, dKey, dPayload, dConsent, sealed>>

\* SessionManager::handle_request, in any state of the session.
HandleRequest(m) ==
    /\ dPhase = "established"
    /\ IF m.kind = "undecodable"
       THEN dOutcome' = Rejected("parsing") /\ UNCHANGED <<dReaderCount, dState, opened>>
       ELSE LET handled == handle_decoded_request(dTranscript, dReaderCount, dState, m.data)
            IN  /\ dReaderCount' = handled.count
                /\ dState' = handled.state
                /\ dOutcome' = handled.outcome
                /\ RecordOpened(sk_reader(dTranscript), m.data, handled.ok)
    /\ UNCHANGED <<dPhase, dUsedKeys, dKey, dReader, dDeviceCount, dPayload, dConsent,
                   sealed>>

\* SessionManager::prepare_response, called with the items of the last outcome.
\* The code accepts it in any state; the application does not prepare a response
\* while it is signing a payload.
PrepareResponse(permitted) ==
    /\ dPhase = "established"
    /\ dOutcome.items_request # <<>>
    /\ dPayload = {}
    /\ dState' = Signing(PreparedResponse(dOutcome.items_request, permitted))
    /\ dConsent' = [requests |-> dOutcome.items_request, permitted |-> permitted]
    /\ UNCHANGED <<dPhase, dUsedKeys, dKey, dReader, dDeviceCount, dReaderCount,
                   dOutcome, dPayload, sealed, opened>>

\* The application takes the next payload and signs it outside the library.
GetNextSignaturePayload ==
    /\ dPhase = "established"
    /\ dPayload = {} /\ NextPayload # {}
    /\ dPayload' = NextPayload
    /\ UNCHANGED <<dPhase, dUsedKeys, dKey, dReader, dDeviceCount, dReaderCount,
                   dState, dOutcome, dConsent, sealed, opened>>

\* Mutant: the state that was taken out is not replaced by the ready response.
FinishSigning_NotStored(p, backendOk) ==
    LET key == sk_device(dTranscript)
        encrypted == encrypt(key, finalize_response(p), dDeviceCount, FALSE, backendOk)
    IN  /\ dDeviceCount' = encrypted.count
        /\ dState' = AwaitingRequest
        /\ RecordSealed(key, encrypted.data)

\* The response is complete: finalise, encrypt, become ready.  A cipher failure
\* becomes a status without data.
FinishSigning(p, backendOk) ==
    LET key == sk_device(dTranscript)
        encrypted == encrypt(key, finalize_response(p), dDeviceCount, FALSE, backendOk)
        status == IF encrypted.ok THEN {} ELSE {"SessionEncryptionError"}
    IN  /\ dDeviceCount' = encrypted.count
        /\ dState' = ReadyToRespond(SessionData(encrypted.data, status))
        /\ RecordSealed(key, encrypted.data)

\* SessionManager::submit_next_signature with the signature of the payload in
\* hand, or with arbitrary bytes when there is no payload to sign.
SubmitNextSignature(backendOk) ==
    /\ dPhase = "established"
    /\ dPayload # {} \/ NextPayload = {}
    /\ IF dState.tag # "Signing" THEN UNCHANGED <<dState, dDeviceCount, sealed>>
       ELSE \/ /\ dState.p.prepared = {}
               /\ FinishSigning(dState.p, backendOk)
            \/ \E doc \in dState.p.prepared :
                  LET p == [dState.p EXCEPT !.prepared = @ \ {doc},
                                            !.signed = @ \cup {finalize(doc, dPayload)}]
                  IN  /\ IsLast(doc, dState.p.prepared)
                      /\ IF p.prepared = {} THEN FinishSigning(p, backendOk)
                         ELSE dState' = Signing(p) /\ UNCHANGED <<dDeviceCount, sealed>>
    /\ dPayload' = {}
    /\ UNCHANGED <<dPhase, dUsedKeys, dKey, dReader, dReaderCount, dOutcome, dConsent,
                   opened>>

\* SessionManager::retrieve_response
RetrieveResponse ==
    /\ dPhase = "established"
    /\ dState.tag = "ReadyToRespond"
    /\ dState' = AwaitingRequest
    /\ UNCHANGED <<dPhase, dUsedKeys, dKey, dReader, dDeviceCount, dReaderCount,
                   dOutcome, dPayload, dConsent, sealed, opened>>

\* The owner is dropped, or the process ends.
Drop ==
    /\ dPhase # "none"
    /\ Gone
    /\ UNCHANGED cipherVars

-----------------------------------------------------------------------------
(***************************************************************************)
(* The device facing any reader: one that knows the session keys can seal  *)
(* any body under any counter, and the transport can deliver anything.     *)
(***************************************************************************)
PeerCiphertexts(transcript) ==
    {Garbage} \cup
    {[key |-> sk_reader(transcript),
      iv |-> [identifier |-> 0, counter |-> n], body |-> b] :
        n \in 1..MaxCount, b \in Requests}

PeerEstablishments ==
    {SessionEstablishment(NoKey, {Garbage})} \cup
    UNION {{SessionEstablishment(r, {c}) :
                c \in PeerCiphertexts(SessionTranscript(dKey, r))} : r \in EReaderKeys}

PeerMessages ==
    {Undecodable, SessionData({}, {"SessionTermination"})} \cup
    {SessionData({c}, {}) : c \in PeerCiphertexts(dTranscript)}

DeviceOpenInit == CipherInit /\ DeviceInit

Sign == GetNextSignaturePayload \/ \E ok \in BOOLEAN : SubmitNextSignature(ok)

Receive == \/ \E m \in PeerEstablishments : ProcessSessionEstablishment(m)
           \/ \E m \in PeerMessages : HandleRequest(m)

LifeCycle == (\E key \in EDeviceKeys : Initialise(key)) \/ QrEngagement \/ Drop

DeviceNext ==
    \/ LifeCycle
    \/ Receive
    \/ \E permitted \in Permissions : PrepareResponse(permitted)
    \/ Sign
    \/ RetrieveResponse

\* An application takes the next payload, signs and submits it, and submits once more
\* when a response has nothing to sign.
SigningFairness ==
    /\ WF_<<deviceVars, cipherVars>>(GetNextSignaturePayload)
    /\ WF_<<deviceVars, cipherVars>>(\E ok \in BOOLEAN : SubmitNextSignature(ok))

\* Any application: calls in every order that the types allow.
DeviceSpec == /\ DeviceOpenInit
              /\ [][DeviceNext]_<<deviceVars, cipherVars>>
              /\ SigningFairness

\* The README's application prepares a response only while it awaits a request.
FlowNext ==
    \/ LifeCycle
    \/ Receive
    \/ /\ dState = AwaitingRequest
       /\ \E permitted \in Permissions : PrepareResponse(permitted)
    \/ Sign
    \/ RetrieveResponse

FlowSpec == /\ DeviceOpenInit
            /\ [][FlowNext]_<<deviceVars, cipherVars>>
            /\ SigningFairness

\* The documented loop: `while let Some(payload) = get_next_signature_payload()`
\* signs and submits; it submits nothing when there is no payload.
LoopSubmit == dPayload # {} /\ \E ok \in BOOLEAN : SubmitNextSignature(ok)

LoopNext ==
    \/ LifeCycle
    \/ Receive
    \/ /\ dState = AwaitingRequest
       /\ \E permitted \in Permissions : PrepareResponse(permitted)
    \/ GetNextSignaturePayload
    \/ LoopSubmit
    \/ RetrieveResponse

LoopSpec == /\ DeviceOpenInit
            /\ [][LoopNext]_<<deviceVars, cipherVars>>
            /\ WF_<<deviceVars, cipherVars>>(GetNextSignaturePayload)
            /\ WF_<<deviceVars, cipherVars>>(LoopSubmit)

-----------------------------------------------------------------------------
(* Properties *)

\* Every variable of the device stays within its type; in particular a counter
\* never passes MaxCount.
DeviceTypeOK ==
    /\ dPhase \in {"none", "init", "engaged", "established"}
    /\ dUsedKeys \subseteq EDeviceKeys
    /\ dKey \in EDeviceKeys \cup {NoKey}
    /\ dReader \in EReaderKeys \cup {NoKey}
    /\ dDeviceCount \in 0..MaxCount
    /\ dReaderCount \in 0..MaxCount
    /\ dState.tag \in {"AwaitingRequest", "Signing", "ReadyToRespond"}
    /\ dState.tag = "Signing" => dState.p \in PreparedDeviceResponse
    /\ dPayload \subseteq Payload
    /\ dOutcome.items_request \in Seq(ItemsRequest)

\* The documents in hand: being signed, or in the response that is ready.
Documented ==
    CASE dState.tag = "Signing" -> dState.p.prepared \cup dState.p.signed
      [] dState.tag = "ReadyToRespond" -> UNION {c.body.documents : c \in dState.msg.data}
      [] OTHER -> {}

SignedDocuments ==
    CASE dState.tag = "Signing" -> dState.p.signed
      [] dState.tag = "ReadyToRespond" -> UNION {c.body.documents : c \in dState.msg.data}
      [] OTHER -> {}

\* A document that is being signed, or waits in the response, discloses only
\* elements that the holder permitted, that the request which was shown to the
\* holder named for that document type, and that the document has: whatever
\* arrived since, prepare_response and the signing loop never mix two consents.
ConsentRespected ==
    \A doc \in Documented :
        /\ doc.doc_type \in DOMAIN dConsent.permitted \cap DOMAIN Documents
        /\ doc.items \subseteq dConsent.permitted[doc.doc_type]
        /\ doc.items \subseteq Documents[doc.doc_type].items
        /\ \E i \in DOMAIN dConsent.requests :
              /\ dConsent.requests[i].doc_type = doc.doc_type
              /\ doc.items \subseteq dConsent.requests[i].items

\* A signature that submit_next_signature attaches to a document is the one over
\* that document's own payload in this session, although the application only
\* hands over bytes: the document that is popped is the one whose payload
\* get_next_signature_payload returned, also when requests arrive in between.
SignatureMatchesDocument ==
    \A doc \in SignedDocuments : doc.signature = {PayloadOf(doc, dTranscript)}

\* The outcome is "of the holder device authenticating the device request": when
\* it says Valid, every document request that is shown with it was signed by a
\* trusted reader for this session.
ValidCoversRequest ==
    LET received == opened[sk_reader(dTranscript)]
        request == received[Len(received)].body
    IN  dOutcome.reader_authentication = "Valid" =>
            \A i \in DOMAIN request.doc_requests :
                reader_authentication(request.doc_requests[i], dTranscript) = {}

\* The document requests that name a type, and what they name together.
Naming(t) == {i \in DOMAIN dConsent.requests : dConsent.requests[i].doc_type = t}
NamedFor(t) == UNION {dConsent.requests[i].items : i \in Naming(t)}

\* The documents and the errors of a response that is ready and was not refused.
ReadyResponses ==
    IF dState.tag = "ReadyToRespond"
    THEN {r \in {c.body : c \in dState.msg.data} : r.status = "OK"} ELSE {}

\* A complete response answers each type that the holder permitted and some request
\* named, as one document or as a document error and never as both.  A document
\* answers one of the requests for its type in full: all that it named and the holder
\* permitted, each element as data when the holder has it and as an error when not,
\* and nothing else.  So everything is answered for a type that is named once.
EverythingAnswered ==
    \A response \in ReadyResponses :
        /\ {doc.doc_type : doc \in response.documents} \cup response.document_errors
                = {t \in DOMAIN dConsent.permitted : Naming(t) # {}}
        /\ \A doc \in response.documents :
              /\ doc.doc_type \notin response.document_errors
              /\ doc.items \subseteq Documents[doc.doc_type].items
              /\ doc.errors \cap Documents[doc.doc_type].items = {}
              /\ \E i \in Naming(doc.doc_type) :
                    doc.items \cup doc.errors
                        = dConsent.permitted[doc.doc_type] \cap dConsent.requests[i].items
        /\ \A doc, other \in response.documents :
              doc.doc_type = other.doc_type => doc = other

\* prepare_response "prepares the response specifying the permitted items": whichever
\* requests name a type, an element that one of them names and the holder permits is
\* in the document, as data or as an error.
PermittedIsSpecified ==
    \A response \in ReadyResponses : \A doc \in response.documents :
        dConsent.permitted[doc.doc_type] \cap NamedFor(doc.doc_type)
            \subseteq doc.items \cup doc.errors

\* The application stops preparing responses while one is being signed.
PreparesWhenAwaiting ==
    <>[][(\E permitted \in Permissions : PrepareResponse(permitted)) => dState = AwaitingRequest]_<<deviceVars, cipherVars>>

\* Signing ends: the response becomes ready, unless the session is dropped or the
\* application starts over for ever, whatever the reader sends in the meantime.
SigningCompletes ==
    PreparesWhenAwaiting =>
        (dState.tag = "Signing" ~> (dState.tag = "ReadyToRespond" \/ dPhase = "none"))

\* README.md's state diagram has one transition out of ReadyToRespond:
\* retrieve_response, back to AwaitingRequest.
OnlyRetrievalLeavesReady ==
    [][dState.tag = "ReadyToRespond" /\ dPhase' = "established" =>
            dState' \in {dState, AwaitingRequest}]_<<deviceVars, cipherVars>>

-----------------------------------------------------------------------------
(***************************************************************************)
(* The inductive invariant of the device: a response is tied to the consent *)
(* it was prepared for while it is signed and until it is retrieved.       *)
(***************************************************************************)
PhaseOK ==
    /\ dPhase # "none" => dKey \in dUsedKeys
    /\ dPhase = "established" <=> dReader # NoKey
    /\ dPhase # "established" => dState = AwaitingRequest

\* What the holder was asked for and permitted.
Asked == filter_permitted(dConsent.requests, dConsent.permitted)

\* The document has exactly the asked elements that the holder owns, and an error
\* for every other one.
Answers(doc) ==
    /\ doc.doc_type \in DOMAIN Asked \cap Signable
    /\ doc.items = Asked[doc.doc_type] \cap Documents[doc.doc_type].items
    /\ doc.errors = Asked[doc.doc_type] \ Documents[doc.doc_type].items

\* A response without errors of its own has a document or an error for each type that
\* was asked for; an error response has no documents.
AnswersAll(status, docs, document_errors) ==
    IF status = "OK"
    THEN /\ \A doc \in docs : Answers(doc)
         /\ \A t \in DOMAIN Asked \cap Signable : \E doc \in docs : doc.doc_type = t
         /\ document_errors = DOMAIN Asked \ Signable
    ELSE docs = {}

SignedHere(doc) == doc \in SignedDocument /\ doc.signature = {PayloadOf(doc, dTranscript)}

\* The payload that the application signs is the one of the document on top.
PayloadInHand == dPayload = {} \/ dState.p.prepared = {} \/ dPayload = NextPayload

SigningInv ==
    dState.tag = "Signing" =>
        /\ AnswersAll(dState.p.status, dState.p.prepared \cup dState.p.signed,
                      dState.p.document_errors)
        /\ \A doc \in dState.p.signed : SignedHere(doc)
        /\ PayloadInHand

ReadyInv ==
    dState.tag = "ReadyToRespond" =>
        \A c \in dState.msg.data :
            /\ AnswersAll(c.body.status, c.body.documents, c.body.document_errors)
            /\ \A doc \in c.body.documents : SignedHere(doc)

ConsentInv == dConsent.requests \in Seq(ItemsRequest) /\ SigningInv /\ ReadyInv
DeviceInv == DeviceTypeOK /\ PhaseOK /\ ConsentInv
=============================================================================
