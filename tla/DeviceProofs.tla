---------------------------- MODULE DeviceProofs ----------------------------
(***************************************************************************)
(* Proofs about DeviceSession for every peer, every set of documents,      *)
(* requests and permissions, and every order of calls.  The lemmas about    *)
(* the operations need only the types and phases, so that they also apply  *)
(* to the device inside Presentation.                                      *)
(***************************************************************************)
EXTENDS DeviceSession, SequenceTheorems, WellFoundedInduction, TLAPS

-----------------------------------------------------------------------------
(* Numbers and requests *)

\* A set of numbers that is not empty has a least one.
LEMMA LeastNumber ==
    ASSUME NEW S, S \subseteq Nat, S # {}
    PROVE  \E x \in S : \A y \in S : x <= y
<1>1. IsWellFoundedOn(OpToRel(<, Nat), Nat)
  BY NatLessThanWellFounded
<1>2. \E x \in S : \A y \in S : ~ (<<y, x>> \in OpToRel(<, Nat))
  BY <1>1, WFMin
<1>3. ASSUME NEW x \in S, NEW y \in S, ~ (<<y, x>> \in OpToRel(<, Nat))
      PROVE  x <= y
  BY <1>3 DEF OpToRel
<1> QED
  BY <1>2, <1>3

\* The request that counts for a document type is one for that type.
LEMMA FirstForFinds ==
    ASSUME NEW requests, DOMAIN requests \subseteq Nat, NEW t,
           \E i \in DOMAIN requests : requests[i].doc_type = t
    PROVE  /\ FirstFor(requests, t) \in DOMAIN requests
           /\ requests[FirstFor(requests, t)].doc_type = t
<1>1. PICK S : S = {i \in DOMAIN requests : requests[i].doc_type = t}
  OBVIOUS
<1>2. \E x \in S : \A y \in S : x <= y
  BY <1>1, LeastNumber
<1>3. \E i \in DOMAIN requests :
        /\ requests[i].doc_type = t
        /\ \A j \in DOMAIN requests : requests[j].doc_type = t => i <= j
  BY <1>1, <1>2
<1> QED
  BY <1>3 DEF FirstFor

\* What is asked for a type is what is permitted of one of the requests for it.
LEMMA AskedFromOne ==
    ASSUME NEW requests, DOMAIN requests \subseteq Nat, NEW permitted,
           NEW t \in DOMAIN filter_permitted(requests, permitted)
    PROVE  /\ t \in DOMAIN permitted
           /\ \E i \in DOMAIN requests :
                 /\ requests[i].doc_type = t
                 /\ filter_permitted(requests, permitted)[t] = permitted[t] \cap requests[i].items
<1>1. /\ t \in DOMAIN permitted
      /\ \E i \in DOMAIN requests : requests[i].doc_type = t
      /\ filter_permitted(requests, permitted)[t]
            = permitted[t] \cap requests[FirstFor(requests, t)].items
  BY DEF filter_permitted
<1>2. /\ FirstFor(requests, t) \in DOMAIN requests
      /\ requests[FirstFor(requests, t)].doc_type = t
  BY <1>1, FirstForFinds
<1> QED
  BY <1>1, <1>2

\* What is asked was permitted, and one of the requests for its type names it.
LEMMA AskedWasRequested ==
    ASSUME NEW requests, DOMAIN requests \subseteq Nat, NEW permitted,
           NEW t \in DOMAIN filter_permitted(requests, permitted)
    PROVE  /\ t \in DOMAIN permitted
           /\ filter_permitted(requests, permitted)[t] \subseteq permitted[t]
           /\ \E i \in DOMAIN requests :
                 /\ requests[i].doc_type = t
                 /\ filter_permitted(requests, permitted)[t] \subseteq requests[i].items
  BY AskedFromOne

-----------------------------------------------------------------------------
(* Handling a request *)

\* The member of a singleton.
LEMMA TheMember == ASSUME NEW x PROVE (CHOOSE c \in {x} : TRUE) = x
  OBVIOUS

\* Different transcripts or directions have different session keys: the
\* transcript is the HKDF salt and the direction is the HKDF info.
LEMMA KeyInjective ==
    ASSUME NEW d, NEW r, NEW e, NEW s
    PROVE  /\ sk_reader(SessionTranscript(d, r)) # sk_device(SessionTranscript(e, s))
           /\ sk_reader(SessionTranscript(d, r)) = sk_reader(SessionTranscript(e, s))
                => d = e /\ r = s
           /\ sk_device(SessionTranscript(d, r)) = sk_device(SessionTranscript(e, s))
                => d = e /\ r = s
  BY DEF sk_reader, sk_device, derive_session_key, SessionTranscript

\* The keys of a transcript are session keys, and tell their direction.
LEMMA KeyType ==
    ASSUME NEW d \in EDeviceKeys, NEW r \in EReaderKeys
    PROVE  /\ SessionTranscript(d, r) \in Transcripts
           /\ sk_reader(SessionTranscript(d, r)) \in SessionKeys
           /\ sk_reader(SessionTranscript(d, r)).info = "SKReader"
           /\ sk_device(SessionTranscript(d, r)) \in SessionKeys
           /\ sk_device(SessionTranscript(d, r)).info = "SKDevice"
<1>1. SessionTranscript(d, r) \in Transcripts
  BY DEF Transcripts
<1> QED
  BY <1>1 DEF SessionKeys, sk_reader, sk_device, derive_session_key

\* Garbage carries no session key.
LEMMA GarbageKey == Garbage.key \notin SessionKeys
<1> SUFFICES ASSUME NEW t \in Transcripts,
                    Garbage.key = sk_reader(t) \/ Garbage.key = sk_device(t)
             PROVE  FALSE
  BY DEF SessionKeys
<1>1. t = SessionTranscript(NoKey, NoKey)
  BY DEF Garbage, sk_reader, sk_device, derive_session_key
<1>2. PICK d \in EDeviceKeys, r \in EReaderKeys : t = SessionTranscript(d, r)
  BY DEF Transcripts
<1>3. d = NoKey
  BY <1>1, <1>2 DEF SessionTranscript
<1> QED
  BY <1>3, KeysAssumption

\* What encrypt returns: it fails and keeps the counter, or it seals the
\* plaintext under the nonce of the next counter value.
LEMMA EncryptResult ==
    ASSUME NEW key, NEW body, NEW count \in 0..MaxCount, NEW reader,
           NEW backendOk \in BOOLEAN
    PROVE  \/ /\ encrypt(key, body, count, reader, backendOk).ok = FALSE
              /\ encrypt(key, body, count, reader, backendOk).count = count
              /\ encrypt(key, body, count, reader, backendOk).data = {}
           \/ /\ encrypt(key, body, count, reader, backendOk).ok = TRUE
              /\ count < MaxCount
              /\ encrypt(key, body, count, reader, backendOk).count = count + 1
              /\ encrypt(key, body, count, reader, backendOk).data =
                   {[key |-> key,
                     iv |-> [identifier |-> IF reader THEN 0 ELSE 1, counter |-> count + 1],
                     body |-> body]}
  BY MaxCountAssumption DEF encrypt, seal, get_initialization_vector

\* What decrypt returns: it fails and keeps the counter, or the ciphertext is the
\* one sealed with this key under the next counter value.
LEMMA DecryptResult ==
    ASSUME NEW key, NEW c, NEW count \in 0..MaxCount, NEW reader
    PROVE  \/ /\ decrypt(key, c, count, reader).ok = FALSE
              /\ decrypt(key, c, count, reader).count = count
           \/ /\ decrypt(key, c, count, reader).ok = TRUE
              /\ count < MaxCount
              /\ decrypt(key, c, count, reader).count = count + 1
              /\ c.key = key /\ c.iv.counter = count + 1
  BY MaxCountAssumption DEF decrypt, open, get_initialization_vector

\* A rejected body becomes a response with an error status and nothing else.
ErrorState(state) == \E s \in ResponseStatus \ {"OK"} : state = Signing(EmptyResponse(s))

\* What handle_decoded_request returns: nothing changed, or the next ciphertext of the
\* reader was opened and its body was validated or rejected.
RequestOutcome(h, t, count, state, data) ==
    \/ /\ h.ok = FALSE /\ h.count = count /\ h.state = state
       /\ h.outcome.items_request = <<>>
    \/ \E c : /\ data = {c} /\ h.ok = TRUE
              /\ count < MaxCount /\ h.count = count + 1
              /\ c.key = sk_reader(t) /\ c.iv.counter = count + 1
              /\ \/ /\ c.body.kind \notin {"undecodable", "invalid"}
                    /\ h.state = state /\ h.outcome = validate_request(c.body, t)
                 \/ /\ c.body.kind \in {"undecodable", "invalid"}
                    /\ ErrorState(h.state) /\ h.outcome = NoOutcome

\* handle_decoded_request returns nothing else.
LEMMA RequestHandled ==
    ASSUME NEW t, NEW count \in 0..MaxCount, NEW state, NEW data,
           data = {} \/ \E c : data = {c},
           NEW h, h = handle_decoded_request(t, count, state, data)
    PROVE  RequestOutcome(h, t, count, state, data)
<1>1. CASE data = {}
  BY <1>1 DEF RequestOutcome, handle_decoded_request, Rejected, NoOutcome
<1>2. ASSUME NEW c, data = {c}
      PROVE  RequestOutcome(h, t, count, state, data)
  <2>1. (CHOOSE x \in data : TRUE) = c /\ data # {}
    BY <1>2, TheMember
  <2>2. PICK e : e = decrypt(sk_reader(t), c, count, TRUE)
    OBVIOUS
  <2>3. \/ e.ok = FALSE /\ e.count = count
        \/ /\ e.ok = TRUE /\ count < MaxCount /\ e.count = count + 1
           /\ c.key = sk_reader(t) /\ c.iv.counter = count + 1
    BY <2>2, MaxCountAssumption DEF decrypt, open, get_initialization_vector
  <2>4. CASE e.ok = FALSE /\ e.count = count
    <3>1. h = [ok |-> e.ok, count |-> e.count, state |-> state,
               outcome |-> Rejected("decryption")]
      BY <2>1, <2>2, <2>4 DEF handle_decoded_request
    <3> QED
      BY <2>4, <3>1 DEF RequestOutcome, Rejected, NoOutcome
  <2>5. CASE /\ e.ok = TRUE /\ count < MaxCount /\ e.count = count + 1
             /\ c.key = sk_reader(t) /\ c.iv.counter = count + 1
    <3>1. CASE c.body.kind \notin {"undecodable", "invalid"}
      <4>1. parse_request(c.body) = {}
        BY <3>1 DEF parse_request
      <4>2. h = [ok |-> e.ok, count |-> e.count, state |-> state,
                 outcome |-> validate_request(c.body, t)]
        BY <2>1, <2>2, <2>5, <4>1 DEF handle_decoded_request
      <4>3. /\ h.ok = TRUE /\ h.count = count + 1
            /\ h.state = state /\ h.outcome = validate_request(c.body, t)
        BY <2>5, <4>2
      <4> QED
        BY <1>2, <2>5, <3>1, <4>3, Zenon DEF RequestOutcome
    <3>2. CASE c.body.kind \in {"undecodable", "invalid"}
      <4>1. PICK s \in ResponseStatus \ {"OK"} : parse_request(c.body) = {s}
        BY <3>2 DEF parse_request, ResponseStatus
      <4>2. (CHOOSE x \in parse_request(c.body) : TRUE) = s /\ parse_request(c.body) # {}
        BY <4>1, TheMember
      <4>3. h = [ok |-> e.ok, count |-> e.count, state |-> Signing(EmptyResponse(s)),
                 outcome |-> NoOutcome]
        BY <2>1, <2>2, <2>5, <4>2 DEF handle_decoded_request
      <4>4. ErrorState(h.state)
        BY <4>3 DEF ErrorState
      <4> QED
        BY <1>2, <2>5, <3>2, <4>3, <4>4 DEF RequestOutcome
    <3> QED
      BY <3>1, <3>2
  <2> QED
    BY <2>3, <2>4, <2>5
<1> QED
  BY <1>1, <1>2

\* A validated request shows a sequence of well-formed item requests.
LEMMA ValidatedType ==
    ASSUME NEW q, WellFormedRequest(q), q.kind \notin {"undecodable", "invalid"}, NEW t
    PROVE  validate_request(q, t).items_request \in Seq(ItemsRequest)
<1>1. PICK n \in Nat : n = Len(q.doc_requests) /\ DOMAIN q.doc_requests = 1..n
  BY DEF WellFormedRequest
<1>2. \A i \in 1..n : [doc_type |-> q.doc_requests[i].doc_type,
                       items |-> q.doc_requests[i].items] \in ItemsRequest
  BY <1>1 DEF WellFormedRequest, ItemsRequest
<1>3. validate_request(q, t).items_request =
        [i \in 1..n |-> [doc_type |-> q.doc_requests[i].doc_type,
                         items |-> q.doc_requests[i].items]]
  BY <1>1 DEF validate_request
<1>4. validate_request(q, t).items_request \in [1..n -> ItemsRequest]
  BY <1>2, <1>3
<1> QED
  BY <1>4, SeqDef

-----------------------------------------------------------------------------
(* Consent: one lemma per operation of the device *)

\* After a step that leaves no response there is nothing to tie to a consent.
LEMMA AwaitingConsent ==
    ASSUME dState' = AwaitingRequest, dConsent'.requests \in Seq(ItemsRequest)
    PROVE  ConsentInv'
  BY DEF ConsentInv, SigningInv, ReadyInv, AwaitingRequest

\* An error response carries no document.
LEMMA ErrorConsent ==
    ASSUME ErrorState(dState'), dConsent'.requests \in Seq(ItemsRequest)
    PROVE  ConsentInv'
<1>1. PICK s \in ResponseStatus \ {"OK"} : dState' = Signing(EmptyResponse(s))
  BY DEF ErrorState
<1>2. /\ dState'.tag = "Signing" /\ dState'.p.status # "OK"
      /\ dState'.p.prepared = {} /\ dState'.p.signed = {}
  BY <1>1 DEF Signing, EmptyResponse
<1> QED
  BY <1>2 DEF ConsentInv, SigningInv, ReadyInv, AnswersAll, PayloadInHand

\* A step that leaves the response, the payload and the session alone.
LEMMA SameConsent ==
    ASSUME ConsentInv, UNCHANGED <<dKey, dReader, dState, dPayload, dConsent>>
    PROVE  ConsentInv'
  BY DEF ConsentInv, SigningInv, ReadyInv, AnswersAll, Answers, Asked, SignedHere,
         PayloadInHand, NextPayload, dTranscript

\* Ending a session: the consent is forgotten with it.
LEMMA GoneConsent == Gone => ConsentInv'
<1> SUFFICES ASSUME Gone PROVE ConsentInv'
  OBVIOUS
<1>1. dState' = AwaitingRequest /\ dConsent'.requests \in Seq(ItemsRequest)
  BY DEF Gone
<1> QED
  BY <1>1, AwaitingConsent

\* initialise, qr_engagement and retrieve_response leave the device awaiting a request.
LEMMA OpeningConsent ==
    ASSUME PhaseOK, ConsentInv,
           (\E key : Initialise(key)) \/ QrEngagement \/ RetrieveResponse
    PROVE  ConsentInv'
<1>1. dState' = AwaitingRequest /\ dConsent' = dConsent
  BY DEF PhaseOK, Initialise, QrEngagement, RetrieveResponse
<1> QED
  BY <1>1, AwaitingConsent DEF ConsentInv

\* The message carries one ciphertext or none.
OneOrNone(data) == data = {} \/ \E c : data = {c}

\* process_session_establishment: its first request is validated or rejected.
LEMMA EstablishmentConsent ==
    ASSUME ConsentInv, NEW m, OneOrNone(m.data), ProcessSessionEstablishment(m)
    PROVE  ConsentInv'
<1>1. CASE Gone
  BY <1>1, GoneConsent
<1>2. CASE m.e_reader_key # NoKey
  <2>1. PICK h : h = handle_decoded_request(SessionTranscript(dKey, m.e_reader_key),
                                            0, AwaitingRequest, m.data)
    OBVIOUS
  <2>2. dState' = h.state /\ dConsent' = dConsent
    BY <1>2, <2>1 DEF ProcessSessionEstablishment
  <2>3. 0 \in 0..MaxCount
    BY MaxCountAssumption
  <2>4. RequestOutcome(h, SessionTranscript(dKey, m.e_reader_key), 0, AwaitingRequest, m.data)
    BY <2>1, <2>3, RequestHandled DEF OneOrNone
  <2>5. dState' = AwaitingRequest \/ ErrorState(dState')
    BY <2>2, <2>4 DEF RequestOutcome
  <2> QED
    BY <2>2, <2>5, AwaitingConsent, ErrorConsent DEF ConsentInv
<1> QED
  BY <1>1, <1>2 DEF ProcessSessionEstablishment

\* handle_request keeps the response, or replaces it by an error.
LEMMA HandleConsent ==
    ASSUME DeviceTypeOK, ConsentInv,
           NEW m, OneOrNone(m.data), HandleRequest(m)
    PROVE  ConsentInv'
<1>1. UNCHANGED <<dKey, dReader, dPayload, dConsent>>
  BY DEF HandleRequest
<1>2. CASE m.kind = "undecodable"
  BY <1>1, <1>2, SameConsent DEF HandleRequest
<1>3. CASE m.kind # "undecodable"
  <2>1. PICK h : h = handle_decoded_request(dTranscript, dReaderCount, dState, m.data)
    OBVIOUS
  <2>2. dState' = h.state
    BY <1>3, <2>1 DEF HandleRequest
  <2>3. RequestOutcome(h, dTranscript, dReaderCount, dState, m.data)
    BY <2>1, RequestHandled DEF OneOrNone, DeviceTypeOK
  <2>4. dState' = dState \/ ErrorState(dState')
    BY <2>2, <2>3 DEF RequestOutcome
  <2> QED
    BY <1>1, <2>4, SameConsent, ErrorConsent DEF ConsentInv
<1> QED
  BY <1>2, <1>3

\* prepare_response: the response answers the request that was shown.
LEMMA PrepareConsent ==
    ASSUME DeviceTypeOK, ConsentInv, NEW permitted, PrepareResponse(permitted)
    PROVE  ConsentInv'
<1>1. PICK asked : asked = filter_permitted(dOutcome.items_request, permitted)
  OBVIOUS
<1>2. asked = Asked'
  BY <1>1 DEF PrepareResponse, Asked
<1>3. PICK p : p = PreparedResponse(dOutcome.items_request, permitted)
  OBVIOUS
<1>4. p = [status |-> "OK",
           prepared |-> {[doc_type |-> t,
                          items |-> asked[t] \cap Documents[t].items,
                          errors |-> asked[t] \ Documents[t].items] :
                              t \in DOMAIN asked \cap Signable},
           signed |-> {},
           document_errors |-> DOMAIN asked \ Signable]
  BY <1>1, <1>3 DEF PreparedResponse
<1>5. /\ dState'.tag = "Signing" /\ dState'.p = p
      /\ dPayload' = {} /\ dConsent'.requests \in Seq(ItemsRequest)
  BY <1>3 DEF PrepareResponse, Signing, DeviceTypeOK
<1>6. /\ p.status = "OK" /\ p.signed = {} /\ p.document_errors = DOMAIN asked \ Signable
      /\ \A doc \in p.prepared :
            /\ doc.doc_type \in DOMAIN asked \cap Signable
            /\ doc.items = asked[doc.doc_type] \cap Documents[doc.doc_type].items
            /\ doc.errors = asked[doc.doc_type] \ Documents[doc.doc_type].items
  BY <1>4
<1>7. ASSUME NEW t \in DOMAIN asked \cap Signable
      PROVE  \E doc \in p.prepared : doc.doc_type = t
  <2>1. PICK doc : doc = [doc_type |-> t, items |-> asked[t] \cap Documents[t].items,
                          errors |-> asked[t] \ Documents[t].items]
    OBVIOUS
  <2>2. doc \in p.prepared /\ doc.doc_type = t
    BY <1>4, <1>7, <2>1
  <2> QED
    BY <2>2
<1>8. AnswersAll(p.status, p.prepared \cup p.signed, p.document_errors)'
  BY <1>2, <1>6, <1>7 DEF AnswersAll, Answers
<1> QED
  BY <1>5, <1>6, <1>8 DEF ConsentInv, SigningInv, ReadyInv, PayloadInHand

\* A prepared response is well formed, whatever was requested and permitted.
LEMMA PreparedResponseType ==
    ASSUME NEW requests, NEW permitted \in Permissions
    PROVE  PreparedResponse(requests, permitted) \in PreparedDeviceResponse
<1> DEFINE asked == filter_permitted(requests, permitted)
           docs == {[doc_type |-> t, items |-> asked[t] \cap Documents[t].items,
                     errors |-> asked[t] \ Documents[t].items] :
                        t \in DOMAIN asked \cap Signable}
<1>1. DOMAIN asked \subseteq DocTypes /\ \A t \in DOMAIN asked : asked[t] \subseteq Items
  BY PermissionsAssumption DEF filter_permitted
<1>2. docs \subseteq PreparedDocument
  BY <1>1 DEF PreparedDocument
<1>3. PreparedResponse(requests, permitted) =
        [status |-> "OK", prepared |-> docs, signed |-> {},
         document_errors |-> DOMAIN asked \ Signable]
  BY DEF PreparedResponse
<1> QED
  BY <1>1, <1>2, <1>3 DEF PreparedDeviceResponse, ResponseStatus

\* get_next_signature_payload returns the payload of the document on top, one whatever
\* the number of documents: there are no two of the last type's payloads.
LEMMA TopPayload ==
    ASSUME DeviceTypeOK, dState.tag = "Signing",
           NEW doc, IsLast(doc, dState.p.prepared)
    PROVE  NextPayload = {PayloadOf(doc, dTranscript)}
<1>1. dState.p.prepared \subseteq PreparedDocument
  BY DEF DeviceTypeOK, PreparedDeviceResponse
<1>2. \A x \in dState.p.prepared : x.doc_type \in Nat
  BY <1>1, DocumentsAssumption DEF PreparedDocument
<1>3. ASSUME NEW x \in dState.p.prepared, IsLast(x, dState.p.prepared)
      PROVE  x.doc_type = doc.doc_type
  <2>1. doc \in dState.p.prepared /\ x.doc_type <= doc.doc_type /\ doc.doc_type <= x.doc_type
    BY <1>3 DEF IsLast
  <2> QED
    BY <1>2, <2>1
<1>4. doc \in {x \in dState.p.prepared : IsLast(x, dState.p.prepared)}
  BY DEF IsLast
<1> QED
  BY <1>3, <1>4 DEF NextPayload, PayloadOf

\* get_next_signature_payload: the application holds the payload on top.
LEMMA GetPayloadConsent ==
    ASSUME ConsentInv, GetNextSignaturePayload
    PROVE  ConsentInv'
<1>1. /\ dPayload' = NextPayload /\ UNCHANGED <<dKey, dReader, dState, dConsent>>
      /\ NextPayload' = NextPayload
  BY DEF GetNextSignaturePayload, NextPayload, dTranscript
<1>2. PayloadInHand'
  BY <1>1 DEF PayloadInHand
<1> QED
  BY <1>1, <1>2 DEF ConsentInv, SigningInv, ReadyInv, AnswersAll, Answers, Asked,
                    SignedHere, dTranscript

\* The last document is signed: the response that becomes ready is the one that was
\* being signed.
LEMMA FinishConsent ==
    ASSUME DeviceTypeOK, dConsent.requests \in Seq(ItemsRequest),
           NEW p, NEW backendOk \in BOOLEAN, FinishSigning(p, backendOk),
           AnswersAll(p.status, p.signed, p.document_errors),
           \A doc \in p.signed : SignedHere(doc),
           UNCHANGED <<dKey, dReader, dConsent>>
    PROVE  ConsentInv'
<1>1. PICK e : e = encrypt(sk_device(dTranscript), finalize_response(p), dDeviceCount,
                           FALSE, backendOk)
  OBVIOUS
<1>2. \A c \in e.data : c.body = finalize_response(p)
  <2>1. e.data = {} \/ \E key, iv : e.data = seal(key, iv, finalize_response(p))
    BY <1>1 DEF encrypt
  <2> QED
    BY <2>1 DEF seal
<1>3. PICK status : dState' = ReadyToRespond(SessionData(e.data, status))
  BY <1>1 DEF FinishSigning
<1>4. dState'.tag = "ReadyToRespond" /\ dState'.msg.data = e.data
  BY <1>3 DEF ReadyToRespond, SessionData
<1>5. \A c \in dState'.msg.data :
         /\ c.body.status = p.status /\ c.body.documents = p.signed
         /\ c.body.document_errors = p.document_errors
  BY <1>2, <1>4 DEF finalize_response
<1>6. /\ AnswersAll(p.status, p.signed, p.document_errors)'
      /\ \A doc \in p.signed : SignedHere(doc)'
  BY DEF AnswersAll, Answers, Asked, SignedHere, dTranscript
<1> QED
  BY <1>4, <1>5, <1>6 DEF ConsentInv, SigningInv, ReadyInv

\* submit_next_signature: the signature in hand is over the document it is attached to.
LEMMA SubmitConsent ==
    ASSUME DeviceTypeOK, ConsentInv, NEW backendOk \in BOOLEAN,
           SubmitNextSignature(backendOk)
    PROVE  ConsentInv'
<1>1. UNCHANGED <<dKey, dReader, dConsent>> /\ dPayload' = {}
  BY DEF SubmitNextSignature
<1>2. CASE dState.tag # "Signing"
  <2>1. dState' = dState
    BY <1>2 DEF SubmitNextSignature
  <2> QED
    BY <1>1, <1>2, <2>1 DEF ConsentInv, SigningInv, ReadyInv, AnswersAll, Answers, Asked,
                            SignedHere, dTranscript
<1>3. CASE dState.tag = "Signing" /\ dState.p.prepared = {} /\ FinishSigning(dState.p, backendOk)
  <2>1. dState.p.prepared \cup dState.p.signed = dState.p.signed
    BY <1>3
  <2>2. /\ AnswersAll(dState.p.status, dState.p.signed, dState.p.document_errors)
        /\ \A doc \in dState.p.signed : SignedHere(doc)
    BY <1>3, <2>1 DEF ConsentInv, SigningInv
  <2> QED
    BY <1>1, <1>3, <2>2, FinishConsent DEF ConsentInv
<1>4. ASSUME dState.tag = "Signing", NEW doc \in dState.p.prepared,
             IsLast(doc, dState.p.prepared),
             NEW p, p = [dState.p EXCEPT !.prepared = @ \ {doc},
                                         !.signed = @ \cup {finalize(doc, dPayload)}],
             IF p.prepared = {} THEN FinishSigning(p, backendOk)
             ELSE dState' = Signing(p) /\ UNCHANGED <<dDeviceCount, sealed>>
      PROVE  ConsentInv'
  <2>1. NextPayload = {PayloadOf(doc, dTranscript)}
    BY <1>4, TopPayload
  <2>2. dPayload = {PayloadOf(doc, dTranscript)}
    BY <1>4, <2>1 DEF SubmitNextSignature, ConsentInv, SigningInv, PayloadInHand
  <2>3. PICK new : new = finalize(doc, dPayload)
    OBVIOUS
  <2>4. /\ new.doc_type = doc.doc_type /\ new.items = doc.items /\ new.errors = doc.errors
        /\ new.signature = dPayload
    BY <2>3 DEF finalize
  <2>5. dState.p \in PreparedDeviceResponse /\ dPayload \subseteq Payload
    BY <1>4 DEF DeviceTypeOK
  <2>6. doc \in PreparedDocument
    BY <1>4, <2>5 DEF PreparedDeviceResponse
  <2>7. SignedHere(new)
    <3>1. new \in SignedDocument
      BY <2>3, <2>5, <2>6 DEF finalize, PreparedDocument, SignedDocument
    <3> QED
      BY <2>2, <2>4, <3>1 DEF SignedHere, PayloadOf
  <2>8. /\ p.status = dState.p.status /\ p.document_errors = dState.p.document_errors
        /\ p.prepared = dState.p.prepared \ {doc} /\ p.signed = dState.p.signed \cup {new}
    BY <1>4, <2>3, <2>5 DEF PreparedDeviceResponse
  <2>9. AnswersAll(p.status, p.prepared \cup p.signed, p.document_errors)
    <3>1. AnswersAll(dState.p.status, dState.p.prepared \cup dState.p.signed,
                     dState.p.document_errors)
      BY <1>4 DEF ConsentInv, SigningInv
    <3>2. dState.p.status = "OK"
      BY <1>4, <3>1 DEF AnswersAll
    <3>3. Answers(doc)
      BY <1>4, <3>1, <3>2 DEF AnswersAll
    <3>4. Answers(new)
      BY <2>4, <3>3 DEF Answers
    <3>5. \A x \in p.prepared \cup p.signed : Answers(x)
      BY <2>8, <3>1, <3>2, <3>4 DEF AnswersAll
    <3>6. \A t \in DOMAIN Asked \cap Signable : \E x \in p.prepared \cup p.signed : x.doc_type = t
      BY <2>4, <2>8, <3>1, <3>2 DEF AnswersAll
    <3> QED
      BY <2>8, <3>1, <3>2, <3>5, <3>6 DEF AnswersAll
  <2>10. \A x \in p.signed : SignedHere(x)
    BY <1>4, <2>7, <2>8 DEF ConsentInv, SigningInv
  <2>11. CASE p.prepared = {}
    <3>1. p.prepared \cup p.signed = p.signed
      BY <2>11
    <3> QED
      BY <1>1, <1>4, <2>9, <2>10, <2>11, <3>1, FinishConsent DEF ConsentInv
  <2>12. CASE p.prepared # {}
    <3>1. dState'.tag = "Signing" /\ dState'.p = p
      BY <1>4, <2>12 DEF Signing
    <3>2. /\ AnswersAll(p.status, p.prepared \cup p.signed, p.document_errors)'
          /\ \A x \in p.signed : SignedHere(x)'
      BY <1>1, <2>9, <2>10 DEF AnswersAll, Answers, Asked, SignedHere, dTranscript
    <3> QED
      BY <1>1, <3>1, <3>2 DEF ConsentInv, SigningInv, ReadyInv, PayloadInHand
  <2> QED
    BY <2>11, <2>12
<1> QED
  BY <1>2, <1>3, <1>4 DEF SubmitNextSignature

-----------------------------------------------------------------------------
(* Types and phases of a device that faces any reader *)

\* The initial states.
LEMMA DeviceInitInv == DeviceOpenInit => DeviceInv
<1> SUFFICES ASSUME DeviceOpenInit PROVE DeviceInv
  OBVIOUS
<1> USE DEF DeviceOpenInit, DeviceInit
<1>1. DeviceTypeOK /\ PhaseOK
  BY MaxCountAssumption DEF DeviceTypeOK, PhaseOK, AwaitingRequest, NoOutcome
<1>2. dState.tag = "AwaitingRequest" /\ dConsent.requests \in Seq(ItemsRequest)
  BY DEF AwaitingRequest
<1> QED
  BY <1>1, <1>2 DEF DeviceInv, ConsentInv, SigningInv, ReadyInv

\* Starting, engaging, retrieving and ending.
LEMMA LifeCycleTypes ==
    ASSUME DeviceTypeOK, PhaseOK,
           \/ \E key \in EDeviceKeys : Initialise(key)
           \/ QrEngagement
           \/ RetrieveResponse
           \/ Gone
    PROVE  DeviceTypeOK' /\ PhaseOK'
<1> USE DEF DeviceTypeOK, PhaseOK, AwaitingRequest
<1>1. CASE \E key \in EDeviceKeys : Initialise(key)
  BY <1>1, KeysAssumption DEF Initialise
<1>2. CASE QrEngagement
  BY <1>2 DEF QrEngagement
<1>3. CASE RetrieveResponse
  BY <1>3 DEF RetrieveResponse
<1>4. CASE Gone
  BY <1>4, MaxCountAssumption, KeysAssumption DEF Gone, NoOutcome
<1> QED
  BY <1>1, <1>2, <1>3, <1>4

\* A response in preparation, or an error response, is well typed.
LEMMA ErrorStateType ==
    ASSUME NEW state, ErrorState(state)
    PROVE  state.tag = "Signing" /\ state.p \in PreparedDeviceResponse
<1>1. PICK s \in ResponseStatus \ {"OK"} : state = Signing(EmptyResponse(s))
  BY DEF ErrorState
<1> QED
  BY <1>1 DEF Signing, EmptyResponse, PreparedDeviceResponse

\* The data of a message that a peer can send.
PeerData(t, data) ==
    data = {} \/ \E c : data = {c} /\ (c.key = sk_reader(t) => WellFormedRequest(c.body))

\* What handling such data does to the counter, the state and the outcome.
LEMMA PeerHandled ==
    ASSUME NEW t, NEW count \in 0..MaxCount, NEW state, NEW data, PeerData(t, data),
           NEW h, h = handle_decoded_request(t, count, state, data)
    PROVE  /\ h.count \in 0..MaxCount
           /\ h.state = state \/ ErrorState(h.state)
           /\ h.outcome.items_request \in Seq(ItemsRequest)
<1>1. RequestOutcome(h, t, count, state, data)
  BY RequestHandled DEF PeerData
<1>2. CASE /\ h.ok = FALSE /\ h.count = count /\ h.state = state
           /\ h.outcome.items_request = <<>>
  BY <1>2
<1>3. ASSUME NEW c, data = {c},
             count < MaxCount, h.count = count + 1, c.key = sk_reader(t),
             \/ /\ c.body.kind \notin {"undecodable", "invalid"}
                /\ h.state = state /\ h.outcome = validate_request(c.body, t)
             \/ /\ c.body.kind \in {"undecodable", "invalid"}
                /\ ErrorState(h.state) /\ h.outcome = NoOutcome
      PROVE  /\ h.count \in 0..MaxCount
             /\ h.state = state \/ ErrorState(h.state)
             /\ h.outcome.items_request \in Seq(ItemsRequest)
  <2>1. WellFormedRequest(c.body)
    BY <1>3 DEF PeerData
  <2>2. h.outcome.items_request \in Seq(ItemsRequest)
    <3>1. CASE c.body.kind \in {"undecodable", "invalid"}
      <4>1. h.outcome = NoOutcome
        BY <1>3, <3>1
      <4> QED
        BY <4>1 DEF NoOutcome
    <3>2. CASE c.body.kind \notin {"undecodable", "invalid"}
      BY <1>3, <2>1, <3>2, ValidatedType
    <3> QED
      BY <3>1, <3>2
  <2>3. h.count \in 0..MaxCount
    BY <1>3, MaxCountAssumption
  <2> QED
    BY <1>3, <2>2, <2>3
<1> QED
  BY <1>1, <1>2, <1>3 DEF RequestOutcome

\* Establishment by any reader.
LEMMA EstablishmentTypes ==
    ASSUME DeviceTypeOK, PhaseOK, NEW m, ProcessSessionEstablishment(m),
           m.e_reader_key \in EReaderKeys \cup {NoKey},
           PeerData(SessionTranscript(dKey, m.e_reader_key), m.data)
    PROVE  DeviceTypeOK' /\ PhaseOK'
<1>1. CASE Gone
  BY <1>1, LifeCycleTypes
<1>2. CASE m.e_reader_key # NoKey
  <2>1. PICK h : h = handle_decoded_request(SessionTranscript(dKey, m.e_reader_key),
                                            0, AwaitingRequest, m.data)
    OBVIOUS
  <2>2. /\ dPhase = "engaged" /\ dPhase' = "established" /\ dReader' = m.e_reader_key
        /\ dDeviceCount' = 0 /\ dReaderCount' = h.count /\ dState' = h.state
        /\ dOutcome' = h.outcome /\ UNCHANGED <<dUsedKeys, dKey, dPayload, dConsent>>
    BY <1>2, <2>1 DEF ProcessSessionEstablishment
  <2>3. 0 \in 0..MaxCount
    BY MaxCountAssumption
  <2>4. /\ h.count \in 0..MaxCount
        /\ h.state = AwaitingRequest \/ ErrorState(h.state)
        /\ h.outcome.items_request \in Seq(ItemsRequest)
    BY <2>1, <2>3, PeerHandled
  <2>5. /\ dState'.tag \in {"AwaitingRequest", "Signing"}
        /\ dState'.tag = "Signing" => dState'.p \in PreparedDeviceResponse
    BY <2>2, <2>4, ErrorStateType DEF AwaitingRequest
  <2> QED
    BY <1>2, <2>2, <2>3, <2>4, <2>5 DEF DeviceTypeOK, PhaseOK
<1> QED
  BY <1>1, <1>2 DEF ProcessSessionEstablishment

\* A later message of any reader.
LEMMA HandleTypes ==
    ASSUME DeviceTypeOK, PhaseOK, NEW m, HandleRequest(m), PeerData(dTranscript, m.data)
    PROVE  DeviceTypeOK' /\ PhaseOK'
<1>1. /\ dPhase = "established"
      /\ UNCHANGED <<dPhase, dUsedKeys, dKey, dReader, dDeviceCount, dPayload, dConsent>>
  BY DEF HandleRequest
<1>2. CASE m.kind = "undecodable"
  <2>1. dOutcome' = Rejected("parsing") /\ UNCHANGED <<dReaderCount, dState>>
    BY <1>2 DEF HandleRequest
  <2>2. dOutcome'.items_request \in Seq(ItemsRequest)
    BY <2>1 DEF Rejected, NoOutcome
  <2> QED
    BY <1>1, <2>1, <2>2 DEF DeviceTypeOK, PhaseOK
<1>3. CASE m.kind # "undecodable"
  <2>1. PICK h : h = handle_decoded_request(dTranscript, dReaderCount, dState, m.data)
    OBVIOUS
  <2>2. dReaderCount' = h.count /\ dState' = h.state /\ dOutcome' = h.outcome
    BY <1>3, <2>1 DEF HandleRequest
  <2>3. /\ h.count \in 0..MaxCount
        /\ h.state = dState \/ ErrorState(h.state)
        /\ h.outcome.items_request \in Seq(ItemsRequest)
    BY <2>1, PeerHandled DEF DeviceTypeOK
  <2>4. /\ dState'.tag \in {"AwaitingRequest", "Signing", "ReadyToRespond"}
        /\ dState'.tag = "Signing" => dState'.p \in PreparedDeviceResponse
    BY <2>2, <2>3, ErrorStateType DEF DeviceTypeOK
  <2> QED
    BY <1>1, <2>2, <2>3, <2>4 DEF DeviceTypeOK, PhaseOK
<1> QED
  BY <1>2, <1>3

\* An established session has a transcript.
LEMMA EstablishedTranscript ==
    ASSUME DeviceTypeOK, PhaseOK, dPhase = "established"
    PROVE  dTranscript \in Transcripts
<1>1. dKey \in EDeviceKeys /\ dReader \in EReaderKeys
  BY DEF DeviceTypeOK, PhaseOK
<1> QED
  BY <1>1, KeyType DEF dTranscript

\* Preparing a response, and taking the payload of a document.
LEMMA PrepareTypes ==
    ASSUME DeviceTypeOK, PhaseOK,
           \/ \E permitted \in Permissions : PrepareResponse(permitted)
           \/ GetNextSignaturePayload
    PROVE  DeviceTypeOK' /\ PhaseOK'
<1>1. ASSUME NEW permitted \in Permissions, PrepareResponse(permitted)
      PROVE  DeviceTypeOK' /\ PhaseOK'
  <2>1. PICK p : p = PreparedResponse(dOutcome.items_request, permitted)
    OBVIOUS
  <2>2. p \in PreparedDeviceResponse
    BY <2>1, PreparedResponseType
  <2>3. dState'.tag = "Signing" /\ dState'.p = p
    BY <1>1, <2>1 DEF PrepareResponse, Signing
  <2> QED
    BY <1>1, <2>2, <2>3 DEF PrepareResponse, DeviceTypeOK, PhaseOK
<1>2. CASE GetNextSignaturePayload
  <2>1. dTranscript \in Transcripts
    BY <1>2, EstablishedTranscript DEF GetNextSignaturePayload
  <2>2. NextPayload \subseteq Payload
    <3>1. CASE dState.tag # "Signing"
      BY <3>1 DEF NextPayload
    <3>2. CASE dState.tag = "Signing"
      <4>1. dState.p.prepared \subseteq PreparedDocument
        BY <3>2 DEF DeviceTypeOK, PreparedDeviceResponse
      <4> QED
        BY <2>1, <3>2, <4>1 DEF NextPayload, PayloadOf, Payload, PreparedDocument
    <3> QED
      BY <3>1, <3>2
  <2> QED
    BY <1>2, <2>2 DEF GetNextSignaturePayload, DeviceTypeOK, PhaseOK
<1> QED
  BY <1>1, <1>2

\* Submitting a signature.
LEMMA SubmitTypes ==
    ASSUME DeviceTypeOK, PhaseOK, NEW backendOk \in BOOLEAN, SubmitNextSignature(backendOk)
    PROVE  DeviceTypeOK' /\ PhaseOK'
<1>1. /\ dPhase = "established" /\ dPayload' = {}
      /\ UNCHANGED <<dPhase, dUsedKeys, dKey, dReader, dReaderCount, dOutcome, dConsent>>
  BY DEF SubmitNextSignature
<1>2. CASE dState.tag # "Signing"
  <2>1. dState' = dState /\ dDeviceCount' = dDeviceCount
    BY <1>2 DEF SubmitNextSignature
  <2> QED
    BY <1>1, <2>1 DEF DeviceTypeOK, PhaseOK
<1>3. ASSUME NEW p, FinishSigning(p, backendOk)
      PROVE  DeviceTypeOK' /\ PhaseOK'
  <2>1. PICK e : e = encrypt(sk_device(dTranscript), finalize_response(p), dDeviceCount,
                             FALSE, backendOk)
    OBVIOUS
  <2>2. e.count \in 0..MaxCount
    <3>1. dDeviceCount \in 0..MaxCount
      BY DEF DeviceTypeOK
    <3>2. e.count \in {dDeviceCount, get_initialization_vector(dDeviceCount, FALSE).count}
      BY <2>1 DEF encrypt
    <3> QED
      BY <3>1, <3>2, MaxCountAssumption DEF get_initialization_vector
  <2>3. dDeviceCount' = e.count /\ dState'.tag = "ReadyToRespond"
    BY <1>3, <2>1 DEF FinishSigning, ReadyToRespond
  <2> QED
    BY <1>1, <2>2, <2>3 DEF DeviceTypeOK, PhaseOK
<1>4. ASSUME dState.tag = "Signing", NEW doc \in dState.p.prepared,
             NEW p, p = [dState.p EXCEPT !.prepared = @ \ {doc},
                                         !.signed = @ \cup {finalize(doc, dPayload)}],
             dState' = Signing(p), dDeviceCount' = dDeviceCount
      PROVE  DeviceTypeOK' /\ PhaseOK'
  <2>1. dState.p \in PreparedDeviceResponse /\ dPayload \subseteq Payload
    BY <1>4 DEF DeviceTypeOK
  <2>2. doc \in PreparedDocument
    BY <1>4, <2>1 DEF PreparedDeviceResponse
  <2>3. finalize(doc, dPayload) \in SignedDocument
    BY <2>1, <2>2 DEF finalize, PreparedDocument, SignedDocument
  <2>4. p \in PreparedDeviceResponse
    BY <1>4, <2>1, <2>3 DEF PreparedDeviceResponse
  <2>5. dState'.tag = "Signing" /\ dState'.p = p
    BY <1>4 DEF Signing
  <2> QED
    BY <1>1, <1>4, <2>4, <2>5 DEF DeviceTypeOK, PhaseOK
<1> QED
  BY <1>2, <1>3, <1>4 DEF SubmitNextSignature

\* What a peer sends has a data field that is empty or holds one ciphertext; garbage
\* never authenticates, everything else carries a request of the assumed form.
LEMMA PeerCiphertextData ==
    ASSUME NEW d \in EDeviceKeys, NEW r \in EReaderKeys,
           NEW c \in PeerCiphertexts(SessionTranscript(d, r))
    PROVE  PeerData(SessionTranscript(d, r), {c})
<1>1. CASE c = Garbage
  <2>1. c.key # sk_reader(SessionTranscript(d, r))
    BY <1>1, GarbageKey, KeyType
  <2> QED
    BY <2>1 DEF PeerData
<1>2. CASE c # Garbage
  <2>1. c.body \in Requests
    BY <1>2 DEF PeerCiphertexts
  <2> QED
    BY <2>1, RequestsAssumption DEF PeerData
<1> QED
  BY <1>1, <1>2

\* Every step of a device that faces any reader keeps the invariant.
LEMMA DeviceNextInv == DeviceInv /\ [DeviceNext]_<<deviceVars, cipherVars>> => DeviceInv'
<1> SUFFICES ASSUME DeviceInv, [DeviceNext]_<<deviceVars, cipherVars>> PROVE DeviceInv'
  OBVIOUS
<1>1. DeviceTypeOK /\ PhaseOK /\ ConsentInv
  BY DEF DeviceInv
<1>2. CASE LifeCycle
  BY <1>1, <1>2, LifeCycleTypes, OpeningConsent, GoneConsent DEF LifeCycle, Drop, DeviceInv
<1>3. ASSUME NEW m \in PeerEstablishments, ProcessSessionEstablishment(m)
      PROVE  DeviceInv'
  <2>1. dKey \in EDeviceKeys
    BY <1>1, <1>3 DEF ProcessSessionEstablishment, DeviceTypeOK, PhaseOK
  <2>2. CASE m = SessionEstablishment(NoKey, {Garbage})
    <3>1. m.e_reader_key = NoKey /\ m.data = {Garbage}
      BY <2>2 DEF SessionEstablishment
    <3>2. Gone
      BY <1>3, <3>1 DEF ProcessSessionEstablishment
    <3> QED
      BY <1>1, <3>2, LifeCycleTypes, GoneConsent DEF DeviceInv
  <2>3. ASSUME NEW r \in EReaderKeys,
               NEW c \in PeerCiphertexts(SessionTranscript(dKey, r)),
               m = SessionEstablishment(r, {c})
        PROVE  DeviceInv'
    <3>1. m.e_reader_key = r /\ m.data = {c}
      BY <2>3 DEF SessionEstablishment
    <3>2. PeerData(SessionTranscript(dKey, m.e_reader_key), m.data) /\ OneOrNone(m.data)
      BY <2>1, <3>1, PeerCiphertextData DEF OneOrNone
    <3>3. DeviceTypeOK' /\ PhaseOK'
      BY <1>1, <1>3, <3>1, <3>2, EstablishmentTypes
    <3>4. ConsentInv'
      BY <1>1, <1>3, <3>2, EstablishmentConsent
    <3> QED
      BY <3>3, <3>4 DEF DeviceInv
  <2> QED
    BY <1>3, <2>2, <2>3 DEF PeerEstablishments
<1>4. ASSUME NEW m \in PeerMessages, HandleRequest(m)
      PROVE  DeviceInv'
  <2>1. dKey \in EDeviceKeys /\ dReader \in EReaderKeys
    BY <1>1, <1>4 DEF HandleRequest, DeviceTypeOK, PhaseOK
  <2>2. CASE m.data = {}
    <3>1. PeerData(dTranscript, m.data) /\ OneOrNone(m.data)
      BY <2>2 DEF PeerData, OneOrNone
    <3> QED
      BY <1>1, <1>4, <3>1, HandleTypes, HandleConsent DEF DeviceInv
  <2>3. ASSUME NEW c \in PeerCiphertexts(dTranscript), m.data = {c}
        PROVE  DeviceInv'
    <3>1. PeerData(dTranscript, m.data) /\ OneOrNone(m.data)
      BY <2>1, <2>3, PeerCiphertextData DEF OneOrNone, dTranscript
    <3> QED
      BY <1>1, <1>4, <3>1, HandleTypes, HandleConsent DEF DeviceInv
  <2>4. m.data = {} \/ \E c \in PeerCiphertexts(dTranscript) : m.data = {c}
    BY <1>4 DEF PeerMessages, Undecodable, SessionData
  <2> QED
    BY <2>2, <2>3, <2>4
<1>5. ASSUME NEW permitted \in Permissions, PrepareResponse(permitted)
      PROVE  DeviceInv'
  BY <1>1, <1>5, PrepareTypes, PrepareConsent DEF DeviceInv
<1>6. CASE GetNextSignaturePayload
  BY <1>1, <1>6, PrepareTypes, GetPayloadConsent DEF DeviceInv
<1>7. ASSUME NEW ok \in BOOLEAN, SubmitNextSignature(ok)
      PROVE  DeviceInv'
  BY <1>1, <1>7, SubmitTypes, SubmitConsent DEF DeviceInv
<1>8. CASE RetrieveResponse
  BY <1>1, <1>8, LifeCycleTypes, OpeningConsent DEF DeviceInv
<1>9. CASE UNCHANGED <<deviceVars, cipherVars>>
  <2>1. DeviceTypeOK' /\ PhaseOK'
    BY <1>1, <1>9 DEF deviceVars, DeviceTypeOK, PhaseOK
  <2> QED
    BY <1>1, <1>9, <2>1, SameConsent DEF deviceVars, DeviceInv
<1> QED
  BY <1>2, <1>3, <1>4, <1>5, <1>6, <1>7, <1>8, <1>9 DEF DeviceNext, Receive, Sign

-----------------------------------------------------------------------------
(* Theorems *)

\* A device that faces any reader, and any application, keeps its types and ties each
\* response to the consent it was prepared for.
THEOREM DeviceInductive == DeviceSpec => []DeviceInv
<1>1. DeviceOpenInit => DeviceInv
  BY DeviceInitInv
<1>2. DeviceInv /\ [DeviceNext]_<<deviceVars, cipherVars>> => DeviceInv'
  BY DeviceNextInv
<1> QED
  BY <1>1, <1>2, PTL DEF DeviceSpec

\* The documents in hand are answers to the consent.
LEMMA DocumentedAnswers ==
    ASSUME ConsentInv, NEW doc \in Documented
    PROVE  Answers(doc)
<1>1. CASE dState.tag = "Signing"
  <2>1. doc \in dState.p.prepared \cup dState.p.signed
    BY <1>1 DEF Documented
  <2>2. AnswersAll(dState.p.status, dState.p.prepared \cup dState.p.signed,
                   dState.p.document_errors)
    BY <1>1 DEF ConsentInv, SigningInv
  <2> QED
    BY <2>1, <2>2 DEF AnswersAll
<1>2. CASE dState.tag = "ReadyToRespond"
  <2>1. PICK c \in dState.msg.data : doc \in c.body.documents
    BY <1>2 DEF Documented
  <2>2. AnswersAll(c.body.status, c.body.documents, c.body.document_errors)
    BY <1>2 DEF ConsentInv, ReadyInv
  <2> QED
    BY <2>1, <2>2 DEF AnswersAll
<1>3. CASE dState.tag # "Signing" /\ dState.tag # "ReadyToRespond"
  BY <1>3 DEF Documented
<1> QED
  BY <1>1, <1>2, <1>3

\* Whatever arrives and in whatever order the application calls, a document in hand
\* discloses only what the holder permitted, what the request that was shown to the
\* holder names, and what the document has.
THEOREM ConsentAlwaysRespected == DeviceSpec => []ConsentRespected
<1>1. ASSUME DeviceInv, NEW doc \in Documented
      PROVE  /\ doc.doc_type \in DOMAIN dConsent.permitted \cap DOMAIN Documents
             /\ doc.items \subseteq dConsent.permitted[doc.doc_type]
             /\ doc.items \subseteq Documents[doc.doc_type].items
             /\ \E i \in DOMAIN dConsent.requests :
                   /\ dConsent.requests[i].doc_type = doc.doc_type
                   /\ doc.items \subseteq dConsent.requests[i].items
  <2>1. Answers(doc)
    BY <1>1, DocumentedAnswers DEF DeviceInv
  <2>2. DOMAIN dConsent.requests \subseteq Nat
    BY <1>1 DEF DeviceInv, ConsentInv
  <2>3. PICK requests, permitted, t :
            requests = dConsent.requests /\ permitted = dConsent.permitted /\ t = doc.doc_type
    OBVIOUS
  <2>4. PICK asked : asked = filter_permitted(requests, permitted)
    OBVIOUS
  <2>5. /\ t \in DOMAIN asked \cap Signable
        /\ doc.items = asked[t] \cap Documents[t].items
    BY <2>1, <2>3, <2>4 DEF Answers, Asked
  <2>6. /\ t \in DOMAIN permitted /\ asked[t] \subseteq permitted[t]
        /\ \E i \in DOMAIN requests :
              requests[i].doc_type = t /\ asked[t] \subseteq requests[i].items
    BY <2>2, <2>3, <2>4, <2>5, AskedWasRequested
  <2> QED
    BY <2>3, <2>5, <2>6 DEF Signable
<1>2. DeviceInv => ConsentRespected
  BY <1>1 DEF ConsentRespected
<1> QED
  BY <1>2, DeviceInductive, PTL

\* Each signature is over the payload of the document that carries it, in this session.
THEOREM SignaturesMatch == DeviceSpec => []SignatureMatchesDocument
<1>1. ASSUME DeviceInv, NEW doc \in SignedDocuments
      PROVE  doc.signature = {PayloadOf(doc, dTranscript)}
  <2>1. CASE dState.tag = "Signing"
    BY <1>1, <2>1 DEF SignedDocuments, DeviceInv, ConsentInv, SigningInv, SignedHere
  <2>2. CASE dState.tag = "ReadyToRespond"
    <3>1. PICK c \in dState.msg.data : doc \in c.body.documents
      BY <1>1, <2>2 DEF SignedDocuments
    <3> QED
      BY <1>1, <2>2, <3>1 DEF DeviceInv, ConsentInv, ReadyInv, SignedHere
  <2>3. CASE dState.tag # "Signing" /\ dState.tag # "ReadyToRespond"
    BY <1>1, <2>3 DEF SignedDocuments
  <2> QED
    BY <2>1, <2>2, <2>3
<1>2. DeviceInv => SignatureMatchesDocument
  BY <1>1 DEF SignatureMatchesDocument
<1> QED
  BY <1>2, DeviceInductive, PTL

\* A complete response has one document or one error for each permitted type that was
\* named, and a document answers one of the requests for its type in full: all of them
\* when the type is named once.
THEOREM NothingUnanswered == DeviceSpec => []EverythingAnswered
<1>1. ASSUME DeviceInv, NEW response \in ReadyResponses
      PROVE  /\ {doc.doc_type : doc \in response.documents} \cup response.document_errors
                    = {t \in DOMAIN dConsent.permitted : Naming(t) # {}}
             /\ \A doc \in response.documents :
                   /\ doc.doc_type \notin response.document_errors
                   /\ doc.items \subseteq Documents[doc.doc_type].items
                   /\ doc.errors \cap Documents[doc.doc_type].items = {}
                   /\ \E i \in Naming(doc.doc_type) :
                         doc.items \cup doc.errors
                             = dConsent.permitted[doc.doc_type] \cap dConsent.requests[i].items
             /\ \A doc, other \in response.documents :
                   doc.doc_type = other.doc_type => doc = other
  <2>1. PICK asked, docs, errs :
            asked = Asked /\ docs = response.documents /\ errs = response.document_errors
    OBVIOUS
  <2>2. /\ AnswersAll("OK", docs, errs)
        /\ \A doc \in docs : SignedHere(doc)
    <3>1. dState.tag = "ReadyToRespond"
      BY DEF ReadyResponses
    <3>2. PICK c \in dState.msg.data : response = c.body /\ response.status = "OK"
      BY <3>1 DEF ReadyResponses
    <3> QED
      BY <1>1, <2>1, <3>1, <3>2 DEF DeviceInv, ConsentInv, ReadyInv
  <2>3. /\ \A doc \in docs :
              /\ doc.doc_type \in DOMAIN asked \cap Signable
              /\ doc.items = asked[doc.doc_type] \cap Documents[doc.doc_type].items
              /\ doc.errors = asked[doc.doc_type] \ Documents[doc.doc_type].items
        /\ \A t \in DOMAIN asked \cap Signable : \E doc \in docs : doc.doc_type = t
        /\ errs = DOMAIN asked \ Signable
    BY <2>1, <2>2 DEF AnswersAll, Answers
  <2>4. {doc.doc_type : doc \in docs} = DOMAIN asked \cap Signable
    BY <2>3
  <2>5. ASSUME NEW doc \in docs
        PROVE  /\ doc.doc_type \notin errs
               /\ doc.items \subseteq Documents[doc.doc_type].items
               /\ doc.errors \cap Documents[doc.doc_type].items = {}
               /\ \E i \in Naming(doc.doc_type) :
                     doc.items \cup doc.errors
                         = dConsent.permitted[doc.doc_type] \cap dConsent.requests[i].items
    <3>1. PICK t : t = doc.doc_type
      OBVIOUS
    <3>2. t \in DOMAIN asked /\ doc.items \cup doc.errors = asked[t]
      BY <2>3, <3>1
    <3>3. \E i \in DOMAIN dConsent.requests :
             /\ dConsent.requests[i].doc_type = t
             /\ asked[t] = dConsent.permitted[t] \cap dConsent.requests[i].items
      <4>1. DOMAIN dConsent.requests \subseteq Nat
        BY <1>1 DEF DeviceInv, ConsentInv
      <4> QED
        BY <2>1, <3>2, <4>1, AskedFromOne DEF Asked
    <3>4. /\ doc.doc_type \notin errs
          /\ doc.items \subseteq Documents[doc.doc_type].items
          /\ doc.errors \cap Documents[doc.doc_type].items = {}
      BY <2>3
    <3> QED
      BY <3>1, <3>2, <3>3, <3>4 DEF Naming
  <2>6. ASSUME NEW doc \in docs, NEW other \in docs, doc.doc_type = other.doc_type
        PROVE  doc = other
    <3>1. doc \in SignedDocument /\ other \in SignedDocument
      BY <2>2 DEF SignedHere
    <3>2. doc.items = other.items /\ doc.errors = other.errors
      <4>1. PICK t : t = doc.doc_type
        OBVIOUS
      <4>2. /\ doc.items = asked[t] \cap Documents[t].items
            /\ doc.errors = asked[t] \ Documents[t].items
        BY <2>3, <4>1
      <4>3. /\ other.items = asked[t] \cap Documents[t].items
            /\ other.errors = asked[t] \ Documents[t].items
        BY <2>3, <2>6, <4>1
      <4> QED
        BY <4>2, <4>3
    <3>3. doc.signature = other.signature
      <4>1. /\ doc.signature = {PayloadOf(doc, dTranscript)}
            /\ other.signature = {PayloadOf(other, dTranscript)}
        BY <2>2 DEF SignedHere
      <4>2. PayloadOf(doc, dTranscript) = PayloadOf(other, dTranscript)
        BY <2>6 DEF PayloadOf
      <4> QED
        BY <4>1, <4>2
    <3>4. \A x \in SignedDocument :
             x = [doc_type |-> x.doc_type, items |-> x.items, errors |-> x.errors,
                  signature |-> x.signature]
      BY DEF SignedDocument
    <3> QED
      BY <2>6, <3>1, <3>2, <3>3, <3>4, Zenon
  <2>7. {doc.doc_type : doc \in docs} \cup errs = DOMAIN asked
    BY <2>3, <2>4
  <2>8. DOMAIN asked = {t \in DOMAIN dConsent.permitted : Naming(t) # {}}
    BY <2>1 DEF Asked, filter_permitted, Naming
  <2> QED
    BY <2>1, <2>5, <2>6, <2>7, <2>8, Zenon
<1>2. DeviceInv => EverythingAnswered
  BY <1>1 DEF EverythingAnswered
<1> QED
  BY <1>2, DeviceInductive, PTL
=============================================================================
