---------------------------- MODULE GrantProofs ----------------------------
(***************************************************************************)
(* Proofs about what a reader of Presentation accepts: GrantInv is         *)
(* inductive relative to IndInv, one lemma per conjunct, and implies that  *)
(* accepted data was granted to this reader and that an engagement answers *)
(* one reader only.                                                        *)
(***************************************************************************)
EXTENDS PresentationProofs

-----------------------------------------------------------------------------
(* What a step can do to the history and to the grants *)

\* What was sealed stays where it is.
Grows == \A k \in SessionKeys : \A n \in 1..Len(sealed[k]) :
            n \in 1..Len(sealed'[k]) /\ sealed'[k][n] = sealed[k][n]

\* Every step of the protocol only appends to the history.
LEMMA SealedGrows == ASSUME IndInv, [Next]_vars PROVE Grows
<1>1. sealed \in [SessionKeys -> Seq(Ciphertexts)]
  BY DEF IndInv, SessionInv, CipherTypeOK
<1>2. sealed' \in [SessionKeys -> Seq(Ciphertexts)]
  BY NextInv DEF IndInv, SessionInv, CipherTypeOK
<1>3. CASE sealed' = sealed
  BY <1>1, <1>3 DEF Grows
<1>4. ASSUME NEW j \in SessionKeys, NEW m, sealed' = [sealed EXCEPT ![j] = Append(@, m)]
      PROVE  Grows
  <2> SUFFICES ASSUME NEW k \in SessionKeys, NEW n \in 1..Len(sealed[k])
               PROVE  n \in 1..Len(sealed'[k]) /\ sealed'[k][n] = sealed[k][n]
    BY DEF Grows
  <2>1. CASE k = j
    <3>1. sealed'[k] = Append(sealed[k], m)
      BY <1>1, <1>4, <2>1
    <3>2. sealed[k] \in Seq(Ciphertexts) /\ sealed'[k] \in Seq(Ciphertexts)
      BY <1>1, <1>2
    <3>3. Len(sealed'[k]) = Len(sealed[k]) + 1 /\ sealed'[k][n] = sealed[k][n]
      BY <3>1, <3>2
    <3> QED
      BY <3>2, <3>3
  <2>2. CASE k # j
    BY <1>1, <1>4, <2>2
  <2> QED
    BY <2>1, <2>2
<1>5. sealed' = sealed \/ \E j \in SessionKeys : \E m : sealed' = [sealed EXCEPT ![j] = Append(@, m)]
  BY NextInv DEF Delivery!ChannelNext, Delivery!Seal, Delivery!Open
<1> QED
  BY <1>3, <1>4, <1>5

\* So a request that was sealed stays requested, and a document that was sealed
\* stays sealed.
LEMMA HistoryStays ==
    ASSUME Grows, NEW t \in Transcripts
    PROVE  /\ \A q : WasRequested(q, t) => WasRequested(q, t)'
           /\ \A items : WasSealed(items, t) => WasSealed(items, t)'
<1>1. sk_reader(t) \in SessionKeys /\ sk_device(t) \in SessionKeys
  BY DEF SessionKeys
<1>2. ASSUME NEW q, WasRequested(q, t)
      PROVE  WasRequested(q, t)'
  <2>1. PICK n \in 1..Len(sealed[sk_reader(t)]), w \in Wanted :
            /\ sealed[sk_reader(t)][n].body = DeviceRequest(w)
            /\ q = <<[doc_type |-> Mdl, items |-> w]>>
    BY <1>2 DEF WasRequested
  <2>2. /\ n \in 1..Len(sealed'[sk_reader(t)])
        /\ sealed'[sk_reader(t)][n] = sealed[sk_reader(t)][n]
    BY <1>1 DEF Grows
  <2> QED
    BY <2>1, <2>2 DEF WasRequested
<1>3. ASSUME NEW items, WasSealed(items, t)
      PROVE  WasSealed(items, t)'
  <2>1. PICK n \in 1..Len(sealed[sk_device(t)]) :
            \E doc \in sealed[sk_device(t)][n].body.documents :
                doc.doc_type = Mdl /\ items \subseteq doc.items
    BY <1>3 DEF WasSealed
  <2>2. /\ n \in 1..Len(sealed'[sk_device(t)])
        /\ sealed'[sk_device(t)][n] = sealed[sk_device(t)][n]
    BY <1>1 DEF Grows
  <2> QED
    BY <2>1, <2>2 DEF WasSealed
<1> QED
  BY <1>2, <1>3

\* Only submit_next_signature seals on the device's key, in the current session.
LEMMA DeviceSeals ==
    ASSUME IndInv, [Next]_vars, NEW d \in EDeviceKeys, NEW r \in EReaderKeys
    PROVE  \/ sealed'[sk_device(SessionTranscript(d, r))]
                = sealed[sk_device(SessionTranscript(d, r))]
           \/ DevSubmitSignature /\ d = dKey /\ r = dReader
<1>1. sealed \in [SessionKeys -> Seq(Ciphertexts)]
  BY DEF IndInv, SessionInv, CipherTypeOK
<1>2. ASSUME NEW key, NEW data, RecordSealed(key, data),
             key # sk_device(SessionTranscript(d, r))
      PROVE  sealed'[sk_device(SessionTranscript(d, r))]
                = sealed[sk_device(SessionTranscript(d, r))]
  BY <1>1, <1>2, KeyType DEF RecordSealed
<1>3. CASE sealed' = sealed
  BY <1>3
<1>4. CASE DevSubmitSignature
  <2>1. PICK ok \in BOOLEAN : SubmitNextSignature(ok)
    BY <1>4 DEF DevSubmitSignature
  <2>2. sealed' = sealed \/ \E data : RecordSealed(sk_device(dTranscript), data)
    BY <2>1 DEF SubmitNextSignature, FinishSigning
  <2>3. CASE d # dKey \/ r # dReader
    <3>1. sk_device(dTranscript) # sk_device(SessionTranscript(d, r))
      BY <2>3, KeyInjective DEF dTranscript
    <3> QED
      BY <1>2, <2>2, <3>1
  <2> QED
    BY <1>4, <2>3
<1>5. ASSUME NEW s \in EReaderKeys, RdrEstablish(s) \/ RdrNewRequest(s)
      PROVE  sealed'[sk_device(SessionTranscript(d, r))]
                = sealed[sk_device(SessionTranscript(d, r))]
  <2>1. PICK e, data : RecordSealed(sk_reader(SessionTranscript(e, s)), data)
    BY <1>5 DEF RdrEstablish, EstablishSession, RdrNewRequest, NewRequest, rTranscript
  <2>2. sk_reader(SessionTranscript(e, s)) # sk_device(SessionTranscript(d, r))
    BY KeyInjective
  <2> QED
    BY <1>2, <2>1, <2>2
<1>6. ASSUME NEW s \in EReaderKeys, RdrHandleResponse(s)
      PROVE  sealed' = sealed
  BY <1>6 DEF RdrHandleResponse, HandleResponse
<1>7. CASE DevEstablish \/ DevHandleRequest
  BY <1>7 DEF DevEstablish, ProcessSessionEstablishment, DevHandleRequest, HandleRequest,
              cipherVars
<1>8. CASE UNCHANGED vars
  BY <1>8 DEF vars, cipherVars
<1> QED
  BY <1>3, <1>4, <1>5, <1>6, <1>7, <1>8, DeviceQuiet DEF Next

-----------------------------------------------------------------------------
(* One lemma per conjunct *)

\* An engagement that answered one reader answers no other: the channels of the
\* current key to other readers are empty, and those of older keys are not used again.
LEMMA EngagementStep ==
    ASSUME IndInv, EngagementConsumed, [Next]_vars
    PROVE  EngagementConsumed'
<1>1. IndInv'
  BY NextInv
<1> SUFFICES ASSUME NEW d \in EDeviceKeys, NEW r \in EReaderKeys, NEW s \in EReaderKeys,
                    sealed'[sk_device(SessionTranscript(d, r))] # <<>>,
                    sealed'[sk_device(SessionTranscript(d, s))] # <<>>
             PROVE  r = s
  BY DEF EngagementConsumed
<1>2. CASE d = dKey'
  <2>1. \A x \in EReaderKeys : x # dReader' =>
            sealed'[sk_device(SessionTranscript(d, x))] = <<>>
    BY <1>1, <1>2 DEF IndInv, SessionInv, DeviceCounts
  <2> QED
    BY <2>1
<1>3. CASE d # dKey'
  <2>1. DevSubmitSignature => dKey' = dKey
    BY DEF DevSubmitSignature, SubmitNextSignature
  <2>2. /\ sealed'[sk_device(SessionTranscript(d, r))] = sealed[sk_device(SessionTranscript(d, r))]
        /\ sealed'[sk_device(SessionTranscript(d, s))] = sealed[sk_device(SessionTranscript(d, s))]
    BY <1>3, <2>1, DeviceSeals
  <2> QED
    BY <2>2 DEF EngagementConsumed
<1> QED
  BY <1>2, <1>3

\* A message of the transport carries one ciphertext or none.
LEMMA NetData ==
    ASSUME IndInv, NEW m \in net \cup Noise
    PROVE  (IsSealedData(m.data) \/ m.data = {Garbage}) /\ OneOrNone(m.data)
<1>1. IsSealedData(m.data) \/ m.data = {Garbage}
  BY DEF IndInv, SessionInv, NetOK, Noise, Undecodable, SessionData, IsSealedData
<1> QED
  BY <1>1 DEF IsSealedData, OneOrNone

\* An establishment reaches the device as it was sent, damaged, or with a bad key.
LEMMA EstablishmentReceived ==
    ASSUME IndInv, DevEstablish
    PROVE  \E x : /\ ProcessSessionEstablishment(x)
                  /\ x.e_reader_key \in EReaderKeys \cup {NoKey}
                  /\ IsSealedData(x.data) \/ x.data = {Garbage}
                  /\ OneOrNone(x.data)
<1>1. PICK m \in net :
        /\ m.kind = "establishment"
        /\ \/ ProcessSessionEstablishment(m)
           \/ ProcessSessionEstablishment([m EXCEPT !.data = {Garbage}])
           \/ ProcessSessionEstablishment([m EXCEPT !.e_reader_key = NoKey])
  BY DEF DevEstablish
<1>2. /\ m \in [kind : {"establishment"}, e_reader_key : EReaderKeys,
                data : SUBSET Ciphertexts]
      /\ IsSealedData(m.data)
  BY <1>1 DEF IndInv, SessionInv, NetOK
<1>3. OneOrNone(m.data) /\ OneOrNone({Garbage})
  BY <1>2 DEF IsSealedData, OneOrNone
<1>4. CASE ProcessSessionEstablishment(m)
  BY <1>2, <1>3, <1>4
<1>5. CASE ProcessSessionEstablishment([m EXCEPT !.data = {Garbage}])
  <2>1. PICK x : x = [m EXCEPT !.data = {Garbage}]
    OBVIOUS
  <2>2. x.e_reader_key \in EReaderKeys /\ x.data = {Garbage}
    BY <1>2, <2>1
  <2> QED
    BY <1>3, <1>5, <2>1, <2>2
<1>6. CASE ProcessSessionEstablishment([m EXCEPT !.e_reader_key = NoKey])
  <2>1. PICK x : x = [m EXCEPT !.e_reader_key = NoKey]
    OBVIOUS
  <2>2. x.e_reader_key = NoKey /\ x.data = m.data
    BY <1>2, <2>1
  <2> QED
    BY <1>2, <1>3, <1>6, <2>1, <2>2
<1> QED
  BY <1>1, <1>4, <1>5, <1>6

\* The response in hand stays tied to its consent.
LEMMA ConsentStep ==
    ASSUME IndInv, ConsentInv, [Next]_vars
    PROVE  ConsentInv'
<1>1. DeviceTypeOK /\ PhaseOK
  BY DEF IndInv, TypeOK, SessionInv
<1>2. CASE DevInitialise \/ DevShowQr \/ DevSendResponse
  BY <1>1, <1>2, OpeningConsent DEF DevInitialise, DevShowQr, DevSendResponse
<1>3. CASE DevEstablish
  BY <1>3, EstablishmentReceived, EstablishmentConsent
<1>4. CASE DevHandleRequest
  <2>1. PICK m \in net \cup Noise : HandleRequest(m)
    BY <1>4 DEF DevHandleRequest
  <2> QED
    BY <1>1, <2>1, NetData, HandleConsent
<1>5. CASE DevPrepareResponse
  BY <1>1, <1>5, PrepareConsent DEF DevPrepareResponse
<1>6. CASE DevGetPayload
  BY <1>6, GetPayloadConsent DEF DevGetPayload
<1>7. CASE DevSubmitSignature
  BY <1>1, <1>7, SubmitConsent DEF DevSubmitSignature
<1>8. CASE DevDrop
  BY <1>8, GoneConsent DEF DevDrop, Drop
<1>9. CASE (\E r \in EReaderKeys : RdrEstablish(r) \/ RdrNewRequest(r) \/ RdrHandleResponse(r))
           \/ UNCHANGED vars
  <2>1. UNCHANGED deviceVars
    BY <1>9 DEF RdrEstablish, RdrNewRequest, RdrHandleResponse, vars
  <2> QED
    BY <2>1, SameConsent DEF deviceVars
<1> QED
  BY <1>2, <1>3, <1>4, <1>5, <1>6, <1>7, <1>8, <1>9 DEF Next

\* What handle_decoded_request shows was sealed by the reader of the session.
LEMMA ShownWasRequested ==
    ASSUME IndInv, NEW t \in Transcripts, NEW count \in 0..MaxCount, NEW state, NEW data,
           IsSealedData(data) \/ data = {Garbage},
           NEW h, h = handle_decoded_request(t, count, state, data),
           h.outcome.items_request # <<>>
    PROVE  WasRequested(h.outcome.items_request, t)
<1>1. sk_reader(t) \in SessionKeys /\ sk_reader(t).info = "SKReader"
  BY DEF SessionKeys, sk_reader, derive_session_key
<1>2. RequestOutcome(h, t, count, state, data)
  <2>1. data = {} \/ \E c : data = {c}
    BY DEF IsSealedData
  <2> QED
    BY <2>1, RequestHandled
<1>3. PICK c : /\ data = {c} /\ c.key = sk_reader(t)
               /\ \/ h.outcome = validate_request(c.body, t)
                  \/ h.outcome = NoOutcome
  BY <1>2 DEF RequestOutcome
<1>4. h.outcome = validate_request(c.body, t)
  BY <1>3 DEF NoOutcome
<1>5. IsSealed(c)
  <2>1. c # Garbage
    BY <1>1, <1>3, GarbageKey
  <2> QED
    BY <1>3, <2>1 DEF IsSealedData
<1>6. PICK n : n = c.iv.counter
  OBVIOUS
<1>7. n \in 1..Len(sealed[sk_reader(t)]) /\ c = sealed[sk_reader(t)][n]
  <2>1. sealed[sk_reader(t)] \in Seq(Ciphertexts)
    BY <1>1 DEF IndInv, SessionInv, CipherTypeOK
  <2>2. n \in 1..MaxCount /\ n <= Len(sealed[sk_reader(t)]) /\ c = sealed[sk_reader(t)][n]
    BY <1>3, <1>5, <1>6 DEF IsSealed, Ciphertexts
  <2> QED
    BY <2>1, <2>2, MaxCountAssumption
<1>8. c.body \in RequestBodies
  BY <1>1, <1>7 DEF IndInv, SessionInv, NoncesCount, SealedUnder
<1>9. PICK w \in Wanted : c.body = DeviceRequest(w)
  BY <1>8 DEF RequestBodies
<1>10. h.outcome.items_request = <<[doc_type |-> Mdl, items |-> w]>>
  <2>1. h.outcome.items_request =
          [i \in DOMAIN c.body.doc_requests |->
              [doc_type |-> c.body.doc_requests[i].doc_type,
               items |-> c.body.doc_requests[i].items]]
    BY <1>4 DEF validate_request
  <2>2. /\ DOMAIN c.body.doc_requests = 1..1
        /\ c.body.doc_requests[1] = [doc_type |-> Mdl, items |-> w, reader_auth |-> {}]
    BY <1>9 DEF DeviceRequest
  <2>3. h.outcome.items_request = [i \in 1..1 |-> [doc_type |-> Mdl, items |-> w]]
    BY <2>1, <2>2
  <2> QED
    BY <2>3
<1> QED
  BY <1>7, <1>9, <1>10 DEF WasRequested

\* The session in which the device stays, or which it enters, has a transcript.
LEMMA SessionStays ==
    ASSUME IndInv, dPhase = "established"
    PROVE  dTranscript \in Transcripts
  BY EstablishedTranscript DEF IndInv, TypeOK, SessionInv

\* Steps that leave what the device shows and its session alone.
LEMMA OutcomeStays ==
    ASSUME IndInv, OutcomeRequested, Grows, UNCHANGED <<dOutcome, dPhase, dKey, dReader>>
    PROVE  OutcomeRequested'
<1> SUFFICES ASSUME dOutcome.items_request # <<>>
             PROVE  dPhase = "established" /\ WasRequested(dOutcome.items_request, dTranscript)'
  BY DEF OutcomeRequested
<1>1. dPhase = "established" /\ WasRequested(dOutcome.items_request, dTranscript)
  BY DEF OutcomeRequested
<1>2. PICK t \in Transcripts : t = dTranscript /\ t = dTranscript'
  BY <1>1, SessionStays DEF dTranscript
<1>3. PICK q : q = dOutcome.items_request /\ q = dOutcome'.items_request
  OBVIOUS
<1>4. WasRequested(q, t)'
  BY <1>1, <1>2, <1>3, HistoryStays
<1> QED
  BY <1>1, <1>2, <1>3, <1>4 DEF WasRequested

\* What the device shows was requested by its reader.
LEMMA OutcomeStep ==
    ASSUME IndInv, OutcomeRequested, [Next]_vars
    PROVE  OutcomeRequested'
<1>1. Grows
  BY SealedGrows
<1>2. CASE dOutcome'.items_request = <<>>
  BY <1>2 DEF OutcomeRequested
<1>3. CASE DevInitialise \/ DevShowQr \/ DevDrop
  <2>1. dOutcome'.items_request = <<>>
    BY <1>3 DEF OutcomeRequested, DevInitialise, Initialise, DevShowQr, QrEngagement,
                DevDrop, Drop, Gone, NoOutcome
  <2> QED
    BY <1>2, <2>1
<1>4. ASSUME NEW t \in Transcripts, NEW count \in 0..MaxCount, NEW state, NEW data,
             IsSealedData(data) \/ data = {Garbage},
             NEW h, h = handle_decoded_request(t, count, state, data),
             dOutcome' = h.outcome, dPhase' = "established", t = dTranscript',
             sealed' = sealed
      PROVE  OutcomeRequested'
  <2>1. CASE h.outcome.items_request # <<>>
    <3>1. WasRequested(h.outcome.items_request, t)
      BY <1>4, <2>1, ShownWasRequested
    <3> QED
      BY <1>4, <3>1 DEF OutcomeRequested, WasRequested
  <2> QED
    BY <1>2, <1>4, <2>1
<1>5. CASE DevEstablish
  <2>1. PICK x : /\ ProcessSessionEstablishment(x)
                 /\ x.e_reader_key \in EReaderKeys \cup {NoKey}
                 /\ IsSealedData(x.data) \/ x.data = {Garbage}
    BY <1>5, EstablishmentReceived
  <2>2. CASE Gone
    BY <1>2, <2>2 DEF Gone, NoOutcome
  <2>3. CASE ~Gone
    <3>1. dKey \in EDeviceKeys /\ x.e_reader_key \in EReaderKeys
      BY <2>1, <2>3 DEF ProcessSessionEstablishment, IndInv, TypeOK, DeviceTypeOK,
                        SessionInv, PhaseOK
    <3>2. PICK t \in Transcripts : t = SessionTranscript(dKey, x.e_reader_key)
      BY <3>1, KeyType
    <3>3. PICK data : data = x.data
      OBVIOUS
    <3>4. PICK h : h = handle_decoded_request(t, 0, AwaitingRequest, data)
      OBVIOUS
    <3>5. /\ dOutcome' = h.outcome /\ dPhase' = "established" /\ dKey' = dKey
          /\ dReader' = x.e_reader_key /\ sealed' = sealed
      BY <2>1, <2>3, <3>2, <3>3, <3>4 DEF ProcessSessionEstablishment
    <3>6. t = dTranscript' /\ 0 \in 0..MaxCount
      BY <3>2, <3>5, MaxCountAssumption DEF dTranscript
    <3> QED
      BY <1>4, <2>1, <3>3, <3>4, <3>5, <3>6
  <2> QED
    BY <2>2, <2>3
<1>6. CASE DevHandleRequest
  <2>1. PICK m \in net \cup Noise : HandleRequest(m)
    BY <1>6 DEF DevHandleRequest
  <2>2. CASE m.kind = "undecodable"
    <3>1. dOutcome' = Rejected("parsing")
      BY <2>1, <2>2 DEF HandleRequest
    <3> QED
      BY <1>2, <3>1 DEF Rejected, NoOutcome
  <2>3. CASE m.kind # "undecodable"
    <3>1. /\ dPhase = "established" /\ dPhase' = dPhase
          /\ UNCHANGED <<dKey, dReader, sealed>>
      BY <2>1 DEF HandleRequest
    <3>2. PICK t \in Transcripts : t = dTranscript /\ t = dTranscript'
      BY <3>1, SessionStays DEF dTranscript
    <3>3. PICK data, state : data = m.data /\ state = dState
      OBVIOUS
    <3>4. PICK count \in 0..MaxCount : count = dReaderCount
      BY DEF IndInv, TypeOK, DeviceTypeOK
    <3>5. PICK h : h = handle_decoded_request(t, count, state, data)
      OBVIOUS
    <3>6. dOutcome' = h.outcome
      BY <2>1, <2>3, <3>2, <3>3, <3>4, <3>5 DEF HandleRequest
    <3>7. IsSealedData(data) \/ data = {Garbage}
      BY <3>3, NetData
    <3> QED
      BY <1>4, <3>1, <3>2, <3>5, <3>6, <3>7
  <2> QED
    BY <2>2, <2>3
<1>7. CASE \/ DevPrepareResponse \/ DevGetPayload \/ DevSubmitSignature \/ DevSendResponse
           \/ (\E r \in EReaderKeys : RdrEstablish(r) \/ RdrNewRequest(r) \/ RdrHandleResponse(r))
           \/ UNCHANGED vars
  <2>1. UNCHANGED <<dOutcome, dPhase, dKey, dReader>>
    BY <1>7 DEF DevPrepareResponse, PrepareResponse, DevGetPayload, GetNextSignaturePayload,
                DevSubmitSignature, SubmitNextSignature, DevSendResponse, RetrieveResponse,
                RdrEstablish, RdrNewRequest, RdrHandleResponse, vars, deviceVars
  <2> QED
    BY <1>1, <2>1, OutcomeStays
<1> QED
  BY <1>3, <1>5, <1>6, <1>7 DEF Next

\* Only prepare_response adds a grant: the consent of the session.
LEMMA GrantedStep ==
    ASSUME IndInv, granted \in [Transcripts -> SUBSET Grants], [Next]_vars
    PROVE  \/ granted' = granted /\ ~DevPrepareResponse
           \/ \E permitted \in Permissions :
                /\ PrepareResponse(permitted)
                /\ dTranscript \in Transcripts
                /\ granted' = [granted EXCEPT ![dTranscript] = @ \cup {dConsent'}]
                /\ dConsent' \in Grants
<1>1. CASE DevPrepareResponse
  <2>1. PICK permitted \in Permissions :
            /\ PrepareResponse(permitted)
            /\ granted' = [granted EXCEPT ![dTranscript] = @ \cup {dConsent'}]
    BY <1>1 DEF DevPrepareResponse
  <2>2. dTranscript \in Transcripts
    BY <2>1, SessionStays DEF PrepareResponse
  <2>3. dConsent' = [requests |-> dOutcome.items_request, permitted |-> permitted]
    BY <2>1 DEF PrepareResponse
  <2>4. dOutcome.items_request \in Seq(ItemsRequest)
    BY DEF IndInv, TypeOK, DeviceTypeOK
  <2>5. dConsent' \in Grants
    BY <2>3, <2>4 DEF Grants
  <2> QED
    BY <2>1, <2>2, <2>5
<1>2. CASE ~DevPrepareResponse
  <2>1. granted' = granted
    BY <1>2 DEF Next, DevInitialise, DevShowQr, DevEstablish, DevHandleRequest, DevGetPayload,
                DevSubmitSignature, DevSendResponse, DevDrop, RdrEstablish, RdrNewRequest,
                RdrHandleResponse, presentationVars, vars
  <2> QED
    BY <1>2, <2>1
<1> QED
  BY <1>1, <1>2

\* A grant, once given, stays.
LEMMA GrantsGrow ==
    ASSUME IndInv, granted \in [Transcripts -> SUBSET Grants], [Next]_vars
    PROVE  /\ granted' \in [Transcripts -> SUBSET Grants]
           /\ \A t \in Transcripts : granted[t] \subseteq granted'[t]
<1>1. CASE granted' = granted
  BY <1>1
<1>2. ASSUME NEW t \in Transcripts, NEW g \in Grants,
             granted' = [granted EXCEPT ![t] = @ \cup {g}]
      PROVE  /\ granted' \in [Transcripts -> SUBSET Grants]
             /\ \A u \in Transcripts : granted[u] \subseteq granted'[u]
  BY <1>2
<1> QED
  BY <1>1, <1>2, GrantedStep

\* Every grant answers a request of its session.
LEMMA GrantsStep ==
    ASSUME IndInv, granted \in [Transcripts -> SUBSET Grants],
           OutcomeRequested, GrantsRequested, [Next]_vars
    PROVE  GrantsRequested'
<1> SUFFICES ASSUME NEW t \in Transcripts, NEW g \in granted'[t]
             PROVE  WasRequested(g.requests, t)'
  BY DEF GrantsRequested
<1>1. Grows
  BY SealedGrows
<1>2. CASE g \in granted[t]
  <2>1. WasRequested(g.requests, t)
    BY <1>2 DEF GrantsRequested
  <2> QED
    BY <1>1, <2>1, HistoryStays
<1>3. CASE g \notin granted[t]
  <2>1. PICK permitted \in Permissions :
            /\ PrepareResponse(permitted)
            /\ dTranscript \in Transcripts
            /\ granted' = [granted EXCEPT ![dTranscript] = @ \cup {dConsent'}]
    BY <1>3, GrantedStep
  <2>2. t = dTranscript /\ g = dConsent'
    BY <1>3, <2>1
  <2>3. g.requests = dOutcome.items_request /\ dOutcome.items_request # <<>>
    BY <2>1, <2>2 DEF PrepareResponse
  <2>4. WasRequested(g.requests, t)
    BY <2>2, <2>3 DEF OutcomeRequested
  <2> QED
    BY <1>1, <2>4, HistoryStays
<1> QED
  BY <1>2, <1>3

\* The consent in hand is among the grants of the session.
LEMMA ConsentGrantedStep ==
    ASSUME IndInv, granted \in [Transcripts -> SUBSET Grants], ConsentGranted, [Next]_vars
    PROVE  ConsentGranted'
<1>1. CASE dConsent'.requests = <<>>
  BY <1>1 DEF ConsentGranted
<1>2. CASE DevInitialise \/ DevShowQr \/ DevDrop
  <2>1. dConsent'.requests = <<>>
    BY <1>2 DEF ConsentGranted, DevInitialise, Initialise, DevShowQr, QrEngagement,
                DevDrop, Drop, Gone
  <2> QED
    BY <1>1, <2>1
<1>3. CASE DevEstablish
  <2>1. PICK x : ProcessSessionEstablishment(x)
    BY <1>3, EstablishmentReceived
  <2>2. dConsent'.requests = <<>>
    BY <2>1 DEF ConsentGranted, ProcessSessionEstablishment, Gone
  <2> QED
    BY <1>1, <2>2
<1>4. CASE DevPrepareResponse
  <2>1. PICK permitted \in Permissions :
            /\ PrepareResponse(permitted)
            /\ dTranscript \in Transcripts
            /\ granted' = [granted EXCEPT ![dTranscript] = @ \cup {dConsent'}]
    BY <1>4, GrantedStep
  <2>2. dPhase' = "established" /\ dTranscript' = dTranscript
    BY <2>1 DEF PrepareResponse, dTranscript
  <2>3. dConsent' \in granted'[dTranscript]
    BY <2>1
  <2> QED
    BY <2>2, <2>3 DEF ConsentGranted
<1>5. CASE \/ DevHandleRequest \/ DevGetPayload \/ DevSubmitSignature \/ DevSendResponse
           \/ (\E r \in EReaderKeys : RdrEstablish(r) \/ RdrNewRequest(r) \/ RdrHandleResponse(r))
           \/ UNCHANGED vars
  <2>1. UNCHANGED <<dConsent, dPhase, dKey, dReader, granted>>
    BY <1>5 DEF DevHandleRequest, HandleRequest, DevGetPayload, GetNextSignaturePayload,
                DevSubmitSignature, SubmitNextSignature, DevSendResponse, RetrieveResponse,
                RdrEstablish, RdrNewRequest, RdrHandleResponse, vars, deviceVars,
                presentationVars
  <2> QED
    BY <2>1 DEF ConsentGranted, dTranscript
<1> QED
  BY <1>2, <1>3, <1>4, <1>5 DEF Next

\* What submit_next_signature seals is the response that becomes ready.
LEMMA SealedIsReady ==
    ASSUME IndInv, DevSubmitSignature
    PROVE  \/ sealed' = sealed
           \/ \E c : /\ dState'.tag = "ReadyToRespond" /\ c \in dState'.msg.data
                     /\ sealed' = [sealed EXCEPT ![sk_device(dTranscript)] = Append(@, c)]
<1>1. PICK ok \in BOOLEAN : SubmitNextSignature(ok)
  BY DEF DevSubmitSignature
<1>2. ASSUME NEW p, FinishSigning(p, ok)
      PROVE  \/ sealed' = sealed
             \/ \E c : /\ dState'.tag = "ReadyToRespond" /\ c \in dState'.msg.data
                       /\ sealed' = [sealed EXCEPT ![sk_device(dTranscript)] = Append(@, c)]
  <2>1. PICK e : e = encrypt(sk_device(dTranscript), finalize_response(p), dDeviceCount,
                             FALSE, ok)
    OBVIOUS
  <2>2. PICK status : dState' = ReadyToRespond(SessionData(e.data, status))
    BY <1>2, <2>1 DEF FinishSigning
  <2>3. dState'.tag = "ReadyToRespond" /\ dState'.msg.data = e.data
    BY <2>2 DEF ReadyToRespond, SessionData
  <2>4. RecordSealed(sk_device(dTranscript), e.data)
    BY <1>2, <2>1 DEF FinishSigning
  <2>5. PICK c : c = CHOOSE x \in e.data : TRUE
    OBVIOUS
  <2>6. e.data # {} => c \in e.data
    BY <2>5
  <2>7. \/ sealed' = sealed
        \/ e.data # {} /\ sealed' = [sealed EXCEPT ![sk_device(dTranscript)] = Append(@, c)]
    BY <2>4, <2>5 DEF RecordSealed
  <2> QED
    BY <2>3, <2>6, <2>7
<1>3. sealed' = sealed \/ \E p : FinishSigning(p, ok)
  BY <1>1 DEF SubmitNextSignature
<1> QED
  BY <1>2, <1>3

\* A document that answers the consent of a session is within a grant of it.
LEMMA AnswerWithin ==
    ASSUME ConsentInv, ConsentGranted, NEW doc, Answers(doc)
    PROVE  dConsent \in granted[dTranscript] /\ Within(doc, dConsent)
<1>1. PICK requests, permitted, t :
          requests = dConsent.requests /\ permitted = dConsent.permitted /\ t = doc.doc_type
  OBVIOUS
<1>2. DOMAIN requests \subseteq Nat
  BY <1>1 DEF ConsentInv
<1>3. PICK asked : asked = filter_permitted(requests, permitted)
  OBVIOUS
<1>4. t \in DOMAIN asked /\ doc.items \subseteq asked[t]
  BY <1>1, <1>3 DEF Answers, Asked
<1>5. /\ asked[t] \subseteq permitted[t]
      /\ \E i \in DOMAIN requests : asked[t] \subseteq requests[i].items
  BY <1>2, <1>3, <1>4, AskedWasRequested
<1>6. Within(doc, dConsent)
  BY <1>1, <1>4, <1>5 DEF Within
<1>7. dConsent.requests # <<>>
  BY <1>1, <1>5
<1> QED
  BY <1>6, <1>7 DEF ConsentGranted

\* Everything that was sealed in a session is within a grant of that session.
LEMMA SealedGrantedStep ==
    ASSUME IndInv, granted \in [Transcripts -> SUBSET Grants],
           ConsentInv, ConsentGranted, SealedGranted, [Next]_vars
    PROVE  SealedGranted'
<1>1. ConsentInv' /\ ConsentGranted' /\ IndInv'
  BY ConsentStep, ConsentGrantedStep, NextInv
<1>2. \A t \in Transcripts : granted[t] \subseteq granted'[t]
  BY GrantsGrow
<1> SUFFICES ASSUME NEW t \in Transcripts, NEW n \in 1..Len(sealed'[sk_device(t)]),
                    NEW doc \in sealed'[sk_device(t)][n].body.documents
             PROVE  \E g \in granted'[t] : Within(doc, g)
  BY DEF SealedGranted, Within
<1>3. PICK d \in EDeviceKeys, r \in EReaderKeys : t = SessionTranscript(d, r)
  BY DEF Transcripts
<1>4. sk_device(t) \in SessionKeys
  BY DEF SessionKeys
<1>5. ASSUME n \in 1..Len(sealed[sk_device(t)]),
             sealed'[sk_device(t)][n] = sealed[sk_device(t)][n]
      PROVE  \E g \in granted'[t] : Within(doc, g)
  <2>1. doc \in sealed[sk_device(t)][n].body.documents
    BY <1>5
  <2>2. \E g \in granted[t] : Within(doc, g)
    BY <1>5, <2>1 DEF SealedGranted
  <2> QED
    BY <1>2, <2>2
<1>6. CASE sealed'[sk_device(t)] = sealed[sk_device(t)]
  BY <1>5, <1>6
<1>7. CASE DevSubmitSignature /\ d = dKey /\ r = dReader
  <2>1. t = dTranscript /\ t = dTranscript'
    BY <1>3, <1>7 DEF dTranscript, DevSubmitSignature, SubmitNextSignature
  <2>2. ASSUME NEW c, dState'.tag = "ReadyToRespond", c \in dState'.msg.data,
               sealed' = [sealed EXCEPT ![sk_device(dTranscript)] = Append(@, c)]
        PROVE  \E g \in granted'[t] : Within(doc, g)
    <3>1. sealed[sk_device(t)] \in Seq(Ciphertexts)
      BY <1>4 DEF IndInv, SessionInv, CipherTypeOK
    <3>2. sealed'[sk_device(t)] = Append(sealed[sk_device(t)], c)
      BY <1>4, <2>1, <2>2 DEF IndInv, SessionInv, CipherTypeOK
    <3>3. CASE n \in 1..Len(sealed[sk_device(t)])
      <4>1. sealed'[sk_device(t)][n] = sealed[sk_device(t)][n]
        BY <3>1, <3>2, <3>3
      <4> QED
        BY <1>5, <3>3, <4>1
    <3>4. CASE n \notin 1..Len(sealed[sk_device(t)])
      <4>1. sealed'[sk_device(t)][n] = c
        BY <3>1, <3>2, <3>4
      <4>2. Answers(doc)'
        <5>1. doc \in c.body.documents
          BY <4>1
        <5>2. AnswersAll(c.body.status, c.body.documents, c.body.document_errors)'
          BY <1>1, <2>2 DEF ConsentInv, ReadyInv
        <5> QED
          BY <5>1, <5>2 DEF AnswersAll
      <4>3. UNCHANGED <<dConsent, dKey, dReader>>
        BY <1>7 DEF DevSubmitSignature, SubmitNextSignature
      <4>4. Answers(doc)
        BY <4>2, <4>3 DEF Answers, Asked
      <4>5. dConsent \in granted[t] /\ Within(doc, dConsent)
        BY <2>1, <4>4, AnswerWithin
      <4> QED
        BY <1>2, <4>5
    <3> QED
      BY <3>3, <3>4
  <2>3. CASE sealed' = sealed
    BY <1>6, <2>3
  <2> QED
    BY <1>7, <2>2, <2>3, SealedIsReady
<1> QED
  BY <1>3, <1>6, <1>7, DeviceSeals

\* A response that device authentication finds valid has an mDL document with the
\* elements that are returned.
LEMMA ValidOutcome ==
    ASSUME NEW response, NEW t, NEW o, o = ResponseOutcome(response, t),
           o.device_authentication = "Valid"
    PROVE  \E doc \in response.documents : doc.doc_type = Mdl /\ o.response \subseteq doc.items
<1>1. CASE Parses(response)
  <2>1. \E doc \in response.documents : doc.doc_type = Mdl
    BY <1>1 DEF Parses
  <2>2. PICK doc : doc = CHOOSE x \in response.documents : x.doc_type = Mdl
    OBVIOUS
  <2>3. doc \in response.documents /\ doc.doc_type = Mdl
    BY <2>1, <2>2
  <2>4. o = validate_response(doc, t)
    BY <1>1, <2>2 DEF ResponseOutcome
  <2>5. o.response = doc.items \cap (IsoItems \cup AamvaItems) \cap JsonItems
    BY <2>4 DEF validate_response
  <2> QED
    BY <2>3, <2>5
<1>2. CASE ~Parses(response)
  BY <1>2 DEF ResponseOutcome, RejectedResponse, NoResponse
<1> QED
  BY <1>1, <1>2

\* A reader keeps its device.
LEMMA DeviceStays ==
    ASSUME IndInv, [Next]_vars, NEW r \in EReaderKeys, rDevice[r] # NoKey
    PROVE  rDevice'[r] = rDevice[r]
<1>1. ASSUME NEW s \in EReaderKeys, RdrEstablish(s)
      PROVE  rDevice'[r] = rDevice[r]
  <2>1. PICK d, items : EstablishSession(s, d, items)
    BY <1>1 DEF RdrEstablish
  <2>2. s # r /\ rDevice' = [rDevice EXCEPT ![s] = d]
    BY <2>1 DEF EstablishSession
  <2> QED
    BY <2>2 DEF IndInv, TypeOK
<1>2. ASSUME NEW s \in EReaderKeys, RdrNewRequest(s) \/ RdrHandleResponse(s)
      PROVE  rDevice' = rDevice
  BY <1>2 DEF RdrNewRequest, NewRequest, RdrHandleResponse, HandleResponse
<1>3. CASE \/ DevInitialise \/ DevShowQr \/ DevEstablish \/ DevHandleRequest
           \/ DevPrepareResponse \/ DevGetPayload \/ DevSubmitSignature
           \/ DevSendResponse \/ DevDrop \/ UNCHANGED vars
  BY <1>3 DEF DevInitialise, DevShowQr, DevEstablish, DevHandleRequest, DevPrepareResponse,
              DevGetPayload, DevSubmitSignature, DevSendResponse, DevDrop, vars, readerVars
<1> QED
  BY <1>1, <1>2, <1>3 DEF Next

\* The outcomes of handle_response have their type.
LEMMA OutcomeType ==
    ASSUME NEW response, NEW t
    PROVE  /\ ResponseOutcome(response, t) \in ResponseOutcomes
           /\ RejectedResponse("decryption") \in ResponseOutcomes
           /\ NoResponse \in ResponseOutcomes
<1> USE DEF ResponseOutcomes, AuthenticationStatus
<1>1. /\ RejectedResponse("decryption") \in ResponseOutcomes
      /\ RejectedResponse("parsing") \in ResponseOutcomes
      /\ NoResponse \in ResponseOutcomes
  BY DEF RejectedResponse, NoResponse
<1>2. ASSUME NEW doc PROVE validate_response(doc, t) \in ResponseOutcomes
  <2>1. PICK items : items = doc.items \cap (IsoItems \cup AamvaItems) \cap JsonItems
    OBVIOUS
  <2>2. items \in SUBSET Items
    BY <2>1, ReaderAssumption
  <2>3. PICK device, issuer, errors :
          /\ device \in {"Valid", "Invalid"} /\ issuer \in {"Valid", "Invalid"}
          /\ errors \subseteq {"device_authentication", "issuer_authentication", "certificate"}
          /\ validate_response(doc, t) =
                [response |-> items, device_authentication |-> device,
                 issuer_authentication |-> issuer, errors |-> errors]
    BY <2>1 DEF validate_response
  <2> QED
    BY <2>2, <2>3
<1> QED
  BY <1>1, <1>2 DEF ResponseOutcome

\* What handle_response of reader r does to its outcome: an error, or the outcome of a
\* response that was sealed in the session of the reader.
LEMMA ResponseHandled ==
    ASSUME IndInv, NEW r \in EReaderKeys, RdrHandleResponse(r)
    PROVE  \E o \in ResponseOutcomes :
              /\ rOutcome' = [rOutcome EXCEPT ![r] = o]
              /\ rDevice[r] # NoKey /\ rTranscript(r) \in Transcripts
              /\ o.device_authentication = "Valid" => WasSealed(o.response, rTranscript(r))
<1>1. PICK m \in net \cup Noise : HandleResponse(r, m)
  BY DEF RdrHandleResponse
<1>2. IsSealedData(m.data) \/ m.data = {Garbage}
  BY NetData
<1>3. /\ rDevice[r] # NoKey /\ rTranscript(r) \in Transcripts
      /\ sk_device(rTranscript(r)) \in SessionKeys
  <2>1. rDevice[r] # NoKey /\ rDevice[r] \in EDeviceKeys
    BY <1>1 DEF HandleResponse, IndInv, TypeOK
  <2> QED
    BY <2>1, KeyType DEF rTranscript
<1>4. PICK key, t : t = rTranscript(r) /\ key = sk_device(t)
  OBVIOUS
<1>5. PICK c : c = CHOOSE x \in m.data : TRUE
  OBVIOUS
<1>6. PICK e : e = decrypt(key, c, rDeviceCount[r], FALSE)
  OBVIOUS
<1>7. CASE m.data = {} \/ ~e.ok
  <2>1. PICK o : o = RejectedResponse("decryption")
    OBVIOUS
  <2>2. rOutcome' = [rOutcome EXCEPT ![r] = o]
    BY <1>1, <1>4, <1>5, <1>6, <1>7, <2>1 DEF HandleResponse
  <2>3. o \in ResponseOutcomes /\ o.device_authentication # "Valid"
    BY <2>1, OutcomeType DEF RejectedResponse, NoResponse
  <2> QED
    BY <1>3, <2>2, <2>3
<1>8. CASE m.data # {} /\ e.ok
  <2>1. PICK o : o = ResponseOutcome(c.body, t)
    OBVIOUS
  <2>2. rOutcome' = [rOutcome EXCEPT ![r] = o]
    BY <1>1, <1>4, <1>5, <1>6, <1>8, <2>1 DEF HandleResponse
  <2>3. o \in ResponseOutcomes
    BY <2>1, OutcomeType
  <2>4. c.key = key /\ key \in SessionKeys
    BY <1>3, <1>4, <1>6, <1>8 DEF decrypt, open
  <2>5. IsSealed(c)
    <3>1. m.data = {c}
      BY <1>2, <1>5, <1>8 DEF IsSealedData
    <3>2. c # Garbage
      BY <2>4, GarbageKey
    <3> QED
      BY <1>2, <3>1, <3>2 DEF IsSealedData
  <2>6. PICK n : n = c.iv.counter
    OBVIOUS
  <2>7. n \in 1..Len(sealed[key]) /\ c = sealed[key][n]
    <3>1. sealed[key] \in Seq(Ciphertexts)
      BY <2>4 DEF IndInv, SessionInv, CipherTypeOK
    <3>2. n \in 1..MaxCount /\ n <= Len(sealed[key]) /\ c = sealed[key][n]
      BY <2>4, <2>5, <2>6 DEF IsSealed, Ciphertexts
    <3> QED
      BY <3>1, <3>2, MaxCountAssumption
  <2>8. ASSUME o.device_authentication = "Valid"
        PROVE  WasSealed(o.response, t)
    <3>1. PICK doc \in c.body.documents : doc.doc_type = Mdl /\ o.response \subseteq doc.items
      BY <2>1, <2>8, ValidOutcome
    <3> QED
      BY <1>4, <2>7, <3>1 DEF WasSealed
  <2> QED
    BY <1>3, <1>4, <2>2, <2>3, <2>8
<1> QED
  BY <1>7, <1>8

\* What a reader accepted was sealed in its session.
LEMMA AcceptedStep ==
    ASSUME IndInv, AcceptedWasSealed, rOutcome \in [EReaderKeys -> ResponseOutcomes],
           [Next]_vars
    PROVE  AcceptedWasSealed' /\ rOutcome' \in [EReaderKeys -> ResponseOutcomes]
<1>1. Grows
  BY SealedGrows
<1>2. ASSUME NEW r \in EReaderKeys, rOutcome'[r] = rOutcome[r],
             rOutcome'[r].device_authentication = "Valid"
      PROVE  rDevice'[r] # NoKey /\ WasSealed(rOutcome[r].response, rTranscript(r))'
  <2>1. rDevice[r] # NoKey /\ WasSealed(rOutcome[r].response, rTranscript(r))
    BY <1>2 DEF AcceptedWasSealed
  <2>2. rDevice'[r] = rDevice[r] /\ rDevice[r] \in EDeviceKeys
    BY <2>1, DeviceStays DEF IndInv, TypeOK
  <2>3. PICK t \in Transcripts : t = rTranscript(r) /\ t = rTranscript(r)'
    BY <2>2, KeyType DEF rTranscript
  <2>4. PICK items : items = rOutcome[r].response /\ items = rOutcome'[r].response
    BY <1>2
  <2>5. WasSealed(items, t)'
    BY <1>1, <2>1, <2>3, <2>4, HistoryStays
  <2> QED
    BY <2>1, <2>2, <2>3, <2>4, <2>5 DEF WasSealed
<1>3. CASE rOutcome' = rOutcome
  BY <1>2, <1>3 DEF AcceptedWasSealed
<1>4. ASSUME NEW s \in EReaderKeys, RdrHandleResponse(s)
      PROVE  AcceptedWasSealed' /\ rOutcome' \in [EReaderKeys -> ResponseOutcomes]
  <2>1. PICK o \in ResponseOutcomes :
          /\ rOutcome' = [rOutcome EXCEPT ![s] = o]
          /\ rDevice[s] # NoKey /\ rTranscript(s) \in Transcripts
          /\ o.device_authentication = "Valid" => WasSealed(o.response, rTranscript(s))
    BY <1>4, ResponseHandled
  <2>2. rOutcome'[s] = o /\ \A r \in EReaderKeys : r # s => rOutcome'[r] = rOutcome[r]
    BY <2>1
  <2>3. UNCHANGED <<rDevice, sealed>>
    BY <1>4 DEF RdrHandleResponse, HandleResponse
  <2>4. ASSUME rOutcome'[s].device_authentication = "Valid"
        PROVE  rDevice'[s] # NoKey /\ WasSealed(rOutcome[s].response, rTranscript(s))'
    BY <2>1, <2>2, <2>3, <2>4 DEF WasSealed, rTranscript
  <2>5. AcceptedWasSealed'
    BY <1>2, <2>2, <2>4 DEF AcceptedWasSealed
  <2> QED
    BY <2>1, <2>5
<1>5. CASE ~\E s \in EReaderKeys : RdrHandleResponse(s)
  <2>1. rOutcome' = rOutcome
    BY <1>5 DEF Next, DevInitialise, DevShowQr, DevEstablish, DevHandleRequest,
                DevPrepareResponse, DevGetPayload, DevSubmitSignature, DevSendResponse, DevDrop,
                RdrEstablish, EstablishSession, RdrNewRequest, NewRequest, vars, readerVars
  <2> QED
    BY <1>3, <2>1
<1> QED
  BY <1>4, <1>5

-----------------------------------------------------------------------------
(* The theorems *)

\* The links from a sealed request to an accepted response hold in every state.
THEOREM GrantsInductive == Spec => [](GrantInv /\ EngagementConsumed)
<1>1. Init => GrantInv /\ EngagementConsumed
  <2> SUFFICES ASSUME Init PROVE GrantInv /\ EngagementConsumed
    OBVIOUS
  <2> USE DEF Init, CipherInit, DeviceInit, ReaderInit
  <2>1. HistoryTypeOK
    BY OutcomeType DEF HistoryTypeOK
  <2>2. ConsentInv
    BY DEF ConsentInv, SigningInv, ReadyInv, AwaitingRequest
  <2>3. OutcomeRequested /\ ConsentGranted /\ GrantsRequested
    BY DEF OutcomeRequested, ConsentGranted, GrantsRequested, NoOutcome
  <2>4. \A t \in Transcripts : sealed[sk_device(t)] = <<>>
    BY DEF SessionKeys
  <2>5. SealedGranted
    BY <2>4 DEF SealedGranted
  <2>6. AcceptedWasSealed
    BY DEF AcceptedWasSealed, NoResponse
  <2>7. EngagementConsumed
    BY <2>4, KeyType DEF EngagementConsumed
  <2> QED
    BY <2>1, <2>2, <2>3, <2>5, <2>6, <2>7 DEF GrantInv
<1>2. IndInv /\ GrantInv /\ EngagementConsumed /\ [Next]_vars => (GrantInv /\ EngagementConsumed)'
  <2> SUFFICES ASSUME IndInv, GrantInv, EngagementConsumed, [Next]_vars
               PROVE  (GrantInv /\ EngagementConsumed)'
    OBVIOUS
  <2>1. /\ HistoryTypeOK /\ ConsentInv
        /\ OutcomeRequested /\ ConsentGranted /\ GrantsRequested
        /\ SealedGranted /\ AcceptedWasSealed
    BY DEF GrantInv
  <2>2. HistoryTypeOK' /\ AcceptedWasSealed'
    BY <2>1, GrantsGrow, AcceptedStep DEF HistoryTypeOK
  <2>3. ConsentInv' /\ OutcomeRequested' /\ EngagementConsumed'
    BY <2>1, ConsentStep, OutcomeStep, EngagementStep
  <2>4. ConsentGranted' /\ GrantsRequested' /\ SealedGranted'
    BY <2>1, ConsentGrantedStep, GrantsStep, SealedGrantedStep DEF HistoryTypeOK
  <2> QED
    BY <2>2, <2>3, <2>4 DEF GrantInv
<1> QED
  BY <1>1, <1>2, Inductive, PTL DEF Spec

\* What a reader accepts as authenticated by the device was granted by the holder in
\* the session with this reader, in answer to a request that this reader sealed.
THEOREM OnlyGrantedIsAccepted == Spec => []AcceptedWasGranted
<1>1. ASSUME IndInv, GrantInv, NEW r \in EReaderKeys,
             rOutcome[r].device_authentication = "Valid"
      PROVE  \E g \in granted[rTranscript(r)] :
                /\ rOutcome[r].response \subseteq g.permitted[Mdl]
                /\ \E n \in 1..Len(sealed[sk_reader(rTranscript(r))]) :
                      LET asked == sealed[sk_reader(rTranscript(r))][n].body
                      IN  /\ asked.doc_requests[1].items = g.requests[1].items
                          /\ rOutcome[r].response \subseteq asked.doc_requests[1].items
  <2>1. PICK t : t = rTranscript(r)
    OBVIOUS
  <2>2. rDevice[r] # NoKey /\ WasSealed(rOutcome[r].response, t)
    BY <1>1, <2>1 DEF GrantInv, AcceptedWasSealed
  <2>3. t \in Transcripts
    BY <1>1, <2>1, <2>2, KeyType DEF IndInv, TypeOK, rTranscript
  <2>k. PICK k \in 1..Len(sealed[sk_device(t)]) :
            \E doc \in sealed[sk_device(t)][k].body.documents :
                doc.doc_type = Mdl /\ rOutcome[r].response \subseteq doc.items
    BY <2>2 DEF WasSealed
  <2>4. PICK doc \in sealed[sk_device(t)][k].body.documents :
            doc.doc_type = Mdl /\ rOutcome[r].response \subseteq doc.items
    BY <2>k
  <2>5. PICK g \in granted[t] : Within(doc, g)
    BY <1>1, <2>3, <2>4 DEF GrantInv, SealedGranted
  <2>6. WasRequested(g.requests, t)
    BY <1>1, <2>3, <2>5 DEF GrantInv, GrantsRequested
  <2>7. PICK n \in 1..Len(sealed[sk_reader(t)]), w \in Wanted :
            /\ sealed[sk_reader(t)][n].body = DeviceRequest(w)
            /\ g.requests = <<[doc_type |-> Mdl, items |-> w]>>
    BY <2>6 DEF WasRequested
  <2>8. sealed[sk_reader(t)][n].body.doc_requests[1].items = w
    BY <2>7 DEF DeviceRequest
  <2>9. g.requests[1].items = w /\ \A i \in DOMAIN g.requests : g.requests[i].items = w
    BY <2>7
  <2>10. rOutcome[r].response \subseteq g.permitted[Mdl] /\ rOutcome[r].response \subseteq w
    BY <2>4, <2>5, <2>9 DEF Within
  <2> QED
    BY <2>1, <2>5, <2>8, <2>9, <2>10
<1>2. IndInv /\ GrantInv => AcceptedWasGranted
  BY <1>1 DEF AcceptedWasGranted
<1> QED
  BY <1>2, GrantsInductive, Inductive, PTL

\* Of all readers that scanned a QR code at most one is ever answered.
THEOREM OneReaderAnswered == Spec => []OneReaderPerEngagement
<1>1. ASSUME IndInv, EngagementConsumed, NEW r \in EReaderKeys, NEW s \in EReaderKeys,
             rDevice[r] = rDevice[s], rDevice[r] # NoKey,
             rDeviceCount[r] > 0, rDeviceCount[s] > 0
      PROVE  r = s
  <2>1. PICK d \in EDeviceKeys : d = rDevice[r] /\ d = rDevice[s]
    BY <1>1 DEF IndInv, TypeOK
  <2>2. ASSUME NEW x \in EReaderKeys, rDevice[x] = d, rDeviceCount[x] > 0
        PROVE  sealed[sk_device(SessionTranscript(d, x))] # <<>>
    <3>1. PICK key \in SessionKeys : key = sk_device(SessionTranscript(d, x))
      BY KeyType
    <3>2. Len(opened[key]) = rDeviceCount[x]
      BY <1>1, <2>2, <3>1 DEF IndInv, SessionInv, ReaderCounts
    <3>3. Len(opened[key]) <= Len(sealed[key])
      BY <1>1 DEF IndInv, SessionInv, OpenedInOrder
    <3>4. rDeviceCount[x] \in Nat
      BY <1>1, MaxCountAssumption DEF IndInv, TypeOK
    <3>5. sealed[key] \in Seq(Ciphertexts)
      BY <1>1 DEF IndInv, SessionInv, CipherTypeOK
    <3> QED
      BY <2>2, <3>1, <3>2, <3>3, <3>4, <3>5
  <2> QED
    BY <1>1, <2>1, <2>2 DEF EngagementConsumed
<1>2. IndInv /\ EngagementConsumed => OneReaderPerEngagement
  BY <1>1 DEF OneReaderPerEngagement
<1> QED
  BY <1>2, GrantsInductive, Inductive, PTL
=============================================================================
