------------------------- MODULE PresentationProofs -------------------------
(***************************************************************************)
(* Proofs about Presentation for every number of devices keys, readers,    *)
(* documents and counter values.  The inductive invariant is TypeOK and    *)
(* SessionInv; the lemmas say what the cipher does to the history.         *)
(***************************************************************************)
EXTENDS Presentation, DeviceProofs

IndInv == TypeOK /\ SessionInv

-----------------------------------------------------------------------------
(* The history *)

\* Sealing the next message of a channel keeps everything that was sealed.
LEMMA SealStep ==
    ASSUME CipherTypeOK, NoncesCount, OpenedInOrder,
           NEW k \in SessionKeys, NEW c \in Ciphertexts,
           SealedUnder(k, Len(sealed[k]) + 1, c),
           sealed' = [sealed EXCEPT ![k] = Append(@, c)],
           opened' = opened
    PROVE  /\ CipherTypeOK' /\ NoncesCount' /\ OpenedInOrder'
           /\ Len(sealed'[k]) = Len(sealed[k]) + 1
           /\ \A j \in SessionKeys : j # k => sealed'[j] = sealed[j]
           /\ \A x : IsSealed(x) => IsSealed(x)'
           /\ IsSealed(c)'
           /\ Delivery!ChannelNext
<1> USE DEF CipherTypeOK
<1>1. /\ sealed' \in [SessionKeys -> Seq(Ciphertexts)]
      /\ Len(sealed'[k]) = Len(sealed[k]) + 1
      /\ sealed'[k][Len(sealed[k]) + 1] = c
      /\ \A i \in 1..Len(sealed[k]) : sealed'[k][i] = sealed[k][i]
      /\ \A j \in SessionKeys : j # k => sealed'[j] = sealed[j]
  OBVIOUS
<1>2. CipherTypeOK'
  BY <1>1
<1>3. NoncesCount'
  <2> SUFFICES ASSUME NEW j \in SessionKeys, NEW n \in 1..Len(sealed'[j])
               PROVE  SealedUnder(j, n, sealed'[j][n])
    BY DEF NoncesCount, SealedUnder
  <2>1. CASE j # k
    BY <1>1, <2>1 DEF NoncesCount
  <2>2. CASE j = k /\ n = Len(sealed[k]) + 1
    BY <1>1, <2>2
  <2>3. CASE j = k /\ n \in 1..Len(sealed[k])
    BY <1>1, <2>3 DEF NoncesCount
  <2> QED
    BY <1>1, <2>1, <2>2, <2>3
<1>4. OpenedInOrder'
  <2> SUFFICES ASSUME NEW j \in SessionKeys
               PROVE  /\ Len(opened[j]) <= Len(sealed'[j])
                      /\ \A i \in 1..Len(opened[j]) : opened[j][i] = sealed'[j][i]
    BY DEF OpenedInOrder
  <2>1. CASE j # k
    BY <1>1, <2>1 DEF OpenedInOrder
  <2>2. CASE j = k
    <3>1. Len(opened[k]) <= Len(sealed[k]) /\ Len(opened[k]) \in Nat /\ Len(sealed[k]) \in Nat
      BY DEF OpenedInOrder
    <3> QED
      BY <1>1, <2>2, <3>1 DEF OpenedInOrder
  <2> QED
    BY <2>1, <2>2
<1>5. ASSUME NEW x, IsSealed(x)
      PROVE  IsSealed(x)'
  <2>1. /\ x \in Ciphertexts /\ x.key \in SessionKeys /\ x.iv.counter \in 1..MaxCount
        /\ x.iv.counter <= Len(sealed[x.key]) /\ x = sealed[x.key][x.iv.counter]
    BY <1>5 DEF IsSealed, Ciphertexts
  <2>2. x.iv.counter \in 1..Len(sealed[x.key]) /\ Len(sealed[x.key]) \in Nat
    BY <2>1, MaxCountAssumption
  <2>3. /\ x.iv.counter <= Len(sealed'[x.key])
        /\ sealed'[x.key][x.iv.counter] = sealed[x.key][x.iv.counter]
    BY <1>1, <2>1, <2>2
  <2> QED
    BY <2>1, <2>3 DEF IsSealed
<1>6. IsSealed(c)'
  BY <1>1 DEF IsSealed, SealedUnder
<1>7. Delivery!Seal(k)
  <2>1. \A i \in 1..Len(sealed[k]) : sealed[k][i].iv # c.iv
    BY DEF NoncesCount, SealedUnder
  <2> QED
    BY <1>1, <2>1 DEF Delivery!Seal
<1> QED
  BY <1>1, <1>2, <1>3, <1>4, <1>5, <1>6, <1>7 DEF Delivery!ChannelNext

\* Opening the message whose counter is the next one of a channel: it is the
\* next message that was sealed on it.
LEMMA OpenStep ==
    ASSUME CipherTypeOK, NoncesCount, OpenedInOrder,
           NEW k \in SessionKeys, NEW c, IsSealed(c),
           c.key = k, c.iv.counter = Len(opened[k]) + 1,
           opened' = [opened EXCEPT ![k] = Append(@, c)],
           sealed' = sealed
    PROVE  /\ CipherTypeOK' /\ NoncesCount' /\ OpenedInOrder'
           /\ Len(opened'[k]) = Len(opened[k]) + 1
           /\ \A j \in SessionKeys : j # k => opened'[j] = opened[j]
           /\ k.info = "SKReader" => c.body \in RequestBodies
           /\ \A x : IsSealed(x) => IsSealed(x)'
           /\ Delivery!ChannelNext
<1> USE DEF CipherTypeOK
<1>1. /\ c \in Ciphertexts /\ Len(opened[k]) + 1 <= Len(sealed[k])
      /\ c = sealed[k][Len(opened[k]) + 1]
  BY DEF IsSealed
<1>2. /\ opened' \in [SessionKeys -> Seq(Ciphertexts)]
      /\ Len(opened'[k]) = Len(opened[k]) + 1
      /\ opened'[k][Len(opened[k]) + 1] = c
      /\ \A i \in 1..Len(opened[k]) : opened'[k][i] = opened[k][i]
      /\ \A j \in SessionKeys : j # k => opened'[j] = opened[j]
  BY <1>1
<1>3. CipherTypeOK' /\ NoncesCount'
  BY <1>2 DEF NoncesCount, SealedUnder
<1>4. OpenedInOrder'
  <2> SUFFICES ASSUME NEW j \in SessionKeys
               PROVE  /\ Len(opened'[j]) <= Len(sealed[j])
                      /\ \A i \in 1..Len(opened'[j]) : opened'[j][i] = sealed[j][i]
    BY DEF OpenedInOrder
  <2>1. CASE j # k
    BY <1>2, <2>1 DEF OpenedInOrder
  <2>2. CASE j = k
    <3>1. \A i \in 1..Len(opened[k]) : opened'[k][i] = sealed[k][i]
      BY <1>2 DEF OpenedInOrder
    <3>2. \A i \in 1..(Len(opened[k]) + 1) : opened'[k][i] = sealed[k][i]
      BY <1>1, <1>2, <3>1
    <3> QED
      BY <1>1, <1>2, <2>2, <3>2
  <2> QED
    BY <2>1, <2>2
<1>5. SealedUnder(k, Len(opened[k]) + 1, c)
  BY <1>1 DEF NoncesCount
<1>6. Delivery!Open(k)
  BY <1>1 DEF Delivery!Open
<1>7. \A x : IsSealed(x) => IsSealed(x)'
  BY DEF IsSealed
<1> QED
  BY <1>1, <1>2, <1>3, <1>4, <1>5, <1>6, <1>7 DEF SealedUnder, Delivery!ChannelNext

\* A step that leaves the history alone.
LEMMA NoCipherStep ==
    ASSUME CipherTypeOK, NoncesCount, OpenedInOrder,
           sealed' = sealed, opened' = opened
    PROVE  /\ CipherTypeOK' /\ NoncesCount' /\ OpenedInOrder'
           /\ \A x : IsSealed(x) => IsSealed(x)'
  BY DEF CipherTypeOK, NoncesCount, SealedUnder, OpenedInOrder, IsSealed

\* What is in the transport stays sealed when sealed messages stay sealed.
LEMMA SealedDataStays ==
    ASSUME \A x : IsSealed(x) => IsSealed(x)'
    PROVE  \A data : IsSealedData(data) => IsSealedData(data)'
  BY DEF IsSealedData

-----------------------------------------------------------------------------
(* Requests and responses *)

\* What handle_decoded_request may return: it changes nothing, or the data is the
\* ciphertext of the next counter; a request of the library's reader leaves the
\* state alone.
Handled(h, key, count, state, data) ==
    \/ /\ h.ok = FALSE /\ h.count = count /\ h.state = state
       /\ h.outcome.items_request = <<>>
    \/ \E c :
       /\ data = {c} /\ h.ok = TRUE
       /\ count < MaxCount /\ h.count = count + 1
       /\ c.key = key /\ c.iv.counter = count + 1
       /\ c.body \in RequestBodies =>
             /\ h.state = state
             /\ h.outcome.items_request \in Seq(ItemsRequest)

\* handle_decoded_request returns nothing else.
LEMMA HandleResult ==
    ASSUME NEW t, NEW count \in 0..MaxCount, NEW state, NEW data,
           data = {} \/ \E c : data = {c},
           NEW h, h = handle_decoded_request(t, count, state, data)
    PROVE  Handled(h, sk_reader(t), count, state, data)
<1>1. CASE data = {}
  BY <1>1 DEF Handled, handle_decoded_request, Rejected, NoOutcome
<1>2. ASSUME NEW c, data = {c}
      PROVE  \/ /\ h.ok = FALSE /\ h.count = count /\ h.state = state
                /\ h.outcome.items_request = <<>>
             \/ /\ h.ok = TRUE
                /\ count < MaxCount /\ h.count = count + 1
                /\ c.key = sk_reader(t) /\ c.iv.counter = count + 1
                /\ c.body \in RequestBodies =>
                      /\ h.state = state
                      /\ h.outcome.items_request \in Seq(ItemsRequest)
  <2> DEFINE e == decrypt(sk_reader(t), c, count, TRUE)
  <2>1. (CHOOSE x \in data : TRUE) = c /\ data # {}
    BY <1>2, TheMember
  <2>2. CASE e.ok = FALSE /\ e.count = count
    BY <2>1, <2>2 DEF handle_decoded_request, Rejected, NoOutcome
  <2>3. CASE /\ e.ok = TRUE /\ count < MaxCount /\ e.count = count + 1
             /\ c.key = sk_reader(t) /\ c.iv.counter = count + 1
    <3>1. h.ok = TRUE /\ h.count = count + 1
      BY <2>1, <2>3 DEF handle_decoded_request
    <3>2. ASSUME c.body \in RequestBodies
          PROVE  h.state = state /\ h.outcome.items_request \in Seq(ItemsRequest)
      <4>1. PICK w \in Wanted : c.body = DeviceRequest(w)
        BY <3>2 DEF RequestBodies
      <4>2. c.body.kind = "ok" /\ w \subseteq Items /\ Mdl \in DocTypes
        BY <4>1, ReaderAssumption DEF DeviceRequest
      <4>3. h.state = state /\ h.outcome = validate_request(c.body, t)
        BY <2>1, <2>3, <4>2 DEF handle_decoded_request, parse_request
      <4>4. validate_request(c.body, t).items_request =
              [i \in DOMAIN c.body.doc_requests |->
                  [doc_type |-> c.body.doc_requests[i].doc_type,
                   items |-> c.body.doc_requests[i].items]]
        BY DEF validate_request
      <4>5. /\ DOMAIN c.body.doc_requests = 1..1
            /\ c.body.doc_requests[1] = [doc_type |-> Mdl, items |-> w, reader_auth |-> {}]
        BY <4>1 DEF DeviceRequest
      <4>6. [doc_type |-> Mdl, items |-> w] \in ItemsRequest
        BY <4>2 DEF ItemsRequest
      <4>7. validate_request(c.body, t).items_request \in [1..1 -> ItemsRequest]
        BY <4>4, <4>5, <4>6
      <4> QED
        BY <4>3, <4>7, SeqDef
    <3> QED
      BY <2>3, <3>1, <3>2
  <2>4. \/ e.ok = FALSE /\ e.count = count
        \/ /\ e.ok = TRUE /\ count < MaxCount /\ e.count = count + 1
           /\ c.key = sk_reader(t) /\ c.iv.counter = count + 1
    BY MaxCountAssumption DEF decrypt, open, get_initialization_vector
  <2> HIDE DEF e
  <2> QED
    BY <2>2, <2>3, <2>4
<1> QED
  BY <1>1, <1>2 DEF Handled

-----------------------------------------------------------------------------
(* The invariant: initial states *)

\* The initial states satisfy the inductive invariant.
LEMMA InitInv == Init => IndInv
<1> SUFFICES ASSUME Init PROVE IndInv
  OBVIOUS
<1> USE DEF Init, CipherInit, DeviceInit, ReaderInit
<1>1. TypeOK
  BY MaxCountAssumption DEF TypeOK, DeviceTypeOK, AwaitingRequest, NoOutcome
<1>2. CipherTypeOK /\ StateTypeOK /\ NetOK /\ PhaseOK
  BY DEF CipherTypeOK, StateTypeOK, NetOK, PhaseOK
<1>3. NoncesCount /\ OpenedInOrder
  BY DEF NoncesCount, OpenedInOrder
<1>4. ReaderCounts
  BY KeysAssumption, KeyType DEF ReaderCounts, Unstarted
<1>5. DeviceCounts
  BY KeysAssumption, KeyType DEF DeviceCounts
<1> QED
  BY <1>1, <1>2, <1>3, <1>4, <1>5 DEF IndInv, SessionInv

-----------------------------------------------------------------------------
(* The invariant: steps that do not encrypt or decrypt *)

\* The parts of the invariant that a step preserves when it leaves the history,
\* the readers and the transport alone.
LEMMA QuietStep ==
    ASSUME IndInv, UNCHANGED <<cipherVars, readerVars>>
    PROVE  /\ CipherTypeOK' /\ NoncesCount' /\ OpenedInOrder' /\ ReaderCounts'
           /\ net' = net => NetOK'
           /\ \A data : IsSealedData(data) => IsSealedData(data)'
<1>1. /\ sealed' = sealed /\ opened' = opened
      /\ rDevice' = rDevice /\ rReaderCount' = rReaderCount /\ rDeviceCount' = rDeviceCount
  BY DEF cipherVars, readerVars
<1>2. /\ CipherTypeOK' /\ NoncesCount' /\ OpenedInOrder'
      /\ \A x : IsSealed(x) => IsSealed(x)'
  BY <1>1, NoCipherStep DEF IndInv, SessionInv
<1>3. \A data : IsSealedData(data) => IsSealedData(data)'
  BY <1>2, SealedDataStays
<1>4. ReaderCounts'
  BY <1>1 DEF IndInv, SessionInv, ReaderCounts, Unstarted
<1>5. net' = net => NetOK'
  BY <1>3 DEF IndInv, SessionInv, NetOK
<1> QED
  BY <1>2, <1>3, <1>4, <1>5

\* The state of the session stays well formed while it is not replaced.
LEMMA StateStays ==
    ASSUME StateTypeOK, dState' = dState,
           \A data : IsSealedData(data) => IsSealedData(data)'
    PROVE  StateTypeOK'
  BY DEF StateTypeOK

\* A new ephemeral key has empty channels.
LEMMA InitialiseInv == IndInv /\ DevInitialise => IndInv'
<1> SUFFICES ASSUME IndInv, NEW d \in EDeviceKeys, Initialise(d),
                    UNCHANGED <<readerVars, presentationVars>>
             PROVE  IndInv'
  BY DEF DevInitialise
<1> USE DEF Initialise, presentationVars
<1>1. UNCHANGED <<cipherVars, readerVars>>
  BY DEF cipherVars
<1>2. CipherTypeOK' /\ NoncesCount' /\ OpenedInOrder' /\ ReaderCounts' /\ NetOK' /\ StateTypeOK'
  BY <1>1, QuietStep, StateStays DEF IndInv, SessionInv
<1>3. TypeOK'
  BY DEF IndInv, TypeOK, DeviceTypeOK, readerVars
<1>4. PhaseOK'
  BY DEF IndInv, SessionInv, PhaseOK
<1>5. DeviceCounts'
  BY KeysAssumption DEF IndInv, SessionInv, PhaseOK, DeviceCounts
<1> QED
  BY <1>2, <1>3, <1>4, <1>5 DEF IndInv, SessionInv

\* Showing the engagement changes no counter.
LEMMA ShowQrInv == IndInv /\ DevShowQr => IndInv'
<1> SUFFICES ASSUME IndInv, DevShowQr PROVE IndInv'
  OBVIOUS
<1> USE DEF DevShowQr, QrEngagement
<1>1. UNCHANGED <<cipherVars, readerVars>>
  BY DEF cipherVars
<1>2. CipherTypeOK' /\ NoncesCount' /\ OpenedInOrder' /\ ReaderCounts' /\ NetOK' /\ StateTypeOK'
  BY <1>1, QuietStep, StateStays DEF IndInv, SessionInv
<1>3. dKey \in EDeviceKeys
  BY DEF IndInv, SessionInv, PhaseOK, TypeOK, DeviceTypeOK
<1>4. TypeOK'
  BY <1>3 DEF IndInv, TypeOK, DeviceTypeOK, readerVars
<1>5. PhaseOK' /\ DeviceCounts'
  BY DEF IndInv, SessionInv, PhaseOK, DeviceCounts
<1> QED
  BY <1>2, <1>4, <1>5 DEF IndInv, SessionInv

\* prepare_response replaces the state by a well-formed prepared response.
LEMMA PrepareInv == IndInv /\ DevPrepareResponse => IndInv'
<1> SUFFICES ASSUME IndInv, NEW permitted \in Permissions, PrepareResponse(permitted),
                    UNCHANGED <<readerVars, net, qrs>>
             PROVE  IndInv'
  BY DEF DevPrepareResponse
<1> USE DEF PrepareResponse
<1>1. UNCHANGED <<cipherVars, readerVars>>
  BY DEF cipherVars
<1>2. CipherTypeOK' /\ NoncesCount' /\ OpenedInOrder' /\ ReaderCounts' /\ NetOK'
  BY <1>1, QuietStep
<1>3. /\ dState'.tag = "Signing" /\ dState' = Signing(dState'.p)
      /\ dState'.p \in PreparedDeviceResponse
  BY PreparedResponseType DEF Signing
<1>4. StateTypeOK'
  BY <1>3 DEF StateTypeOK
<1>5. TypeOK'
  BY <1>3 DEF IndInv, TypeOK, DeviceTypeOK, readerVars
<1>6. PhaseOK' /\ DeviceCounts'
  BY DEF IndInv, SessionInv, PhaseOK, DeviceCounts
<1> QED
  BY <1>2, <1>4, <1>5, <1>6 DEF IndInv, SessionInv

\* get_next_signature_payload hands out a payload of this session.
LEMMA GetPayloadInv == IndInv /\ DevGetPayload => IndInv'
<1> SUFFICES ASSUME IndInv, DevGetPayload PROVE IndInv'
  OBVIOUS
<1> USE DEF DevGetPayload, GetNextSignaturePayload, presentationVars
<1>1. UNCHANGED <<cipherVars, readerVars>>
  BY DEF cipherVars
<1>2. CipherTypeOK' /\ NoncesCount' /\ OpenedInOrder' /\ ReaderCounts' /\ NetOK' /\ StateTypeOK'
  BY <1>1, QuietStep, StateStays DEF IndInv, SessionInv
<1>3. NextPayload \subseteq Payload
  <2>1. dTranscript \in Transcripts
    BY KeyType DEF dTranscript, IndInv, TypeOK, DeviceTypeOK, SessionInv, PhaseOK
  <2>2. CASE dState.tag # "Signing"
    BY <2>2 DEF NextPayload
  <2>3. CASE dState.tag = "Signing"
    <3>1. \A doc \in dState.p.prepared : doc.doc_type \in DocTypes
      BY <2>3 DEF IndInv, TypeOK, DeviceTypeOK, PreparedDeviceResponse, PreparedDocument
    <3> QED
      BY <2>1, <2>3, <3>1 DEF NextPayload, PayloadOf, Payload
  <2> QED
    BY <2>2, <2>3
<1>4. TypeOK'
  BY <1>3 DEF IndInv, TypeOK, DeviceTypeOK, readerVars
<1>5. PhaseOK' /\ DeviceCounts'
  BY DEF IndInv, SessionInv, PhaseOK, DeviceCounts
<1> QED
  BY <1>2, <1>4, <1>5 DEF IndInv, SessionInv

\* retrieve_response hands the transport what was sealed when signing ended.
LEMMA SendInv == IndInv /\ DevSendResponse => IndInv'
<1> SUFFICES ASSUME IndInv, DevSendResponse PROVE IndInv'
  OBVIOUS
<1> USE DEF DevSendResponse, RetrieveResponse
<1>1. UNCHANGED <<cipherVars, readerVars>>
  BY DEF cipherVars
<1>2. /\ CipherTypeOK' /\ NoncesCount' /\ OpenedInOrder' /\ ReaderCounts'
      /\ \A data : IsSealedData(data) => IsSealedData(data)'
  BY <1>1, QuietStep
<1>3. /\ dState.msg \in [kind : {"data"}, data : SUBSET Ciphertexts,
                         status : SUBSET {"SessionEncryptionError"}]
      /\ IsSealedData(dState.msg.data)
  BY DEF IndInv, SessionInv, StateTypeOK, AwaitingRequest
<1>4. NetOK'
  BY <1>2, <1>3 DEF IndInv, SessionInv, NetOK
<1>5. StateTypeOK'
  BY DEF StateTypeOK
<1>6. TypeOK'
  BY DEF IndInv, TypeOK, DeviceTypeOK, readerVars, AwaitingRequest
<1>7. PhaseOK' /\ DeviceCounts'
  BY DEF IndInv, SessionInv, PhaseOK, DeviceCounts
<1> QED
  BY <1>2, <1>4, <1>5, <1>6, <1>7 DEF IndInv, SessionInv

\* A session that ends takes its counters with it; its keys never come back.
LEMMA GoneInv ==
    ASSUME IndInv, Gone, UNCHANGED <<cipherVars, readerVars, presentationVars>>
    PROVE  IndInv'
<1> USE DEF Gone, presentationVars
<1>1. CipherTypeOK' /\ NoncesCount' /\ OpenedInOrder' /\ ReaderCounts' /\ NetOK'
  BY QuietStep
<1>2. StateTypeOK' /\ PhaseOK'
  BY DEF StateTypeOK, PhaseOK
<1>3. TypeOK'
  BY MaxCountAssumption DEF IndInv, TypeOK, DeviceTypeOK, readerVars, AwaitingRequest, NoOutcome
<1>4. DeviceCounts'
  BY KeysAssumption DEF IndInv, SessionInv, DeviceCounts, cipherVars
<1> QED
  BY <1>1, <1>2, <1>3, <1>4 DEF IndInv, SessionInv

\* Dropping the owner, or the end of the process, in any phase.
LEMMA DropInv == IndInv /\ DevDrop => IndInv'
  BY GoneInv DEF DevDrop, Drop

-----------------------------------------------------------------------------
(* The invariant: steps that encrypt *)

\* The last step of signing seals the response as the next message of the device's
\* channel, or leaves the history alone.
LEMMA FinishInv ==
    ASSUME IndInv, dPhase = "established", NEW p \in PreparedDeviceResponse,
           NEW ok \in BOOLEAN, FinishSigning(p, ok), dPayload' = {},
           UNCHANGED <<dPhase, dUsedKeys, dKey, dReader, dReaderCount, dOutcome, dConsent,
                       opened, readerVars, presentationVars>>
    PROVE  IndInv' /\ (Delivery!ChannelNext \/ UNCHANGED <<sealed, opened>>)
<1> USE DEF presentationVars
<1>1. PICK key : key = sk_device(dTranscript)
  OBVIOUS
<1>2. /\ dKey \in EDeviceKeys /\ dReader \in EReaderKeys
      /\ dTranscript = SessionTranscript(dKey, dReader)
      /\ dDeviceCount \in 0..MaxCount
  BY DEF IndInv, TypeOK, DeviceTypeOK, SessionInv, PhaseOK, dTranscript
<1>k. key = sk_device(SessionTranscript(dKey, dReader))
  BY <1>1, <1>2
<1>e. PICK e : e = encrypt(key, finalize_response(p), dDeviceCount, FALSE, ok)
  OBVIOUS
<1>0. \/ e.ok = FALSE /\ e.count = dDeviceCount /\ e.data = {}
      \/ /\ e.ok = TRUE /\ dDeviceCount < MaxCount /\ e.count = dDeviceCount + 1
         /\ e.data = {[key |-> key,
                       iv |-> [identifier |-> 1, counter |-> dDeviceCount + 1],
                       body |-> finalize_response(p)]}
  BY <1>2, <1>e, MaxCountAssumption DEF encrypt, seal, get_initialization_vector
<1>s. PICK status : /\ status = IF e.ok THEN {} ELSE {"SessionEncryptionError"}
                    /\ status \subseteq {"SessionEncryptionError"}
  OBVIOUS
<1>f. /\ dDeviceCount' = e.count
      /\ dState' = ReadyToRespond(SessionData(e.data, status))
      /\ RecordSealed(key, e.data)
  BY <1>1, <1>e, <1>s DEF FinishSigning
<1>3. key \in SessionKeys /\ key.info = "SKDevice"
  BY <1>2, <1>k, KeyType
<1>4. finalize_response(p) \in ResponseBodies
  BY DEF finalize_response, ResponseBodies, PreparedDeviceResponse
<1>5. Len(sealed[key]) = dDeviceCount
  BY <1>2, <1>k DEF IndInv, SessionInv, DeviceCounts
<1>6. /\ dState'.tag = "ReadyToRespond" /\ dState' = ReadyToRespond(dState'.msg)
      /\ dState'.msg = [kind |-> "data", data |-> e.data, status |-> status]
  BY <1>f DEF ReadyToRespond, SessionData
<1>7. PhaseOK'
  BY DEF IndInv, SessionInv, PhaseOK
<1>8. CASE e.ok = FALSE /\ e.count = dDeviceCount /\ e.data = {}
  <2>1. UNCHANGED <<cipherVars, readerVars>>
    BY <1>f, <1>8 DEF RecordSealed, cipherVars
  <2>2. CipherTypeOK' /\ NoncesCount' /\ OpenedInOrder' /\ ReaderCounts' /\ NetOK'
    BY <2>1, QuietStep
  <2>3. StateTypeOK'
    BY <1>6, <1>8, <1>s DEF StateTypeOK, IsSealedData
  <2>4. TypeOK'
    BY <1>f, <1>6, <1>8 DEF IndInv, TypeOK, DeviceTypeOK, readerVars
  <2>5. DeviceCounts'
    BY <1>f, <1>8, <2>1 DEF IndInv, SessionInv, DeviceCounts, cipherVars
  <2> QED
    BY <1>7, <2>1, <2>2, <2>3, <2>4, <2>5 DEF IndInv, SessionInv, cipherVars
<1>9. CASE /\ e.ok = TRUE /\ dDeviceCount < MaxCount /\ e.count = dDeviceCount + 1
           /\ e.data = {[key |-> key,
                         iv |-> [identifier |-> 1, counter |-> dDeviceCount + 1],
                         body |-> finalize_response(p)]}
  <2>c. PICK c : c = [key |-> key, iv |-> [identifier |-> 1, counter |-> dDeviceCount + 1],
                      body |-> finalize_response(p)]
    OBVIOUS
  <2>1. c \in Ciphertexts
    BY <1>2, <1>3, <1>4, <1>9, <2>c, MaxCountAssumption DEF Ciphertexts
  <2>2. SealedUnder(key, Len(sealed[key]) + 1, c)
    BY <1>3, <1>5, <2>c DEF SealedUnder
  <2>3. sealed' = [sealed EXCEPT ![key] = Append(@, c)]
    BY <1>f, <1>9, <2>c, TheMember DEF RecordSealed
  <2>4. /\ CipherTypeOK' /\ NoncesCount' /\ OpenedInOrder'
        /\ Len(sealed'[key]) = Len(sealed[key]) + 1
        /\ \A j \in SessionKeys : j # key => sealed'[j] = sealed[j]
        /\ \A x : IsSealed(x) => IsSealed(x)'
        /\ IsSealed(c)'
        /\ Delivery!ChannelNext
    BY <1>3, <2>1, <2>2, <2>3, SealStep DEF IndInv, SessionInv
  <2>5. \A data : IsSealedData(data) => IsSealedData(data)'
    BY <2>4, SealedDataStays
  <2>6. e.data = {c}
    BY <1>9, <2>c
  <2>7. StateTypeOK'
    BY <1>6, <1>s, <2>1, <2>4, <2>6 DEF StateTypeOK, IsSealedData
  <2>8. NetOK'
    BY <2>5 DEF IndInv, SessionInv, NetOK
  <2>9. TypeOK'
    BY <1>f, <1>2, <1>6, <1>9, MaxCountAssumption DEF IndInv, TypeOK, DeviceTypeOK, readerVars
  <2>10. \A d \in EDeviceKeys, r \in EReaderKeys :
            sealed'[sk_reader(SessionTranscript(d, r))] = sealed[sk_reader(SessionTranscript(d, r))]
    BY <1>2, <2>4, KeyType, KeyInjective, <1>k
  <2>11. ReaderCounts'
    BY <2>10 DEF IndInv, SessionInv, ReaderCounts, Unstarted, readerVars
  <2>12. \A d \in EDeviceKeys, r \in EReaderKeys : d # dKey \/ r # dReader =>
            sealed'[sk_device(SessionTranscript(d, r))] = sealed[sk_device(SessionTranscript(d, r))]
    BY <1>2, <2>4, KeyType, KeyInjective, <1>k
  <2>13. DeviceCounts'
    <3> SUFFICES ASSUME NEW d \in EDeviceKeys, NEW r \in EReaderKeys
                 PROVE  LET t == SessionTranscript(d, r)
                        IN  /\ d = dKey /\ r = dReader =>
                                 /\ Len(sealed'[sk_device(t)]) = dDeviceCount'
                                 /\ Len(opened[sk_reader(t)]) = dReaderCount
                            /\ d \notin dUsedKeys \/ (d = dKey /\ r # dReader) =>
                                 /\ sealed'[sk_device(t)] = <<>>
                                 /\ opened[sk_reader(t)] = <<>>
      BY DEF DeviceCounts
    <3>1. CASE d = dKey /\ r = dReader
      <4>1. sk_device(SessionTranscript(d, r)) = key
        BY <1>k, <3>1
      <4>2. d \in dUsedKeys
        BY <3>1 DEF IndInv, SessionInv, PhaseOK
      <4> QED
        BY <1>f, <1>5, <1>9, <2>4, <3>1, <4>1, <4>2 DEF IndInv, SessionInv, DeviceCounts
    <3>2. CASE d # dKey \/ r # dReader
      BY <2>12, <3>2 DEF IndInv, SessionInv, DeviceCounts
    <3> QED
      BY <3>1, <3>2
  <2> QED
    BY <1>7, <2>4, <2>7, <2>8, <2>9, <2>11, <2>13 DEF IndInv, SessionInv
<1> QED
  BY <1>0, <1>8, <1>9

\* submit_next_signature: nothing, one more signed document, or the last step.
LEMMA SubmitInv ==
    IndInv /\ DevSubmitSignature =>
        IndInv' /\ (Delivery!ChannelNext \/ UNCHANGED <<sealed, opened>>)
<1> SUFFICES ASSUME IndInv, NEW ok \in BOOLEAN, SubmitNextSignature(ok),
                    UNCHANGED <<readerVars, presentationVars>>
             PROVE  IndInv' /\ (Delivery!ChannelNext \/ UNCHANGED <<sealed, opened>>)
  BY DEF DevSubmitSignature
<1>1. /\ dPhase = "established" /\ dPayload' = {}
      /\ UNCHANGED <<dPhase, dUsedKeys, dKey, dReader, dReaderCount, dOutcome, dConsent,
                     opened>>
  BY DEF SubmitNextSignature
<1>2. ASSUME UNCHANGED <<dDeviceCount, sealed>>, StateTypeOK',
             dState'.tag \in {"AwaitingRequest", "Signing", "ReadyToRespond"},
             dState'.tag = "Signing" => dState'.p \in PreparedDeviceResponse
      PROVE  IndInv' /\ UNCHANGED <<sealed, opened>>
  <2>1. UNCHANGED <<cipherVars, readerVars>>
    BY <1>1, <1>2 DEF cipherVars
  <2>2. CipherTypeOK' /\ NoncesCount' /\ OpenedInOrder' /\ ReaderCounts' /\ NetOK'
    BY <2>1, QuietStep DEF presentationVars
  <2>3. TypeOK'
    BY <1>1, <1>2 DEF IndInv, TypeOK, DeviceTypeOK, readerVars, presentationVars
  <2>4. PhaseOK' /\ DeviceCounts'
    BY <1>1, <1>2 DEF IndInv, SessionInv, PhaseOK, DeviceCounts
  <2> QED
    BY <1>1, <1>2, <2>2, <2>3, <2>4 DEF IndInv, SessionInv
<1>3. CASE dState.tag # "Signing"
  <2>1. UNCHANGED <<dState, dDeviceCount, sealed>>
    BY <1>3 DEF SubmitNextSignature
  <2>2. UNCHANGED <<cipherVars, readerVars>>
    BY <1>1, <2>1 DEF cipherVars
  <2>3. StateTypeOK'
    BY <2>1, <2>2, QuietStep, StateStays DEF IndInv, SessionInv
  <2> QED
    BY <1>2, <2>1, <2>3 DEF IndInv, TypeOK, DeviceTypeOK
<1>4. CASE dState.tag = "Signing" /\ dState.p.prepared = {} /\ FinishSigning(dState.p, ok)
  <2>1. dState.p \in PreparedDeviceResponse
    BY <1>4 DEF IndInv, TypeOK, DeviceTypeOK
  <2> QED
    BY <1>1, <1>4, <2>1, FinishInv
<1>5. ASSUME dState.tag = "Signing", NEW doc \in dState.p.prepared,
             LET p == [dState.p EXCEPT !.prepared = @ \ {doc},
                                       !.signed = @ \cup {finalize(doc, dPayload)}]
             IN  IF p.prepared = {} THEN FinishSigning(p, ok)
                 ELSE dState' = Signing(p) /\ UNCHANGED <<dDeviceCount, sealed>>
      PROVE  IndInv' /\ (Delivery!ChannelNext \/ UNCHANGED <<sealed, opened>>)
  <2>p. PICK p : p = [dState.p EXCEPT !.prepared = @ \ {doc},
                                      !.signed = @ \cup {finalize(doc, dPayload)}]
    OBVIOUS
  <2>1. dState.p \in PreparedDeviceResponse /\ dPayload \subseteq Payload
    BY <1>5 DEF IndInv, TypeOK, DeviceTypeOK
  <2>2. finalize(doc, dPayload) \in SignedDocument
    BY <2>1 DEF PreparedDeviceResponse, PreparedDocument, SignedDocument, finalize
  <2>3. p \in PreparedDeviceResponse
    BY <2>1, <2>2, <2>p DEF PreparedDeviceResponse
  <2>4. CASE p.prepared = {}
    <3>1. FinishSigning(p, ok)
      BY <1>5, <2>4, <2>p
    <3> QED
      BY <1>1, <2>3, <3>1, FinishInv
  <2>5. CASE p.prepared # {}
    <3>1. dState' = Signing(p) /\ UNCHANGED <<dDeviceCount, sealed>>
      BY <1>5, <2>5, <2>p
    <3>2. dState'.tag = "Signing" /\ dState' = Signing(dState'.p) /\ dState'.p = p
      BY <3>1 DEF Signing
    <3>3. StateTypeOK'
      BY <2>3, <3>2 DEF StateTypeOK
    <3> QED
      BY <1>2, <2>3, <3>1, <3>2, <3>3
  <2> QED
    BY <2>4, <2>5
<1> QED
  BY <1>3, <1>4, <1>5 DEF SubmitNextSignature

\* Reader r seals its next request c, for the elements w and the device key d,
\* and sends it in message m: the common part of establish_session and new_request.
ReaderSeals(r, d, w, count, c, m) ==
    /\ count < MaxCount
    /\ rDevice[r] \in {NoKey, d}
    /\ rReaderCount[r] = count
    /\ rDevice[r] = NoKey => count = 0 /\ rDeviceCount[r] = 0
    /\ c = [key |-> sk_reader(SessionTranscript(d, r)),
            iv |-> [identifier |-> 0, counter |-> count + 1],
            body |-> DeviceRequest(w)]
    /\ sealed' = [sealed EXCEPT ![sk_reader(SessionTranscript(d, r))] = Append(@, c)]
    /\ opened' = opened
    /\ rDevice' = [rDevice EXCEPT ![r] = d]
    /\ rReaderCount' = [rReaderCount EXCEPT ![r] = count + 1]
    /\ m.data = {c}
    /\ \/ m \in [kind : {"establishment"}, e_reader_key : EReaderKeys,
                  data : SUBSET Ciphertexts]
       \/ m \in [kind : {"data"}, data : SUBSET Ciphertexts,
                  status : SUBSET {"SessionEncryptionError"}]
    /\ net' = net \cup {m}
    /\ UNCHANGED <<rDeviceCount, rOutcome, deviceVars, qrs>>

\* It changes nothing but the reader's own counter and its own channel.
LEMMA ReaderSealInv ==
    ASSUME IndInv, NEW r \in EReaderKeys, NEW d \in EDeviceKeys, NEW w \in Wanted,
           NEW count \in 0..MaxCount, NEW c, NEW m, ReaderSeals(r, d, w, count, c, m)
    PROVE  IndInv' /\ Delivery!ChannelNext
<1> USE DEF ReaderSeals
<1>k. PICK key : key = sk_reader(SessionTranscript(d, r))
  OBVIOUS
<1>1. key \in SessionKeys /\ key.info = "SKReader"
  BY <1>k, KeyType
<1>2. c \in Ciphertexts
  BY <1>1, <1>k, MaxCountAssumption DEF Ciphertexts, RequestBodies
<1>3. Len(sealed[key]) = count
  <2>1. CASE rDevice[r] = d
    BY <1>k, <2>1 DEF IndInv, SessionInv, ReaderCounts
  <2>2. CASE rDevice[r] # d
    BY <1>k, <2>2 DEF IndInv, SessionInv, ReaderCounts
  <2> QED
    BY <2>1, <2>2
<1>4. SealedUnder(key, Len(sealed[key]) + 1, c)
  BY <1>3, <1>k DEF SealedUnder, RequestBodies
<1>5. /\ CipherTypeOK' /\ NoncesCount' /\ OpenedInOrder'
      /\ Len(sealed'[key]) = Len(sealed[key]) + 1
      /\ \A j \in SessionKeys : j # key => sealed'[j] = sealed[j]
      /\ \A x : IsSealed(x) => IsSealed(x)'
      /\ IsSealed(c)'
      /\ Delivery!ChannelNext
  BY <1>1, <1>2, <1>4, <1>k, SealStep DEF IndInv, SessionInv
<1>6. \A data : IsSealedData(data) => IsSealedData(data)'
  BY <1>5, SealedDataStays
<1>7. IsSealedData(m.data)'
  BY <1>5 DEF IsSealedData
<1>8. NetOK'
  BY <1>6, <1>7 DEF IndInv, SessionInv, NetOK
<1>9. StateTypeOK' /\ PhaseOK'
  BY <1>6, StateStays DEF IndInv, SessionInv, PhaseOK, deviceVars
<1>10. TypeOK'
  BY MaxCountAssumption DEF IndInv, TypeOK, DeviceTypeOK, deviceVars
<1>11. \A e \in EDeviceKeys, s \in EReaderKeys :
          sealed'[sk_device(SessionTranscript(e, s))] = sealed[sk_device(SessionTranscript(e, s))]
  BY <1>5, <1>k, KeyType, KeyInjective
<1>12. DeviceCounts'
  <2>1. UNCHANGED <<dKey, dReader, dUsedKeys, dDeviceCount, dReaderCount, opened>>
    BY DEF deviceVars
  <2> HIDE DEF ReaderSeals
  <2> QED
    BY <1>11, <2>1 DEF IndInv, SessionInv, DeviceCounts
<1>13. \A e \in EDeviceKeys, s \in EReaderKeys : e # d \/ s # r =>
          sealed'[sk_reader(SessionTranscript(e, s))] = sealed[sk_reader(SessionTranscript(e, s))]
  BY <1>5, <1>k, KeyType, KeyInjective
<1>14. ReaderCounts'
  <2> SUFFICES ASSUME NEW e \in EDeviceKeys, NEW s \in EReaderKeys
               PROVE  LET t == SessionTranscript(e, s)
                      IN  IF rDevice'[s] = e
                          THEN /\ Len(sealed'[sk_reader(t)]) = rReaderCount'[s]
                               /\ Len(opened[sk_device(t)]) = rDeviceCount[s]
                          ELSE /\ sealed'[sk_reader(t)] = <<>>
                               /\ opened[sk_device(t)] = <<>>
    <3>1. Unstarted'
      BY KeysAssumption DEF IndInv, TypeOK, SessionInv, ReaderCounts, Unstarted
    <3> QED
      BY <3>1 DEF ReaderCounts
  <2>1. rDevice \in [EReaderKeys -> EDeviceKeys \cup {NoKey}]
        /\ rReaderCount \in [EReaderKeys -> 0..MaxCount] /\ d # NoKey
    BY KeysAssumption DEF IndInv, TypeOK
  <2>2. IF rDevice[s] = e
        THEN /\ Len(sealed[sk_reader(SessionTranscript(e, s))]) = rReaderCount[s]
             /\ Len(opened[sk_device(SessionTranscript(e, s))]) = rDeviceCount[s]
        ELSE /\ sealed[sk_reader(SessionTranscript(e, s))] = <<>>
             /\ opened[sk_device(SessionTranscript(e, s))] = <<>>
    BY DEF IndInv, SessionInv, ReaderCounts
  <2>3. CASE s = r /\ e = d
    <3>1. rDevice'[s] = e /\ rReaderCount'[s] = count + 1
      BY <2>1, <2>3
    <3>2. Len(sealed'[sk_reader(SessionTranscript(e, s))]) = count + 1
      BY <1>3, <1>5, <1>k, <2>3
    <3>3. Len(opened[sk_device(SessionTranscript(e, s))]) = rDeviceCount[s]
      BY <2>1, <2>2, <2>3
    <3> QED
      BY <3>1, <3>2, <3>3
  <2>4. CASE s = r /\ e # d
    <3>1. rDevice'[s] # e /\ (rDevice[s] # e)
      BY <2>1, <2>4, KeysAssumption
    <3> QED
      BY <1>13, <2>2, <2>4, <3>1
  <2>5. CASE s # r
    <3>1. rDevice'[s] = rDevice[s] /\ rReaderCount'[s] = rReaderCount[s]
      BY <2>1, <2>5
    <3> QED
      BY <1>13, <2>2, <2>5, <3>1
  <2> QED
    BY <2>3, <2>4, <2>5
<1> QED
  BY <1>5, <1>8, <1>9, <1>10, <1>12, <1>14 DEF IndInv, SessionInv

\* establish_session opens the reader's channel with its first request.
LEMMA RdrEstablishInv ==
    ASSUME IndInv, NEW r \in EReaderKeys, RdrEstablish(r)
    PROVE  IndInv' /\ Delivery!ChannelNext
<1>1. PICK d \in qrs, w \in Wanted :
        EstablishSession(r, d, w) /\ net' = net \cup {EstablishmentFor(r, d, w)}
  BY DEF RdrEstablish
<1>2. d \in EDeviceKeys /\ rDevice[r] = NoKey
  BY <1>1 DEF IndInv, TypeOK, EstablishSession
<1>3. PICK key : key = sk_reader(SessionTranscript(d, r))
  OBVIOUS
<1>4. PICK e : e = encrypt(key, DeviceRequest(w), 0, TRUE, TRUE)
  OBVIOUS
<1>5. PICK c : c = [key |-> key, iv |-> [identifier |-> 0, counter |-> 1],
                    body |-> DeviceRequest(w)]
  OBVIOUS
<1>6. e.ok = TRUE /\ e.count = 1 /\ e.data = {c}
  BY <1>4, <1>5, MaxCountAssumption DEF encrypt, seal, get_initialization_vector
<1>7. /\ rDevice' = [rDevice EXCEPT ![r] = d]
      /\ rReaderCount' = [rReaderCount EXCEPT ![r] = 1]
      /\ sealed' = [sealed EXCEPT ![key] = Append(@, c)]
      /\ UNCHANGED <<rDeviceCount, rOutcome, opened>>
  BY <1>1, <1>3, <1>4, <1>6, TheMember DEF EstablishSession, RecordSealed
<1>8. PICK m : m = [kind |-> "establishment", e_reader_key |-> r, data |-> {c}]
  OBVIOUS
<1>9. net' = net \cup {m}
  BY <1>1, <1>3, <1>4, <1>6, <1>8 DEF EstablishmentFor, SessionEstablishment
<1>10. c \in Ciphertexts
  BY <1>2, <1>3, <1>5, KeyType, MaxCountAssumption DEF Ciphertexts, RequestBodies
<1>11. /\ m.data = {c}
       /\ m \in [kind : {"establishment"}, e_reader_key : EReaderKeys,
                  data : SUBSET Ciphertexts]
  BY <1>8, <1>10
<1>12. /\ rReaderCount[r] = 0 /\ rDeviceCount[r] = 0
       /\ 0 \in 0..MaxCount /\ 0 < MaxCount
  BY <1>2, MaxCountAssumption DEF IndInv, SessionInv, ReaderCounts, Unstarted
<1>13. UNCHANGED <<rDeviceCount, rOutcome, deviceVars, qrs>> /\ opened' = opened
  BY <1>7 DEF RdrEstablish
<1>14. ReaderSeals(r, d, w, 0, c, m)
  BY <1>2, <1>3, <1>5, <1>7, <1>9, <1>11, <1>12, <1>13 DEF ReaderSeals
<1> QED
  BY <1>2, <1>12, <1>14, ReaderSealInv

\* new_request seals the next request of an established reader.
LEMMA RdrNewRequestInv ==
    ASSUME IndInv, NEW r \in EReaderKeys, RdrNewRequest(r)
    PROVE  IndInv' /\ Delivery!ChannelNext
<1>1. PICK w \in Wanted : NewRequest(r, w) /\ net' = net \cup {RequestFor(r, w)}
  BY DEF RdrNewRequest
<1>d. PICK d : d = rDevice[r]
  OBVIOUS
<1>2. /\ d \in EDeviceKeys /\ d # NoKey /\ rTranscript(r) = SessionTranscript(d, r)
      /\ rReaderCount[r] \in 0..MaxCount
      /\ rDevice \in [EReaderKeys -> EDeviceKeys \cup {NoKey}]
  BY <1>1, <1>d DEF IndInv, TypeOK, NewRequest, rTranscript
<1>n. PICK count \in 0..MaxCount : count = rReaderCount[r]
  BY <1>2
<1>3. PICK key : key = sk_reader(SessionTranscript(d, r))
  OBVIOUS
<1>4. PICK e : e = encrypt(key, DeviceRequest(w), count, TRUE, TRUE)
  OBVIOUS
<1>5. PICK c : c = [key |-> key, iv |-> [identifier |-> 0, counter |-> count + 1],
                    body |-> DeviceRequest(w)]
  OBVIOUS
<1>6. e.ok
  BY <1>1, <1>2, <1>n, <1>3, <1>4 DEF NewRequest
<1>7. count < MaxCount /\ e.count = count + 1 /\ e.data = {c}
  BY <1>4, <1>5, <1>6, MaxCountAssumption DEF encrypt, seal, get_initialization_vector
<1>8. /\ rReaderCount' = [rReaderCount EXCEPT ![r] = count + 1]
      /\ sealed' = [sealed EXCEPT ![key] = Append(@, c)]
      /\ UNCHANGED <<rDevice, rDeviceCount, rOutcome, opened>>
  <2>1. /\ rReaderCount' = [rReaderCount EXCEPT ![r] = e.count]
        /\ RecordSealed(key, e.data)
        /\ UNCHANGED <<rDevice, rDeviceCount, rOutcome, opened>>
    BY <1>1, <1>2, <1>n, <1>3, <1>4 DEF NewRequest
  <2> QED
    BY <1>7, <2>1, TheMember DEF RecordSealed
<1>9. PICK m : m = [kind |-> "data", data |-> {c}, status |-> {}]
  OBVIOUS
<1>10. net' = net \cup {m}
  BY <1>1, <1>2, <1>n, <1>3, <1>4, <1>7, <1>9 DEF RequestFor, SessionData
<1>11. c \in Ciphertexts
  BY <1>2, <1>3, <1>5, <1>7, KeyType, MaxCountAssumption DEF Ciphertexts, RequestBodies
<1>12. /\ m.data = {c}
       /\ m \in [kind : {"data"}, data : SUBSET Ciphertexts,
                  status : SUBSET {"SessionEncryptionError"}]
  BY <1>9, <1>11
<1>13. rDevice' = [rDevice EXCEPT ![r] = d]
  BY <1>2, <1>8, <1>d
<1>14. UNCHANGED <<rDeviceCount, rOutcome, deviceVars, qrs>> /\ opened' = opened
  BY <1>8 DEF RdrNewRequest
<1>15. ReaderSeals(r, d, w, count, c, m)
  BY <1>2, <1>d, <1>n, <1>3, <1>5, <1>7, <1>8, <1>10, <1>12, <1>13, <1>14 DEF ReaderSeals
<1> QED
  BY <1>2, <1>15, ReaderSealInv

-----------------------------------------------------------------------------
(* The invariant: steps that decrypt *)

\* handle_decoded_request on data that an endpoint sealed, or that opens under no
\* key, in the session of the device with reader r: the history moves with the
\* counter.
LEMMA DeviceOpens ==
    ASSUME IndInv, NEW d \in EDeviceKeys, NEW r \in EReaderKeys, NEW state,
           NEW count \in 0..MaxCount, NEW data,
           Len(opened[sk_reader(SessionTranscript(d, r))]) = count,
           IsSealedData(data) \/ data = {Garbage},
           NEW h, h = handle_decoded_request(SessionTranscript(d, r), count, state, data),
           RecordOpened(sk_reader(SessionTranscript(d, r)), data, h.ok),
           sealed' = sealed
    PROVE  /\ CipherTypeOK' /\ NoncesCount' /\ OpenedInOrder'
           /\ h.state = state
           /\ h.count \in 0..MaxCount
           /\ h.outcome.items_request \in Seq(ItemsRequest)
           /\ Len(opened'[sk_reader(SessionTranscript(d, r))]) = h.count
           /\ \A j \in SessionKeys :
                 j # sk_reader(SessionTranscript(d, r)) => opened'[j] = opened[j]
           /\ \A x : IsSealed(x) => IsSealed(x)'
           /\ Delivery!ChannelNext \/ UNCHANGED <<sealed, opened>>
<1>k. PICK key : key = sk_reader(SessionTranscript(d, r))
  OBVIOUS
<1>1. key \in SessionKeys /\ key.info = "SKReader"
  BY <1>k, KeyType
<1>2. data = {} \/ \E c : data = {c}
  BY DEF IsSealedData
<1>t. PICK t : t = SessionTranscript(d, r)
  OBVIOUS
<1>3. Handled(h, key, count, state, data)
  <2>1. h = handle_decoded_request(t, count, state, data)
    BY <1>t
  <2>2. Handled(h, sk_reader(t), count, state, data)
    BY <1>2, <2>1, HandleResult, Zenon
  <2> QED
    BY <1>k, <1>t, <2>2
<1>4. CASE /\ h.ok = FALSE /\ h.count = count /\ h.state = state
           /\ h.outcome.items_request = <<>>
  <2>1. opened' = opened
    BY <1>4 DEF RecordOpened
  <2> QED
    BY <1>4, <1>k, <2>1, NoCipherStep DEF IndInv, SessionInv
<1>5. ASSUME NEW c, data = {c}, h.ok = TRUE, count < MaxCount, h.count = count + 1,
             c.key = key, c.iv.counter = count + 1,
             c.body \in RequestBodies =>
               /\ h.state = state
               /\ h.outcome.items_request \in Seq(ItemsRequest)
      PROVE  /\ CipherTypeOK' /\ NoncesCount' /\ OpenedInOrder'
             /\ h.state = state
             /\ h.count \in 0..MaxCount
             /\ h.outcome.items_request \in Seq(ItemsRequest)
             /\ Len(opened'[key]) = h.count
             /\ \A j \in SessionKeys : j # key => opened'[j] = opened[j]
             /\ \A x : IsSealed(x) => IsSealed(x)'
             /\ Delivery!ChannelNext
  <2>1. c # Garbage
    BY <1>1, <1>5, GarbageKey
  <2>2. IsSealed(c)
    BY <1>5, <2>1 DEF IsSealedData
  <2>3. opened' = [opened EXCEPT ![key] = Append(@, c)]
    BY <1>5, <1>k, TheMember DEF RecordOpened
  <2>4. Len(opened[key]) = count
    BY <1>k
  <2>5. /\ CipherTypeOK' /\ NoncesCount' /\ OpenedInOrder'
        /\ Len(opened'[key]) = Len(opened[key]) + 1
        /\ \A j \in SessionKeys : j # key => opened'[j] = opened[j]
        /\ key.info = "SKReader" => c.body \in RequestBodies
        /\ \A x : IsSealed(x) => IsSealed(x)'
        /\ Delivery!ChannelNext
    BY <1>1, <1>5, <2>2, <2>3, <2>4, OpenStep DEF IndInv, SessionInv
  <2>6. h.count \in 0..MaxCount
    BY <1>5, MaxCountAssumption
  <2> QED
    BY <1>1, <1>5, <2>4, <2>5, <2>6
<1> QED
  BY <1>3, <1>4, <1>5, <1>k DEF Handled

\* The device opened a request of reader r in the session dKey, r: what is left of
\* the invariant follows.
LEMMA DeviceOpenInv ==
    ASSUME IndInv, NEW r \in EReaderKeys, dKey \in EDeviceKeys, dKey \in dUsedKeys,
           dReader \in {NoKey, r},
           CipherTypeOK', NoncesCount', OpenedInOrder',
           \A x : IsSealed(x) => IsSealed(x)',
           \A j \in SessionKeys :
              j # sk_reader(SessionTranscript(dKey, r)) => opened'[j] = opened[j],
           Len(opened'[sk_reader(SessionTranscript(dKey, r))]) = dReaderCount',
           Len(sealed[sk_device(SessionTranscript(dKey, r))]) = dDeviceCount',
           dReaderCount' \in 0..MaxCount, dDeviceCount' \in 0..MaxCount,
           dOutcome'.items_request \in Seq(ItemsRequest),
           dState' = dState, dPhase' = "established", dReader' = r,
           UNCHANGED <<dUsedKeys, dKey, dPayload, sealed, readerVars, presentationVars>>
    PROVE  IndInv'
<1>1. \A data : IsSealedData(data) => IsSealedData(data)'
  BY SealedDataStays
<1>2. StateTypeOK' /\ NetOK'
  BY <1>1, StateStays DEF IndInv, SessionInv, NetOK, presentationVars
<1>3. TypeOK'
  BY DEF IndInv, TypeOK, DeviceTypeOK, readerVars, presentationVars
<1>4. PhaseOK'
  BY KeysAssumption DEF PhaseOK
<1>5. ReaderCounts'
  <2>1. \A e \in EDeviceKeys, s \in EReaderKeys :
          opened'[sk_device(SessionTranscript(e, s))] = opened[sk_device(SessionTranscript(e, s))]
    BY KeyType, KeyInjective
  <2> QED
    BY <2>1 DEF IndInv, SessionInv, ReaderCounts, Unstarted, readerVars
<1>6. DeviceCounts'
  <2> SUFFICES ASSUME NEW e \in EDeviceKeys, NEW s \in EReaderKeys
               PROVE  LET t == SessionTranscript(e, s)
                      IN  /\ e = dKey /\ s = r =>
                               /\ Len(sealed[sk_device(t)]) = dDeviceCount'
                               /\ Len(opened'[sk_reader(t)]) = dReaderCount'
                          /\ e \notin dUsedKeys \/ (e = dKey /\ s # r) =>
                               /\ sealed[sk_device(t)] = <<>>
                               /\ opened'[sk_reader(t)] = <<>>
    BY DEF DeviceCounts
  <2>1. CASE e = dKey /\ s = r
    BY <2>1
  <2>2. CASE e # dKey \/ s # r
    <3>1. opened'[sk_reader(SessionTranscript(e, s))] = opened[sk_reader(SessionTranscript(e, s))]
      BY <2>2, KeyType, KeyInjective
    <3>2. e = dKey => s # dReader
      BY <2>2, KeysAssumption
    <3> QED
      BY <2>2, <3>1, <3>2 DEF IndInv, SessionInv, DeviceCounts
  <2> QED
    BY <2>1, <2>2
<1> QED
  BY <1>2, <1>3, <1>4, <1>5, <1>6 DEF IndInv, SessionInv

\* The device handles a request in a session with reader r that exists already
\* or that this step establishes.
LEMMA DeviceReceives ==
    ASSUME IndInv, NEW r \in EReaderKeys, dKey \in EDeviceKeys, dKey \in dUsedKeys,
           dReader \in {NoKey, r},
           NEW count \in 0..MaxCount, NEW data,
           Len(opened[sk_reader(SessionTranscript(dKey, r))]) = count,
           Len(sealed[sk_device(SessionTranscript(dKey, r))]) = dDeviceCount',
           dDeviceCount' \in 0..MaxCount,
           IsSealedData(data) \/ data = {Garbage},
           NEW h, h = handle_decoded_request(SessionTranscript(dKey, r), count, dState, data),
           RecordOpened(sk_reader(SessionTranscript(dKey, r)), data, h.ok),
           dReaderCount' = h.count, dState' = h.state, dOutcome' = h.outcome,
           dPhase' = "established", dReader' = r,
           UNCHANGED <<dUsedKeys, dKey, dPayload, sealed, readerVars, presentationVars>>
    PROVE  IndInv' /\ (Delivery!ChannelNext \/ UNCHANGED <<sealed, opened>>)
<1>1. PICK d \in EDeviceKeys : d = dKey
  OBVIOUS
<1>2. PICK state : state = dState
  OBVIOUS
<1>3. /\ Len(opened[sk_reader(SessionTranscript(d, r))]) = count
      /\ h = handle_decoded_request(SessionTranscript(d, r), count, state, data)
      /\ RecordOpened(sk_reader(SessionTranscript(d, r)), data, h.ok)
      /\ sealed' = sealed
  BY <1>1, <1>2
<1>4. /\ CipherTypeOK' /\ NoncesCount' /\ OpenedInOrder'
      /\ h.state = state
      /\ h.count \in 0..MaxCount
      /\ h.outcome.items_request \in Seq(ItemsRequest)
      /\ Len(opened'[sk_reader(SessionTranscript(d, r))]) = h.count
      /\ \A j \in SessionKeys :
            j # sk_reader(SessionTranscript(d, r)) => opened'[j] = opened[j]
      /\ \A x : IsSealed(x) => IsSealed(x)'
      /\ Delivery!ChannelNext \/ UNCHANGED <<sealed, opened>>
  BY <1>3, DeviceOpens
<1>5. /\ Len(opened'[sk_reader(SessionTranscript(dKey, r))]) = dReaderCount'
      /\ \A j \in SessionKeys :
            j # sk_reader(SessionTranscript(dKey, r)) => opened'[j] = opened[j]
      /\ dReaderCount' \in 0..MaxCount
      /\ dOutcome'.items_request \in Seq(ItemsRequest)
      /\ dState' = dState
  BY <1>1, <1>2, <1>4
<1>6. IndInv'
  BY <1>4, <1>5, DeviceOpenInv
<1> QED
  BY <1>4, <1>6

\* handle_request: a message that cannot be decoded changes the outcome only; any
\* other carries sealed data, no data, or garbage.
LEMMA DevHandleRequestInv ==
    ASSUME IndInv, DevHandleRequest
    PROVE  IndInv' /\ (Delivery!ChannelNext \/ UNCHANGED <<sealed, opened>>)
<1>1. PICK m \in net \cup Noise : HandleRequest(m)
  BY DEF DevHandleRequest
<1>2. UNCHANGED <<readerVars, presentationVars>>
  BY DEF DevHandleRequest
<1>3. /\ dPhase = "established"
      /\ UNCHANGED <<dPhase, dUsedKeys, dKey, dReader, dDeviceCount, dPayload, dConsent,
                     sealed>>
  BY <1>1 DEF HandleRequest
<1>4. dKey \in EDeviceKeys /\ dKey \in dUsedKeys /\ dReader \in EReaderKeys
  BY <1>3 DEF IndInv, TypeOK, DeviceTypeOK, SessionInv, PhaseOK
<1>5. IsSealedData(m.data) \/ m.data = {Garbage}
  BY DEF IndInv, SessionInv, NetOK, Noise, Undecodable, SessionData, IsSealedData
<1>6. CASE m.kind = "undecodable"
  <2>1. dOutcome' = Rejected("parsing") /\ UNCHANGED <<dReaderCount, dState, opened>>
    BY <1>1, <1>6 DEF HandleRequest
  <2>2. UNCHANGED <<cipherVars, readerVars>>
    BY <1>2, <1>3, <2>1 DEF cipherVars
  <2>3. CipherTypeOK' /\ NoncesCount' /\ OpenedInOrder' /\ ReaderCounts' /\ NetOK' /\ StateTypeOK'
    BY <1>2, <2>1, <2>2, QuietStep, StateStays DEF IndInv, SessionInv, presentationVars
  <2>4. TypeOK'
    BY <1>2, <1>3, <2>1 DEF IndInv, TypeOK, DeviceTypeOK, readerVars, presentationVars,
                            Rejected, NoOutcome
  <2>5. PhaseOK' /\ DeviceCounts'
    BY <1>3, <2>1 DEF IndInv, SessionInv, PhaseOK, DeviceCounts
  <2> QED
    BY <1>3, <2>1, <2>3, <2>4, <2>5 DEF IndInv, SessionInv
<1>7. CASE m.kind # "undecodable"
  <2>1. PICK h : h = handle_decoded_request(dTranscript, dReaderCount, dState, m.data)
    OBVIOUS
  <2>2. /\ dReaderCount' = h.count /\ dState' = h.state /\ dOutcome' = h.outcome
        /\ RecordOpened(sk_reader(dTranscript), m.data, h.ok)
    BY <1>1, <1>7, <2>1 DEF HandleRequest
  <2>3. PICK r \in EReaderKeys : r = dReader
    BY <1>4
  <2>4. PICK count \in 0..MaxCount : count = dReaderCount
    BY DEF IndInv, TypeOK, DeviceTypeOK
  <2>5. PICK data : data = m.data
    OBVIOUS
  <2>6. /\ Len(opened[sk_reader(SessionTranscript(dKey, r))]) = count
        /\ Len(sealed[sk_device(SessionTranscript(dKey, r))]) = dDeviceCount'
    BY <1>3, <1>4, <2>3, <2>4 DEF IndInv, SessionInv, DeviceCounts
  <2>7. /\ h = handle_decoded_request(SessionTranscript(dKey, r), count, dState, data)
        /\ RecordOpened(sk_reader(SessionTranscript(dKey, r)), data, h.ok)
    BY <2>1, <2>2, <2>3, <2>4, <2>5 DEF dTranscript
  <2>8. /\ dDeviceCount' \in 0..MaxCount /\ dReader \in {NoKey, r}
        /\ dPhase' = "established" /\ dReader' = r
        /\ IsSealedData(data) \/ data = {Garbage}
    BY <1>3, <1>5, <2>3, <2>5 DEF IndInv, TypeOK, DeviceTypeOK
  <2> QED
    BY <1>2, <1>3, <1>4, <2>2, <2>6, <2>7, <2>8, DeviceReceives
<1> QED
  BY <1>6, <1>7

\* process_session_establishment, once the data is known to be sealed or garbage
\* and the reader key to be a key or none.
LEMMA EstablishWith ==
    ASSUME IndInv, NEW m, ProcessSessionEstablishment(m),
           m.e_reader_key \in EReaderKeys \cup {NoKey},
           IsSealedData(m.data) \/ m.data = {Garbage},
           UNCHANGED <<readerVars, presentationVars>>
    PROVE  IndInv' /\ (Delivery!ChannelNext \/ UNCHANGED <<sealed, opened>>)
<1>1. CASE m.e_reader_key = NoKey
  <2>1. Gone /\ UNCHANGED cipherVars
    BY <1>1 DEF ProcessSessionEstablishment
  <2>2. IndInv'
    BY <2>1, GoneInv
  <2> QED
    BY <2>1, <2>2 DEF cipherVars
<1>2. CASE m.e_reader_key # NoKey
  <2>1. PICK r \in EReaderKeys : r = m.e_reader_key
    BY <1>2
  <2>2. PICK data : data = m.data
    OBVIOUS
  <2>3. /\ dPhase = "engaged" /\ dReader = NoKey /\ dState = AwaitingRequest
        /\ dKey \in EDeviceKeys /\ dKey \in dUsedKeys
    BY DEF ProcessSessionEstablishment, IndInv, TypeOK, DeviceTypeOK, SessionInv, PhaseOK
  <2>4. PICK h : h = handle_decoded_request(SessionTranscript(dKey, r), 0, dState, data)
    OBVIOUS
  <2>5. /\ dPhase' = "established" /\ dReader' = r /\ dDeviceCount' = 0
        /\ dReaderCount' = h.count /\ dState' = h.state /\ dOutcome' = h.outcome
        /\ RecordOpened(sk_reader(SessionTranscript(dKey, r)), data, h.ok)
        /\ UNCHANGED <<dUsedKeys, dKey, dPayload, dConsent, sealed>>
    BY <1>2, <2>1, <2>2, <2>3, <2>4 DEF ProcessSessionEstablishment
  <2>6. /\ sealed[sk_device(SessionTranscript(dKey, r))] = <<>>
        /\ opened[sk_reader(SessionTranscript(dKey, r))] = <<>>
    BY <2>3, KeysAssumption DEF IndInv, SessionInv, DeviceCounts
  <2>7. /\ Len(opened[sk_reader(SessionTranscript(dKey, r))]) = 0
        /\ Len(sealed[sk_device(SessionTranscript(dKey, r))]) = dDeviceCount'
        /\ dDeviceCount' \in 0..MaxCount /\ 0 \in 0..MaxCount
        /\ dReader \in {NoKey, r}
        /\ IsSealedData(data) \/ data = {Garbage}
    BY <2>2, <2>3, <2>5, <2>6, MaxCountAssumption
  <2> QED
    BY <2>3, <2>4, <2>5, <2>7, DeviceReceives
<1> QED
  BY <1>1, <1>2

\* An establishment is what a reader sent, possibly damaged on the way.
LEMMA DevEstablishInv ==
    ASSUME IndInv, DevEstablish
    PROVE  IndInv' /\ (Delivery!ChannelNext \/ UNCHANGED <<sealed, opened>>)
<1>1. PICK m \in net :
        /\ m.kind = "establishment"
        /\ \/ ProcessSessionEstablishment(m)
           \/ ProcessSessionEstablishment([m EXCEPT !.data = {Garbage}])
           \/ ProcessSessionEstablishment([m EXCEPT !.e_reader_key = NoKey])
  BY DEF DevEstablish
<1>2. UNCHANGED <<readerVars, presentationVars>>
  BY DEF DevEstablish
<1>3. /\ m \in [kind : {"establishment"}, e_reader_key : EReaderKeys,
                data : SUBSET Ciphertexts]
      /\ IsSealedData(m.data)
  BY <1>1 DEF IndInv, SessionInv, NetOK
<1>4. CASE ProcessSessionEstablishment(m)
  <2>1. m.e_reader_key \in EReaderKeys \cup {NoKey}
    BY <1>3
  <2> QED
    BY <1>2, <1>3, <1>4, <2>1, EstablishWith
<1>5. CASE ProcessSessionEstablishment([m EXCEPT !.data = {Garbage}])
  <2>1. PICK x : x = [m EXCEPT !.data = {Garbage}]
    OBVIOUS
  <2>2. x.e_reader_key \in EReaderKeys \cup {NoKey} /\ x.data = {Garbage}
    BY <1>3, <2>1
  <2>3. ProcessSessionEstablishment(x)
    BY <1>5, <2>1
  <2> QED
    BY <1>2, <2>2, <2>3, EstablishWith
<1>6. CASE ProcessSessionEstablishment([m EXCEPT !.e_reader_key = NoKey])
  <2>1. PICK x : x = [m EXCEPT !.e_reader_key = NoKey]
    OBVIOUS
  <2>2. x.e_reader_key \in EReaderKeys \cup {NoKey} /\ IsSealedData(x.data)
    BY <1>3, <2>1
  <2>3. ProcessSessionEstablishment(x)
    BY <1>6, <2>1
  <2> QED
    BY <1>2, <2>2, <2>3, EstablishWith
<1> QED
  BY <1>1, <1>4, <1>5, <1>6

\* A reader that opens a response opens the next message the device sealed.
LEMMA RdrHandleResponseInv ==
    ASSUME IndInv, NEW r \in EReaderKeys, RdrHandleResponse(r)
    PROVE  IndInv' /\ (Delivery!ChannelNext \/ UNCHANGED <<sealed, opened>>)
<1>1. PICK m \in net \cup Noise : HandleResponse(r, m)
  BY DEF RdrHandleResponse
<1>2. UNCHANGED <<deviceVars, presentationVars>> /\ UNCHANGED <<rDevice, rReaderCount, sealed>>
  BY <1>1 DEF RdrHandleResponse, HandleResponse
<1>3. IsSealedData(m.data) \/ m.data = {Garbage}
  BY DEF IndInv, SessionInv, NetOK, Noise, Undecodable, SessionData, IsSealedData
<1>4. PICK d \in EDeviceKeys : d = rDevice[r] /\ d # NoKey
  BY <1>1 DEF HandleResponse, IndInv, TypeOK
<1>5. PICK count \in 0..MaxCount : count = rDeviceCount[r]
  BY DEF IndInv, TypeOK
<1>6. PICK key : key = sk_device(SessionTranscript(d, r))
  OBVIOUS
<1>7. key \in SessionKeys /\ key = sk_device(rTranscript(r)) /\ Len(opened[key]) = count
  BY <1>4, <1>5, <1>6, KeyType DEF rTranscript, IndInv, SessionInv, ReaderCounts
<1>8. PICK c : c = CHOOSE x \in m.data : TRUE
  OBVIOUS
<1>9. PICK e : e = decrypt(key, c, count, FALSE)
  OBVIOUS
<1>10. \/ e.ok = FALSE /\ e.count = count
       \/ /\ e.ok = TRUE /\ count < MaxCount /\ e.count = count + 1
          /\ c.key = key /\ c.iv.counter = count + 1
  BY <1>9, MaxCountAssumption DEF decrypt, open, get_initialization_vector
<1>11. TypeOK' <=> rDeviceCount' \in [EReaderKeys -> 0..MaxCount]
  BY <1>2 DEF IndInv, TypeOK, DeviceTypeOK, deviceVars, presentationVars
<1>12. CASE m.data = {} \/ e.ok = FALSE
  <2>1. UNCHANGED <<rDeviceCount, opened>>
    BY <1>1, <1>5, <1>7, <1>8, <1>9, <1>12 DEF HandleResponse
  <2>2. /\ CipherTypeOK' /\ NoncesCount' /\ OpenedInOrder'
        /\ \A x : IsSealed(x) => IsSealed(x)'
    BY <1>2, <2>1, NoCipherStep DEF IndInv, SessionInv
  <2>3. NetOK' /\ StateTypeOK'
    BY <1>2, <2>2, SealedDataStays, StateStays
       DEF IndInv, SessionInv, NetOK, deviceVars, presentationVars
  <2>4. ReaderCounts' /\ DeviceCounts' /\ PhaseOK' /\ TypeOK'
    BY <1>2, <1>11, <2>1
       DEF IndInv, SessionInv, TypeOK, ReaderCounts, Unstarted, DeviceCounts, PhaseOK, deviceVars
  <2> QED
    BY <1>2, <2>1, <2>2, <2>3, <2>4 DEF IndInv, SessionInv
<1>13. CASE m.data # {} /\ e.ok = TRUE
  <2>1. /\ rDeviceCount' = [rDeviceCount EXCEPT ![r] = e.count]
        /\ opened' = [opened EXCEPT ![key] = Append(@, c)]
    BY <1>1, <1>5, <1>7, <1>8, <1>9, <1>13 DEF HandleResponse, RecordOpened
  <2>2. c.key = key /\ c.iv.counter = count + 1 /\ e.count = count + 1 /\ count < MaxCount
    BY <1>10, <1>13
  <2>3. m.data = {c}
    BY <1>3, <1>8, <1>13 DEF IsSealedData
  <2>4. IsSealed(c)
    <3>1. c # Garbage
      BY <1>7, <2>2, GarbageKey
    <3>2. IsSealedData({c})
      BY <1>3, <2>3, <3>1
    <3> QED
      BY <3>2 DEF IsSealedData
  <2>5. /\ CipherTypeOK' /\ NoncesCount' /\ OpenedInOrder'
        /\ Len(opened'[key]) = Len(opened[key]) + 1
        /\ \A j \in SessionKeys : j # key => opened'[j] = opened[j]
        /\ \A x : IsSealed(x) => IsSealed(x)'
        /\ Delivery!ChannelNext
    BY <1>2, <1>7, <2>1, <2>2, <2>4, OpenStep DEF IndInv, SessionInv
  <2>6. NetOK' /\ StateTypeOK'
    BY <1>2, <2>5, SealedDataStays, StateStays
       DEF IndInv, SessionInv, NetOK, deviceVars, presentationVars
  <2>7. TypeOK' /\ rDeviceCount'[r] = count + 1
           /\ \A s \in EReaderKeys : s # r => rDeviceCount'[s] = rDeviceCount[s]
    BY <1>11, <2>1, <2>2, MaxCountAssumption DEF IndInv, TypeOK
  <2>8. ReaderCounts'
    <3>1. Unstarted'
      BY <1>2, <1>4, <2>7 DEF IndInv, SessionInv, ReaderCounts, Unstarted
    <3>2. ASSUME NEW f \in EDeviceKeys, NEW s \in EReaderKeys
          PROVE  IF rDevice[s] = f
                 THEN /\ Len(sealed[sk_reader(SessionTranscript(f, s))]) = rReaderCount[s]
                      /\ Len(opened'[sk_device(SessionTranscript(f, s))]) = rDeviceCount'[s]
                 ELSE /\ sealed[sk_reader(SessionTranscript(f, s))] = <<>>
                      /\ opened'[sk_device(SessionTranscript(f, s))] = <<>>
      <4>1. CASE f = d /\ s = r
        BY <1>4, <1>5, <1>6, <1>7, <2>5, <2>7, <4>1 DEF IndInv, SessionInv, ReaderCounts
      <4>2. CASE ~(f = d /\ s = r)
        <5>1. opened'[sk_device(SessionTranscript(f, s))] = opened[sk_device(SessionTranscript(f, s))]
          BY <1>6, <2>5, <4>2, KeyType, KeyInjective
        <5>2. rDevice[s] = f => rDeviceCount'[s] = rDeviceCount[s]
          BY <1>4, <2>7, <4>2
        <5> QED
          BY <5>1, <5>2 DEF IndInv, SessionInv, ReaderCounts
      <4> QED
        BY <4>1, <4>2
    <3> QED
      BY <1>2, <3>1, <3>2 DEF ReaderCounts
  <2>9. DeviceCounts' /\ PhaseOK'
    <3>1. \A f \in EDeviceKeys, s \in EReaderKeys :
            opened'[sk_reader(SessionTranscript(f, s))] = opened[sk_reader(SessionTranscript(f, s))]
      BY <1>6, <2>5, KeyType, KeyInjective
    <3> QED
      BY <1>2, <3>1 DEF IndInv, SessionInv, DeviceCounts, PhaseOK, deviceVars
  <2> QED
    BY <2>5, <2>6, <2>7, <2>8, <2>9 DEF IndInv, SessionInv
<1> QED
  BY <1>10, <1>12, <1>13

-----------------------------------------------------------------------------
(* The theorems *)

\* The other steps of the device do not touch the history of the cipher.
LEMMA DeviceQuiet ==
    ASSUME \/ DevInitialise \/ DevShowQr \/ DevPrepareResponse \/ DevGetPayload
           \/ DevSendResponse \/ DevDrop
    PROVE  UNCHANGED <<sealed, opened>>
  BY DEF DevInitialise, Initialise, DevShowQr, QrEngagement, DevPrepareResponse,
         PrepareResponse, DevGetPayload, GetNextSignaturePayload, DevSendResponse,
         RetrieveResponse, DevDrop, Drop, cipherVars

\* Every step preserves the invariant, and does to the history what the abstract
\* specification allows.
LEMMA NextInv ==
    ASSUME IndInv, [Next]_vars
    PROVE  IndInv' /\ (Delivery!ChannelNext \/ UNCHANGED <<sealed, opened>>)
<1>1. CASE \/ DevInitialise \/ DevShowQr \/ DevPrepareResponse \/ DevGetPayload
           \/ DevSendResponse \/ DevDrop
  <2>1. IndInv'
    BY <1>1, InitialiseInv, ShowQrInv, PrepareInv, GetPayloadInv, SendInv, DropInv
  <2> QED
    BY <1>1, <2>1, DeviceQuiet
<1>2. CASE DevEstablish
  BY <1>2, DevEstablishInv
<1>3. CASE DevHandleRequest
  BY <1>3, DevHandleRequestInv
<1>4. CASE DevSubmitSignature
  BY <1>4, SubmitInv
<1>5. CASE \E r \in EReaderKeys :
            RdrEstablish(r) \/ RdrNewRequest(r) \/ RdrHandleResponse(r)
  BY <1>5, RdrEstablishInv, RdrNewRequestInv, RdrHandleResponseInv
<1>6. CASE UNCHANGED vars
  <2>1. UNCHANGED <<cipherVars, readerVars>> /\ UNCHANGED deviceVars /\ UNCHANGED presentationVars
    BY <1>6 DEF vars
  <2>2. CipherTypeOK' /\ NoncesCount' /\ OpenedInOrder' /\ ReaderCounts' /\ NetOK' /\ StateTypeOK'
    BY <2>1, QuietStep, StateStays DEF IndInv, SessionInv, presentationVars, deviceVars
  <2>3. TypeOK'
    BY <2>1 DEF IndInv, TypeOK, DeviceTypeOK, readerVars, presentationVars, deviceVars
  <2>4. PhaseOK' /\ DeviceCounts'
    BY <2>1 DEF IndInv, SessionInv, PhaseOK, DeviceCounts, deviceVars, cipherVars
  <2> QED
    BY <2>1, <2>2, <2>3, <2>4 DEF IndInv, SessionInv, cipherVars
<1> QED
  BY <1>1, <1>2, <1>3, <1>4, <1>5, <1>6 DEF Next

\* The inductive invariant holds in every reachable state.
THEOREM Inductive == Spec => []IndInv
<1>1. IndInv /\ [Next]_vars => IndInv'
  BY NextInv
<1> QED
  BY <1>1, InitInv, PTL DEF Spec

\* Every variable of the device, of the readers and of the transport keeps its
\* type; in particular no counter ever passes u32::MAX: get_initialization_vector
\* fails closed.
THEOREM TypeCorrect == Spec => []TypeOK
  BY Inductive, PTL DEF IndInv

\* The counters of both ends agree with what was sealed and opened with each key,
\* whatever the transport loses, repeats, reorders or damages.
THEOREM CountersAgree == Spec => []SessionInv
  BY Inductive, PTL DEF IndInv

\* Each receiver accepts a prefix of what its peer sealed, with any number of
\* readers and any number of device sessions.
THEOREM InOrder == Spec => []OpenedInOrder
<1>1. IndInv => OpenedInOrder
  BY DEF IndInv, SessionInv
<1> QED
  BY <1>1, Inductive, PTL

\* No nonce is used twice with a session key, also across restarts of the device
\* and after failures of the cipher.
THEOREM NoncesUnique == Spec => []NonceUnique
<1>1. IndInv => NonceUnique
  <2> SUFFICES ASSUME IndInv, NEW k \in SessionKeys,
                      NEW i \in 1..Len(sealed[k]), NEW j \in 1..Len(sealed[k]),
                      sealed[k][i].iv = sealed[k][j].iv
               PROVE  i = j
    BY DEF NonceUnique
  <2>1. sealed[k][i].iv.counter = i /\ sealed[k][j].iv.counter = j
    BY DEF IndInv, SessionInv, NoncesCount, SealedUnder
  <2> QED
    BY <2>1
<1> QED
  BY <1>1, Inductive, PTL

\* The presentation protocol implements the abstract channel: every step seals
\* one message under a new nonce, opens the next sealed one, or does neither.
THEOREM Refinement == Spec => DeliverySpec
<1>1. Init => Delivery!ChannelInit
  BY DEF Init, CipherInit, Delivery!ChannelInit
<1>2. IndInv /\ [Next]_vars => [Delivery!ChannelNext]_<<sealed, opened>>
  BY NextInv
<1> QED
  BY <1>1, <1>2, Inductive, PTL DEF Spec, DeliverySpec, Delivery!ChannelSpec

\* What a step of the abstract channel does to one key: each of its two sequences stays
\* as it is, or gets one message.
LEMMA ChannelsGrow ==
    ASSUME CipherTypeOK, CipherTypeOK',
           Delivery!ChannelNext \/ UNCHANGED <<sealed, opened>>, NEW k \in SessionKeys
    PROVE  /\ sealed'[k] = sealed[k] \/ Len(sealed'[k]) = Len(sealed[k]) + 1
           /\ opened'[k] = opened[k] \/ Len(opened'[k]) = Len(opened[k]) + 1
<1> USE DEF CipherTypeOK
<1>1. CASE UNCHANGED <<sealed, opened>>
  BY <1>1
<1>2. ASSUME NEW j \in SessionKeys, Delivery!Seal(j)
      PROVE  /\ opened' = opened
             /\ sealed'[k] = sealed[k] \/ Len(sealed'[k]) = Len(sealed[k]) + 1
  <2>1. PICK m : sealed' = [sealed EXCEPT ![j] = Append(sealed[j], m)]
    BY <1>2 DEF Delivery!Seal
  <2> QED
    BY <1>2, <2>1 DEF Delivery!Seal
<1>3. ASSUME NEW j \in SessionKeys, Delivery!Open(j)
      PROVE  /\ sealed' = sealed
             /\ opened'[k] = opened[k] \/ Len(opened'[k]) = Len(opened[k]) + 1
  <2>1. /\ sealed' = sealed /\ sealed[j][Len(opened[j]) + 1] \in Ciphertexts
        /\ opened' = [opened EXCEPT ![j] = Append(opened[j], sealed[j][Len(opened[j]) + 1])]
    BY <1>3 DEF Delivery!Open
  <2> QED
    BY <2>1
<1> QED
  BY <1>1, <1>2, <1>3 DEF Delivery!ChannelNext

\* A counter that is the length of such a sequence before and after goes up with it.
LEMMA CountsUpWith ==
    ASSUME NEW S, NEW before \in Seq(S), NEW after \in Seq(S),
           after = before \/ Len(after) = Len(before) + 1
    PROVE  CountsUp(Len(before), Len(after), before, after)
  BY DEF CountsUp

\* Within a session the counters of both ends only go up, by one and with one message:
\* they never come back to a nonce that was used, nor wrap at u32::MAX.
THEOREM CountersNeverGoBack == Spec => CountersOnlyGrow
<1>1. ASSUME IndInv, IndInv',
             Delivery!ChannelNext \/ UNCHANGED <<sealed, opened>>,
             dPhase = "established", UNCHANGED <<dPhase, dKey, dReader>>
      PROVE  /\ CountsUp(dDeviceCount, dDeviceCount',
                         sealed[sk_device(dTranscript)], sealed'[sk_device(dTranscript)])
             /\ CountsUp(dReaderCount, dReaderCount',
                         opened[sk_reader(dTranscript)], opened'[sk_reader(dTranscript)])
  <2>1. PICK d \in EDeviceKeys, r \in EReaderKeys : d = dKey /\ r = dReader
    BY <1>1 DEF IndInv, TypeOK, DeviceTypeOK, SessionInv, PhaseOK
  <2>2. PICK j, k : j = sk_device(SessionTranscript(d, r)) /\ k = sk_reader(SessionTranscript(d, r))
    OBVIOUS
  <2>3. /\ j \in SessionKeys /\ k \in SessionKeys
        /\ j = sk_device(dTranscript) /\ k = sk_reader(dTranscript)
    BY <2>1, <2>2, KeyType DEF dTranscript
  <2>4. Len(sealed[j]) = dDeviceCount /\ Len(opened[k]) = dReaderCount
    BY <1>1, <2>1, <2>2 DEF IndInv, SessionInv, DeviceCounts
  <2>5. Len(sealed'[j]) = dDeviceCount' /\ Len(opened'[k]) = dReaderCount'
    BY <1>1, <2>1, <2>2 DEF IndInv, SessionInv, DeviceCounts
  <2>6. CipherTypeOK /\ CipherTypeOK'
    BY <1>1 DEF IndInv, SessionInv
  <2>7. /\ sealed[j] \in Seq(Ciphertexts) /\ sealed'[j] \in Seq(Ciphertexts)
        /\ opened[k] \in Seq(Ciphertexts) /\ opened'[k] \in Seq(Ciphertexts)
    BY <2>3, <2>6 DEF CipherTypeOK
  <2>8. /\ sealed'[j] = sealed[j] \/ Len(sealed'[j]) = Len(sealed[j]) + 1
        /\ opened'[k] = opened[k] \/ Len(opened'[k]) = Len(opened[k]) + 1
    BY <1>1, <2>3, <2>6, ChannelsGrow
  <2> QED
    BY <2>3, <2>4, <2>5, <2>7, <2>8, CountsUpWith
<1>2. ASSUME IndInv, IndInv',
             Delivery!ChannelNext \/ UNCHANGED <<sealed, opened>>,
             NEW r \in EReaderKeys, rDevice[r] # NoKey, rDevice'[r] = rDevice[r]
      PROVE  /\ CountsUp(rReaderCount[r], rReaderCount'[r],
                         sealed[sk_reader(rTranscript(r))], sealed'[sk_reader(rTranscript(r))])
             /\ CountsUp(rDeviceCount[r], rDeviceCount'[r],
                         opened[sk_device(rTranscript(r))], opened'[sk_device(rTranscript(r))])
  <2>1. PICK d \in EDeviceKeys : d = rDevice[r]
    BY <1>2 DEF IndInv, TypeOK
  <2>2. PICK j, k : j = sk_device(SessionTranscript(d, r)) /\ k = sk_reader(SessionTranscript(d, r))
    OBVIOUS
  <2>3. /\ j \in SessionKeys /\ k \in SessionKeys
        /\ j = sk_device(rTranscript(r)) /\ k = sk_reader(rTranscript(r))
    BY <2>1, <2>2, KeyType DEF rTranscript
  <2>4. Len(sealed[k]) = rReaderCount[r] /\ Len(opened[j]) = rDeviceCount[r]
    BY <1>2, <2>1, <2>2 DEF IndInv, SessionInv, ReaderCounts
  <2>5. Len(sealed'[k]) = rReaderCount'[r] /\ Len(opened'[j]) = rDeviceCount'[r]
    BY <1>2, <2>1, <2>2 DEF IndInv, SessionInv, ReaderCounts
  <2>6. CipherTypeOK /\ CipherTypeOK'
    BY <1>2 DEF IndInv, SessionInv
  <2>7. /\ sealed[k] \in Seq(Ciphertexts) /\ sealed'[k] \in Seq(Ciphertexts)
        /\ opened[j] \in Seq(Ciphertexts) /\ opened'[j] \in Seq(Ciphertexts)
    BY <2>3, <2>6 DEF CipherTypeOK
  <2>8. /\ sealed'[k] = sealed[k] \/ Len(sealed'[k]) = Len(sealed[k]) + 1
        /\ opened'[j] = opened[j] \/ Len(opened'[j]) = Len(opened[j]) + 1
    BY <1>2, <2>3, <2>6, ChannelsGrow
  <2> QED
    BY <2>3, <2>4, <2>5, <2>7, <2>8, CountsUpWith
<1>3. IndInv /\ IndInv' /\ [Next]_vars =>
        /\ dPhase = "established" /\ UNCHANGED <<dPhase, dKey, dReader>> =>
             /\ CountsUp(dDeviceCount, dDeviceCount',
                         sealed[sk_device(dTranscript)], sealed'[sk_device(dTranscript)])
             /\ CountsUp(dReaderCount, dReaderCount',
                         opened[sk_reader(dTranscript)], opened'[sk_reader(dTranscript)])
        /\ \A r \in EReaderKeys :
             rDevice[r] # NoKey /\ rDevice'[r] = rDevice[r] =>
                 /\ CountsUp(rReaderCount[r], rReaderCount'[r],
                             sealed[sk_reader(rTranscript(r))], sealed'[sk_reader(rTranscript(r))])
                 /\ CountsUp(rDeviceCount[r], rDeviceCount'[r],
                             opened[sk_device(rTranscript(r))], opened'[sk_device(rTranscript(r))])
  BY <1>1, <1>2, NextInv
<1> QED
  BY <1>3, Inductive, PTL DEF Spec, CountersOnlyGrow
=============================================================================
