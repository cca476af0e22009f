---------------------------- MODULE Presentation ----------------------------
(***************************************************************************)
(* Proximity presentation: one holder device and any number of readers over *)
(* a transport that loses, repeats, reorders and corrupts messages and     *)
(* hands any message to any party.  A QR code can be scanned by several     *)
(* readers, and long after the device showed it.                           *)
(***************************************************************************)
EXTENDS ReaderSession

VARIABLES
    net,           \* messages that were ever sent: the transport repeats them at will
    qrs,           \* device keys whose engagement was shown as a QR code
    granted        \* history: per transcript, the arguments of prepare_response

presentationVars == <<net, qrs, granted>>
vars == <<deviceVars, readerVars, cipherVars, presentationVars>>

\* What the transport can deliver besides the messages that were sent.
Noise == {Undecodable, SessionData({Garbage}, {}), SessionData({}, {"SessionTermination"})}

Init ==
    /\ CipherInit /\ DeviceInit /\ ReaderInit
    /\ net = {}
    /\ qrs = {}
    /\ granted = [t \in Transcripts |-> {}]

-----------------------------------------------------------------------------
(* Steps of the device *)

DevInitialise ==
    /\ \E d \in EDeviceKeys : Initialise(d)
    /\ UNCHANGED <<readerVars, presentationVars>>

DevShowQr ==
    /\ QrEngagement
    /\ qrs' = qrs \cup {dKey}
    /\ UNCHANGED <<readerVars, net, granted>>

\* The establishment may reach the device with its data destroyed, or with a key
\* that is no point of the curve.
DevEstablish ==
    /\ \E m \in {x \in net : x.kind = "establishment"} :
        \/ ProcessSessionEstablishment(m)
        \/ ProcessSessionEstablishment([m EXCEPT !.data = {Garbage}])
        \/ ProcessSessionEstablishment([m EXCEPT !.e_reader_key = NoKey])
    /\ UNCHANGED <<readerVars, presentationVars>>

DevHandleRequest ==
    /\ \E m \in net \cup Noise : HandleRequest(m)
    /\ UNCHANGED <<readerVars, presentationVars>>

DevPrepareResponse ==
    /\ \E permitted \in Permissions :
        /\ PrepareResponse(permitted)
        /\ granted' = [granted EXCEPT ![dTranscript] = @ \cup {dConsent'}]
    /\ UNCHANGED <<readerVars, net, qrs>>

DevGetPayload ==
    /\ GetNextSignaturePayload
    /\ UNCHANGED <<readerVars, presentationVars>>

DevSubmitSignature ==
    /\ \E ok \in BOOLEAN : SubmitNextSignature(ok)
    /\ UNCHANGED <<readerVars, presentationVars>>

DevSendResponse ==
    /\ RetrieveResponse
    /\ net' = net \cup {dState.msg}
    /\ UNCHANGED <<readerVars, qrs, granted>>

DevDrop ==
    /\ Drop
    /\ UNCHANGED <<readerVars, presentationVars>>

-----------------------------------------------------------------------------
(* Steps of a reader *)

RdrEstablish(r) ==
    /\ \E d \in qrs, items \in Wanted :
        /\ EstablishSession(r, d, items)
        /\ net' = net \cup {EstablishmentFor(r, d, items)}
    /\ UNCHANGED <<deviceVars, qrs, granted>>

RdrNewRequest(r) ==
    /\ \E items \in Wanted :
        /\ NewRequest(r, items)
        /\ net' = net \cup {RequestFor(r, items)}
    /\ UNCHANGED <<deviceVars, qrs, granted>>

RdrHandleResponse(r) ==
    /\ \E m \in net \cup Noise : HandleResponse(r, m)
    /\ UNCHANGED <<deviceVars, presentationVars>>

-----------------------------------------------------------------------------
Next ==
    \/ DevInitialise \/ DevShowQr \/ DevEstablish \/ DevHandleRequest
    \/ DevPrepareResponse \/ DevGetPayload \/ DevSubmitSignature
    \/ DevSendResponse \/ DevDrop
    \/ \E r \in EReaderKeys :
        RdrEstablish(r) \/ RdrNewRequest(r) \/ RdrHandleResponse(r)

Spec == Init /\ [][Next]_vars

-----------------------------------------------------------------------------
(* Properties *)

\* Types of the readers and of the transport.
TypeOK ==
    /\ DeviceTypeOK
    /\ rDevice \in [EReaderKeys -> EDeviceKeys \cup {NoKey}]
    /\ rReaderCount \in [EReaderKeys -> 0..MaxCount]
    /\ rDeviceCount \in [EReaderKeys -> 0..MaxCount]
    /\ qrs \subseteq EDeviceKeys

\* The whole protocol implements in-order, at-most-once delivery on every session
\* key: a step of any party seals one message under a new nonce, opens the next
\* sealed message, or does neither.
Delivery == INSTANCE SecureDelivery WITH
                Channels <- SessionKeys, sent <- sealed, got <- opened
DeliverySpec == Delivery!ChannelSpec

\* A counter stays where it is with its channel, or moves up by one with one message.
CountsUp(count, next, messages, more) ==
    \/ next = count /\ more = messages
    \/ next = count + 1 /\ Len(more) = Len(messages) + 1

\* While a session lasts, no step of anyone moves a counter of either end back to a
\* nonce that it has passed, nor past one that it has not used: not a message that
\* is refused, not a cipher that fails after the counter was advanced, and not a
\* counter at u32::MAX, where the end falls silent instead of starting over.
CountersOnlyGrow ==
    [][/\ dPhase = "established" /\ UNCHANGED <<dPhase, dKey, dReader>> =>
            /\ CountsUp(dDeviceCount, dDeviceCount',
                        sealed[sk_device(dTranscript)], sealed'[sk_device(dTranscript)])
            /\ CountsUp(dReaderCount, dReaderCount',
                        opened[sk_reader(dTranscript)], opened'[sk_reader(dTranscript)])
       /\ \A r \in EReaderKeys :
            rDevice[r] # NoKey /\ rDevice'[r] = rDevice[r] =>
                /\ CountsUp(rReaderCount[r], rReaderCount'[r],
                            sealed[sk_reader(rTranscript(r))], sealed'[sk_reader(rTranscript(r))])
                /\ CountsUp(rDeviceCount[r], rDeviceCount'[r],
                            opened[sk_device(rTranscript(r))], opened'[sk_device(rTranscript(r))])]_vars

\* What a reader accepts with a valid device authentication was granted by the
\* holder in a session with this very reader, in answer to a request for this
\* document that this reader sealed: a response never crosses sessions, however
\* many readers scanned the code and whatever the transport did.
AcceptedWasGranted ==
    \A r \in EReaderKeys :
        rOutcome[r].device_authentication = "Valid" =>
            \E g \in granted[rTranscript(r)] :
                /\ rOutcome[r].response \subseteq g.permitted[Mdl]
                /\ \E n \in 1..Len(sealed[sk_reader(rTranscript(r))]) :
                      LET asked == sealed[sk_reader(rTranscript(r))][n].body
                      IN  /\ asked.doc_requests[1].items = g.requests[1].items
                          /\ rOutcome[r].response \subseteq asked.doc_requests[1].items

\* A session has one device: two readers that scanned the same code are never
\* both answered, because the engagement is consumed by the first establishment.
OneReaderPerEngagement ==
    \A r, s \in EReaderKeys :
        /\ rDevice[r] = rDevice[s] /\ rDevice[r] # NoKey
        /\ rDeviceCount[r] > 0 /\ rDeviceCount[s] > 0
        => r = s

-----------------------------------------------------------------------------
(***************************************************************************)
(* The inductive invariant: how the four counters, which the code never    *)
(* transmits, relate to what was sealed and opened with each key.          *)
(***************************************************************************)
RequestBodies == {DeviceRequest(w) : w \in Wanted}
ResponseBodies ==
    [kind : {"response"}, status : ResponseStatus, documents : SUBSET SignedDocument,
     document_errors : SUBSET DocTypes]
Ciphertexts ==
    [key : SessionKeys, iv : [identifier : {0, 1}, counter : 1..MaxCount],
     body : RequestBodies \cup ResponseBodies]

\* c is the n-th message sealed with its key, for the n in its nonce.
IsSealed(c) ==
    /\ c \in Ciphertexts
    /\ c.iv.counter <= Len(sealed[c.key])
    /\ c = sealed[c.key][c.iv.counter]

IsSealedData(data) == data = {} \/ \E c \in data : data = {c} /\ IsSealed(c)

CipherTypeOK ==
    /\ sealed \in [SessionKeys -> Seq(Ciphertexts)]
    /\ opened \in [SessionKeys -> Seq(Ciphertexts)]

StateTypeOK ==
    \/ dState = AwaitingRequest
    \/ dState.tag = "Signing" /\ dState = Signing(dState.p)
       /\ dState.p \in PreparedDeviceResponse
    \/ dState.tag = "ReadyToRespond" /\ dState = ReadyToRespond(dState.msg)
       /\ dState.msg \in [kind : {"data"}, data : SUBSET Ciphertexts,
                          status : SUBSET {"SessionEncryptionError"}]
       /\ IsSealedData(dState.msg.data)

\* A message in the transport carries something that an endpoint sealed, or nothing.
NetOK ==
    \A m \in net :
        /\ m.kind \in {"establishment", "data"}
        /\ m.kind = "establishment" =>
              m \in [kind : {"establishment"}, e_reader_key : EReaderKeys,
                     data : SUBSET Ciphertexts]
        /\ m.kind = "data" =>
              m \in [kind : {"data"}, data : SUBSET Ciphertexts,
                     status : SUBSET {"SessionEncryptionError"}]
        /\ IsSealedData(m.data)

\* The n-th message under a key carries the nonce of counter n, and a reader's
\* key seals requests only.
SealedUnder(k, n, c) ==
    /\ c.key = k
    /\ c.iv.counter = n
    /\ k.info = "SKReader" => c.body \in RequestBodies

NoncesCount ==
    \A k \in SessionKeys : \A n \in 1..Len(sealed[k]) : SealedUnder(k, n, sealed[k][n])

\* A reader without a session has not counted anything yet.
Unstarted ==
    \A r \in EReaderKeys :
        rDevice[r] = NoKey => rReaderCount[r] = 0 /\ rDeviceCount[r] = 0

\* A reader's counters are the lengths of its two channels, and it has touched
\* no channel of another transcript.
ReaderCounts ==
    /\ Unstarted
    /\ \A d \in EDeviceKeys, r \in EReaderKeys :
           LET t == SessionTranscript(d, r)
           IN  IF rDevice[r] = d
               THEN /\ Len(sealed[sk_reader(t)]) = rReaderCount[r]
                    /\ Len(opened[sk_device(t)]) = rDeviceCount[r]
               ELSE /\ sealed[sk_reader(t)] = <<>>
                    /\ opened[sk_device(t)] = <<>>

\* The same for the device: the channels of a key that has not met its reader are
\* empty, and so are the channels with every other reader.
DeviceCounts ==
    \A d \in EDeviceKeys, r \in EReaderKeys :
        LET t == SessionTranscript(d, r)
        IN  /\ d = dKey /\ r = dReader =>
                 /\ Len(sealed[sk_device(t)]) = dDeviceCount
                 /\ Len(opened[sk_reader(t)]) = dReaderCount
            /\ d \notin dUsedKeys \/ (d = dKey /\ r # dReader) =>
                 /\ sealed[sk_device(t)] = <<>>
                 /\ opened[sk_reader(t)] = <<>>

\* The counters of both ends agree with the history of the cipher, also while
\* messages are in flight, after rejected ones and across restarts of the device.
SessionInv ==
    /\ CipherTypeOK /\ StateTypeOK /\ NetOK /\ PhaseOK
    /\ NoncesCount /\ ReaderCounts /\ DeviceCounts
    /\ OpenedInOrder

-----------------------------------------------------------------------------
(***************************************************************************)
(* The invariant behind what a reader accepts: every link from a request   *)
(* that a reader sealed, over the outcome that the holder saw and the      *)
(* consent, to the response that comes back on the channel of the session. *)
(***************************************************************************)
\* The item requests are those of one request that was sealed in session t.
WasRequested(requests, t) ==
    \E n \in 1..Len(sealed[sk_reader(t)]) :
        \E w \in Wanted : /\ sealed[sk_reader(t)][n].body = DeviceRequest(w)
                         /\ requests = <<[doc_type |-> Mdl, items |-> w]>>

\* What the application of the device sees was asked for in its session.
OutcomeRequested ==
    dOutcome.items_request # <<>> =>
        dPhase = "established" /\ WasRequested(dOutcome.items_request, dTranscript)

ConsentGranted ==
    dConsent.requests # <<>> =>
        dPhase = "established" /\ dConsent \in granted[dTranscript]

GrantsRequested ==
    \A t \in Transcripts : \A g \in granted[t] : WasRequested(g.requests, t)

\* The document discloses what was permitted and requested.
Within(doc, g) ==
    /\ doc.items \subseteq g.permitted[doc.doc_type]
    /\ \E i \in DOMAIN g.requests : doc.items \subseteq g.requests[i].items

SealedGranted ==
    \A t \in Transcripts : \A n \in 1..Len(sealed[sk_device(t)]) :
        \A doc \in sealed[sk_device(t)][n].body.documents :
            \E g \in granted[t] : Within(doc, g)

\* What a reader accepted is part of a document that was sealed in its session.
WasSealed(items, t) ==
    \E n \in 1..Len(sealed[sk_device(t)]) :
        \E doc \in sealed[sk_device(t)][n].body.documents :
            doc.doc_type = Mdl /\ items \subseteq doc.items

AcceptedWasSealed ==
    \A r \in EReaderKeys :
        rOutcome[r].device_authentication = "Valid" =>
            rDevice[r] # NoKey /\ WasSealed(rOutcome[r].response, rTranscript(r))

Grants == [requests : Seq(ItemsRequest), permitted : Permissions]
ResponseOutcomes ==
    [response : SUBSET Items, issuer_authentication : AuthenticationStatus,
     device_authentication : AuthenticationStatus,
     errors : SUBSET {"decryption", "parsing", "device_authentication",
                      "issuer_authentication", "certificate"}]
HistoryTypeOK ==
    /\ granted \in [Transcripts -> SUBSET Grants]
    /\ rOutcome \in [EReaderKeys -> ResponseOutcomes]

GrantInv ==
    /\ HistoryTypeOK
    /\ ConsentInv
    /\ OutcomeRequested /\ ConsentGranted /\ GrantsRequested
    /\ SealedGranted /\ AcceptedWasSealed

\* An engagement answers one reader: the channels to all others stay empty.
EngagementConsumed ==
    \A d \in EDeviceKeys : \A r, s \in EReaderKeys :
        /\ sealed[sk_device(SessionTranscript(d, r))] # <<>>
        /\ sealed[sk_device(SessionTranscript(d, s))] # <<>>
        => r = s
=============================================================================
