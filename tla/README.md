# TLA+ models of isomdl

isomdl implements ISO/IEC 18013-5 mobile documents: an issuer prepares and signs
mdocs, a holder's device presents them over a local connection, and a reader
verifies what it gets. The library has no threads and no I/O of its own except
for one pool of digest workers; what makes it hard is that its state machines are
driven by an application and by a peer, over a transport it does not control.

Paths below are relative to the repository; `device.rs`, `reader.rs` and
`session.rs` are `src/presentation/device.rs`, `src/presentation/reader.rs` and
`src/definitions/session.rs`.

## Inventory

| Component | State | Operations | Interacts with |
|---|---|---|---|
| Session cipher (`session.rs`) | two session keys, a 32-bit counter per direction and end | derive keys, encrypt, decrypt | called by both session managers; the counters are never transmitted |
| Device session (`device.rs`) | owner type (`SessionManagerInit`, `SessionManagerEngaged`, `SessionManager`), ephemeral key, transcript, counters, `State` | `initialise`, `qr_engagement`, `process_session_establishment`, `handle_request`, `prepare_response`, `get_next_signature_payload`, `submit_next_signature`, `retrieve_response` | the reader (messages), the application (consent, signatures made outside the library) |
| Reader session (`reader.rs`, `reader_utils.rs`) | transcript, keys, counters | `establish_session`, `new_request`, `handle_response` | the device (QR code, messages) |
| Authentication (`presentation/authentication`) | none | reader, issuer and device authentication | X.509 validation, COSE |
| Digest executors (`digest_executor.rs`, `simd_sha256.rs`) | process-wide pool, initialisation lock, atomic worker budget | serial, SIMD, native parallel, adaptive `execute` | any thread that prepares a credential |
| Issuance (`issuance/mdoc.rs`) | prepared mdocs, digest plans | `prepare*`, `prepare_batch*`, `complete` | digest executors, COSE, MSO |
| MSO, validity, request and response types (`definitions`) | none | construction and CBOR | issuance, presentation |
| X.509 validation (`definitions/x509`) | trust anchors | rulesets, extension checks | authentication |
| COSE (`cose`) | prepared signatures and MACs | prepare, finalize, verify | issuance, presentation |
| Device engagement, NFC options | the engagement that is shown or scanned | CBOR maps, QR URI, choice of a transport | both sessions |
| Device key (`definitions/device_key`) | key and authorizations | COSE_Key and CBOR, `validate`, `permitted` | issuance, engagement |
| Namespaces, conversion traits, macros | none | JSON to elements, one error per field | the issuing application |
| Age attestation (`device.rs`, `age_over.rs`) | none | `nearest_age_attestation` | the presenting application |
| Command line tool | none | file to text | - |

What is hard here:

* *Unreliable delivery.* A nonce is an identifier and a counter that both ends
  keep; a message that is lost, repeated, reordered, corrupted or sent by another
  session has to leave the receiver where it was.
* *Interleavings of peer and application.* Requests arrive while a response is
  being signed or waits to be sent, and signatures come back as bare bytes.
* *Several readers and several presentations.* A QR code can be scanned by more
  than one reader, and long after the device started over.
* *Boundaries.* The counters stop at `u32::MAX`; an error of the cipher or of the
  key has to leave a usable or a dead session, never one in between.
* *Results in any order.* A batch of mdocs is hashed by one call of an executor
  that may reorder, and signed by a remote signer that returns bare bytes; digests
  and signatures have to find their own element and their own mdoc.
* *Time between two looks.* Validity is compared with a clock that moves, the worker
  count of a selection with a pool that was built earlier.
* *Meaning through conversions.* Engagements, keys, messages and namespaces are read
  by another party, or again after a restart: what was meant has to survive, and the
  bytes that go into a transcript must not change.
* *Threads.* Pool creation is double-checked, the budget is a compare-and-swap
  loop, a worker can panic.

What makes each component correct: unique nonces and in-order, at-most-once
delivery per session key (cipher); nothing disclosed that was not both requested
and permitted, every signature on its own document, every permitted type answered,
every response finished (device); nothing accepted that was not granted to this
reader in this session (reader, protocol); no worker lost or invented, one pool,
complete results or an error, no waiting on other calls (digest pool); every digest
under its own element of its own credential, faulty results refused, valid calls
never refused by chance, signatures on their own mdoc (issuance); every executor
agrees with the serial one (executors); a chain is accepted only under an anchor of
the right purpose that signed it, in force during the call (X.509); what verifies is
what was prepared, with this payload and these external data (COSE); the reader uses
what the device meant (engagement); exactly what was listed is permitted (device
key); nothing described is lost and every field at fault is reported (namespaces); the
answer
is true of the age that was asked for (age attestation).

## Modules

```
SessionCipher <- DeviceSession <- ReaderSession <- Presentation <- PresentationProofs
                     |                                |   \                 |
                 MCDevice                 SecureDelivery   MCPresentation   GrantProofs
DeviceSession <- DeviceProofs <- PresentationProofs

DigestPool <- MCDigestPool
DigestPool <- DigestPoolProofs

MdocIssuance <- MCIssuance ---------------------------------\
DigestExecution <- MCDigestExecution ------------------------ MCIssuerTrust
X509Validation <- MCX509 -----------------------------------/
CoseMessages <- MCCose ------------------------------------/
MdocIssuance, DigestExecution <- IssuanceProofs
X509Validation, CoseMessages <- TrustProofs

CborValues <- CoseKeys <- DeviceEngagement <- MCEngagement --\
     |            \ <---- DeviceKeys <- MCDeviceKeys -------- MCData
     \ <- AgeOver <- AgeAttestation <- MCAgeAttestation -----/
              \ <--- NamespaceElements <- MCNamespace ------/
DeviceEngagement, DeviceKeys <- EngagementProofs
AgeAttestation, NamespaceElements <- ElementProofs
```

`MCIssuerTrust` and `MCData` check components that share no state in one run: one component moves while the others stay in an initial state, so the states that
are explored are the sum of the components' states and not their product.

**SessionCipher** is `session.rs`. A key is a record of the shared secret, the
transcript and the direction, so that keys are equal exactly when their inputs
are; a ciphertext remembers its key, its nonce and its body. `encrypt` and
`decrypt` return the new counter with the result, as the code updates it through
`&mut`: advanced before use, put back when the backend fails, refused at
`MaxCount`, which stands for `u32::MAX`. `sealed` and `opened` are history
variables, one sequence per key.

**DeviceSession** is `device.rs`. The owner types are the values of `dPhase`; the
types consume each other, so at most one exists. `State` is `dState`. Every public
operation is one action that contains everything the call does: for instance
`SubmitNextSignature` pops a document, attaches the signature, and, when it was
the last, finalises, encrypts and becomes ready, with the failure of the cipher
as a status without data. `handle_decoded_request` is an operator because the
code calls it from two operations. Document types are numbers in the order of the
`BTreeMap`, since the order decides which document is signed next; a data element
is a pair of namespace and identifier. `Drop` is the end of the owner or of the
process in any phase; nothing is saved, because the types cannot be serialised.
The module also has the peer that knows the session keys and may seal anything,
and three specifications:

* `DeviceSpec`: library calls in every order the types allow, and an application that
  keeps signing while there is something to sign;
* `FlowSpec`: responses are prepared only while a request is awaited, as in the
  state diagram of the repository's README;
* `LoopSpec`: the same, signing with the loop of the API documentation.

**ReaderSession** is `reader.rs` with `reader_utils.rs` and
`authentication/mdoc.rs`. A session is identified by its ephemeral key. What the
issuer's signature, certificate chain and device key are worth is a constant
(`Issuer`); X.509 validation is used by its verdict.

**SecureDelivery** is the abstract specification of session encryption: a sequence
of messages per channel, no nonce twice, received one by one in order.

**Presentation** composes one device and the readers. `net` holds every message
ever sent and is never emptied, which covers repetition, reordering, delay and
delivery to the wrong party; not delivering a message covers loss; `Noise` and the
damaged establishments cover corruption. `qrs` keeps every engagement ever shown.

**DigestPool** is the native pool of `digest_executor.rs`. A caller moves through
the places `get`, `lock`, `recheck`, `build`, `unlock`, `load`, `swap`, `run`,
`release`; each is one atomic access of the code to shared state (the `OnceLock`,
the mutex, the atomic budget). Chunks run on pool threads, one action to start and
one to end, with a result or a panic. A job is its index, and the result of a call
is the set of jobs that have a digest.

**MdocIssuance** is `issuance/mdoc.rs` with `DigestId` of `mso.rs`. One behaviour is
one call of `prepare` or `prepare_batch` and the `complete` calls after it; `phase`
follows the call. `Submit` validates everything first. `PlanNamespace` plans one
namespace of the current credential: identifiers for elements and then decoys, drawn
until they are new, and a job for each. `ExecuteDigests` is the one executor call:
the results of all jobs in every order, one of them possibly omitted, repeated,
invented, renamed or damaged, or an error. `Assemble` puts them back, in one pass
when a single mdoc has them in order and by identity otherwise, and finishes all
mdocs or none. What is hashed is a value that names its element, so that a digest
tells what it is the digest of; `i32` is an integer of `IdBits` bits whose negation
wraps around or panics, by the build. The code draws the identifiers of all
elements of a credential before any decoy; drawing them namespace by namespace
gives the same plans, since each namespace has its own set.

**DigestExecution** has the executors of `digest_executor.rs` as functions of their
jobs, with the framing of `simd_sha256.rs`: groups of jobs of equal block count, lanes,
padding, the tail that stays scalar; the thresholds and the chunk balance that decide
where the adaptive executor runs; the default of a build. A digest is the sequence of
blocks that was compressed, so that a wrong byte anywhere shows. The threads are in
`DigestPool`; here the pool is its size, fixed by the first call that builds it. The code
reads the number of processors once for the selection and once more for the pool, and the
two may differ. Workers of the pool hash with the same function as the serial executor, so
the result of the native one is correct if the chunks are put together, which is
`OkIsComplete` of `DigestPool`; `AgreesWithOracle` is about the SIMD side.

**X509Validation** is `definitions/x509`: chains from CBOR, registries, three rulesets,
the names, the signature, and each extension validator. `validate` reads the clock more
than once, and an action lets it advance between two readings. Errors are a set: what
matters is whether there are any, and which certificate they name.

**CoseMessages** is `cose.rs` and `cose/`: builders, `prepare`, storage and loading over a
restart, the remote signature, `finalize`, tags, and verification with a payload that is
attached or detached. A carrier may alter one field.

**CborValues** has CBOR values and the wrappers of `definitions/helpers` (`Tag24` keeps the
bytes that it read, also when another encoding of the same value exists). **CoseKeys** is
`cose_key.rs`. **DeviceEngagement** is `device_engagement.rs` with the NFC options: a
device shows a code, a reader scans it or one that differs from it, decodes, and takes
transport, key and transcript bytes. Arrays that are decoded as tuples may be longer than
the tuple, as the additional entries are not looked at. **DeviceKeys** is
`device_key/mod.rs`: an issuer puts a key with its authorizations into a mobile security
object, and the holder's application decodes it and asks `permitted`. That is a library
call; `prepare_response` does not make it.

**AgeOver** has both sides of the `age_over_NN` elements as operators; **AgeAttestation**
lets an issuer describe a holder truthfully and a reader ask.

**NamespaceElements** is what the derive macros, the conversion traits and the types of
the two namespaces do together: from a JSON object to elements or to the names of all
fields that cannot be converted, or a panic. Within one field, an array or the `age_over`
entries, the code ends at the first fault (`from_json.rs:83`, `age_over.rs:43`). A string is a record of what the types look
at (length in characters and in bytes, alphabet, digits, prefix, what it encodes). The
application changes one entry at a time and converts again.

## Runs

| Run | Specification | Shows |
|---|---|---|
| `device` | `DeviceSpec` | `ConsentRespected`, `SignatureMatchesDocument`, `EverythingAnswered` under any peer, any order of calls and sessions that end at any moment; `SigningCompletes` when from some time on responses are prepared only while a request is awaited |
| `presentation` | `Spec` | two presentations, two readers, two messages each way: `SessionInv`, `OpenedInOrder`, `AcceptedWasGranted`, `NonceUnique`, `OneReaderPerEngagement`, `CountersOnlyGrow`, a property of steps, and `DeliverySpec` (refinement of `SecureDelivery`) |
| `digest_pool` | `PoolSpec` | two threads, two calls each: `BudgetConserved`, `PoolBuiltOnce`, `OkIsComplete`, `CallsReturn`, and `NeverWaitsForWorkers` with pool threads that may stop |
| `issuer_trust` | `IssueSpec`, `ExecutionSpec`, `ValidationSpec`, `CoseSpec` | `ItemDigestsMatch`, `FaultsRejected`, `HonestCallsSucceed`, `FastPathAgrees`, `IssuedVerifies`; for every executor `AgreesWithOracle` and `NativeWorkIsShared`; `AcceptedIsAnchored`, `ValidDuringCall`, `RolesSeparate`, `JurisdictionAgrees`, `AppendKeepsTrust`; `VerifiedWasPrepared`, `HonestMessageVerifies`, `ClaimsWereVerified` |
| `data` | `EngagementSpec`, `DeviceKeysSpec`, `AgeSpec`, `NamespaceSpec` | `ScannedIsMeant`, `TranscriptAgrees`, `ReaderFindsDevice`; `PermittedWasListed`; `AnswerIsTrue`, `AnswerIsNearest`; `NothingLost`, `JurisdictionInCountry`, and `OnlyThatEntry`, a property of steps |
| `device_loop` | `LoopSpec` | counterexample: the documented loop leaves a response without documents in `Signing` |
| `device_overwrite` | `FlowSpec` | counterexample: a ready response is replaced by a request that does not parse |
| `device_request_auth` | `DeviceSpec` | counterexample: `Valid` for a request that is signed in part |
| `device_repeated_type` | `DeviceSpec` | counterexample: two requests name one type, and what only the second names is not answered |
| `device_key_lists` | `DeviceKeysSpec` | counterexample: an element that was listed beside authorized namespaces is refused |
| `digest_id_range` | `IssueSpec` | counterexample: a negative digest identifier |
| `namespaces_moment` | `NamespaceSpec` | counterexample: a date-time that makes a conversion panic |

Each property has a mutant of a mapped definition, next to that definition in its
module, with which the run fails: a counter that wraps round or lacks its
rollback, a nonce taken from the message, a filter that keeps too much,
the wrong end of the stack, an engagement that can be used again, a static key, a
store in place of the compare-and-swap, a skipped second look, a partial result, a
lock that an early return keeps, waiting in place of falling back, restoration by job
alone, results left over, decoys that forget the elements, an order assumed from a
length, a signature checked by format, a marker byte in the wrong place, a purpose or
a state that is not compared, a validity without its end, external data that are
dropped, re-encoded transcript bytes, the first method in place of the first that fits,
an optional field that is silently absent, a nearest age that is the farthest.

What `EverythingAnswered` says has to be read with `device_repeated_type`: every type that
was permitted and named is answered, once, and a document answers one of the requests for
its type in full. So nothing is unanswered when each type is named once; the
counterexample is the other case. In the same way `PermittedWasListed` says that exactly
the listed elements are permitted, with one exception, authorizations with both lists,
of which `device_key_lists` is the counterexample.

Bounds. `MaxCount` 2 is enough for a first message, a following
one and an exhausted counter; nothing in the code depends on the value of the
limit, and the proofs do not bound it. Two device keys with two readers is the
least at which sessions and presentations can be confused. Two constraints cut the states
of that run: behaviours in which the device starts over are followed while every channel
has at most one message (`ShortAfterRestart`), and at most one of the two readers sends
a second request (`OneReaderContinues`). A first presentation runs to the limit of the
counters, with two messages on a channel that can arrive in the wrong order; the proofs
have neither constraint. The device run has
requests with two documents, with a repeated type, with types that are not owned
or cannot sign, and bodies that do not decode or validate. The pool run has a
pool of 4 threads on a machine that reports 5, executors of 1, 2 and 6 workers, and
2 or 5 jobs, so that calls fit together, exclude each other, are clipped and divide
unevenly; `MaxFailures` is the number of builder failures, `MaxCalls` of calls.
Issuance has batches of two and three credentials with up to five jobs, all
orders of their results and all draws from the three identifiers that `IdBits` 2
leaves, the out-of-range one included; one decoy stands for five to nine, as only
their identifiers and jobs matter. The refused calls have a missing parameter,
an empty map, a namespace authorized twice, a repeated identity.
The X.509 instance has certificates that miss the profile in one respect each and
registries of up to two anchors that share keys and names; two ticks of the clock are
enough for a certificate to start or to expire during a call. Two COSE messages are the
least at which signatures can be exchanged. Engagements have up to two methods, of every
kind and at every limit. The executors have two lanes and every list of up to five jobs
of four kinds, so that groups are full, left over and absent, and pairs of every length
up to three blocks. Descriptions have two changes, the second one of the country, the
jurisdiction or the expiry date, whose conversions look at more than one entry or try
more than one type; `MaxU32` and `MaxTime` are numbers with the role of the limits (`MaxU32` is above
the 65,536 that NFC allows).
`CHECK_DEADLOCK FALSE` is set everywhere because sessions end, counters are
exhausted and threads stop calling.

Symmetry is used for the reader keys and for the device keys of `presentation`, which has
no liveness property; no definition tells two keys of a role apart.

Fairness. `DeviceSpec`, `FlowSpec` and `LoopSpec` assume that the application takes the next
payload while there is one and submits, which is what the documentation asks it to
do; nothing is assumed of the reader, of the user's consent or of retrieval.
`PoolSpec` assumes that the operating system schedules the calling threads. That it also
schedules the threads of the pool (`PoolFairness`) is a premise of `CallsReturn` only:
`NeverWaitsForWorkers` holds without it. Nothing makes a thread call.
`SigningCompletes` has the premise that responses are not replaced for ever
(`PreparesWhenAwaiting`): `prepare_response` may be called in any state, and an
application that keeps calling it never finishes one.
The budget is lock-free and not wait-free: a thread whose compare-and-swap fails
for ever while others succeed is excluded by the bound on calls alone. A spurious
failure of `compare_exchange_weak` changes no state and is a stuttering step.

## Findings

* `device_loop`: `get_next_signature_payload` (`device.rs:540`) returns nothing for
  a response that has no documents to sign (an error response, or document errors
  only), so the loop given in the documentation (`device.rs:535`, `:556`) never
  calls `submit_next_signature`, and the response never becomes ready. One more
  call with any bytes finalises it, as `device` shows.
* `device_overwrite`: the state diagram (`README.md:107-108`) leaves
  `ReadyToRespond` by `retrieve_response` only; `handle_decoded_request`
  (`device.rs:499`) assigns the state whatever it was.
* `digest_id_range`: "DigestId is a unsigned integer between `0` and `(2^31 - 1)`
  inclusive" (`mso.rs:38`), but `DigestId::new` (`mso.rs:80`) maps `i32::MIN` to
  itself where overflow wraps, and panics where it is checked. One random draw in
  2^32 does this.
* `device_request_auth`: "authenticating the device request"
  (`presentation/authentication/mod.rs:12`); `validate_request` (`device.rs:431`) looks at
  the first document request and reports the status with all of them.
* `device_repeated_type`: "it prepares the response specifying the permitted items"
  (`device.rs:446`); `filter_permitted` (`device.rs:1069`) compares the permitted items of a
  type with the first request that names it. An element that only a second request for
  the type names is dropped, although it was permitted, and no error says so.
* `device_key_lists`: "Determine whether the key is permitted to sign over the designated
  element" (`device_key/mod.rs:105`); `validate` accepts authorized namespaces beside
  elements of other namespaces, but `permitted` (`:107`) does not look at the elements
  when there are namespaces.
* `namespaces_moment`: "Unwrap safety: it has just been successfully parsed"
  (`tdate.rs:34`); in between the date-time is moved to offset zero, which can leave the
  years that can be written, and the unwrap panics.

Other observations, made while the modules were written; they have no run of their own:

* `prepare_response` (`device.rs:461`) replaces any state, and `submit_next_signature`
  takes bytes without the identifier that came with the payload ("signature for object
  returned by" `get_next_signature_payload`, `device.rs:547`): see the assumptions.
* "Public preparation remains serial unless a caller explicitly selects the executor"
  (`DOWNSTREAM.md:29`); with the feature `parallel` the default executor
  (`digest_executor.rs:523`) is the adaptive one.
* "without any chunk holding more than half of the work" (`digest_executor.rs:475`); the
  selection uses the processors of now, the call (`digest_executor.rs:585`) the pool of
  an earlier time. `NativeWorkIsShared` therefore supposes a pool that is large enough.
* `name_matches` (`names.rs:106`) exchanges the two certificates when it reports one that
  repeats an attribute.
* "must lie between 256 and 65,536 inclusive" (`nfc_options.rs:34`); what is read is
  compared with the minimum only (`nfc_options.rs:108`).
* Null is an absent value for optional fields (test `null_as_none`, `from_json.rs:189`),
  but an error for `issuing_jurisdiction` (`from_json.rs:150`).
* "up to 150 characters" (`latin1.rs:6`) are counted in bytes (`:54`).

## Proofs

Every theorem holds for every value of the constants that the `ASSUME`s of its modules
allow: any number of keys, readers, documents, certificates, credentials, jobs, threads,
any counter limit. The inductive invariants are defined at the end of the modules they
are about.

| Module | Theorems |
|---|---|
| PresentationProofs | `Inductive` (`IndInv`), `TypeCorrect`, `CountersAgree`, `InOrder`, `NoncesUnique`, `CountersNeverGoBack`, `Refinement` |
| GrantProofs | `GrantsInductive` (`GrantInv`, `EngagementConsumed`), `OnlyGrantedIsAccepted`, `OneReaderAnswered` |
| DeviceProofs | `DeviceInductive` (`DeviceInv`), `ConsentAlwaysRespected`, `SignaturesMatch`, `NothingUnanswered` |
| DigestPoolProofs | `PoolInductive` (`PoolInv`), `BudgetNeverDrifts`, `OnePool`, `PoolTypeCorrect`, `ResultsInductive` (`CallInv`), `OkCallsAreComplete` |
| IssuanceProofs | `CallsInductive` (`IssueInv`), `DigestsAlwaysMatch`, `FaultsAlwaysRejected`, `HonestCallsAlwaysSucceed`, `FastPathAlwaysAgrees`, `IssuedAlwaysVerifies`, `ExecutionInductive` (`ResultsInv`), `ExecutorsAlwaysAgree`, `WorkInductive` (`WorkInv`), `WorkIsAlwaysShared` |
| TrustProofs | `VerdictInductive` (`VerdictInv`), `TrustIsAnchored`, `TrustIsTimely`, `TrustKeepsRoles`, `TrustKeepsJurisdiction`, `TrustIsMonotonic`; `CoseInductive` (`CoseInv`), `VerifiedIsPrepared`, `HonestVerifies`, `ClaimsAreSigned` |
| EngagementProofs | `EngagementInductive` (`EngagementInv`), `ScannedIsWhatWasMeant`, `TranscriptsAgree`, `ReaderFindsTheDevice`; `DeviceKeysInductive` (`DeviceKeysInv`), `PermittedWasAlwaysListed` |
| ElementProofs | `StatementsInductive` (`AgeInv`), `AnswersAreTrue`, `AnswersAreNearest`; `NamespaceInductive` (`NamespaceInv`), `NothingIsLost`, `JurisdictionIsInCountry`, `OnlyThatEntryChanges` |

**PresentationProofs.** `NonceUnique` and `OpenedInOrder` are not inductive: they say
nothing of the counters, which decide the next nonce. `SessionInv` adds what is missing.
The n-th ciphertext of a key carries counter n (`NoncesCount`); each of the four
counters is the length of its channel, channels of a reader without a session, of
other transcripts and of unused device keys are empty (`ReaderCounts`,
`DeviceCounts`); and everything in transit was sealed (`NetOK`, `StateTypeOK`), so
that a ciphertext that authenticates under the expected nonce is the next one of
the channel. The proof has one lemma per operation of the device and of the
reader, over lemmas about the cipher: that transcripts and keys are injective,
that `encrypt` appends and `decrypt` accepts the next message only. `Refinement` shows
that every step seals one message, opens the next one, or does neither.
`CountersNeverGoBack` compares the counters before and after a step: both are the lengths
of their channels, and a channel grows by one message or not at all (`ChannelsGrow`), so
a counter that is put back after a message left, or that wraps round, cannot occur.

**GrantProofs** follows a response backwards through the whole protocol. `AcceptedWasGranted`
speaks of the last outcome of a reader; `GrantInv` adds the links in between: what a
reader accepted is a response that was sealed in its session (`AcceptedWasSealed`), what
the device sealed was granted (`SealedGranted`), a grant was asked for by a request that
this reader sealed (`GrantsRequested`), and the same for the outcome and the consent that
the device holds between two calls. It builds on `Inductive` and on the invariant
`ConsentInv` of DeviceProofs. `OneReaderPerEngagement` needs that two readers
never both have ciphertexts from one device key (`EngagementConsumed`), which holds
because establishing a session takes the engagement.

**DeviceProofs** is about the device alone, against a peer that may seal anything.
`ConsentInv` ties the state to the last consent: documents that wait and documents that
are signed together are the permitted ones (`SigningInv`), and a response that is ready
answers them all with signatures over their own payloads (`ReadyInv`). `NothingUnanswered` compares
the documents of a response with all requests, of which `filter_permitted` has used the
first for each type (`AskedFromOne`). The properties
that the run checks say this of the documents they look at; the step from the last
signature to the ready response needs it of all.

**DigestPoolProofs.** `PoolInv` adds that the mutex is held by exactly the caller between
`lock` and `unlock`, that whoever builds has seen an empty slot, that only calls between
admission and release hold workers, and that a call about to swap asks for no more
than the pool has. Leases are counted as sets of tokens, and `LeaseTokens` says
that a lease of w workers adds w of them. `CallInv` adds that pool threads work for
admitted calls only and that results belong to jobs of the call under way, so that a
call that finishes with nothing left to do has hashed exactly its jobs.

**IssuanceProofs.** `IssueInv` describes a call at each of its places: plans are in step
with the caller's items and carry their elements (`PlansInv`), identifiers are unique in
a namespace, the job of an element is the one at its place; what was prepared comes from
the plan of its own item (`MdocsInv`). Restoration is argued from identities: all jobs of
a call have different identities, so that the results of an honest executor, in any
order, have one fitting result per job, and the same number. For the faults the proof
counts: a list that is as long as the jobs and has a result for each of them has no
second and no foreign result, so omitting, repeating, inventing or renaming one leaves a
job without a result or changes the length. The lemma `Restoration` shows that the single
pass and the general way give the same answer, honest or not. The executors are shown
equal to the serial one from two facts: every job is in exactly one place of one group
(groups are ranks among the jobs of equal block count), and what lanes compress is the
message with its padding, whose length is the block count times the block size and whose
bytes are those of the standard. `NativeWorkIsShared` is about the chunks that the pool
cuts, with its own size, while the selection measured the chunks of the processors it
counted. `WorkInv` adds that a pool is never larger than the limit for native workers.
A pool that is at least as large as was counted cuts with the same number of workers, so
its chunks are the ones that were measured; a smaller one makes fewer, never more than
its threads. The input bytes of a batch are a set of tokens, one for each byte of each
job, so that the bytes of some jobs are the size of a set.

**TrustProofs.** The last verdict is what `validate` computes from the registry that is
held, with readings of a clock that does not go back (`VerdictInv`); each property then
follows from the accepted chain having no error, by the check that would have reported
one. `TrustIsMonotonic` has the most to show: the first candidate stays the first when
an anchor is appended. `CoseInv` says of the message in memory, of the stored one, of the
ones in transit and of the verified one what they were made from: payloads at the signers
belong to prepared builders, signatures are over requested payloads, and a carrier changes
fields but does not sign. The properties speak of the last verification only.

**EngagementProofs** shows that decoding undoes encoding, type by type, and then that the
steps of two parties keep what was encoded. `EngagementInv` says that the reader has what
it read from one code, which is the code of the device or an altered one, and that the
session was made from what the reader has. A map with integer keys is written entry by
entry, some of them optional, and read as the last value of each key; `Table` relates the
entries to the map they mean, and its lemmas say that a single entry is a table, that two
tables without a common key joined are a table of the joined map, and that a table is read
as its map. Each type then has a lemma of its own (`KeyIsRead`, `BleIsRead`, `WifiIsRead`,
`NfcIsRead`, `MethodIsRead`, `ServerIsRead`, `EngagementIsRead`). The types allow less
than the maps: a length that fits its width, a UUID of 16 bytes, an address only with the
peripheral mode; the proofs need each of these. `TranscriptsAgree` starts from any code
(`CodesAssumption`), so it does not use the round trip: `Tag24` keeps the bytes it read.
`DeviceKeysInv` is that the holder has what was issued and that every answer is that of
`permitted` on it; structures with text keys are
argued with `Found`, which says at which place a field is.

**ElementProofs.** `AgeInv` is that the statements of the description and of the elements
are true of the holder. That the answer is the nearest one follows from the element being
a least or greatest one of a set of numbers, and from two digits being read as the number
that they write. For the namespaces the last result is that of the present description
(`NamespaceInv`); the properties are about what `Converted` makes of it. The elements are
the union of one map for each field, and a union of maps is a function only where they
agree: the proof shows that every identifier has exactly one field that it can come from,
for the fixed names and for the three dynamic fields, which look for prefixes. An element
is then converted from its own entry alone, which gives `NothingLost` and the part of
`OnlyThatEntry` about elements; the one field that looks at a second entry is the issuing
jurisdiction, and `JurisdictionIsInCountry` shows that both conversions of the country
give the same code.

No induction over data is available to the prover. Where a proof needs one it uses a
fact of the library instead: how injections and surjections compare the sizes of finite
sets, and that a set of natural numbers has a least one.

Every invariant and every action property of the passing runs is proved. Only
model-checked are the liveness properties `SigningCompletes`, `CallsReturn` and
`NeverWaitsForWorkers`: fairness and `ENABLED` are out of the prover's reach. The seven
counterexamples are found by TLC on the instances given.

## Assumptions of the models

* ECDH and HKDF are injective, AES-GCM accepts exactly what was sealed under the
  same key and nonce, the random generator does not repeat an ephemeral key.
* CBOR encodings round-trip, and encoding what the library built succeeds.
* The application passes the items of the last outcome to `prepare_response`, and
  does not call it between taking a payload and submitting its signature: otherwise the
  signature is attached to another document. The code checks neither.
* Permitted elements are sets; the code would return an element twice that the
  application lists twice.
* Signatures are ideal. Reader authentication is checked for the first document
  request; the reader checks issuer and device signatures and does not compare
  element digests, as in `validate_response`.
* A digest executor may break its contract in one result. One that exchanges two
  digests and keeps both identities cannot be noticed, as the code says
  (`mdoc.rs:1110`); salts and decoy bytes do not repeat.
* The compression of SHA-256, SHA-1 of a key, base64, ECDSA and HMAC are injective.
* Two certificates with one identifier are the same bytes; the clock does not go back.
  The period of a certificate is not empty (`CertAssumption`). The code compares each
  bound with its own reading of the clock and not with the other bound, so a certificate
  that ends before it begins could pass when the clock moves in between.
* What `parse_request` accepts has at least one document request (`RequestsAssumption`).
* The namespaces of a batch item have different names (`BatchesAssumption`): they are keys
  of a `BTreeMap`.
* An engagement, a method and a key are values of their Rust types (`EngagementsAssumption`,
  `DeviceKeysAssumption`), and a code that is scanned is CBOR of which each value has one
  type (`CodesAssumption`). The widths of integers are at least what NFC allows
  (`WidthAssumption`), namespaces and elements that can be authorized are finitely many.
* The entries of a description are told apart by base and suffix (`IdentifiersAssumption`).
* Only `AgeOver` makes identifiers that begin with `age_over_` (`AgesAssumption`).
* An age is parsed from digits; the plus sign that `str::parse` also takes is left out.
  Years are numbers: how many digits a full date has is not modelled.
* A panic on a caller's own thread unwinds out of the call.

## Not modelled

* The derived serialisation of requests, responses and the mobile security object: maps
  from field names to fields, without decisions of their own.
* The bytes of the primitives (`session_crypto.rs`), and memory wiping.
* Whether a point lies on its curve, and the variant of device authentication over a
  transcript that the caller gives as bytes.
* `submit_next_signature` failing to encode a response it built (`device.rs:568`): no
  value that the library builds makes the encoder fail.
* The command line tool, and the macros' work at compile time.
* Handover other than QR is a type without operations.

## Plan

1. Done: session cipher, device, reader, their composition and refinement, the
   digest pool and executors, issuance, X.509, COSE, engagement, device keys, ages,
   namespaces, and the proofs of all their safety properties.
2. Issuance as a refinement: a batch implements one preparation per credential.
3. The derived serialisation of requests and responses, with the lemmas on fields of
   EngagementProofs.
