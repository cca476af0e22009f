---------------------------- MODULE MdocIssuance ----------------------------
(***************************************************************************)
(* Issuance of mdocs: issuance/mdoc.rs with DigestId of definitions/mso.rs. *)
(* A call prepares one mdoc or a batch: inputs are validated, digests are   *)
(* planned with random digest identifiers and decoys, one executor hashes  *)
(* all jobs and returns results in any order, and the results are put back  *)
(* in place by (credential_id, job_id).  A remote signer then signs each    *)
(* prepared mdoc, and complete checks the signature before it issues.       *)
(*                                                                         *)
(* An input of a digest job is what its bytes were made from; salts and    *)
(* decoy bytes do not repeat.  An Option or a Result is a set with at most *)
(* one member.                                                             *)
(***************************************************************************)
EXTENDS Integers, Sequences, FiniteSets, SequencesExt

CONSTANTS
    Batches,          \* batches that a caller submits
    Singles,          \* inputs of Mdoc::prepare
    IdBits,           \* width of the integer in a DigestId: i32
    DecoyCounts,      \* how many decoys a namespace can get: 5..9
    Chains            \* end entities of certificate chains: [curve, key]

\* What a caller gives for one credential.  Namespaces are a map: a name has one
\* entry, and the entries are in the order of the names.
Entries == [name : STRING, elements : Nat]
DigestAlgorithm == {"SHA-256", "SHA-384", "SHA-512"}
MdocBatchItem ==
    {item \in [id : Nat, namespaces : Seq(Entries), missing : BOOLEAN,
               key_authorizations :
                   SUBSET [namespaces : SUBSET STRING, data_elements : SUBSET STRING],
               decoys : BOOLEAN, algorithm : DigestAlgorithm, signature_algorithm : STRING] :
        \A k, l \in DOMAIN item.namespaces :
            item.namespaces[k].name = item.namespaces[l].name => k = l}

ASSUME BatchesAssumption ==
    /\ Batches \subseteq Seq(MdocBatchItem)
    /\ Singles \subseteq MdocBatchItem
ASSUME IdsAssumption == /\ IdBits \in Nat \ {0} /\ DecoyCounts \subseteq Nat \ {0}

VARIABLES
    single,        \* the call is Mdoc::prepare
    batch,         \* the items of the call
    phase,         \* "idle", "planning", "executed", "prepared", "failed", "panicked"
    plans,         \* the digest plans made so far, the last one in the making
    results,       \* what the executor returned
    fault,         \* history: how the executor broke its contract
    prepared,      \* the prepared mdocs, in caller order
    issued         \* the mdocs that complete returned
issueVars == <<single, batch, phase, plans, results, fault, prepared, issued>>

MDOC_CREDENTIAL_ID == 0

-----------------------------------------------------------------------------
(* Validation *)

validate_namespace_shape(namespaces) ==
    namespaces # <<>> /\ \A n \in DOMAIN namespaces : namespaces[n].elements > 0

\* KeyAuthorizations::validate: a namespace is not authorized twice, as a whole
\* and by elements.
validate_authorizations(authorizations) ==
    authorizations.namespaces \cap authorizations.data_elements = {}

\* A builder with all its parameters, valid key authorizations and no empty map.
ItemOk(item) ==
    /\ ~item.missing
    /\ \A a \in item.key_authorizations : validate_authorizations(a)
    /\ validate_namespace_shape(item.namespaces)

validate_mdoc_batch(b) ==
    /\ \A i \in DOMAIN b : ItemOk(b[i])
    /\ \A i, j \in DOMAIN b : b[i].id = b[j].id => i = j

-----------------------------------------------------------------------------
(* Planning *)

Power2(n) == 2^n
Least == -Power2(IdBits - 1)
RawIds == Least..(Power2(IdBits - 1) - 1)

\* DigestId::new makes an identifier of a random integer.  In a build without
\* overflow checks the negation of the least one wraps around.
DigestId(i) == IF i < 0 /\ i # Least THEN -i ELSE i
DigestIds == {DigestId(i) : i \in RawIds}

\* Mutant: decoys are drawn without regard to the identifiers of the elements.
generate_digest_id_ForgetsItems(n, d) ==
    {ids \in [1..(n + d) -> DigestIds] :
        \A i, j \in 1..(n + d) : (i <= n <=> j <= n) /\ ids[i] = ids[j] => i = j}

\* The identifiers that n elements and then d decoys of a namespace can draw:
\* each draw repeats until it is new.
generate_digest_id(n, d) ==
    {ids \in [1..(n + d) -> DigestIds] :
        \A i, j \in 1..(n + d) : ids[i] = ids[j] => i = j}

\* What is hashed: an IssuerSignedItem, or random bytes.
IssuerSignedItem(credential, name, element, id) ==
    [kind |-> "item", credential |-> credential, name |-> name, index |-> element,
     digest_id |-> id]
Decoy(credential, name, index) ==
    [kind |-> "decoy", credential |-> credential, name |-> name, index |-> index,
     digest_id |-> 0]

\* The jobs of one namespace; job identifiers go on where the plan has come to.
NamespaceJobs(plan, item, ns, ids) ==
    [k \in DOMAIN ids |->
        [credential_id |-> plan.credential_id, job_id |-> Len(plan.jobs) + k - 1,
         ordinal |-> k - 1, algorithm |-> item.algorithm,
         input |-> IF k <= ns.elements
                   THEN IssuerSignedItem(plan.credential_id, ns.name, k, ids[k])
                   ELSE Decoy(plan.credential_id, ns.name, k)]]

NamespaceDigests(plan, ns, ids) ==
    [k \in DOMAIN ids |->
        [name |-> ns.name, credential_id |-> plan.credential_id,
         job_id |-> Len(plan.jobs) + k - 1, digest_id |-> ids[k]]]

\* plan_digest_namespace with push_planned_digest, and the items that
\* to_issuer_namespaces made.
plan_digest_namespace(plan, item, ns, ids) ==
    [plan EXCEPT
        !.planned = @ \o NamespaceDigests(plan, ns, ids),
        !.jobs = @ \o NamespaceJobs(plan, item, ns, ids),
        !.namespaces = @ + 1,
        !.items = @ \cup {IssuerSignedItem(plan.credential_id, ns.name, k, ids[k]) :
                            k \in 1..ns.elements}]

EmptyPlan(item) == [credential_id |-> item.id, namespaces |-> 0, planned |-> <<>>,
                    jobs |-> <<>>, items |-> {}]

-----------------------------------------------------------------------------
(* Assembly *)

Identity(x) == <<x.credential_id, x.job_id>>
digest(algorithm, input) == [algorithm |-> algorithm, of |-> input]
DigestResult(job) == [credential_id |-> job.credential_id, job_id |-> job.job_id,
                      ordinal |-> job.ordinal, digest |-> digest(job.algorithm, job.input)]

\* Where a digest stands in the MSO: the namespace and the digest identifier.
PlaceOf(x) == <<x.name, x.digest_id>>

\* The value digests of a plan, given the digest of each planned one.
ValueDigests(plan, digests) ==
    [p \in {PlaceOf(plan.planned[k]) : k \in DOMAIN plan.planned} |->
        digests[CHOOSE k \in DOMAIN plan.planned : PlaceOf(plan.planned[k]) = p]]

UniqueIds(plan) ==
    \A k, l \in DOMAIN plan.planned :
        PlaceOf(plan.planned[k]) = PlaceOf(plan.planned[l]) => k = l

\* A plan that refers to its own jobs, to each of them once.
PlanConsistent(plan) ==
    /\ \A k \in DOMAIN plan.jobs : plan.jobs[k].credential_id = plan.credential_id
    /\ \A k, l \in DOMAIN plan.jobs : Identity(plan.jobs[k]) = Identity(plan.jobs[l]) => k = l
    /\ {Identity(plan.planned[k]) : k \in DOMAIN plan.planned}
         = {Identity(plan.jobs[k]) : k \in DOMAIN plan.jobs}
    /\ Len(plan.planned) = Len(plan.jobs)
    /\ UniqueIds(plan)

\* The digest of a result has the length of the algorithm of the job.
ResultFits(result, job) ==
    result.ordinal = job.ordinal /\ result.digest.algorithm = job.algorithm

\* Mutant: results are looked up by job_id alone.
assemble_reordered_digest_batches_ByJob(ps, rs) ==
    LET found(job) == {i \in DOMAIN rs : rs[i].job_id = job.job_id}
    IN  IF /\ \A n \in DOMAIN ps : PlanConsistent(ps[n])
           /\ \A n \in DOMAIN ps : \A k \in DOMAIN ps[n].jobs :
                 \E i \in found(ps[n].jobs[k]) : ResultFits(rs[i], ps[n].jobs[k])
        THEN {[n \in DOMAIN ps |->
                ValueDigests(ps[n],
                    [k \in DOMAIN ps[n].planned |->
                        rs[CHOOSE i \in found(ps[n].planned[k]) : TRUE].digest])]}
        ELSE {}

\* Mutant: results that belong to no job are ignored.
assemble_reordered_digest_batches_Extra(ps, rs) ==
    LET found(x) == {i \in DOMAIN rs : Identity(rs[i]) = Identity(x)}
    IN  IF /\ \A i, j \in DOMAIN rs : Identity(rs[i]) = Identity(rs[j]) => i = j
           /\ \A n, m \in DOMAIN ps : ps[n].credential_id = ps[m].credential_id => n = m
           /\ \A n \in DOMAIN ps : PlanConsistent(ps[n])
           /\ \A n \in DOMAIN ps : \A k \in DOMAIN ps[n].jobs :
                 \E i \in found(ps[n].jobs[k]) : ResultFits(rs[i], ps[n].jobs[k])
        THEN {[n \in DOMAIN ps |->
                ValueDigests(ps[n],
                    [k \in DOMAIN ps[n].planned |->
                        rs[CHOOSE i \in found(ps[n].planned[k]) : TRUE].digest])]}
        ELSE {}

\* Every result is taken by the job with its identity; a repeated, missing,
\* changed or left-over result is an error of the whole batch.
assemble_reordered_digest_batches(ps, rs) ==
    LET found(x) == {i \in DOMAIN rs : Identity(rs[i]) = Identity(x)}
    IN  IF /\ \A i, j \in DOMAIN rs : Identity(rs[i]) = Identity(rs[j]) => i = j
           /\ \A n, m \in DOMAIN ps : ps[n].credential_id = ps[m].credential_id => n = m
           /\ \A n \in DOMAIN ps : PlanConsistent(ps[n])
           /\ \A n \in DOMAIN ps : \A k \in DOMAIN ps[n].jobs :
                 \E i \in found(ps[n].jobs[k]) : ResultFits(rs[i], ps[n].jobs[k])
           /\ \A i \in DOMAIN rs : \E n \in DOMAIN ps : \E k \in DOMAIN ps[n].jobs :
                 Identity(ps[n].jobs[k]) = Identity(rs[i])
        THEN {[n \in DOMAIN ps |->
                ValueDigests(ps[n],
                    [k \in DOMAIN ps[n].planned |->
                        rs[CHOOSE i \in found(ps[n].planned[k]) : TRUE].digest])]}
        ELSE {}

\* Mutant: a complete set of results is taken to be in order.
results_follow_plan_order_Length(plan, rs) == Len(rs) = Len(plan.jobs)

results_follow_plan_order(plan, rs) ==
    /\ Len(rs) = Len(plan.jobs)
    /\ \A k \in DOMAIN rs : /\ Identity(rs[k]) = Identity(plan.jobs[k])
                            /\ rs[k].ordinal = plan.jobs[k].ordinal

\* One pass over plan, jobs and results in step.
assemble_ordered_digest_namespaces(plan, rs) ==
    IF /\ Len(plan.planned) = Len(plan.jobs) /\ Len(rs) = Len(plan.jobs)
       /\ \A k \in DOMAIN plan.jobs :
             /\ plan.jobs[k].credential_id = plan.credential_id
             /\ plan.jobs[k].job_id = k - 1
             /\ Identity(plan.planned[k]) = Identity(plan.jobs[k])
             /\ Identity(rs[k]) = Identity(plan.jobs[k])
             /\ ResultFits(rs[k], plan.jobs[k])
       /\ UniqueIds(plan)
    THEN {<<ValueDigests(plan, [k \in DOMAIN rs |-> rs[k].digest])>>}
    ELSE {}

assemble_digest_namespaces(plan, rs) ==
    IF results_follow_plan_order(plan, rs)
    THEN assemble_ordered_digest_namespaces(plan, rs)
    ELSE assemble_reordered_digest_batches(<<plan>>, rs)

-----------------------------------------------------------------------------
(* Signatures *)

CurveOf(algorithm) == CASE algorithm = "ES256" -> "P-256"
                        [] algorithm = "ES384" -> "P-384"
                        [] algorithm = "ES512" -> "P-521"
                        [] OTHER -> "none"

\* finish_preparation: the MSO, and the payload that names the algorithm.
finish_preparation(item, plan, valueDigests) ==
    [credential_id |-> plan.credential_id, namespaces |-> plan.items,
     mso |-> [digest_algorithm |-> item.algorithm, value_digests |-> valueDigests],
     algorithm |-> item.signature_algorithm]
signature_payload(p) == <<p.algorithm, p.mso>>

\* Mutant: the signature is checked to be of the right kind only.
verify_remote_signature_Format(algorithm, chain, payload, signature) ==
    /\ CurveOf(algorithm) # "none"
    /\ signature.curve = CurveOf(algorithm) /\ chain.curve = CurveOf(algorithm)

\* The encoding, the end-entity key and the algorithm agree on a curve, and the
\* key verifies the payload.
verify_remote_signature(algorithm, chain, payload, signature) ==
    /\ CurveOf(algorithm) # "none"
    /\ signature.curve = CurveOf(algorithm) /\ chain.curve = CurveOf(algorithm)
    /\ signature.key = chain.key /\ signature.over = payload

-----------------------------------------------------------------------------
(* Operations *)

IssueInit ==
    /\ single = FALSE /\ batch = <<>> /\ phase = "idle" /\ plans = <<>>
    /\ results = <<>> /\ fault = "none" /\ prepared = <<>> /\ issued = {}

\* Nothing is random before every input of the call is valid; an empty batch
\* returns at once.
Submit(items, one) ==
    /\ phase = "idle"
    /\ single' = one /\ batch' = items
    /\ phase' = CASE ~validate_mdoc_batch(items) -> "failed"
                  [] items = <<>> -> "prepared"
                  [] OTHER -> "planning"
    /\ plans' = IF phase' = "planning" THEN <<EmptyPlan(items[1])>> ELSE <<>>
    /\ UNCHANGED <<results, fault, prepared, issued>>

\* Mdoc::prepare_batch_with_digest_executor
PrepareBatch == \E b \in Batches : Submit(b, FALSE)

\* Mdoc::prepare_with_digest_executor
Prepare == \E s \in Singles : Submit(<<[s EXCEPT !.id = MDOC_CREDENTIAL_ID]>>, TRUE)

Current == Len(plans)
PlanComplete(n) == plans[n].namespaces = Len(batch[n].namespaces)
AllPlanned == Current = Len(batch) /\ PlanComplete(Current)

\* The next namespace of the credential that is being planned.  Identifiers of
\* elements are drawn before those of decoys.  In a build with overflow checks the
\* least integer ends the call with a panic.
PlanNamespace ==
    LET plan == plans[Current]
        item == batch[Current]
        ns == item.namespaces[plan.namespaces + 1]
    IN  /\ phase = "planning" /\ ~PlanComplete(Current)
        /\ \/ /\ \E d \in IF item.decoys THEN DecoyCounts ELSE {0} :
                 \E ids \in generate_digest_id(ns.elements, d) :
                    plans' = [plans EXCEPT
                                ![Current] = plan_digest_namespace(plan, item, ns, ids)]
              /\ UNCHANGED phase
           \/ phase' = "panicked" /\ UNCHANGED plans
        /\ UNCHANGED <<single, batch, results, fault, prepared, issued>>

\* The next credential, in caller order.
PlanCredential ==
    /\ phase = "planning" /\ PlanComplete(Current) /\ Current < Len(batch)
    /\ plans' = Append(plans, EmptyPlan(batch[Current + 1]))
    /\ UNCHANGED <<single, batch, phase, results, fault, prepared, issued>>

AllJobs == UNION {{plans[n].jobs[k] : k \in DOMAIN plans[n].jobs} : n \in DOMAIN plans}

\* The results of all jobs in some order.
Schedules(jobs) == SetToSeqs({DigestResult(job) : job \in jobs})

\* What an executor that breaks its contract makes of the last result.
Faulty(rs, kind) ==
    CASE kind = "none" -> rs
      [] kind = "omitted" -> SubSeq(rs, 1, Len(rs) - 1)
      [] kind = "repeated" -> Append(rs, rs[Len(rs)])
      [] kind = "unknown" -> Append(rs, [rs[Len(rs)] EXCEPT !.job_id = Len(rs) + 1])
      [] kind = "renamed" -> [rs EXCEPT ![Len(rs)].credential_id = @ + 1]
      [] kind = "ordinal" -> [rs EXCEPT ![Len(rs)].ordinal = @ + 1]
      [] kind = "length" -> [rs EXCEPT ![Len(rs)].digest.algorithm = "truncated"]

Faults == {"none", "omitted", "repeated", "unknown", "renamed", "ordinal", "length"}

\* The one call of the executor, with the jobs of all credentials.
ExecuteDigests ==
    /\ phase = "planning" /\ AllPlanned
    /\ \/ /\ \E rs \in Schedules(AllJobs), kind \in Faults :
              results' = Faulty(rs, kind) /\ fault' = kind
          /\ phase' = "executed"
       \/ phase' = "failed" /\ fault' = "error" /\ UNCHANGED results
    /\ UNCHANGED <<single, batch, plans, prepared, issued>>

\* The value digests of every plan; a single mdoc may take the faster way.
RestoredDigests ==
    IF single THEN assemble_digest_namespaces(plans[1], results)
    ELSE assemble_reordered_digest_batches(plans, results)

\* Results are restored, and every mdoc is finished or none is.
Assemble ==
    /\ phase = "executed"
    /\ \/ RestoredDigests = {} /\ phase' = "failed" /\ UNCHANGED prepared
       \/ \E assembled \in RestoredDigests :
             /\ phase' = "prepared"
             /\ prepared' = [n \in DOMAIN plans |->
                    finish_preparation(batch[n], plans[n], assembled[n])]
    /\ results' = <<>>
    /\ UNCHANGED <<single, batch, plans, fault, issued>>

\* What a remote signer may answer: a signature over any of the prepared payloads.
Signatures ==
    [curve : {c.curve : c \in Chains}, key : {c.key : c \in Chains},
     over : {signature_payload(prepared[n]) : n \in DOMAIN prepared}]

\* PreparedMdoc::complete.  A prepared mdoc can be cloned, so that the caller may
\* try again or complete it twice.
Complete(n) ==
    LET p == prepared[n]
    IN  /\ phase = "prepared"
        /\ \E chain \in Chains, signature \in Signatures :
            /\ verify_remote_signature(p.algorithm, chain, signature_payload(p), signature)
            /\ issued' = issued \cup {[of |-> n, namespaces |-> p.namespaces, mso |-> p.mso,
                                      issuer_auth |-> signature, x5chain |-> chain]}
        /\ UNCHANGED <<single, batch, phase, plans, results, fault, prepared>>

IssueNext ==
    \/ PrepareBatch \/ Prepare
    \/ PlanNamespace \/ PlanCredential
    \/ ExecuteDigests \/ Assemble
    \/ \E n \in DOMAIN prepared : Complete(n)

IssueSpec == IssueInit /\ [][IssueNext]_issueVars

-----------------------------------------------------------------------------
(* Properties *)

\* In every prepared mdoc, each element of the caller's item for this credential
\* is found in the MSO under its own digest identifier with the digest of its own
\* bytes, whatever order the executor returned the results of the batch in.
ItemDigestsMatch ==
    \A n \in DOMAIN prepared :
        /\ prepared[n].credential_id = batch[n].id
        /\ \A i \in DOMAIN batch[n].namespaces :
             \A e \in 1..batch[n].namespaces[i].elements :
              \E item \in prepared[n].namespaces :
                /\ item.credential = batch[n].id /\ item.index = e
                /\ item.name = batch[n].namespaces[i].name
                /\ PlaceOf(item) \in DOMAIN prepared[n].mso.value_digests
                /\ prepared[n].mso.value_digests[PlaceOf(item)]
                      = digest(batch[n].algorithm, item)

\* A result set that an executor shortened, extended, renamed or damaged prepares
\* nothing.
FaultsRejected == phase = "prepared" => fault = "none"

\* A valid call with an executor that keeps its contract is never refused: random
\* identifiers of elements and decoys cannot make the assembly fail.
HonestCallsSucceed ==
    phase = "failed" /\ fault = "none" => ~validate_mdoc_batch(batch)

\* The single pass that Mdoc::prepare takes when results are in order accepts and
\* returns what the general restoration does.
FastPathAgrees ==
    phase = "executed" /\ single =>
        assemble_digest_namespaces(plans[1], results)
            = assemble_reordered_digest_batches(plans, results)

\* A verifier accepts an issued mdoc: what was signed, by the key of its own chain
\* and on the curve of the algorithm that its header names, holds the digest of
\* every element that the mdoc carries, and these are the elements of the caller's
\* item at the same place.  The answers of the remote signer can reach any complete
\* call, with any chain.
IssuedVerifies ==
    \A m \in issued :
        /\ m.issuer_auth.key = m.x5chain.key
        /\ m.x5chain.curve = CurveOf(batch[m.of].signature_algorithm)
        /\ m.issuer_auth.over[1] = batch[m.of].signature_algorithm
        /\ \A item \in m.namespaces :
             /\ item.credential = batch[m.of].id
             /\ PlaceOf(item) \in DOMAIN m.issuer_auth.over[2].value_digests
             /\ m.issuer_auth.over[2].value_digests[PlaceOf(item)]
                  = digest(batch[m.of].algorithm, item)

\* mso.rs: "DigestId is a unsigned integer between `0` and `(2^31 - 1)` inclusive."
DigestIdInRange ==
    \A n \in DOMAIN plans : \A k \in DOMAIN plans[n].planned :
        plans[n].planned[k].digest_id \in 0..(Power2(IdBits - 1) - 1)
-----------------------------------------------------------------------------
(* What the properties rest on *)

Input == [kind : {"item", "decoy"}, credential : Nat, name : STRING, index : Nat,
          digest_id : Int]
Job == [credential_id : Nat, job_id : Nat, ordinal : Nat, algorithm : DigestAlgorithm,
        input : Input]
PlannedDigest == [name : STRING, credential_id : Nat, job_id : Nat, digest_id : Int]
DigestPlan == [credential_id : Nat, namespaces : Nat, planned : Seq(PlannedDigest),
               jobs : Seq(Job), items : SUBSET Input]

\* At each place of a plan stand the job and the digest planned for it, both of this
\* credential and both numbered by the place, in a namespace that was planned.
InStep(plan, item) ==
    /\ Len(plan.planned) = Len(plan.jobs)
    /\ \A k \in DOMAIN plan.jobs :
         /\ plan.jobs[k].credential_id = item.id /\ plan.jobs[k].job_id = k - 1
         /\ plan.jobs[k].algorithm = item.algorithm
         /\ plan.planned[k].credential_id = item.id /\ plan.planned[k].job_id = k - 1
         /\ \E i \in 1..plan.namespaces : plan.planned[k].name = item.namespaces[i].name

\* The elements of a plan are those of the planned namespaces, and each of them has a
\* job whose digest goes to its own place.
CarriesElements(plan, item) ==
    /\ \A x \in plan.items :
         /\ x.credential = item.id
         /\ \E k \in DOMAIN plan.jobs :
              plan.jobs[k].input = x /\ PlaceOf(plan.planned[k]) = PlaceOf(x)
    /\ \A i \in 1..plan.namespaces : \A e \in 1..item.namespaces[i].elements :
         \E x \in plan.items : x.index = e /\ x.name = item.namespaces[i].name

PlanOf(plan, item) ==
    /\ plan.credential_id = item.id
    /\ plan.namespaces \in 0..Len(item.namespaces)
    /\ InStep(plan, item)
    /\ UniqueIds(plan)
    /\ CarriesElements(plan, item)

PlansInv ==
    /\ batch \in Seq(MdocBatchItem) /\ plans \in Seq(DigestPlan)
    /\ Len(plans) <= Len(batch)
    /\ \A n \in DOMAIN plans : PlanOf(plans[n], batch[n])
    /\ \A n \in DOMAIN plans : n < Len(plans) => PlanComplete(n)

\* The call follows its phases, and the results are those of all jobs, complete or
\* with one fault.
CallPhases ==
    /\ phase \in {"idle", "planning", "executed", "prepared", "failed", "panicked"}
    /\ single \in BOOLEAN /\ (single => Len(batch) = 1)
    /\ phase = "idle" => fault = "none" /\ plans = <<>>
    /\ phase = "planning" => fault = "none"
    /\ phase \in {"planning", "executed", "prepared"} => validate_mdoc_batch(batch)
    /\ phase \in {"planning", "executed"} => plans # <<>>
    /\ phase \in {"executed", "prepared"} =>
         Len(plans) = Len(batch) /\ \A n \in DOMAIN plans : PlanComplete(n)
    /\ phase = "executed" =>
         fault \in Faults /\ \E rs \in Schedules(AllJobs) : results = Faulty(rs, fault)

\* The mdoc that is prepared from a plan has the digest of every planned job.
PreparedFrom(p, plan, item) ==
    /\ p.credential_id = item.id /\ p.algorithm = item.signature_algorithm
    /\ p.namespaces = plan.items
    /\ \A k \in DOMAIN plan.planned :
         /\ PlaceOf(plan.planned[k]) \in DOMAIN p.mso.value_digests
         /\ p.mso.value_digests[PlaceOf(plan.planned[k])]
              = digest(item.algorithm, plan.jobs[k].input)

MdocsInv ==
    /\ phase # "prepared" => prepared = <<>> /\ issued = {}
    /\ DOMAIN prepared \subseteq DOMAIN plans
    /\ \A n \in DOMAIN prepared : PreparedFrom(prepared[n], plans[n], batch[n])
    /\ \A m \in issued :
         /\ m.of \in DOMAIN prepared /\ m.namespaces = prepared[m.of].namespaces
         /\ verify_remote_signature(prepared[m.of].algorithm, m.x5chain,
                signature_payload(prepared[m.of]), m.issuer_auth)

\* The inductive invariant of a call.
IssueInv ==
    PlansInv /\ CallPhases /\ MdocsInv /\ FaultsRejected /\ HonestCallsSucceed
=============================================================================
