--------------------------- MODULE IssuanceProofs ---------------------------
(***************************************************************************)
(* Proofs about MdocIssuance and DigestExecution: the properties of an       *)
(* issuance call for every batch, every draw of digest identifiers, every    *)
(* order of the results and every fault of an executor, and the agreement of *)
(* the library's executors for every list of jobs.                           *)
(***************************************************************************)
EXTENDS MdocIssuance, DigestExecution, FiniteSetTheorems, SequenceTheorems, TLAPS

-----------------------------------------------------------------------------
(* Planning *)

\* A function on an initial segment is a sequence.
LEMMA IsSequence ==
    ASSUME NEW S, NEW N \in Nat, NEW s \in [1..N -> S]
    PROVE  s \in Seq(S) /\ Len(s) = N
    OBVIOUS

\* What is planned for one namespace: jobs and digests that are numbered on from the
\* plan, with identifiers that differ.
LEMMA NamespacePlanned ==
    ASSUME NEW plan \in DigestPlan, NEW item \in MdocBatchItem, NEW ns \in Entries,
           NEW d \in Nat, NEW ids \in generate_digest_id(ns.elements, d)
    PROVE  /\ NamespaceJobs(plan, item, ns, ids) \in Seq(Job)
           /\ NamespaceDigests(plan, ns, ids) \in Seq(PlannedDigest)
           /\ Len(NamespaceJobs(plan, item, ns, ids)) = ns.elements + d
           /\ Len(NamespaceDigests(plan, ns, ids)) = ns.elements + d
           /\ ns.elements + d \in Nat
           /\ ids \in [1..(ns.elements + d) -> Int]
           /\ \A i, j \in 1..(ns.elements + d) : ids[i] = ids[j] => i = j
<1>1. PICK N \in Nat : N = ns.elements + d
    BY DEF Entries
<1>2. DigestIds \subseteq Int
    BY DEF DigestIds, DigestId, RawIds
<1>3. /\ ids \in [1..N -> Int]
      /\ \A i, j \in 1..N : ids[i] = ids[j] => i = j
    BY <1>1, <1>2 DEF generate_digest_id
<1>4. \A k \in 1..N : Len(plan.jobs) + k - 1 \in Nat /\ k - 1 \in Nat /\ k \in Nat
    <2>1. Len(plan.jobs) \in Nat
        BY LenProperties DEF DigestPlan
    <2>. QED BY <2>1, <1>1
<1>5. \A k \in 1..N : NamespaceDigests(plan, ns, ids)[k] \in PlannedDigest
    BY <1>3, <1>4 DEF NamespaceDigests, PlannedDigest, DigestPlan, Entries
<1>6. \A k \in 1..N : NamespaceJobs(plan, item, ns, ids)[k] \in Job
    <2>. SUFFICES ASSUME NEW k \in 1..N PROVE NamespaceJobs(plan, item, ns, ids)[k] \in Job
        OBVIOUS
    <2>1. IssuerSignedItem(plan.credential_id, ns.name, k, ids[k]) \in Input
        BY <1>3, <1>4 DEF IssuerSignedItem, Input, DigestPlan, Entries
    <2>2. Decoy(plan.credential_id, ns.name, k) \in Input
        BY <1>4 DEF Decoy, Input, DigestPlan, Entries
    <2>3. item.algorithm \in DigestAlgorithm
        BY DEF MdocBatchItem
    <2>. QED BY <1>3, <1>4, <2>1, <2>2, <2>3 DEF NamespaceJobs, Job, DigestPlan
<1>7. /\ NamespaceDigests(plan, ns, ids) = [k \in 1..N |-> NamespaceDigests(plan, ns, ids)[k]]
      /\ NamespaceJobs(plan, item, ns, ids) = [k \in 1..N |-> NamespaceJobs(plan, item, ns, ids)[k]]
    BY <1>3 DEF NamespaceDigests, NamespaceJobs
<1>8. /\ NamespaceDigests(plan, ns, ids) \in [1..N -> PlannedDigest]
      /\ NamespaceJobs(plan, item, ns, ids) \in [1..N -> Job]
    BY <1>5, <1>6, <1>7
<1>9. /\ NamespaceDigests(plan, ns, ids) \in Seq(PlannedDigest)
      /\ Len(NamespaceDigests(plan, ns, ids)) = N
    BY <1>8, IsSequence
<1>10. /\ NamespaceJobs(plan, item, ns, ids) \in Seq(Job)
       /\ Len(NamespaceJobs(plan, item, ns, ids)) = N
    BY <1>8, IsSequence
<1>. QED BY <1>1, <1>3, <1>9, <1>10

\* The places of a concatenation.
Joins(u, s, t) ==
    /\ Len(u) = Len(s) + Len(t)
    /\ \A k \in 1..Len(s) : u[k] = s[k]
    /\ \A k \in 1..Len(t) : u[Len(s) + k] = t[k]

LEMMA Places ==
    ASSUME NEW S, NEW s \in Seq(S), NEW t \in Seq(S), NEW u, u = s \o t
    PROVE  u \in Seq(S) /\ Joins(u, s, t)
<1>1. /\ u \in Seq(S) /\ Len(u) = Len(s) + Len(t)
      /\ \A k \in 1..Len(s) + Len(t) : u[k] = IF k <= Len(s) THEN s[k] ELSE t[k - Len(s)]
    BY ConcatProperties
<1>2. Len(s) \in Nat /\ Len(t) \in Nat
    BY LenProperties
<1>3. ASSUME NEW k \in 1..Len(s) PROVE u[k] = s[k]
    BY <1>1, <1>2
<1>4. ASSUME NEW k \in 1..Len(t) PROVE u[Len(s) + k] = t[k]
    BY <1>1, <1>2
<1>. QED BY <1>1, <1>3, <1>4 DEF Joins

\* plan_digest_namespace keeps the plan of a credential in step with its item: the
\* names of a map differ, so the identifiers of one namespace cannot meet another's.
LEMMA PlanGrows ==
    ASSUME NEW plan \in DigestPlan, NEW item \in MdocBatchItem, PlanOf(plan, item),
           plan.namespaces < Len(item.namespaces),
           NEW ns \in Entries, ns = item.namespaces[plan.namespaces + 1],
           NEW d \in Nat, NEW ids \in generate_digest_id(ns.elements, d)
    PROVE  /\ plan_digest_namespace(plan, item, ns, ids) \in DigestPlan
           /\ PlanOf(plan_digest_namespace(plan, item, ns, ids), item)
<1>1. PICK L \in Nat : L = Len(plan.jobs) /\ L = Len(plan.planned)
    BY LenProperties DEF PlanOf, InStep, DigestPlan
<1>2. PICK N \in Nat : N = ns.elements + d
    BY NamespacePlanned
<1>3. PICK J : J = NamespaceJobs(plan, item, ns, ids)
    OBVIOUS
<1>4. PICK P : P = NamespaceDigests(plan, ns, ids)
    OBVIOUS
<1>5. /\ J \in Seq(Job) /\ Len(J) = N /\ P \in Seq(PlannedDigest) /\ Len(P) = N
      /\ ids \in [1..N -> Int] /\ \A i, j \in 1..N : ids[i] = ids[j] => i = j
    BY <1>2, <1>3, <1>4, NamespacePlanned
<1>6. PICK new : new = plan_digest_namespace(plan, item, ns, ids)
    OBVIOUS
<1>7. /\ new.credential_id = plan.credential_id /\ new.namespaces = plan.namespaces + 1
      /\ new.planned = plan.planned \o P /\ new.jobs = plan.jobs \o J
      /\ new.items = plan.items \cup {IssuerSignedItem(plan.credential_id, ns.name, k, ids[k]) :
                                        k \in 1..ns.elements}
    BY <1>3, <1>4, <1>6 DEF plan_digest_namespace, DigestPlan
<1>8. /\ new.jobs \in Seq(Job) /\ Len(new.jobs) = L + N
      /\ \A k \in 1..L : new.jobs[k] = plan.jobs[k]
      /\ \A k \in 1..N : new.jobs[L + k] = J[k]
    <2>1. plan.jobs \in Seq(Job)
        BY DEF DigestPlan
    <2>2. new.jobs \in Seq(Job) /\ Joins(new.jobs, plan.jobs, J)
        BY <2>1, <1>5, <1>7, Places
    <2>. QED BY <2>2, <1>1, <1>5 DEF Joins
<1>9. /\ new.planned \in Seq(PlannedDigest) /\ Len(new.planned) = L + N
      /\ \A k \in 1..L : new.planned[k] = plan.planned[k]
      /\ \A k \in 1..N : new.planned[L + k] = P[k]
    <2>1. plan.planned \in Seq(PlannedDigest)
        BY DEF DigestPlan
    <2>2. new.planned \in Seq(PlannedDigest) /\ Joins(new.planned, plan.planned, P)
        BY <2>1, <1>5, <1>7, Places
    <2>. QED BY <2>2, <1>1, <1>5 DEF Joins
<1>10. /\ DOMAIN new.jobs = 1..(L + N) /\ DOMAIN new.planned = 1..(L + N)
       /\ DOMAIN plan.jobs = 1..L /\ DOMAIN plan.planned = 1..L
    <2>1. plan.jobs \in Seq(Job) /\ plan.planned \in Seq(PlannedDigest)
        BY DEF DigestPlan
    <2>2. /\ DOMAIN plan.jobs = 1..Len(plan.jobs) /\ DOMAIN plan.planned = 1..Len(plan.planned)
          /\ DOMAIN new.jobs = 1..Len(new.jobs) /\ DOMAIN new.planned = 1..Len(new.planned)
        BY <2>1, <1>8, <1>9, LenProperties
    <2>. QED BY <2>2, <1>1, <1>8, <1>9
<1>11. ASSUME NEW k \in 1..(L + N) PROVE k \in 1..L \/ \E j \in 1..N : k = L + j
    <2>1. CASE k <= L
        BY <2>1
    <2>2. CASE k > L
        <3>1. k - L \in 1..N /\ k = L + (k - L)
            BY <2>2
        <3>. QED BY <3>1
    <2>. QED BY <2>1, <2>2
<1>12. ASSUME NEW k \in 1..N
       PROVE  /\ J[k].credential_id = item.id /\ J[k].job_id = (L + k) - 1
              /\ J[k].algorithm = item.algorithm
              /\ P[k].credential_id = item.id /\ P[k].job_id = (L + k) - 1
              /\ P[k].name = ns.name /\ P[k].digest_id = ids[k]
              /\ k <= ns.elements => J[k].input = IssuerSignedItem(plan.credential_id, ns.name, k, ids[k])
    <2>1. J[k] = [credential_id |-> plan.credential_id, job_id |-> Len(plan.jobs) + k - 1,
                  ordinal |-> k - 1, algorithm |-> item.algorithm,
                  input |-> IF k <= ns.elements
                            THEN IssuerSignedItem(plan.credential_id, ns.name, k, ids[k])
                            ELSE Decoy(plan.credential_id, ns.name, k)]
        BY <1>3, <1>5 DEF NamespaceJobs
    <2>2. P[k] = [name |-> ns.name, credential_id |-> plan.credential_id,
                  job_id |-> Len(plan.jobs) + k - 1, digest_id |-> ids[k]]
        BY <1>4, <1>5 DEF NamespaceDigests
    <2>3. plan.credential_id = item.id
        BY DEF PlanOf
    <2>. QED BY <2>1, <2>2, <2>3, <1>1
<1>13. /\ plan.namespaces \in Nat /\ new.namespaces \in 0..Len(item.namespaces)
       /\ new.namespaces \in 1..new.namespaces
       /\ \A i \in 1..plan.namespaces : i \in 1..new.namespaces
       /\ \A i \in 1..new.namespaces : i \in 1..plan.namespaces \/ i = new.namespaces
       /\ ns = item.namespaces[new.namespaces]
       /\ new.namespaces \in DOMAIN item.namespaces
       /\ \A i \in 1..plan.namespaces : i # new.namespaces /\ i \in DOMAIN item.namespaces
    <2>1. /\ plan.namespaces \in Nat /\ Len(item.namespaces) \in Nat
          /\ DOMAIN item.namespaces = 1..Len(item.namespaces)
        BY LenProperties DEF MdocBatchItem, DigestPlan
    <2>. QED BY <1>7, <2>1
<1>14. new \in DigestPlan
    <2>1. \A k \in 1..ns.elements : IssuerSignedItem(plan.credential_id, ns.name, k, ids[k]) \in Input
        <3>. SUFFICES ASSUME NEW k \in 1..ns.elements
                      PROVE  IssuerSignedItem(plan.credential_id, ns.name, k, ids[k]) \in Input
            OBVIOUS
        <3>1. k \in 1..N /\ k \in Nat
            BY <1>2 DEF Entries
        <3>. QED BY <3>1, <1>5 DEF IssuerSignedItem, Input, DigestPlan, Entries
    <2>2. new.items \in SUBSET Input
        BY <1>7, <2>1 DEF DigestPlan
    <2>3. new.namespaces \in Nat
        BY <1>13, <1>7
    <2>4. new = [credential_id |-> new.credential_id, namespaces |-> new.namespaces,
                 planned |-> new.planned, jobs |-> new.jobs, items |-> new.items]
        BY <1>6 DEF plan_digest_namespace, DigestPlan
    <2>. QED BY <2>2, <2>3, <2>4, <1>7, <1>8, <1>9 DEF DigestPlan
<1>15. InStep(new, item)
    <2>. SUFFICES ASSUME NEW k \in 1..(L + N)
                  PROVE  /\ new.jobs[k].credential_id = item.id /\ new.jobs[k].job_id = k - 1
                         /\ new.jobs[k].algorithm = item.algorithm
                         /\ new.planned[k].credential_id = item.id
                         /\ new.planned[k].job_id = k - 1
                         /\ \E i \in 1..new.namespaces :
                              new.planned[k].name = item.namespaces[i].name
        BY <1>8, <1>9, <1>10 DEF InStep
    <2>1. CASE k \in 1..L
        <3>1. new.jobs[k] = plan.jobs[k] /\ new.planned[k] = plan.planned[k] /\ k \in DOMAIN plan.jobs
            BY <2>1, <1>8, <1>9, <1>10
        <3>2. /\ plan.jobs[k].credential_id = item.id /\ plan.jobs[k].job_id = k - 1
              /\ plan.jobs[k].algorithm = item.algorithm
              /\ plan.planned[k].credential_id = item.id /\ plan.planned[k].job_id = k - 1
              /\ \E i \in 1..plan.namespaces : plan.planned[k].name = item.namespaces[i].name
            BY <3>1 DEF PlanOf, InStep
        <3>. QED BY <3>1, <3>2, <1>13
    <2>2. CASE \E j \in 1..N : k = L + j
        <3>1. PICK j \in 1..N : k = L + j
            BY <2>2
        <3>2. new.jobs[k] = J[j] /\ new.planned[k] = P[j]
            BY <3>1, <1>8, <1>9
        <3>3. new.planned[k].name = item.namespaces[new.namespaces].name
            BY <3>2, <1>12, <1>13
        <3>4. \E i \in 1..new.namespaces : new.planned[k].name = item.namespaces[i].name
            BY <3>3, <1>13
        <3>. QED BY <3>1, <3>2, <3>4, <1>12
    <2>. QED BY <2>1, <2>2, <1>11
<1>16. UniqueIds(new)
    <2>. SUFFICES ASSUME NEW k \in 1..(L + N), NEW l \in 1..(L + N),
                         PlaceOf(new.planned[k]) = PlaceOf(new.planned[l])
                  PROVE  k = l
        BY <1>10 DEF UniqueIds
    <2>1. /\ new.planned[k].name = new.planned[l].name
          /\ new.planned[k].digest_id = new.planned[l].digest_id
        BY DEF PlaceOf
    <2>2. ASSUME NEW a \in 1..L, NEW j \in 1..N PROVE new.planned[a].name # new.planned[L + j].name
        <3>1. PICK i \in 1..plan.namespaces : plan.planned[a].name = item.namespaces[i].name
            BY <1>10 DEF PlanOf, InStep
        <3>2. item.namespaces[i].name # item.namespaces[new.namespaces].name
            BY <1>13 DEF MdocBatchItem
        <3>3. new.planned[a].name = item.namespaces[i].name
            BY <3>1, <1>9
        <3>4. new.planned[L + j].name = item.namespaces[new.namespaces].name
            <4>1. new.planned[L + j] = P[j]
                BY <1>9
            <4>2. P[j].name = ns.name
                BY <1>12
            <4>. QED BY <4>1, <4>2, <1>13
        <3>. QED BY <3>2, <3>3, <3>4
    <2>3. CASE k \in 1..L /\ l \in 1..L
        BY <2>3, <1>9, <1>10 DEF PlanOf, UniqueIds
    <2>4. ASSUME NEW i \in 1..N, NEW j \in 1..N, k = L + i, l = L + j PROVE k = l
        <3>1. new.planned[k].digest_id = ids[i] /\ new.planned[l].digest_id = ids[j]
            BY <2>4, <1>9, <1>12
        <3>. QED BY <3>1, <2>1, <2>4, <1>5
    <2>. QED BY <2>1, <2>2, <2>3, <2>4, <1>11
<1>17. CarriesElements(new, item)
    <2>1. ASSUME NEW x \in plan.items
          PROVE  /\ x.credential = item.id
                 /\ \E k \in 1..(L + N) : new.jobs[k].input = x /\ PlaceOf(new.planned[k]) = PlaceOf(x)
        <3>1. x.credential = item.id
            BY DEF PlanOf, CarriesElements
        <3>2. PICK k \in 1..L : plan.jobs[k].input = x /\ PlaceOf(plan.planned[k]) = PlaceOf(x)
            BY <1>10 DEF PlanOf, CarriesElements
        <3>3. k \in 1..(L + N)
            OBVIOUS
        <3>. QED BY <3>1, <3>2, <3>3, <1>8, <1>9
    <2>2. ASSUME NEW e \in 1..ns.elements, NEW x,
                 x = IssuerSignedItem(plan.credential_id, ns.name, e, ids[e])
          PROVE  /\ x.credential = item.id /\ x.index = e /\ x.name = ns.name
                 /\ \E k \in 1..(L + N) : new.jobs[k].input = x /\ PlaceOf(new.planned[k]) = PlaceOf(x)
        <3>1. e \in 1..N /\ e <= ns.elements /\ L + e \in 1..(L + N)
            BY <1>2 DEF Entries
        <3>2. new.jobs[L + e].input = x
            BY <3>1, <2>2, <1>8, <1>12
        <3>3. PlaceOf(new.planned[L + e]) = PlaceOf(x)
            BY <3>1, <2>2, <1>9, <1>12 DEF PlaceOf, IssuerSignedItem
        <3>4. x.credential = item.id /\ x.index = e /\ x.name = ns.name
            BY <2>2 DEF IssuerSignedItem, PlanOf
        <3>. QED BY <3>1, <3>2, <3>3, <3>4
    <2>3. ASSUME NEW x \in new.items
          PROVE  /\ x.credential = item.id
                 /\ \E k \in 1..(L + N) : new.jobs[k].input = x /\ PlaceOf(new.planned[k]) = PlaceOf(x)
        <3>1. CASE x \in plan.items
            BY <3>1, <2>1
        <3>2. CASE x \notin plan.items
            <4>1. PICK e \in 1..ns.elements :
                    x = IssuerSignedItem(plan.credential_id, ns.name, e, ids[e])
                BY <3>2, <1>7
            <4>. QED BY <4>1, <2>2
        <3>. QED BY <3>1, <3>2
    <2>4. ASSUME NEW i \in 1..new.namespaces, NEW e \in 1..item.namespaces[i].elements
          PROVE  \E x \in new.items : x.index = e /\ x.name = item.namespaces[i].name
        <3>1. CASE i \in 1..plan.namespaces
            <4>1. PICK x \in plan.items : x.index = e /\ x.name = item.namespaces[i].name
                BY <3>1 DEF PlanOf, CarriesElements
            <4>. QED BY <4>1, <1>7
        <3>2. CASE i = new.namespaces
            <4>1. e \in 1..ns.elements
                BY <3>2, <1>13
            <4>2. PICK x : x = IssuerSignedItem(plan.credential_id, ns.name, e, ids[e])
                OBVIOUS
            <4>3. x \in new.items
                BY <4>1, <4>2, <1>7
            <4>. QED BY <4>1, <4>2, <4>3, <2>2, <3>2, <1>13
        <3>. QED BY <3>1, <3>2, <1>13
    <2>. QED BY <2>3, <2>4, <1>10 DEF CarriesElements
<1>18. PlanOf(new, item)
    BY <1>7, <1>13, <1>15, <1>16, <1>17 DEF PlanOf
<1>. QED BY <1>6, <1>14, <1>18

-----------------------------------------------------------------------------
(* Results *)

DigestValue == [algorithm : DigestAlgorithm \cup {"truncated"}, of : Input]
Result == [credential_id : Nat, job_id : Nat, ordinal : Nat, digest : DigestValue]

\* Plans of the items of a batch whose identities differ.
PlansOf(ps, b) ==
    /\ ps \in Seq(DigestPlan) /\ b \in Seq(MdocBatchItem) /\ Len(ps) <= Len(b)
    /\ \A n \in DOMAIN ps : PlanOf(ps[n], b[n])
    /\ \A i, j \in DOMAIN b : b[i].id = b[j].id => i = j

\* One result of each job, and no other.
Answers(ps, rs) ==
    /\ rs \in Seq(Result)
    /\ \A n \in DOMAIN ps : \A k \in DOMAIN ps[n].jobs :
         \E i \in DOMAIN rs : rs[i] = DigestResult(ps[n].jobs[k])
    /\ \A i \in DOMAIN rs : \E n \in DOMAIN ps : \E k \in DOMAIN ps[n].jobs :
         rs[i] = DigestResult(ps[n].jobs[k])
    /\ \A i, j \in DOMAIN rs : Identity(rs[i]) = Identity(rs[j]) => i = j

\* What the n-th plan of a batch is.
LEMMA PlanAt ==
    ASSUME NEW ps, NEW b, PlansOf(ps, b), NEW n \in DOMAIN ps
    PROVE  /\ ps[n] \in DigestPlan /\ b[n] \in MdocBatchItem /\ PlanOf(ps[n], b[n])
           /\ n \in DOMAIN b /\ DOMAIN ps[n].jobs = DOMAIN ps[n].planned
           /\ ps[n].jobs \in Seq(Job) /\ ps[n].planned \in Seq(PlannedDigest)
           /\ DOMAIN ps[n].jobs = 1..Len(ps[n].jobs) /\ Len(ps[n].jobs) \in Nat
<1>1. ps \in Seq(DigestPlan) /\ b \in Seq(MdocBatchItem) /\ Len(ps) <= Len(b)
    BY DEF PlansOf
<1>2. n \in 1..Len(ps) /\ Len(ps) \in Nat /\ Len(b) \in Nat /\ DOMAIN b = 1..Len(b)
    BY <1>1, LenProperties
<1>3. n \in DOMAIN b
    BY <1>1, <1>2
<1>4. ps[n] \in DigestPlan /\ b[n] \in MdocBatchItem /\ PlanOf(ps[n], b[n])
    BY <1>1, <1>2, <1>3, ElementOfSeq DEF PlansOf
<1>5. ps[n].jobs \in Seq(Job) /\ ps[n].planned \in Seq(PlannedDigest)
    BY <1>4 DEF DigestPlan
<1>6. Len(ps[n].jobs) = Len(ps[n].planned)
    BY <1>4 DEF PlanOf, InStep
<1>7. /\ DOMAIN ps[n].jobs = 1..Len(ps[n].jobs) /\ Len(ps[n].jobs) \in Nat
      /\ DOMAIN ps[n].planned = 1..Len(ps[n].planned)
    BY <1>5, LenProperties
<1>. QED BY <1>3, <1>4, <1>5, <1>6, <1>7

\* The identity of a job tells its credential and its place in the plan.
LEMMA IdentityIsPlace ==
    ASSUME NEW ps, NEW b, PlansOf(ps, b), NEW n \in DOMAIN ps, NEW m \in DOMAIN ps,
           NEW k \in DOMAIN ps[n].jobs, NEW l \in DOMAIN ps[m].jobs,
           Identity(ps[n].jobs[k]) = Identity(ps[m].jobs[l])
    PROVE  n = m /\ k = l
<1>1. /\ ps[n].jobs[k].credential_id = ps[m].jobs[l].credential_id
      /\ ps[n].jobs[k].job_id = ps[m].jobs[l].job_id
    BY DEF Identity
<1>2. /\ ps[n].jobs[k].credential_id = b[n].id /\ ps[n].jobs[k].job_id = k - 1
      /\ ps[m].jobs[l].credential_id = b[m].id /\ ps[m].jobs[l].job_id = l - 1
    BY PlanAt DEF PlanOf, InStep
<1>3. n \in DOMAIN b /\ m \in DOMAIN b /\ k \in Nat /\ l \in Nat
    BY PlanAt
<1>4. b[n].id = b[m].id
    BY <1>1, <1>2
<1>5. n = m
    BY <1>3, <1>4 DEF PlansOf
<1>6. k - 1 = l - 1
    BY <1>1, <1>2
<1>. QED BY <1>3, <1>5, <1>6

\* What is in the result of a job.
LEMMA ResultOfJob ==
    ASSUME NEW job \in Job
    PROVE  /\ DigestResult(job) \in Result
           /\ Identity(DigestResult(job)) = Identity(job)
           /\ DigestResult(job).ordinal = job.ordinal
           /\ DigestResult(job).credential_id = job.credential_id
           /\ DigestResult(job).job_id = job.job_id
           /\ DigestResult(job).digest = digest(job.algorithm, job.input)
           /\ ResultFits(DigestResult(job), job)
<1>1. digest(job.algorithm, job.input) \in DigestValue
    BY DEF Job, digest, DigestValue
<1>. QED BY <1>1 DEF DigestResult, Identity, Job, Result, ResultFits, digest

\* The jobs of a batch are finitely many.
LEMMA FiniteJobs ==
    ASSUME PlansOf(plans, batch)
    PROVE  IsFiniteSet({DigestResult(job) : job \in AllJobs})
<1>. DEFINE Of(n) == {plans[n].jobs[k] : k \in DOMAIN plans[n].jobs}
<1>1. ASSUME NEW n \in DOMAIN plans PROVE IsFiniteSet(Of(n))
    <2>1. IsFiniteSet(DOMAIN plans[n].jobs)
        BY PlanAt, FS_Interval
    <2>2. PICK f : f = [k \in DOMAIN plans[n].jobs |-> plans[n].jobs[k]]
        OBVIOUS
    <2>3. f \in Surjection(DOMAIN plans[n].jobs, Of(n))
        BY <2>2 DEF Surjection
    <2>. QED BY <2>1, <2>3, FS_Surjection
<1>2. IsFiniteSet({Of(n) : n \in DOMAIN plans})
    <2>1. IsFiniteSet(DOMAIN plans)
        BY FS_Interval, LenProperties DEF PlansOf
    <2>2. PICK f : f = [n \in DOMAIN plans |-> Of(n)]
        OBVIOUS
    <2>3. f \in Surjection(DOMAIN plans, {Of(n) : n \in DOMAIN plans})
        BY <2>2 DEF Surjection
    <2>. QED BY <2>1, <2>3, FS_Surjection
<1>3. \A T \in {Of(n) : n \in DOMAIN plans} : IsFiniteSet(T)
    BY <1>1
<1>4. AllJobs = UNION {Of(n) : n \in DOMAIN plans}
    BY DEF AllJobs
<1>5. IsFiniteSet(AllJobs)
    BY <1>2, <1>3, <1>4, FS_UNION
<1>6. PICK f : f = [job \in AllJobs |-> DigestResult(job)]
    OBVIOUS
<1>7. f \in Surjection(AllJobs, {DigestResult(job) : job \in AllJobs})
    BY <1>6 DEF Surjection
<1>. QED BY <1>5, <1>7, FS_Surjection

\* Every order of the results of a batch answers each job once.
LEMMA SchedulesAnswer ==
    ASSUME PlansOf(plans, batch), NEW rs \in Schedules(AllJobs)
    PROVE  Answers(plans, rs)
<1>1. PICK S : S = {DigestResult(job) : job \in AllJobs}
    OBVIOUS
<1>2. IsFiniteSet(S) /\ Cardinality(S) \in Nat
    BY <1>1, FiniteJobs, FS_CardinalityType
<1>3. PICK c \in Nat : c = Cardinality(S)
    BY <1>2
<1>4. rs \in [1..c -> S] /\ \A i, j \in 1..c : i # j => rs[i] # rs[j]
    BY <1>1, <1>3 DEF Schedules, SetToSeqs
<1>5. IsFiniteSet(1..c) /\ Cardinality(1..c) = c
    BY FS_Interval
<1>6. rs \in Injection(1..c, S)
    BY <1>4 DEF Injection, IsInjective
<1>7. rs \in Surjection(1..c, S)
    BY <1>2, <1>3, <1>5, <1>6, FS_Injection
<1>8. \A t \in S : \E i \in 1..c : rs[i] = t
    BY <1>7 DEF Surjection
<1>9. ASSUME NEW n \in DOMAIN plans, NEW k \in DOMAIN plans[n].jobs
      PROVE  plans[n].jobs[k] \in AllJobs /\ plans[n].jobs[k] \in Job
    BY PlanAt DEF AllJobs
<1>10. S \subseteq Result
    BY <1>1, <1>9, ResultOfJob DEF AllJobs
<1>11. rs \in Seq(Result) /\ DOMAIN rs = 1..c
    BY <1>4, <1>10
<1>12. ASSUME NEW i \in 1..c
       PROVE  \E n \in DOMAIN plans : \E k \in DOMAIN plans[n].jobs :
                rs[i] = DigestResult(plans[n].jobs[k])
    BY <1>1, <1>4 DEF AllJobs
<1>13. ASSUME NEW n \in DOMAIN plans, NEW k \in DOMAIN plans[n].jobs
       PROVE  \E i \in 1..c : rs[i] = DigestResult(plans[n].jobs[k])
    BY <1>1, <1>8, <1>9
<1>14. ASSUME NEW i \in 1..c, NEW j \in 1..c, Identity(rs[i]) = Identity(rs[j]) PROVE i = j
    <2>1. PICK n \in DOMAIN plans : \E k \in DOMAIN plans[n].jobs :
                rs[i] = DigestResult(plans[n].jobs[k])
        BY <1>12
    <2>2. PICK k \in DOMAIN plans[n].jobs : rs[i] = DigestResult(plans[n].jobs[k])
        BY <2>1
    <2>3. PICK m \in DOMAIN plans : \E l \in DOMAIN plans[m].jobs :
                rs[j] = DigestResult(plans[m].jobs[l])
        BY <1>12
    <2>4. PICK l \in DOMAIN plans[m].jobs : rs[j] = DigestResult(plans[m].jobs[l])
        BY <2>3
    <2>5. Identity(plans[n].jobs[k]) = Identity(plans[m].jobs[l])
        BY <1>9, <1>14, <2>2, <2>4, ResultOfJob
    <2>6. n = m /\ k = l
        BY <2>5, IdentityIsPlace
    <2>. QED BY <2>2, <2>4, <2>6, <1>4
<1>. QED BY <1>11, <1>12, <1>13, <1>14 DEF Answers

-----------------------------------------------------------------------------
(* Assembly *)

Found(rs, x) == {i \in DOMAIN rs : Identity(rs[i]) = Identity(x)}

\* What assemble_reordered_digest_batches asks of plans and results.
Accepts(ps, rs) ==
    /\ \A i, j \in DOMAIN rs : Identity(rs[i]) = Identity(rs[j]) => i = j
    /\ \A n, m \in DOMAIN ps : ps[n].credential_id = ps[m].credential_id => n = m
    /\ \A n \in DOMAIN ps : PlanConsistent(ps[n])
    /\ \A n \in DOMAIN ps : \A k \in DOMAIN ps[n].jobs :
         \E i \in Found(rs, ps[n].jobs[k]) : ResultFits(rs[i], ps[n].jobs[k])
    /\ \A i \in DOMAIN rs : \E n \in DOMAIN ps : \E k \in DOMAIN ps[n].jobs :
         Identity(ps[n].jobs[k]) = Identity(rs[i])

\* The digest that it finds for each planned one.
FoundDigests(plan, rs) ==
    [k \in DOMAIN plan.planned |-> rs[CHOOSE i \in Found(rs, plan.planned[k]) : TRUE].digest]

LEMMA Reordered ==
    ASSUME NEW ps, NEW rs
    PROVE  assemble_reordered_digest_batches(ps, rs) =
             IF Accepts(ps, rs)
             THEN {[n \in DOMAIN ps |-> ValueDigests(ps[n], FoundDigests(ps[n], rs))]}
             ELSE {}
    BY DEF assemble_reordered_digest_batches, Accepts, Found, FoundDigests

\* A plan that is in step with its item refers to its own jobs, to each once.
LEMMA PlanIsConsistent ==
    ASSUME NEW ps, NEW b, PlansOf(ps, b), NEW n \in DOMAIN ps
    PROVE  PlanConsistent(ps[n])
<1>1. /\ PlanOf(ps[n], b[n]) /\ DOMAIN ps[n].jobs = DOMAIN ps[n].planned
      /\ Len(ps[n].planned) = Len(ps[n].jobs)
    BY PlanAt DEF PlanOf, InStep
<1>2. \A k \in DOMAIN ps[n].jobs : Identity(ps[n].planned[k]) = Identity(ps[n].jobs[k])
    BY <1>1 DEF PlanOf, InStep, Identity
<1>3. {Identity(ps[n].planned[k]) : k \in DOMAIN ps[n].planned}
         = {Identity(ps[n].jobs[k]) : k \in DOMAIN ps[n].jobs}
    BY <1>1, <1>2
<1>4. \A k \in DOMAIN ps[n].jobs : ps[n].jobs[k].credential_id = ps[n].credential_id
    BY <1>1 DEF PlanOf, InStep
<1>5. \A k, l \in DOMAIN ps[n].jobs : Identity(ps[n].jobs[k]) = Identity(ps[n].jobs[l]) => k = l
    BY IdentityIsPlace
<1>6. UniqueIds(ps[n])
    BY <1>1 DEF PlanOf
<1>. QED BY <1>1, <1>3, <1>4, <1>5, <1>6 DEF PlanConsistent

\* A digest stands under the place that was planned for it.
LEMMA DigestAtPlace ==
    ASSUME NEW plan, UniqueIds(plan), NEW ds, NEW k \in DOMAIN plan.planned
    PROVE  /\ PlaceOf(plan.planned[k]) \in DOMAIN ValueDigests(plan, ds)
           /\ ValueDigests(plan, ds)[PlaceOf(plan.planned[k])] = ds[k]
<1>1. PICK p : p = PlaceOf(plan.planned[k])
    OBVIOUS
<1>2. (CHOOSE l \in DOMAIN plan.planned : PlaceOf(plan.planned[l]) = p) = k
    <2>1. PICK c : c = CHOOSE l \in DOMAIN plan.planned : PlaceOf(plan.planned[l]) = p
        OBVIOUS
    <2>2. c \in DOMAIN plan.planned /\ PlaceOf(plan.planned[c]) = p
        BY <2>1, <1>1
    <2>. QED BY <2>1, <2>2, <1>1 DEF UniqueIds
<1>3. p \in {PlaceOf(plan.planned[l]) : l \in DOMAIN plan.planned}
    BY <1>1
<1>. QED BY <1>1, <1>2, <1>3 DEF ValueDigests

\* The results of all jobs, in any order, are accepted, and every planned digest gets
\* the result of its own job.
LEMMA HonestResults ==
    ASSUME NEW ps, NEW b, PlansOf(ps, b), NEW rs, Answers(ps, rs)
    PROVE  /\ Accepts(ps, rs)
           /\ \A n \in DOMAIN ps : \A k \in DOMAIN ps[n].planned :
                FoundDigests(ps[n], rs)[k] = digest(b[n].algorithm, ps[n].jobs[k].input)
<1>1. ASSUME NEW n \in DOMAIN ps, NEW k \in DOMAIN ps[n].jobs
      PROVE  /\ ps[n].jobs[k] \in Job
             /\ ps[n].jobs[k].algorithm = b[n].algorithm
             /\ Identity(ps[n].planned[k]) = Identity(ps[n].jobs[k])
             /\ \E i \in DOMAIN rs : rs[i] = DigestResult(ps[n].jobs[k])
    <2>1. ps[n].jobs[k] \in Job /\ PlanOf(ps[n], b[n])
        BY PlanAt
    <2>. QED BY <2>1 DEF Answers, PlanOf, InStep, Identity
<1>2. ASSUME NEW n \in DOMAIN ps, NEW m \in DOMAIN ps, ps[n].credential_id = ps[m].credential_id
      PROVE  n = m
    <2>1. PlanOf(ps[n], b[n]) /\ PlanOf(ps[m], b[m]) /\ n \in DOMAIN b /\ m \in DOMAIN b
        BY PlanAt
    <2>. QED BY <2>1, <1>2 DEF PlanOf, PlansOf
<1>3. \A n \in DOMAIN ps : PlanConsistent(ps[n])
    BY PlanIsConsistent
<1>4. ASSUME NEW n \in DOMAIN ps, NEW k \in DOMAIN ps[n].jobs
      PROVE  \E i \in Found(rs, ps[n].jobs[k]) : ResultFits(rs[i], ps[n].jobs[k])
    BY <1>1, ResultOfJob DEF Found
<1>5. ASSUME NEW i \in DOMAIN rs
      PROVE  \E n \in DOMAIN ps : \E k \in DOMAIN ps[n].jobs :
                Identity(ps[n].jobs[k]) = Identity(rs[i])
    BY <1>1, ResultOfJob DEF Answers
<1>6. Accepts(ps, rs)
    BY <1>2, <1>3, <1>4, <1>5 DEF Accepts, Answers
<1>7. ASSUME NEW n \in DOMAIN ps, NEW k \in DOMAIN ps[n].planned
      PROVE  FoundDigests(ps[n], rs)[k] = digest(b[n].algorithm, ps[n].jobs[k].input)
    <2>1. k \in DOMAIN ps[n].jobs
        BY PlanAt
    <2>2. PICK i \in DOMAIN rs : rs[i] = DigestResult(ps[n].jobs[k])
        BY <1>1, <2>1
    <2>3. Found(rs, ps[n].planned[k]) = {i}
        <3>1. Identity(rs[i]) = Identity(ps[n].planned[k])
            BY <1>1, <2>1, <2>2, ResultOfJob
        <3>. QED BY <3>1 DEF Found, Answers
    <2>4. (CHOOSE j \in Found(rs, ps[n].planned[k]) : TRUE) = i
        BY <2>3
    <2>5. rs[i].digest = digest(ps[n].jobs[k].algorithm, ps[n].jobs[k].input)
        BY <1>1, <2>1, <2>2, ResultOfJob
    <2>. QED BY <1>1, <2>1, <2>4, <2>5 DEF FoundDigests
<1>. QED BY <1>6, <1>7

\* There are at least as many results as jobs of one credential.
LEMMA EnoughResults ==
    ASSUME NEW ps, NEW b, PlansOf(ps, b), NEW rs, Answers(ps, rs), NEW n \in DOMAIN ps
    PROVE  Len(ps[n].jobs) <= Len(rs)
<1>1. PICK N \in Nat : N = Len(ps[n].jobs) /\ DOMAIN ps[n].jobs = 1..N
    BY PlanAt
<1>2. PICK L \in Nat : L = Len(rs) /\ DOMAIN rs = 1..L
    BY LenProperties DEF Answers
<1>3. PICK f : f = [k \in 1..N |-> CHOOSE i \in 1..L : rs[i] = DigestResult(ps[n].jobs[k])]
    OBVIOUS
<1>4. ASSUME NEW k \in 1..N PROVE f[k] \in 1..L /\ rs[f[k]] = DigestResult(ps[n].jobs[k])
    <2>1. \E i \in 1..L : rs[i] = DigestResult(ps[n].jobs[k])
        BY <1>1, <1>2 DEF Answers
    <2>. QED BY <2>1, <1>3
<1>5. ASSUME NEW k \in 1..N, NEW l \in 1..N, f[k] = f[l] PROVE k = l
    <2>1. DigestResult(ps[n].jobs[k]) = DigestResult(ps[n].jobs[l])
        BY <1>4, <1>5
    <2>2. ps[n].jobs[k] \in Job /\ ps[n].jobs[l] \in Job
        BY <1>1, PlanAt
    <2>3. Identity(ps[n].jobs[k]) = Identity(ps[n].jobs[l])
        BY <2>1, <2>2, ResultOfJob
    <2>. QED BY <2>3, <1>1, IdentityIsPlace
<1>6. f \in Injection(1..N, 1..L)
    BY <1>3, <1>4, <1>5 DEF Injection, IsInjective
<1>7. IsFiniteSet(1..L) /\ Cardinality(1..L) = L /\ Cardinality(1..N) = N
    BY FS_Interval
<1>. QED BY <1>1, <1>2, <1>6, <1>7, FS_Injection

\* A job without a fitting result of its identity makes the assembly fail.
LEMMA JobWithoutResult ==
    ASSUME NEW ps, NEW q, NEW n \in DOMAIN ps, NEW k \in DOMAIN ps[n].jobs,
           \A i \in DOMAIN q :
             ~(Identity(q[i]) = Identity(ps[n].jobs[k]) /\ ResultFits(q[i], ps[n].jobs[k]))
    PROVE  ~Accepts(ps, q)
    BY DEF Accepts, Found

\* One result that is missing, repeated, of no job, under another identity, with
\* another ordinal or of another length makes the assembly fail.
LEMMA FaultyResults ==
    ASSUME NEW ps, NEW b, PlansOf(ps, b), NEW rs, Answers(ps, rs), rs # <<>>,
           NEW kind \in Faults, kind # "none"
    PROVE  ~Accepts(ps, Faulty(rs, kind))
<1>1. PICK L \in Nat : L = Len(rs) /\ DOMAIN rs = 1..L
    BY LenProperties DEF Answers
<1>2. L \in 1..L /\ rs \in Seq(Result) /\ rs[L] \in Result
    <2>1. rs \in Seq(Result)
        BY DEF Answers
    <2>2. L # 0
        BY <2>1, <1>1, EmptySeq
    <2>3. L \in 1..L
        BY <2>2
    <2>. QED BY <2>1, <2>3, <1>1, ElementOfSeq
<1>3. PICK n \in DOMAIN ps : \E k \in DOMAIN ps[n].jobs : rs[L] = DigestResult(ps[n].jobs[k])
    BY <1>1, <1>2 DEF Answers
<1>4. PICK k \in DOMAIN ps[n].jobs : rs[L] = DigestResult(ps[n].jobs[k])
    BY <1>3
<1>5. PICK job \in Job : job = ps[n].jobs[k]
    BY PlanAt
<1>6. /\ Identity(rs[L]) = Identity(job) /\ rs[L].ordinal = job.ordinal
      /\ rs[L].credential_id = job.credential_id /\ rs[L].job_id = job.job_id
      /\ rs[L].digest.algorithm = job.algorithm
    <2>1. rs[L] = DigestResult(job)
        BY <1>4, <1>5
    <2>2. /\ Identity(DigestResult(job)) = Identity(job) /\ DigestResult(job).ordinal = job.ordinal
          /\ DigestResult(job).credential_id = job.credential_id
          /\ DigestResult(job).job_id = job.job_id
          /\ DigestResult(job).digest.algorithm = job.algorithm
        BY DEF DigestResult, Identity, digest
    <2>. QED BY <2>1, <2>2
<1>7. \A i \in 1..L : i # L => Identity(rs[i]) # Identity(job)
    BY <1>1, <1>2, <1>6 DEF Answers
<1>8. CASE kind = "omitted"
    <2>1. PICK q : q = Faulty(rs, kind)
        OBVIOUS
    <2>2. q = SubSeq(rs, 1, L - 1)
        BY <1>1, <1>8, <2>1 DEF Faulty
    <2>3. \A i \in DOMAIN q : i \in 1..L /\ i # L /\ q[i] = rs[i]
        BY <1>1, <1>2, <2>2
    <2>. QED BY <1>5, <1>7, <2>1, <2>3, JobWithoutResult
<1>9. CASE kind = "repeated"
    <2>1. PICK q : q = Faulty(rs, kind)
        OBVIOUS
    <2>2. q = Append(rs, rs[L])
        BY <1>1, <1>9, <2>1 DEF Faulty
    <2>3. L \in DOMAIN q /\ L + 1 \in DOMAIN q /\ q[L] = q[L + 1] /\ L # L + 1
        BY <1>1, <1>2, <2>2
    <2>. QED BY <2>1, <2>3 DEF Accepts
<1>10. CASE kind = "unknown"
    <2>1. PICK q : q = Faulty(rs, kind)
        OBVIOUS
    <2>2. PICK x : x = [rs[L] EXCEPT !.job_id = L + 1]
        OBVIOUS
    <2>3. q = Append(rs, x)
        BY <1>1, <1>10, <2>1, <2>2 DEF Faulty
    <2>4. L + 1 \in DOMAIN q /\ q[L + 1] = x
        BY <1>1, <1>2, <2>3
    <2>5. x.job_id = L + 1
        BY <1>2, <2>2 DEF Result
    <2>6. ASSUME NEW m \in DOMAIN ps, NEW l \in DOMAIN ps[m].jobs
          PROVE  Identity(ps[m].jobs[l]) # Identity(x)
        <3>1. PICK N \in Nat : N = Len(ps[m].jobs) /\ DOMAIN ps[m].jobs = 1..N
            BY PlanAt
        <3>2. N <= L
            BY <1>1, <3>1, EnoughResults
        <3>3. ps[m].jobs[l].job_id = l - 1
            BY PlanAt DEF PlanOf, InStep
        <3>4. ps[m].jobs[l].job_id # L + 1
            BY <3>1, <3>2, <3>3
        <3>. QED BY <3>4, <2>5 DEF Identity
    <2>. QED BY <2>1, <2>4, <2>6 DEF Accepts
<1>11. CASE kind = "renamed"
    <2>1. PICK q : q = Faulty(rs, kind)
        OBVIOUS
    <2>2. q = [rs EXCEPT ![L].credential_id = @ + 1]
        BY <1>1, <1>11, <2>1 DEF Faulty
    <2>3. DOMAIN q = 1..L /\ (\A i \in 1..L : i # L => q[i] = rs[i])
        BY <1>1, <2>2
    <2>4. q[L].credential_id = rs[L].credential_id + 1
        BY <1>1, <1>2, <2>2 DEF Result
    <2>5. Identity(q[L]) # Identity(job)
        BY <1>6, <2>4 DEF Identity, Job
    <2>. QED BY <1>5, <1>7, <2>1, <2>3, <2>5, JobWithoutResult
<1>12. CASE kind = "ordinal"
    <2>1. PICK q : q = Faulty(rs, kind)
        OBVIOUS
    <2>2. q = [rs EXCEPT ![L].ordinal = @ + 1]
        BY <1>1, <1>12, <2>1 DEF Faulty
    <2>3. DOMAIN q = 1..L /\ (\A i \in 1..L : i # L => q[i] = rs[i])
        BY <1>1, <2>2
    <2>4. q[L].ordinal = rs[L].ordinal + 1
        BY <1>1, <1>2, <2>2 DEF Result
    <2>5. ~ResultFits(q[L], job)
        BY <1>6, <2>4 DEF ResultFits, Job
    <2>. QED BY <1>5, <1>7, <2>1, <2>3, <2>5, JobWithoutResult
<1>13. CASE kind = "length"
    <2>1. PICK q : q = Faulty(rs, kind)
        OBVIOUS
    <2>2. q = [rs EXCEPT ![L].digest.algorithm = "truncated"]
        BY <1>1, <1>13, <2>1 DEF Faulty
    <2>3. DOMAIN q = 1..L /\ (\A i \in 1..L : i # L => q[i] = rs[i])
        BY <1>1, <2>2
    <2>4. q[L].digest.algorithm = "truncated"
        BY <1>1, <1>2, <2>2 DEF Result, DigestValue
    <2>5. ~ResultFits(q[L], job)
        BY <2>4 DEF ResultFits, Job, DigestAlgorithm
    <2>. QED BY <1>5, <1>7, <2>1, <2>3, <2>5, JobWithoutResult
<1>. QED BY <1>8, <1>9, <1>10, <1>11, <1>12, <1>13 DEF Faults

\* The single pass over results in plan order returns what the general assembly does,
\* whatever the results are.
LEMMA FastPath ==
    ASSUME NEW ps, NEW b, PlansOf(ps, b), Len(ps) = 1, NEW rs \in Seq(Result)
    PROVE  assemble_digest_namespaces(ps[1], rs) = assemble_reordered_digest_batches(ps, rs)
<1>1. PICK plan : plan = ps[1]
    OBVIOUS
<1>2. ps \in Seq(DigestPlan) /\ DOMAIN ps = {1} /\ ps = <<plan>>
    BY <1>1 DEF PlansOf
<1>3. /\ plan \in DigestPlan /\ PlanOf(plan, b[1]) /\ DOMAIN plan.jobs = DOMAIN plan.planned
      /\ PlanConsistent(plan)
    BY <1>1, <1>2, PlanAt, PlanIsConsistent
<1>4. CASE ~results_follow_plan_order(plan, rs)
    BY <1>1, <1>2, <1>4 DEF assemble_digest_namespaces
<1>5. CASE results_follow_plan_order(plan, rs)
    <2>1. PICK N \in Nat : /\ N = Len(plan.jobs) /\ N = Len(rs) /\ N = Len(plan.planned)
                           /\ DOMAIN plan.jobs = 1..N /\ DOMAIN rs = 1..N
                           /\ DOMAIN plan.planned = 1..N
        <3>1. plan.jobs \in Seq(Job) /\ plan.planned \in Seq(PlannedDigest)
            BY <1>3 DEF DigestPlan
        <3>2. Len(rs) = Len(plan.jobs) /\ Len(plan.planned) = Len(plan.jobs)
            BY <1>5, <1>3 DEF results_follow_plan_order, PlanConsistent
        <3>. QED BY <3>1, <3>2, LenProperties
    <2>2. \A k \in 1..N :
            /\ Identity(rs[k]) = Identity(plan.jobs[k])
            /\ Identity(plan.planned[k]) = Identity(plan.jobs[k])
            /\ plan.jobs[k].credential_id = plan.credential_id
            /\ plan.jobs[k].job_id = k - 1
        <3>1. \A k \in 1..N : Identity(rs[k]) = Identity(plan.jobs[k])
            BY <1>5, <2>1 DEF results_follow_plan_order
        <3>2. \A k \in 1..N : Identity(plan.planned[k]) = Identity(plan.jobs[k])
            BY <1>3, <2>1 DEF PlanOf, InStep, Identity
        <3>3. \A k \in 1..N : /\ plan.jobs[k].credential_id = plan.credential_id
                              /\ plan.jobs[k].job_id = k - 1
            BY <1>3, <2>1 DEF PlanOf, InStep
        <3>. QED BY <3>1, <3>2, <3>3
    <2>3. \A k, l \in 1..N : Identity(plan.jobs[k]) = Identity(plan.jobs[l]) => k = l
        BY <1>3, <2>1 DEF PlanConsistent
    <2>4. ASSUME NEW k \in 1..N PROVE Found(rs, plan.jobs[k]) = {k} /\ Found(rs, plan.planned[k]) = {k}
        BY <2>1, <2>2, <2>3 DEF Found
    <2>5. Accepts(ps, rs) <=> \A k \in 1..N : ResultFits(rs[k], plan.jobs[k])
        <3>1. ASSUME Accepts(ps, rs), NEW k \in 1..N PROVE ResultFits(rs[k], plan.jobs[k])
            <4>1. 1 \in DOMAIN ps /\ k \in DOMAIN ps[1].jobs
                BY <1>1, <1>2, <2>1
            <4>2. \E i \in Found(rs, ps[1].jobs[k]) : ResultFits(rs[i], ps[1].jobs[k])
                BY <3>1, <4>1 DEF Accepts
            <4>. QED BY <4>2, <1>1, <2>4
        <3>2. ASSUME \A k \in 1..N : ResultFits(rs[k], plan.jobs[k]) PROVE Accepts(ps, rs)
            <4>1. \A i, j \in DOMAIN rs : Identity(rs[i]) = Identity(rs[j]) => i = j
                BY <2>1, <2>2, <2>3
            <4>2. \A n, m \in DOMAIN ps : ps[n].credential_id = ps[m].credential_id => n = m
                BY <1>2
            <4>3. \A n \in DOMAIN ps : PlanConsistent(ps[n])
                BY <1>1, <1>2, <1>3
            <4>4. \A n \in DOMAIN ps : \A k \in DOMAIN ps[n].jobs :
                    \E i \in Found(rs, ps[n].jobs[k]) : ResultFits(rs[i], ps[n].jobs[k])
                BY <1>1, <1>2, <2>1, <2>4, <3>2
            <4>5. \A i \in DOMAIN rs : \E n \in DOMAIN ps : \E k \in DOMAIN ps[n].jobs :
                    Identity(ps[n].jobs[k]) = Identity(rs[i])
                BY <1>1, <1>2, <2>1, <2>2
            <4>. QED BY <4>1, <4>2, <4>3, <4>4, <4>5 DEF Accepts
        <3>. QED BY <3>1, <3>2
    <2>6. FoundDigests(plan, rs) = [k \in DOMAIN rs |-> rs[k].digest]
        <3>1. \A k \in 1..N : (CHOOSE i \in Found(rs, plan.planned[k]) : TRUE) = k
            BY <2>4
        <3>2. \A k \in 1..N :
                rs[CHOOSE i \in Found(rs, plan.planned[k]) : TRUE].digest = rs[k].digest
            BY <3>1
        <3>3. FoundDigests(plan, rs) =
                [k \in 1..N |-> rs[CHOOSE i \in Found(rs, plan.planned[k]) : TRUE].digest]
            BY <2>1 DEF FoundDigests
        <3>4. FoundDigests(plan, rs) = [k \in 1..N |-> rs[k].digest]
            BY <3>2, <3>3
        <3>. QED BY <3>4, <2>1
    <2>7. PICK v : v = ValueDigests(plan, FoundDigests(plan, rs))
        OBVIOUS
    <2>8. [n \in DOMAIN ps |-> ValueDigests(ps[n], FoundDigests(ps[n], rs))] = <<v>>
        <3>1. \A n \in DOMAIN ps : ValueDigests(ps[n], FoundDigests(ps[n], rs)) = v
            BY <1>1, <1>2, <2>7
        <3>2. [n \in DOMAIN ps |-> ValueDigests(ps[n], FoundDigests(ps[n], rs))]
                = [n \in {1} |-> v]
            BY <1>2, <3>1
        <3>3. [n \in {1} |-> v] = <<v>>
            OBVIOUS
        <3>. QED BY <3>2, <3>3
    <2>9. assemble_reordered_digest_batches(ps, rs) = IF Accepts(ps, rs) THEN {<<v>>} ELSE {}
        BY <2>8, Reordered
    <2>10. assemble_ordered_digest_namespaces(plan, rs) =
             IF \A k \in 1..N : ResultFits(rs[k], plan.jobs[k]) THEN {<<v>>} ELSE {}
        <3>1. UniqueIds(plan)
            BY <1>3 DEF PlanOf
        <3>. QED BY <3>1, <2>1, <2>2, <2>6, <2>7 DEF assemble_ordered_digest_namespaces
    <2>. QED BY <1>1, <1>5, <2>5, <2>9, <2>10 DEF assemble_digest_namespaces
<1>. QED BY <1>4, <1>5

\* What an executor returns with one fault is still a list of results.
LEMMA FaultyIsResults ==
    ASSUME NEW rs \in Seq(Result), rs # <<>>, NEW kind \in Faults
    PROVE  Faulty(rs, kind) \in Seq(Result)
<1>1. PICK L \in Nat : L = Len(rs) /\ DOMAIN rs = 1..L /\ L \in 1..L
    <2>1. Len(rs) \in Nat /\ DOMAIN rs = 1..Len(rs) /\ Len(rs) # 0
        BY LenProperties, EmptySeq
    <2>2. Len(rs) \in 1..Len(rs)
        BY <2>1
    <2>. QED BY <2>1, <2>2
<1>2. PICK r \in Result : r = rs[L]
    BY <1>1, ElementOfSeq
<1>3. \A x \in Result : Append(rs, x) \in Seq(Result) /\ [rs EXCEPT ![L] = x] \in Seq(Result)
    BY <1>1
<1>4. CASE kind \in {"none", "omitted"}
    <2>1. SubSeq(rs, 1, L - 1) \in Seq(Result)
        BY <1>1
    <2>. QED BY <1>1, <1>4, <2>1 DEF Faulty
<1>5. CASE kind = "repeated"
    BY <1>1, <1>2, <1>3, <1>5 DEF Faulty
<1>6. CASE kind = "unknown"
    <2>1. [r EXCEPT !.job_id = L + 1] \in Result
        BY DEF Result
    <2>. QED BY <1>1, <1>2, <1>3, <1>6, <2>1 DEF Faulty
<1>7. CASE kind = "renamed"
    <2>1. [r EXCEPT !.credential_id = @ + 1] \in Result
        <3>1. PICK c \in Nat : c = r.credential_id + 1
            BY DEF Result
        <3>2. [r EXCEPT !.credential_id = c] \in Result
            BY DEF Result
        <3>. QED BY <3>1, <3>2
    <2>2. Faulty(rs, kind) = [rs EXCEPT ![L] = [r EXCEPT !.credential_id = @ + 1]]
        BY <1>1, <1>2, <1>7 DEF Faulty
    <2>. QED BY <1>3, <2>1, <2>2
<1>8. CASE kind = "ordinal"
    <2>1. [r EXCEPT !.ordinal = @ + 1] \in Result
        <3>1. PICK c \in Nat : c = r.ordinal + 1
            BY DEF Result
        <3>2. [r EXCEPT !.ordinal = c] \in Result
            BY DEF Result
        <3>. QED BY <3>1, <3>2
    <2>2. Faulty(rs, kind) = [rs EXCEPT ![L] = [r EXCEPT !.ordinal = @ + 1]]
        BY <1>1, <1>2, <1>8 DEF Faulty
    <2>. QED BY <1>3, <2>1, <2>2
<1>9. CASE kind = "length"
    <2>1. [r EXCEPT !.digest.algorithm = "truncated"] \in Result
        BY DEF Result, DigestValue
    <2>2. Faulty(rs, kind) = [rs EXCEPT ![L] = [r EXCEPT !.digest.algorithm = "truncated"]]
        BY <1>1, <1>2, <1>9 DEF Faulty
    <2>. QED BY <1>3, <2>1, <2>2
<1>. QED BY <1>4, <1>5, <1>6, <1>7, <1>8, <1>9 DEF Faults

-----------------------------------------------------------------------------
(* The call *)

\* The items of a valid batch have identities of their own.
LEMMA PlansOfBatch ==
    ASSUME PlansInv, validate_mdoc_batch(batch)
    PROVE  PlansOf(plans, batch)
    BY DEF PlansInv, PlansOf, validate_mdoc_batch

\* Planning leaves the executor something to do: no map is empty.
LEMMA JobsExist ==
    ASSUME PlansInv, validate_mdoc_batch(batch), plans # <<>>,
           \A n \in DOMAIN plans : PlanComplete(n), NEW rs, Answers(plans, rs)
    PROVE  rs # <<>>
<1>1. PlansOf(plans, batch)
    BY PlansOfBatch
<1>2. 1 \in DOMAIN plans
    <2>1. plans \in Seq(DigestPlan)
        BY DEF PlansInv
    <2>2. Len(plans) \in Nat /\ Len(plans) # 0 /\ DOMAIN plans = 1..Len(plans)
        BY <2>1, LenProperties, EmptySeq
    <2>. QED BY <2>2
<1>3. /\ plans[1] \in DigestPlan /\ batch[1] \in MdocBatchItem
      /\ 1 \in DOMAIN batch /\ PlanOf(plans[1], batch[1])
    BY <1>1, <1>2, PlanAt
<1>4. /\ batch[1].namespaces # <<>>
      /\ \A n \in DOMAIN batch[1].namespaces : batch[1].namespaces[n].elements > 0
    BY <1>3 DEF validate_mdoc_batch, ItemOk, validate_namespace_shape
<1>5. /\ batch[1].namespaces \in Seq(Entries)
      /\ 1 \in DOMAIN batch[1].namespaces /\ 1 \in 1..Len(batch[1].namespaces)
    <2>1. batch[1].namespaces \in Seq(Entries)
        BY <1>3 DEF MdocBatchItem
    <2>2. /\ Len(batch[1].namespaces) \in Nat /\ Len(batch[1].namespaces) # 0
          /\ DOMAIN batch[1].namespaces = 1..Len(batch[1].namespaces)
        BY <1>4, <2>1, LenProperties, EmptySeq
    <2>. QED BY <2>1, <2>2
<1>6. batch[1].namespaces[1].elements \in Nat
    <2>1. batch[1].namespaces[1] \in Entries
        BY <1>5, ElementOfSeq
    <2>. QED BY <2>1 DEF Entries
<1>7. 1 \in 1..batch[1].namespaces[1].elements
    BY <1>4, <1>5, <1>6
<1>8. 1 \in 1..plans[1].namespaces
    BY <1>2, <1>5 DEF PlanComplete
<1>9. PICK x \in plans[1].items : TRUE
    BY <1>3, <1>7, <1>8 DEF PlanOf, CarriesElements
<1>10. PICK k \in DOMAIN plans[1].jobs : TRUE
    BY <1>3, <1>9 DEF PlanOf, CarriesElements
<1>11. \E i \in DOMAIN rs : TRUE
    BY <1>2, <1>10 DEF Answers
<1>. QED BY <1>11

\* What Assemble finds after the executor returned.
LEMMA Restoration ==
    ASSUME IssueInv, phase = "executed"
    PROVE  /\ PlansOf(plans, batch)
           /\ RestoredDigests = assemble_reordered_digest_batches(plans, results)
           /\ single => assemble_digest_namespaces(plans[1], results) = RestoredDigests
           /\ fault # "none" => RestoredDigests = {}
           /\ fault = "none" =>
                \E a : /\ RestoredDigests = {a}
                       /\ \A n \in DOMAIN plans : \A k \in DOMAIN plans[n].planned :
                            /\ PlaceOf(plans[n].planned[k]) \in DOMAIN a[n]
                            /\ a[n][PlaceOf(plans[n].planned[k])]
                                 = digest(batch[n].algorithm, plans[n].jobs[k].input)
<1>1. /\ PlansInv /\ validate_mdoc_batch(batch) /\ plans # <<>> /\ fault \in Faults
      /\ \A n \in DOMAIN plans : PlanComplete(n)
      /\ Len(plans) = Len(batch) /\ (single => Len(batch) = 1)
      /\ \E rs \in Schedules(AllJobs) : results = Faulty(rs, fault)
    BY DEF IssueInv, CallPhases
<1>2. PlansOf(plans, batch)
    BY <1>1, PlansOfBatch
<1>3. PICK rs \in Schedules(AllJobs) : results = Faulty(rs, fault)
    BY <1>1
<1>4. Answers(plans, rs)
    BY <1>2, SchedulesAnswer
<1>5. rs # <<>> /\ rs \in Seq(Result)
    BY <1>1, <1>4, JobsExist DEF Answers
<1>6. results \in Seq(Result)
    BY <1>1, <1>3, <1>5, FaultyIsResults
<1>7. single => assemble_digest_namespaces(plans[1], results)
                  = assemble_reordered_digest_batches(plans, results)
    BY <1>1, <1>2, <1>6, FastPath
<1>8. RestoredDigests = assemble_reordered_digest_batches(plans, results)
    BY <1>7 DEF RestoredDigests
<1>9. ASSUME fault # "none" PROVE RestoredDigests = {}
    <2>1. ~Accepts(plans, results)
        BY <1>1, <1>2, <1>3, <1>4, <1>5, <1>9, FaultyResults
    <2>. QED BY <2>1, <1>8, Reordered
<1>10. ASSUME fault = "none"
       PROVE  \E a : /\ RestoredDigests = {a}
                     /\ \A n \in DOMAIN plans : \A k \in DOMAIN plans[n].planned :
                          /\ PlaceOf(plans[n].planned[k]) \in DOMAIN a[n]
                          /\ a[n][PlaceOf(plans[n].planned[k])]
                               = digest(batch[n].algorithm, plans[n].jobs[k].input)
    <2>1. results = rs
        BY <1>3, <1>10 DEF Faulty
    <2>2. PICK a : a = [n \in DOMAIN plans |-> ValueDigests(plans[n], FoundDigests(plans[n], results))]
        OBVIOUS
    <2>3. Accepts(plans, results)
        BY <1>2, <1>4, <2>1, HonestResults
    <2>4. RestoredDigests = {a}
        BY <1>8, <2>2, <2>3, Reordered
    <2>5. ASSUME NEW n \in DOMAIN plans, NEW k \in DOMAIN plans[n].planned
          PROVE  /\ PlaceOf(plans[n].planned[k]) \in DOMAIN a[n]
                 /\ a[n][PlaceOf(plans[n].planned[k])]
                      = digest(batch[n].algorithm, plans[n].jobs[k].input)
        <3>1. UniqueIds(plans[n])
            BY <1>2, PlanAt DEF PlanOf
        <3>2. FoundDigests(plans[n], results)[k] = digest(batch[n].algorithm, plans[n].jobs[k].input)
            BY <1>2, <1>4, <2>1, HonestResults
        <3>3. a[n] = ValueDigests(plans[n], FoundDigests(plans[n], results))
            BY <2>2
        <3>. QED BY <3>1, <3>2, <3>3, DigestAtPlace
    <2>. QED BY <2>4, <2>5
<1>. QED BY <1>2, <1>7, <1>8, <1>9, <1>10

LEMMA EmptyPlanOf ==
    ASSUME NEW item \in MdocBatchItem
    PROVE  EmptyPlan(item) \in DigestPlan /\ PlanOf(EmptyPlan(item), item)
<1>1. /\ item.id \in Nat /\ Len(item.namespaces) \in Nat
    BY LenProperties DEF MdocBatchItem
<1>2. EmptyPlan(item) \in DigestPlan
    BY <1>1 DEF EmptyPlan, DigestPlan
<1>3. UniqueIds(EmptyPlan(item)) /\ InStep(EmptyPlan(item), item)
    BY DEF EmptyPlan, UniqueIds, InStep
<1>4. CarriesElements(EmptyPlan(item), item)
    BY DEF EmptyPlan, CarriesElements
<1>. QED BY <1>1, <1>2, <1>3, <1>4 DEF EmptyPlan, PlanOf

LEMMA IssueInitInv == IssueInit => IssueInv
<1>. SUFFICES ASSUME IssueInit PROVE IssueInv
    OBVIOUS
<1>1. PlansInv
    BY DEF IssueInit, PlansInv
<1>2. CallPhases
    BY DEF IssueInit, CallPhases
<1>3. MdocsInv
    BY DEF IssueInit, MdocsInv
<1>4. FaultsRejected /\ HonestCallsSucceed
    BY DEF IssueInit, FaultsRejected, HonestCallsSucceed
<1>. QED BY <1>1, <1>2, <1>3, <1>4 DEF IssueInv

\* Nothing is prepared before the phase says so.
LEMMA NothingYet ==
    ASSUME MdocsInv, phase # "prepared", UNCHANGED <<prepared, issued>>
    PROVE  MdocsInv'
<1>1. prepared = <<>> /\ issued = {} /\ prepared' = <<>> /\ issued' = {}
    BY DEF MdocsInv
<1>. QED BY <1>1 DEF MdocsInv

LEMMA SubmitKeeps ==
    ASSUME IssueInv, NEW items \in Seq(MdocBatchItem), NEW one \in BOOLEAN,
           one => Len(items) = 1, Submit(items, one)
    PROVE  IssueInv'
<1>1. /\ phase = "idle" /\ single' = one /\ batch' = items /\ fault' = "none"
      /\ prepared' = prepared /\ issued' = issued
    BY DEF IssueInv, CallPhases, Submit
<1>2. MdocsInv'
    BY <1>1, NothingYet DEF IssueInv
<1>3. CASE ~validate_mdoc_batch(items)
    <2>1. phase' = "failed" /\ plans' = <<>>
        <3>1. phase' = CASE ~validate_mdoc_batch(items) -> "failed"
                         [] items = <<>> -> "prepared"
                         [] OTHER -> "planning"
            BY DEF Submit
        <3>2. validate_mdoc_batch(<<>>)
            BY DEF validate_mdoc_batch
        <3>3. phase' = "failed"
            BY <1>3, <3>1, <3>2
        <3>. QED BY <3>3 DEF Submit
    <2>2. PlansInv'
        BY <1>1, <2>1, LenProperties DEF PlansInv
    <2>3. CallPhases'
        BY <1>1, <2>1 DEF CallPhases
    <2>4. ~validate_mdoc_batch(batch)'
        BY <1>1, <1>3 DEF validate_mdoc_batch, ItemOk, validate_namespace_shape, validate_authorizations
    <2>. QED BY <1>1, <1>2, <2>1, <2>2, <2>3, <2>4 DEF IssueInv, FaultsRejected, HonestCallsSucceed
<1>4. CASE validate_mdoc_batch(items) /\ items = <<>>
    <2>1. phase' = "prepared" /\ plans' = <<>>
        BY <1>4 DEF Submit
    <2>2. PlansInv'
        BY <1>1, <2>1, LenProperties DEF PlansInv
    <2>3. validate_mdoc_batch(batch)'
        BY <1>1, <1>4 DEF validate_mdoc_batch
    <2>4. CallPhases'
        BY <1>1, <1>4, <2>1, <2>3 DEF CallPhases
    <2>. QED BY <1>1, <1>2, <2>1, <2>2, <2>4 DEF IssueInv, FaultsRejected, HonestCallsSucceed
<1>5. CASE validate_mdoc_batch(items) /\ items # <<>>
    <2>1. phase' = "planning" /\ plans' = <<EmptyPlan(items[1])>>
        BY <1>5 DEF Submit
    <2>2. 1 \in DOMAIN items /\ 1 <= Len(items) /\ items[1] \in MdocBatchItem
        <3>1. Len(items) \in Nat /\ Len(items) # 0 /\ DOMAIN items = 1..Len(items)
            BY <1>5, LenProperties, EmptySeq
        <3>2. 1 \in 1..Len(items)
            BY <3>1
        <3>. QED BY <3>1, <3>2, ElementOfSeq
    <2>3. PICK plan \in DigestPlan : plan = EmptyPlan(items[1]) /\ PlanOf(plan, items[1])
        BY <2>2, EmptyPlanOf
    <2>4. /\ plans' \in Seq(DigestPlan) /\ Len(plans') = 1 /\ DOMAIN plans' = {1}
          /\ plans'[1] = plan
        BY <2>1, <2>3
    <2>5. PlansInv'
        BY <1>1, <2>2, <2>3, <2>4 DEF PlansInv
    <2>6. validate_mdoc_batch(batch)'
        BY <1>1, <1>5 DEF validate_mdoc_batch, ItemOk, validate_namespace_shape, validate_authorizations
    <2>7. plans' # <<>>
        BY <2>1
    <2>8. CallPhases'
        BY <1>1, <2>1, <2>6, <2>7 DEF CallPhases
    <2>. QED BY <1>1, <1>2, <2>1, <2>5, <2>8 DEF IssueInv, FaultsRejected, HonestCallsSucceed
<1>. QED BY <1>3, <1>4, <1>5

LEMMA PrepareKeeps ==
    ASSUME IssueInv, Prepare \/ PrepareBatch
    PROVE  IssueInv'
<1>1. CASE PrepareBatch
    BY <1>1, BatchesAssumption, SubmitKeeps DEF PrepareBatch
<1>2. CASE Prepare
    <2>1. PICK s \in Singles : Submit(<<[s EXCEPT !.id = MDOC_CREDENTIAL_ID]>>, TRUE)
        BY <1>2 DEF Prepare
    <2>2. PICK x \in MdocBatchItem : x = [s EXCEPT !.id = MDOC_CREDENTIAL_ID]
        BY BatchesAssumption DEF MdocBatchItem, MDOC_CREDENTIAL_ID
    <2>3. <<x>> \in Seq(MdocBatchItem) /\ Len(<<x>>) = 1
        OBVIOUS
    <2>. QED BY <2>1, <2>2, <2>3, SubmitKeeps
<1>. QED BY <1>1, <1>2

\* The plan that is in the making.
LEMMA CurrentPlan ==
    ASSUME IssueInv, phase = "planning"
    PROVE  /\ Len(plans) \in Nat /\ Current \in 1..Len(plans) /\ Current = Len(plans)
           /\ DOMAIN plans = 1..Len(plans) /\ plans \in Seq(DigestPlan)
           /\ batch \in Seq(MdocBatchItem) /\ Len(batch) \in Nat /\ Len(plans) <= Len(batch)
           /\ plans[Current] \in DigestPlan /\ batch[Current] \in MdocBatchItem
           /\ PlanOf(plans[Current], batch[Current])
<1>1. PlansInv /\ validate_mdoc_batch(batch) /\ plans # <<>>
    BY DEF IssueInv, CallPhases
<1>2. plans \in Seq(DigestPlan) /\ batch \in Seq(MdocBatchItem) /\ Len(plans) <= Len(batch)
    BY <1>1 DEF PlansInv
<1>3. /\ Len(plans) \in Nat /\ Len(plans) # 0 /\ DOMAIN plans = 1..Len(plans)
      /\ Len(batch) \in Nat
    BY <1>1, <1>2, LenProperties, EmptySeq
<1>4. Current \in 1..Len(plans) /\ Current = Len(plans)
    BY <1>3 DEF Current
<1>5. PlansOf(plans, batch)
    BY <1>1, PlansOfBatch
<1>. QED BY <1>2, <1>3, <1>4, <1>5, PlanAt

LEMMA PlanNamespaceKeeps ==
    ASSUME IssueInv, PlanNamespace
    PROVE  IssueInv'
<1>1. /\ phase = "planning" /\ ~PlanComplete(Current)
      /\ UNCHANGED <<single, batch, results, fault, prepared, issued>>
    BY DEF PlanNamespace
<1>2. PICK c : c = Current
    OBVIOUS
<1>3. /\ Len(plans) \in Nat /\ c \in 1..Len(plans) /\ c = Len(plans)
      /\ DOMAIN plans = 1..Len(plans) /\ plans \in Seq(DigestPlan)
      /\ batch \in Seq(MdocBatchItem) /\ Len(batch) \in Nat /\ Len(plans) <= Len(batch)
    BY <1>1, <1>2, CurrentPlan
<1>4. PICK plan \in DigestPlan : plan = plans[c]
    BY <1>1, <1>2, CurrentPlan
<1>5. PICK item \in MdocBatchItem : item = batch[c] /\ PlanOf(plan, item)
    BY <1>1, <1>2, <1>4, CurrentPlan
<1>6. MdocsInv'
    BY <1>1, NothingYet DEF IssueInv
<1>7. fault' = "none" /\ validate_mdoc_batch(batch) /\ plans # <<>>
    BY <1>1 DEF IssueInv, CallPhases
<1>8. CASE phase' = "panicked" /\ plans' = plans
    <2>1. PlansInv'
        BY <1>1, <1>8 DEF IssueInv, PlansInv, PlanComplete
    <2>2. CallPhases'
        BY <1>1, <1>8 DEF IssueInv, CallPhases
    <2>. QED BY <1>6, <1>8, <2>1, <2>2 DEF IssueInv, FaultsRejected, HonestCallsSucceed
<1>9. CASE /\ \E d \in IF item.decoys THEN DecoyCounts ELSE {0} :
                \E ids \in generate_digest_id(item.namespaces[plan.namespaces + 1].elements, d) :
                   plans' = [plans EXCEPT ![c] =
                        plan_digest_namespace(plan, item, item.namespaces[plan.namespaces + 1], ids)]
           /\ phase' = phase
    <2>1. plan.namespaces < Len(item.namespaces) /\ plan.namespaces + 1 \in 1..Len(item.namespaces)
        <3>1. plan.namespaces \in 0..Len(item.namespaces)
            BY <1>5 DEF PlanOf
        <3>2. plan.namespaces # Len(item.namespaces)
            BY <1>1, <1>2, <1>4, <1>5 DEF PlanComplete
        <3>3. Len(item.namespaces) \in Nat
            BY LenProperties DEF MdocBatchItem
        <3>. QED BY <3>1, <3>2, <3>3
    <2>2. PICK ns \in Entries : ns = item.namespaces[plan.namespaces + 1]
        <3>1. item.namespaces \in Seq(Entries)
            BY DEF MdocBatchItem
        <3>. QED BY <2>1, <3>1, ElementOfSeq
    <2>3. PICK d \in Nat : \E ids \in generate_digest_id(ns.elements, d) :
                plans' = [plans EXCEPT ![c] = plan_digest_namespace(plan, item, ns, ids)]
        <3>1. PICK d \in IF item.decoys THEN DecoyCounts ELSE {0} :
                \E ids \in generate_digest_id(ns.elements, d) :
                   plans' = [plans EXCEPT ![c] = plan_digest_namespace(plan, item, ns, ids)]
            BY <1>9, <2>2
        <3>2. d \in Nat
            BY IdsAssumption
        <3>. QED BY <3>1, <3>2
    <2>4. PICK ids \in generate_digest_id(ns.elements, d) :
                plans' = [plans EXCEPT ![c] = plan_digest_namespace(plan, item, ns, ids)]
        BY <2>3
    <2>5. PICK new : new = plan_digest_namespace(plan, item, ns, ids)
        OBVIOUS
    <2>6. new \in DigestPlan /\ PlanOf(new, item)
        BY <1>5, <2>1, <2>2, <2>5, PlanGrows
    <2>7. plans' = [plans EXCEPT ![c] = new]
        BY <2>4, <2>5
    <2>8. /\ plans' \in Seq(DigestPlan) /\ Len(plans') = Len(plans) /\ DOMAIN plans' = DOMAIN plans
          /\ plans'[c] = new /\ \A n \in DOMAIN plans : n # c => plans'[n] = plans[n]
        BY <1>3, <2>6, <2>7
    <2>9. ASSUME NEW n \in DOMAIN plans PROVE PlanOf(plans'[n], batch[n])
        <3>1. CASE n = c
            BY <1>5, <2>6, <2>8, <3>1
        <3>2. CASE n # c
            BY <2>8, <3>2 DEF IssueInv, PlansInv
        <3>. QED BY <3>1, <3>2
    <2>10. ASSUME NEW n \in DOMAIN plans, n < Len(plans)
           PROVE  plans'[n].namespaces = Len(batch[n].namespaces)
        <3>1. n # c
            BY <1>3, <2>10
        <3>. QED BY <2>8, <2>10, <3>1 DEF IssueInv, PlansInv, PlanComplete
    <2>11. PlansInv'
        BY <1>1, <1>3, <2>8, <2>9, <2>10 DEF PlansInv, PlanComplete
    <2>12. plans' # <<>>
        BY <1>3, <2>8
    <2>13. validate_mdoc_batch(batch)'
        BY <1>1, <1>7 DEF validate_mdoc_batch, ItemOk, validate_namespace_shape, validate_authorizations
    <2>14. CallPhases'
        BY <1>1, <1>7, <1>9, <2>12, <2>13 DEF IssueInv, CallPhases
    <2>. QED BY <1>1, <1>6, <1>9, <2>11, <2>14 DEF IssueInv, FaultsRejected, HonestCallsSucceed
<1>. QED BY <1>2, <1>4, <1>5, <1>8, <1>9 DEF PlanNamespace

LEMMA PlanCredentialKeeps ==
    ASSUME IssueInv, PlanCredential
    PROVE  IssueInv'
<1>1. /\ phase = "planning" /\ PlanComplete(Current) /\ Current < Len(batch)
      /\ plans' = Append(plans, EmptyPlan(batch[Current + 1]))
      /\ UNCHANGED <<single, batch, phase, results, fault, prepared, issued>>
    BY DEF PlanCredential
<1>2. PICK c : c = Current
    OBVIOUS
<1>3. /\ Len(plans) \in Nat /\ c \in 1..Len(plans) /\ c = Len(plans)
      /\ DOMAIN plans = 1..Len(plans) /\ plans \in Seq(DigestPlan)
      /\ batch \in Seq(MdocBatchItem) /\ Len(batch) \in Nat /\ Len(plans) <= Len(batch)
    BY <1>1, <1>2, CurrentPlan
<1>4. c + 1 \in 1..Len(batch)
    BY <1>1, <1>2, <1>3
<1>5. PICK item \in MdocBatchItem : item = batch[c + 1]
    BY <1>3, <1>4, ElementOfSeq
<1>6. PICK new \in DigestPlan : new = EmptyPlan(item) /\ PlanOf(new, item)
    BY EmptyPlanOf
<1>7. /\ plans' \in Seq(DigestPlan) /\ Len(plans') = c + 1 /\ DOMAIN plans' = 1..(c + 1)
      /\ plans'[c + 1] = new /\ \A n \in 1..c : plans'[n] = plans[n]
    BY <1>1, <1>2, <1>3, <1>5, <1>6
<1>8. ASSUME NEW n \in 1..(c + 1) PROVE PlanOf(plans'[n], batch[n])
    <2>1. CASE n = c + 1
        BY <1>5, <1>6, <1>7, <2>1
    <2>2. CASE n # c + 1
        <3>1. n \in 1..c
            BY <1>3, <2>2
        <3>. QED BY <1>3, <1>7, <3>1 DEF IssueInv, PlansInv
    <2>. QED BY <2>1, <2>2
<1>9. ASSUME NEW n \in 1..(c + 1), n < c + 1
      PROVE  plans'[n].namespaces = Len(batch[n].namespaces)
    <2>1. n \in 1..c /\ n \in DOMAIN plans
        BY <1>3, <1>9
    <2>2. PlanComplete(n)
        <3>1. CASE n = c
            BY <1>1, <1>2, <3>1
        <3>2. CASE n # c
            BY <1>3, <2>1, <3>2 DEF IssueInv, PlansInv
        <3>. QED BY <3>1, <3>2
    <2>. QED BY <1>7, <2>1, <2>2 DEF PlanComplete
<1>10. PlansInv'
    BY <1>1, <1>3, <1>4, <1>7, <1>8, <1>9 DEF PlansInv, PlanComplete
<1>11. MdocsInv'
    BY <1>1, NothingYet DEF IssueInv
<1>12. fault' = "none" /\ validate_mdoc_batch(batch)
    BY <1>1 DEF IssueInv, CallPhases
<1>13. validate_mdoc_batch(batch)'
    BY <1>1, <1>12 DEF validate_mdoc_batch, ItemOk, validate_namespace_shape, validate_authorizations
<1>14. plans' # <<>>
    BY <1>3, <1>7
<1>15. CallPhases'
    BY <1>1, <1>12, <1>13, <1>14 DEF IssueInv, CallPhases
<1>. QED BY <1>1, <1>10, <1>11, <1>15 DEF IssueInv, FaultsRejected, HonestCallsSucceed

LEMMA ExecuteDigestsKeeps ==
    ASSUME IssueInv, ExecuteDigests
    PROVE  IssueInv'
<1>1. /\ phase = "planning" /\ AllPlanned
      /\ UNCHANGED <<single, batch, plans, prepared, issued>>
    BY DEF ExecuteDigests
<1>2. /\ Len(plans) = Len(batch) /\ \A n \in DOMAIN plans : PlanComplete(n)
    <2>1. /\ Len(plans) \in Nat /\ Current \in 1..Len(plans) /\ Current = Len(plans)
          /\ DOMAIN plans = 1..Len(plans)
        BY <1>1, CurrentPlan
    <2>2. \A n \in DOMAIN plans : n < Len(plans) => PlanComplete(n)
        BY DEF IssueInv, PlansInv
    <2>. QED BY <1>1, <2>1, <2>2 DEF AllPlanned
<1>3. PlansInv'
    BY <1>1 DEF IssueInv, PlansInv, PlanComplete
<1>4. MdocsInv'
    BY <1>1, NothingYet DEF IssueInv
<1>5. /\ validate_mdoc_batch(batch) /\ plans # <<>>
      /\ single \in BOOLEAN /\ (single => Len(batch) = 1)
    BY <1>1 DEF IssueInv, CallPhases
<1>6. CASE phase' = "failed" /\ fault' = "error"
    <2>1. CallPhases'
        BY <1>1, <1>5, <1>6 DEF CallPhases
    <2>. QED BY <1>3, <1>4, <1>6, <2>1 DEF IssueInv, FaultsRejected, HonestCallsSucceed
<1>7. CASE /\ \E rs \in Schedules(AllJobs), kind \in Faults :
                results' = Faulty(rs, kind) /\ fault' = kind
           /\ phase' = "executed"
    <2>1. PICK rs \in Schedules(AllJobs) : results' = Faulty(rs, fault') /\ fault' \in Faults
        BY <1>7
    <2>2. AllJobs' = AllJobs
        BY <1>1 DEF AllJobs
    <2>3. Schedules(AllJobs)' = Schedules(AllJobs)
        BY <2>2 DEF Schedules, DigestResult, digest, SetToSeqs
    <2>4. \E r \in Schedules(AllJobs)' : results' = Faulty(r, fault)'
        BY <2>1, <2>3 DEF Faulty
    <2>5. validate_mdoc_batch(batch)'
        BY <1>1, <1>5 DEF validate_mdoc_batch, ItemOk, validate_namespace_shape, validate_authorizations
    <2>6. Len(plans)' = Len(batch)' /\ \A n \in DOMAIN plans' : PlanComplete(n)'
        BY <1>1, <1>2 DEF PlanComplete
    <2>7. CallPhases'
        BY <1>1, <1>5, <1>7, <2>1, <2>4, <2>5, <2>6 DEF CallPhases, Faults
    <2>. QED BY <1>3, <1>4, <1>7, <2>7 DEF IssueInv, FaultsRejected, HonestCallsSucceed
<1>. QED BY <1>6, <1>7 DEF ExecuteDigests

LEMMA AssembleKeeps ==
    ASSUME IssueInv, Assemble
    PROVE  IssueInv'
<1>1. /\ phase = "executed" /\ UNCHANGED <<single, batch, plans, fault, issued>>
    BY DEF Assemble
<1>2. PlansInv'
    BY <1>1 DEF IssueInv, PlansInv, PlanComplete
<1>3. /\ validate_mdoc_batch(batch) /\ single \in BOOLEAN /\ (single => Len(batch) = 1)
      /\ Len(plans) = Len(batch) /\ (\A n \in DOMAIN plans : PlanComplete(n))
      /\ PlansInv
    BY <1>1 DEF IssueInv, CallPhases
<1>4. CASE RestoredDigests = {} /\ phase' = "failed" /\ prepared' = prepared
    <2>1. fault # "none"
        BY <1>1, <1>4, Restoration
    <2>2. CallPhases'
        BY <1>1, <1>3, <1>4 DEF CallPhases
    <2>3. MdocsInv'
        BY <1>1, <1>4, NothingYet DEF IssueInv
    <2>. QED BY <1>1, <1>2, <1>4, <2>1, <2>2, <2>3 DEF IssueInv, FaultsRejected, HonestCallsSucceed
<1>5. ASSUME NEW a \in RestoredDigests, phase' = "prepared",
             prepared' = [n \in DOMAIN plans |-> finish_preparation(batch[n], plans[n], a[n])]
      PROVE  IssueInv'
    <2>1. fault = "none"
        BY <1>1, <1>5, Restoration
    <2>2. \A n \in DOMAIN plans : \A k \in DOMAIN plans[n].planned :
            /\ PlaceOf(plans[n].planned[k]) \in DOMAIN a[n]
            /\ a[n][PlaceOf(plans[n].planned[k])]
                 = digest(batch[n].algorithm, plans[n].jobs[k].input)
        BY <1>1, <1>5, <2>1, Restoration
    <2>3. validate_mdoc_batch(batch)'
        BY <1>1, <1>3 DEF validate_mdoc_batch, ItemOk, validate_namespace_shape, validate_authorizations
    <2>4. Len(plans)' = Len(batch)' /\ \A n \in DOMAIN plans' : PlanComplete(n)'
        BY <1>1, <1>3 DEF PlanComplete
    <2>5. CallPhases'
        BY <1>1, <1>3, <1>5, <2>3, <2>4 DEF CallPhases
    <2>6. issued' = {}
        BY <1>1 DEF IssueInv, MdocsInv
    <2>7. ASSUME NEW n \in DOMAIN plans PROVE PreparedFrom(prepared'[n], plans[n], batch[n])
        <3>1. PICK p : p = finish_preparation(batch[n], plans[n], a[n])
            OBVIOUS
        <3>2. /\ p.credential_id = plans[n].credential_id /\ p.namespaces = plans[n].items
              /\ p.algorithm = batch[n].signature_algorithm /\ p.mso.value_digests = a[n]
            BY <3>1 DEF finish_preparation
        <3>3. plans[n].credential_id = batch[n].id
            BY <1>3 DEF PlansInv, PlanOf
        <3>4. prepared'[n] = p
            BY <1>5, <3>1
        <3>. QED BY <2>2, <3>2, <3>3, <3>4 DEF PreparedFrom
    <2>8. MdocsInv'
        BY <1>1, <1>5, <2>6, <2>7 DEF MdocsInv, PreparedFrom
    <2>. QED BY <1>1, <1>2, <1>5, <2>1, <2>5, <2>8 DEF IssueInv, FaultsRejected, HonestCallsSucceed
<1>. QED BY <1>4, <1>5 DEF Assemble

LEMMA CompleteKeeps ==
    ASSUME IssueInv, NEW n \in DOMAIN prepared, Complete(n)
    PROVE  IssueInv'
<1>1. PICK chain \in Chains, signature \in Signatures :
        /\ verify_remote_signature(prepared[n].algorithm, chain,
              signature_payload(prepared[n]), signature)
        /\ issued' = issued \cup {[of |-> n, namespaces |-> prepared[n].namespaces,
                                  mso |-> prepared[n].mso, issuer_auth |-> signature,
                                  x5chain |-> chain]}
    BY DEF Complete
<1>2. /\ phase = "prepared"
      /\ UNCHANGED <<single, batch, phase, plans, results, fault, prepared>>
    BY DEF Complete
<1>3. PlansInv'
    BY <1>2 DEF IssueInv, PlansInv, PlanComplete
<1>4. CallPhases'
    <2>1. validate_mdoc_batch(batch)'
        <3>1. validate_mdoc_batch(batch)
            BY <1>2 DEF IssueInv, CallPhases
        <3>. QED BY <3>1, <1>2 DEF validate_mdoc_batch, ItemOk, validate_namespace_shape, validate_authorizations
    <2>2. Len(plans)' = Len(batch)' /\ \A m \in DOMAIN plans' : PlanComplete(m)'
        BY <1>2 DEF IssueInv, CallPhases, PlanComplete
    <2>. QED BY <1>2, <2>1, <2>2 DEF IssueInv, CallPhases
<1>5. MdocsInv'
    <2>1. ASSUME NEW m \in issued'
          PROVE  /\ m.of \in DOMAIN prepared /\ m.namespaces = prepared[m.of].namespaces
                 /\ verify_remote_signature(prepared[m.of].algorithm, m.x5chain,
                        signature_payload(prepared[m.of]), m.issuer_auth)
        <3>1. CASE m \in issued
            BY <3>1 DEF IssueInv, MdocsInv
        <3>2. CASE m \notin issued
            BY <1>1, <3>2
        <3>. QED BY <3>1, <3>2
    <2>. QED BY <1>2, <2>1 DEF IssueInv, MdocsInv, PreparedFrom, verify_remote_signature,
                               signature_payload
<1>6. (FaultsRejected /\ HonestCallsSucceed)'
    BY <1>2 DEF IssueInv, FaultsRejected, HonestCallsSucceed
<1>. QED BY <1>3, <1>4, <1>5, <1>6 DEF IssueInv

LEMMA StutterKeeps ==
    ASSUME IssueInv, UNCHANGED issueVars
    PROVE  IssueInv'
<1>1. PlansInv' /\ (FaultsRejected /\ HonestCallsSucceed)'
    BY DEF IssueInv, PlansInv, PlanComplete, issueVars, FaultsRejected, HonestCallsSucceed,
           validate_mdoc_batch, ItemOk, validate_namespace_shape, validate_authorizations
<1>2. CallPhases'
    <2>1. /\ single' = single /\ batch' = batch /\ phase' = phase /\ plans' = plans
          /\ results' = results /\ fault' = fault /\ CallPhases
        BY DEF IssueInv, issueVars
    <2>2. Schedules(AllJobs)' = Schedules(AllJobs)
        BY <2>1 DEF AllJobs, Schedules, DigestResult, digest, SetToSeqs
    <2>3. (\E rs \in Schedules(AllJobs) : results = Faulty(rs, fault))
            => \E rs \in Schedules(AllJobs)' : results' = Faulty(rs, fault)'
        BY <2>1, <2>2 DEF Faulty
    <2>4. validate_mdoc_batch(batch) => validate_mdoc_batch(batch)'
        BY <2>1 DEF validate_mdoc_batch, ItemOk, validate_namespace_shape, validate_authorizations
    <2>5. (\A n \in DOMAIN plans : PlanComplete(n)) => \A n \in DOMAIN plans' : PlanComplete(n)'
        BY <2>1 DEF PlanComplete
    <2>. QED BY <2>1, <2>3, <2>4, <2>5 DEF CallPhases
<1>3. MdocsInv'
    BY DEF IssueInv, MdocsInv, issueVars
<1>. QED BY <1>1, <1>2, <1>3 DEF IssueInv

\* The inductive invariant of an issuance call holds in every reachable state, for every
\* batch, every choice of identifiers and decoys, every order and fault of the results.
THEOREM CallsInductive == IssueSpec => []IssueInv
<1>1. IssueInit => IssueInv
    BY IssueInitInv
<1>2. IssueInv /\ [IssueNext]_issueVars => IssueInv'
    BY PrepareKeeps, PlanNamespaceKeeps, PlanCredentialKeeps, ExecuteDigestsKeeps,
       AssembleKeeps, CompleteKeeps, StutterKeeps DEF IssueNext
<1>. QED BY <1>1, <1>2, PTL DEF IssueSpec

\* assemble_reordered_digest_batches: a shortened, extended, renamed or damaged set of
\* results prepares nothing, in a batch of any size.
THEOREM FaultsAlwaysRejected == IssueSpec => []FaultsRejected
<1>1. IssueInv => FaultsRejected
    BY DEF IssueInv
<1>. QED BY <1>1, CallsInductive, PTL

\* Mdoc::prepare_batch: a valid batch is never refused when the executor keeps its
\* contract, whatever identifiers were drawn.
THEOREM HonestCallsAlwaysSucceed == IssueSpec => []HonestCallsSucceed
<1>1. IssueInv => HonestCallsSucceed
    BY DEF IssueInv
<1>. QED BY <1>1, CallsInductive, PTL

\* assemble_digest_namespaces: taking results in one pass when they are in plan order
\* never differs from the general way, for honest and for faulty results.
THEOREM FastPathAlwaysAgrees == IssueSpec => []FastPathAgrees
<1>1. IssueInv => FastPathAgrees
    BY Restoration DEF FastPathAgrees
<1>. QED BY <1>1, CallsInductive, PTL

\* finish_preparation: each element of the caller's item is in the MSO under its own
\* identifier with the digest of its own bytes.
THEOREM DigestsAlwaysMatch == IssueSpec => []ItemDigestsMatch
<1>1. IssueInv => ItemDigestsMatch
    <2>. SUFFICES ASSUME IssueInv, NEW n \in DOMAIN prepared
                  PROVE  /\ prepared[n].credential_id = batch[n].id
                         /\ \A i \in DOMAIN batch[n].namespaces :
                              \A e \in 1..batch[n].namespaces[i].elements :
                               \E item \in prepared[n].namespaces :
                                 /\ item.credential = batch[n].id /\ item.index = e
                                 /\ item.name = batch[n].namespaces[i].name
                                 /\ PlaceOf(item) \in DOMAIN prepared[n].mso.value_digests
                                 /\ prepared[n].mso.value_digests[PlaceOf(item)]
                                       = digest(batch[n].algorithm, item)
        BY DEF ItemDigestsMatch
    <2>1. phase = "prepared"
        BY DEF IssueInv, MdocsInv
    <2>2. n \in DOMAIN plans /\ PreparedFrom(prepared[n], plans[n], batch[n])
        BY DEF IssueInv, MdocsInv
    <2>3. PlanComplete(n) /\ PlanOf(plans[n], batch[n]) /\ validate_mdoc_batch(batch) /\ PlansInv
        BY <2>1, <2>2 DEF IssueInv, CallPhases, PlansInv
    <2>4. /\ batch[n] \in MdocBatchItem /\ DOMAIN plans[n].jobs = DOMAIN plans[n].planned
        BY <2>2, <2>3, PlanAt, PlansOfBatch
    <2>5. ASSUME NEW i \in DOMAIN batch[n].namespaces,
                 NEW e \in 1..batch[n].namespaces[i].elements
          PROVE  \E item \in prepared[n].namespaces :
                    /\ item.credential = batch[n].id /\ item.index = e
                    /\ item.name = batch[n].namespaces[i].name
                    /\ PlaceOf(item) \in DOMAIN prepared[n].mso.value_digests
                    /\ prepared[n].mso.value_digests[PlaceOf(item)]
                          = digest(batch[n].algorithm, item)
        <3>1. i \in 1..plans[n].namespaces
            <4>1. batch[n].namespaces \in Seq(Entries)
                BY <2>4 DEF MdocBatchItem
            <4>. QED BY <4>1, <2>3, LenProperties DEF PlanComplete
        <3>2. PICK x \in plans[n].items : x.index = e /\ x.name = batch[n].namespaces[i].name
            BY <2>3, <3>1 DEF PlanOf, CarriesElements
        <3>3. x.credential = batch[n].id
            BY <2>3 DEF PlanOf, CarriesElements
        <3>4. PICK k \in DOMAIN plans[n].jobs :
                 plans[n].jobs[k].input = x /\ PlaceOf(plans[n].planned[k]) = PlaceOf(x)
            BY <2>3 DEF PlanOf, CarriesElements
        <3>5. /\ PlaceOf(x) \in DOMAIN prepared[n].mso.value_digests
              /\ prepared[n].mso.value_digests[PlaceOf(x)] = digest(batch[n].algorithm, x)
            BY <2>2, <2>4, <3>4 DEF PreparedFrom
        <3>6. x \in prepared[n].namespaces
            BY <2>2 DEF PreparedFrom
        <3>. QED BY <3>2, <3>3, <3>5, <3>6
    <2>. QED BY <2>2, <2>5 DEF PreparedFrom
<1>. QED BY <1>1, CallsInductive, PTL

\* PreparedMdoc::complete: an issued mdoc is signed over its own digests by the key of
\* its own chain, whichever payload the remote signer signed.
THEOREM IssuedAlwaysVerifies == IssueSpec => []IssuedVerifies
<1>1. IssueInv => IssuedVerifies
    <2>. SUFFICES ASSUME IssueInv, NEW m \in issued
                  PROVE  /\ m.issuer_auth.key = m.x5chain.key
                         /\ m.x5chain.curve = CurveOf(batch[m.of].signature_algorithm)
                         /\ m.issuer_auth.over[1] = batch[m.of].signature_algorithm
                         /\ \A item \in m.namespaces :
                              /\ item.credential = batch[m.of].id
                              /\ PlaceOf(item) \in DOMAIN m.issuer_auth.over[2].value_digests
                              /\ m.issuer_auth.over[2].value_digests[PlaceOf(item)]
                                   = digest(batch[m.of].algorithm, item)
        BY DEF IssuedVerifies
    <2>1. PICK n : n = m.of
        OBVIOUS
    <2>2. /\ n \in DOMAIN prepared /\ m.namespaces = prepared[n].namespaces
          /\ verify_remote_signature(prepared[n].algorithm, m.x5chain,
                signature_payload(prepared[n]), m.issuer_auth)
        BY <2>1 DEF IssueInv, MdocsInv
    <2>3. n \in DOMAIN plans /\ PreparedFrom(prepared[n], plans[n], batch[n]) /\ phase = "prepared"
        BY <2>2 DEF IssueInv, MdocsInv
    <2>4. PlanOf(plans[n], batch[n]) /\ validate_mdoc_batch(batch) /\ PlansInv
        BY <2>3 DEF IssueInv, CallPhases, PlansInv
    <2>5. DOMAIN plans[n].jobs = DOMAIN plans[n].planned
        BY <2>3, <2>4, PlanAt, PlansOfBatch
    <2>6. /\ m.issuer_auth.key = m.x5chain.key
          /\ m.x5chain.curve = CurveOf(batch[n].signature_algorithm)
          /\ m.issuer_auth.over = <<batch[n].signature_algorithm, prepared[n].mso>>
        BY <2>2, <2>3 DEF verify_remote_signature, signature_payload, PreparedFrom
    <2>7. ASSUME NEW x \in m.namespaces
          PROVE  /\ x.credential = batch[n].id
                 /\ PlaceOf(x) \in DOMAIN prepared[n].mso.value_digests
                 /\ prepared[n].mso.value_digests[PlaceOf(x)] = digest(batch[n].algorithm, x)
        <3>1. x \in plans[n].items
            BY <2>2, <2>3 DEF PreparedFrom
        <3>2. x.credential = batch[n].id
            BY <2>4, <3>1 DEF PlanOf, CarriesElements
        <3>3. PICK k \in DOMAIN plans[n].jobs :
                 plans[n].jobs[k].input = x /\ PlaceOf(plans[n].planned[k]) = PlaceOf(x)
            BY <2>4, <3>1 DEF PlanOf, CarriesElements
        <3>. QED BY <2>3, <2>5, <3>2, <3>3 DEF PreparedFrom
    <2>. QED BY <2>1, <2>6, <2>7
<1>. QED BY <1>1, CallsInductive, PTL

-----------------------------------------------------------------------------
(* Padding *)

\* Quotient and remainder.
LEMMA Division ==
    ASSUME NEW B \in Nat \ {0}, NEW n \in Nat
    PROVE  \E q \in Nat, r \in 0..(B - 1) : q = n \div B /\ r = n % B /\ n = q * B + r
<1>1. n \div B \in Nat /\ n % B \in 0..(B - 1)
    OBVIOUS
<1>2. PICK q \in Nat, r \in 0..(B - 1) : q = n \div B /\ r = n % B
    BY <1>1
<1>3. n = q * B + r
    BY <1>2
<1>. QED BY <1>2, <1>3

\* A multiple of a block, divided.
LEMMA Multiple ==
    ASSUME NEW B \in Nat \ {0}, NEW c \in Nat
    PROVE  c * B \in Nat /\ (c * B) % B = 0 /\ (c * B) \div B = c
    OBVIOUS

\* Two multiples of a block within one block are equal.
LEMMA SameMultiple ==
    ASSUME NEW B \in Nat \ {0}, NEW c \in Nat, NEW n \in Nat, n % B = 0,
           n < c * B + B, c * B < n + B
    PROVE  n = c * B
<1>1. PICK q \in Nat : q = n \div B /\ n = q * B
    <2>1. PICK q \in Nat, r \in 0..(B - 1) : q = n \div B /\ r = n % B /\ n = q * B + r
        BY Division
    <2>2. n = q * B
        BY <2>1
    <2>. QED BY <2>1, <2>2
<1>2. CASE q >= c + 1
    <2>1. PICK t \in Nat : q = c + 1 + t
        <3>1. q - (c + 1) \in Nat /\ q = c + 1 + (q - (c + 1))
            BY <1>2
        <3>. QED BY <3>1
    <2>2. q * B = c * B + B + t * B /\ t * B \in Nat
        BY <2>1
    <2>. QED BY <1>1, <2>2
<1>3. CASE c >= q + 1
    <2>1. PICK t \in Nat : c = q + 1 + t
        <3>1. c - (q + 1) \in Nat /\ c = q + 1 + (c - (q + 1))
            BY <1>3
        <3>. QED BY <3>1
    <2>2. c * B = q * B + B + t * B /\ t * B \in Nat
        BY <2>1
    <2>. QED BY <1>1, <2>2
<1>. QED BY <1>1, <1>2, <1>3

\* sha256_block_count is the number of blocks of the padded input.
LEMMA PaddedIsBlocks ==
    ASSUME NEW len \in Nat
    PROVE  /\ sha256_block_count(len) \in Nat \ {0}
           /\ PaddedLength(len) = sha256_block_count(len) * BlockBytes
           /\ sha256_block_count(len) * BlockBytes >= len + 9
<1>1. PICK B \in Nat \ {0} : B = BlockBytes /\ B > 8
    BY ExecutionAssumption
<1>2. PICK q \in Nat, r \in Nat : /\ q = len \div B /\ r = len % B /\ r < B
                                 /\ len = q * B + r
    <2>1. PICK q \in Nat, r \in 0..(B - 1) : q = len \div B /\ r = len % B /\ len = q * B + r
        BY Division
    <2>2. r \in Nat /\ r < B
        OBVIOUS
    <2>. QED BY <2>1, <2>2
<1>3. PICK c \in Nat \ {0} : c = sha256_block_count(len) /\ c = q + (IF r >= B - 8 THEN 1 ELSE 0) + 1
    BY <1>1, <1>2 DEF sha256_block_count
<1>4. PICK m \in Nat : m = c * B
    OBVIOUS
<1>5. m >= len + 9 /\ m <= len + 8 + B
    <2>1. PICK p \in Nat : p = q * B
        OBVIOUS
    <2>2. CASE r >= B - 8
        <3>1. c = q + 2
            BY <1>1, <1>3, <2>2
        <3>2. m = p + 2 * B
            BY <1>4, <2>1, <3>1
        <3>. QED BY <1>1, <1>2, <2>1, <2>2, <3>2
    <2>3. CASE ~(r >= B - 8)
        <3>1. c = q + 1
            BY <1>1, <1>3, <2>3
        <3>2. m = p + B
            BY <1>4, <2>1, <3>1
        <3>. QED BY <1>1, <1>2, <2>1, <2>3, <3>2
    <2>. QED BY <2>2, <2>3
<1>6. m \in len + 9..len + 8 + B /\ m % B = 0
    BY <1>4, <1>5, Multiple
<1>7. PICK n : n = CHOOSE l \in len + 9..len + 8 + B : l % B = 0
    OBVIOUS
<1>8. n \in len + 9..len + 8 + B /\ n % B = 0
    BY <1>6, <1>7
<1>9. n \in Nat /\ n < m + B /\ m < n + B
    BY <1>5, <1>8
<1>10. n = m
    BY <1>4, <1>8, <1>9, SameMultiple
<1>. QED BY <1>1, <1>3, <1>4, <1>5, <1>7, <1>10 DEF PaddedLength

\* A lane compresses the blocks of the standard: data, marker, zeros and length meet at
\* the same bytes, also when the marker or the length needs a block of its own.
LEMMA LaneIsStandard ==
    ASSUME NEW job \in DigestJob, job.algorithm = "SHA256"
    PROVE  hash_lane(job, sha256_block_count(job.len)) = digest_of(job)
<1>1. PICK B \in Nat \ {0} : B = BlockBytes /\ B > 8
    BY ExecutionAssumption
<1>2. PICK len \in Nat : len = job.len
    BY DEF DigestJob
<1>3. PICK count \in Nat \ {0} : count = sha256_block_count(len)
    BY PaddedIsBlocks
<1>4. PICK total \in Nat : total = count * B
    OBVIOUS
<1>5. /\ PaddedLength(job.len) = total
      /\ total >= len + 9 /\ total \div B = count
    BY <1>1, <1>2, <1>3, <1>4, PaddedIsBlocks, Multiple
<1>6. StandardBlocks(job) = [b \in 1..count |-> [i \in 0..B - 1 |-> StandardByte(job, total, (b - 1) * B + i)]]
    BY <1>1, <1>5 DEF StandardBlocks
<1>7. ASSUME NEW b \in 1..count, NEW i \in 0..B - 1
      PROVE  fill_block(job, b - 1, count)[i] = StandardByte(job, total, (b - 1) * B + i)
    <2>1. PICK start \in Nat : start = (b - 1) * B
        <3>1. b - 1 \in Nat
            OBVIOUS
        <3>. QED BY <3>1
    <2>2. fill_block(job, b - 1, count)[i] =
             IF (b - 1) + 1 = count /\ i >= B - 8 THEN LengthByte(job, i - (B - 8))
             ELSE IF start + i = len THEN One
             ELSE IF start + i < len THEN InputByte(job, start + i)
             ELSE Zero
        BY <1>1, <1>2, <2>1 DEF fill_block
    <2>3. CASE b = count
        <3>1. total = start + B
            BY <1>4, <2>1, <2>3
        <3>2. CASE i >= B - 8
            <4>1. /\ start + i >= total - 8 /\ ~(start + i < len) /\ start + i # len
                  /\ (start + i) - (total - 8) = i - (B - 8)
                BY <1>1, <1>5, <3>1, <3>2
            <4>. QED BY <1>2, <2>1, <2>2, <2>3, <3>2, <4>1 DEF StandardByte
        <3>3. CASE ~(i >= B - 8)
            <4>1. ~(start + i >= total - 8)
                BY <1>1, <3>1, <3>3
            <4>. QED BY <1>2, <2>1, <2>2, <3>3, <4>1 DEF StandardByte
        <3>. QED BY <3>2, <3>3
    <2>4. CASE b # count
        <3>1. PICK t \in Nat : count = (b - 1) + 2 + t
            <4>1. count - (b + 1) \in Nat /\ count = (b - 1) + 2 + (count - (b + 1))
                BY <2>4
            <4>. QED BY <4>1
        <3>2. total = start + 2 * B + t * B /\ t * B \in Nat
            BY <1>4, <2>1, <3>1
        <3>3. PICK z \in Nat : z = t * B
            BY <3>2
        <3>4. total = start + 2 * B + z
            BY <3>2, <3>3
        <3>5. ~(start + i >= total - 8)
            BY <1>1, <3>4
        <3>. QED BY <1>2, <2>1, <2>2, <2>4, <3>5 DEF StandardByte
    <2>. QED BY <2>3, <2>4
<1>8. ASSUME NEW b \in 1..count
      PROVE  fill_block(job, b - 1, count) = [i \in 0..B - 1 |-> StandardByte(job, total, (b - 1) * B + i)]
    <2>1. fill_block(job, b - 1, count) = [i \in 0..B - 1 |-> fill_block(job, b - 1, count)[i]]
        BY <1>1 DEF fill_block
    <2>. QED BY <1>7, <2>1
<1>9. [b \in 1..count |-> fill_block(job, b - 1, count)] = StandardBlocks(job)
    BY <1>6, <1>8
<1>. QED BY <1>2, <1>3, <1>9 DEF hash_lane, digest_of

-----------------------------------------------------------------------------
(* Groups *)

\* The members of a finite set of numbers, counted up to each of them, are its places.
LEMMA RankIsPlace ==
    ASSUME NEW S \in SUBSET Nat, IsFiniteSet(S), NEW k \in 1..Cardinality(S)
    PROVE  \E i \in S : Cardinality(UpTo(S, i)) = k
<1>1. PICK n \in Nat : n = Cardinality(S)
    BY FS_CardinalityType
<1>2. PICK f : f = [i \in S |-> Cardinality(UpTo(S, i))]
    OBVIOUS
<1>3. ASSUME NEW i \in S
      PROVE  /\ UpTo(S, i) \in SUBSET S /\ IsFiniteSet(UpTo(S, i)) /\ i \in UpTo(S, i)
             /\ Cardinality(UpTo(S, i)) \in 1..n
    <2>1. UpTo(S, i) \in SUBSET S /\ i \in UpTo(S, i)
        BY DEF UpTo
    <2>2. IsFiniteSet(UpTo(S, i)) /\ Cardinality(UpTo(S, i)) <= n
        BY <1>1, <2>1, FS_Subset
    <2>3. Cardinality(UpTo(S, i)) \in Nat /\ Cardinality(UpTo(S, i)) # 0
        BY <2>1, <2>2, FS_CardinalityType, FS_EmptySet
    <2>. QED BY <2>1, <2>2, <2>3
<1>4. ASSUME NEW i \in S, NEW j \in S, i < j PROVE f[i] # f[j]
    <2>1. UpTo(S, i) \in SUBSET UpTo(S, j) /\ j \notin UpTo(S, i)
        <3>1. i \in Nat /\ j \in Nat /\ j \notin UpTo(S, i)
            BY <1>4 DEF UpTo
        <3>2. ASSUME NEW x \in UpTo(S, i) PROVE x \in UpTo(S, j)
            <4>1. x \in S /\ x \in Nat /\ x <= i
                BY DEF UpTo
            <4>2. x <= j
                BY <1>4, <3>1, <4>1
            <4>. QED BY <4>1, <4>2 DEF UpTo
        <3>. QED BY <3>1, <3>2
    <2>2. UpTo(S, i) # UpTo(S, j)
        BY <1>3, <2>1
    <2>3. Cardinality(UpTo(S, j)) # Cardinality(UpTo(S, i))
        BY <1>3, <2>1, <2>2, FS_Subset
    <2>. QED BY <1>2, <2>3
<1>5. ASSUME NEW i \in S, NEW j \in S, f[i] = f[j] PROVE i = j
    BY <1>4, <1>5
<1>6. f \in Injection(S, 1..n)
    BY <1>2, <1>3, <1>5 DEF Injection, IsInjective
<1>7. IsFiniteSet(1..n) /\ Cardinality(1..n) = n
    BY FS_Interval
<1>8. f \in Surjection(S, 1..n)
    BY <1>1, <1>6, <1>7, FS_Injection
<1>9. PICK i \in S : f[i] = k
    BY <1>1, <1>8 DEF Surjection
<1>. QED BY <1>2, <1>9

\* A group is a list of its members.
LEMMA GroupIsMembers ==
    ASSUME NEW jobs \in Seq(DigestJob), NEW c
    PROVE  /\ Len(Group(jobs, c)) \in Nat
           /\ \A k \in 1..Len(Group(jobs, c)) : Group(jobs, c)[k] \in GroupMembers(jobs, c)
<1>1. PICK S : S = GroupMembers(jobs, c)
    OBVIOUS
<1>2. S \in SUBSET Nat /\ IsFiniteSet(S)
    <2>1. S \in SUBSET DOMAIN jobs
        BY <1>1 DEF GroupMembers
    <2>2. Len(jobs) \in Nat /\ DOMAIN jobs = 1..Len(jobs)
        BY LenProperties
    <2>3. IsFiniteSet(DOMAIN jobs)
        BY <2>2, FS_Interval
    <2>. QED BY <2>1, <2>2, <2>3, FS_Subset
<1>3. PICK n \in Nat : n = Cardinality(S)
    BY <1>2, FS_CardinalityType
<1>4. Group(jobs, c) = [k \in 1..n |-> CHOOSE i \in S : Cardinality(UpTo(S, i)) = k]
    BY <1>1, <1>3 DEF Group
<1>5. ASSUME NEW k \in 1..n PROVE Group(jobs, c)[k] \in S
    <2>1. \E i \in S : Cardinality(UpTo(S, i)) = k
        BY <1>2, <1>3, RankIsPlace
    <2>2. (CHOOSE i \in S : Cardinality(UpTo(S, i)) = k) \in S
        BY <2>1
    <2>. QED BY <1>4, <2>2
<1>6. Group(jobs, c) \in [1..n -> S]
    BY <1>4, <1>5
<1>7. Len(Group(jobs, c)) = n
    BY <1>6
<1>. QED BY <1>1, <1>5, <1>7

\* The lanes take whole groups of jobs of one size, and hash each as the standard does.
LEMMA LanesAreStandard ==
    ASSUME NEW jobs \in Seq(DigestJob), NEW c, NEW m \in Nat,
           m = simd_job_count(Group(jobs, c)), m > 0,
           NEW inputs, inputs = [k \in 1..m |-> jobs[Group(jobs, c)[k]]]
    PROVE  hash_many_same_block_count(inputs) =
             {[k \in 1..m |-> digest_of(jobs[Group(jobs, c)[k]])]}
<1>1. PICK n \in Nat : n = Len(Group(jobs, c))
    BY GroupIsMembers
<1>2. m <= n /\ m % Lanes = 0
    <2>1. PICK L \in Nat \ {0} : L = Lanes
        BY ExecutionAssumption
    <2>2. PICK q \in Nat, r \in 0..(L - 1) : q = n \div L /\ n = q * L + r
        BY Division
    <2>3. m = q * L
        BY <1>1, <2>1, <2>2 DEF simd_job_count
    <2>4. m % L = 0
        BY <2>3, Multiple
    <2>5. m <= n
        BY <2>2, <2>3
    <2>. QED BY <2>1, <2>4, <2>5
<1>3. ASSUME NEW k \in 1..m
      PROVE  /\ inputs[k] = jobs[Group(jobs, c)[k]] /\ inputs[k] \in DigestJob
             /\ inputs[k].algorithm = "SHA256" /\ sha256_block_count(inputs[k].len) = c
    <2>1. k \in 1..n
        BY <1>2
    <2>2. PICK i : i = Group(jobs, c)[k]
        OBVIOUS
    <2>3. i \in GroupMembers(jobs, c)
        BY <1>1, <2>1, <2>2, GroupIsMembers
    <2>4. i \in DOMAIN jobs /\ jobs[i].algorithm = "SHA256" /\ sha256_block_count(jobs[i].len) = c
        BY <2>3 DEF GroupMembers
    <2>5. jobs[i] \in DigestJob
        BY <2>4
    <2>. QED BY <2>2, <2>4, <2>5
<1>4. Len(inputs) = m /\ DOMAIN inputs = 1..m
    <2>1. inputs \in [1..m -> DigestJob]
        BY <1>3
    <2>. QED BY <2>1
<1>5. 1 \in 1..m
    OBVIOUS
<1>6. sha256_block_count(inputs[1].len) = c
    BY <1>3, <1>5
<1>7. hash_many_same_block_count(inputs) = {[k \in 1..m |-> hash_lane(inputs[k], c)]}
    <2>1. Len(inputs) % Lanes = 0
        BY <1>2, <1>4
    <2>2. \A i \in DOMAIN inputs : sha256_block_count(inputs[i].len) = c
        BY <1>3, <1>4
    <2>3. hash_many_same_block_count(inputs) =
             IF \/ Len(inputs) % Lanes # 0
                \/ \E i \in DOMAIN inputs :
                     sha256_block_count(inputs[i].len) # sha256_block_count(inputs[1].len)
             THEN {}
             ELSE {[i \in DOMAIN inputs |-> hash_lane(inputs[i], sha256_block_count(inputs[1].len))]}
        BY DEF hash_many_same_block_count
    <2>4. hash_many_same_block_count(inputs) =
             {[i \in DOMAIN inputs |-> hash_lane(inputs[i], sha256_block_count(inputs[1].len))]}
        BY <2>1, <2>2, <2>3, <1>6
    <2>5. \A i \in 1..m : hash_lane(inputs[i], sha256_block_count(inputs[1].len)) = hash_lane(inputs[i], c)
        BY <1>6
    <2>6. [i \in DOMAIN inputs |-> hash_lane(inputs[i], sha256_block_count(inputs[1].len))]
            = [i \in 1..m |-> hash_lane(inputs[i], c)]
        BY <1>4, <2>5
    <2>. QED BY <2>4, <2>6
<1>8. ASSUME NEW k \in 1..m PROVE hash_lane(inputs[k], c) = digest_of(jobs[Group(jobs, c)[k]])
    BY <1>3, LaneIsStandard
<1>. QED BY <1>7, <1>8

\* The SIMD executor returns the results of the scalar one, in the order of the jobs.
LEMMA SimdIsSerial ==
    ASSUME NEW jobs \in Seq(DigestJob)
    PROVE  execute_simd_digest_jobs(jobs) = SerialDigestExecutor(jobs)
<1>1. PICK counts : counts = {sha256_block_count(jobs[i].len) : i \in DOMAIN jobs}
    OBVIOUS
<1>2. PICK digests :
        digests = [c \in counts |->
            IF [k \in 1..simd_job_count(Group(jobs, c)) |-> jobs[Group(jobs, c)[k]]] = <<>>
            THEN {<<>>}
            ELSE hash_many_same_block_count(
                    [k \in 1..simd_job_count(Group(jobs, c)) |-> jobs[Group(jobs, c)[k]]])]
    OBVIOUS
<1>3. ASSUME NEW c \in counts
      PROVE  /\ simd_job_count(Group(jobs, c)) \in Nat
             /\ simd_job_count(Group(jobs, c)) > 0 =>
                  digests[c] = {[k \in 1..simd_job_count(Group(jobs, c)) |->
                                    digest_of(jobs[Group(jobs, c)[k]])]}
             /\ digests[c] # {}
    <2>1. PICK m \in Nat : m = simd_job_count(Group(jobs, c))
        <3>1. PICK n \in Nat : n = Len(Group(jobs, c))
            BY GroupIsMembers
        <3>2. PICK q \in Nat : q = n \div Lanes
            BY Division, ExecutionAssumption
        <3>. QED BY <3>1, <3>2, ExecutionAssumption DEF simd_job_count
    <2>2. PICK inputs : inputs = [k \in 1..m |-> jobs[Group(jobs, c)[k]]]
        OBVIOUS
    <2>3. digests[c] = IF inputs = <<>> THEN {<<>>} ELSE hash_many_same_block_count(inputs)
        BY <1>2, <2>1, <2>2
    <2>4. ASSUME m > 0
          PROVE  digests[c] = {[k \in 1..m |-> digest_of(jobs[Group(jobs, c)[k]])]}
        <3>1. inputs # <<>>
            <4>1. 1 \in DOMAIN inputs
                BY <2>2, <2>4
            <4>. QED BY <4>1
        <3>. QED BY <2>1, <2>2, <2>3, <2>4, <3>1, LanesAreStandard
    <2>5. ASSUME m = 0 PROVE digests[c] # {}
        <3>1. inputs = <<>>
            BY <2>2, <2>5
        <3>. QED BY <2>3, <3>1
    <2>6. digests[c] # {}
        <3>1. CASE m > 0
            BY <2>4, <3>1
        <3>2. CASE m = 0
            BY <2>5, <3>2
        <3>. QED BY <3>1, <3>2
    <2>. QED BY <2>1, <2>4, <2>6
<1>. DEFINE Slots(i) == {k \in 1..simd_job_count(Group(jobs, sha256_block_count(jobs[i].len))) :
                            Group(jobs, sha256_block_count(jobs[i].len))[k] = i}
            LaneDigest(i) == IF Slots(i) = {} THEN digest_of(jobs[i])
                         ELSE (CHOOSE d \in digests[sha256_block_count(jobs[i].len)] : TRUE)
                                [CHOOSE k \in Slots(i) : TRUE]
<1>4. execute_simd_digest_jobs(jobs) =
        IF \E c \in counts : digests[c] = {} THEN {}
        ELSE {[i \in DOMAIN jobs |-> digest_result(jobs[i], LaneDigest(i))]}
    BY <1>1, <1>2 DEF execute_simd_digest_jobs
<1>5. ASSUME NEW i \in DOMAIN jobs PROVE LaneDigest(i) = digest_of(jobs[i])
    <2>1. PICK c \in counts : c = sha256_block_count(jobs[i].len)
        BY <1>1
    <2>2. PICK m \in Nat : m = simd_job_count(Group(jobs, c))
        BY <1>3
    <2>3. CASE Slots(i) = {}
        BY <2>3
    <2>4. CASE Slots(i) # {}
        <3>1. PICK k : k = CHOOSE slot \in Slots(i) : TRUE
            OBVIOUS
        <3>2. k \in Slots(i)
            BY <2>4, <3>1
        <3>3. k \in 1..m /\ Group(jobs, c)[k] = i
            BY <2>1, <2>2, <3>2
        <3>4. PICK d : d = [l \in 1..m |-> digest_of(jobs[Group(jobs, c)[l]])]
            OBVIOUS
        <3>5. digests[c] = {d}
            BY <1>3, <2>2, <3>3, <3>4
        <3>6. (CHOOSE x \in digests[c] : TRUE) = d
            BY <3>5
        <3>7. d[k] = digest_of(jobs[i])
            BY <3>3, <3>4
        <3>. QED BY <2>1, <2>4, <3>1, <3>6, <3>7
    <2>. QED BY <2>3, <2>4
<1>6. [i \in DOMAIN jobs |-> digest_result(jobs[i], LaneDigest(i))]
        = [i \in DOMAIN jobs |-> digest_result(jobs[i], digest_of(jobs[i]))]
    <2>. HIDE DEF LaneDigest
    <2>. QED BY <1>5
<1>. QED BY <1>3, <1>4, <1>6 DEF SerialDigestExecutor

-----------------------------------------------------------------------------
(* The executors *)

\* The inductive invariant of the executors holds in every reachable state, for every
\* list of jobs, number of lanes, block size and number of processors.
THEOREM ExecutionInductive == ExecutionSpec => []ResultsInv
<1>1. ExecutionInit => ResultsInv
    BY DEF ExecutionInit, ResultsInv, AgreesWithOracle
<1>2. ResultsInv /\ [ExecutionNext]_executionVars => ResultsInv'
    <2>. SUFFICES ASSUME ResultsInv, [ExecutionNext]_executionVars PROVE ResultsInv'
        OBVIOUS
    <2>1. ASSUME NEW c \in call, NEW route, NEW chunk, NEW result, Return(c, route, chunk, result),
                 result = SerialDigestExecutor(c.jobs) \/ (result = {} /\ route = "native")
          PROVE  ResultsInv'
        <3>1. /\ call' = {}
              /\ done' = {[call |-> c, route |-> route, chunk |-> chunk, result |-> result]}
            BY <2>1 DEF Return
        <3>. QED BY <2>1, <3>1 DEF ResultsInv, AgreesWithOracle
    <2>2. ASSUME NEW c \in call, NEW w, Native(c, w) PROVE ResultsInv'
        BY <2>1, <2>2 DEF Native
    <2>3. CASE ParallelismChanges
        BY <2>3 DEF ParallelismChanges, ResultsInv, AgreesWithOracle
    <2>4. CASE Call
        <3>1. PICK executor \in Executors, jobs \in JobLists : call' = {[executor |-> executor, jobs |-> jobs]}
            BY <2>4 DEF Call
        <3>2. jobs \in Seq(DigestJob)
            BY ExecutionAssumption
        <3>3. done' = {}
            BY <2>4 DEF Call
        <3>4. \A c \in call' : c.jobs \in Seq(DigestJob)
            BY <3>1, <3>2
        <3>. QED BY <3>3, <3>4 DEF ResultsInv, AgreesWithOracle
    <2>5. CASE Forget
        BY <2>5 DEF Forget, ResultsInv, AgreesWithOracle
    <2>6. CASE ExecuteSerial
        BY <2>1, <2>6 DEF ExecuteSerial
    <2>7. CASE ExecuteSimd
        <3>1. PICK c \in call : Return(c, "simd", Len(c.jobs), execute_simd_digest_jobs(c.jobs))
            BY <2>7 DEF ExecuteSimd
        <3>2. execute_simd_digest_jobs(c.jobs) = SerialDigestExecutor(c.jobs)
            BY SimdIsSerial DEF ResultsInv
        <3>. QED BY <2>1, <3>1, <3>2
    <2>8. CASE ExecuteNative
        BY <2>2, <2>8 DEF ExecuteNative
    <2>9. CASE ExecuteAdaptive
        BY <2>1, <2>2, <2>9 DEF ExecuteAdaptive
    <2>10. CASE UNCHANGED executionVars
        BY <2>10 DEF executionVars, ResultsInv, AgreesWithOracle
    <2>. QED BY <2>3, <2>4, <2>5, <2>6, <2>7, <2>8, <2>9, <2>10 DEF ExecutionNext
<1>. QED BY <1>1, <1>2, PTL DEF ExecutionSpec

\* execute_simd_digest_jobs, NativeParallelDigestExecutor and AdaptiveDigestExecutor return
\* what SerialDigestExecutor returns, job for job, or native execution fails as a whole.
THEOREM ExecutorsAlwaysAgree == ExecutionSpec => []AgreesWithOracle
<1>1. ResultsInv => AgreesWithOracle
    BY DEF ResultsInv
<1>. QED BY <1>1, ExecutionInductive, PTL

-----------------------------------------------------------------------------
(* Work on the pool *)

\* The smallest of two and of three numbers.
LEMMA SmallestOfTwo ==
    ASSUME NEW a \in Nat, NEW b \in Nat
    PROVE  Smallest({a, b}) \in {a, b} /\ Smallest({a, b}) <= a /\ Smallest({a, b}) <= b
<1>1. \E x \in {a, b} : \A y \in {a, b} : x <= y
    BY SMT
<1>. QED BY <1>1 DEF Smallest

LEMMA SmallestOfThree ==
    ASSUME NEW a \in Nat, NEW b \in Nat, NEW c \in Nat
    PROVE  /\ Smallest({a, b, c}) \in {a, b, c}
           /\ Smallest({a, b, c}) <= a /\ Smallest({a, b, c}) <= b /\ Smallest({a, b, c}) <= c
<1>1. \E x \in {a, b, c} : \A y \in {a, b, c} : x <= y
    BY SMT
<1>. QED BY <1>1 DEF Smallest

\* The number of bytes of some jobs is a number.
LEMMA BytesType ==
    ASSUME NEW jobs \in Seq(DigestJob), NEW places \in SUBSET DOMAIN jobs
    PROVE  Bytes(jobs, places) \in Nat
<1>1. PICK f : f = [i \in DOMAIN jobs |-> {i} \X (1..jobs[i].len)]
    OBVIOUS
<1>2. IsFiniteSet(places)
    <2>1. IsFiniteSet(1..Len(jobs)) /\ DOMAIN jobs = 1..Len(jobs)
        BY FS_Interval
    <2>. QED BY <2>1, FS_Subset
<1>3. ASSUME NEW i \in places PROVE IsFiniteSet(f[i])
    <2>1. jobs[i] \in DigestJob
        OBVIOUS
    <2>2. jobs[i].len \in Nat
        BY <2>1 DEF DigestJob
    <2>3. IsFiniteSet({i})
        BY FS_Singleton
    <2>4. IsFiniteSet(1..jobs[i].len)
        BY <2>2, FS_Interval
    <2>. QED BY <1>1, <2>3, <2>4, FS_Product
<1>4. PICK S : S = {f[i] : i \in places}
    OBVIOUS
<1>5. IsFiniteSet(S)
    <2>1. [i \in places |-> f[i]] \in Surjection(places, S)
        BY <1>4 DEF Surjection
    <2>. QED BY <1>2, <2>1, FS_Surjection
<1>6. IsFiniteSet(UNION S)
    BY <1>3, <1>4, <1>5, FS_UNION
<1>7. UNION S = InputBytes(jobs, places)
    BY <1>1, <1>4 DEF InputBytes
<1>. QED BY <1>6, <1>7, FS_CardinalityType DEF Bytes

\* Cutting n jobs for w workers makes at most w chunks.
LEMMA ChunkCount ==
    ASSUME NEW n \in Nat \ {0}, NEW w \in Nat \ {0}
    PROVE  /\ static_chunk_size(n, w) \in Nat \ {0}
           /\ (n - 1) \div static_chunk_size(n, w) \in 0..(w - 1)
<1>1. PICK q \in Nat, r \in 0..(w - 1) : q = n \div w /\ r = n % w /\ n = q * w + r
    BY Division
<1>2. PICK size \in Nat \ {0} : size = static_chunk_size(n, w) /\ size * w >= n
    <2>1. CASE r = 0
        <3>1. q # 0
            BY <1>1, <2>1
        <3>2. static_chunk_size(n, w) = q
            BY <1>1, <2>1 DEF static_chunk_size
        <3>. QED BY <1>1, <2>1, <3>1, <3>2
    <2>2. CASE r # 0
        <3>1. static_chunk_size(n, w) = q + 1
            BY <1>1, <2>2 DEF static_chunk_size
        <3>2. (q + 1) * w = q * w + w
            BY <1>1
        <3>3. (q + 1) * w >= n
            BY <1>1, <3>2
        <3>. QED BY <1>1, <3>1, <3>3
    <2>. QED BY <2>1, <2>2
<1>3. PICK c \in Nat, s \in 0..(size - 1) : c = (n - 1) \div size /\ n - 1 = c * size + s
    <2>1. PICK k \in Nat : k = n - 1
        OBVIOUS
    <2>2. \E c \in Nat, s \in 0..(size - 1) : c = k \div size /\ s = k % size /\ k = c * size + s
        BY Division
    <2>. QED BY <2>1, <2>2
<1>4. c < w
    <2>. SUFFICES ASSUME c >= w PROVE FALSE
        BY <1>3
    <2>1. PICK t \in Nat : c = w + t
        <3>1. c - w \in Nat /\ c = w + (c - w)
            BY <1>3
        <3>. QED BY <3>1
    <2>2. c * size = size * w + t * size /\ t * size \in Nat
        BY <1>2, <2>1
    <2>. QED BY <1>2, <1>3, <2>2
<1>. QED BY <1>2, <1>3, <1>4

\* The chunks of a call are at most as many as its workers.
LEMMA ChunksOfWorkers ==
    ASSUME NEW jobs \in Seq(DigestJob), jobs # <<>>, NEW w \in Nat \ {0}
    PROVE  /\ IsFiniteSet(Chunks(jobs, static_chunk_size(Len(jobs), w)))
           /\ Cardinality(Chunks(jobs, static_chunk_size(Len(jobs), w))) <= w
<1>1. Len(jobs) \in Nat \ {0}
    OBVIOUS
<1>2. PICK n \in Nat \ {0} : n = Len(jobs)
    BY <1>1
<1>3. PICK last \in 0..(w - 1) : last = (n - 1) \div static_chunk_size(n, w)
    BY ChunkCount
<1>4. PICK S : S = Chunks(jobs, static_chunk_size(n, w))
    OBVIOUS
<1>5. PICK f : f = [c \in 0..last |-> {i \in DOMAIN jobs : (i - 1) \div static_chunk_size(n, w) = c}]
    OBVIOUS
<1>6. S = {f[c] : c \in 0..last}
    BY <1>2, <1>3, <1>4, <1>5 DEF Chunks
<1>7. f \in Surjection(0..last, S)
    BY <1>5, <1>6 DEF Surjection
<1>8. IsFiniteSet(0..last) /\ Cardinality(0..last) = last + 1
    BY FS_Interval
<1>9. Cardinality(S) <= last + 1 /\ IsFiniteSet(S)
    BY <1>7, <1>8, FS_Surjection
<1>10. Cardinality(S) \in Nat
    BY <1>9, FS_CardinalityType
<1>. QED BY <1>2, <1>4, <1>9, <1>10

\* What the selection lets through is balanced, for the chunks that it counts with.
LEMMA SelectedIsBalanced ==
    ASSUME NEW jobs \in Seq(DigestJob), NEW available \in Nat \ {0},
           select_adaptive(jobs, available) # 0
    PROVE  LET w == select_adaptive(jobs, available)
           IN  /\ w = Smallest({available, AdaptiveMaxWorkers, Len(jobs)}) /\ w \in Nat /\ w >= 2
               /\ \A c \in Chunks(jobs, static_chunk_size(Len(jobs), w)) :
                    2 * Bytes(jobs, c) <= Bytes(jobs, DOMAIN jobs) + 1
<1>1. PICK w : w = Smallest({available, AdaptiveMaxWorkers, Len(jobs)})
    OBVIOUS
<1>2. w \in Nat
    <2>1. AdaptiveMaxWorkers \in Nat /\ available \in Nat /\ Len(jobs) \in Nat
        BY ExecutionAssumption
    <2>2. w \in {available, AdaptiveMaxWorkers, Len(jobs)}
        BY <1>1, <2>1, SmallestOfThree
    <2>. QED BY <2>1, <2>2
<1>3. PICK total : total = Bytes(jobs, DOMAIN jobs)
    OBVIOUS
<1>4. total \in Nat
    BY <1>3, BytesType
<1>5. /\ select_adaptive(jobs, available) = w /\ ~(w < 2)
      /\ \A c \in Chunks(jobs, static_chunk_size(Len(jobs), w)) :
            ~(Bytes(jobs, c) > (total \div 2) + (total % 2))
    BY <1>1, <1>3 DEF select_adaptive
<1>6. ASSUME NEW c \in Chunks(jobs, static_chunk_size(Len(jobs), w))
      PROVE  2 * Bytes(jobs, c) <= total + 1
    <2>1. c \in SUBSET DOMAIN jobs
        BY DEF Chunks
    <2>2. PICK b \in Nat : b = Bytes(jobs, c)
        BY <2>1, BytesType
    <2>3. ~(b > (total \div 2) + (total % 2))
        BY <1>5, <2>2
    <2>4. PICK q \in Nat, r \in 0..1 : q = total \div 2 /\ r = total % 2 /\ total = q * 2 + r
        BY <1>4
    <2>5. 2 * b <= total + 1
        BY <1>4, <2>3, <2>4
    <2>. QED BY <2>2, <2>5
<1>7. w >= 2
    BY <1>2, <1>5
<1>. QED BY <1>1, <1>2, <1>3, <1>5, <1>6, <1>7

\* A call of the adaptive executor that ran on the pool.
LEMMA AdaptiveIsShared ==
    ASSUME NEW c, c.jobs \in Seq(DigestJob), NEW p \in Nat \ {0}, NEW q \in Nat \ {0},
           q <= MaxParallelWorkers,
           NEW w, w = select_adaptive(c.jobs, p), w # 0,
           NEW chunk,
           chunk = static_chunk_size(Len(c.jobs), Smallest({Smallest({w, MaxParallelWorkers}), q, Len(c.jobs)}))
    PROVE  /\ Cardinality(Chunks(c.jobs, chunk)) <= q
           /\ (q >= Smallest({p, AdaptiveMaxWorkers})) =>
                 \A x \in Chunks(c.jobs, chunk) : 2 * Bytes(c.jobs, x) <= Bytes(c.jobs, DOMAIN c.jobs) + 1
<1>0. AdaptiveMaxWorkers \in Nat \ {0} /\ MaxParallelWorkers \in Nat \ {0}
    BY ExecutionAssumption
<1>1. PICK jobs \in Seq(DigestJob) : jobs = c.jobs
    OBVIOUS
<1>2. PICK n \in Nat : n = Len(jobs)
    OBVIOUS
<1>3. w = Smallest({p, AdaptiveMaxWorkers, n}) /\ w \in Nat /\ w >= 2
    BY <1>1, <1>2, SelectedIsBalanced
<1>4. w <= p /\ w <= AdaptiveMaxWorkers /\ w <= n
    <2>1. p \in Nat /\ AdaptiveMaxWorkers \in Nat /\ n \in Nat
        BY <1>0
    <2>2. PICK z : z = Smallest({p, AdaptiveMaxWorkers, n})
        OBVIOUS
    <2>3. z <= p /\ z <= AdaptiveMaxWorkers /\ z <= n
        BY <2>1, <2>2, SmallestOfThree
    <2>. QED BY <1>3, <2>2, <2>3
<1>5. PICK v : v = Smallest({w, MaxParallelWorkers})
    OBVIOUS
<1>6. v \in {w, MaxParallelWorkers} /\ v <= w /\ v <= MaxParallelWorkers /\ v \in Nat \ {0}
    BY <1>0, <1>3, <1>5, SmallestOfTwo
<1>7. PICK u : u = Smallest({v, q, n})
    OBVIOUS
<1>8. u \in {v, q, n} /\ u <= v /\ u <= q /\ u <= n
    BY <1>2, <1>6, <1>7, SmallestOfThree
<1>9. u \in Nat \ {0}
    BY <1>2, <1>3, <1>4, <1>6, <1>8
<1>10. chunk = static_chunk_size(n, u)
    BY <1>1, <1>2, <1>5, <1>7
<1>11. jobs # <<>>
    BY <1>2, <1>3, <1>4
<1>12. Cardinality(Chunks(jobs, chunk)) <= u /\ IsFiniteSet(Chunks(jobs, chunk))
    BY <1>2, <1>9, <1>10, <1>11, ChunksOfWorkers
<1>13. ASSUME q >= Smallest({p, AdaptiveMaxWorkers}) PROVE u = w
    <2>1. PICK z : z = Smallest({p, AdaptiveMaxWorkers})
        OBVIOUS
    <2>2. z \in {p, AdaptiveMaxWorkers}
        BY <1>0, <2>1, SmallestOfTwo
    <2>3. w <= q
        BY <1>0, <1>3, <1>4, <1>13, <2>1, <2>2
    <2>4. v = w
        BY <1>0, <1>3, <1>6, <2>3
    <2>. QED BY <1>3, <1>4, <1>8, <2>3, <2>4
<1>14. ASSUME q >= Smallest({p, AdaptiveMaxWorkers}), NEW x \in Chunks(jobs, chunk)
       PROVE  2 * Bytes(jobs, x) <= Bytes(jobs, DOMAIN jobs) + 1
    <2>1. chunk = static_chunk_size(Len(jobs), w)
        BY <1>2, <1>10, <1>13, <1>14
    <2>2. x \in Chunks(jobs, static_chunk_size(Len(jobs), select_adaptive(jobs, p)))
        BY <1>1, <1>14, <2>1
    <2>. QED BY <1>1, <2>2, SelectedIsBalanced
<1>15. Cardinality(Chunks(jobs, chunk)) \in Nat
    BY <1>12, FS_CardinalityType
<1>16. Cardinality(Chunks(jobs, chunk)) <= q
    BY <1>8, <1>9, <1>12, <1>15
<1>. QED BY <1>1, <1>14, <1>16

\* A call that ends keeps the balance.
LEMMA ReturnShares ==
    ASSUME WorkInv, parallelism' = parallelism, pool' \in 0..MaxParallelWorkers,
           NEW c, NEW route, NEW chunk, NEW res, Return(c, route, chunk, res),
           route = "native" /\ Routed(c.executor) = "adaptive" /\ res # {} =>
               /\ Cardinality(Chunks(c.jobs, chunk)) <= pool'
               /\ (pool' >= Smallest({parallelism, AdaptiveMaxWorkers})) =>
                     \A x \in Chunks(c.jobs, chunk) : 2 * Bytes(c.jobs, x) <= Bytes(c.jobs, DOMAIN c.jobs) + 1
    PROVE  WorkInv'
<1>1. call' = {} /\ done' = {[call |-> c, route |-> route, chunk |-> chunk, result |-> res]}
    BY DEF Return
<1>2. parallelism' \in Parallelisms
    BY DEF WorkInv
<1>3. NativeWorkIsShared'
    BY <1>1 DEF NativeWorkIsShared, Routed
<1>. QED BY <1>1, <1>2, <1>3 DEF WorkInv

\* A call of the native executor, on its own or for the adaptive one.
LEMMA NativeShares ==
    ASSUME WorkInv, NEW c \in call, NEW v, Native(c, v),
           NEW w, w = select_adaptive(c.jobs, parallelism),
           Routed(c.executor) = "adaptive" => w # 0 /\ v = Smallest({w, MaxParallelWorkers})
    PROVE  WorkInv'
<1>0. MaxParallelWorkers \in Nat \ {0} /\ parallelism \in Nat \ {0} /\ c.jobs \in Seq(DigestJob)
    BY ExecutionAssumption DEF WorkInv
<1>1. pool \in 0..MaxParallelWorkers
    BY DEF WorkInv
<1>2. CASE Return(c, "serial", Len(c.jobs), SerialDigestExecutor(c.jobs)) /\ pool' = pool
    <2>1. parallelism' = parallelism
        BY <1>2 DEF Return
    <2>. QED BY <1>1, <1>2, <2>1, ReturnShares
<1>3. CASE pool = 0 /\ Return(c, "native", Len(c.jobs), {}) /\ pool' = pool
    <2>1. parallelism' = parallelism
        BY <1>3 DEF Return
    <2>. QED BY <1>1, <1>3, <2>1, ReturnShares
<1>4. ASSUME pool' \in PoolInUse
      PROVE  pool' \in 0..MaxParallelWorkers /\ pool' \in Nat \ {0}
    <2>1. CASE pool # 0
        BY <1>0, <1>1, <1>4, <2>1 DEF PoolInUse
    <2>2. CASE pool = 0
        <3>1. PICK n \in Parallelisms : pool' = Smallest({n, MaxParallelWorkers})
            BY <1>4, <2>2 DEF PoolInUse
        <3>2. n \in Nat \ {0} /\ n \in Nat /\ MaxParallelWorkers \in Nat
            BY <1>0, ExecutionAssumption
        <3>3. pool' \in {n, MaxParallelWorkers} /\ pool' <= MaxParallelWorkers
            BY <3>1, <3>2, SmallestOfTwo
        <3>. QED BY <1>0, <3>2, <3>3
    <2>. QED BY <2>1, <2>2
<1>5. CASE /\ pool' \in PoolInUse
           /\ Return(c, "serial", Len(c.jobs), SerialDigestExecutor(c.jobs))
    <2>1. parallelism' = parallelism
        BY <1>5 DEF Return
    <2>. QED BY <1>4, <1>5, <2>1, ReturnShares
<1>6. ASSUME pool' \in PoolInUse,
             NEW res,
             Return(c, "native", static_chunk_size(Len(c.jobs), Smallest({v, pool', Len(c.jobs)})), res)
      PROVE  WorkInv'
    <2>1. parallelism' = parallelism
        BY <1>6 DEF Return
    <2>2. PICK q \in Nat \ {0} : q = pool' /\ q <= MaxParallelWorkers
        BY <1>0, <1>4, <1>6
    <2>3. PICK chunk : chunk = static_chunk_size(Len(c.jobs), Smallest({v, q, Len(c.jobs)}))
        OBVIOUS
    <2>4. ASSUME Routed(c.executor) = "adaptive"
          PROVE  /\ Cardinality(Chunks(c.jobs, chunk)) <= q
                 /\ (q >= Smallest({parallelism, AdaptiveMaxWorkers})) =>
                     \A x \in Chunks(c.jobs, chunk) : 2 * Bytes(c.jobs, x) <= Bytes(c.jobs, DOMAIN c.jobs) + 1
        <3>1. chunk = static_chunk_size(Len(c.jobs), Smallest({Smallest({w, MaxParallelWorkers}), q, Len(c.jobs)}))
            BY <2>3, <2>4
        <3>. QED BY <1>0, <2>2, <2>4, <3>1, AdaptiveIsShared
    <2>5. Return(c, "native", chunk, res)
        BY <1>6, <2>2, <2>3
    <2>. QED BY <1>4, <1>6, <2>1, <2>2, <2>4, <2>5, ReturnShares
<1>. QED BY <1>2, <1>3, <1>5, <1>6 DEF Native

\* The pool never exceeds the limit and every batch on it is balanced, in every state and
\* for every list of jobs and number of processors.
THEOREM WorkInductive == ExecutionSpec => []WorkInv
<1>1. ExecutionInit => WorkInv
    BY ExecutionAssumption DEF ExecutionInit, WorkInv, NativeWorkIsShared
<1>2. ASSUME WorkInv, [ExecutionNext]_executionVars PROVE WorkInv'
    <2>1. CASE ParallelismChanges
        BY <1>2, <2>1 DEF ParallelismChanges, WorkInv, NativeWorkIsShared
    <2>2. CASE Call
        BY <1>2, <2>2, ExecutionAssumption DEF Call, WorkInv, NativeWorkIsShared
    <2>3. CASE Forget
        BY <1>2, <2>3 DEF Forget, WorkInv, NativeWorkIsShared
    <2>4. CASE ExecuteSerial
        <3>1. PICK c \in call : Return(c, "serial", Len(c.jobs), SerialDigestExecutor(c.jobs))
            BY <2>4 DEF ExecuteSerial
        <3>2. parallelism' = parallelism /\ pool' \in 0..MaxParallelWorkers
            BY <1>2, <2>4, <3>1 DEF ExecuteSerial, Return, WorkInv
        <3>. QED BY <1>2, <3>1, <3>2, ReturnShares
    <2>5. CASE ExecuteSimd
        <3>1. PICK c \in call : Return(c, "simd", Len(c.jobs), execute_simd_digest_jobs(c.jobs))
            BY <2>5 DEF ExecuteSimd
        <3>2. parallelism' = parallelism /\ pool' \in 0..MaxParallelWorkers
            BY <1>2, <2>5, <3>1 DEF ExecuteSimd, Return, WorkInv
        <3>. QED BY <1>2, <3>1, <3>2, ReturnShares
    <2>6. CASE ExecuteNative
        <3>1. PICK c \in call : /\ c.executor = "native"
                                /\ Native(c, Smallest({parallelism, MaxParallelWorkers}))
            BY <2>6 DEF ExecuteNative
        <3>2. Routed(c.executor) # "adaptive"
            BY <3>1 DEF Routed
        <3>. QED BY <1>2, <3>1, <3>2, NativeShares
    <2>7. CASE ExecuteAdaptive
        <3>1. PICK c \in call :
                LET w == select_adaptive(c.jobs, parallelism)
                IN  IF w = 0
                    THEN Return(c, "serial", Len(c.jobs), SerialDigestExecutor(c.jobs)) /\ UNCHANGED pool
                    ELSE Native(c, Smallest({w, MaxParallelWorkers}))
            BY <2>7 DEF ExecuteAdaptive
        <3>2. PICK w : w = select_adaptive(c.jobs, parallelism)
            OBVIOUS
        <3>3. CASE w = 0
            <4>1. parallelism' = parallelism /\ pool' \in 0..MaxParallelWorkers
                BY <1>2, <3>1, <3>2, <3>3 DEF Return, WorkInv
            <4>. QED BY <1>2, <3>1, <3>2, <3>3, <4>1, ReturnShares
        <3>4. CASE w # 0
            BY <1>2, <3>1, <3>2, <3>4, NativeShares
        <3>. QED BY <3>3, <3>4
    <2>8. CASE UNCHANGED executionVars
        BY <1>2, <2>8 DEF executionVars, WorkInv, NativeWorkIsShared
    <2>. QED BY <1>2, <2>1, <2>2, <2>3, <2>4, <2>5, <2>6, <2>7, <2>8 DEF ExecutionNext
<1>. QED BY <1>1, <1>2, PTL DEF ExecutionSpec

\* AdaptiveDigestExecutor: no chunk of a batch that goes to the pool has more than half of
\* the bytes, and there are no more chunks than threads, although selection and execution
\* cut the batch separately.
THEOREM WorkIsAlwaysShared == ExecutionSpec => []NativeWorkIsShared
<1>1. WorkInv => NativeWorkIsShared
    BY DEF WorkInv
<1>. QED BY <1>1, WorkInductive, PTL
=============================================================================
