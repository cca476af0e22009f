--------------------------- MODULE DigestExecution ---------------------------
(***************************************************************************)
(* The digest executors of digest_executor.rs as functions of their jobs:    *)
(* the scalar oracle, the SIMD executor with the framing of simd_sha256.rs,  *)
(* the native executor and the selection of the adaptive one.                *)
(*                                                                         *)
(* An input is the job's id and its length: its bytes are distinct symbols,  *)
(* and a SHA-256 digest is the sequence of blocks that is compressed, so two *)
(* digests are equal exactly when the same blocks are.  The threads of the   *)
(* pool are in DigestPool; here the pool is its size.                        *)
(***************************************************************************)
EXTENDS Integers, Sequences, FiniteSets, FiniteSetsExt, SequencesExt

CONSTANTS
    JobLists,               \* sequences of jobs [id, algorithm, len]
    Parallelisms,           \* what available_parallelism() may report
    ParallelFeature,        \* whether the build has the feature "parallel"
    Lanes, BlockBytes,      \* LANES, BLOCK_BYTES
    MinJobs, MinBytes,      \* ADAPTIVE_PARALLEL_MIN_DIGEST_JOBS, .._MIN_INPUT_BYTES
    AdaptiveMaxWorkers,     \* ADAPTIVE_PARALLEL_MAX_WORKERS
    MaxParallelWorkers      \* MAX_PARALLEL_DIGEST_WORKERS

DigestJob == [id : Nat, algorithm : {"SHA256", "SHA384", "SHA512"}, len : Nat]

ASSUME ExecutionAssumption ==
    /\ \A jobs \in JobLists : jobs \in Seq(DigestJob)
    /\ Parallelisms \subseteq Nat \ {0} /\ ParallelFeature \in BOOLEAN
    /\ Lanes \in Nat \ {0} /\ BlockBytes \in Nat /\ BlockBytes > 8
    /\ AdaptiveMaxWorkers \in Nat \ {0} /\ MaxParallelWorkers \in Nat \ {0}

VARIABLES
    parallelism,   \* what available_parallelism() reports now
    pool,          \* threads of the native pool, 0 while there is none
    call,          \* the call under way: [executor, jobs] (Option)
    done           \* the last call with its route, chunk size and result (Option)
executionVars == <<parallelism, pool, call, done>>

Executors == {"serial", "simd", "default"} \cup IF ParallelFeature THEN {"native", "adaptive"} ELSE {}

-----------------------------------------------------------------------------
(* The scalar oracle; SHA-2 as the standard pads its input. *)

InputByte(job, i) == <<"input", job.id, i>>
Zero == <<"zero", 0, 0>>
One == <<"0x80", 0, 0>>
LengthByte(job, i) == <<"length", job.len, i>>

\* The length with marker and length field, rounded up to blocks, and byte p of it.
PaddedLength(len) == CHOOSE n \in len + 9..len + 8 + BlockBytes : n % BlockBytes = 0
StandardByte(job, total, p) ==
    IF p < job.len THEN InputByte(job, p)
    ELSE IF p = job.len THEN One
    ELSE IF p >= total - 8 THEN LengthByte(job, p - (total - 8))
    ELSE Zero
StandardBlocks(job) ==
    LET total == PaddedLength(job.len)
    IN  [b \in 1..total \div BlockBytes |->
            [i \in 0..BlockBytes - 1 |-> StandardByte(job, total, (b - 1) * BlockBytes + i)]]

digest_of(job) ==
    [algorithm |-> job.algorithm,
     content |-> IF job.algorithm = "SHA256" THEN StandardBlocks(job) ELSE <<InputByte(job, job.len)>>]

digest_result(job, d) == [id |-> job.id, digest |-> d]

SerialDigestExecutor(jobs) == {[i \in DOMAIN jobs |-> digest_result(jobs[i], digest_of(jobs[i]))]}

-----------------------------------------------------------------------------
(* simd_sha256.rs *)

sha256_block_count(len) == (len \div BlockBytes) + (IF len % BlockBytes >= BlockBytes - 8 THEN 1 ELSE 0) + 1

\* Mutant: the end of the input is marked only in the block that has input bytes.
fill_block_Marker(job, index, count) ==
    LET start == index * BlockBytes
    IN  [i \in 0..BlockBytes - 1 |->
            IF index + 1 = count /\ i >= BlockBytes - 8 THEN LengthByte(job, i - (BlockBytes - 8))
            ELSE IF start < job.len /\ start + i = job.len THEN One
            ELSE IF start + i < job.len THEN InputByte(job, start + i)
            ELSE Zero]

\* Later writes of the block overwrite earlier ones.
fill_block(job, index, count) ==
    LET start == index * BlockBytes
    IN  [i \in 0..BlockBytes - 1 |->
            IF index + 1 = count /\ i >= BlockBytes - 8 THEN LengthByte(job, i - (BlockBytes - 8))
            ELSE IF start + i = job.len THEN One
            ELSE IF start + i < job.len THEN InputByte(job, start + i)
            ELSE Zero]

\* One lane of hash_eight.
hash_lane(job, count) ==
    [algorithm |-> "SHA256", content |-> [b \in 1..count |-> fill_block(job, b - 1, count)]]

\* The digests of the inputs, or nothing when they are no complete groups of one size.
hash_many_same_block_count(inputs) ==
    LET count == sha256_block_count(inputs[1].len)
    IN  IF Len(inputs) % Lanes # 0 \/ \E i \in DOMAIN inputs : sha256_block_count(inputs[i].len) # count
        THEN {} ELSE {[i \in DOMAIN inputs |-> hash_lane(inputs[i], count)]}

\* The SHA-256 jobs with a number of blocks, in order: the k-th has k of them up to itself.
GroupMembers(jobs, count) ==
    {i \in DOMAIN jobs : jobs[i].algorithm = "SHA256" /\ sha256_block_count(jobs[i].len) = count}
UpTo(S, i) == {j \in S : j <= i}
Group(jobs, count) ==
    LET S == GroupMembers(jobs, count)
    IN  [k \in 1..Cardinality(S) |-> CHOOSE i \in S : Cardinality(UpTo(S, i)) = k]

simd_job_count(indices) == (Len(indices) \div Lanes) * Lanes

\* Complete groups go through the lanes, everything else through the oracle; the results
\* keep the order of the jobs.
execute_simd_digest_jobs(jobs) ==
    LET counts == {sha256_block_count(jobs[i].len) : i \in DOMAIN jobs}
        InLanes(c) == [k \in 1..simd_job_count(Group(jobs, c)) |-> jobs[Group(jobs, c)[k]]]
        digests == [c \in counts |-> IF InLanes(c) = <<>> THEN {<<>>} ELSE hash_many_same_block_count(InLanes(c))]
        Digest(i) ==
            LET c == sha256_block_count(jobs[i].len)
                places == {k \in 1..simd_job_count(Group(jobs, c)) : Group(jobs, c)[k] = i}
            IN  IF places = {} THEN digest_of(jobs[i])
                ELSE (CHOOSE d \in digests[c] : TRUE)[CHOOSE k \in places : TRUE]
    IN  IF \E c \in counts : digests[c] = {} THEN {}
        ELSE {[i \in DOMAIN jobs |-> digest_result(jobs[i], Digest(i))]}

-----------------------------------------------------------------------------
(* Selection *)

Smallest(S) == CHOOSE x \in S : \A y \in S : x <= y

static_chunk_size(n, w) == n \div w + (IF n % w = 0 THEN 0 ELSE 1)

\* The input bytes of the jobs at these places, and their number.
InputBytes(jobs, places) == UNION {{i} \X (1..jobs[i].len) : i \in places}
Bytes(jobs, places) == Cardinality(InputBytes(jobs, places))
Chunks(jobs, size) == {{i \in DOMAIN jobs : (i - 1) \div size = c} : c \in 0..(Len(jobs) - 1) \div size}

\* Mutant: the balance of the bytes is not considered.
select_adaptive_CountsOnly(jobs, available) ==
    LET w == Smallest({available, AdaptiveMaxWorkers, Len(jobs)})
    IN  IF Len(jobs) < MinJobs \/ Bytes(jobs, DOMAIN jobs) < MinBytes \/ w < 2 THEN 0 ELSE w

\* The worker count of the native executor, 0 for the serial one.
select_adaptive(jobs, available) ==
    LET w == Smallest({available, AdaptiveMaxWorkers, Len(jobs)})
        total == Bytes(jobs, DOMAIN jobs)
    IN  IF Len(jobs) < MinJobs \/ total < MinBytes \/ w < 2 THEN 0
        ELSE IF \E c \in Chunks(jobs, static_chunk_size(Len(jobs), w)) :
                    Bytes(jobs, c) > (total \div 2) + (total % 2) THEN 0
        ELSE w

-----------------------------------------------------------------------------
(* Operations *)

ExecutionInit ==
    /\ parallelism \in Parallelisms
    /\ pool = 0 /\ call = {} /\ done = {}

\* The scheduler gives the process another number of processors, before a call or while it
\* is under way; nothing reads the number while a caller has its results.
ParallelismChanges ==
    /\ done = {}
    /\ parallelism' \in Parallelisms \ {parallelism}
    /\ UNCHANGED <<pool, call, done>>

\* The default executor is the adaptive one in builds with the feature.
Routed(executor) ==
    IF executor # "default" THEN executor ELSE IF ParallelFeature THEN "adaptive" ELSE "serial"

Call ==
    /\ call = {} /\ done = {}
    /\ \E executor \in Executors, jobs \in JobLists : call' = {[executor |-> executor, jobs |-> jobs]}
    /\ UNCHANGED <<parallelism, pool, done>>

\* The caller has used the results.
Forget ==
    /\ done # {} /\ done' = {}
    /\ UNCHANGED <<parallelism, pool, call>>

Return(c, route, chunk, result) ==
    /\ call' = {}
    /\ done' = {[call |-> c, route |-> route, chunk |-> chunk, result |-> result]}
    /\ UNCHANGED parallelism

ExecuteSerial ==
    /\ \E c \in call :
        /\ Routed(c.executor) = "serial"
        /\ Return(c, "serial", Len(c.jobs), SerialDigestExecutor(c.jobs))
    /\ UNCHANGED pool

ExecuteSimd ==
    /\ \E c \in call :
        /\ c.executor = "simd"
        /\ Return(c, "simd", Len(c.jobs), execute_simd_digest_jobs(c.jobs))
    /\ UNCHANGED pool

\* The threads of the pool in use: one that is built reads the processors of that moment,
\* which may not be those of the selection.
PoolInUse == IF pool # 0 THEN {pool} ELSE {Smallest({n, MaxParallelWorkers}) : n \in Parallelisms}

\* The native executor with w workers, each of which hashes its chunk with digest_of: the
\* pool is built on first use; without budget the caller hashes by itself; a worker that
\* panics, or a pool that cannot be built, is an error.
Native(c, w) ==
    IF Len(c.jobs) < 2 \/ w < 2
    THEN Return(c, "serial", Len(c.jobs), SerialDigestExecutor(c.jobs)) /\ UNCHANGED pool
    ELSE \/ /\ pool' \in PoolInUse
            /\ \/ Return(c, "serial", Len(c.jobs), SerialDigestExecutor(c.jobs))
               \/ \E result \in {SerialDigestExecutor(c.jobs), {}} :
                    Return(c, "native", static_chunk_size(Len(c.jobs), Smallest({w, pool', Len(c.jobs)})), result)
         \/ /\ pool = 0 /\ Return(c, "native", Len(c.jobs), {})
            /\ UNCHANGED pool

ExecuteNative ==
    \E c \in call : c.executor = "native" /\ Native(c, Smallest({parallelism, MaxParallelWorkers}))

ExecuteAdaptive ==
    \E c \in call :
        /\ Routed(c.executor) = "adaptive"
        /\ LET w == select_adaptive(c.jobs, parallelism)
           IN  IF w = 0
               THEN Return(c, "serial", Len(c.jobs), SerialDigestExecutor(c.jobs)) /\ UNCHANGED pool
               ELSE Native(c, Smallest({w, MaxParallelWorkers}))

ExecutionNext == ParallelismChanges \/ Call \/ Forget \/ ExecuteSerial \/ ExecuteSimd \/ ExecuteNative \/ ExecuteAdaptive

ExecutionSpec == ExecutionInit /\ [][ExecutionNext]_executionVars

-----------------------------------------------------------------------------
(* Properties *)

\* Results that an executor returns are those of the scalar oracle, in the order of the
\* jobs: lanes, groups, padding at the block boundaries and chunks change nothing; and
\* only native execution fails, so hash_many_same_block_count accepts every group of the
\* SIMD executor.
AgreesWithOracle ==
    \A d \in done : d.result = SerialDigestExecutor(d.call.jobs) \/ (d.result = {} /\ d.route = "native")

\* "... without any chunk holding more than half of the work" (AdaptiveDigestExecutor): of
\* a batch that the adaptive executor puts on the pool, no chunk as it is really cut has
\* more than half of the bytes, unless the pool is of a time with fewer processors than
\* the selection counted on, and there are never more chunks than pool threads.
NativeWorkIsShared ==
    \A d \in done :
        (d.route = "native" /\ Routed(d.call.executor) = "adaptive" /\ d.result # {}) =>
            LET chunks == Chunks(d.call.jobs, d.chunk)
            IN  /\ Cardinality(chunks) <= pool
                /\ (pool >= Smallest({parallelism, AdaptiveMaxWorkers})) =>
                      \A c \in chunks : 2 * Bytes(d.call.jobs, c) <= Bytes(d.call.jobs, DOMAIN d.call.jobs) + 1

\* The inductive invariant of the executors' results.
ResultsInv == AgreesWithOracle /\ \A c \in call : c.jobs \in Seq(DigestJob)

\* The inductive invariant of the work on the pool: a pool is no larger than the limit for
\* native workers, whichever number of processors it was built for.
WorkInv ==
    /\ parallelism \in Parallelisms /\ pool \in 0..MaxParallelWorkers
    /\ \A c \in call : c.jobs \in Seq(DigestJob)
    /\ NativeWorkIsShared
=============================================================================
