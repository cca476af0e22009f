----------------------------- MODULE DigestPool -----------------------------
(***************************************************************************)
(* The native digest executor of digest_executor.rs: threads that prepare  *)
(* credentials share one process-wide worker pool, created on first use    *)
(* behind a OnceLock and a mutex, and a budget of workers that is taken     *)
(* with a compare-and-swap.  A call that gets no budget hashes on its own  *)
(* thread; a panic of a worker is caught and becomes an error.             *)
(*                                                                         *)
(* A call is its number of jobs: a job is its index and its digest is what *)
(* the index stands for.                                                   *)
(***************************************************************************)
EXTENDS Integers, FiniteSets

CONSTANTS
    Callers,            \* threads that call execute
    NoCaller,           \* holder of a mutex that is free
    MaxParallelWorkers, \* MAX_PARALLEL_DIGEST_WORKERS
    Parallelism,        \* what available_parallelism() reports
    WorkerCounts,       \* worker counts that executors are created with
    JobCounts,          \* lengths of the job slices
    MaxCalls,           \* bound: calls per thread
    MaxFailures         \* bound: failures of the thread pool builder

ASSUME CallersAssumption == IsFiniteSet(Callers) /\ NoCaller \notin Callers
ASSUME WorkersAssumption ==
    /\ MaxParallelWorkers \in Nat \ {0} /\ Parallelism \in Nat \ {0}
    /\ WorkerCounts \subseteq Nat \ {0} /\ JobCounts \subseteq Nat
    /\ MaxCalls \in Nat /\ MaxFailures \in Nat

VARIABLES
    pool,          \* POOL: the number of threads of the pool, 0 while there is none
    built,         \* history: thread pools that were built
    failures,      \* failures of the thread pool builder so far
    lock,          \* INITIALIZATION_LOCK: its holder
    available,     \* budget.available
    pc,            \* where each caller is
    calls,         \* calls that each thread has made
    workers,       \* worker_count of the executor, then of the call
    jobs,          \* jobs.len()
    seen,          \* the budget that try_acquire observed last
    lease,         \* workers of the lease that the call holds
    todo, busy,    \* chunks that wait for a pool thread, and that run on one
    hashed,        \* jobs with a result
    panicked,      \* a worker of the call panicked
    outcome        \* what execute returned: "none", "ok", "error" or "unwind"

initVars == <<pool, built, failures, lock>>
callVars == <<calls, workers, jobs, outcome>>
runVars == <<todo, busy, hashed, panicked>>
vars == <<initVars, available, pc, callVars, seen, lease, runVars>>

Min2(m, n) == IF m <= n THEN m ELSE n

-----------------------------------------------------------------------------
(* Chunks *)

static_chunk_size(n, w) == n \div w + (IF n % w = 0 THEN 0 ELSE 1)

\* The chunks that par_chunks cuts n jobs into, each by the first of its jobs.
Chunks(n, w) == {i \in 1..n : (i - 1) % static_chunk_size(n, w) = 0}
JobsOf(first, n, w) == first..Min2(first + static_chunk_size(n, w) - 1, n)

-----------------------------------------------------------------------------
(* Calls *)

Init ==
    /\ pool = 0 /\ built = 0 /\ failures = 0 /\ lock = NoCaller /\ available = 0
    /\ pc = [c \in Callers |-> "idle"]
    /\ calls = [c \in Callers |-> 0]
    /\ workers = [c \in Callers |-> 1]
    /\ jobs = [c \in Callers |-> 0]
    /\ seen = [c \in Callers |-> 0]
    /\ lease = [c \in Callers |-> 0]
    /\ todo = [c \in Callers |-> {}]
    /\ busy = [c \in Callers |-> {}]
    /\ hashed = [c \in Callers |-> {}]
    /\ panicked = [c \in Callers |-> FALSE]
    /\ outcome = [c \in Callers |-> "none"]

Goto(c, place) == pc' = [pc EXCEPT ![c] = place]
Return(c, result) ==
    /\ Goto(c, "idle")
    /\ outcome' = [outcome EXCEPT ![c] = result]

\* The worker count that NativeParallelDigestExecutor::new keeps.
NativeParallelDigestExecutor(w) == Min2(w, MaxParallelWorkers)

\* NativeParallelDigestExecutor::new(w).execute(jobs) with n jobs
Execute(c) ==
    /\ pc[c] = "idle" /\ calls[c] < MaxCalls
    /\ calls' = [calls EXCEPT ![c] = @ + 1]
    /\ \E w \in WorkerCounts, n \in JobCounts :
        LET bound == NativeParallelDigestExecutor(w)
        IN  /\ workers' = [workers EXCEPT ![c] = bound]
            /\ jobs' = [jobs EXCEPT ![c] = n]
            /\ Goto(c, IF n < 2 \/ bound < 2 THEN "serial" ELSE "get")
    /\ outcome' = [outcome EXCEPT ![c] = "none"]
    /\ hashed' = [hashed EXCEPT ![c] = {}]
    /\ panicked' = [panicked EXCEPT ![c] = FALSE]
    /\ UNCHANGED <<initVars, available, seen, lease, todo, busy>>

\* The scalar oracle on the caller's thread; nothing catches a panic here.
Serial(c) ==
    /\ pc[c] = "serial"
    /\ \/ /\ hashed' = [hashed EXCEPT ![c] = 1..jobs[c]]
          /\ Return(c, "ok")
       \/ Return(c, "unwind") /\ UNCHANGED hashed
    /\ UNCHANGED <<initVars, available, calls, workers, jobs, seen, lease, todo, busy, panicked>>

-----------------------------------------------------------------------------
(* get_or_initialize_native_digest_pool *)

GetPool(c) ==
    /\ pc[c] = "get"
    /\ Goto(c, IF pool # 0 THEN "load" ELSE "lock")
    /\ UNCHANGED <<initVars, available, callVars, seen, lease, runVars>>

\* A mutex that a panic poisoned is taken all the same.
LockInit(c) ==
    /\ pc[c] = "lock" /\ lock = NoCaller
    /\ lock' = c
    /\ Goto(c, "recheck")
    /\ UNCHANGED <<pool, built, failures, available, callVars, seen, lease, runVars>>

\* Mutant: the pool is not looked up again under the lock.
RecheckPool_Skipped(c) ==
    /\ pc[c] = "recheck"
    /\ Goto(c, "build")
    /\ UNCHANGED <<initVars, available, callVars, seen, lease, runVars>>

RecheckPool(c) ==
    /\ pc[c] = "recheck"
    /\ Goto(c, IF pool # 0 THEN "unlock" ELSE "build")
    /\ UNCHANGED <<initVars, available, callVars, seen, lease, runVars>>

\* The pool that native_digest_pool asks for.
PoolThreads == Min2(Parallelism, MaxParallelWorkers)

\* NativeDigestPool::new and OnceLock::set, which keeps the first value.
BuildPool(c) ==
    /\ pc[c] = "build"
    /\ built' = built + 1
    /\ pool' = IF pool = 0 THEN PoolThreads ELSE pool
    /\ available' = IF pool = 0 THEN PoolThreads ELSE available
    /\ Goto(c, "unlock")
    /\ UNCHANGED <<failures, lock, callVars, seen, lease, runVars>>

\* Mutant: the early return of a failed initialisation keeps the lock.
FailBuild_KeepsLock(c) ==
    /\ pc[c] = "build" /\ failures < MaxFailures
    /\ failures' = failures + 1
    /\ Return(c, "error")
    /\ UNCHANGED <<pool, built, lock, available, calls, workers, jobs, seen, lease, runVars>>

\* The builder fails: the guard is dropped, the slot stays empty and the call is
\* an error.
FailBuild(c) ==
    /\ pc[c] = "build" /\ failures < MaxFailures
    /\ failures' = failures + 1
    /\ lock' = NoCaller
    /\ Return(c, "error")
    /\ UNCHANGED <<pool, built, available, calls, workers, jobs, seen, lease, runVars>>

UnlockInit(c) ==
    /\ pc[c] = "unlock"
    /\ lock' = NoCaller
    /\ Goto(c, "load")
    /\ UNCHANGED <<pool, built, failures, available, callVars, seen, lease, runVars>>

-----------------------------------------------------------------------------
(* ParallelDigestWorkerBudget::try_acquire *)

\* The bounds of the call, and the first load of the budget.
LoadBudget(c) ==
    LET w == Min2(Min2(workers[c], pool), jobs[c])
    IN  /\ pc[c] = "load"
        /\ workers' = [workers EXCEPT ![c] = w]
        /\ IF w < 2
           THEN Goto(c, "serial") /\ UNCHANGED seen
           ELSE Goto(c, "swap") /\ seen' = [seen EXCEPT ![c] = available]
        /\ UNCHANGED <<initVars, available, calls, jobs, outcome, lease, runVars>>

Admit(c) ==
    /\ lease' = [lease EXCEPT ![c] = workers[c]]
    /\ todo' = [todo EXCEPT ![c] = Chunks(jobs[c], workers[c])]
    /\ Goto(c, "run")

\* Mutant: a plain store in place of the compare-and-swap.
SwapBudget_Store(c) ==
    /\ pc[c] = "swap"
    /\ \/ /\ seen[c] < workers[c]
          /\ Goto(c, "serial")
          /\ UNCHANGED <<available, seen, lease, todo>>
       \/ /\ seen[c] >= workers[c]
          /\ available' = seen[c] - workers[c]
          /\ Admit(c)
          /\ UNCHANGED seen
    /\ UNCHANGED <<initVars, callVars, busy, hashed, panicked>>

\* Mutant: a call that finds too little budget looks again until there is enough.
SwapBudget_Waits(c) ==
    /\ pc[c] = "swap"
    /\ \/ /\ seen[c] >= workers[c] /\ available = seen[c]
          /\ available' = available - workers[c]
          /\ Admit(c)
          /\ UNCHANGED seen
       \/ /\ seen[c] < workers[c] \/ available # seen[c]
          /\ seen' = [seen EXCEPT ![c] = available]
          /\ UNCHANGED <<available, pc, lease, todo>>
    /\ UNCHANGED <<initVars, callVars, busy, hashed, panicked>>

\* One turn of the loop: give up, take the workers, or observe the budget anew.
\* A spurious failure of compare_exchange_weak changes nothing.
SwapBudget(c) ==
    /\ pc[c] = "swap"
    /\ \/ /\ seen[c] < workers[c]
          /\ Goto(c, "serial")
          /\ UNCHANGED <<available, seen, lease, todo>>
       \/ /\ seen[c] >= workers[c] /\ available = seen[c]
          /\ available' = available - workers[c]
          /\ Admit(c)
          /\ UNCHANGED seen
       \/ /\ seen[c] >= workers[c] /\ available # seen[c]
          /\ seen' = [seen EXCEPT ![c] = available]
          /\ UNCHANGED <<available, pc, lease, todo>>
    /\ UNCHANGED <<initVars, callVars, busy, hashed, panicked>>

-----------------------------------------------------------------------------
(* execute_with_pool *)

\* A free pool thread takes a chunk.
StartChunk(c) ==
    /\ Cardinality(UNION {{d} \X busy[d] : d \in Callers}) < pool
    /\ \E k \in todo[c] : /\ todo' = [todo EXCEPT ![c] = @ \ {k}]
                          /\ busy' = [busy EXCEPT ![c] = @ \cup {k}]
    /\ UNCHANGED <<initVars, available, pc, callVars, seen, lease, hashed, panicked>>

\* The chunk ends, with the results of its jobs or with a panic.
EndChunk(c) ==
    \E k \in busy[c] :
        /\ busy' = [busy EXCEPT ![c] = @ \ {k}]
        /\ \/ /\ hashed' = [hashed EXCEPT ![c] = @ \cup JobsOf(k, jobs[c], workers[c])]
              /\ UNCHANGED panicked
           \/ /\ panicked' = [panicked EXCEPT ![c] = TRUE]
              /\ UNCHANGED hashed
        /\ UNCHANGED <<initVars, available, pc, callVars, seen, lease, todo>>

\* Mutant: what the other workers have finished is returned.
Quiesce_Partial(c) ==
    /\ pc[c] = "run" /\ todo[c] = {} /\ busy[c] = {}
    /\ Goto(c, "release")
    /\ outcome' = [outcome EXCEPT ![c] = "ok"]
    /\ UNCHANGED <<initVars, available, calls, workers, jobs, seen, lease, runVars>>

\* install returns when every chunk has ended; catch_unwind turns a panic into
\* an error, and so does a wrong number of results.
Quiesce(c) ==
    /\ pc[c] = "run" /\ todo[c] = {} /\ busy[c] = {}
    /\ Goto(c, "release")
    /\ outcome' = [outcome EXCEPT ![c] =
            IF ~panicked[c] /\ Cardinality(hashed[c]) = jobs[c] THEN "ok" ELSE "error"]
    /\ UNCHANGED <<initVars, available, calls, workers, jobs, seen, lease, runVars>>

\* drop(lease)
Release(c) ==
    /\ pc[c] = "release"
    /\ available' = available + lease[c]
    /\ lease' = [lease EXCEPT ![c] = 0]
    /\ Goto(c, "idle")
    /\ UNCHANGED <<initVars, callVars, seen, runVars>>

-----------------------------------------------------------------------------
\* What a thread that entered execute does by itself.
CallerStep(c) ==
    \/ Serial(c) \/ GetPool(c) \/ LockInit(c) \/ RecheckPool(c) \/ BuildPool(c)
    \/ FailBuild(c) \/ UnlockInit(c) \/ LoadBudget(c) \/ SwapBudget(c)
    \/ Quiesce(c) \/ Release(c)

ThreadStep(c) == StartChunk(c) \/ EndChunk(c)

Next == \E c \in Callers : Execute(c) \/ CallerStep(c) \/ ThreadStep(c)

\* Threads that entered execute are scheduled; nothing makes a thread call execute, and
\* the pool threads may stall for ever.
PoolSpec == /\ Init /\ [][Next]_vars
            /\ \A c \in Callers : WF_vars(CallerStep(c))

\* The pool threads are scheduled as well.
PoolFairness == \A c \in Callers : WF_vars(ThreadStep(c))

-----------------------------------------------------------------------------
(* Properties *)

Places == {"idle", "serial", "get", "lock", "recheck", "build", "unlock", "load",
           "swap", "run", "release"}

\* Types; the budget is never negative and never larger than the pool.
PoolTypeOK ==
    /\ pool \in 0..MaxParallelWorkers /\ lock \in Callers \cup {NoCaller}
    /\ available \in 0..pool
    /\ pc \in [Callers -> Places]
    /\ lease \in [Callers -> 0..MaxParallelWorkers]

\* The workers that the calls hold, one by one.
Tokens(held) == {x \in Callers \X (1..MaxParallelWorkers) : x[2] <= held[x[1]]}

\* No worker of the budget is lost or handed out twice, whatever calls overlap,
\* fail or panic: what is available and what is leased make up the pool.
BudgetConserved == available + Cardinality(Tokens(lease)) = pool

\* The process builds one pool, although several threads can find none.
PoolBuiltOnce == built <= 1

\* execute returns Ok with a result for every job, or it does not return Ok: the
\* results of the siblings of a panic are not passed off as a complete set.
OkIsComplete == \A c \in Callers : outcome[c] = "ok" => hashed[c] = 1..jobs[c]

\* Every call returns if the pool threads are scheduled: with a pool that failed to
\* start, under contention and after panics.
CallsReturn == PoolFairness => \A c \in Callers : pc[c] # "idle" ~> pc[c] = "idle"

\* Getting workers never waits for the work of another call: without any progress
\* of the pool threads a call is admitted or returns.
NeverWaitsForWorkers == \A c \in Callers : pc[c] = "load" ~> pc[c] \in {"run", "idle"}

-----------------------------------------------------------------------------
(***************************************************************************)
(* The inductive invariant: the lock protects the slot, and only a call    *)
(* between its compare-and-swap and its release holds workers.             *)
(***************************************************************************)
HoldsLock(c) == pc[c] \in {"recheck", "build", "unlock"}
HoldsLease(c) == pc[c] \in {"run", "release"}

PoolInv ==
    /\ pool \in 0..MaxParallelWorkers /\ available \in Nat
    /\ lock \in Callers \cup {NoCaller}
    /\ pc \in [Callers -> Places]
    /\ workers \in [Callers -> Nat] /\ jobs \in [Callers -> Nat]
    /\ seen \in [Callers -> Nat]
    /\ lease \in [Callers -> 0..MaxParallelWorkers]
    /\ built = IF pool = 0 THEN 0 ELSE 1
    /\ \A c \in Callers : HoldsLock(c) <=> lock = c
    /\ \A c \in Callers : pc[c] = "build" => pool = 0
    /\ \A c \in Callers : ~HoldsLease(c) => lease[c] = 0
    /\ \A c \in Callers : pc[c] = "swap" => workers[c] <= pool
    /\ BudgetConserved

(***************************************************************************)
(* The invariant of the results: pool threads work for admitted calls only *)
(* and a result belongs to a job of the call that is under way, so nothing *)
(* is left over when the same thread calls execute with other jobs.        *)
(***************************************************************************)
CallInv ==
    /\ todo \in [Callers -> SUBSET Nat] /\ busy \in [Callers -> SUBSET Nat]
    /\ hashed \in [Callers -> SUBSET Nat]
    /\ outcome \in [Callers -> {"none", "ok", "error", "unwind"}]
    /\ \A c \in Callers : pc[c] \in {"swap", "run"} => workers[c] >= 2
    /\ \A c \in Callers : pc[c] # "run" => todo[c] = {} /\ busy[c] = {}
    /\ \A c \in Callers : todo[c] \cup busy[c] \cup hashed[c] \subseteq 1..jobs[c]
    /\ OkIsComplete
=============================================================================
