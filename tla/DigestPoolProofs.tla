-------------------------- MODULE DigestPoolProofs --------------------------
(***************************************************************************)
(* The worker budget for every number of threads, calls and workers.       *)
(***************************************************************************)
EXTENDS DigestPool, FiniteSetTheorems, TLAPS

-----------------------------------------------------------------------------
(* Counting workers *)

\* The workers that calls hold are finitely many.
LEMMA TokensCounted ==
    ASSUME NEW held
    PROVE  IsFiniteSet(Tokens(held)) /\ Cardinality(Tokens(held)) \in Nat
<1>1. IsFiniteSet(Callers) /\ 1 \in Int /\ MaxParallelWorkers \in Int
  BY CallersAssumption, WorkersAssumption
<1>2. IsFiniteSet(1..MaxParallelWorkers)
  BY <1>1, FS_Interval
<1>3. IsFiniteSet(Callers \X (1..MaxParallelWorkers))
  BY <1>1, <1>2, FS_Product
<1>4. Tokens(held) \subseteq Callers \X (1..MaxParallelWorkers)
  BY DEF Tokens
<1>5. IsFiniteSet(Tokens(held))
  BY <1>3, <1>4, FS_Subset
<1> QED
  BY <1>5, FS_CardinalityType

\* A lease of w workers adds w tokens to the ones that the other calls hold.
LEMMA LeaseTokens ==
    ASSUME NEW held \in [Callers -> 0..MaxParallelWorkers], NEW c \in Callers,
           held[c] = 0, NEW w \in 0..MaxParallelWorkers
    PROVE  /\ Cardinality(Tokens(held)) \in Nat
           /\ Cardinality(Tokens([held EXCEPT ![c] = w])) = Cardinality(Tokens(held)) + w
<1> DEFINE new == {c} \X (1..w)
<1>1. IsFiniteSet(Callers) /\ MaxParallelWorkers \in Nat
  BY CallersAssumption, WorkersAssumption
<1>2. IsFiniteSet(1..w) /\ Cardinality(1..w) = w
  <2>1. 1 \in Int /\ w \in Int /\ w \in Nat
    BY <1>1
  <2>2. IsFiniteSet(1..w)
    BY <2>1, FS_Interval
  <2>3. Cardinality(1..w) = IF 1 > w THEN 0 ELSE w - 1 + 1
    BY <2>1, FS_Interval
  <2> QED
    BY <2>1, <2>2, <2>3
<1>3. IsFiniteSet({c}) /\ Cardinality({c}) = 1
  BY FS_Singleton
<1>4. IsFiniteSet(new) /\ Cardinality(new) = w
  <2>1. IsFiniteSet(new) /\ Cardinality(new) = Cardinality({c}) * Cardinality(1..w)
    BY <1>2, <1>3, FS_Product
  <2> QED
    BY <1>1, <1>2, <1>3, <2>1
<1>5. IsFiniteSet(Tokens(held)) /\ Cardinality(Tokens(held)) \in Nat
  BY TokensCounted
<1>6. Tokens([held EXCEPT ![c] = w]) = Tokens(held) \cup new
  BY <1>1 DEF Tokens
<1>7. Tokens(held) \cap new = {}
  BY <1>1 DEF Tokens
<1>9. Cardinality(Tokens(held) \cap new) = 0
  BY <1>7, FS_EmptySet
<1>10. Cardinality(Tokens(held) \cup new) =
         Cardinality(Tokens(held)) + Cardinality(new) - Cardinality(Tokens(held) \cap new)
  BY <1>4, <1>5, FS_Union
<1>11. Cardinality(Tokens([held EXCEPT ![c] = w])) =
         Cardinality(Tokens(held)) + Cardinality(new) - Cardinality(Tokens(held) \cap new)
  BY <1>6, <1>10, Zenon
<1> HIDE DEF new
<1>12. PICK k : k = Cardinality(Tokens(held))
  OBVIOUS
<1>13. k + w - 0 = k + w
  BY <1>1, <1>5, <1>12
<1> QED
  BY <1>4, <1>5, <1>9, <1>11, <1>12, <1>13

\* What the budget law is made of: a state with the same budget, leases and pool
\* satisfies it too.
LEMMA BudgetUnchanged ==
    ASSUME BudgetConserved, UNCHANGED <<pool, available, lease>>
    PROVE  BudgetConserved'
BY DEF BudgetConserved, Tokens

-----------------------------------------------------------------------------
(* The invariant *)

\* The budget and the lock start in agreement: no pool, no workers, no holder.
LEMMA InitPoolInv == Init => PoolInv
<1> SUFFICES ASSUME Init PROVE PoolInv
  OBVIOUS
<1> USE CallersAssumption, WorkersAssumption
<1>1. BudgetConserved
  <2>1. Tokens(lease) = {}
    BY DEF Init, Tokens
  <2> QED
    BY <2>1, FS_EmptySet DEF Init, BudgetConserved
<1> QED
  BY <1>1 DEF Init, PoolInv, Places, HoldsLock, HoldsLease

\* Calls that enter, hash alone, look the pool up or queue for the mutex.
LEMMA EntryKeepsInv ==
    ASSUME PoolInv, NEW c \in Callers,
           Execute(c) \/ Serial(c) \/ GetPool(c) \/ LockInit(c)
    PROVE  PoolInv'
<1> USE CallersAssumption, WorkersAssumption DEF PoolInv, HoldsLock, HoldsLease, Places
<1>1. BudgetConserved'
  BY BudgetUnchanged DEF Execute, Serial, GetPool, LockInit, Return, initVars
<1>2. CASE Execute(c)
  BY <1>1, <1>2 DEF Execute, Goto, initVars, NativeParallelDigestExecutor, Min2
<1>3. CASE Serial(c)
  BY <1>1, <1>3 DEF Serial, Goto, Return, initVars
<1>4. CASE GetPool(c)
  BY <1>1, <1>4 DEF GetPool, Goto, initVars, callVars
<1>5. CASE LockInit(c)
  BY <1>1, <1>5 DEF LockInit, Goto, callVars
<1> QED
  BY <1>2, <1>3, <1>4, <1>5

\* The holder of the mutex: whoever builds found no pool, and nobody else can have
\* built one since.
LEMMA InitializationKeepsInv ==
    ASSUME PoolInv, NEW c \in Callers,
           RecheckPool(c) \/ BuildPool(c) \/ FailBuild(c) \/ UnlockInit(c)
    PROVE  PoolInv'
<1> USE CallersAssumption, WorkersAssumption DEF PoolInv, HoldsLock, HoldsLease, Places
<1>1. CASE RecheckPool(c)
  <2>1. BudgetConserved'
    BY <1>1, BudgetUnchanged DEF RecheckPool, initVars
  <2> QED
    BY <1>1, <2>1 DEF RecheckPool, Goto, initVars, callVars
<1>2. CASE BuildPool(c)
  <2>1. PICK threads : threads = PoolThreads
    OBVIOUS
  <2>2. threads \in 1..MaxParallelWorkers
    BY <2>1 DEF PoolThreads, Min2
  <2>3. pool = 0 /\ built = 0
    BY <1>2 DEF BuildPool
  <2>4. pool' = threads /\ available' = threads /\ built' = 1
    BY <1>2, <2>1, <2>3 DEF BuildPool
  <2>5. Cardinality(Tokens(lease)) \in Nat
    BY TokensCounted
  <2>6. Cardinality(Tokens(lease)) = 0
    BY <2>3, <2>5 DEF BudgetConserved
  <2>7. Cardinality(Tokens(lease))' = 0
    BY <1>2, <2>6 DEF BuildPool, Tokens
  <2>8. BudgetConserved'
    BY <2>2, <2>4, <2>7 DEF BudgetConserved
  <2> QED
    BY <1>2, <2>2, <2>3, <2>4, <2>8 DEF BuildPool, Goto, callVars
<1>3. CASE FailBuild(c)
  <2>1. BudgetConserved'
    BY <1>3, BudgetUnchanged DEF FailBuild
  <2> QED
    BY <1>3, <2>1 DEF FailBuild, Goto, Return
<1>4. CASE UnlockInit(c)
  <2>1. BudgetConserved'
    BY <1>4, BudgetUnchanged DEF UnlockInit
  <2> QED
    BY <1>4, <2>1 DEF UnlockInit, Goto, callVars
<1> QED
  BY <1>1, <1>2, <1>3, <1>4

\* try_acquire: the compare-and-swap takes from the budget what the lease holds.
LEMMA AcquisitionKeepsInv ==
    ASSUME PoolInv, NEW c \in Callers, LoadBudget(c) \/ SwapBudget(c)
    PROVE  PoolInv'
<1> USE CallersAssumption, WorkersAssumption DEF PoolInv, HoldsLock, HoldsLease, Places
<1>1. CASE LoadBudget(c)
  <2>1. BudgetConserved'
    BY <1>1, BudgetUnchanged DEF LoadBudget, initVars
  <2>2. PICK w : w = Min2(Min2(workers[c], pool), jobs[c])
    OBVIOUS
  <2>3. w \in Nat /\ w <= pool
    BY <2>2 DEF Min2
  <2> QED
    BY <1>1, <2>1, <2>2, <2>3 DEF LoadBudget, Goto, initVars
<1>2. CASE SwapBudget(c)
  <2>1. CASE /\ \/ Goto(c, "serial") /\ UNCHANGED seen
                \/ seen' = [seen EXCEPT ![c] = available] /\ UNCHANGED pc
             /\ UNCHANGED <<available, lease, todo>>
    <3>1. UNCHANGED <<initVars, callVars>>
      BY <1>2 DEF SwapBudget
    <3>2. BudgetConserved'
      BY <2>1, <3>1, BudgetUnchanged DEF initVars
    <3>3. pc[c] = "swap"
      BY <1>2 DEF SwapBudget
    <3> QED
      BY <2>1, <3>1, <3>2, <3>3 DEF Goto, initVars, callVars
  <2>2. CASE /\ seen[c] >= workers[c] /\ available = seen[c]
             /\ available' = available - workers[c] /\ Admit(c)
             /\ UNCHANGED seen
    <3>1. /\ lease[c] = 0 /\ workers[c] \in 0..MaxParallelWorkers
          /\ lease' = [lease EXCEPT ![c] = workers[c]]
      BY <1>2, <2>2 DEF SwapBudget, Admit
    <3>2. /\ Cardinality(Tokens(lease)) \in Nat
          /\ Cardinality(Tokens([lease EXCEPT ![c] = workers[c]])) =
                Cardinality(Tokens(lease)) + workers[c]
      BY <3>1, LeaseTokens
    <3>3. Cardinality(Tokens(lease))' = Cardinality(Tokens([lease EXCEPT ![c] = workers[c]]))
      BY <3>1 DEF Tokens
    <3>4. PICK k : k = Cardinality(Tokens(lease))
      OBVIOUS
    <3>5. Cardinality(Tokens(lease))' = k + workers[c] /\ k \in Nat /\ available + k = pool
      BY <3>2, <3>3, <3>4 DEF BudgetConserved
    <3>6. pool' = pool
      BY <1>2 DEF SwapBudget, initVars
    <3>7. BudgetConserved'
      BY <2>2, <3>1, <3>5, <3>6 DEF BudgetConserved
    <3> QED
      BY <1>2, <2>2, <3>1, <3>7 DEF SwapBudget, Admit, Goto, initVars, callVars
  <2> QED
    BY <1>2, <2>1, <2>2 DEF SwapBudget
<1> QED
  BY <1>1, <1>2

\* Admitted calls: chunks start and end, the call quiesces, and dropping the lease
\* returns exactly what was taken.
LEMMA ExecutionKeepsInv ==
    ASSUME PoolInv, NEW c \in Callers,
           StartChunk(c) \/ EndChunk(c) \/ Quiesce(c) \/ Release(c)
    PROVE  PoolInv'
<1> USE CallersAssumption, WorkersAssumption DEF PoolInv, HoldsLock, HoldsLease, Places
<1>1. CASE StartChunk(c) \/ EndChunk(c)
  <2>1. UNCHANGED <<initVars, available, pc, callVars, seen, lease>>
    BY <1>1 DEF StartChunk, EndChunk
  <2>2. BudgetConserved'
    BY <2>1, BudgetUnchanged DEF initVars
  <2> QED
    BY <2>1, <2>2 DEF initVars, callVars
<1>2. CASE Quiesce(c)
  <2>1. BudgetConserved'
    BY <1>2, BudgetUnchanged DEF Quiesce, initVars
  <2> QED
    BY <1>2, <2>1 DEF Quiesce, Goto, initVars
<1>3. CASE Release(c)
  <2>1. PICK free : free = [lease EXCEPT ![c] = 0]
    OBVIOUS
  <2>2. PICK w : w = lease[c]
    OBVIOUS
  <2>3. /\ free \in [Callers -> 0..MaxParallelWorkers] /\ free[c] = 0
        /\ w \in 0..MaxParallelWorkers /\ [free EXCEPT ![c] = w] = lease
        /\ lease' = free
    <3>1. lease \in [Callers -> 0..MaxParallelWorkers] /\ 0 \in 0..MaxParallelWorkers
      OBVIOUS
    <3>2. lease' = free
      BY <1>3, <2>1 DEF Release
    <3> HIDE DEF PoolInv
    <3>3. free \in [Callers -> 0..MaxParallelWorkers] /\ free[c] = 0
      BY <2>1, <3>1
    <3>4. w \in 0..MaxParallelWorkers
      BY <2>2, <3>1
    <3>5. [free EXCEPT ![c] = w] = lease
      BY <2>1, <2>2, <3>1
    <3> QED
      BY <3>2, <3>3, <3>4, <3>5
  <2>4. /\ Cardinality(Tokens(free)) \in Nat
        /\ Cardinality(Tokens([free EXCEPT ![c] = w])) = Cardinality(Tokens(free)) + w
    BY <2>3, LeaseTokens
  <2>5. Cardinality(Tokens(lease))' = Cardinality(Tokens(free))
    BY <2>3 DEF Tokens
  <2>6. available' = available + w /\ pool' = pool
    BY <1>3, <2>2 DEF Release, initVars
  <2>7. Cardinality(Tokens(lease)) = Cardinality(Tokens(free)) + w
    BY <2>3, <2>4
  <2>8. PICK k : k = Cardinality(Tokens(free))
    OBVIOUS
  <2>9. k \in Nat /\ available + (k + w) = pool /\ Cardinality(Tokens(lease))' = k
    BY <2>4, <2>5, <2>7, <2>8 DEF BudgetConserved
  <2>10. BudgetConserved'
    BY <2>3, <2>6, <2>9 DEF BudgetConserved
  <2> QED
    BY <1>3, <2>3, <2>6, <2>10 DEF Release, Goto, initVars, callVars
<1> QED
  BY <1>1, <1>2, <1>3

\* The invariant holds in every state the executor reaches: the mutex has one
\* holder, who alone may fill the slot, and only admitted calls hold workers.
THEOREM PoolInductive == PoolSpec => []PoolInv
<1>1. ASSUME PoolInv, [Next]_vars PROVE PoolInv'
  <2>1. CASE UNCHANGED vars
    <3>1. BudgetConserved'
      BY <1>1, <2>1, BudgetUnchanged DEF PoolInv, vars, initVars
    <3> QED
      BY <1>1, <2>1, <3>1 DEF PoolInv, HoldsLock, HoldsLease, vars, initVars, callVars
  <2>2. ASSUME NEW c \in Callers, Execute(c) \/ CallerStep(c) \/ ThreadStep(c)
        PROVE  PoolInv'
    BY <1>1, <2>2, EntryKeepsInv, InitializationKeepsInv, AcquisitionKeepsInv,
       ExecutionKeepsInv DEF CallerStep, ThreadStep
  <2> QED
    BY <1>1, <2>1, <2>2 DEF Next
<1> QED
  BY <1>1, InitPoolInv, PTL DEF PoolSpec

-----------------------------------------------------------------------------
(* What callers rely on *)

\* Whatever calls overlap, fail or panic, the budget that is available and the
\* workers of all leases make up the pool.
THEOREM BudgetNeverDrifts == PoolSpec => []BudgetConserved
<1>1. PoolInv => BudgetConserved
  BY DEF PoolInv
<1> QED
  BY <1>1, PoolInductive, PTL

\* The double-checked initialisation builds one thread pool, for any number of
\* threads that race to be the first.
THEOREM OnePool == PoolSpec => []PoolBuiltOnce
<1>1. PoolInv => PoolBuiltOnce
  BY DEF PoolInv, PoolBuiltOnce
<1> QED
  BY <1>1, PoolInductive, PTL

\* The budget stays between zero and the size of the pool, so the subtraction of
\* try_acquire cannot wrap around and the release cannot exceed the capacity.
THEOREM PoolTypeCorrect == PoolSpec => []PoolTypeOK
<1>1. PoolInv => PoolTypeOK
  <2> SUFFICES ASSUME PoolInv PROVE PoolTypeOK
    OBVIOUS
  <2>1. Cardinality(Tokens(lease)) \in Nat
    BY TokensCounted
  <2>2. PICK k : k = Cardinality(Tokens(lease))
    OBVIOUS
  <2>3. k \in Nat /\ available + k = pool /\ available \in Nat /\ pool \in Nat
    BY <2>1, <2>2, WorkersAssumption DEF PoolInv, BudgetConserved
  <2>4. available \in 0..pool
    BY <2>3
  <2> QED
    BY <2>4 DEF PoolInv, PoolTypeOK
<1> QED
  BY <1>1, PoolInductive, PTL

-----------------------------------------------------------------------------
(* The results of a call *)

\* A chunk holds jobs of its call only.
LEMMA JobsInRange ==
    ASSUME NEW n \in Nat, NEW w \in Nat, w >= 2, NEW k \in 1..n
    PROVE  JobsOf(k, n, w) \subseteq 1..n
<1>1. PICK m : m = k + static_chunk_size(n, w) - 1
  OBVIOUS
<1>2. m \in Int
  BY <1>1 DEF static_chunk_size
<1>3. JobsOf(k, n, w) = k..(IF m <= n THEN m ELSE n)
  BY <1>1 DEF JobsOf, Min2
<1> QED
  BY <1>2, <1>3

\* As many results as jobs, all of them for jobs of the call, are all the results.
LEMMA CountedIsComplete ==
    ASSUME NEW n \in Nat, NEW R \in SUBSET (1..n), Cardinality(R) = n
    PROVE  R = 1..n
<1>1. 1 \in Int /\ n \in Int
  OBVIOUS
<1>2. IsFiniteSet(1..n)
  BY <1>1, FS_Interval
<1>3. Cardinality(1..n) = IF 1 > n THEN 0 ELSE n - 1 + 1
  BY <1>1, FS_Interval
<1>4. Cardinality(1..n) = n
  BY <1>3
<1> QED
  BY <1>2, <1>4, FS_Subset

\* A step that gives call c this place, worker count, job count, chunks, results and
\* outcome, and touches no other call.
Becomes(c, place, w, n, T, B, H, r) ==
    /\ pc' = [pc EXCEPT ![c] = place] /\ workers' = [workers EXCEPT ![c] = w]
    /\ jobs' = [jobs EXCEPT ![c] = n] /\ todo' = [todo EXCEPT ![c] = T]
    /\ busy' = [busy EXCEPT ![c] = B] /\ hashed' = [hashed EXCEPT ![c] = H]
    /\ outcome' = [outcome EXCEPT ![c] = r]

\* What the invariant asks of one call.
Sound(place, w, n, T, B, H, r) ==
    /\ w \in Nat /\ n \in Nat /\ r \in {"none", "ok", "error", "unwind"}
    /\ place \in {"swap", "run"} => w >= 2
    /\ place # "run" => T = {} /\ B = {}
    /\ T \subseteq 1..n /\ B \subseteq 1..n /\ H \subseteq 1..n
    /\ r = "ok" => H = 1..n

\* Such a step keeps the invariant when what it gives the call satisfies it.
LEMMA CallStep ==
    ASSUME PoolInv, CallInv, NEW c \in Callers,
           NEW place, NEW w, NEW n, NEW T, NEW B, NEW H, NEW r,
           Becomes(c, place, w, n, T, B, H, r), Sound(place, w, n, T, B, H, r)
    PROVE  CallInv'
<1> USE DEF PoolInv, CallInv, OkIsComplete, Becomes, Sound
<1>1. 1..n \subseteq Nat
  OBVIOUS
<1>2. /\ todo' \in [Callers -> SUBSET Nat] /\ busy' \in [Callers -> SUBSET Nat]
      /\ hashed' \in [Callers -> SUBSET Nat]
      /\ outcome' \in [Callers -> {"none", "ok", "error", "unwind"}]
  BY <1>1
<1>3. ASSUME NEW d \in Callers
      PROVE  /\ pc'[d] \in {"swap", "run"} => workers'[d] >= 2
             /\ pc'[d] # "run" => todo'[d] = {} /\ busy'[d] = {}
             /\ todo'[d] \cup busy'[d] \cup hashed'[d] \subseteq 1..(jobs'[d])
             /\ outcome'[d] = "ok" => hashed'[d] = 1..(jobs'[d])
  <2>1. CASE d = c
    BY <2>1
  <2>2. CASE d # c
    BY <2>2
  <2> QED
    BY <2>1, <2>2
<1> QED
  BY <1>2, <1>3

\* What the invariants say of one call, with its state written as the update that
\* leaves it alone.
CallOf(c) ==
    /\ Sound(pc[c], workers[c], jobs[c], todo[c], busy[c], hashed[c], outcome[c])
    /\ pc = [pc EXCEPT ![c] = pc[c]] /\ workers = [workers EXCEPT ![c] = workers[c]]
    /\ jobs = [jobs EXCEPT ![c] = jobs[c]] /\ todo = [todo EXCEPT ![c] = todo[c]]
    /\ busy = [busy EXCEPT ![c] = busy[c]] /\ hashed = [hashed EXCEPT ![c] = hashed[c]]
    /\ outcome = [outcome EXCEPT ![c] = outcome[c]]

\* The invariants, read for one call.
LEMMA CallOfCaller ==
    ASSUME PoolInv, CallInv, NEW c \in Callers
    PROVE  CallOf(c)
BY DEF PoolInv, CallInv, OkIsComplete, CallOf, Sound

\* Calls that enter or hash alone: a new call starts with no result and nothing of
\* an earlier call on the pool threads.
LEMMA EntryKeepsResults ==
    ASSUME PoolInv, CallInv, NEW c \in Callers, Execute(c) \/ Serial(c)
    PROVE  CallInv'
<1>0. CallOf(c)
  BY CallOfCaller
<1>1. CASE Execute(c)
  <2>1. PICK w \in WorkerCounts, n \in JobCounts :
          /\ workers' = [workers EXCEPT ![c] = NativeParallelDigestExecutor(w)]
          /\ jobs' = [jobs EXCEPT ![c] = n]
          /\ Goto(c, IF n < 2 \/ NativeParallelDigestExecutor(w) < 2 THEN "serial" ELSE "get")
    BY <1>1 DEF Execute
  <2>2. PICK place \in {"serial", "get"} : pc' = [pc EXCEPT ![c] = place]
    BY <2>1 DEF Goto
  <2>3. PICK bound : bound = NativeParallelDigestExecutor(w)
    OBVIOUS
  <2>4. bound \in Nat /\ n \in Nat
    BY <1>0, <2>3, WorkersAssumption DEF NativeParallelDigestExecutor, Min2, CallOf, Sound
  <2>5. todo' = [todo EXCEPT ![c] = {}] /\ busy' = [busy EXCEPT ![c] = {}]
    BY <1>0, <1>1 DEF Execute, CallOf, Sound
  <2>6. Becomes(c, place, bound, n, {}, {}, {}, "none")
    BY <1>0, <1>1, <2>1, <2>2, <2>3, <2>5 DEF Execute, Becomes, CallOf, Sound
  <2>7. Sound(place, bound, n, {}, {}, {}, "none")
    BY <1>0, <2>2, <2>4 DEF CallOf, Sound
  <2> QED
    BY <2>6, <2>7, CallStep
<1>2. CASE Serial(c)
  <2>1. PICK r \in {"ok", "unwind"} :
          /\ outcome' = [outcome EXCEPT ![c] = r]
          /\ IF r = "ok" THEN hashed' = [hashed EXCEPT ![c] = 1..jobs[c]] ELSE UNCHANGED hashed
    BY <1>0, <1>2 DEF Serial, Return, CallOf, Sound
  <2>2. PICK H : /\ hashed' = [hashed EXCEPT ![c] = H] /\ H \subseteq 1..jobs[c]
                 /\ r = "ok" => H = 1..jobs[c]
    BY <1>0, <2>1 DEF CallOf, Sound
  <2>3. pc' = [pc EXCEPT ![c] = "idle"] /\ UNCHANGED <<todo, busy, jobs, workers>>
    BY <1>0, <1>2 DEF Serial, Return, Goto, CallOf, Sound
  <2>4. todo' = [todo EXCEPT ![c] = {}] /\ busy' = [busy EXCEPT ![c] = {}]
    BY <1>0, <1>2, <2>3 DEF Serial, CallOf, Sound
  <2>5. Becomes(c, "idle", workers[c], jobs[c], {}, {}, H, r)
    BY <1>0, <2>1, <2>2, <2>3, <2>4 DEF Becomes, CallOf, Sound
  <2>6. Sound("idle", workers[c], jobs[c], {}, {}, H, r)
    BY <1>0, <2>2 DEF CallOf, Sound
  <2> QED
    BY <2>5, <2>6, CallStep
<1> QED
  BY <1>1, <1>2

\* Steps that look the pool up, build it or ask for workers leave results alone, and
\* admission cuts the jobs of the call into chunks.
LEMMA AdmissionKeepsResults ==
    ASSUME PoolInv, CallInv, NEW c \in Callers,
           \/ GetPool(c) \/ LockInit(c) \/ RecheckPool(c) \/ BuildPool(c) \/ FailBuild(c)
           \/ UnlockInit(c) \/ LoadBudget(c) \/ SwapBudget(c)
    PROVE  CallInv'
<1>0. CallOf(c)
  BY CallOfCaller
<1>1. CASE \/ GetPool(c) \/ LockInit(c) \/ RecheckPool(c) \/ BuildPool(c)
           \/ FailBuild(c) \/ UnlockInit(c)
  <2>1. PICK place \in {"idle", "lock", "load", "recheck", "unlock", "build"} :
          pc[c] # "run" /\ pc' = [pc EXCEPT ![c] = place]
    BY <1>0, <1>1 DEF GetPool, LockInit, RecheckPool, BuildPool, FailBuild, UnlockInit,
       Goto, Return, CallOf, Sound
  <2>2. PICK r \in {"none", "ok", "error", "unwind"} :
          outcome' = [outcome EXCEPT ![c] = r] /\ (r = "ok" => outcome[c] = "ok")
    BY <1>0, <1>1 DEF GetPool, LockInit, RecheckPool, BuildPool, FailBuild, UnlockInit,
       Return, callVars, CallOf, Sound
  <2>3. UNCHANGED <<workers, jobs, todo, busy, hashed>>
    BY <1>0, <1>1 DEF GetPool, LockInit, RecheckPool, BuildPool, FailBuild, UnlockInit,
       callVars, runVars, CallOf, Sound
  <2>4. Becomes(c, place, workers[c], jobs[c], todo[c], busy[c], hashed[c], r)
    BY <1>0, <2>1, <2>2, <2>3 DEF Becomes, CallOf, Sound
  <2>5. Sound(place, workers[c], jobs[c], todo[c], busy[c], hashed[c], r)
    BY <1>0, <2>1, <2>2 DEF CallOf, Sound
  <2> QED
    BY <2>4, <2>5, CallStep
<1>2. CASE LoadBudget(c)
  <2>1. PICK w : w = Min2(Min2(workers[c], pool), jobs[c])
    OBVIOUS
  <2>2. w \in Nat
    BY <1>0, <2>1, WorkersAssumption DEF Min2, PoolInv, CallOf, Sound
  <2>3. PICK place \in {"serial", "swap"} :
          pc' = [pc EXCEPT ![c] = place] /\ (place = "swap" => w >= 2)
    BY <1>0, <1>2, <2>1, <2>2 DEF LoadBudget, Goto, CallOf, Sound
  <2>4. /\ workers' = [workers EXCEPT ![c] = w] /\ pc[c] = "load"
        /\ UNCHANGED <<jobs, outcome, todo, busy, hashed>>
    BY <1>0, <1>2, <2>1 DEF LoadBudget, runVars, CallOf, Sound
  <2>5. Becomes(c, place, w, jobs[c], todo[c], busy[c], hashed[c], outcome[c])
    BY <1>0, <2>3, <2>4 DEF Becomes, CallOf, Sound
  <2>6. Sound(place, w, jobs[c], todo[c], busy[c], hashed[c], outcome[c])
    BY <1>0, <2>2, <2>3, <2>4 DEF CallOf, Sound
  <2> QED
    BY <2>5, <2>6, CallStep
<1>3. CASE SwapBudget(c)
  <2>1. PICK chunks : chunks = Chunks(jobs[c], workers[c])
    OBVIOUS
  <2>2. chunks \subseteq 1..jobs[c]
    BY <2>1 DEF Chunks
  <2>3. PICK place, T : /\ pc' = [pc EXCEPT ![c] = place] /\ todo' = [todo EXCEPT ![c] = T]
                        /\ \/ place \in {"serial", "swap"} /\ T = {}
                           \/ place = "run" /\ T = chunks
    BY <1>0, <1>3, <2>1 DEF SwapBudget, Admit, Goto, CallOf, Sound
  <2>4. pc[c] = "swap" /\ UNCHANGED <<workers, jobs, outcome, busy, hashed>>
    BY <1>0, <1>3 DEF SwapBudget, callVars, CallOf, Sound
  <2>5. Becomes(c, place, workers[c], jobs[c], T, busy[c], hashed[c], outcome[c])
    BY <1>0, <2>3, <2>4 DEF Becomes, CallOf, Sound
  <2>6. Sound(place, workers[c], jobs[c], T, busy[c], hashed[c], outcome[c])
    BY <1>0, <2>2, <2>3, <2>4 DEF CallOf, Sound
  <2> QED
    BY <2>5, <2>6, CallStep
<1> QED
  BY <1>1, <1>2, <1>3

\* Admitted calls: a chunk that ends adds results of its own call, and only a full
\* count makes the call Ok.
LEMMA ExecutionKeepsResults ==
    ASSUME PoolInv, CallInv, NEW c \in Callers,
           StartChunk(c) \/ EndChunk(c) \/ Quiesce(c) \/ Release(c)
    PROVE  CallInv'
<1>0. CallOf(c)
  BY CallOfCaller
<1>1. CASE StartChunk(c)
  <2>1. PICK k \in todo[c] : /\ todo' = [todo EXCEPT ![c] = @ \ {k}]
                             /\ busy' = [busy EXCEPT ![c] = @ \cup {k}]
    BY <1>0, <1>1 DEF StartChunk, CallOf, Sound
  <2>2. PICK T, B : T = todo[c] \ {k} /\ B = busy[c] \cup {k}
    OBVIOUS
  <2>3. todo' = [todo EXCEPT ![c] = T] /\ busy' = [busy EXCEPT ![c] = B]
    BY <1>0, <2>1, <2>2 DEF CallOf, Sound
  <2>4. T \subseteq 1..jobs[c] /\ B \subseteq 1..jobs[c] /\ pc[c] = "run"
    BY <1>0, <2>2 DEF CallOf, Sound
  <2>5. UNCHANGED <<pc, workers, jobs, outcome, hashed>>
    BY <1>0, <1>1 DEF StartChunk, callVars, CallOf, Sound
  <2>6. Becomes(c, pc[c], workers[c], jobs[c], T, B, hashed[c], outcome[c])
    BY <1>0, <2>3, <2>5 DEF Becomes, CallOf, Sound
  <2>7. Sound(pc[c], workers[c], jobs[c], T, B, hashed[c], outcome[c])
    BY <1>0, <2>4 DEF CallOf, Sound
  <2> QED
    BY <2>6, <2>7, CallStep
<1>2. CASE EndChunk(c)
  <2>1. PICK k \in busy[c] :
          /\ busy' = [busy EXCEPT ![c] = @ \ {k}]
          /\ \/ hashed' = [hashed EXCEPT ![c] = @ \cup JobsOf(k, jobs[c], workers[c])]
             \/ UNCHANGED hashed
    BY <1>0, <1>2 DEF EndChunk, CallOf, Sound
  <2>2. PICK done : done = JobsOf(k, jobs[c], workers[c])
    OBVIOUS
  <2>3. k \in 1..jobs[c] /\ pc[c] = "run" /\ workers[c] >= 2
    BY <1>0 DEF CallOf, Sound
  <2>4. done \subseteq 1..jobs[c]
    BY <1>0, <2>2, <2>3, JobsInRange DEF CallOf, Sound
  <2>5. PICK H : /\ hashed' = [hashed EXCEPT ![c] = H] /\ hashed[c] \subseteq H
                 /\ H \subseteq 1..jobs[c]
    <3>1. CASE UNCHANGED hashed
      BY <1>0, <3>1 DEF CallOf, Sound
    <3>2. CASE hashed' = [hashed EXCEPT ![c] = @ \cup JobsOf(k, jobs[c], workers[c])]
      <4>1. hashed' = [hashed EXCEPT ![c] = hashed[c] \cup done]
        BY <1>0, <2>2, <3>2 DEF CallOf, Sound
      <4>2. hashed[c] \cup done \subseteq 1..jobs[c]
        BY <1>0, <2>4 DEF CallOf, Sound
      <4> QED
        BY <1>0, <4>1, <4>2 DEF CallOf, Sound
    <3> QED
      BY <1>0, <2>1, <3>1, <3>2 DEF CallOf, Sound
  <2>6. PICK B : B = busy[c] \ {k}
    OBVIOUS
  <2>7. UNCHANGED <<pc, workers, jobs, outcome, todo>>
    BY <1>0, <1>2 DEF EndChunk, callVars, CallOf, Sound
  <2>8. outcome[c] = "ok" => H = 1..jobs[c]
    BY <1>0, <2>5 DEF CallOf, Sound
  <2>9. Becomes(c, pc[c], workers[c], jobs[c], todo[c], B, H, outcome[c])
    BY <1>0, <2>1, <2>5, <2>6, <2>7 DEF Becomes, CallOf, Sound
  <2>10. B \subseteq 1..jobs[c]
    BY <1>0, <2>6 DEF CallOf, Sound
  <2>11. Sound(pc[c], workers[c], jobs[c], todo[c], B, H, outcome[c])
    BY <1>0, <2>3, <2>5, <2>8, <2>10 DEF CallOf, Sound
  <2> QED
    BY <2>9, <2>11, CallStep
<1>3. CASE Quiesce(c)
  <2>1. Cardinality(hashed[c]) = jobs[c] => hashed[c] = 1..jobs[c]
    BY <1>0, CountedIsComplete DEF CallOf, Sound
  <2>2. PICK r \in {"ok", "error"} : /\ outcome' = [outcome EXCEPT ![c] = r]
                                     /\ r = "ok" => hashed[c] = 1..jobs[c]
    BY <1>0, <1>3, <2>1 DEF Quiesce, CallOf, Sound
  <2>3. /\ pc' = [pc EXCEPT ![c] = "release"] /\ todo[c] = {} /\ busy[c] = {}
        /\ UNCHANGED <<workers, jobs, todo, busy, hashed>>
    BY <1>0, <1>3 DEF Quiesce, Goto, runVars, CallOf, Sound
  <2>4. Becomes(c, "release", workers[c], jobs[c], todo[c], busy[c], hashed[c], r)
    BY <1>0, <2>2, <2>3 DEF Becomes, CallOf, Sound
  <2>5. Sound("release", workers[c], jobs[c], todo[c], busy[c], hashed[c], r)
    BY <1>0, <2>2, <2>3 DEF CallOf, Sound
  <2> QED
    BY <2>4, <2>5, CallStep
<1>4. CASE Release(c)
  <2>1. /\ pc' = [pc EXCEPT ![c] = "idle"] /\ pc[c] = "release"
        /\ UNCHANGED <<workers, jobs, outcome, todo, busy, hashed>>
    BY <1>0, <1>4 DEF Release, Goto, callVars, runVars, CallOf, Sound
  <2>2. Becomes(c, "idle", workers[c], jobs[c], todo[c], busy[c], hashed[c], outcome[c])
    BY <1>0, <2>1 DEF Becomes, CallOf, Sound
  <2>3. Sound("idle", workers[c], jobs[c], todo[c], busy[c], hashed[c], outcome[c])
    BY <1>0, <2>1 DEF CallOf, Sound
  <2> QED
    BY <2>2, <2>3, CallStep
<1> QED
  BY <1>1, <1>2, <1>3, <1>4

\* Results belong to the call under way, in every state the executor reaches.
THEOREM ResultsInductive == PoolSpec => []CallInv
<1>1. Init => CallInv
  BY DEF Init, CallInv, OkIsComplete
<1>2. ASSUME PoolInv, CallInv, [Next]_vars PROVE CallInv'
  <2>1. CASE UNCHANGED vars
    BY <1>2, <2>1 DEF CallInv, OkIsComplete, vars, callVars, runVars
  <2>2. ASSUME NEW c \in Callers, Execute(c) \/ CallerStep(c) \/ ThreadStep(c)
        PROVE  CallInv'
    BY <1>2, <2>2, EntryKeepsResults, AdmissionKeepsResults, ExecutionKeepsResults
       DEF CallerStep, ThreadStep
  <2> QED
    BY <1>2, <2>1, <2>2 DEF Next
<1> QED
  BY <1>1, <1>2, PoolInductive, PTL DEF PoolSpec

\* execute returns Ok with the result of every job and of no other, for any number of
\* threads, jobs and workers, whichever chunks panic.
THEOREM OkCallsAreComplete == PoolSpec => []OkIsComplete
<1>1. CallInv => OkIsComplete
  BY DEF CallInv
<1> QED
  BY <1>1, ResultsInductive, PTL
=============================================================================
