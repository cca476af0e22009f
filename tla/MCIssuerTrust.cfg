CONSTANTS
    Cert <- MCCert
    PemLists <- MCPemLists
    CborChains <- MCCborChains
    MaxTime = 1
    Builders <- MCBuilders
    Keys <- MCKeys
    Payloads = {"p", "q"}
    Aads = {"a"}
    Claims = {"q"}
    MaxPrepared = 2
    MaxSigned = 2
    Batches <- MCBatches
    Singles <- MCSingles
    IdBits = 2
    DecoyCounts = {1}
    Chains <- MCChains
    JobLists <- MCJobLists
    Parallelisms = {1, 2, 4}
    ParallelFeature = TRUE
    Lanes = 2
    BlockBytes = 64
    MinJobs = 4
    MinBytes = 60
    AdaptiveMaxWorkers = 3
    MaxParallelWorkers = 8
SPECIFICATION IssuerTrustSpec
INVARIANTS
    AcceptedIsAnchored
    ValidDuringCall
    RolesSeparate
    JurisdictionAgrees
    AppendKeepsTrust
    VerifiedWasPrepared
    HonestMessageVerifies
    ClaimsWereVerified
    ItemDigestsMatch
    FaultsRejected
    HonestCallsSucceed
    FastPathAgrees
    IssuedVerifies
    AgreesWithOracle
    NativeWorkIsShared
CHECK_DEADLOCK FALSE
