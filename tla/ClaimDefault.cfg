\* Default claim runs of two processes and the reaper; somebody else may settle a
\* receipt; nothing crashes.
\* The bounds on the chain stop the history.
SPECIFICATION Spec
CONSTANTS
    Uuids = {1, 2}
    NULL = NULL
    External = External
    MAX_SIGN_ATTEMPTS = 2
    MAX_CLAIM_ATTEMPTS = 2
    Corrupt = {}
    MaySkip = FALSE
    FINALITY_BLOCKS = 2
    MaxTxs = 2
    MaxOutOfBand = 1
    MaxEmptyBlocks = 0
    MaxReorgs = 0
    Claimers = {cli1, cli2}
    Modes = {"default"}
    CLAIM_BATCH_SIZE = 2
    PayerKnown = TRUE
    Reapers = {daemon}
    DaemonClaimers = {}
    Daemon = daemon
    StartRows = {"pending_sign", "claimable"}
    MempoolBounded = TRUE
    MaxDaemonCrashes = 0
    MaxCliCrashes = 0
INVARIANTS
    TypeOK
    ClaimMutex
    TimeoutIsTracked
    BreadcrumbCoversMempool
    NoResubmission
    NoWastedGas
SYMMETRY
    ClaimerSymmetry
CHECK_DEADLOCK FALSE
