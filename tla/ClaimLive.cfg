\* A contract that may skip the receipt, a chain that takes a block back
\* and a CLI claim that is killed.
SPECIFICATION LiveSpec
CONSTANTS
    Uuids = {1}
    NULL = NULL
    External = External
    MAX_SIGN_ATTEMPTS = 2
    MAX_CLAIM_ATTEMPTS = 2
    Corrupt = {}
    MaySkip = TRUE
    FINALITY_BLOCKS = 2
    MaxTxs = 2
    MaxOutOfBand = 0
    MaxEmptyBlocks = 1
    MaxReorgs = 1
    Claimers = {cli}
    Modes = {"default"}
    CLAIM_BATCH_SIZE = 2
    PayerKnown = TRUE
    Reapers = {daemon}
    DaemonClaimers = {}
    Daemon = daemon
    StartRows = {"claimable"}
    MempoolBounded = TRUE
    MaxDaemonCrashes = 0
    MaxCliCrashes = 1
INVARIANTS
    BlockIsExternal
    TimeoutIsTracked
PROPERTIES
    RunTerminates
    TimeoutResolved
    UnfoundedClaimReturns
    ImplementsLifecycle
    KillLeavesBreadcrumb
CHECK_DEADLOCK FALSE
