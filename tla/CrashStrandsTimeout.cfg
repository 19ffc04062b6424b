\* A timed-out receipt across a restart of the daemon.
SPECIFICATION Spec
CONSTANTS
    Uuids = {1}
    NULL = NULL
    External = External
    MAX_SIGN_ATTEMPTS = 2
    MAX_CLAIM_ATTEMPTS = 2
    Corrupt = {}
    MaySkip = FALSE
    FINALITY_BLOCKS = 2
    MaxTxs = 2
    MaxOutOfBand = 0
    MaxEmptyBlocks = 0
    MaxReorgs = 0
    Claimers = {gui}
    Modes = {"default"}
    CLAIM_BATCH_SIZE = 2
    PayerKnown = TRUE
    Reapers = {daemon}
    DaemonClaimers = {gui}
    Daemon = daemon
    StartRows = {"claimable"}
    MempoolBounded = TRUE
    MaxDaemonCrashes = 1
    MaxCliCrashes = 0
INVARIANT
    TimeoutIsTracked
CHECK_DEADLOCK FALSE
