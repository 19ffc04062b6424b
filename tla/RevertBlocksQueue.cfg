\* A retry run over two batches.
SPECIFICATION Spec
CONSTANTS
    Uuids = {1, 2}
    NULL = NULL
    External = External
    MAX_SIGN_ATTEMPTS = 2
    MAX_CLAIM_ATTEMPTS = 2
    Corrupt = {}
    MaySkip = FALSE
    FINALITY_BLOCKS = 2
    MaxTxs = 2
    MaxOutOfBand = 0
    MaxEmptyBlocks = 0
    MaxReorgs = 0
    Claimers = {gui}
    Modes = {"retryable"}
    CLAIM_BATCH_SIZE = 1
    PayerKnown = TRUE
    Reapers = {}
    DaemonClaimers = {gui}
    Daemon = daemon
    StartRows = {"claimable"}
    MempoolBounded = TRUE
    MaxDaemonCrashes = 0
    MaxCliCrashes = 0
PROPERTY
    RunDrainsQueue
CHECK_DEADLOCK FALSE
