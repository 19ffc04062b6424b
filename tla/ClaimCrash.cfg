\* Explicit retries, a corrupt signature and a daemon that dies once, with the
\* startup pass, the reaper and the retries running side by side.
SPECIFICATION Spec
CONSTANTS
    Uuids = {1, 2}
    NULL = NULL
    External = External
    MAX_SIGN_ATTEMPTS = 2
    MAX_CLAIM_ATTEMPTS = 2
    Corrupt = {2}
    MaySkip = TRUE
    FINALITY_BLOCKS = 2
    MaxTxs = 2
    MaxOutOfBand = 0
    MaxEmptyBlocks = 0
    MaxReorgs = 0
    Claimers = {gui}
    Modes = {"retryable", "only"}
    CLAIM_BATCH_SIZE = 2
    PayerKnown = TRUE
    Reapers = {daemon}
    DaemonClaimers = {gui}
    Daemon = daemon
    StartRows = {"claimable"}
    MempoolBounded = FALSE
    MaxDaemonCrashes = 1
    MaxCliCrashes = 0
INVARIANTS
    BudgetIsEarned
    ClaimedIsSettled
PROPERTY
    ImplementsLifecycle
CHECK_DEADLOCK FALSE
