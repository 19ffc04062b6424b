\* One rejection, fetched by two polls.
SPECIFICATION SignSpec
CONSTANTS
    Uuids = {1, 2}
    Queued = {}
    NULL = NULL
    External = External
    MAX_SIGN_ATTEMPTS = 2
    MAX_CLAIM_ATTEMPTS = 2
    TRANSIENT_BUDGET_ATTEMPTS = 14
    POLL_INITIAL_LOOKBACK = 1
    POLL_CURSOR_BUFFER = 1
    RestartGuard = 1
    PageLimit = 2
    MaxLag = 1
    MaxTime = 1
    MaxCrashes = 0
INVARIANT
    RejectionCountedOnce
