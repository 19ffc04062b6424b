\* Two receipts, one of them left by an earlier run, pages of one row, a
\* restart, a gateway that may date a row one unit back.
\* Time is in units of the 60 s cursor buffer.
SPECIFICATION SignLiveSpec
CONSTANTS
    Uuids = {1, 2}
    Queued = {2}
    NULL = NULL
    External = External
    MAX_SIGN_ATTEMPTS = 2
    MAX_CLAIM_ATTEMPTS = 2
    TRANSIENT_BUDGET_ATTEMPTS = 1
    POLL_INITIAL_LOOKBACK = 2
    POLL_CURSOR_BUFFER = 1
    RestartGuard = 1
    PageLimit = 1
    MaxLag = 1
    MaxTime = 2
    MaxCrashes = 1
INVARIANTS
    SignTypeOK
    NoSignatureSkipped
PROPERTIES
    SignatureArrives
    RejectionSurfaces
