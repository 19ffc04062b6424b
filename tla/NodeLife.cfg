\* Two starts by the operator, stops and failures at any time.
SPECIFICATION LiveSpec
CONSTANTS
    Threads = {t1, t2}
    NoThread = NoThread
    BindingRetryLimit = 1
    HEARTBEAT_FAIL_THRESHOLD = 2
    OFFLINE_ESCALATION_THRESHOLD = 2
    MaxStarts = 2
    MaxRetries = 3
INVARIANTS
    LifecycleTypeOK
    RestIsHonest
    RunningIsSupervised
    NothingLeftBehind
PROPERTIES
    PermanentStays
    StopEnds
    TransientIsRetried
    EscalationIsServed
    LostMappingReturns
CONSTRAINT
    UpToOverlap
