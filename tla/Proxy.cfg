\* Two connections over a limit of one.
SPECIFICATION ProxyLiveSpec
CONSTANTS
    Conns = {c1, c2}
    MAX_CONNECTIONS = 1
    RELAY_TIMEOUT = 2
    PaymentEnabled = TRUE
    MaxChunks = 2
INVARIANTS
    ProxyTypeOK
    AccountsBalance
    BilledWasCarried
PROPERTIES
    RelayIsBilled
    
