\* Does the status screen come between a node and its identity?
SPECIFICATION Spec
CONSTANTS
    Bridge = {b1}
    Clis = {}
    NoFile = NoFile
    Torn = Torn
    NoKey = NoKey
    MaxKeys = 2
INVARIANT RunsUnderPersistedKey
