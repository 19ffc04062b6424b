\* The GUI with one bridge call at a time, and one process of the command line.
SPECIFICATION Spec
CONSTANTS
    Bridge = {b1}
    Clis = {c1}
    NoFile = NoFile
    Torn = Torn
    NoKey = NoKey
    MaxKeys = 1
INVARIANTS
    HomeTypeOK
    RegisteredKeyKept
    OneDaemon
