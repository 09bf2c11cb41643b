SPECIFICATION Spec
CONSTANTS
    Port = "cdc0"
    Readers <- MCReader
    MPS = 2
    GetMax = 3
    MaxWaits = 1
INVARIANT
    NextReadScheduled
