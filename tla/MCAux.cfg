SPECIFICATION AuxSpec
CONSTANTS
    Port = "cdc1"
    Readers <- MCReaders
    MPS = 2
    GetMax = 3
    MaxWaits = 1
INVARIANTS
    RoomWhenArmed
    NoForgottenInput
PROPERTIES
    FlowResumes
