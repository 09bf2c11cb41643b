SPECIFICATION Spec
CONSTANTS
    Ports <- MCPorts
    Writers <- MCThreeWriters
    MayWrite <- MCMayWriteThree
    MPS = 2
    MaxLen = 2
INVARIANTS
    TypeOK
    BufferPinned
    ReturnsAfterSent
PROPERTIES
    WriteReturns
    ServedInOrder
