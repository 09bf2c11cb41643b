SPECIFICATION Spec
CONSTANTS
    Ports <- MCPorts
    Writers <- MCTwoWriters
    MayWrite <- MCMayWriteTwo
    MPS = 2
    MaxLen = 2
PROPERTY
    WriteFinishes
