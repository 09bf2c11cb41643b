SPECIFICATION PortSpec
CONSTANTS
    DataBits = 2
    ResetOnes = 9
    Settings <- MCSettings
    Requests <- MCRequests
    Words <- MCWords
    IdleCycles = {0, 1}
    IntMax = 32767
    HalfMax = 1100
    DelayConstant = 14
    Kilo = 10
    FastClock = 9
    DefaultClock = 10
    Round = 1500
    Frequencies <- MCFrequencies
    Delays = {50, 1100}
    Waits <- MCWaits
INVARIANTS
    PortTypeOK
    NoContentionAtRest
    ConnectedLines
    LineNotFought
    OperationHonest
    StaysInStep
    
PROPERTY
    PinsImplemented
