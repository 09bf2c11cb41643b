SPECIFICATION Spec
CONSTANT
    MaxOutstanding = 2
INVARIANTS
    TypeOK
    AnswersInOrder
    PipeAlive
    HostKnowsPort
PROPERTY
    RequestAnswered
