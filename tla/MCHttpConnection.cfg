SPECIFICATION FairSpec
CONSTANTS
    Kinds <- MCKinds
    MaxRequests = 2
    MaxUnits = 2
    AnswerUnits = 2
    SndBuf = 3
    MaxOut = 4
CHECK_DEADLOCK FALSE
INVARIANTS
    AnswersInOrder
PROPERTIES
    CompleteRequestsAnswered
    ConnectionEnds
