SPECIFICATION Spec
CONSTANTS
    MaxCalls = 3
    MaxEvents = 1
    MaxParts = 2
    SeqMod = 3
    MaxAge = 1
    MaxWait = 1
    NoAnswer = NoAnswer
    Faults = {"send", "eintr", "drop"}
CHECK_DEADLOCK FALSE
INVARIANTS
    TypeOK
    HandlersEndWithTheirCall
PROPERTY
    ImplementsRequestReply
