SPECIFICATION FairSpec
CONSTANTS
    MaxCalls = 2
    MaxEvents = 2
    MaxParts = 1
    SeqMod = 3
    MaxAge = 1
    MaxWait = 2
    NoAnswer = NoAnswer
    Faults = {"eintr", "drop", "cut", "noop"}
CHECK_DEADLOCK FALSE
INVARIANTS
    ResponseIsOwn
    AckMeansDone
    EventsAreKept
PROPERTIES
    CallReturns
    EventsAreDispatched
