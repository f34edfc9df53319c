SPECIFICATION Spec
CONSTANTS
    Groups <- MCGroups
    NL80211Id = 28
    NoId = 0
    MaxSignals = 2
CHECK_DEADLOCK FALSE
INVARIANTS
    StartedMeansListening
    NoSocketIsLeftBehind
PROPERTIES
    ArrivalsAreDispatched
    SignalEndsTheProcess
