SPECIFICATION Spec
CONSTANTS
    MaxStations = 3
    MaxEvents = 6
INVARIANTS
    TypeOK
    CountNeverExceeds
    CountSettles
    CallbackSettles
