SPECIFICATION Spec
CONSTANTS
    Names = {wlan0, p2p0}
    Unusable = {p2p0}
    WifiInterface = wlan0
    Callbacks = {c1}
    NoObject = NoObject
    MaxObjects = 3
    MaxIndex = 3
    MaxWiphy = 2
INVARIANTS
    TypeOK
    HandlersAreAlive
    RegDomainIsHeard
    ObjectsHear
    CallbacksAreAccurate
PROPERTY
    NoCollateralDown
