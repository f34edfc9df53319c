SPECIFICATION Spec
CONSTANTS
    Worlds <- MCWorlds
    NewBss <- MCNewBss
    Links <- MCLinks
    InterfaceIndex = 7
    MaxChanges = 1
    kMsecPerSec = 1000
INVARIANTS
    ChannelsAreCurrent
    CapabilitiesSurviveMerge
    InterfacesAreReal
    ScanResultsAreFaithful
PROPERTY StationAnswersAreExact
