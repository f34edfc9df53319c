SPECIFICATION Spec
CONSTANTS
    Word = 1000
    kMsecPerSec = 10
    Devices <- MCDevices
    SingleParcels <- MCSingleParcels
    PnoParcels <- MCPnoParcels
    HalReports <- MCHalReports
    HalStats <- MCHalStats
    InterfaceIndex = 7
INVARIANTS
    PnoScanIsAcceptable
    NetworksAreRight
    ScanIsWhatWasMeant
    NewsCanBeRead
