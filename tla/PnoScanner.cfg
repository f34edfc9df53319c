SPECIFICATION Spec
CONSTANTS
    Settings = {A, B}
    NoScan = NoScan
    MaxHal = 2
    MaxHalEvents = 2
    MaxKernelEvents = 2
    HalFaults = TRUE
    KernelFaults = {"refuse", "enodev", "late_ack"}
SYMMETRY Symmetry
CHECK_DEADLOCK FALSE
INVARIANTS
    TypeOK
    NoSilentLoss
    ScanOverOffloadIsUsable
