SPECIFICATION FairSpec
CONSTANTS
    Settings = {A}
    NoScan = NoScan
    MaxHal = 2
    MaxHalEvents = 2
    MaxKernelEvents = 2
    HalFaults = FALSE
    KernelFaults = {"refuse", "enodev"}
CHECK_DEADLOCK FALSE
INVARIANT
    NoOrphanHalScan
PROPERTY
    LossIsNoticed
