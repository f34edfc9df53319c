SPECIFICATION Spec
CONSTANTS
    Settings = {A}
    NoScan = NoScan
    MaxHal = 1
    MaxHalEvents = 1
    MaxKernelEvents = 2
    HalFaults = FALSE
    KernelFaults = {}
CHECK_DEADLOCK FALSE
INVARIANT
    HalDeathIsSurvived
