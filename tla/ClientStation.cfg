SPECIFICATION Spec
CONSTANTS
    BSS = {b1, b2}
    NoBss = NoBss
    Macs = {m1}
    BadMac = BadMac
    MaxEvents = 3
    Faults = {"no_mac", "refuse", "enodev", "late_ack"}
CHECK_DEADLOCK FALSE
SYMMETRY Symmetry
INVARIANTS
    TypeOK
    AwaitedScanEnds
    AssociationTracksKernel
    FrequencySettles
