\* Three requests under way at once, one fault.
SPECIFICATION Spec
CONSTANTS
    MaxWire   = 3
    MaxFaults = 1
INVARIANTS
    TypeOK
    IdleIsIdle
    RunningIsOpen
    SnapshotIsState
PROPERTIES
    HaltIsKept
    EmergencyStops
