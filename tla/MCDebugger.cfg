CONSTANTS
    MaxPackets = 3
    MaxCommands = 2
    MaxBreakIns = 1
    MaxResets = 2
    MaxFaults = 1
    LineSize = 2
SPECIFICATION Spec
INVARIANTS
    PacketsComeOnce
    ConfirmedIsReceived
    CommandsAreServedInOrder
CHECK_DEADLOCK FALSE
