SPECIFICATION Spec
CONSTANTS
    MaxId = 3
    Setups <- AllSetups
INVARIANT TypeOK
INVARIANT ListenerExact
INVARIANT ExposedIsShown
INVARIANT UsbIsShown
INVARIANT OneUsbEntry
INVARIANT DeadIsNoticed
CHECK_DEADLOCK FALSE
