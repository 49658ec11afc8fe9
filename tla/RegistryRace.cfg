SPECIFICATION Spec
CONSTANTS
    MaxId = 2
    Setups <- RaceSetups
INVARIANT OneShown
CHECK_DEADLOCK FALSE
