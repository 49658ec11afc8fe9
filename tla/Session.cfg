SPECIFICATION Spec
CONSTANTS
    Clients = {c1, c2}
    Preflight = p
    Actors = {c1, c2, p}
    MaxChanges = 1
    Setups <- AllSetups
INVARIANT TypeOK
INVARIANT TwoStrikes
INVARIANT BuidStable
PROPERTY DeadDeviceLeaves
PROPERTY TasksEnd
CHECK_DEADLOCK FALSE
