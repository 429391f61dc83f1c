CONSTANTS
    g1 = g1
    Guests = {g1}
    MaxTime = 4
    MaxOutages = 1
    Windows = {1}
SPECIFICATION ServerSpec
INVARIANTS ServerTypeOK NumbersNest StaleSaysSo ConnectedIsDated
CHECK_DEADLOCK FALSE
