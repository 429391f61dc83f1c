CONSTANTS
    g1 = g1
    g2 = g2
    Guests = {g1, g2}
    MaxTime = 4
    MaxOutages = 1
SPECIFICATION Spec
SYMMETRY GuestSymmetry
INVARIANTS TypeOK OpenIsRunning ObservedEnds
CHECK_DEADLOCK FALSE
