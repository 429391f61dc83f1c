CONSTANTS
    g1 = g1
    g2 = g2
    Guests = {g1, g2}
    gw1 = gw1
    gw2 = gw2
    Gateways = {gw1, gw2}
    MaxFaults = 1
SPECIFICATION Spec
SYMMETRY Symmetry
INVARIANTS StoppedMeansNoGuests
CHECK_DEADLOCK FALSE
