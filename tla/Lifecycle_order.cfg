CONSTANTS
    g1 = g1
    g2 = g2
    Guests = {g1, g2}
    gw1 = gw1
    gw2 = gw2
    Gateways = {gw1, gw2}
    MaxFaults = 3
SPECIFICATION Spec
SYMMETRY Symmetry
INVARIANTS TypeOK GuestsRestricted StopRecordsEnds CleanupNotBlocked GatewayIsTheNetworks
PROPERTIES ServicesComeSecond StartedOnThisRunsConfig
CHECK_DEADLOCK FALSE
