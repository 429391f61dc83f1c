CONSTANTS
    e1 = e1
    e2 = e2
    Endpoints <- MCEndpoints
    Configs <- MCConfigs
    Bridges = {b1, b2}
    MaxFaults = 2
SPECIFICATION Spec
INVARIANTS CapSeesLogins
CHECK_DEADLOCK FALSE
