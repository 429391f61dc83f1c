CONSTANTS
    MIN_PORT = 1
    MAX_PORT = 2
    MaxLines = 2
    MaxRules = 1
    MaxListeners = 1
SPECIFICATION Spec
INVARIANTS TypeOK FirstPorts NothingShadowedIsMissed
CHECK_DEADLOCK FALSE
