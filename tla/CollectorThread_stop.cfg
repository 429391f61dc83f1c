CONSTANT MaxStreams = 2
SPECIFICATION FairSpec
PROPERTY StopEnds
CHECK_DEADLOCK FALSE
