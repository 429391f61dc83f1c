CONSTANT MaxStreams = 3
SPECIFICATION FairSpec
INVARIANTS TypeOK NeverDiesQuietly ReadableIsShared
PROPERTIES AlwaysReturns InterruptEnds
CHECK_DEADLOCK FALSE
