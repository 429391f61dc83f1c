CONSTANTS
    g1 = g1
    Guests = {g1}
    MaxTime = 5
    MaxOutages = 2
SPECIFICATION FairSpec
INVARIANTS WindowExact GuessOnlyWhereUnseen
PROPERTIES RefinesLedger GuestCounted SessionEnds
CHECK_DEADLOCK FALSE
