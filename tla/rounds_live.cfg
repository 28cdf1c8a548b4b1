SPECIFICATION FairSpec
CHECK_DEADLOCK FALSE
CONSTANTS
    Kids = {k1}
    MaxRounds = 2
    MaxActs = 2
    MaxFaults = 1
    Kinds = {"restart", "deaf"}
    Prompt = TRUE
PROPERTY RoundsSettle OpenRoundEnds
