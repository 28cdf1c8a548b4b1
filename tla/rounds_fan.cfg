SPECIFICATION Spec
CHECK_DEADLOCK FALSE
CONSTANTS
    Kids = {k1, k2}
    MaxRounds = 2
    MaxActs = 1
    MaxFaults = 1
    Kinds = {"restart", "deaf", "die", "blip"}
    Prompt = FALSE
SYMMETRY KidSymmetry
INVARIANTS RetiredHasNoOpenRound ResultOfItsClosure HandedOnce DoneIsQuiet 
PROPERTY CardOfNewestJob
