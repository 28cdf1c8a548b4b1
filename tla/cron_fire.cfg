SPECIFICATION Spec
CHECK_DEADLOCK FALSE
CONSTANTS
    Crons = {c1}
    Policies <- AllPolicies
    Tabs = {1, 2, 3, 4, 5}
    Main = Main
    Human = Human
    None = None
    Intervals = {4}
    Hash <- OneHash
    Grace = 1
    Quiet = 2
    MaxOpen = 1
    FailLimit = 2
    MaxQueue = 3
    Times = {5, 8, 9, 13}
    MaxActs = 1
    MaxFaults = 2
    Acts = {"run", "edit", "pause", "human"}
    Kinds = {"blip", "die", "fatal", "dead", "restart"}
INVARIANTS TypeOK SlotOnce NoSlotLost OverlapBounded TabsBounded
