SPECIFICATION FairSpec
CHECK_DEADLOCK FALSE
CONSTANTS
    Crons = {c1}
    Policies <- LivePolicies
    Tabs = {1, 2, 3, 4}
    Main = Main
    Human = Human
    None = None
    Intervals = {4}
    Hash <- OneHash
    Grace = 1
    Quiet = 2
    MaxOpen = 1
    FailLimit = 2
    MaxQueue = 3
    Times = {4, 5, 9}
    MaxActs = 1
    MaxFaults = 1
    Acts = {"human", "run", "delete", "respawn"}
    Kinds = {"blip", "die", "fatal", "dead", "restart"}
PROPERTY  CloseResolves
