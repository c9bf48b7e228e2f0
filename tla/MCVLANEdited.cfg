CONSTANTS
    Vlan = {v10}
    Member = {m1, m2}
    m1 = m1
    m2 = m2
    Name = {"auto", "lan", "old"}
    NoName = NoName
    AutoName = "auto"
    NoBlock = NoBlock
    NoOp = NoOp
    Wanted <- EveryDesired
    Startup <- Occupied
    Edited <- OperatorEdits
SPECIFICATION Spec
INVARIANTS
    HandlerInv
    WriteReachesDesired
    DeleteRemoves
    HangsOnlyWhenStale
    ApplySettles
    HalfwayIsBetween
    NeverForgotten
PROPERTY
    DropsOnlyGone
