CONSTANTS
    Vlan = {v10, v20}
    Member = {m1, m2}
    m1 = m1
    m2 = m2
    Name = {"auto", "lan"}
    NoName = NoName
    AutoName = "auto"
    NoBlock = NoBlock
    NoOp = NoOp
    Wanted <- MovingMembers
    Startup <- Fresh
    Edited <- NoEdits
SPECIFICATION Spec
INVARIANTS
    HandlerInv
    WriteReachesDesired
    UndisturbedIsExact
