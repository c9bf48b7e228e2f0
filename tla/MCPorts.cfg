CONSTANTS
    t1 = t1
    t2 = t2
    p1 = p1
    p2 = p2
    r = r
    Op = {t1, t2, p1, r}
    Reader = {r}
    Trunk = {t1, t2}
    Port = {p1, p2}
    Managed = {p1}
    Scenarios <- SomeScenarios
    NoOp = NoOp
    Mode = {"trunk", "lacp"}
    NoTrunk = NoTrunk
    TrunkWanted <- SomeTrunks
    TrunkEdits <- TrunksByHand
    Name = {"uplink"}
    NoName = ""
    BlockWanted <- SomeBlocks
    BlockEdits <- BlocksByHand
    Pluggable = {p1}
    Cabled = {p2}
SPECIFICATION Spec
INVARIANTS
    HandlerInv
    TrunkWriteReaches
    InterfaceWriteReaches
    NeverForgotten
    SnapshotIsConsistent
PROPERTIES
    KeepsSessionSafety
    TrunkDeleteSpares
    DropsOnlyGone
    NearsReturn
