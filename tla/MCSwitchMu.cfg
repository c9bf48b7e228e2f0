CONSTANTS
    Op = {o1, o2, o3, o4}
    NoOp = NoOp
SPECIFICATION Spec
INVARIANTS
    LockInv
    OneSessionAtATime
PROPERTY
    ImplementsOneSession
