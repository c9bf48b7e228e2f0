CONSTANTS
    Instance = {old, new}
    old = old
    new = new
    host = host
    KindOf <- OneKind
    Value = {10, 20}
    Default <- NoDefault
    None = None
    NoOp = NoOp
SPECIFICATION Spec
INVARIANTS
    HandlerInv
    WriteIsRead
    DeletesItsOwn
    AnsweredIsRemembered
PROPERTY
    DropsOnlyGone
