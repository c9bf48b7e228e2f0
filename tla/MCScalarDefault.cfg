CONSTANTS
    Instance = {old}
    old = old
    new = new
    host = host
    KindOf <- OneKind
    Value = {1, 10}
    Default <- VLANOne
    None = None
    NoOp = NoOp
SPECIFICATION Spec
INVARIANT
    WriteIsRead
