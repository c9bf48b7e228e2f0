CONSTANTS
    Instance = {old, host}
    old = old
    new = new
    host = host
    KindOf <- TwoKinds
    Value = {10}
    Default <- NoDefault
    None = None
    NoOp = NoOp
SPECIFICATION Spec
PROPERTY
    KeepsSessionDiscipline
