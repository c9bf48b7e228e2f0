CONSTANTS
    Vlan = {v1, v2}
    Port = {p1}
    OutOfRange = p256
    Trunk = {t1}
    Mode = {"trunk", "lacp"}
    Member = {m1, m2}
    Name = {n1}
    NoName = NoName
    Malformed = Malformed
    None = None
    MaxLines = 5
SPECIFICATION Spec
SYMMETRY Interchangeable
INVARIANT ScanInv
INVARIANT VLANsAreEffective
INVARIANT InterfacesAreEffective
INVARIANT TrunksAreEffective
PROPERTY ReadOnlyGrows
CHECK_DEADLOCK FALSE
