CONSTANTS
    Vlan = {v10, v20}
    Member = {m1, m2}
    m1 = m1
    m2 = m2
    Name = {"auto"}
    NoName = NoName
    AutoName = "auto"
    NoBlock = NoBlock
    NoOp = NoOp
    Wanted <- OneWant
    Startup <- Fresh
    Edited <- OneEdit
SPECIFICATION Spec
PROPERTIES
    KeepsSessionDiscipline
    NearsReturn
