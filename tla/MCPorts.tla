------------------------------ MODULE MCPorts ------------------------------
(* Two trunks; a trunk and the data source; an interface and the data      *)
(* source.                                                                 *)
EXTENDS Ports

CONSTANTS t1, t2, p1, p2, r

SomeScenarios ==
    {[plan |-> {t1, t2}, people |-> {"trunks"}],
     [plan |-> {t1, r}, people |-> {"trunks", "cables"}],
     [plan |-> {p1, r}, people |-> {"modules"}],
     [plan |-> {p1}, people |-> {"blocks", "modules"}]}

(* One trunk takes a port of the other, or gives one up.                   *)
SomeTrunks ==
    {[ports |-> {p1, p2}, mode |-> "lacp"],
     [ports |-> {p2}, mode |-> "lacp"],
     [ports |-> {p2}, mode |-> "trunk"]}

TrunksByHand == {NoTrunk, [ports |-> {p2}, mode |-> "trunk"]}

SomeBlocks == {Cleared, [name |-> "uplink", shutdown |-> TRUE],
               [name |-> NoName, shutdown |-> TRUE]}

BlocksByHand == {Cleared, [name |-> "uplink", shutdown |-> FALSE]}
=============================================================================
