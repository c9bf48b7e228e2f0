-------------------------- MODULE MCVLANResource --------------------------
(* Instances of VLANResource: the configurations Terraform applies, what   *)
(* the switch holds at the start, and what an operator may do to it.       *)
EXTENDS VLANResource

CONSTANTS m1, m2

Conf(name, tagged, untagged, dhcp) ==
    [name |-> name, tagged |-> tagged, untagged |-> untagged, dhcp |-> dhcp]

(* Members move between tagged and untagged, between VLANs, and in and out;*)
(* the address is switched on and off; the name is set or left alone.      *)
MovingMembers ==
    {Conf(NoName, {m1}, {m2}, FALSE),
     Conf("lan", {}, {m1}, TRUE),
     Conf("lan", {m2}, {}, FALSE)}

OneWant == {Conf(NoName, {}, {}, FALSE)}

EveryDesired == Desired

Fresh == {[v \in Vlan |-> NoBlock]}

(* Blocks that are on the switch before Terraform is.                      *)
Occupied == Fresh \union
    {[v \in Vlan |-> Conf("old", {m2}, {m1}, FALSE)]}

NoEdits == {}

OneEdit == {Conf("auto", {}, {m1}, FALSE)}

OperatorEdits ==
    {NoBlock, Conf("old", {}, {}, TRUE), Conf("old", {m1}, {m2}, FALSE)}
=============================================================================
