-------------------------- MODULE MCScalarResource --------------------------
(* Two instances of aoss_primary_vlan, or one and one of aoss_hostname.    *)
EXTENDS ScalarResource, TLC

CONSTANTS old, new, host

OneKind == [i \in Instance |-> "primary"]

TwoKinds == old :> "primary" @@ host :> "hostname"

(* No resource asks for what is the default.                               *)
NoDefault == [k \in Kind |-> None]

(* VLAN 1 is the primary VLAN without a statement.                         *)
VLANOne == [k \in Kind |-> 1]
=============================================================================
