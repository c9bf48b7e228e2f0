------------------------------- MODULE Ports -------------------------------
(***************************************************************************)
(* The handlers about ports run in one provider process against one        *)
(* switch: aoss_trunk, aoss_interface and the aoss_interfaces data source  *)
(* share switchMu, the ports, and what people do to the switch.            *)
(***************************************************************************)
EXTENDS InterfacesData, FiniteSets

ASSUME PortsAreFinite == IsFiniteSet(Port)

vars == <<common, trunkVars, interfaceVars, dataVars>>

TypeOK == CommonTypeOK /\ TrunkTypeOK /\ InterfaceTypeOK /\ DataTypeOK

Init == CommonInit /\ TrunkInit /\ InterfaceInit /\ DataInit

(* The steps in which the handlers do not differ.                          *)
Opening(o) ==
    /\ NewSucceeds(o) \/ OpenFails(o)
    /\ UNCHANGED <<trunkVars, interfaceVars, dataVars>>

Waiting(o) == Acquire(o) /\ UNCHANGED <<trunkVars, interfaceVars, dataVars>>

Giving(o) ==
    /\ ShowFails(o) \/ Close(o)
    /\ UNCHANGED <<trunkVars, interfaceVars, dataVars>>

TrunkStep(t) ==
    /\ StartTrunk(t) \/ OpenTrunk(t) \/ TrunkBody(t) \/ ReturnTrunk(t)
    /\ UNCHANGED <<interfaceVars, dataVars>>

InterfaceStep(p) ==
    /\ StartInterface(p) \/ OpenInterface(p) \/ InterfaceBody(p) \/ ReturnInterface(p)
    /\ UNCHANGED <<trunkVars, dataVars>>

DataStep(r) ==
    /\ StartData(r) \/ OpenData(r) \/ DataBody(r) \/ ReturnData(r)
    /\ UNCHANGED <<trunkVars, interfaceVars>>

People ==
    \/ \E t \in Trunk, c \in TrunkEdits : EditTrunk(t, c) /\ UNCHANGED <<interfaceVars, dataVars>>
    \/ \E p \in Managed, b \in BlockEdits : EditBlock(p, b) /\ UNCHANGED <<trunkVars, dataVars>>
    \/ \E p \in Pluggable : Replug(p) /\ UNCHANGED <<trunkVars, dataVars>>
    \/ \E p \in Cabled : Relink(p) /\ UNCHANGED <<trunkVars, dataVars>>

Next ==
    \/ \E o \in Op : Waiting(o) \/ Opening(o) \/ Giving(o)
    \/ \E t \in Trunk : TrunkStep(t)
    \/ \E p \in Managed : InterfaceStep(p)
    \/ \E r \in Reader : DataStep(r)
    \/ People

Spec == Init /\ [][Next]_vars

-----------------------------------------------------------------------------

(* The inductive invariant: what each handler has read, and not seen       *)
(* change, is what the switch has.                                         *)
HandlerInv ==
    /\ TypeOK
    /\ Mu!LockInv
    /\ \A o \in Op : CommonInv(o) /\ Kept(o)
    /\ \A t \in Trunk : TrunkPoint(t) /\ KnowsTrunk(t)
    /\ \A p \in Managed : InterfacePoint(p) /\ KnowsInterface(p)
    /\ \A r \in Reader : DataPoint(r) /\ KnowsPicture(r)

(* These handlers keep the session discipline.                             *)
KeepsSessionSafety == Mu!Safety

(* A trunk or a block that the provider put on the switch is never         *)
(* forgotten: with no handler at work on it, the Terraform state has it.   *)
NeverForgotten == \A o \in Op : made[o] /\ pc[o] = "idle" => state[o] # "absent"

(* A delete releases the ports it read, and not those of its configuration:*)
(* a port that has moved to another trunk stays there.                     *)
TrunkDeleteSpares ==
    [][\A t \in Trunk :
        at[t] = "send" /\ op[t] = "delete" /\ at'[t] # "send"
            => \/ stale[t]
               \/ \A u \in Trunk \ {t} : trunks'[u] = trunks[u]]_vars

(* An instance leaves the state only when its trunk or block is off the    *)
(* switch, or its port is off the chassis.                                 *)
DropsOnlyGone ==
    [][\A o \in Op :
        state[o] # "absent" /\ state'[o] = "absent"
            => \/ stale[o]
               \/ o \in Trunk /\ trunks[o] = NoTrunk
               \/ o \in Managed /\ op[o] = "delete" /\ blocks[o] = Cleared
               \/ o \in Managed /\ op[o] = "read" /\ o \notin chassis]_vars

(* A bound on the steps a handler has yet to take until it returns.  A     *)
(* data source shows each port it saw, a block has at most four lines.     *)
Point(o) == IF pc[o] = "body" THEN at[o] ELSE pc[o]

Ahead ==
    [lock |-> 13, new |-> 12, open |-> 11,
     summary |-> 10, show |-> 9, send |-> 4, detail |-> 3, verify |-> 3,
     close |-> 2, unlock |-> 1, idle |-> 0]

Pending(o) ==
    IF Point(o) \in {"lock", "new", "open", "summary"} THEN Port
    ELSE IF Point(o) \in {"show", "detail"} /\ o \in Reader THEN toShow[o]
    ELSE IF Point(o) = "send" /\ o \in Managed THEN todo[o]
    ELSE {}

StepsLeft(o) == Ahead[Point(o)] + Cardinality(Pending(o))

Own(o) ==
    /\ pc[o] # "idle"
    /\ \/ Waiting(o) \/ Opening(o) \/ Giving(o)
       \/ o \in Trunk /\ TrunkStep(o)
       \/ o \in Managed /\ InterfaceStep(o)
       \/ o \in Reader /\ DataStep(o)

(* Each step of a handler brings it nearer to its return, and no step of   *)
(* another one or of people sets it back, the modules they pull while the  *)
(* data source shows one port after the other included: it returns after   *)
(* at most 13 steps and one for each port.                                 *)
NearsReturn ==
    [][\A o \in Op :
        /\ Own(o) => StepsLeft(o)' < StepsLeft(o)
        /\ pc[o] # "idle" => StepsLeft(o)' <= StepsLeft(o)]_vars
=============================================================================
