---------------------------- MODULE VLANConfig ----------------------------
(***************************************************************************)
(* The data of an aoss_vlan resource: the effective configuration of a     *)
(* `vlan <id>` block, the block of CLI lines BuildVLANConfig computes, and *)
(* what the switch does with each of those lines.  A block is the set of   *)
(* its lines; Rank is the order in which the code emits them.  Members are *)
(* canonical references, as ParseMember makes them.                        *)
(***************************************************************************)
EXTENDS Integers

CONSTANTS Vlan,      \* VLAN ids, one aoss_vlan resource each
          Member,    \* port numbers and trunk circuits
          Name,      \* VLAN names
          NoName,    \* the empty name: "leave the name alone"
          AutoName,  \* the name the switch gives a new VLAN
          NoBlock    \* the running config has no block for the VLAN

ASSUME NameAssumption == AutoName \in Name /\ NoName \notin Name

(* VLANConfig: one block of the running config, as the parser returns it.  *)
(* On the switch a port is tagged or untagged in a VLAN, not both.         *)
Config == {b \in [name : Name, tagged : SUBSET Member, untagged : SUBSET Member,
                  dhcp : BOOLEAN] : b.tagged \intersect b.untagged = {}}

ASSUME BlockAssumption == NoBlock \notin Config

(* The running configuration: what ParseRunningConfigVLANs maps each VLAN  *)
(* id to.                                                                  *)
Running == [Vlan -> Config \union {NoBlock}]

(* The attributes of a resource.  The plugin accepts a member that is both *)
(* tagged and untagged; as the switch cannot hold one, Desired leaves such *)
(* configurations out.                                                     *)
Desired == {w \in [name : Name \union {NoName}, tagged : SUBSET Member,
                   untagged : SUBSET Member, dhcp : BOOLEAN] :
                w.tagged \intersect w.untagged = {}}

\* A slip to rule out: asking for the confirmation from the second member on.
NeedsConfirmOffByOne(c) == \E m, n \in c.untagged : m # n

(* NeedsVLANDeleteConfirm: may `no vlan` stop at a [y/n] prompt?           *)
NeedsVLANDeleteConfirm(c) == c.untagged # {}

-----------------------------------------------------------------------------
(* BuildVLANConfig                                                         *)

\* A slip to rule out: additions first, removals after.
RankAddingFirst == [vlan |-> 1, name |-> 2, tagged |-> 3, untagged |-> 4,
                    noTagged |-> 5, noUntagged |-> 6, address |-> 7, exit |-> 8]

Rank == [vlan |-> 1, name |-> 2, noTagged |-> 3, noUntagged |-> 4,
         tagged |-> 5, untagged |-> 6, address |-> 7, exit |-> 8]

Line == DOMAIN Rank

(* What BuildVLANConfig compares with when current is nil.                 *)
Nothing == [name |-> NoName, tagged |-> {}, untagged |-> {}, dhcp |-> FALSE]

Known(current) == IF current = NoBlock THEN Nothing ELSE current

MemberAdd(have, want) == want \ have

\* A slip to rule out: clearing the list to set it anew.
MemberRemoveAll(have, want) == have

MemberRemove(have, want) == have \ want

\* A slip to rule out: taking the empty name for one to be set.
ChangesNaming(current, want) ==
    LET c == Known(current)
    IN  {l \in Line :
          \/ l = "name" /\ want.name # c.name
          \/ l = "noTagged" /\ MemberRemove(c.tagged, want.tagged) # {}
          \/ l = "noUntagged" /\ MemberRemove(c.untagged, want.untagged) # {}
          \/ l = "tagged" /\ MemberAdd(c.tagged, want.tagged) # {}
          \/ l = "untagged" /\ MemberAdd(c.untagged, want.untagged) # {}
          \/ l = "address" /\ want.dhcp # c.dhcp}

(* The lines between `vlan <id>` and `exit`.                               *)
Changes(current, want) ==
    LET c == Known(current)
    IN  {l \in Line :
          \/ l = "name" /\ want.name \notin {NoName, c.name}
          \/ l = "noTagged" /\ MemberRemove(c.tagged, want.tagged) # {}
          \/ l = "noUntagged" /\ MemberRemove(c.untagged, want.untagged) # {}
          \/ l = "tagged" /\ MemberAdd(c.tagged, want.tagged) # {}
          \/ l = "untagged" /\ MemberAdd(c.untagged, want.untagged) # {}
          \/ l = "address" /\ want.dhcp # c.dhcp}

BuildVLANConfig(current, want) ==
    IF current # NoBlock /\ Changes(current, want) = {}
    THEN {}
    ELSE Changes(current, want) \union {"vlan", "exit"}

(* The line SendConfig sends next, when block holds the lines still to go. *)
IsNext(l, block) == l \in block /\ \A k \in block : Rank[l] <= Rank[k]

-----------------------------------------------------------------------------
(* The switch                                                              *)

NewBlock == [name |-> AutoName, tagged |-> {}, untagged |-> {}, dhcp |-> FALSE]

(* What the switch makes of block b when it accepts line l.  The no-forms  *)
(* have two readings, and both are allowed: they withdraw that kind of     *)
(* membership, or any membership, of the ports they name.                  *)
AcceptInBlock(b, l, current, want) ==
    LET c == Known(current)
        addTagged == MemberAdd(c.tagged, want.tagged)
        addUntagged == MemberAdd(c.untagged, want.untagged)
        noTagged == MemberRemove(c.tagged, want.tagged)
        noUntagged == MemberRemove(c.untagged, want.untagged)
    IN  CASE l = "name" -> {[b EXCEPT !.name = want.name]}
          [] l = "noTagged" ->
                {[b EXCEPT !.tagged = @ \ noTagged],
                 [b EXCEPT !.tagged = @ \ noTagged, !.untagged = @ \ noTagged]}
          [] l = "noUntagged" ->
                {[b EXCEPT !.untagged = @ \ noUntagged],
                 [b EXCEPT !.tagged = @ \ noUntagged, !.untagged = @ \ noUntagged]}
          [] l = "tagged" ->
                {[b EXCEPT !.tagged = @ \union addTagged, !.untagged = @ \ addTagged]}
          [] l = "untagged" ->
                {[b EXCEPT !.tagged = @ \ addUntagged, !.untagged = @ \union addUntagged]}
          [] l = "address" -> {[b EXCEPT !.dhcp = want.dhcp]}

(* VLAN u, while members become untagged elsewhere: a port has one         *)
(* untagged home.                                                          *)
Lose(b, members) ==
    IF b = NoBlock THEN b ELSE [b EXCEPT !.untagged = @ \ members]

(* The running configurations that may follow when the switch accepts line *)
(* l of the block from current to want, in the context of VLAN v.          *)
Accept(running, v, l, current, want) ==
    LET taken == IF l = "untagged"
                 THEN MemberAdd(Known(current).untagged, want.untagged)
                 ELSE {}
    IN  IF l = "vlan"
        THEN {[running EXCEPT ![v] = IF @ = NoBlock THEN NewBlock ELSE @]}
        ELSE IF l = "exit" \/ running[v] = NoBlock
        THEN {running}
        ELSE {[u \in Vlan |-> IF u = v THEN b ELSE Lose(running[u], taken)] :
                b \in AcceptInBlock(running[v], l, current, want)}

(* `no vlan` stops at a [y/n] prompt when it would orphan a port.          *)
Prompts(b) == b # NoBlock /\ b.untagged # {}

(* The switch accepts `no vlan v`: the ports that were untagged in v move  *)
(* to the default VLAN, which no aoss_vlan resource here manages.          *)
Forget(running, v) == [running EXCEPT ![v] = NoBlock]

(* The block is what the resource asks for.                                *)
Matches(b, want) ==
    /\ b # NoBlock
    /\ want.name \in {NoName, b.name}
    /\ b.tagged = want.tagged
    /\ b.untagged = want.untagged
    /\ b.dhcp = want.dhcp

-----------------------------------------------------------------------------

(* b is the block on the switch when the lines that move current to want   *)
(* are sent, but for those in block.                                       *)
Applied(b, current, want, block) ==
    LET c == Known(current)
    IN  /\ b \in Config
        /\ "name" \notin block => want.name \in {NoName, b.name}
        /\ b.tagged = (IF "noTagged" \in block THEN c.tagged
                       ELSE c.tagged \intersect want.tagged)
                      \union (IF "tagged" \in block THEN {} ELSE want.tagged)
        /\ b.untagged = (IF "noUntagged" \in block THEN c.untagged
                         ELSE c.untagged \intersect want.untagged)
                        \union (IF "untagged" \in block THEN {} ELSE want.untagged)
        /\ b.dhcp = IF "address" \in block THEN c.dhcp ELSE want.dhcp

(* SendConfig has sent a prefix of the lines that move current to want;    *)
(* those in block are still to go, and b is the block on the switch.       *)
Partway(b, current, want, block) ==
    /\ block \subseteq BuildVLANConfig(current, want)
    /\ "exit" \in block
    /\ \A l \in block, k \in BuildVLANConfig(current, want) :
            Rank[l] <= Rank[k] => k \in block
    /\ IF "vlan" \in block THEN b = current ELSE Applied(b, current, want, block)

(* b has the members that current and want both have, and none that        *)
(* neither has; it has the address setting of one of them.                 *)
Between(b, current, want) ==
    LET now == Known(b)
        c == Known(current)
    IN  /\ c.tagged \intersect want.tagged \subseteq now.tagged
        /\ c.untagged \intersect want.untagged \subseteq now.untagged
        /\ now.tagged \subseteq c.tagged \union want.tagged
        /\ now.untagged \subseteq c.untagged \union want.untagged
        /\ now.dhcp \in {c.dhcp, want.dhcp}
=============================================================================
