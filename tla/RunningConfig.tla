--------------------------- MODULE RunningConfig ---------------------------
(***************************************************************************)
(* ParseRunningConfigVLANs, ParseRunningConfigInterfaces and               *)
(* ParseRunningConfigTrunks: the line scanners over the output of          *)
(* `show running-config`, one line per step, all over the same text.  The  *)
(* text may end after any line, for all that the scanners know.            *)
(***************************************************************************)
EXTENDS Integers, Sequences

CONSTANTS Vlan, Port,  \* VLAN ids and port numbers with a block in the text
          OutOfRange,  \* a number that a scanner refuses in a header: of a
                       \* port past MaxPort, of a VLAN past any int
          Trunk, Mode, \* trunks with a line in the text, and their modes
          Member,      \* port numbers and trunk circuits
          Name,        \* names in the text
          NoName,      \* the empty name
          Malformed,   \* a list that ParseMemberRange or parseTrunkPorts refuses
          None,        \* no block; no VLAN or port
          MaxLines     \* bound on the length of the text

ASSUME NoneAssumption == None \notin Vlan \union Port \union {OutOfRange}

ASSUME OutOfRangeAssumption == OutOfRange \notin Vlan \union Port

ASSUME MalformedAssumption ==
    /\ \A M \in SUBSET Member : Malformed # M
    /\ \A P \in SUBSET Port : Malformed # P

-----------------------------------------------------------------------------
(* The text: lines at the root, and indented statements of the block that  *)
(* a line at the root opens.                                               *)

VLANHeader(v) == [kind |-> "vlan", id |-> v]

InterfaceHeader(p) == [kind |-> "interface", id |-> p]

TrunkLine == [kind : {"trunk"}, id : Trunk, mode : Mode,
              ports : ((SUBSET Port) \ {{}}) \union {Malformed}]

Other == [kind |-> "other"]

Root == {VLANHeader(v) : v \in Vlan \union {OutOfRange}}
        \union {InterfaceHeader(p) : p \in Port \union {OutOfRange}}
        \union TrunkLine
        \union {Other}

Kind == {"tagged", "untagged"}

MemberList == ((SUBSET Member) \ {{}}) \union {Malformed}

MemberLine == [kind : Kind, no : BOOLEAN, members : MemberList]

Statement == [kind : {"name"}, name : Name]
             \union MemberLine
             \union [kind : {"address"}, dhcp : BOOLEAN]
             \union [kind : {"disable", "exit"}]

Line == Root \union Statement

VARIABLES text,      \* history: the lines so far
          vlans,     \* ParseRunningConfigVLANs: the map it returns,
          vlan,      \* the VLAN whose block it is in, or None,
          cur,       \* that block so far,
          vlanErr,   \* and its error return
          ifaces,    \* ParseRunningConfigInterfaces: the map it returns,
          number,    \* the port whose block it is in, or None,
          iface,     \* that block so far, or None if nothing was in it,
          ifaceErr,  \* and its error return
          trunks,    \* ParseRunningConfigTrunks: the map it returns,
          trunkErr   \* and its error return

vlanVars == <<vlans, vlan, cur, vlanErr>>
ifaceVars == <<ifaces, number, iface, ifaceErr>>
trunkVars == <<trunks, trunkErr>>
vars == <<text, vlanVars, ifaceVars, trunkVars>>

(* VLANConfig, InterfaceConfig and TrunkConfig.                            *)
VLANConfig == [name : Name \union {NoName}, tagged : SUBSET Member,
               untagged : SUBSET Member, dhcp : BOOLEAN]

InterfaceConfig == [name : Name \union {NoName}, shutdown : BOOLEAN]

TrunkConfig == [ports : (SUBSET Port) \ {{}}, mode : Mode]

EmptyVLAN == [name |-> NoName, tagged |-> {}, untagged |-> {}, dhcp |-> FALSE]

EmptyInterface == [name |-> NoName, shutdown |-> FALSE]

ASSUME ConfigAssumption ==
    \A c \in VLANConfig \union InterfaceConfig \union TrunkConfig : None # c

TypeOK ==
    /\ text \in Seq(Line)
    /\ vlans \in [Vlan -> VLANConfig \union {None}]
    /\ vlan \in Vlan \union {None}
    /\ cur \in VLANConfig
    /\ vlanErr \in BOOLEAN
    /\ ifaces \in [Port -> InterfaceConfig \union {None}]
    /\ number \in Port \union {None}
    /\ iface \in InterfaceConfig \union {None}
    /\ ifaceErr \in BOOLEAN
    /\ trunks \in [Trunk -> TrunkConfig \union {None}]
    /\ trunkErr \in BOOLEAN

Init ==
    /\ text = <<>>
    /\ vlans = [v \in Vlan |-> None] /\ vlan = None
    /\ cur = EmptyVLAN /\ vlanErr = FALSE
    /\ ifaces = [p \in Port |-> None] /\ number = None
    /\ iface = None /\ ifaceErr = FALSE
    /\ trunks = [t \in Trunk |-> None] /\ trunkErr = FALSE

-----------------------------------------------------------------------------
(* ParseRunningConfigVLANs                                                 *)

(* flush: the block it is in goes into the map.                            *)
Flushed == IF vlan = None THEN vlans ELSE [vlans EXCEPT ![vlan] = cur]

\* A slip to rule out: a second block of a VLAN starts afresh.
OpenVLANAfresh(l) ==
    /\ l.kind = "vlan" /\ l.id \in Vlan
    /\ vlans' = Flushed
    /\ vlan' = l.id
    /\ cur' = EmptyVLAN
    /\ UNCHANGED vlanErr

(* A `vlan` header: a second block of a VLAN adds to the first.            *)
OpenVLAN(l) ==
    /\ l.kind = "vlan" /\ l.id \in Vlan
    /\ vlans' = Flushed
    /\ vlan' = l.id
    /\ cur' = IF Flushed[l.id] = None THEN EmptyVLAN ELSE Flushed[l.id]
    /\ UNCHANGED vlanErr

(* A header whose number Atoi refuses ends the whole read.                 *)
RefuseVLAN(l) ==
    /\ l.kind = "vlan" /\ l.id \notin Vlan
    /\ vlans' = Flushed
    /\ vlan' = None
    /\ vlanErr' = TRUE
    /\ UNCHANGED cur

\* A slip to rule out: only `exit` and the next `vlan` line end a block.
LeaveVLANOnExit(l) ==
    /\ l.kind = "exit" \/ (l \in Root /\ l.kind # "vlan")
    /\ vlans' = Flushed
    /\ vlan' = IF l.kind = "exit" THEN None ELSE vlan
    /\ UNCHANGED <<cur, vlanErr>>

\* A slip to rule out: the block that an `exit` ends is not flushed.
LeaveVLANUnflushed(l) ==
    /\ l.kind = "exit" \/ (l \in Root /\ l.kind # "vlan")
    /\ vlan' = None
    /\ UNCHANGED <<vlans, cur, vlanErr>>

(* `exit`, or any other line at the root.                                  *)
LeaveVLAN(l) ==
    /\ l.kind = "exit" \/ (l \in Root /\ l.kind # "vlan")
    /\ vlans' = Flushed
    /\ vlan' = None
    /\ UNCHANGED <<cur, vlanErr>>

(* A statement of some other block, or one that is of no interest.         *)
SkipStatement(l) ==
    /\ l \in Statement /\ l.kind # "exit"
    /\ vlan = None \/ l.kind = "disable"
    /\ UNCHANGED vlanVars

unionMembers(a, b) == a \union b

subtractMembers(a, b) == a \ b

(* The member list that a statement leaves of a.                           *)
Membership(a, l) ==
    IF l.no THEN subtractMembers(a, l.members) ELSE unionMembers(a, l.members)

(* name, tagged and untagged with their no-forms, and the address.         *)
TakeStatement(l) ==
    /\ vlan # None
    /\ \/ l.kind = "name" /\ cur' = [cur EXCEPT !.name = l.name]
       \/ /\ l.kind = "tagged" /\ l.members # Malformed
          /\ cur' = [cur EXCEPT !.tagged = Membership(@, l)]
       \/ /\ l.kind = "untagged" /\ l.members # Malformed
          /\ cur' = [cur EXCEPT !.untagged = Membership(@, l)]
       \/ l.kind = "address" /\ cur' = [cur EXCEPT !.dhcp = l.dhcp]
    /\ UNCHANGED <<vlans, vlan, vlanErr>>

(* A member list that does not parse ends the whole read.                  *)
RefuseMembers(l) ==
    /\ vlan # None
    /\ l.kind \in Kind /\ l.members = Malformed
    /\ vlanErr' = TRUE
    /\ UNCHANGED <<vlans, vlan, cur>>

ScanVLANs(l) ==
    IF vlanErr THEN UNCHANGED vlanVars
    ELSE \/ OpenVLAN(l) \/ RefuseVLAN(l) \/ LeaveVLAN(l)
         \/ SkipStatement(l) \/ TakeStatement(l) \/ RefuseMembers(l)

-----------------------------------------------------------------------------
(* ParseRunningConfigInterfaces                                            *)

(* A line at the root closes the block; one with nothing in it is left out. *)
Closed ==
    IF number # None /\ iface # None THEN [ifaces EXCEPT ![number] = iface] ELSE ifaces

(* A line at the root, which may open a block of its own.                  *)
OpenInterface(l) ==
    /\ l.kind = "interface" /\ l.id \in Port
    /\ ifaces' = Closed
    /\ number' = l.id
    /\ iface' = None
    /\ UNCHANGED ifaceErr

\* A slip to rule out: only `interface` lines close a block.
LeaveInterfaceOpen(l) ==
    /\ l \in Root /\ l.kind # "interface"
    /\ UNCHANGED ifaceVars

LeaveInterface(l) ==
    /\ l \in Root /\ l.kind # "interface"
    /\ ifaces' = Closed
    /\ number' = None
    /\ iface' = None
    /\ UNCHANGED ifaceErr

RefuseInterface(l) ==
    /\ l.kind = "interface" /\ l.id \notin Port
    /\ ifaceErr' = TRUE
    /\ ifaces' = Closed
    /\ number' = None
    /\ iface' = None

Carried == IF iface = None THEN EmptyInterface ELSE iface

(* `name` and `disable`; the others, `exit` included, leave the block open. *)
InInterface(l) ==
    /\ l \in Statement
    /\ iface' =
        IF number = None THEN iface
        ELSE IF l.kind = "name" THEN [Carried EXCEPT !.name = l.name]
        ELSE IF l.kind = "disable" THEN [name |-> Carried.name, shutdown |-> TRUE]
        ELSE iface
    /\ UNCHANGED <<ifaces, number, ifaceErr>>

ScanInterfaces(l) ==
    IF ifaceErr THEN UNCHANGED ifaceVars
    ELSE OpenInterface(l) \/ LeaveInterface(l) \/ RefuseInterface(l) \/ InInterface(l)

-----------------------------------------------------------------------------
(* ParseRunningConfigTrunks                                                *)

(* A `trunk` line: a later one of the same trunk replaces an earlier.      *)
TakeTrunk(l) ==
    /\ l.kind = "trunk" /\ l.ports # Malformed
    /\ trunks' = [trunks EXCEPT ![l.id] = [ports |-> l.ports, mode |-> l.mode]]
    /\ UNCHANGED trunkErr

\* A slip to rule out: skipping a trunk whose ports do not parse.
SkipMalformedTrunk(l) ==
    /\ l.kind = "trunk" /\ l.ports = Malformed
    /\ UNCHANGED trunkVars

(* Ports that do not parse end the whole read.                             *)
RefuseTrunk(l) ==
    /\ l.kind = "trunk" /\ l.ports = Malformed
    /\ trunkErr' = TRUE
    /\ UNCHANGED trunks

SkipLine(l) == l.kind # "trunk" /\ UNCHANGED trunkVars

ScanTrunks(l) ==
    IF trunkErr THEN UNCHANGED trunkVars
    ELSE TakeTrunk(l) \/ RefuseTrunk(l) \/ SkipLine(l)

-----------------------------------------------------------------------------

(* A statement follows the header of its block or another statement of it. *)
MayFollow(l) ==
    /\ Len(text) < MaxLines
    /\ l \in Statement => text # <<>> /\ text[Len(text)].kind # "exit"

ReadLine(l) ==
    /\ MayFollow(l)
    /\ text' = Append(text, l)
    /\ ScanVLANs(l)
    /\ ScanInterfaces(l)
    /\ ScanTrunks(l)

Next == \E l \in Line : ReadLine(l)

Spec == Init /\ [][Next]_vars

-----------------------------------------------------------------------------
(* What the text says, without a scanner: the block whose header is at h   *)
(* reaches line n if no line at the root comes between.                    *)

At == 1..Len(text)

Reaches(h, n) == h < n /\ \A k \in (h + 1)..(n - 1) : text[k] \notin Root

InVLAN(v, n) == \E h \in At : text[h] = VLANHeader(v) /\ Reaches(h, n)

(* The statements of a kind in all the blocks of VLAN v.                   *)
Says(v, kind) == {n \in At : text[n].kind = kind /\ InVLAN(v, n)}

Latest(S) == CHOOSE n \in S : \A k \in S : k <= n

(* m is a member if the last statement that names it says so.              *)
IsMember(v, kind, m) ==
    \E n \in Says(v, kind) :
        /\ m \in text[n].members /\ ~text[n].no
        /\ \A k \in Says(v, kind) : k > n /\ m \in text[k].members => ~text[k].no

Effective(v) ==
    IF \A h \in At : text[h] # VLANHeader(v) THEN None
    ELSE [name |-> IF Says(v, "name") = {} THEN NoName
                   ELSE text[Latest(Says(v, "name"))].name,
          tagged |-> {m \in Member : IsMember(v, "tagged", m)},
          untagged |-> {m \in Member : IsMember(v, "untagged", m)},
          dhcp |-> /\ Says(v, "address") # {}
                   /\ text[Latest(Says(v, "address"))].dhcp]

(* The read of VLANs refuses the text for a malformed member list in a     *)
(* block of a VLAN or a header out of range, and for nothing else.         *)
(* What it returns otherwise is, for every VLAN, what the statements of    *)
(* its blocks add up to: the latest one counts, member by member.          *)
VLANsAreEffective ==
    IF \/ \E h \in At : text[h] = VLANHeader(OutOfRange)
       \/ \E v \in Vlan, kind \in Kind : \E n \in Says(v, kind) : text[n].members = Malformed
    THEN vlanErr
    ELSE ~vlanErr /\ Flushed = [v \in Vlan |-> Effective(v)]

(* The scanner is in the block that reaches the next line, and its map has *)
(* the VLANs with a block in the text.                                     *)
Position ==
    \A v \in Vlan :
        /\ vlan = v <=> InVLAN(v, Len(text) + 1) /\ text[Len(text)].kind # "exit"
        /\ Flushed[v] = None <=> \A h \in At : text[h] # VLANHeader(v)

(* What the block whose header is at h says of its port, if anything.      *)
SaidIn(h) ==
    LET Of(kind) == {n \in At : Reaches(h, n) /\ text[n].kind = kind}
    IN  IF Of("name") = {} /\ Of("disable") = {} THEN None
        ELSE [name |-> IF Of("name") = {} THEN NoName ELSE text[Latest(Of("name"))].name,
              shutdown |-> Of("disable") # {}]

(* The headers of the blocks of port p that say something.                 *)
Carrying(p) == {h \in At : text[h] = InterfaceHeader(p) /\ SaidIn(h) # None}

EffectiveInterface(p) ==
    IF Carrying(p) = {} THEN None ELSE SaidIn(Latest(Carrying(p)))

(* A port is in the map when a block of it has a name or a disable line,   *)
(* with what the latest such block says; a line of another block, though   *)
(* it reads the same, is not the port's.  Only a port out of range is      *)
(* refused.                                                                *)
InterfacesAreEffective ==
    IF \E h \in At : text[h] = InterfaceHeader(OutOfRange)
    THEN ifaceErr
    ELSE ~ifaceErr /\ Closed = [p \in Port |-> EffectiveInterface(p)]

(* The scanner is in the block that reaches the next line, and has what    *)
(* that block says so far.                                                 *)
InterfacePosition ==
    LET Open(p) == {h \in At : text[h] = InterfaceHeader(p) /\ Reaches(h, Len(text) + 1)}
    IN  \A p \in Port :
            /\ number = p <=> Open(p) # {}
            /\ \A h \in Open(p) : iface = SaidIn(h)

(* The lines of trunk t.                                                   *)
LinesOf(t) == {n \in At : text[n].kind = "trunk" /\ text[n].id = t}

EffectiveTrunk(t) ==
    IF LinesOf(t) = {} THEN None
    ELSE LET n == Latest(LinesOf(t))
         IN  [ports |-> text[n].ports, mode |-> text[n].mode]

(* A trunk is in the map when it has a line, with what its latest line     *)
(* says; ports that do not parse, in the line of any trunk, are refused    *)
(* and never make that trunk look absent.                                  *)
TrunksAreEffective ==
    IF \E n \in At : text[n].kind = "trunk" /\ text[n].ports = Malformed
    THEN trunkErr
    ELSE ~trunkErr /\ trunks = [t \in Trunk |-> EffectiveTrunk(t)]

(* A text that is cut short shows no VLAN, port or trunk that the whole    *)
(* one does not, and is not refused if the whole one is not: each line     *)
(* that is missing would have changed only the block it stands in, the one *)
(* the cut is in or a later one, and would have taken nothing out of the   *)
(* maps.  Within the block that the cut is in, members may be missing, or  *)
(* there still for want of the `no untagged` that withdraws them.          *)
ReadOnlyGrows ==
    [][/\ \A v \in Vlan :
            (Flushed')[v] # Flushed[v] => vlan' = v /\ (Flushed')[v] # None
       /\ \A p \in Port :
            (Closed')[p] # Closed[p] => number' = p /\ (Closed')[p] # None
       /\ \A t \in Trunk : trunks'[t] # trunks[t] => trunks'[t] # None
       /\ (vlanErr => vlanErr') /\ (ifaceErr => ifaceErr') /\ (trunkErr => trunkErr')]_vars

(* The inductive invariant of the three scans.                             *)
ScanInv ==
    /\ TypeOK
    /\ ~vlanErr => Position
    /\ VLANsAreEffective
    /\ ~ifaceErr => InterfacePosition
    /\ InterfacesAreEffective
    /\ TrunksAreEffective
=============================================================================
