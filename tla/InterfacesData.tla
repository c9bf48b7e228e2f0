--------------------------- MODULE InterfacesData ---------------------------
(***************************************************************************)
(* The aoss_interfaces data source, aossInterfacesRead: a picture of all   *)
(* ports and trunks, put together from several Shows of one session.  It   *)
(* sees what the trunk and interface handlers write and what people do to  *)
(* the switch, and is the reader whose Shows must belong together.         *)
(***************************************************************************)
EXTENDS TrunkResource, InterfaceResource

VARIABLES marks,      \* the ports of "show interfaces", and their kind
          config,     \* names and trunks in "show running-config"
          details,    \* port enabled and link of "show interface <port>"
          toShow      \* the ports that are yet to be shown

dataVars == <<marks, config, details, toShow>>

ASSUME DataAssumption ==
    /\ Reader \intersect (Trunk \union Port) = {}
    /\ Trunk \intersect Port = {}
    /\ Op = Trunk \union Managed \union Reader

Mark == {"absent", "physical", "trunk-member"}

(* interfaceState                                                          *)
Detail == [shutdown : BOOLEAN, running : BOOLEAN]

(* The value a map gives for a port that was not shown.                    *)
NotShown == [shutdown |-> FALSE, running |-> FALSE]

(* What the parsers take from a running configuration.                     *)
Configs ==
    [names : [Port -> Name \union {NoName}],
     trunks : [Trunk -> TrunkConfig \union {NoTrunk}]]

NoMarks == [p \in Port |-> "absent"]

NoDetails == [p \in Port |-> NotShown]

NoConfig ==
    [names |-> [p \in Port |-> NoName], trunks |-> [t \in Trunk |-> NoTrunk]]

DataTypeOK ==
    /\ marks \in [Reader -> [Port -> Mark]]
    /\ config \in [Reader -> Configs]
    /\ details \in [Reader -> [Port -> Detail]]
    /\ toShow \in [Reader -> SUBSET Port]

DataInit ==
    /\ marks = [r \in Reader |-> NoMarks]
    /\ config = [r \in Reader |-> NoConfig]
    /\ details = [r \in Reader |-> NoDetails]
    /\ toShow = [r \in Reader |-> {}]

-----------------------------------------------------------------------------
(* The switch                                                              *)

(* The row of "show interfaces": a "-Trk<N>" suffix marks a trunk's port.  *)
MarkOf(p) ==
    IF p \notin chassis THEN "absent"
    ELSE IF \E t \in Trunk : p \in PortsOf(trunks[t]) THEN "trunk-member"
    ELSE "physical"

Up(p) == p \in links /\ ~blocks[p].shutdown

DetailOf(p) == [shutdown |-> blocks[p].shutdown, running |-> Up(p)]

-----------------------------------------------------------------------------
(* The handler                                                             *)

StartData(r) == ReadData(r) /\ UNCHANGED dataVars

OpenData(r) == OpenSucceeds(r, "summary", FALSE) /\ UNCHANGED dataVars

(* "show interfaces"                                                       *)
ShowInterfaces(r) ==
    /\ InBody(r, "summary")
    /\ Fresh(r)
    /\ marks' = [marks EXCEPT ![r] = [p \in Port |-> MarkOf(p)]]
    /\ toShow' = [toShow EXCEPT ![r] = chassis]
    /\ Goto(r, "show")
    /\ UNCHANGED <<config, details, id, made>>

(* On to the next port; with none left, the rows are put together without  *)
(* another look at the switch, and the data source has its id.             *)
Proceed(r, left) ==
    IF left # {} THEN Goto(r, "detail") /\ UNCHANGED id
                 ELSE Finish(r, "ok") /\ SetId(r, TRUE)

(* "show running-config", for the names and the trunks.                    *)
ShowRunningConfig(r) ==
    /\ InBody(r, "show")
    /\ config' = [config EXCEPT ![r] =
            [names |-> [p \in Port |-> blocks[p].name], trunks |-> trunks]]
    /\ Proceed(r, toShow[r])
    /\ UNCHANGED <<marks, details, toShow, stale, made>>

\* A slip to rule out: showing a port again for as long as it has no link.
ShowInterfaceAwaitingLink(r) ==
    /\ InBody(r, "detail")
    /\ \E p \in toShow[r] \intersect chassis :
        /\ details' = [details EXCEPT ![r][p] = DetailOf(p)]
        /\ toShow' = [toShow EXCEPT ![r] = IF Up(p) THEN @ \ {p} ELSE @]
        /\ Proceed(r, toShow'[r])
    /\ UNCHANGED <<marks, config, stale, made>>

(* "show interface <port>", for one port after the other.                  *)
ShowInterface(r) ==
    /\ InBody(r, "detail")
    /\ \E p \in toShow[r] \intersect chassis :
        /\ details' = [details EXCEPT ![r][p] = DetailOf(p)]
        /\ toShow' = [toShow EXCEPT ![r] = @ \ {p}]
        /\ Proceed(r, toShow[r] \ {p})
    /\ UNCHANGED <<marks, config, stale, made>>

ReturnData(r) ==
    /\ Return(r)
    /\ marks' = [marks EXCEPT ![r] = NoMarks]
    /\ config' = [config EXCEPT ![r] = NoConfig]
    /\ details' = [details EXCEPT ![r] = NoDetails]
    /\ toShow' = [toShow EXCEPT ![r] = {}]

DataBody(r) == ShowInterfaces(r) \/ ShowRunningConfig(r) \/ ShowInterface(r)

-----------------------------------------------------------------------------
(* The rows                                                                *)

Row(kind, number, name, shutdown, running) ==
    [type |-> kind, number |-> number, name |-> name,
     shutdown |-> shutdown, running |-> running]

(* A port of the trunk that was not shown does not count as running.       *)
SomeRunning(r, ports) == \E p \in ports : details[r][p].running

(* The list of rows; its order is left out.                                *)
Rows(r) ==
    {Row(marks[r][p], p, config[r].names[p],
         details[r][p].shutdown, details[r][p].running) :
            p \in {q \in Port : marks[r][q] # "absent"}}
    \union
    {Row("logical", 0, t, FALSE, SomeRunning(r, PortsOf(config[r].trunks[t]))) :
            t \in {u \in Trunk : config[r].trunks[u] # NoTrunk}}

(* The rows that the schema describes, of the switch as it is.             *)
Truth ==
    {Row(MarkOf(p), p, blocks[p].name, blocks[p].shutdown, Up(p)) : p \in chassis}
    \union
    {Row("logical", 0, t, FALSE, \E p \in PortsOf(trunks[t]) \intersect chassis : Up(p)) :
            t \in {u \in Trunk : trunks[u] # NoTrunk}}

(* The rows belong together: what the handler has shown so far is what the *)
(* switch would show now.                                                  *)
KnowsPicture(r) ==
    \/ stale[r]
    \/ /\ at[r] \in {"show", "detail"} \/ Answered(r)
            => /\ marks[r] = [p \in Port |-> MarkOf(p)]
               /\ toShow[r] \subseteq chassis
               /\ \A p \in Port : details[r][p] =
                    IF p \in chassis \ toShow[r] THEN DetailOf(p) ELSE NotShown
       /\ at[r] = "detail" \/ Answered(r)
            => /\ config[r].names = [p \in Port |-> blocks[p].name]
               /\ config[r].trunks = trunks
       /\ Answered(r) => toShow[r] = {}

DataPoint(r) ==
    /\ op[r] \in {"none", "read"}
    /\ ~made[r]
    /\ pc[r] \in {"idle", "lock", "new", "open"} \/ at[r] = "summary"
            => details[r] = NoDetails
    /\ at[r] = "show" => details[r] = NoDetails

(* The rows of a data source that was answered are a picture of the switch *)
(* at one time, although they come from many Shows: no handler writes in   *)
(* between.                                                                *)
SnapshotIsConsistent == \A r \in Reader : Answered(r) => stale[r] \/ Rows(r) = Truth
=============================================================================
