------------------------- MODULE InterfaceResource -------------------------
(***************************************************************************)
(* The aoss_interface handlers: aossInterfaceRead, aossInterfaceWrite      *)
(* (create and update) and aossInterfaceDelete, one instance per managed   *)
(* port, within the frame of Handlers; and the ports of the switch: which  *)
(* are there, which have a link, and what their `interface` blocks say.    *)
(*                                                                         *)
(* External: the switch, which takes a line, rejects it or loses the       *)
(* connection over it, and knows no port that is not on the chassis; and   *)
(* the people who edit a block, pull a module or unplug a cable.           *)
(***************************************************************************)
EXTENDS Handlers, Naturals

CONSTANTS Managed,      \* the ports with an aoss_interface instance
          Name,         \* names a resource or an operator may give a port
          NoName,       \* the empty name
          BlockWanted,  \* the resource configurations
          BlockEdits,   \* the blocks an operator may put on the console
          Pluggable,    \* ports on a module that may be pulled
          Cabled        \* ports whose link may come and go

(* client.InterfaceConfig without the port.                                *)
Block == [name : Name \union {NoName}, shutdown : BOOLEAN]

(* The zero InterfaceConfig: what a map without the port gives, which is   *)
(* the block of a port without a `name` or `disable` line.                 *)
Cleared == [name |-> NoName, shutdown |-> FALSE]

Line == {"interface", "name", "shutdown", "exit"}

ASSUME InterfaceAssumption ==
    /\ Managed \subseteq Port \intersect (Op \ Reader)
    /\ NoName \notin Name
    /\ BlockWanted \subseteq Block
    /\ BlockWanted # {}
    /\ BlockEdits \subseteq Block
    /\ Pluggable \subseteq Port
    /\ Cabled \subseteq Port

VARIABLES chassis,     \* the ports that are there
          links,       \* the ports whose cable leads to a live peer
          blocks,      \* the block of each port in the running configuration
          blockWant,   \* the configuration an instance applies
          blockRead,   \* the block a handler read (or took for granted)
          todo         \* the lines SendConfig has yet to send

portVars == <<chassis, links, blocks>>
interfaceVars == <<portVars, blockWant, blockRead, todo>>

InterfaceTypeOK ==
    /\ chassis \in SUBSET Port
    /\ links \in SUBSET Port
    /\ blocks \in [Port -> Block]
    /\ blockWant \in [Managed -> Block]
    /\ blockRead \in [Managed -> Block]
    /\ todo \in [Managed -> SUBSET Line]

InterfaceInit ==
    /\ chassis = Port
    /\ links = Cabled
    /\ blocks \in {[p \in Port |-> IF p \in Managed \intersect scenario.plan
                                   THEN b ELSE Cleared] : b \in BlockEdits}
    /\ blockWant = [p \in Managed |-> Cleared]
    /\ blockRead = [p \in Managed |-> Cleared]
    /\ todo = [p \in Managed |-> {}]

-----------------------------------------------------------------------------
(* The configuration block                                                 *)

Field == {"name", "shutdown"}

Rank == [interface |-> 1, name |-> 2, shutdown |-> 3, exit |-> 4]

\* A slip to rule out: an early return for a name that stays.
BuildByName(c, w) ==
    LET changed == {f \in Field : c[f] # w[f]}
    IN  IF c.name = w.name /\ c # Cleared THEN {}
        ELSE changed \union {"interface", "exit"}

(* The lines that take a port from block c (Cleared when there is none) to *)
(* w: none when there is a block and it does not change.                   *)
BuildInterfaceConfig(c, w) ==
    LET changed == {f \in Field : c[f] # w[f]}
    IN  IF changed = {} /\ c # Cleared THEN {}
        ELSE changed \union {"interface", "exit"}

(* The lines that clear a port: `no name`, `enable`.                       *)
BuildInterfaceDeleteBlock(c) ==
    LET changed == {f \in Field : c[f] # Cleared[f]}
    IN  IF changed = {} THEN {} ELSE changed \union {"interface", "exit"}

IsNext(l, lines) == l \in lines /\ \A k \in lines : Rank[l] <= Rank[k]

-----------------------------------------------------------------------------
(* Terraform core calls a handler.                                         *)

StartInterface(p) ==
    /\ \/ /\ Create(p) \/ Update(p)
          /\ \E w \in BlockWanted : blockWant' = [blockWant EXCEPT ![p] = w]
       \/ Read(p) /\ UNCHANGED blockWant
       \/ Delete(p) /\ blockWant' = [blockWant EXCEPT ![p] = Cleared]
    /\ UNCHANGED <<portVars, blockRead, todo>>

(* A read looks first whether the port is there.  A create reads nothing,  *)
(* and takes the port to have no block.                                    *)
OpenInterface(p) ==
    /\ \/ op[p] = "read" /\ OpenSucceeds(p, "summary", FALSE) /\ UNCHANGED todo
       \/ op[p] \in {"update", "delete"} /\ OpenSucceeds(p, "show", FALSE) /\ UNCHANGED todo
       \/ /\ op[p] = "create"
          /\ OpenSucceeds(p, "send", blocks[p] # Cleared)
          /\ todo' = [todo EXCEPT ![p] = BuildInterfaceConfig(Cleared, blockWant[p])]
    /\ UNCHANGED <<portVars, blockWant, blockRead>>

-----------------------------------------------------------------------------
(* The handlers, between openSwitch and closeSwitch                        *)

(* portExists                                                              *)
PortExists(p) ==
    /\ InBody(p, "summary")
    /\ Fresh(p)
    /\ IF p \in chassis THEN Goto(p, "show") /\ UNCHANGED id
                        ELSE Finish(p, "ok") /\ SetId(p, FALSE)
    /\ UNCHANGED <<interfaceVars, made>>

(* Send the lines, or return when there are none.                          *)
SendOrReturn(p, lines) ==
    /\ todo' = [todo EXCEPT ![p] = lines]
    /\ IF lines = {} THEN Finish(p, "ok") ELSE Goto(p, "send")

(* readInterfaces: the second look of a read, the first of an update or a  *)
(* delete.                                                                 *)
ReadInterfaces(p) ==
    /\ InBody(p, "show")
    /\ blockRead' = [blockRead EXCEPT ![p] = blocks[p]]
    /\ \/ op[p] = "read" /\ SetId(p, TRUE) /\ Finish(p, "ok") /\ UNCHANGED <<todo, stale>>
       \/ /\ op[p] = "update" /\ Fresh(p) /\ UNCHANGED id
          /\ SendOrReturn(p, BuildInterfaceConfig(blocks[p], blockWant[p]))
       \/ /\ op[p] = "delete" /\ Fresh(p) /\ UNCHANGED id
          /\ SendOrReturn(p, BuildInterfaceDeleteBlock(blocks[p]))
    /\ UNCHANGED <<portVars, blockWant, made>>

(* Line l takes effect: a field of the block is as the handler wants it.   *)
ApplyLine(p, l) ==
    /\ blocks' = IF l \in Field
                 THEN [blocks EXCEPT ![p] = [@ EXCEPT ![l] = blockWant[p][l]]]
                 ELSE blocks
    /\ made' = [made EXCEPT ![p] = blocks'[p] # Cleared /\ (@ \/ blocks[p] = Cleared)]

IgnoreLine == UNCHANGED <<blocks, made>>

(* SendConfig: one line, read back to the next prompt.  The switch may     *)
(* refuse a `no name` in words that are no failure indicator.              *)
SendLine(p) ==
    /\ InBody(p, "send") /\ p \in chassis
    /\ \E l \in todo[p] :
        /\ IsNext(l, todo[p])
        /\ ApplyLine(p, l) \/ (op[p] = "delete" /\ IgnoreLine)
        /\ todo' = [todo EXCEPT ![p] = @ \ {l}]
        /\ IF l # "exit" THEN Goto(p, "send")
           ELSE IF op[p] = "delete" THEN Goto(p, "verify")
           ELSE Finish(p, "ok")
    /\ UNCHANGED <<chassis, links, blockWant, blockRead, id, stale>>

(* SendConfig: the switch rejects a line, as it does the first one for a   *)
(* port that is not there, or the connection fails before or after the     *)
(* line took effect.  The rest of the block is not sent.                   *)
SendLineFails(p) ==
    /\ InBody(p, "send")
    /\ \/ IgnoreLine
       \/ p \in chassis /\ \E l \in todo[p] : IsNext(l, todo[p]) /\ ApplyLine(p, l)
    /\ Finish(p, "error")
    /\ UNCHANGED <<chassis, links, blockWant, blockRead, todo, id, stale>>

\* A slip to rule out: trusting SendConfig instead of the running config.
VerifyClearedByTrust(p) ==
    /\ InBody(p, "verify")
    /\ Finish(p, "ok")
    /\ UNCHANGED <<interfaceVars, id, stale, made>>

(* The second readInterfaces of a delete.                                  *)
VerifyCleared(p) ==
    /\ InBody(p, "verify")
    /\ Fresh(p)
    /\ Finish(p, IF blocks[p] = Cleared THEN "ok" ELSE "error")
    /\ UNCHANGED <<interfaceVars, id, made>>

ReturnInterface(p) ==
    /\ Return(p)
    /\ blockWant' = [blockWant EXCEPT ![p] = Cleared]
    /\ blockRead' = [blockRead EXCEPT ![p] = Cleared]
    /\ todo' = [todo EXCEPT ![p] = {}]
    /\ UNCHANGED portVars

InterfaceBody(p) ==
    PortExists(p) \/ ReadInterfaces(p) \/ SendLine(p) \/ SendLineFails(p) \/ VerifyCleared(p)

-----------------------------------------------------------------------------
(* The people around the switch                                            *)

(* The operator gives port p the block b.                                  *)
EditBlock(p, b) ==
    /\ "blocks" \in scenario.people
    /\ blocks[p] # b
    /\ blocks' = [blocks EXCEPT ![p] = b]
    /\ BehindTheBackOf(Reader \union {p})
    /\ made' = [o \in Op |-> made[o] /\ (o = p => b # Cleared)]
    /\ UNCHANGED <<muVars, scenario, op, at, id, result, state>>
    /\ UNCHANGED <<chassis, links, blockWant, blockRead, todo>>

(* The module with port p is pulled or put back.  Its block stays in the   *)
(* running configuration, but it is no longer the provider's.              *)
Replug(p) ==
    /\ "modules" \in scenario.people
    /\ chassis' = IF p \in chassis THEN chassis \ {p} ELSE chassis \union {p}
    /\ BehindTheBackOf(Reader \union {p})
    /\ made' = [o \in Op |-> made[o] /\ o # p]
    /\ UNCHANGED <<muVars, scenario, op, at, id, result, state>>
    /\ UNCHANGED <<links, blocks, blockWant, blockRead, todo>>

(* The cable of port p is pulled or put back, or the peer goes or comes.   *)
Relink(p) ==
    /\ "cables" \in scenario.people
    /\ links' = IF p \in links THEN links \ {p} ELSE links \union {p}
    /\ BehindTheBackOf(Reader)
    /\ UNCHANGED <<muVars, scenario, op, at, id, result, state, made>>
    /\ UNCHANGED <<chassis, blocks, blockWant, blockRead, todo>>

-----------------------------------------------------------------------------

(* Part of the way from block c to block w, the lines `left` to be sent.   *)
Partway(b, c, w, left) ==
    \A f \in Field : b[f] = IF f \in left THEN c[f] ELSE w[f]

InterfacePoint(p) ==
    /\ at[p] # "detail"
    /\ at[p] = "send" => "exit" \in todo[p]
    /\ op[p] = "create" \/ pc[p] \in {"idle", "lock", "new", "open"}
            => blockRead[p] = Cleared
    /\ op[p] = "delete" => blockWant[p] = Cleared
    /\ made[p] => blocks[p] # Cleared /\ p \in chassis

(* What the handler knows of its port is true, unless the port changed     *)
(* behind its back: while a block is sent, a field is as it was read until *)
(* its line is sent, and as wanted from then on.                           *)
KnowsInterface(p) ==
    \/ stale[p]
    \/ /\ at[p] = "send" /\ Writes(p)
            => Partway(blocks[p], blockRead[p], blockWant[p], todo[p])
       /\ at[p] = "show" /\ op[p] = "read" => p \in chassis
       /\ Answered(p) /\ Writes(p) => blocks[p] = blockWant[p]
       /\ Answered(p) /\ op[p] = "delete" => blocks[p] = Cleared
       /\ Answered(p) /\ op[p] = "read" /\ ~id[p] => p \notin chassis

(* A write that reports success has brought name and shutdown to what the  *)
(* resource asks for, whatever they were when they were read, although     *)
(* only the lines that differ are sent, one by one.                        *)
InterfaceWriteReaches ==
    \A p \in Managed :
        Answered(p) /\ Writes(p) => stale[p] \/ blocks[p] = blockWant[p]
=============================================================================
