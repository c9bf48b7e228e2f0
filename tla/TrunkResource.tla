--------------------------- MODULE TrunkResource ---------------------------
(***************************************************************************)
(* The aoss_trunk handlers: aossTrunkRead, aossTrunkWrite (create and      *)
(* update) and aossTrunkDelete, one instance per trunk, within the frame   *)
(* of Handlers; and `trunk` lines on the switch.  A port is a member of    *)
(* one trunk at most, so a write of one trunk may take a port from another.*)
(*                                                                         *)
(* External: what the switch makes of a `trunk` line (the ports it names   *)
(* join; whether the ports it no longer names leave is nowhere in the code *)
(* or the fixtures, so both are possible), and the operator's console.     *)
(***************************************************************************)
EXTENDS Handlers

CONSTANTS Trunk,         \* the trunks, one aoss_trunk instance each
          Mode,          \* "trunk", "lacp"
          NoTrunk,       \* no `trunk` line
          TrunkWanted,   \* the resource configurations
          TrunkEdits     \* what an operator may put in place of a trunk

(* client.TrunkConfig; its ports are a sorted list without duplicates.     *)
TrunkConfig == [ports : (SUBSET Port) \ {{}}, mode : Mode]

ASSUME TrunkAssumption ==
    /\ Trunk \subseteq Op \ Reader
    /\ TrunkWanted \subseteq TrunkConfig
    /\ TrunkWanted # {}
    /\ TrunkEdits \subseteq TrunkConfig \union {NoTrunk}
    /\ NoTrunk \notin TrunkConfig

VARIABLES trunks,      \* the `trunk` lines of the running configuration
          trunkWant,   \* the configuration of each instance
          trunkRead    \* the trunk a handler read (or nil)

trunkVars == <<trunks, trunkWant, trunkRead>>

PortsOf(c) == IF c = NoTrunk THEN {} ELSE c.ports

(* What readTrunks returns: for each trunk its line, a port in one of them.*)
Trunks ==
    {ts \in [Trunk -> TrunkConfig \union {NoTrunk}] :
        \A t, u \in Trunk : t # u => PortsOf(ts[t]) \intersect PortsOf(ts[u]) = {}}

TrunkTypeOK ==
    /\ trunks \in Trunks
    /\ trunkWant \in [Trunk -> TrunkWanted]
    /\ trunkRead \in [Trunk -> TrunkConfig \union {NoTrunk}]

TrunkInit ==
    /\ trunks \in {ts \in Trunks : \A t \in Trunk : ts[t] \in TrunkEdits}
    /\ trunkWant \in {[t \in Trunk |-> w] : w \in TrunkWanted}
    /\ trunkRead = [t \in Trunk |-> NoTrunk]

-----------------------------------------------------------------------------
(* The switch                                                              *)

(* Ports P leave their trunk, which goes when none is left.                *)
Without(c, P) ==
    IF PortsOf(c) \subseteq P THEN NoTrunk ELSE [c EXCEPT !.ports = @ \ P]

Release(P) == [u \in Trunk |-> Without(trunks[u], P)]

(* `trunk <ports> <name> <mode>`                                           *)
Form(t, w) ==
    {[Release(w.ports) EXCEPT ![t] = [w EXCEPT !.ports = @ \union kept]] :
        kept \in {{}, PortsOf(trunks[t])}}

-----------------------------------------------------------------------------
(* Terraform core calls a handler.                                         *)

StartTrunk(t) ==
    /\ \/ /\ Create(t) \/ Update(t)
          /\ \E w \in TrunkWanted : trunkWant' = [trunkWant EXCEPT ![t] = w]
       \/ (Read(t) \/ Delete(t)) /\ UNCHANGED trunkWant
    /\ UNCHANGED <<trunks, trunkRead>>

(* A create reads nothing and takes the trunk to be absent, for which      *)
(* BuildTrunkConfig always gives a line.                                   *)
OpenTrunk(t) ==
    /\ IF op[t] = "create"
       THEN OpenSucceeds(t, "send", trunks[t] # NoTrunk)
       ELSE OpenSucceeds(t, "show", FALSE)
    /\ UNCHANGED trunkVars

-----------------------------------------------------------------------------
(* The handlers, between openSwitch and closeSwitch                        *)

\* A slip to rule out: comparing the ports and not the mode.
BuildByPorts(current, desired) ==
    ~(current # NoTrunk /\ current.ports = desired.ports)

(* Does BuildTrunkConfig give a line?                                      *)
BuildTrunkConfig(current, desired) ==
    ~(/\ current # NoTrunk
      /\ current.mode = desired.mode
      /\ current.ports = desired.ports)

(* readTrunks at the head of a read, an update or a delete.                *)
ReadTrunks(t) ==
    /\ InBody(t, "show")
    /\ Fresh(t)
    /\ trunkRead' = [trunkRead EXCEPT ![t] = trunks[t]]
    /\ \/ op[t] = "read" /\ SetId(t, trunks[t] # NoTrunk) /\ Finish(t, "ok")
       \/ /\ op[t] = "update"
          /\ IF BuildTrunkConfig(trunks[t], trunkWant[t])
             THEN Goto(t, "send") ELSE Finish(t, "ok")
          /\ UNCHANGED id
       \/ /\ op[t] = "delete"
          /\ IF trunks[t] # NoTrunk THEN Goto(t, "send") ELSE Finish(t, "ok")
          /\ UNCHANGED id
    /\ UNCHANGED <<trunks, trunkWant, made>>

\* A slip to rule out: releasing the ports of the configuration.
RemovesWanted(t) == trunkWant[t].ports

(* The ports `no trunk` names: those read.                                 *)
Removes(t) == PortsOf(trunkRead[t])

(* The line of the handler takes effect.                                   *)
ApplyTrunk(t) ==
    /\ \/ Writes(t) /\ trunks' \in Form(t, trunkWant[t])
       \/ op[t] = "delete" /\ trunks' = Release(Removes(t))
    /\ made' = [o \in Op |-> IF o \in Trunk
                             THEN /\ trunks'[o] # NoTrunk
                                  /\ made[o] \/ (o = t /\ trunks[o] = NoTrunk)
                             ELSE made[o]]

IgnoreTrunk == UNCHANGED <<trunks, made>>

(* SendConfig of a write.                                                  *)
SendTrunk(t) ==
    /\ InBody(t, "send") /\ Writes(t)
    /\ ApplyTrunk(t)
    /\ Finish(t, "ok")
    /\ UNCHANGED <<trunkWant, trunkRead, id, stale>>

(* SendConfig of `no trunk`; the switch may refuse it in words that are no *)
(* failure indicator.                                                      *)
RemoveTrunk(t) ==
    /\ InBody(t, "send") /\ op[t] = "delete"
    /\ ApplyTrunk(t) \/ IgnoreTrunk
    /\ Goto(t, "verify")
    /\ UNCHANGED <<trunkWant, trunkRead, id, stale>>

(* SendConfig fails, before or after the line took effect.                 *)
SendTrunkFails(t) ==
    /\ InBody(t, "send")
    /\ ApplyTrunk(t) \/ IgnoreTrunk
    /\ Finish(t, "error")
    /\ UNCHANGED <<trunkWant, trunkRead, id, stale>>

\* A slip to rule out: trusting SendConfig instead of the running config.
VerifyTrunkByTrust(t) ==
    /\ InBody(t, "verify")
    /\ Finish(t, "ok")
    /\ UNCHANGED <<trunkVars, id, stale, made>>

(* The second readTrunks of a delete.                                      *)
VerifyTrunk(t) ==
    /\ InBody(t, "verify")
    /\ Fresh(t)
    /\ Finish(t, IF trunks[t] = NoTrunk THEN "ok" ELSE "error")
    /\ UNCHANGED <<trunkVars, id, made>>

ReturnTrunk(t) ==
    /\ Return(t)
    /\ trunkRead' = [trunkRead EXCEPT ![t] = NoTrunk]
    /\ UNCHANGED <<trunks, trunkWant>>

TrunkBody(t) ==
    ReadTrunks(t) \/ SendTrunk(t) \/ RemoveTrunk(t) \/ SendTrunkFails(t) \/ VerifyTrunk(t)

(* The operator on the console puts c in place of a trunk in the plan.     *)
EditTrunk(t, c) ==
    /\ "trunks" \in scenario.people /\ t \in scenario.plan
    /\ trunks[t] # c
    /\ trunks' = [Release(PortsOf(c)) EXCEPT ![t] = c]
    /\ BehindTheBackOf(Reader \union {u \in Trunk : trunks'[u] # trunks[u]})
    /\ made' = [o \in Op |-> made[o] /\ (o \in Trunk => trunks'[o] # NoTrunk)]
    /\ UNCHANGED <<muVars, scenario, op, at, id, result, state, trunkWant, trunkRead>>

-----------------------------------------------------------------------------

(* What the trunk is after a write that took it from `current`: all of the *)
(* wanted ports, and of the others only some that were there.              *)
TrunkReached(t) ==
    /\ trunks[t] # NoTrunk
    /\ trunks[t].mode = trunkWant[t].mode
    /\ trunkWant[t].ports \subseteq trunks[t].ports
    /\ trunks[t].ports \subseteq trunkWant[t].ports \union PortsOf(trunkRead[t])

TrunkPoint(t) ==
    /\ at[t] \notin {"summary", "detail"}
    /\ at[t] = "send" /\ op[t] = "delete" => trunkRead[t] # NoTrunk
    /\ op[t] = "create" \/ pc[t] \in {"idle", "lock", "new", "open"}
            => trunkRead[t] = NoTrunk
    /\ made[t] => trunks[t] # NoTrunk

(* What the handler knows of its trunk is true, unless the trunk changed   *)
(* behind its back.                                                        *)
KnowsTrunk(t) ==
    \/ stale[t]
    \/ /\ at[t] = "send" => trunks[t] = trunkRead[t]
       /\ Answered(t) /\ Writes(t) => TrunkReached(t)
       /\ Answered(t) /\ op[t] = "delete" => trunks[t] = NoTrunk
       /\ Answered(t) /\ op[t] = "read" /\ ~id[t] => trunks[t] = NoTrunk

(* A write that reports success has put the wanted ports in the trunk, in  *)
(* the wanted mode, and no port that it did not find there; a write of     *)
(* another trunk, which may have taken a port in between, cannot have.     *)
TrunkWriteReaches ==
    \A t \in Trunk : Answered(t) /\ Writes(t) => stale[t] \/ TrunkReached(t)
=============================================================================
