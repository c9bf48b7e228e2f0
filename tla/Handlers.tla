------------------------------ MODULE Handlers ------------------------------
(***************************************************************************)
(* What the handlers of internal/provider have in common: Terraform core   *)
(* calls one, it opens the switch (SwitchMu), works, closes the switch,    *)
(* and Terraform keeps or drops the instance by what it returns.  The      *)
(* modules that extend this one add the work: TrunkResource,               *)
(* InterfaceResource, InterfacesData.  They set the id before they open    *)
(* the switch, so what they do to it later is to take it away.             *)
(***************************************************************************)
CONSTANTS Op,         \* the resource instances and data sources
          Reader,     \* the data sources among them
          Port,       \* the ports of the switch
          Scenarios,  \* what may be going on, see below
          NoOp        \* the free mutex, see SwitchMu

ASSUME NoOpAssumption == NoOp \notin Op

ASSUME ReaderAssumption == Reader \subseteq Op

(* In a scenario, the Terraform configuration holds the instances and data *)
(* sources of its plan, and people change what they are said to change.    *)
Change == {"trunks", "blocks", "modules", "cables"}

ASSUME ScenarioAssumption ==
    Scenarios \subseteq [plan : SUBSET Op, people : SUBSET Change]

VARIABLES pc, mu, session,   \* the session discipline, see SwitchMu
          scenario,  \* the scenario of the behaviour
          op,        \* the handler that runs for each
          at,        \* its next step between openSwitch and closeSwitch
          id,        \* is d.Id() set?
          result,    \* what the handler returns
          state,     \* the instance in the Terraform state
          stale,     \* history: the switch changed behind the handler's back
          made       \* history: the provider put its configuration there

muVars == <<pc, mu, session>>
common == <<muVars, scenario, op, at, id, result, state, stale, made>>

Mu == INSTANCE SwitchMu

Ops == {"none", "create", "read", "update", "delete"}

At == {"none", "summary", "show", "detail", "send", "verify"}

CommonTypeOK ==
    /\ Mu!TypeOK
    /\ scenario \in Scenarios
    /\ op \in [Op -> Ops]
    /\ at \in [Op -> At]
    /\ id \in [Op -> BOOLEAN]
    /\ result \in [Op -> {"ok", "error"}]
    /\ state \in [Op -> {"absent", "tainted", "present"}]
    /\ stale \in [Op -> BOOLEAN]
    /\ made \in [Op -> BOOLEAN]

CommonInit ==
    /\ Mu!Init
    /\ scenario \in Scenarios
    /\ op = [o \in Op |-> "none"]
    /\ at = [o \in Op |-> "none"]
    /\ id = [o \in Op |-> FALSE]
    /\ result = [o \in Op |-> "ok"]
    /\ state = [o \in Op |-> "absent"]
    /\ stale = [o \in Op |-> FALSE]
    /\ made = [o \in Op |-> FALSE]

-----------------------------------------------------------------------------
(* Terraform core calls a handler.                                         *)

Start(o, handler, hasId) ==
    /\ o \in scenario.plan
    /\ Mu!Enter(o)
    /\ op' = [op EXCEPT ![o] = handler]
    /\ id' = [id EXCEPT ![o] = hasId]
    /\ UNCHANGED <<scenario, at, result, state, stale, made>>

\* A slip to rule out: SetId only once the switch has answered.
CreateSettingIdLate(o) == state[o] = "absent" /\ Start(o, "create", FALSE)

(* The write of a new resource: SetId comes before openSwitch.             *)
Create(o) == state[o] = "absent" /\ Start(o, "create", TRUE)

(* The write of a resource in the state.                                   *)
Update(o) == state[o] = "present" /\ Start(o, "update", TRUE)

(* A refresh, or the read of an import.                                    *)
Read(o) == Start(o, "read", TRUE)

Delete(o) == state[o] # "absent" /\ Start(o, "delete", TRUE)

(* The read of a data source, which has an id once it was answered.        *)
ReadData(o) == Start(o, "read", state[o] # "absent")

-----------------------------------------------------------------------------
(* openSwitch                                                              *)

Acquire(o) ==
    /\ Mu!Acquire(o)
    /\ UNCHANGED <<scenario, op, at, id, result, state, stale, made>>

NewSucceeds(o) ==
    /\ Mu!NewSucceeds(o)
    /\ UNCHANGED <<scenario, op, at, id, result, state, stale, made>>

OpenFails(o) ==
    /\ Mu!NewFails(o) \/ Mu!OpenFails(o)
    /\ result' = [result EXCEPT ![o] = "error"]
    /\ UNCHANGED <<scenario, op, at, id, state, stale, made>>

(* Open succeeds, and the handler goes to its first step.  A handler that  *)
(* takes something for granted without a read may be wrong from the start. *)
OpenSucceeds(o, first, wrong) ==
    /\ Mu!OpenSucceeds(o)
    /\ at' = [at EXCEPT ![o] = first]
    /\ stale' = [stale EXCEPT ![o] = wrong]
    /\ UNCHANGED <<scenario, op, id, result, state, made>>

-----------------------------------------------------------------------------
(* Between openSwitch and closeSwitch                                      *)

InBody(o, point) == pc[o] = "body" /\ at[o] = point

Goto(o, point) ==
    /\ at' = [at EXCEPT ![o] = point]
    /\ UNCHANGED <<muVars, scenario, op, result, state>>

\* A slip to rule out: returning before closeSwitch is deferred.
FinishUndeferred(o, r) ==
    /\ Mu!BodyReturnsUndeferred(o)
    /\ at' = [at EXCEPT ![o] = "none"]
    /\ result' = [result EXCEPT ![o] = r]
    /\ UNCHANGED <<scenario, op, state>>

(* The handler returns r; its deferred closeSwitch comes next.             *)
Finish(o, r) ==
    /\ Mu!BodyReturns(o)
    /\ at' = [at EXCEPT ![o] = "none"]
    /\ result' = [result EXCEPT ![o] = r]
    /\ UNCHANGED <<scenario, op, state>>

SetId(o, b) == id' = [id EXCEPT ![o] = b]

Fresh(o) == stale' = [stale EXCEPT ![o] = FALSE]

(* The handler that has the switch, if its part of it is among S, does not *)
(* know it any more.                                                       *)
BehindTheBackOf(S) ==
    stale' = [o \in Op |-> stale[o] \/ (mu = o /\ o \in S)]

(* A Show or the parser of its output fails.                               *)
ShowFails(o) ==
    /\ at[o] \in {"summary", "show", "detail", "verify"}
    /\ Finish(o, "error")
    /\ UNCHANGED <<id, stale, made>>

-----------------------------------------------------------------------------
(* closeSwitch, and what Terraform core makes of the handler's return      *)

Close(o) ==
    /\ Mu!Close(o)
    /\ UNCHANGED <<scenario, op, at, id, result, state, stale, made>>

(* An instance without an id is dropped; a failed create with one is kept  *)
(* tainted; a failed import is not adopted; a failed delete changes        *)
(* nothing.                                                                *)
StateAfter(o) ==
    IF ~id[o] THEN "absent"
    ELSE IF op[o] = "create" THEN IF result[o] = "ok" THEN "present" ELSE "tainted"
    ELSE IF result[o] = "error" THEN state[o]
    ELSE IF op[o] = "delete" THEN "absent"
    ELSE IF state[o] = "absent" THEN "present"
    ELSE state[o]

Return(o) ==
    /\ Mu!Unlock(o)
    /\ state' = [state EXCEPT ![o] = StateAfter(o)]
    /\ op' = [op EXCEPT ![o] = "none"]
    /\ id' = [id EXCEPT ![o] = FALSE]
    /\ result' = [result EXCEPT ![o] = "ok"]
    /\ stale' = [stale EXCEPT ![o] = FALSE]
    /\ UNCHANGED <<scenario, at, made>>

-----------------------------------------------------------------------------

Writes(o) == op[o] \in {"create", "update"}

(* The handler has returned success, and nobody else has had the switch.   *)
Answered(o) == pc[o] \in {"close", "unlock"} /\ result[o] = "ok"

(* Program points, handlers and the mutex agree.                           *)
CommonInv(o) ==
    /\ op[o] = "none" <=> pc[o] = "idle"
    /\ pc[o] = "body" <=> at[o] # "none"
    /\ at[o] \in {"summary", "detail"} => op[o] = "read"
    /\ at[o] = "show" => op[o] \in {"read", "update", "delete"}
    /\ at[o] = "send" => Writes(o) \/ op[o] = "delete"
    /\ at[o] = "verify" => op[o] = "delete"
    /\ Writes(o) \/ op[o] = "delete" => id[o]
    /\ op[o] \in {"update", "delete"} => state[o] # "absent"
    /\ op[o] # "none" /\ state[o] # "absent" /\ ~id[o]
            => Answered(o) /\ o \notin Reader

(* What the provider made is in the Terraform state, or will be when the   *)
(* handler returns.                                                        *)
Kept(o) ==
    made[o] =>
        /\ pc[o] = "idle" => state[o] # "absent"
        /\ pc[o] # "idle" => id[o] /\ (op[o] = "create" \/ state[o] # "absent")
        /\ Answered(o) => op[o] # "delete"
=============================================================================
