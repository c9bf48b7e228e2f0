--------------------------- MODULE VLANResource ---------------------------
(***************************************************************************)
(* The aoss_vlan handlers of one provider process, one resource instance   *)
(* per VLAN id, running in parallel against one switch: aossVLANRead,      *)
(* aossVLANWrite (create and update) and aossVLANDelete, with the client   *)
(* operations they drive (Show, SendConfig, RemoveVLAN) step by step.      *)
(* The session discipline is SwitchMu's: each handler is its "body".       *)
(*                                                                         *)
(* Around them, and external: Terraform core, which calls one handler per  *)
(* instance at a time and keeps or drops the instance by what it returns;  *)
(* the switch, which may reject a line, lose a connection before or after  *)
(* it took effect, or wait at a [y/n] prompt; and an operator on the       *)
(* console, who edits VLANs behind the provider's back.                    *)
(***************************************************************************)
EXTENDS VLANConfig, FiniteSets

CONSTANTS Wanted,    \* the resource configurations Terraform may apply
          Startup,   \* the running configurations to start from
          Edited,    \* the block contents an operator may put on the console
          NoOp       \* the free mutex, see SwitchMu

ASSUME WantedAssumption ==
    /\ Wanted \subseteq Desired
    /\ Startup \subseteq Running
    /\ Edited \subseteq Config \union {NoBlock}

ASSUME NoOpAssumption == NoOp \notin Vlan

VARIABLES pc, mu, session,   \* the session discipline, see SwitchMu
          running,   \* the running configuration of the switch
          op,        \* the handler that runs for each VLAN
          at,        \* its next step between openSwitch and closeSwitch
          want,      \* the configuration it applies
          current,   \* the block it read (or nil)
          todo,      \* the lines SendConfig has yet to send
          result,    \* what the handler returns
          id,        \* is d.Id() set?
          state,     \* the instance in the Terraform state
          stale,     \* history: the block changed behind the handler's back
          made       \* history: the provider created the block

muVars == <<pc, mu, session>>
handler == <<op, at, want, current, todo, result, id>>
vars == <<muVars, running, handler, state, stale, made>>

Mu == INSTANCE SwitchMu WITH Op <- Vlan

Ops == {"none", "create", "read", "update", "delete"}

At == {"none", "show", "build", "enter", "send", "remove", "hung", "verify"}

TypeOK ==
    /\ Mu!TypeOK
    /\ running \in Running
    /\ op \in [Vlan -> Ops]
    /\ at \in [Vlan -> At]
    /\ want \in [Vlan -> Wanted]
    /\ current \in [Vlan -> Config \union {NoBlock}]
    /\ todo \in [Vlan -> SUBSET Line]
    /\ result \in [Vlan -> {"ok", "error"}]
    /\ id \in [Vlan -> BOOLEAN]
    /\ state \in [Vlan -> {"absent", "tainted", "present"}]
    /\ stale \in [Vlan -> BOOLEAN]
    /\ made \in [Vlan -> BOOLEAN]

Init ==
    /\ Mu!Init
    /\ running \in Startup
    /\ op = [v \in Vlan |-> "none"]
    /\ at = [v \in Vlan |-> "none"]
    /\ want \in [Vlan -> Wanted]
    /\ current = [v \in Vlan |-> NoBlock]
    /\ todo = [v \in Vlan |-> {}]
    /\ result = [v \in Vlan |-> "ok"]
    /\ id = [v \in Vlan |-> FALSE]
    /\ state = [v \in Vlan |-> "absent"]
    /\ stale = [v \in Vlan |-> FALSE]
    /\ made = [v \in Vlan |-> FALSE]

-----------------------------------------------------------------------------
(* Terraform core calls a handler.                                         *)

Start(v, o, hasId, w) ==
    /\ Mu!Enter(v)
    /\ op' = [op EXCEPT ![v] = o]
    /\ id' = [id EXCEPT ![v] = hasId]
    /\ want' = [want EXCEPT ![v] = w]
    /\ UNCHANGED <<running, at, current, todo, result, state, stale, made>>

\* A slip to rule out: SetId only once the switch has answered.
CreateSettingIdLate(v) ==
    /\ state[v] = "absent"
    /\ \E w \in Wanted : Start(v, "create", FALSE, w)

(* aossVLANWrite of a new resource: SetId comes before openSwitch.         *)
Create(v) ==
    /\ state[v] = "absent"
    /\ \E w \in Wanted : Start(v, "create", TRUE, w)

(* aossVLANWrite of a resource in the state.                               *)
Update(v) ==
    /\ state[v] = "present"
    /\ \E w \in Wanted : Start(v, "update", TRUE, w)

(* aossVLANRead: a refresh, or the read of an import.                      *)
Read(v) == Start(v, "read", TRUE, want[v])

(* aossVLANDelete.                                                         *)
Delete(v) == state[v] # "absent" /\ Start(v, "delete", TRUE, want[v])

-----------------------------------------------------------------------------
(* openSwitch                                                              *)

Acquire(v) ==
    /\ Mu!Acquire(v)
    /\ UNCHANGED <<running, handler, state, stale, made>>

NewSucceeds(v) ==
    /\ Mu!NewSucceeds(v)
    /\ UNCHANGED <<running, handler, state, stale, made>>

Fail(v) == result' = [result EXCEPT ![v] = "error"]

NewFails(v) ==
    /\ Mu!NewFails(v)
    /\ Fail(v)
    /\ UNCHANGED <<running, op, at, want, current, todo, id, state, stale, made>>

OpenFails(v) ==
    /\ Mu!OpenFails(v)
    /\ Fail(v)
    /\ UNCHANGED <<running, op, at, want, current, todo, id, state, stale, made>>

(* A create skips the read and takes the block to be absent: if there is   *)
(* one, it is stale from the start.                                        *)
OpenSucceeds(v) ==
    /\ Mu!OpenSucceeds(v)
    /\ at' = [at EXCEPT ![v] = IF op[v] = "create" THEN "build" ELSE "show"]
    /\ stale' = [stale EXCEPT ![v] = op[v] = "create" /\ running[v] # NoBlock]
    /\ UNCHANGED <<running, op, want, current, todo, result, id, state, made>>

-----------------------------------------------------------------------------
(* The handlers, between openSwitch and closeSwitch                        *)

InBody(v, point) == pc[v] = "body" /\ at[v] = point

Goto(v, point) == at' = [at EXCEPT ![v] = point] /\ UNCHANGED muVars

\* A slip to rule out: returning before closeSwitch is deferred.
FinishUndeferred(v, r) ==
    /\ pc[v] = "body"
    /\ pc' = [pc EXCEPT ![v] = "idle"]
    /\ at' = [at EXCEPT ![v] = "none"]
    /\ result' = [result EXCEPT ![v] = r]
    /\ UNCHANGED <<mu, session>>

(* The handler returns r; its deferred closeSwitch comes next.             *)
Finish(v, r) ==
    /\ Mu!BodyReturns(v)
    /\ at' = [at EXCEPT ![v] = "none"]
    /\ result' = [result EXCEPT ![v] = r]

(* Show or the parser fails: the handler returns the error.                *)
ShowFails(v) ==
    /\ at[v] \in {"show", "verify"}
    /\ Finish(v, "error")
    /\ UNCHANGED <<running, op, want, current, todo, id, state, stale, made>>

(* readVLANs at the head of a read, an update or a delete.                 *)
ReadVLANs(v) ==
    /\ InBody(v, "show")
    /\ current' = [current EXCEPT ![v] = running[v]]
    /\ stale' = [stale EXCEPT ![v] = FALSE]
    /\ id' = [id EXCEPT ![v] = op[v] # "read" \/ running[v] # NoBlock]
    /\ \/ op[v] = "update" /\ Goto(v, "build") /\ UNCHANGED result
       \/ op[v] = "delete" /\ running[v] # NoBlock /\ Goto(v, "enter") /\ UNCHANGED result
       \/ op[v] = "delete" /\ running[v] = NoBlock /\ Finish(v, "ok")
       \/ op[v] = "read" /\ Finish(v, "ok")
    /\ UNCHANGED <<running, op, want, todo, state, made>>

(* BuildVLANConfig; an empty block ends the update.                        *)
Build(v) ==
    /\ InBody(v, "build")
    /\ LET block == BuildVLANConfig(current[v], want[v])
       IN  /\ todo' = [todo EXCEPT ![v] = block]
           /\ IF block = {} THEN Finish(v, "ok") ELSE Goto(v, "enter") /\ UNCHANGED result
    /\ UNCHANGED <<running, op, want, current, id, state, stale, made>>

(* EnterMode("configuration").  The way back to privileged exec is         *)
(* deferred, best-effort and changes nothing a later step looks at.        *)
EnterConfig(v) ==
    /\ InBody(v, "enter")
    /\ Goto(v, IF op[v] = "delete" THEN "remove" ELSE "send")
    /\ UNCHANGED <<running, op, want, current, todo, result, id, state, stale, made>>

EnterConfigFails(v) ==
    /\ InBody(v, "enter")
    /\ Finish(v, "error")
    /\ UNCHANGED <<running, op, want, current, todo, id, state, stale, made>>

(* Line l of the block takes effect on the switch.                         *)
Apply(v, l) ==
    /\ running' \in Accept(running, v, l, current[v], want[v])
    /\ made' = [made EXCEPT ![v] = @ \/ (l = "vlan" /\ running[v] = NoBlock)]

(* SendConfig: one line, accepted and read back to the next prompt.        *)
SendLine(v) ==
    /\ InBody(v, "send")
    /\ \E l \in todo[v] :
        /\ IsNext(l, todo[v])
        /\ Apply(v, l)
        /\ todo' = [todo EXCEPT ![v] = @ \ {l}]
        /\ IF todo[v] = {l} THEN Finish(v, "ok") ELSE Goto(v, "send") /\ UNCHANGED result
    /\ UNCHANGED <<op, want, current, id, state, stale>>

(* SendConfig: the switch rejects a line, or the connection fails before   *)
(* or after the line took effect.  The rest of the block is not sent.      *)
SendLineFails(v) ==
    /\ InBody(v, "send")
    /\ Finish(v, "error")
    /\ \/ UNCHANGED <<running, made>>
       \/ \E l \in todo[v] : IsNext(l, todo[v]) /\ Apply(v, l)
    /\ UNCHANGED <<op, want, current, todo, id, state, stale>>

Removed(v) ==
    /\ running' = Forget(running, v)
    /\ made' = [made EXCEPT ![v] = FALSE]

(* RemoveVLAN, plain: `no vlan` completes, because no port is orphaned.    *)
RemovePlainly(v) ==
    /\ InBody(v, "remove")
    /\ ~NeedsVLANDeleteConfirm(current[v])
    /\ ~Prompts(running[v])
    /\ Removed(v)
    /\ Goto(v, "verify")
    /\ UNCHANGED <<op, want, current, todo, result, id, state, stale>>

(* RemoveVLAN, plain, but the switch asks [y/n]: nobody answers, and the   *)
(* read runs to the operation timeout.                                     *)
RemoveHangs(v) ==
    /\ InBody(v, "remove")
    /\ ~NeedsVLANDeleteConfirm(current[v])
    /\ Prompts(running[v])
    /\ Goto(v, "hung")
    /\ UNCHANGED <<running, op, want, current, todo, result, id, state, stale, made>>

\* A slip to rule out: sending `no vlan` again after the timeout.
RemoveRetried(v) ==
    /\ InBody(v, "hung")
    /\ Goto(v, "remove")
    /\ UNCHANGED <<running, op, want, current, todo, result, id, state, stale, made>>

RemoveTimesOut(v) ==
    /\ InBody(v, "hung")
    /\ Finish(v, "error")
    /\ UNCHANGED <<running, op, want, current, todo, id, state, stale, made>>

(* RemoveVLAN with the confirm callback.  The switch may refuse, or the    *)
(* completing callback fire on a stale prompt, and RemoveVLAN still        *)
(* returns nil.                                                            *)
RemoveConfirmed(v) ==
    /\ InBody(v, "remove")
    /\ NeedsVLANDeleteConfirm(current[v])
    /\ Removed(v) \/ UNCHANGED <<running, made>>
    /\ Goto(v, "verify")
    /\ UNCHANGED <<op, want, current, todo, result, id, state, stale>>

(* RemoveVLAN returns an error; `no vlan` may have taken effect, unless    *)
(* the switch waits for an answer the plain path does not give.            *)
RemoveFails(v) ==
    /\ InBody(v, "remove")
    /\ \/ UNCHANGED <<running, made>>
       \/ /\ NeedsVLANDeleteConfirm(current[v]) \/ ~Prompts(running[v])
          /\ Removed(v)
    /\ Finish(v, "error")
    /\ UNCHANGED <<op, want, current, todo, id, state, stale>>

\* A slip to rule out: trusting RemoveVLAN instead of the running config.
VerifyByTrust(v) ==
    /\ InBody(v, "verify")
    /\ stale' = [stale EXCEPT ![v] = FALSE]
    /\ Finish(v, "ok")
    /\ UNCHANGED <<running, op, want, current, todo, id, state, made>>

(* The second readVLANs of a delete is the authority.                      *)
Verify(v) ==
    /\ InBody(v, "verify")
    /\ stale' = [stale EXCEPT ![v] = FALSE]
    /\ Finish(v, IF running[v] = NoBlock THEN "ok" ELSE "error")
    /\ UNCHANGED <<running, op, want, current, todo, id, state, made>>

-----------------------------------------------------------------------------
(* closeSwitch, and what Terraform core makes of the handler's return      *)

Close(v) ==
    /\ Mu!Close(v)
    /\ UNCHANGED <<running, handler, state, stale, made>>

(* An instance without an id is dropped; a failed create with one is kept  *)
(* tainted; a failed import is not adopted; a failed delete changes        *)
(* nothing.                                                                *)
StateAfter(v) ==
    IF ~id[v] THEN "absent"
    ELSE IF op[v] = "create" THEN IF result[v] = "ok" THEN "present" ELSE "tainted"
    ELSE IF result[v] = "error" THEN state[v]
    ELSE IF op[v] = "delete" THEN "absent"
    ELSE IF state[v] = "absent" THEN "present"
    ELSE state[v]

Return(v) ==
    /\ Mu!Unlock(v)
    /\ state' = [state EXCEPT ![v] = StateAfter(v)]
    /\ op' = [op EXCEPT ![v] = "none"]
    /\ id' = [id EXCEPT ![v] = FALSE]
    /\ current' = [current EXCEPT ![v] = NoBlock]
    /\ todo' = [todo EXCEPT ![v] = {}]
    /\ result' = [result EXCEPT ![v] = "ok"]
    /\ stale' = [stale EXCEPT ![v] = FALSE]
    /\ UNCHANGED <<running, at, want, made>>

(* The operator on the console gives VLAN v the block c, or removes it;    *)
(* the ports c takes untagged leave the VLANs they were untagged in.       *)
Edit(v, c) ==
    /\ running[v] # c
    /\ running' = [u \in Vlan |->
            IF u = v THEN c
            ELSE IF c = NoBlock \/ running[u] = NoBlock THEN running[u]
            ELSE [running[u] EXCEPT !.untagged = @ \ c.untagged]]
    /\ stale' = [u \in Vlan |-> stale[u] \/ running'[u] # running[u]]
    /\ made' = [made EXCEPT ![v] = @ /\ c # NoBlock]
    /\ UNCHANGED <<muVars, handler, state>>

-----------------------------------------------------------------------------

Terraform(v) == Create(v) \/ Update(v) \/ Read(v) \/ Delete(v)

OpenSwitch(v) == NewSucceeds(v) \/ NewFails(v) \/ OpenSucceeds(v) \/ OpenFails(v)

Body(v) ==
    \/ ShowFails(v) \/ ReadVLANs(v) \/ Build(v)
    \/ EnterConfig(v) \/ EnterConfigFails(v)
    \/ SendLine(v) \/ SendLineFails(v)
    \/ RemovePlainly(v) \/ RemoveHangs(v) \/ RemoveTimesOut(v)
    \/ RemoveConfirmed(v) \/ RemoveFails(v)
    \/ Verify(v)

CloseSwitch(v) == Close(v) \/ Return(v)

Next ==
    \/ \E v \in Vlan :
        Terraform(v) \/ Acquire(v) \/ OpenSwitch(v) \/ Body(v) \/ CloseSwitch(v)
    \/ \E v \in Vlan, c \in Edited : Edit(v, c)

(* As in SwitchMu; a handler's own steps are client calls that return,     *)
(* within the operation timeout if not before.  Nothing makes Terraform    *)
(* call a handler or the operator edit.                                    *)
Fairness ==
    \A v \in Vlan : /\ SF_vars(Acquire(v))
                    /\ WF_vars(OpenSwitch(v))
                    /\ WF_vars(Body(v))
                    /\ WF_vars(CloseSwitch(v))

Safety == Init /\ [][Next]_vars

Spec == Safety /\ Fairness

-----------------------------------------------------------------------------

Writes(v) == op[v] \in {"create", "update"}

(* The handler has returned success, and still has the switch.             *)
Answered(v) == pc[v] \in {"close", "unlock"} /\ result[v] = "ok"

(* Program points, handlers and the mutex agree.                           *)
PointInv(v) ==
    /\ op[v] = "none" <=> pc[v] = "idle"
    /\ pc[v] = "body" <=> at[v] # "none"
    /\ at[v] \in {"build", "send"} => op[v] \in {"create", "update"}
    /\ at[v] \in {"remove", "hung", "verify"} => op[v] = "delete"
    /\ at[v] = "enter" => op[v] \in {"create", "update", "delete"}
    /\ at[v] = "show" => op[v] \in {"read", "update", "delete"}
    /\ pc[v] \in {"idle", "lock", "new", "open"} => current[v] = NoBlock /\ todo[v] = {}
    /\ at[v] = "show" \/ ~Writes(v) => todo[v] = {}
    /\ op[v] = "create" => current[v] = NoBlock /\ id[v]
    /\ op[v] \in {"update", "delete"} => id[v] /\ state[v] # "absent"
    /\ op[v] # "none" /\ ~id[v] => op[v] = "read" /\ Answered(v)
    /\ todo[v] \subseteq BuildVLANConfig(current[v], want[v])

(* What the handler knows of its block is true, unless the block changed   *)
(* behind its back.                                                        *)
KnowsBlock(v) ==
    \/ stale[v]
    \/ /\ at[v] \in {"build", "enter", "remove"} => running[v] = current[v]
       /\ at[v] = "enter" /\ Writes(v)
            => /\ todo[v] = BuildVLANConfig(current[v], want[v])
               /\ todo[v] # {}
       /\ at[v] = "send" => Partway(running[v], current[v], want[v], todo[v])
       /\ todo[v] # {} => Between(running[v], current[v], want[v])
       /\ Answered(v) /\ Writes(v) => Matches(running[v], want[v])
       /\ Answered(v) /\ op[v] = "delete" => running[v] = NoBlock
       /\ Answered(v) /\ ~id[v] => running[v] = NoBlock
       /\ at[v] # "hung"

(* A block the provider made is on the switch and in the Terraform state,  *)
(* or will be in the state when the handler returns.                       *)
Remembers(v) ==
    made[v] =>
        /\ running[v] # NoBlock
        /\ pc[v] = "idle" => state[v] # "absent"
        /\ pc[v] # "idle" => id[v] /\ (op[v] = "create" \/ state[v] # "absent")
        /\ pc[v] \in {"close", "unlock"} /\ op[v] = "delete" => result[v] = "error"

(* The inductive invariant of the handlers: at every point of SendConfig   *)
(* the block on the switch is the one read, with the lines sent so far     *)
(* applied and the others still in todo.                                   *)
HandlerInv ==
    /\ TypeOK
    /\ Mu!LockInv
    /\ \A v \in Vlan : PointInv(v) /\ KnowsBlock(v) /\ Remembers(v)

(* The handlers keep the session discipline, so each returns and gives the *)
(* switch to the next one, on every error path.                            *)
KeepsSessionDiscipline == Mu!Spec

Returning(v, o) == pc[v] = "close" /\ op[v] = o /\ result[v] = "ok"

(* A write that reports success has brought the block to what the resource *)
(* asks for, whatever the block was when it was read, unless the block     *)
(* changed behind the handler's back.  Other handlers do not count as      *)
(* that: the mutex makes read, build and send one unit against them.       *)
WriteReachesDesired ==
    \A v \in Vlan :
        Returning(v, "update") \/ Returning(v, "create")
            => stale[v] \/ Matches(running[v], want[v])

(* An apply settles: with the block a successful write left, the builder   *)
(* finds nothing to send for the same resource, a name left alone and the  *)
(* name that the switch gave included.                                     *)
ApplySettles ==
    \A v \in Vlan :
        Answered(v) /\ Writes(v)
            => stale[v] \/ BuildVLANConfig(running[v], want[v]) = {}

(* The block is never further from both than one is from the other: while  *)
(* its lines are sent one by one, and when SendConfig gives up halfway, no *)
(* member is missing that the block had and keeps, and none is there that  *)
(* it neither had nor gets.                                                *)
HalfwayIsBetween ==
    \A v \in Vlan :
        todo[v] # {} => stale[v] \/ Between(running[v], current[v], want[v])

(* A delete that reports success has removed the block, although           *)
(* RemoveVLAN may return nil for a delete the switch refused.              *)
DeleteRemoves ==
    \A v \in Vlan : Returning(v, "delete") => stale[v] \/ running[v] = NoBlock

(* The unanswered [y/n] prompt, which costs the operation timeout, is met  *)
(* only when the block got its untagged members behind the handler's back. *)
HangsOnlyWhenStale == \A v \in Vlan : at[v] = "hung" => stale[v]

(* Where nobody edits, only a create can be wrong about its block: what an *)
(* update reports done needs no other line, what a delete reports gone is  *)
(* gone, and no handler waits at a prompt; the handlers of other VLANs,    *)
(* whose untagged members it may take or lose, never make it stale.        *)
UndisturbedIsExact ==
    Edited = {} =>
        \A v \in Vlan :
            /\ Answered(v) /\ op[v] = "update" => BuildVLANConfig(running[v], want[v]) = {}
            /\ Answered(v) /\ op[v] = "delete" => running[v] = NoBlock
            /\ at[v] # "hung"

(* A VLAN the provider made is never forgotten: while its block is there,  *)
(* either a handler is at work on it or the Terraform state has it.        *)
NeverForgotten ==
    \A v \in Vlan : made[v] /\ pc[v] = "idle" => state[v] # "absent"

(* An instance leaves the Terraform state only when its block is off the   *)
(* switch: by a refresh that did not find it, or by a delete that saw it   *)
(* gone; never on an error path.                                           *)
DropsOnlyGone ==
    [][\A v \in Vlan :
        state[v] # "absent" /\ state'[v] = "absent"
            => stale[v] \/ running[v] = NoBlock]_vars

(* A bound on the steps a handler has yet to take until it returns.        *)
Ahead == [show |-> 14, build |-> 13, enter |-> 12, send |-> 3,
          remove |-> 4, hung |-> 3, verify |-> 3]

Around == [lock |-> 17, new |-> 16, open |-> 15, close |-> 2, unlock |-> 1, idle |-> 0]

StepsLeft(v) ==
    IF pc[v] = "body"
    THEN Ahead[at[v]] + IF at[v] = "send" THEN Cardinality(todo[v]) ELSE 0
    ELSE Around[pc[v]]

Own(v) == Acquire(v) \/ OpenSwitch(v) \/ Body(v) \/ CloseSwitch(v)

(* Each step of a handler brings it nearer to its return, and no step of   *)
(* another one or of an operator sets it back: it returns after at most 17 *)
(* steps, whatever it reads and whichever of them fail, and so gives the   *)
(* switch to the next one as soon as the client calls return.              *)
NearsReturn ==
    [][\A v \in Vlan :
        /\ Own(v) => StepsLeft(v)' < StepsLeft(v)
        /\ pc[v] # "idle" => StepsLeft(v)' <= StepsLeft(v)]_vars

(* "idempotent configuration" (README.md:3): where nobody else edits, an   *)
(* apply that succeeds leaves the block as the resource asks.              *)
ApplyIsIdempotent ==
    \A v \in Vlan :
        Returning(v, "update") \/ Returning(v, "create")
            => Matches(running[v], want[v])
=============================================================================
