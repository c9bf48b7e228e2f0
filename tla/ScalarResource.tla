--------------------------- MODULE ScalarResource ---------------------------
(***************************************************************************)
(* The resources that are one statement of the running configuration:      *)
(* aoss_management_vlan, aoss_primary_vlan and aoss_hostname.  Instances   *)
(* of one kind share its statement, as they do when a resource is renamed: *)
(* Terraform deletes the old instance and creates the new one in an order  *)
(* of its own, in parallel.  The session discipline is SwitchMu's.         *)
(*                                                                         *)
(* Unlike aoss_vlan's, these writes read nothing, send one line, and set   *)
(* the id only when the switch has answered.                               *)
(***************************************************************************)
EXTENDS Integers

CONSTANTS Instance,   \* resource instances
          KindOf,     \* the kind of each: "management", "primary", "hostname"
          Value,      \* the VLAN ids or names a resource may ask for
          Default,    \* the value of a kind the switch writes no statement for
          None,       \* no statement, no id, no instance; a kind without default
          NoOp        \* the free mutex, see SwitchMu

ASSUME KindAssumption ==
    KindOf \in [Instance -> {"management", "primary", "hostname"}]

Kind == {KindOf[i] : i \in Instance}

ASSUME ValueAssumption ==
    /\ None \notin Value
    /\ Default \in [Kind -> Value \union {None}]

ASSUME NoOpAssumption == NoOp \notin Instance

VARIABLES pc, mu, session,   \* the session discipline, see SwitchMu
          statement,   \* the statement of each kind in the running config
          op,          \* the handler that runs for each instance
          at,          \* its next step between openSwitch and closeSwitch
          want,        \* the value it writes, or None
          id,          \* d.Id()
          result,      \* what the handler returns
          state,       \* the id of the instance in the Terraform state
          stale,       \* history: the statement changed behind its back
          whose        \* history: who put the statement there

muVars == <<pc, mu, session>>
handler == <<op, at, want, id, result>>
vars == <<muVars, statement, handler, state, stale, whose>>

Mu == INSTANCE SwitchMu WITH Op <- Instance

(* readManagementVLAN, readPrimaryVLAN, readHostname.                      *)
Stated(i) == statement[KindOf[i]]

(* The statement the switch keeps for value x: none for the default.       *)
Kept(k, x) == IF x = Default[k] THEN None ELSE x

TypeOK ==
    /\ Mu!TypeOK
    /\ statement \in [Kind -> Value \union {None}]
    /\ op \in [Instance -> {"none", "create", "read", "update", "delete"}]
    /\ at \in [Instance -> {"none", "show", "send", "verify"}]
    /\ want \in [Instance -> Value \union {None}]
    /\ id \in [Instance -> Value \union {None}]
    /\ result \in [Instance -> {"ok", "error"}]
    /\ state \in [Instance -> Value \union {None}]
    /\ stale \in [Instance -> BOOLEAN]
    /\ whose \in [Kind -> {"others", "ours", "unanswered"}]

Init ==
    /\ Mu!Init
    /\ statement \in [Kind -> Value \union {None}]
    /\ \A k \in Kind : statement[k] = Kept(k, statement[k])
    /\ op = [i \in Instance |-> "none"]
    /\ at = [i \in Instance |-> "none"]
    /\ want = [i \in Instance |-> None]
    /\ id = [i \in Instance |-> None]
    /\ result = [i \in Instance |-> "ok"]
    /\ state = [i \in Instance |-> None]
    /\ stale = [i \in Instance |-> FALSE]
    /\ whose = [k \in Kind |-> "others"]

-----------------------------------------------------------------------------
(* Terraform core calls a handler.                                         *)

Start(i, o, w) ==
    /\ Mu!Enter(i)
    /\ op' = [op EXCEPT ![i] = o]
    /\ want' = [want EXCEPT ![i] = w]
    /\ id' = [id EXCEPT ![i] = state[i]]
    /\ UNCHANGED <<statement, at, result, state, stale, whose>>

(* aossManagementVLANWrite, aossPrimaryVLANWrite, aossHostnameWrite.       *)
Create(i) == state[i] = None /\ \E w \in Value : Start(i, "create", w)

Update(i) == state[i] # None /\ \E w \in Value : Start(i, "update", w)

(* The reads; for an instance that is not in the state, an import.         *)
Read(i) == Start(i, "read", None)

(* aossManagementVLANDelete, aossPrimaryVLANDelete.                        *)
Delete(i) ==
    /\ KindOf[i] # "hostname"
    /\ state[i] # None
    /\ Start(i, "delete", None)

(* aossHostnameDelete does nothing: the switch keeps its hostname.         *)
DropHostname(i) ==
    /\ KindOf[i] = "hostname"
    /\ pc[i] = "idle" /\ state[i] # None
    /\ state' = [state EXCEPT ![i] = None]
    /\ UNCHANGED <<muVars, statement, handler, stale, whose>>

-----------------------------------------------------------------------------
(* openSwitch                                                              *)

Opening(i) ==
    /\ Mu!Acquire(i) \/ Mu!NewSucceeds(i)
    /\ UNCHANGED <<statement, handler, state, stale, whose>>

OpenSucceeds(i) ==
    /\ Mu!OpenSucceeds(i)
    /\ at' = [at EXCEPT ![i] = IF op[i] \in {"create", "update"} THEN "send" ELSE "show"]
    /\ UNCHANGED <<statement, op, want, id, result, state, stale, whose>>

OpenFails(i) ==
    /\ Mu!NewFails(i) \/ Mu!OpenFails(i)
    /\ result' = [result EXCEPT ![i] = "error"]
    /\ UNCHANGED <<statement, op, at, want, id, state, stale, whose>>

-----------------------------------------------------------------------------
(* The handlers, between openSwitch and closeSwitch                        *)

InBody(i, point) == pc[i] = "body" /\ at[i] = point

Goto(i, point) == at' = [at EXCEPT ![i] = point] /\ UNCHANGED <<muVars, result>>

\* A slip to rule out: returning before closeSwitch is deferred.
FinishUndeferred(i, r) ==
    /\ Mu!Step(i, "body", "idle")
    /\ at' = [at EXCEPT ![i] = "none"]
    /\ result' = [result EXCEPT ![i] = r]
    /\ UNCHANGED <<mu, session>>

(* The handler returns r; its deferred closeSwitch comes next.             *)
Finish(i, r) ==
    /\ Mu!BodyReturns(i)
    /\ at' = [at EXCEPT ![i] = "none"]
    /\ result' = [result EXCEPT ![i] = r]

SetId(i, x) == id' = [id EXCEPT ![i] = x]

Fresh(i) == stale' = [stale EXCEPT ![i] = FALSE]

ShowFails(i) ==
    /\ at[i] \in {"show", "verify"}
    /\ Finish(i, "error")
    /\ UNCHANGED <<statement, op, want, id, state, stale, whose>>

(* A read takes the statement for the id; none clears it.                  *)
ReadStatement(i) ==
    /\ InBody(i, "show") /\ op[i] = "read"
    /\ SetId(i, Stated(i))
    /\ Fresh(i)
    /\ Finish(i, "ok")
    /\ UNCHANGED <<statement, op, want, state, whose>>

\* A slip to rule out: deleting whatever statement there is.
CheckAnyStatement(i) ==
    /\ InBody(i, "show") /\ op[i] = "delete"
    /\ Fresh(i)
    /\ IF Stated(i) # None THEN Goto(i, "send") ELSE Finish(i, "ok")
    /\ UNCHANGED <<statement, op, want, id, state, whose>>

(* A delete leaves a statement with another value alone.                   *)
CheckStatement(i) ==
    /\ InBody(i, "show") /\ op[i] = "delete"
    /\ Fresh(i)
    /\ IF Stated(i) = id[i] THEN Goto(i, "send") ELSE Finish(i, "ok")
    /\ UNCHANGED <<statement, op, want, id, state, whose>>

(* The line takes effect.  The switch may ignore a `no` line that names    *)
(* another value than the one it has, or withdraw the statement all the    *)
(* same.                                                                   *)
Apply(i, from) ==
    LET k == KindOf[i]
    IN  \/ /\ op[i] # "delete"
           /\ statement' = [statement EXCEPT ![k] = Kept(k, want[i])]
           /\ whose' = [whose EXCEPT ![k] = from]
           /\ stale' = [stale EXCEPT ![i] = FALSE]
        \/ /\ op[i] = "delete"
           /\ statement' = [statement EXCEPT ![k] = None]
           /\ whose' = [whose EXCEPT ![k] = "others"]
           /\ UNCHANGED stale

Ignore == UNCHANGED <<statement, whose, stale>>

\* A slip to rule out: a write that forgets SetId.
WriteForgettingId(i) ==
    /\ InBody(i, "send") /\ op[i] \in {"create", "update"}
    /\ Apply(i, "ours")
    /\ Finish(i, "ok")
    /\ UNCHANGED <<op, want, id, state>>

(* SendConfig and then SetId.                                              *)
Write(i) ==
    /\ InBody(i, "send") /\ op[i] \in {"create", "update"}
    /\ Apply(i, "ours")
    /\ SetId(i, want[i])
    /\ Finish(i, "ok")
    /\ UNCHANGED <<op, want, state>>

(* SendConfig of the `no` line; the switch may refuse it in words that are *)
(* no failure indicator.                                                   *)
Withdraw(i) ==
    /\ InBody(i, "send") /\ op[i] = "delete"
    /\ Apply(i, "others") \/ Ignore
    /\ Goto(i, "verify")
    /\ UNCHANGED <<op, want, id, state>>

(* SendConfig fails, before or after the line took effect.                 *)
SendFails(i) ==
    /\ InBody(i, "send")
    /\ Apply(i, "unanswered") \/ Ignore
    /\ Finish(i, "error")
    /\ UNCHANGED <<op, want, id, state>>

\* A slip to rule out: trusting SendConfig instead of the running config.
VerifyByTrust(i) ==
    /\ InBody(i, "verify")
    /\ Finish(i, "ok")
    /\ UNCHANGED <<statement, op, want, id, state, stale, whose>>

(* The second read of a delete: any statement that is left is an error.    *)
Verify(i) ==
    /\ InBody(i, "verify")
    /\ Fresh(i)
    /\ Finish(i, IF Stated(i) = None THEN "ok" ELSE "error")
    /\ UNCHANGED <<statement, op, want, id, state, whose>>

-----------------------------------------------------------------------------
(* closeSwitch, and what Terraform core makes of the handler's return      *)

Close(i) ==
    /\ Mu!Close(i)
    /\ UNCHANGED <<statement, handler, state, stale, whose>>

(* The state keeps the id that the handler leaves, error or not; an        *)
(* instance without one is dropped, and so is one whose delete succeeds.   *)
StateAfter(i) == IF op[i] = "delete" /\ result[i] = "ok" THEN None ELSE id[i]

Return(i) ==
    /\ Mu!Unlock(i)
    /\ state' = [state EXCEPT ![i] = StateAfter(i)]
    /\ op' = [op EXCEPT ![i] = "none"]
    /\ want' = [want EXCEPT ![i] = None]
    /\ id' = [id EXCEPT ![i] = None]
    /\ result' = [result EXCEPT ![i] = "ok"]
    /\ stale' = [stale EXCEPT ![i] = FALSE]
    /\ UNCHANGED <<statement, at, whose>>

(* The operator on the console changes or removes the statement.           *)
Edit(k, x) ==
    /\ statement[k] # Kept(k, x)
    /\ statement' = [statement EXCEPT ![k] = Kept(k, x)]
    /\ stale' = [i \in Instance |-> stale[i] \/ (KindOf[i] = k /\ pc[i] # "idle")]
    /\ whose' = [whose EXCEPT ![k] = "others"]
    /\ UNCHANGED <<muVars, handler, state>>

-----------------------------------------------------------------------------

Terraform(i) == Create(i) \/ Update(i) \/ Read(i) \/ Delete(i) \/ DropHostname(i)

OpenSwitch(i) ==
    pc[i] # "lock" /\ (Opening(i) \/ OpenSucceeds(i) \/ OpenFails(i))

Acquire(i) == pc[i] = "lock" /\ Opening(i)

Body(i) ==
    \/ ShowFails(i) \/ ReadStatement(i) \/ CheckStatement(i)
    \/ Write(i) \/ Withdraw(i) \/ SendFails(i) \/ Verify(i)

CloseSwitch(i) == Close(i) \/ Return(i)

Next ==
    \/ \E i \in Instance :
        Terraform(i) \/ Acquire(i) \/ OpenSwitch(i) \/ Body(i) \/ CloseSwitch(i)
    \/ \E k \in Kind, x \in Value \union {None} : Edit(k, x)

(* As in VLANResource.                                                     *)
Fairness ==
    \A i \in Instance : /\ SF_vars(Acquire(i))
                        /\ WF_vars(OpenSwitch(i))
                        /\ WF_vars(Body(i))
                        /\ WF_vars(CloseSwitch(i))

Safety == Init /\ [][Next]_vars

Spec == Safety /\ Fairness

-----------------------------------------------------------------------------

Writes(i) == op[i] \in {"create", "update"}

Answered(i) == pc[i] \in {"close", "unlock"} /\ result[i] = "ok"

(* Program points, handlers and ids agree.                                 *)
PointInv(i) ==
    /\ op[i] = "none" <=> pc[i] = "idle"
    /\ pc[i] = "body" <=> at[i] # "none"
    /\ at[i] = "show" => op[i] \in {"read", "delete"}
    /\ at[i] = "send" => op[i] \in {"create", "update", "delete"}
    /\ at[i] = "verify" => op[i] = "delete"
    /\ Writes(i) => want[i] # None
    /\ op[i] = "create" => state[i] = None
    /\ op[i] \in {"update", "delete"} => state[i] # None
    /\ pc[i] # "idle" =>
        IF Answered(i) /\ Writes(i) THEN id[i] = want[i]
        ELSE \/ id[i] = state[i]
             \/ Answered(i) /\ op[i] = "read"

(* What a handler concludes of the statement is true, unless the statement *)
(* changed behind its back.                                                *)
KnowsStatement(i) ==
    \/ stale[i]
    \/ /\ InBody(i, "send") /\ op[i] = "delete" => Stated(i) = id[i]
       /\ Answered(i) /\ Writes(i) => Stated(i) = Kept(KindOf[i], want[i])
       /\ Answered(i) /\ op[i] = "read" => Stated(i) = id[i]
       /\ Answered(i) /\ op[i] = "delete" => Stated(i) # id[i]

(* The value instance i will have in the state.                            *)
Remembered(i) == IF pc[i] \in {"close", "unlock"} THEN StateAfter(i) ELSE state[i]

(* A statement with an answered write is, or will be, in the state.        *)
Remembers(k) ==
    k # "hostname" /\ whose[k] = "ours" /\ statement[k] # None
        => \E i \in Instance : KindOf[i] = k /\ Remembered(i) = statement[k]

(* The inductive invariant of these handlers: ids, statements and what the *)
(* handlers concluded agree at every point.                                *)
HandlerInv ==
    /\ TypeOK
    /\ Mu!LockInv
    /\ \A i \in Instance : PointInv(i) /\ KnowsStatement(i)
    /\ \A k \in Kind : Remembers(k)

(* These handlers too keep the session discipline and all return.          *)
KeepsSessionDiscipline == Mu!Spec

Returning(i, o) == pc[i] = "close" /\ op[i] = o /\ result[i] = "ok"

(* A write that reports success is what the next read will find, unless    *)
(* the statement changed behind its back; an instance of the same kind     *)
(* does not do that.                                                       *)
WriteIsRead ==
    \A i \in Instance :
        Returning(i, "create") \/ Returning(i, "update")
            => stale[i] \/ Stated(i) = want[i]

(* A delete sends its `no` line only for the value it has in the state: a  *)
(* renamed resource, whose new instance has written another value, does    *)
(* not lose it to the delete of the old one.                               *)
DeletesItsOwn ==
    \A i \in Instance :
        InBody(i, "send") /\ op[i] = "delete" => stale[i] \/ Stated(i) = id[i]

(* A statement that the provider set, and was told so, is in the state of  *)
(* an instance when the handlers rest.  (A statement whose write was not   *)
(* answered may be in no state: the id is set after SendConfig.)           *)
AnsweredIsRemembered ==
    \A k \in Kind \ {"hostname"} :
        /\ whose[k] = "ours" /\ statement[k] # None
        /\ \A i \in Instance : KindOf[i] = k => pc[i] = "idle"
        => \E i \in Instance : KindOf[i] = k /\ state[i] = statement[k]

(* An instance leaves the state only when its value is off the switch.     *)
DropsOnlyGone ==
    [][\A i \in Instance :
        KindOf[i] # "hostname" /\ state[i] # None /\ state'[i] = None
            => stale[i] \/ Stated(i) # state[i]]_vars
=============================================================================
