---------------------------- MODULE OneSession ----------------------------
(***************************************************************************)
(* The promise every handler of the provider makes about switch sessions:  *)
(* an operation that Terraform requested either gets a session of its own, *)
(* with no other session open, or gives up without one; and in either case *)
(* it returns.  SwitchMu shows that the lock protocol of openSwitch and    *)
(* closeSwitch implements this.                                            *)
(***************************************************************************)

CONSTANT Op          \* the operations Terraform may run in parallel

VARIABLE phase       \* what each operation has of the switch

vars == <<phase>>

Phases == {"idle", "waiting", "session"}

Init == phase = [o \in Op |-> "idle"]

Become(o, from, to) ==
    /\ phase[o] = from
    /\ phase' = [phase EXCEPT ![o] = to]

Request(o) == Become(o, "idle", "waiting")

Connect(o) ==
    /\ \A p \in Op : phase[p] # "session"
    /\ Become(o, "waiting", "session")

GiveUp(o) == Become(o, "waiting", "idle")

Disconnect(o) == Become(o, "session", "idle")

Next == \E o \in Op : Request(o) \/ Connect(o) \/ GiveUp(o) \/ Disconnect(o)

Fairness ==
    \A o \in Op : /\ WF_vars(Connect(o) \/ GiveUp(o))
                  /\ WF_vars(Disconnect(o))

Safety == Init /\ [][Next]_vars

Spec == Safety /\ Fairness
=============================================================================
