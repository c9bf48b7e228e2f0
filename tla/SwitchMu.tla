----------------------------- MODULE SwitchMu -----------------------------
(***************************************************************************)
(* The session discipline of internal/provider: every handler that talks   *)
(* to the switch calls openSwitch, works, and calls closeSwitch from a     *)
(* defer.  openSwitch takes the package-level sync.Mutex switchMu, builds  *)
(* a client and opens it; each of its error paths has to give the lock     *)
(* back.  What a handler does between the two calls is left to the         *)
(* modules that refine this one (VLANResource); here it is the program     *)
(* point "body".                                                           *)
(***************************************************************************)
CONSTANTS Op,      \* the operations Terraform may run in parallel
          NoOp     \* not an operation: the mutex is free

ASSUME NoOpAssumption == NoOp \notin Op

VARIABLES pc,       \* the next step of each operation
          mu,       \* the operation that holds switchMu, or NoOp
          session   \* the operations with an SSH session on the switch

vars == <<pc, mu, session>>

PC == {"idle", "lock", "new", "open", "body", "close", "unlock"}

\* The points between switchMu.Lock() and switchMu.Unlock().
Critical == {"new", "open", "body", "close", "unlock"}

Init ==
    /\ pc = [o \in Op |-> "idle"]
    /\ mu = NoOp
    /\ session = {}

Step(o, from, to) ==
    /\ pc[o] = from
    /\ pc' = [pc EXCEPT ![o] = to]

(* Terraform calls a handler, which reaches switchMu.Lock().               *)
Enter(o) == Step(o, "idle", "lock") /\ UNCHANGED <<mu, session>>

\* A slip to rule out: switchMu.Lock() left out of openSwitch.
AcquireUnserialized(o) ==
    /\ Step(o, "lock", "new")
    /\ mu' = o
    /\ UNCHANGED session

(* switchMu.Lock() returns.                                                *)
Acquire(o) ==
    /\ mu = NoOp
    /\ Step(o, "lock", "new")
    /\ mu' = o
    /\ UNCHANGED session

NewSucceeds(o) == Step(o, "new", "open") /\ UNCHANGED <<mu, session>>

\* A slip to rule out: the error path of New that forgets switchMu.Unlock().
NewFailsKeepingLock(o) == Step(o, "new", "idle") /\ UNCHANGED <<mu, session>>

(* client.New fails: only the mutex is to be given back.                   *)
NewFails(o) == Step(o, "new", "unlock") /\ UNCHANGED <<mu, session>>

OpenSucceeds(o) ==
    /\ Step(o, "open", "body")
    /\ session' = session \union {o}
    /\ UNCHANGED mu

\* A slip to rule out: the error path of Open that does not close the client.
OpenFailsUnclosed(o) ==
    /\ Step(o, "open", "unlock")
    /\ session' \in {session, session \union {o}}
    /\ UNCHANGED mu

(* Open fails: before the device accepted the session, or after it (the    *)
(* login worked and the on-open "no page" did not), which is why openSwitch*)
(* closes the client on this path.                                         *)
OpenFails(o) ==
    /\ Step(o, "open", "close")
    /\ session' \in {session, session \union {o}}
    /\ UNCHANGED mu

\* A slip to rule out: an early return placed before the deferred closeSwitch.
BodyReturnsUndeferred(o) ==
    /\ Step(o, "body", "idle")
    /\ UNCHANGED <<mu, session>>

(* The handler returns, normally or with diagnostics: the deferred         *)
(* closeSwitch runs in every case.                                         *)
BodyReturns(o) == Step(o, "body", "close") /\ UNCHANGED <<mu, session>>

(* cl.Close(ctx); its error is dropped by openSwitch and by the handlers.  *)
Close(o) ==
    /\ Step(o, "close", "unlock")
    /\ session' = session \ {o}
    /\ UNCHANGED mu

Unlock(o) ==
    /\ Step(o, "unlock", "idle")
    /\ mu' = NoOp
    /\ UNCHANGED session

OpenSwitch(o) ==
    \/ Acquire(o)
    \/ NewSucceeds(o)
    \/ NewFails(o)
    \/ OpenSucceeds(o)
    \/ OpenFails(o)

CloseSwitch(o) == Close(o) \/ Unlock(o)

Next == \E o \in Op : Enter(o) \/ OpenSwitch(o) \/ BodyReturns(o) \/ CloseSwitch(o)

(***************************************************************************)
(* Fairness.  A goroutine that can run does run; a client call returns,    *)
(* because DefaultOptions gives every operation a timeout; and a           *)
(* sync.Mutex serves its waiters in turn once one of them has waited for a *)
(* millisecond, so a handler does not lose the race for the lock for ever. *)
(***************************************************************************)
Fairness ==
    \A o \in Op :
        /\ SF_vars(Acquire(o))
        /\ WF_vars(NewSucceeds(o) \/ NewFails(o))
        /\ WF_vars(OpenSucceeds(o) \/ OpenFails(o))
        /\ WF_vars(BodyReturns(o))
        /\ WF_vars(CloseSwitch(o))

Safety == Init /\ [][Next]_vars

Spec == Safety /\ Fairness

-----------------------------------------------------------------------------

TypeOK ==
    /\ pc \in [Op -> PC]
    /\ mu \in Op \union {NoOp}
    /\ session \in SUBSET Op

(* The mutex and the program points agree: whoever is between Lock and     *)
(* Unlock holds the mutex, and nobody else does.  An error path of         *)
(* openSwitch that forgets Unlock, or unlocks twice, breaks this long      *)
(* before a second handler hangs on it.                                    *)
LockDiscipline == \A o \in Op : (pc[o] \in Critical) <=> (mu = o)

(* A handler works with a session, and a session exists only between Open  *)
(* and Close.                                                              *)
SessionDiscipline ==
    \A o \in Op : /\ pc[o] = "body" => o \in session
                  /\ o \in session => pc[o] \in {"body", "close"}

(* The inductive invariant: the mutex, the program points and the sessions *)
(* on the switch agree in every state, on the error paths of openSwitch    *)
(* (resource_hostname.go:70-78) as on the normal one.                      *)
LockInv == TypeOK /\ LockDiscipline /\ SessionDiscipline

(* "at most one session is open at a time" (resource_hostname.go:55-58),   *)
(* sessions that a failed Open left half-open on the switch included.      *)
OneSessionAtATime == \A o, p \in session : o = p

(* What the operation has of the switch, in the terms of OneSession.       *)
Phase == [o \in Op |->
    IF o \in session THEN "session"
    ELSE IF pc[o] \in {"lock", "new", "open", "close"} THEN "waiting"
    ELSE "idle"]

Promise == INSTANCE OneSession WITH phase <- Phase

(* Every handler gets a session to itself or gives up, and returns: the    *)
(* lock protocol implements OneSession, its liveness included.             *)
ImplementsOneSession == Promise!Spec
=============================================================================
