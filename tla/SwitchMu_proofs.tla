-------------------------- MODULE SwitchMu_proofs --------------------------
(***************************************************************************)
(* Proofs about the session discipline, for any number of operations: the  *)
(* lock invariant, mutual exclusion of sessions, and the safety half of    *)
(* the refinement of OneSession.                                           *)
(***************************************************************************)
EXTENDS SwitchMu, TLAPS

(* The lock invariant holds at the start: no operation runs, the mutex is  *)
(* free, no session is open.                                               *)
LEMMA InitLockInv == Init => LockInv
BY NoOpAssumption
   DEF Init, LockInv, TypeOK, LockDiscipline, SessionDiscipline, PC, Critical

(* Every step of openSwitch, closeSwitch and the handlers around them      *)
(* keeps mutex, program points and sessions in agreement.                  *)
LEMMA NextLockInv == LockInv /\ [Next]_vars => LockInv'
<1> SUFFICES ASSUME LockInv, [Next]_vars PROVE LockInv'
    OBVIOUS
<1> USE NoOpAssumption
    DEF LockInv, TypeOK, LockDiscipline, SessionDiscipline, PC, Critical, Step
<1>1. ASSUME NEW o \in Op, Enter(o) PROVE LockInv'
    BY <1>1 DEF Enter
<1>2. ASSUME NEW o \in Op, Acquire(o) PROVE LockInv'
    BY <1>2 DEF Acquire
<1>3. ASSUME NEW o \in Op, NewSucceeds(o) PROVE LockInv'
    BY <1>3 DEF NewSucceeds
<1>4. ASSUME NEW o \in Op, NewFails(o) PROVE LockInv'
    BY <1>4 DEF NewFails
<1>5. ASSUME NEW o \in Op, OpenSucceeds(o) PROVE LockInv'
    BY <1>5 DEF OpenSucceeds
<1>6. ASSUME NEW o \in Op, OpenFails(o) PROVE LockInv'
    BY <1>6 DEF OpenFails
<1>7. ASSUME NEW o \in Op, BodyReturns(o) PROVE LockInv'
    BY <1>7 DEF BodyReturns
<1>8. ASSUME NEW o \in Op, Close(o) PROVE LockInv'
    BY <1>8 DEF Close
<1>9. ASSUME NEW o \in Op, Unlock(o) PROVE LockInv'
    BY <1>9 DEF Unlock
<1>10. CASE UNCHANGED vars
    BY <1>10 DEF vars
<1> QED
    BY <1>1, <1>2, <1>3, <1>4, <1>5, <1>6, <1>7, <1>8, <1>9, <1>10
       DEF Next, OpenSwitch, CloseSwitch

(* No error path of openSwitch leaks the mutex or a session, whatever the  *)
(* number of operations.                                                   *)
THEOREM LockInvariant == Spec => []LockInv
BY InitLockInv, NextLockInv, PTL DEF Spec, Safety

(* The lock invariant is what makes the promise of switchMu's comment      *)
(* true: two sessions would need two holders of the mutex.                 *)
LEMMA LockInvExcludes == LockInv => OneSessionAtATime
BY DEF LockInv, LockDiscipline, SessionDiscipline, Critical, OneSessionAtATime, TypeOK

(* At most one session is open at a time, for any number of operations.    *)
THEOREM MutualExclusion == Spec => []OneSessionAtATime
BY LockInvariant, LockInvExcludes, PTL

(* Initially no operation has anything of the switch.                      *)
LEMMA InitRefines == Init => Promise!Init
BY DEF Init, Promise!Init, Phase

(* Every step of the lock protocol is a step of the promise or leaves what *)
(* each operation has of the switch as it was.                             *)
LEMMA NextRefines == LockInv /\ [Next]_vars => [Promise!Next]_(Promise!vars)
<1> SUFFICES ASSUME LockInv, [Next]_vars
             PROVE  Promise!Next \/ UNCHANGED Phase
    BY DEF Promise!vars
<1> USE NoOpAssumption
    DEF LockInv, TypeOK, LockDiscipline, SessionDiscipline, PC, Critical, Step, Phase
<1>1. ASSUME NEW o \in Op, Enter(o) PROVE Promise!Request(o)
    BY <1>1 DEF Enter, Promise!Request, Promise!Become
<1>2. ASSUME NEW o \in Op, Acquire(o) PROVE UNCHANGED Phase
    BY <1>2 DEF Acquire
<1>3. ASSUME NEW o \in Op, NewSucceeds(o) PROVE UNCHANGED Phase
    BY <1>3 DEF NewSucceeds
<1>4. ASSUME NEW o \in Op, NewFails(o) PROVE Promise!GiveUp(o)
    BY <1>4 DEF NewFails, Promise!GiveUp, Promise!Become
<1>5. ASSUME NEW o \in Op, OpenSucceeds(o) PROVE Promise!Connect(o)
    BY <1>5 DEF OpenSucceeds, Promise!Connect, Promise!Become
<1>6. ASSUME NEW o \in Op, OpenFails(o)
      PROVE  Promise!Connect(o) \/ UNCHANGED Phase
    <2>1. CASE session' = session
        BY <1>6, <2>1 DEF OpenFails
    <2>2. CASE session' = session \union {o}
        BY <1>6, <2>2 DEF OpenFails, Promise!Connect, Promise!Become
    <2> QED BY <1>6, <2>1, <2>2 DEF OpenFails
<1>7. ASSUME NEW o \in Op, BodyReturns(o) PROVE UNCHANGED Phase
    BY <1>7 DEF BodyReturns
<1>8. ASSUME NEW o \in Op, Close(o)
      PROVE  Promise!Disconnect(o) \/ Promise!GiveUp(o)
    BY <1>8 DEF Close, Promise!Disconnect, Promise!GiveUp, Promise!Become
<1>9. ASSUME NEW o \in Op, Unlock(o) PROVE UNCHANGED Phase
    BY <1>9 DEF Unlock
<1>10. CASE UNCHANGED vars
    BY <1>10 DEF vars
<1> QED
    BY <1>1, <1>2, <1>3, <1>4, <1>5, <1>6, <1>7, <1>8, <1>9, <1>10
       DEF Next, OpenSwitch, CloseSwitch, Promise!Next

(* The lock protocol never lets a handler do what the promise forbids: a   *)
(* session is opened only while no other is.  (That every handler returns  *)
(* is liveness and is model-checked.)                                      *)
THEOREM SafetyRefinement == Spec => Promise!Safety
BY InitRefines, NextRefines, LockInvariant, PTL DEF Spec, Safety, Promise!Safety
=============================================================================
