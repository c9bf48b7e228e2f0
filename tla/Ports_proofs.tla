---------------------------- MODULE Ports_proofs ----------------------------
(***************************************************************************)
(* Proofs about the handlers that share the ports of the switch, for any   *)
(* set of trunks, ports, interfaces and data sources, in any scenario: the *)
(* inductive invariant HandlerInv, and from it what the writes reach, what *)
(* is never forgotten, that the rows of the data source belong together,   *)
(* that every step brings a handler nearer to its return, and that the     *)
(* handlers keep the promise of OneSession.                                *)
(***************************************************************************)
EXTENDS Ports, TLAPS, FiniteSetTheorems

MuProofs == INSTANCE SwitchMu_proofs

-----------------------------------------------------------------------------
(* The session discipline                                                  *)

(* A step of a handler is a step of the session discipline or leaves it    *)
(* alone.                                                                  *)
LEMMA MuStep == [Next]_vars => [Mu!Next]_(Mu!vars)
<1> USE DEF Mu!vars, muVars
<1>1. ASSUME NEW o \in Op, Waiting(o) \/ Opening(o) \/ Giving(o)
      PROVE  Mu!Next
    BY <1>1 DEF Waiting, Opening, Giving, Acquire, NewSucceeds, OpenFails, ShowFails,
                Finish, Close, Mu!Next, Mu!OpenSwitch, Mu!CloseSwitch
<1>2. ASSUME NEW o \in Op, Create(o) \/ Update(o) \/ Read(o) \/ Delete(o) \/ ReadData(o)
      PROVE  Mu!Next
    BY <1>2 DEF Create, Update, Read, Delete, ReadData, Start, Mu!Next
<1>3. ASSUME NEW o \in Op, NEW x, NEW b, OpenSucceeds(o, x, b)
      PROVE  Mu!Next
    BY <1>3 DEF OpenSucceeds, Mu!Next, Mu!OpenSwitch
<1>4. ASSUME NEW o \in Op, Return(o) PROVE Mu!Next
    BY <1>4 DEF Return, Mu!Next, Mu!CloseSwitch
<1>5. ASSUME NEW o \in Op, Mu!BodyReturns(o) PROVE Mu!Next
    BY <1>5 DEF Mu!Next
<1>6. ASSUME NEW t \in Trunk, TrunkStep(t) PROVE [Mu!Next]_(Mu!vars)
    <2>1. t \in Op
        BY TrunkAssumption
    <2>2. CASE StartTrunk(t)
        BY <1>2, <2>1, <2>2 DEF StartTrunk
    <2>3. CASE OpenTrunk(t)
        BY <1>3, <2>1, <2>3 DEF OpenTrunk
    <2>4. CASE TrunkBody(t)
        <3>1. Mu!BodyReturns(t) \/ UNCHANGED muVars
            BY <2>4 DEF TrunkBody, ReadTrunks, SendTrunk, RemoveTrunk, SendTrunkFails,
                        VerifyTrunk, Finish, Goto
        <3> QED
            BY <1>5, <2>1, <3>1
    <2>5. CASE ReturnTrunk(t)
        BY <1>4, <2>1, <2>5 DEF ReturnTrunk
    <2> QED
        BY <1>6, <2>2, <2>3, <2>4, <2>5 DEF TrunkStep
<1>7. ASSUME NEW p \in Managed, InterfaceStep(p) PROVE [Mu!Next]_(Mu!vars)
    <2>1. p \in Op
        BY InterfaceAssumption
    <2>2. CASE StartInterface(p)
        BY <1>2, <2>1, <2>2 DEF StartInterface
    <2>3. CASE OpenInterface(p)
        BY <1>3, <2>1, <2>3 DEF OpenInterface
    <2>4. CASE InterfaceBody(p)
        <3>1. Mu!BodyReturns(p) \/ UNCHANGED muVars
            BY <2>4 DEF InterfaceBody, PortExists, ReadInterfaces, SendOrReturn, SendLine,
                        SendLineFails, VerifyCleared, Finish, Goto
        <3> QED
            BY <1>5, <2>1, <3>1
    <2>5. CASE ReturnInterface(p)
        BY <1>4, <2>1, <2>5 DEF ReturnInterface
    <2> QED
        BY <1>7, <2>2, <2>3, <2>4, <2>5 DEF InterfaceStep
<1>8. ASSUME NEW r \in Reader, DataStep(r) PROVE [Mu!Next]_(Mu!vars)
    <2>1. r \in Op
        BY ReaderAssumption
    <2>2. CASE StartData(r)
        BY <1>2, <2>1, <2>2 DEF StartData
    <2>3. CASE OpenData(r)
        BY <1>3, <2>1, <2>3 DEF OpenData
    <2>4. CASE DataBody(r)
        <3>1. Mu!BodyReturns(r) \/ UNCHANGED muVars
            BY <2>4 DEF DataBody, ShowInterfaces, ShowRunningConfig, ShowInterface,
                        Proceed, Finish, Goto
        <3> QED
            BY <1>5, <2>1, <3>1
    <2>5. CASE ReturnData(r)
        BY <1>4, <2>1, <2>5 DEF ReturnData
    <2> QED
        BY <1>8, <2>2, <2>3, <2>4, <2>5 DEF DataStep
<1>9. CASE People
    BY <1>9 DEF People, EditTrunk, EditBlock, Replug, Relink
<1>10. CASE UNCHANGED vars
    BY <1>10 DEF vars, common
<1> QED
    BY <1>1, <1>6, <1>7, <1>8, <1>9, <1>10 DEF Next

(* So the mutex, the program points and the sessions stay in agreement.    *)
LEMMA MuKept == Mu!LockInv /\ [Next]_vars => Mu!LockInv'
<1>1. Mu!LockInv <=> MuProofs!LockInv
    BY DEF Mu!LockInv, Mu!TypeOK, Mu!LockDiscipline, Mu!SessionDiscipline, Mu!PC,
           Mu!Critical, MuProofs!LockInv, MuProofs!TypeOK, MuProofs!LockDiscipline,
           MuProofs!SessionDiscipline, MuProofs!PC, MuProofs!Critical
<1>2. Mu!LockInv' <=> MuProofs!LockInv'
    BY DEF Mu!LockInv, Mu!TypeOK, Mu!LockDiscipline, Mu!SessionDiscipline, Mu!PC,
           Mu!Critical, MuProofs!LockInv, MuProofs!TypeOK, MuProofs!LockDiscipline,
           MuProofs!SessionDiscipline, MuProofs!PC, MuProofs!Critical
<1>3. [Mu!Next]_(Mu!vars) <=> [MuProofs!Next]_(MuProofs!vars)
    BY DEF Mu!vars, Mu!Next, Mu!Enter, Mu!OpenSwitch, Mu!Acquire, Mu!NewSucceeds,
           Mu!NewFails, Mu!OpenSucceeds, Mu!OpenFails, Mu!BodyReturns,
           Mu!CloseSwitch, Mu!Close, Mu!Unlock, Mu!Step,
           MuProofs!vars, MuProofs!Next, MuProofs!Enter, MuProofs!OpenSwitch,
           MuProofs!Acquire, MuProofs!NewSucceeds, MuProofs!NewFails,
           MuProofs!OpenSucceeds, MuProofs!OpenFails, MuProofs!BodyReturns,
           MuProofs!CloseSwitch, MuProofs!Close, MuProofs!Unlock, MuProofs!Step
<1>4. MuProofs!LockInv /\ [MuProofs!Next]_(MuProofs!vars) => MuProofs!LockInv'
    BY MuProofs!NextLockInv, NoOpAssumption DEF MuProofs!NoOpAssumption
<1> QED
    BY <1>1, <1>2, <1>3, <1>4, MuStep

(* The handlers keep the session discipline (its safety), so at most one   *)
(* has a session.                                                          *)
THEOREM SessionDisciplineKept == Spec => KeepsSessionSafety
<1>1. Init => Mu!Init
    BY DEF Init, CommonInit
<1> QED
    BY <1>1, MuStep, PTL DEF Spec, KeepsSessionSafety, Mu!Safety

(* A handler between Lock and Unlock is alone there.                       *)
LEMMA Alone ==
    ASSUME HandlerInv, NEW o \in Op, pc[o] \in Mu!Critical, NEW u \in Op \ {o}
    PROVE  pc[u] \notin Mu!Critical /\ at[u] = "none" /\ ~Answered(u)
BY DEF HandlerInv, CommonInv, Mu!LockInv, Mu!LockDiscipline, Mu!Critical, Answered

-----------------------------------------------------------------------------
(* The frame of the handlers: what any of them does to the variables of    *)
(* Handlers                                                                *)

(* Terraform core calls a handler of an instance that suits it.            *)
LEMMA StartKept ==
    ASSUME HandlerInv, Mu!TypeOK', NEW o \in Op,
           Create(o) \/ Update(o) \/ Read(o) \/ Delete(o) \/ ReadData(o)
    PROVE  CommonTypeOK' /\ \A u \in Op : CommonInv(u)' /\ Kept(u)'
<1>1. CommonTypeOK /\ Mu!TypeOK /\ \A u \in Op : CommonInv(u) /\ Kept(u)
    BY DEF HandlerInv, TypeOK, CommonTypeOK
<1>2. PICK h \in Ops \ {"none"}, b \in BOOLEAN :
        /\ Start(o, h, b)
        /\ h \in {"update", "delete"} => state[o] # "absent"
        /\ h # "read" => b
        /\ state[o] # "absent" => b
        /\ made[o] => b /\ state[o] # "absent"
    <2>1. made[o] /\ pc[o] = "idle" => state[o] # "absent"
        BY <1>1 DEF Kept
    <2>2. CASE Create(o) \/ Update(o)
        BY <2>1, <2>2 DEF Create, Update, Start, Ops, Mu!Enter, Mu!Step
    <2>3. CASE Read(o) \/ Delete(o) \/ ReadData(o)
        BY <2>1, <2>3 DEF Read, Delete, ReadData, Start, Ops, Mu!Enter, Mu!Step
    <2> QED
        BY <2>2, <2>3
<1>3. CommonTypeOK'
    BY <1>1, <1>2 DEF CommonTypeOK, Start
<1>4. ASSUME NEW u \in Op PROVE CommonInv(u)' /\ Kept(u)'
    <2>1. CommonInv(u)'
        BY <1>1, <1>2 DEF CommonTypeOK, Mu!TypeOK, Start, Mu!Enter, Mu!Step, CommonInv,
                          Writes, Ops, Answered
    <2>2. Kept(u)'
        BY <1>1, <1>2 DEF CommonTypeOK, Mu!TypeOK, Start, Mu!Enter, Mu!Step, Kept, Answered
    <2> QED
        BY <2>1, <2>2
<1> QED
    BY <1>3, <1>4

(* A point of the body that goes with the handler that runs.               *)
Suits(o, point) ==
    /\ point \in At \ {"none"}
    /\ point \in {"summary", "detail"} => op[o] = "read"
    /\ point = "show" => op[o] \in {"read", "update", "delete"}
    /\ point = "send" => Writes(o) \/ op[o] = "delete"
    /\ point = "verify" => op[o] = "delete"

(* openSwitch succeeds or fails.                                           *)
LEMMA OpenKept ==
    ASSUME HandlerInv, Mu!TypeOK', NEW o \in Op,
           \/ Acquire(o) \/ NewSucceeds(o) \/ OpenFails(o)
           \/ \E point \in At, b \in BOOLEAN : OpenSucceeds(o, point, b) /\ Suits(o, point)
    PROVE  CommonTypeOK' /\ \A u \in Op : CommonInv(u)' /\ Kept(u)'
<1>1. CommonTypeOK /\ Mu!TypeOK /\ \A u \in Op : CommonInv(u) /\ Kept(u)
    BY DEF HandlerInv, TypeOK, CommonTypeOK
<1> USE <1>1 DEF CommonTypeOK, Mu!TypeOK, Mu!Step
<1>2. CASE Acquire(o) \/ NewSucceeds(o)
    <2>1. ASSUME NEW u \in Op PROVE CommonInv(u)' /\ Kept(u)'
        BY <1>2 DEF Acquire, NewSucceeds, Mu!Acquire, Mu!NewSucceeds, CommonInv, Kept,
                    Writes, Answered
    <2> QED
        BY <1>2, <2>1 DEF Acquire, NewSucceeds
<1>3. CASE OpenFails(o)
    <2>1. ASSUME NEW u \in Op PROVE CommonInv(u)' /\ Kept(u)'
        BY <1>3 DEF OpenFails, Mu!NewFails, Mu!OpenFails, CommonInv, Kept, Writes, Answered
    <2> QED
        BY <1>3, <2>1 DEF OpenFails
<1>4. ASSUME NEW point \in At, NEW b \in BOOLEAN, OpenSucceeds(o, point, b), Suits(o, point)
      PROVE  CommonTypeOK' /\ \A u \in Op : CommonInv(u)' /\ Kept(u)'
    <2>1. ASSUME NEW u \in Op PROVE CommonInv(u)'
        BY <1>4 DEF OpenSucceeds, Mu!OpenSucceeds, CommonInv, Writes, Suits, Answered
    <2>2. ASSUME NEW u \in Op PROVE Kept(u)'
        BY <1>4 DEF OpenSucceeds, Mu!OpenSucceeds, Kept, Answered
    <2> QED
        BY <1>4, <2>1, <2>2 DEF OpenSucceeds
<1> QED
    BY <1>2, <1>3, <1>4

(* The handler at work goes on to the next point or returns.               *)
LEMMA BodyKept ==
    ASSUME HandlerInv, Mu!TypeOK', NEW o \in Op, pc[o] = "body",
           \/ \E point \in At : Goto(o, point) /\ Suits(o, point)
           \/ \E x \in {"ok", "error"} : Finish(o, x),
           id' \in [Op -> BOOLEAN], \A u \in Op : u # o \/ op[u] # "read" => id'[u] = id[u],
           id[o] => id'[o] \/ (Finish(o, "ok") /\ o \notin Reader),
           stale' \in [Op -> BOOLEAN],
           made' \in [Op -> BOOLEAN]
    PROVE  CommonTypeOK' /\ \A u \in Op : CommonInv(u)'
<1>1. CommonTypeOK /\ Mu!TypeOK /\ \A u \in Op : CommonInv(u)
    BY DEF HandlerInv, TypeOK, CommonTypeOK
<1> USE <1>1 DEF CommonTypeOK, Mu!TypeOK, Mu!Step
<1>2. ASSUME NEW point \in At, Goto(o, point), Suits(o, point)
      PROVE  CommonTypeOK' /\ \A u \in Op : CommonInv(u)'
    <2>1. ASSUME NEW u \in Op PROVE CommonInv(u)'
        BY <1>2 DEF Goto, muVars, Finish, Mu!BodyReturns, CommonInv, Writes, Suits, Answered
    <2> QED
        BY <1>2, <2>1 DEF Goto
<1>3. ASSUME NEW x \in {"ok", "error"}, Finish(o, x)
      PROVE  CommonTypeOK' /\ \A u \in Op : CommonInv(u)'
    <2>1. ASSUME NEW u \in Op PROVE CommonInv(u)'
        BY <1>3 DEF Finish, Mu!BodyReturns, CommonInv, Writes, Answered
    <2>2. at' \in [Op -> At]
        BY <1>3 DEF Finish, At
    <2> QED
        BY <1>3, <2>1, <2>2 DEF Finish
<1> QED
    BY <1>2, <1>3

(* Nothing is forgotten by a step of the body that makes nothing but in a  *)
(* write, keeps the id of what was made, and ends a delete with success    *)
(* only when nothing made is left.                                         *)
LEMMA BodyForgetsNothing ==
    ASSUME HandlerInv, NEW o \in Op, pc[o] = "body",
           \/ \E point \in At : Goto(o, point)
           \/ \E x \in {"ok", "error"} :
                Finish(o, x) /\ (x = "ok" /\ op[o] = "delete" => ~made'[o]),
           \A u \in Op : made'[u] => made[u] \/ (u = o /\ Writes(o)),
           \A u \in Op : made'[u] => (id[u] => id'[u]),
           NEW u \in Op
    PROVE  Kept(u)'
<1>1. CommonTypeOK /\ Mu!TypeOK /\ CommonInv(u) /\ Kept(u) /\ CommonInv(o)
    BY DEF HandlerInv, TypeOK, CommonTypeOK
<1> USE <1>1 DEF CommonTypeOK, Mu!TypeOK, Mu!Step
<1>2. CASE \E point \in At : Goto(o, point)
    BY <1>2 DEF Goto, muVars, Kept, CommonInv, Writes, Answered
<1>3. ASSUME NEW x \in {"ok", "error"}, Finish(o, x),
             x = "ok" /\ op[o] = "delete" => ~made'[o]
      PROVE  Kept(u)'
    BY <1>3 DEF Finish, Mu!BodyReturns, Kept, CommonInv, Writes, Answered
<1> QED
    BY <1>2, <1>3

(* A failed Show and closeSwitch.                                          *)
LEMMA CloseKept ==
    ASSUME HandlerInv, Mu!TypeOK', NEW o \in Op, ShowFails(o) \/ Close(o) \/ Return(o)
    PROVE  CommonTypeOK' /\ \A u \in Op : CommonInv(u)' /\ Kept(u)'
<1>1. CommonTypeOK /\ Mu!TypeOK /\ \A u \in Op : CommonInv(u) /\ Kept(u)
    BY DEF HandlerInv, TypeOK, CommonTypeOK
<1>2. CASE ShowFails(o)
    <2>1. pc[o] = "body" /\ Finish(o, "error") /\ UNCHANGED <<id, stale, made>>
        BY <1>2 DEF ShowFails, Finish, Mu!BodyReturns, Mu!Step
    <2> QED
        BY <1>1, <2>1, BodyKept, BodyForgetsNothing DEF CommonTypeOK
<1> USE <1>1 DEF CommonTypeOK, Mu!TypeOK, Mu!Step
<1>3. CASE Close(o)
    <2>1. ASSUME NEW u \in Op PROVE CommonInv(u)' /\ Kept(u)'
        BY <1>3 DEF Close, Mu!Close, CommonInv, Kept, Writes, Answered
    <2> QED
        BY <1>3, <2>1 DEF Close
<1>4. CASE Return(o)
    <2>1. StateAfter(o) \in {"absent", "tainted", "present"}
        BY DEF StateAfter
    <2>2. ASSUME NEW u \in Op PROVE CommonInv(u)'
        BY <1>4 DEF Return, Mu!Unlock, CommonInv, Writes, Answered
    <2>3. ASSUME NEW u \in Op PROVE Kept(u)'
        BY <1>4 DEF Return, Mu!Unlock, Kept, Answered, StateAfter
    <2> QED
        BY <1>4, <2>1, <2>2, <2>3 DEF Return, Ops
<1> QED
    BY <1>2, <1>3, <1>4

-----------------------------------------------------------------------------
(* A handler at rest while another makes a step                            *)

(* What a step of another leaves alone of handler u.                       *)
Resting(u) ==
    /\ UNCHANGED <<pc[u], op[u], at[u], id[u], result[u]>>
    /\ stale[u] => stale'[u]

(* Steps of one handler leave the others at rest.                          *)
LEMMA OthersRest ==
    ASSUME CommonTypeOK, NEW o \in Op, NEW u \in Op \ {o},
           \/ Create(o) \/ Update(o) \/ Read(o) \/ Delete(o) \/ ReadData(o)
           \/ Acquire(o) \/ NewSucceeds(o) \/ OpenFails(o)
           \/ \E x, b : OpenSucceeds(o, x, b)
           \/ ShowFails(o) \/ Close(o) \/ Return(o)
           \/ /\ \/ \E x : Goto(o, x)
                 \/ \E x : Finish(o, x)
              /\ UNCHANGED stale \/ Fresh(o)
              /\ UNCHANGED id \/ \E b : SetId(o, b)
    PROVE  Resting(u)
<1> USE DEF CommonTypeOK, Mu!TypeOK, Mu!Step, Resting, muVars
<1>1. CASE Create(o) \/ Update(o) \/ Read(o) \/ Delete(o) \/ ReadData(o)
    BY <1>1 DEF Create, Update, Read, Delete, ReadData, Start, Mu!Enter
<1>2. CASE Acquire(o) \/ NewSucceeds(o)
    BY <1>2 DEF Acquire, NewSucceeds, Mu!Acquire, Mu!NewSucceeds
<1>3. CASE OpenFails(o)
    BY <1>3 DEF OpenFails, Mu!NewFails, Mu!OpenFails
<1>4. CASE \E x, b : OpenSucceeds(o, x, b)
    BY <1>4 DEF OpenSucceeds, Mu!OpenSucceeds
<1>5. CASE ShowFails(o) \/ Close(o) \/ Return(o)
    BY <1>5 DEF ShowFails, Finish, Mu!BodyReturns, Close, Mu!Close, Return, Mu!Unlock
<1>6. CASE /\ \/ \E x : Goto(o, x)
              \/ \E x : Finish(o, x)
           /\ UNCHANGED stale \/ Fresh(o)
           /\ UNCHANGED id \/ \E b : SetId(o, b)
    BY <1>6 DEF Goto, Finish, Mu!BodyReturns, Fresh, SetId
<1> QED
    BY <1>1, <1>2, <1>3, <1>4, <1>5, <1>6

(* A trunk handler at rest still knows its trunk, if the trunk is as it    *)
(* was, or changed behind its back, or the handler does not have the       *)
(* switch.                                                                 *)
LEMMA TrunkFrame ==
    ASSUME HandlerInv, NEW t \in Trunk, Resting(t),
           UNCHANGED <<trunkWant[t], trunkRead[t]>>,
           made'[t] => trunks'[t] # NoTrunk,
           UNCHANGED trunks[t] \/ stale'[t] \/ pc[t] \notin Mu!Critical
    PROVE  TrunkPoint(t)' /\ KnowsTrunk(t)'
<1>1. t \in Op /\ CommonInv(t) /\ TrunkPoint(t) /\ KnowsTrunk(t)
    BY TrunkAssumption DEF HandlerInv
<1>2. TrunkPoint(t)'
    BY <1>1 DEF TrunkPoint, Resting
<1>3. CASE stale'[t]
    BY <1>2, <1>3 DEF KnowsTrunk
<1>4. CASE UNCHANGED trunks[t]
    BY <1>1, <1>2, <1>4 DEF KnowsTrunk, Resting, Answered, Writes, TrunkReached
<1>5. CASE pc[t] \notin Mu!Critical
    BY <1>1, <1>2, <1>5 DEF KnowsTrunk, Resting, Answered, CommonInv, Mu!Critical
<1> QED
    BY <1>3, <1>4, <1>5

(* The same for an interface handler and its port.                         *)
LEMMA InterfaceFrame ==
    ASSUME HandlerInv, NEW p \in Managed, Resting(p),
           UNCHANGED <<blockWant[p], blockRead[p], todo[p]>>,
           made'[p] => blocks'[p] # Cleared /\ p \in chassis',
           \/ UNCHANGED blocks[p] /\ (p \in chassis <=> p \in chassis')
           \/ stale'[p]
           \/ pc[p] \notin Mu!Critical
    PROVE  InterfacePoint(p)' /\ KnowsInterface(p)'
<1>1. p \in Op /\ CommonInv(p) /\ InterfacePoint(p) /\ KnowsInterface(p)
    BY InterfaceAssumption DEF HandlerInv
<1>2. InterfacePoint(p)'
    BY <1>1 DEF InterfacePoint, Resting
<1>3. CASE stale'[p]
    BY <1>2, <1>3 DEF KnowsInterface
<1>4. CASE UNCHANGED blocks[p] /\ (p \in chassis <=> p \in chassis')
    BY <1>1, <1>2, <1>4 DEF KnowsInterface, Resting, Answered, Writes, Partway
<1>5. CASE pc[p] \notin Mu!Critical
    BY <1>1, <1>2, <1>5 DEF KnowsInterface, Resting, Answered, CommonInv, Mu!Critical
<1> QED
    BY <1>3, <1>4, <1>5

(* The same for a data source and the whole switch.                        *)
LEMMA DataFrame ==
    ASSUME HandlerInv, NEW r \in Reader, Resting(r),
           UNCHANGED <<marks[r], config[r], details[r], toShow[r]>>,
           ~made'[r],
           UNCHANGED <<trunks, portVars>> \/ stale'[r] \/ pc[r] \notin Mu!Critical
    PROVE  DataPoint(r)' /\ KnowsPicture(r)'
<1>1. r \in Op /\ CommonInv(r) /\ DataPoint(r) /\ KnowsPicture(r)
    BY ReaderAssumption DEF HandlerInv
<1>2. DataPoint(r)'
    BY <1>1 DEF DataPoint, Resting
<1>3. CASE stale'[r]
    BY <1>2, <1>3 DEF KnowsPicture
<1>4. CASE UNCHANGED <<trunks, portVars>>
    BY <1>1, <1>2, <1>4 DEF KnowsPicture, Resting, Answered, MarkOf, DetailOf, Up, portVars
<1>5. CASE pc[r] \notin Mu!Critical
    BY <1>1, <1>2, <1>5 DEF KnowsPicture, Resting, Answered, CommonInv, Mu!Critical
<1> QED
    BY <1>3, <1>4, <1>5

-----------------------------------------------------------------------------
(* Steps of the trunk handlers                                             *)

(* A trunk loses the ports that are released, and those only.              *)
LEMMA WithoutPorts ==
    ASSUME NEW c \in TrunkConfig \union {NoTrunk}, NEW P
    PROVE  /\ Without(c, P) \in TrunkConfig \union {NoTrunk}
           /\ PortsOf(Without(c, P)) = PortsOf(c) \ P
           /\ PortsOf(c) \intersect P = {} => Without(c, P) = c
<1> USE TrunkAssumption DEF Without, PortsOf, TrunkConfig
<1>1. CASE PortsOf(c) \subseteq P
    <2>1. Without(c, P) = NoTrunk /\ PortsOf(NoTrunk) = {} /\ PortsOf(c) \ P = {}
        BY <1>1
    <2>2. PortsOf(c) \intersect P = {} => c = NoTrunk
        BY <1>1
    <2> HIDE DEF Without, PortsOf, TrunkConfig
    <2> QED
        BY <2>1, <2>2
<1>2. CASE ~(PortsOf(c) \subseteq P)
    <2>1. c \in TrunkConfig /\ c.ports \ P \in (SUBSET Port) \ {{}}
        BY <1>2
    <2>2. Without(c, P) = [c EXCEPT !.ports = c.ports \ P]
        BY <1>2
    <2>3. PortsOf(c) \intersect P = {} => c.ports \ P = c.ports
        BY <2>1
    <2> QED
        BY <2>1, <2>2, <2>3
<1> QED
    BY <1>1, <1>2

(* Releasing ports, and giving free ones to a trunk, leaves a port in one  *)
(* trunk at most.                                                          *)
LEMMA FormType ==
    ASSUME trunks \in Trunks, NEW t \in Trunk, NEW P,
           NEW c \in TrunkConfig \union {NoTrunk},
           PortsOf(c) \subseteq P \union PortsOf(trunks[t])
    PROVE  /\ Release(P) \in Trunks
           /\ [Release(P) EXCEPT ![t] = c] \in Trunks
<1>1. ASSUME NEW u \in Trunk
      PROVE  /\ trunks[u] \in TrunkConfig \union {NoTrunk}
             /\ Release(P)[u] \in TrunkConfig \union {NoTrunk}
             /\ PortsOf(Release(P)[u]) = PortsOf(trunks[u]) \ P
    BY WithoutPorts DEF Trunks, Release
<1>2. ASSUME NEW u \in Trunk, NEW v \in Trunk, u # v
      PROVE  PortsOf(trunks[u]) \intersect PortsOf(trunks[v]) = {}
    BY <1>2 DEF Trunks
<1>3. Release(P) \in [Trunk -> TrunkConfig \union {NoTrunk}]
    BY <1>1 DEF Release
<1>4. Release(P) \in Trunks
    BY <1>1, <1>2, <1>3 DEF Trunks
<1> DEFINE formed == [Release(P) EXCEPT ![t] = c]
<1>5. formed \in [Trunk -> TrunkConfig \union {NoTrunk}]
    BY <1>3
<1>6. ASSUME NEW u \in Trunk, NEW v \in Trunk, u # v
      PROVE  PortsOf(formed[u]) \intersect PortsOf(formed[v]) = {}
    <2>1. formed[t] = c /\ \A w \in Trunk \ {t} : formed[w] = Release(P)[w]
        BY <1>3
    <2> HIDE DEF formed
    <2>2. CASE u = t
        BY <1>1, <1>2, <1>6, <2>1, <2>2
    <2>3. CASE v = t
        BY <1>1, <1>2, <1>6, <2>1, <2>3
    <2>4. CASE u # t /\ v # t
        BY <1>1, <1>2, <1>6, <2>1, <2>4
    <2> QED
        BY <2>2, <2>3, <2>4
<1>7. formed \in Trunks
    <2> HIDE DEF formed
    <2> QED
        BY <1>5, <1>6 DEF Trunks
<1> QED
    BY <1>4, <1>7

(* What a `trunk` line makes of the trunks.                                *)
LEMMA FormReaches ==
    ASSUME trunks \in Trunks, NEW t \in Trunk, NEW w \in TrunkConfig,
           NEW ts \in Form(t, w)
    PROVE  /\ ts \in Trunks
           /\ ts[t] # NoTrunk
           /\ ts[t].mode = w.mode
           /\ w.ports \subseteq ts[t].ports
           /\ ts[t].ports \subseteq w.ports \union PortsOf(trunks[t])
<1>1. PICK kept \in {{}, PortsOf(trunks[t])} :
        ts = [Release(w.ports) EXCEPT ![t] = [w EXCEPT !.ports = w.ports \union kept]]
    BY DEF Form
<1> DEFINE c == [w EXCEPT !.ports = w.ports \union kept]
<1>2. trunks[t] \in TrunkConfig \union {NoTrunk} /\ PortsOf(trunks[t]) \subseteq Port
    BY DEF Trunks, TrunkConfig, PortsOf
<1>3. c \in TrunkConfig /\ c.ports = w.ports \union kept /\ c.mode = w.mode
    <2>1. w.ports \union kept \in (SUBSET Port) \ {{}} /\ w.mode \in Mode
        BY <1>2 DEF TrunkConfig
    <2>2. c = [ports |-> w.ports \union kept, mode |-> w.mode]
        BY DEF TrunkConfig
    <2> QED
        BY <2>1, <2>2 DEF TrunkConfig
<1>4. PortsOf(c) \subseteq w.ports \union PortsOf(trunks[t])
    BY <1>3 DEF PortsOf
<1> HIDE DEF c
<1>5. ts \in Trunks
    BY <1>1, <1>3, <1>4, FormType DEF c
<1>6. ts[t] = c
    BY <1>1 DEF c, Release
<1> QED
    BY <1>1, <1>3, <1>5, <1>6, TrunkAssumption

(* The line of a handler leaves a well-formed set of trunks, and makes     *)
(* nothing but the handler's trunk, in a write.                            *)
LEMMA ApplyTrunkType ==
    ASSUME HandlerInv, NEW t \in Trunk, ApplyTrunk(t)
    PROVE  /\ trunks' \in Trunks
           /\ made' \in [Op -> BOOLEAN]
           /\ \A o \in Op : made'[o] => made[o] \/ (o = t /\ Writes(o))
           /\ \A u \in Trunk : made'[u] => trunks'[u] # NoTrunk
           /\ \A o \in Op \ Trunk : made'[o] = made[o]
<1>1. /\ trunks \in Trunks /\ trunkWant[t] \in TrunkConfig /\ trunkRead[t] \in TrunkConfig \union {NoTrunk}
      /\ made \in [Op -> BOOLEAN] /\ t \in Op /\ Trunk \subseteq Op
    BY TrunkAssumption DEF HandlerInv, TypeOK, TrunkTypeOK, CommonTypeOK
<1>2. NoTrunk \in TrunkConfig \union {NoTrunk} /\ PortsOf(NoTrunk) = {}
    BY DEF PortsOf
<1>3. trunks' \in Trunks
    <2>1. CASE trunks' \in Form(t, trunkWant[t])
        BY <1>1, <2>1, FormReaches
    <2>2. CASE trunks' = Release(Removes(t))
        BY <1>1, <1>2, <2>2, FormType
    <2> QED
        BY <2>1, <2>2 DEF ApplyTrunk
<1>4. /\ made' = [o \in Op |-> IF o \in Trunk
                              THEN /\ trunks'[o] # NoTrunk
                                   /\ made[o] \/ (o = t /\ trunks[o] = NoTrunk)
                              ELSE made[o]]
    BY DEF ApplyTrunk
<1>5. op[t] = "delete" /\ trunks[t] = NoTrunk => trunks'[t] = NoTrunk
    BY <1>1 DEF ApplyTrunk, Writes, Release, Without, PortsOf
<1>6. Writes(t) \/ op[t] = "delete"
    BY DEF ApplyTrunk
<1> QED
    BY <1>1, <1>3, <1>4, <1>5, <1>6

(* What a step of a trunk handler's body is to the frame.                  *)
LEMMA TrunkBodyFrame ==
    ASSUME HandlerInv, NEW t \in Trunk, TrunkBody(t)
    PROVE  /\ pc[t] = "body"
           /\ \/ \E point \in At : Goto(t, point) /\ Suits(t, point)
              \/ \E x \in {"ok", "error"} :
                    Finish(t, x) /\ (x = "ok" /\ op[t] = "delete" => ~made'[t])
           /\ UNCHANGED stale \/ Fresh(t)
           /\ \/ UNCHANGED id
              \/ op[t] = "read" /\ Finish(t, "ok") /\ \E b \in BOOLEAN : SetId(t, b)
           /\ made' \in [Op -> BOOLEAN]
           /\ \A o \in Op : made'[o] => made[o] \/ (o = t /\ Writes(o))
           /\ \A u \in Trunk : made'[u] => trunks'[u] # NoTrunk
           /\ \A o \in Op \ Trunk : made'[o] = made[o]
           /\ \A o \in Op : made'[o] => (id[o] => id'[o])
<1>1. /\ t \in Op /\ CommonInv(t) /\ TrunkPoint(t) /\ id \in [Op -> BOOLEAN]
      /\ made \in [Op -> BOOLEAN] /\ \A u \in Trunk : made[u] => trunks[u] # NoTrunk
    BY TrunkAssumption DEF HandlerInv, TypeOK, CommonTypeOK, TrunkPoint
<1>2. CASE ReadTrunks(t)
    BY <1>1, <1>2 DEF ReadTrunks, InBody, At, Suits, Writes, SetId
<1>3. ASSUME SendTrunk(t) \/ RemoveTrunk(t) \/ SendTrunkFails(t)
      PROVE  /\ made' \in [Op -> BOOLEAN]
             /\ \A o \in Op : made'[o] => made[o] \/ (o = t /\ Writes(o))
             /\ \A u \in Trunk : made'[u] => trunks'[u] # NoTrunk
             /\ \A o \in Op \ Trunk : made'[o] = made[o]
    <2>1. ApplyTrunk(t) \/ IgnoreTrunk
        BY <1>3 DEF SendTrunk, RemoveTrunk, SendTrunkFails
    <2> QED
        BY <1>1, <2>1, ApplyTrunkType DEF IgnoreTrunk
<1>4. CASE SendTrunk(t)
    BY <1>1, <1>3, <1>4 DEF SendTrunk, InBody, Writes
<1>5. CASE RemoveTrunk(t)
    BY <1>1, <1>3, <1>5 DEF RemoveTrunk, InBody, Writes, At, Suits
<1>6. CASE SendTrunkFails(t)
    BY <1>1, <1>3, <1>6 DEF SendTrunkFails, InBody
<1>7. CASE VerifyTrunk(t)
    BY <1>1, <1>7 DEF VerifyTrunk, InBody, trunkVars
<1> QED
    BY <1>2, <1>4, <1>5, <1>6, <1>7 DEF TrunkBody

(* A trunk handler's step keeps its own knowledge of its trunk.            *)
LEMMA TrunkOwn ==
    ASSUME HandlerInv, NEW t \in Trunk, TrunkStep(t)
    PROVE  TrunkTypeOK' /\ TrunkPoint(t)' /\ KnowsTrunk(t)'
<1>1. /\ t \in Op /\ CommonTypeOK /\ Mu!TypeOK /\ TrunkTypeOK
      /\ CommonInv(t) /\ TrunkPoint(t) /\ KnowsTrunk(t)
    BY TrunkAssumption DEF HandlerInv, TypeOK, CommonTypeOK
<1> USE <1>1 DEF CommonTypeOK, Mu!TypeOK, TrunkTypeOK, Mu!Step, muVars, trunkVars
<1>2. CASE StartTrunk(t)
    <2>1. PICK h \in Ops, b \in BOOLEAN : Start(t, h, b)
        BY <1>2 DEF StartTrunk, Create, Update, Read, Delete, Ops
    <2> QED
        BY <1>2, <2>1 DEF StartTrunk, Start, Mu!Enter, TrunkPoint, KnowsTrunk, CommonInv, Answered
<1>3. CASE OpenTrunk(t)
    BY <1>3 DEF OpenTrunk, OpenSucceeds, Mu!OpenSucceeds, TrunkPoint, KnowsTrunk, CommonInv,
                Answered
<1>4. CASE TrunkBody(t)
    <2> USE DEF InBody, Finish, Goto, Mu!BodyReturns
    <2>1. CASE ReadTrunks(t)
        <3>1. trunks[t] \in TrunkConfig \union {NoTrunk}
            BY DEF Trunks
        <3>2. TrunkTypeOK' /\ TrunkPoint(t)'
            BY <2>1, <3>1 DEF ReadTrunks, TrunkPoint
        <3>3. /\ UNCHANGED <<trunks, trunkWant, op>> /\ trunkRead'[t] = trunks[t]
            BY <2>1 DEF ReadTrunks
        <3>4. CASE op[t] = "update"
            <4>1. ~BuildTrunkConfig(trunks[t], trunkWant[t]) => TrunkReached(t)'
                BY <3>3 DEF BuildTrunkConfig, TrunkReached, PortsOf
            <4> QED
                BY <2>1, <3>2, <3>3, <3>4, <4>1 DEF ReadTrunks, KnowsTrunk, Answered, Writes
        <3>5. CASE op[t] = "delete"
            BY <2>1, <3>2, <3>3, <3>5 DEF ReadTrunks, KnowsTrunk, Answered, Writes
        <3>6. CASE op[t] = "read"
            BY <2>1, <3>2, <3>3, <3>6 DEF ReadTrunks, KnowsTrunk, Answered, Writes, SetId
        <3> QED
            BY <2>1, <3>4, <3>5, <3>6 DEF ReadTrunks
    <2>2. CASE SendTrunk(t)
        <3>1. trunkWant[t] \in TrunkConfig /\ trunks' \in Form(t, trunkWant[t])
            BY <2>2, TrunkAssumption DEF SendTrunk, ApplyTrunk, Writes
        <3>2. /\ trunks' \in Trunks /\ trunks'[t] # NoTrunk
              /\ trunks'[t].mode = trunkWant[t].mode
              /\ trunkWant[t].ports \subseteq trunks'[t].ports
              /\ trunks'[t].ports \subseteq trunkWant[t].ports \union PortsOf(trunks[t])
            BY <3>1, FormReaches
        <3>3. TrunkTypeOK'
            BY <2>2, <3>2 DEF SendTrunk
        <3>4. TrunkPoint(t)'
            <4>1. made'[t] => trunks'[t] # NoTrunk
                BY <3>2
            <4> QED
                BY <2>2, <4>1 DEF SendTrunk, TrunkPoint
        <3>5. stale[t] \/ TrunkReached(t)'
            BY <2>2, <3>2 DEF SendTrunk, KnowsTrunk, TrunkReached
        <3>6. KnowsTrunk(t)'
            BY <2>2, <3>5 DEF SendTrunk, KnowsTrunk, Answered, Writes
        <3> QED
            BY <3>3, <3>4, <3>6
    <2>3. CASE RemoveTrunk(t) \/ SendTrunkFails(t)
        <3>1. trunks' \in Trunks /\ (made'[t] => trunks'[t] # NoTrunk)
            <4>1. ApplyTrunk(t) \/ IgnoreTrunk
                BY <2>3 DEF RemoveTrunk, SendTrunkFails
            <4> QED
                BY <4>1, ApplyTrunkType DEF IgnoreTrunk, TrunkPoint
        <3>2. TrunkTypeOK' /\ TrunkPoint(t)'
            BY <2>3, <3>1 DEF RemoveTrunk, SendTrunkFails, TrunkPoint
        <3>3. KnowsTrunk(t)'
            BY <2>3 DEF RemoveTrunk, SendTrunkFails, KnowsTrunk, Answered, CommonInv
        <3> QED
            BY <3>2, <3>3
    <2>4. CASE VerifyTrunk(t)
        BY <2>4 DEF VerifyTrunk, TrunkPoint, KnowsTrunk, Answered, Writes, CommonInv
    <2> QED
        BY <1>4, <2>1, <2>2, <2>3, <2>4 DEF TrunkBody
<1>5. CASE ReturnTrunk(t)
    BY <1>5 DEF ReturnTrunk, Return, Mu!Unlock, TrunkPoint, KnowsTrunk, CommonInv, Answered
<1> QED
    BY <1>2, <1>3, <1>4, <1>5 DEF TrunkStep

(* A trunk handler's step keeps the frame, and leaves the others at rest.  *)
LEMMA TrunkStepFrame ==
    ASSUME HandlerInv, Mu!TypeOK', NEW t \in Trunk, TrunkStep(t)
    PROVE  /\ CommonTypeOK' /\ \A o \in Op : CommonInv(o)' /\ Kept(o)'
           /\ \A o \in Op \ {t} : Resting(o)
           /\ \A u \in Trunk : made'[u] => trunks'[u] # NoTrunk
           /\ \A o \in Op \ Trunk : made'[o] = made[o]
           /\ \A u \in Trunk \ {t} : UNCHANGED <<trunkWant[u], trunkRead[u]>>
           /\ UNCHANGED trunks \/ pc[t] = "body"
<1>1. /\ t \in Op /\ CommonTypeOK /\ TrunkTypeOK /\ CommonInv(t)
      /\ \A u \in Trunk : made[u] => trunks[u] # NoTrunk
    BY TrunkAssumption DEF HandlerInv, TypeOK, TrunkPoint
<1>2. \A u \in Trunk \ {t} : UNCHANGED <<trunkWant[u], trunkRead[u]>>
    BY <1>1 DEF TrunkTypeOK, trunkVars, TrunkStep, StartTrunk, OpenTrunk, TrunkBody,
                ReadTrunks, SendTrunk, RemoveTrunk, SendTrunkFails, VerifyTrunk, ReturnTrunk
<1>3. CASE StartTrunk(t)
    <2>1. /\ Create(t) \/ Update(t) \/ Read(t) \/ Delete(t)
          /\ UNCHANGED <<trunks, made>>
        BY <1>3 DEF StartTrunk, Create, Update, Read, Delete, Start
    <2> QED
        BY <1>1, <1>2, <2>1, StartKept, OthersRest
<1>4. CASE OpenTrunk(t)
    <2>1. /\ \E point \in At, b \in BOOLEAN : OpenSucceeds(t, point, b) /\ Suits(t, point)
          /\ UNCHANGED <<trunks, made>>
        <3>1. pc[t] = "open" /\ op[t] \in Ops \ {"none"}
            BY <1>1, <1>4 DEF OpenTrunk, OpenSucceeds, Mu!OpenSucceeds, Mu!Step, CommonInv,
                              CommonTypeOK
        <3> QED
            BY <1>4, <3>1 DEF OpenTrunk, OpenSucceeds, trunkVars, Suits, Writes, At, Ops
    <2>2. \A o \in Op \ {t} : Resting(o)
        BY <1>1, <2>1, OthersRest
    <2>3. CommonTypeOK' /\ \A o \in Op : CommonInv(o)' /\ Kept(o)'
        BY <1>1, <2>1, OpenKept
    <2> QED
        BY <1>1, <1>2, <2>1, <2>2, <2>3
<1>5. CASE TrunkBody(t)
    <2> HIDE DEF TrunkBody
    <2>1. id' \in [Op -> BOOLEAN] /\ stale' \in [Op -> BOOLEAN]
        <3>1. UNCHANGED stale \/ stale' = [stale EXCEPT ![t] = FALSE]
            BY <1>5, TrunkBodyFrame DEF Fresh
        <3>2. UNCHANGED id \/ \E b \in BOOLEAN : id' = [id EXCEPT ![t] = b]
            BY <1>5, TrunkBodyFrame DEF SetId
        <3> QED
            BY <1>1, <3>1, <3>2 DEF CommonTypeOK
    <2>2. \A o \in Op : o # t \/ op[o] # "read" => id'[o] = id[o]
        BY <1>1, <1>5, TrunkBodyFrame DEF CommonTypeOK, SetId
    <2>3. CommonTypeOK' /\ \A o \in Op : CommonInv(o)'
        <3>1. id[t] => id'[t] \/ (Finish(t, "ok") /\ t \notin Reader)
            BY <1>5, TrunkAssumption, TrunkBodyFrame
        <3> QED
            BY <1>1, <1>5, <2>1, <2>2, <3>1, TrunkBodyFrame, BodyKept
    <2>4. \A o \in Op : Kept(o)'
        BY <1>1, <1>5, TrunkBodyFrame, BodyForgetsNothing
    <2>5. \A o \in Op \ {t} : Resting(o)
        BY <1>1, <1>5, TrunkBodyFrame, OthersRest
    <2> QED
        BY <1>2, <1>5, <2>3, <2>4, <2>5, TrunkBodyFrame
<1>6. CASE ReturnTrunk(t)
    <2>1. Return(t) /\ UNCHANGED <<trunks, made>>
        BY <1>6 DEF ReturnTrunk, Return
    <2> QED
        BY <1>1, <1>2, <2>1, CloseKept, OthersRest
<1> QED
    BY <1>3, <1>4, <1>5, <1>6 DEF TrunkStep

(* So every handler keeps what it knows when a trunk handler makes a step. *)
LEMMA TrunkStepKept ==
    ASSUME HandlerInv, Mu!LockInv', NEW t \in Trunk, TrunkStep(t)
    PROVE  HandlerInv'
<1>1. Mu!TypeOK' /\ Trunk \subseteq Op \ Reader /\ Managed \subseteq Op \ Reader
      /\ Reader \subseteq Op /\ Trunk \intersect Managed = {}
    BY TrunkAssumption, InterfaceAssumption, ReaderAssumption, DataAssumption DEF Mu!LockInv
<1>2. UNCHANGED <<interfaceVars, dataVars>>
    BY DEF TrunkStep
<1>3. TypeOK'
    BY <1>1, <1>2, TrunkStepFrame, TrunkOwn
       DEF HandlerInv, TypeOK, InterfaceTypeOK, DataTypeOK, interfaceVars, portVars, dataVars
<1>4. ASSUME NEW u \in Trunk PROVE TrunkPoint(u)' /\ KnowsTrunk(u)'
    <2>1. CASE u = t
        BY <2>1, TrunkOwn
    <2>2. CASE u # t
        <3>1. UNCHANGED trunks[u] \/ pc[u] \notin Mu!Critical
            BY <1>1, <2>2, TrunkStepFrame, Alone DEF Mu!Critical
        <3> QED
            BY <1>1, <2>2, <3>1, TrunkStepFrame, TrunkFrame
    <2> QED
        BY <2>1, <2>2
<1>5. ASSUME NEW p \in Managed PROVE InterfacePoint(p)' /\ KnowsInterface(p)'
    <2>1. made'[p] => blocks'[p] # Cleared /\ p \in chassis'
        BY <1>1, <1>2, TrunkStepFrame DEF HandlerInv, InterfacePoint, interfaceVars, portVars
    <2> QED
        BY <1>1, <1>2, <2>1, TrunkStepFrame, InterfaceFrame DEF interfaceVars, portVars
<1>6. ASSUME NEW r \in Reader PROVE DataPoint(r)' /\ KnowsPicture(r)'
    <2>1. ~made'[r]
        BY <1>1, TrunkStepFrame DEF HandlerInv, DataPoint
    <2>2. UNCHANGED <<trunks, portVars>> \/ pc[r] \notin Mu!Critical
        BY <1>1, <1>2, TrunkStepFrame, Alone DEF Mu!Critical, interfaceVars
    <2> QED
        BY <1>1, <1>2, <2>1, <2>2, TrunkStepFrame, DataFrame DEF dataVars
<1> QED
    BY <1>1, <1>3, <1>4, <1>5, <1>6, TrunkStepFrame DEF HandlerInv

-----------------------------------------------------------------------------
(* Steps of the interface handlers                                         *)

(* The block of lines is an `interface` block, or empty; and when it is    *)
(* empty, nothing differs.                                                 *)
LEMMA BuiltLines ==
    ASSUME NEW c \in Block, NEW w \in Block
    PROVE  /\ BuildInterfaceConfig(c, w) \subseteq Line
           /\ BuildInterfaceConfig(c, w) = {} => c = w
           /\ BuildInterfaceConfig(c, w) # {}
                => /\ "exit" \in BuildInterfaceConfig(c, w)
                   /\ Partway(c, c, w, BuildInterfaceConfig(c, w))
<1> DEFINE changed == {f \in Field : c[f] # w[f]}
<1>1. changed \subseteq Field /\ Field \subseteq Line /\ {"interface", "exit"} \subseteq Line
    BY DEF Field, Line
<1>2. \/ BuildInterfaceConfig(c, w) = {} /\ changed = {}
      \/ BuildInterfaceConfig(c, w) = changed \union {"interface", "exit"}
    BY DEF BuildInterfaceConfig
<1>3. changed = {} => c = w
    BY DEF Field, Block
<1>4. Partway(c, c, w, changed \union {"interface", "exit"})
    BY DEF Partway
<1> QED
    BY <1>1, <1>2, <1>3, <1>4

(* The lines that clear a block.                                           *)
LEMMA ClearingLines ==
    ASSUME NEW c \in Block
    PROVE  /\ BuildInterfaceDeleteBlock(c) \subseteq Line
           /\ BuildInterfaceDeleteBlock(c) = {} => c = Cleared
           /\ BuildInterfaceDeleteBlock(c) # {} => "exit" \in BuildInterfaceDeleteBlock(c)
<1> DEFINE changed == {f \in Field : c[f] # Cleared[f]}
<1>1. changed \subseteq Field /\ Field \subseteq Line /\ {"interface", "exit"} \subseteq Line
    BY DEF Field, Line
<1>2. BuildInterfaceDeleteBlock(c) =
        IF changed = {} THEN {} ELSE changed \union {"interface", "exit"}
    BY DEF BuildInterfaceDeleteBlock
<1>3. changed = {} => c = Cleared
    BY DEF Field, Block, Cleared
<1> QED
    BY <1>1, <1>2, <1>3

(* One line of the block is sent: a step on the way; the last one, and the *)
(* block is as wanted.                                                     *)
LEMMA LineByLine ==
    ASSUME HandlerInv, NEW p \in Managed, NEW l \in todo[p], IsNext(l, todo[p]),
           ApplyLine(p, l), Partway(blocks[p], blockRead[p], blockWant[p], todo[p])
    PROVE  /\ Partway(blocks'[p], blockRead[p], blockWant[p], todo[p] \ {l})
           /\ l = "exit" => blocks'[p] = blockWant[p]
<1>1. /\ blocks \in [Port -> Block] /\ blockWant[p] \in Block /\ p \in Port
      /\ todo[p] \subseteq Line
    BY InterfaceAssumption DEF HandlerInv, TypeOK, InterfaceTypeOK
<1>2. CASE l \in Field
    <2>1. blocks'[p] = [blocks[p] EXCEPT ![l] = blockWant[p][l]]
        BY <1>1, <1>2 DEF ApplyLine
    <2>2. \A f \in Field : blocks'[p][f] = IF f = l THEN blockWant[p][f] ELSE blocks[p][f]
        BY <1>1, <1>2, <2>1 DEF Field, Block
    <2>3. l # "exit"
        BY <1>2 DEF Field
    <2> QED
        BY <1>2, <2>2, <2>3 DEF Partway
<1>3. CASE l \notin Field
    <2>1. UNCHANGED blocks
        BY <1>3 DEF ApplyLine
    <2>2. ASSUME l = "exit" PROVE blocks[p] = blockWant[p]
        <3>1. \A f \in Field : f \notin todo[p]
            BY <2>2 DEF IsNext, Rank, Field
        <3>2. \A f \in Field : blocks[p][f] = blockWant[p][f]
            BY <3>1 DEF Partway
        <3> QED
            BY <1>1, <3>2 DEF Block, Field
    <2>3. Partway(blocks[p], blockRead[p], blockWant[p], todo[p] \ {l})
        BY <1>3 DEF Partway
    <2> QED
        BY <2>1, <2>2, <2>3
<1> QED
    BY <1>2, <1>3

(* A line keeps the blocks well-formed, touches no other port, and makes   *)
(* nothing but the handler's block, in a write.                            *)
LEMMA ApplyLineType ==
    ASSUME HandlerInv, NEW p \in Managed, p \in chassis, op[p] # "read",
           NEW l \in Line, ApplyLine(p, l), Writes(p) \/ blockWant[p] = Cleared
    PROVE  /\ blocks' \in [Port -> Block]
           /\ made' \in [Op -> BOOLEAN]
           /\ \A o \in Op : o # p => made'[o] = made[o]
           /\ made'[p] => made[p] \/ Writes(p)
           /\ made'[p] => blocks'[p] # Cleared
           /\ \A q \in Port \ {p} : blocks'[q] = blocks[q]
<1>1. /\ blocks \in [Port -> Block] /\ blockWant[p] \in Block /\ p \in Port /\ p \in Op
      /\ made \in [Op -> BOOLEAN]
    BY InterfaceAssumption DEF HandlerInv, TypeOK, InterfaceTypeOK, CommonTypeOK
<1>2. blocks' = IF l \in Field
                THEN [blocks EXCEPT ![p] = [blocks[p] EXCEPT ![l] = blockWant[p][l]]]
                ELSE blocks
    BY DEF ApplyLine
<1>3. l \in Field => [blocks[p] EXCEPT ![l] = blockWant[p][l]] \in Block
    BY <1>1 DEF Field, Block
<1>4. made' = [made EXCEPT ![p] = blocks'[p] # Cleared /\ (made[p] \/ blocks[p] = Cleared)]
    BY DEF ApplyLine
<1>5. blockWant[p] = Cleared /\ blocks[p] = Cleared => blocks'[p] = Cleared
    BY <1>1, <1>2 DEF Cleared, Field
<1>6. /\ blocks' \in [Port -> Block]
      /\ \A q \in Port \ {p} : blocks'[q] = blocks[q]
    BY <1>1, <1>2, <1>3
<1>7. (blocks'[p] # Cleared /\ (made[p] \/ blocks[p] = Cleared)) \in BOOLEAN
    OBVIOUS
<1> QED
    BY <1>1, <1>4, <1>5, <1>6, <1>7

(* What a step of an interface handler's body is to the frame.             *)
LEMMA InterfaceBodyFrame ==
    ASSUME HandlerInv, NEW p \in Managed, InterfaceBody(p)
    PROVE  /\ pc[p] = "body"
           /\ \/ \E point \in At : Goto(p, point) /\ Suits(p, point)
              \/ \E x \in {"ok", "error"} :
                    Finish(p, x) /\ (x = "ok" /\ op[p] = "delete" => ~made'[p])
           /\ UNCHANGED stale \/ Fresh(p)
           /\ \/ UNCHANGED id
              \/ op[p] = "read" /\ Finish(p, "ok") /\ \E b \in BOOLEAN : SetId(p, b)
           /\ made' \in [Op -> BOOLEAN]
           /\ \A o \in Op : made'[o] => made[o] \/ (o = p /\ Writes(o))
           /\ \A o \in Op : made'[o] => (id[o] => id'[o])
           /\ \A o \in Op \ {p} : made'[o] = made[o]
           /\ made'[p] => blocks'[p] # Cleared /\ p \in chassis'
           /\ blocks' \in [Port -> Block]
           /\ \A q \in Port \ {p} : blocks'[q] = blocks[q]
           /\ UNCHANGED <<chassis, links>>
<1>1. /\ p \in Op /\ CommonInv(p) /\ InterfacePoint(p) /\ id \in [Op -> BOOLEAN]
      /\ made \in [Op -> BOOLEAN] /\ blocks \in [Port -> Block] /\ todo[p] \subseteq Line
      /\ blocks[p] \in Block /\ blockWant[p] \in Block
    BY InterfaceAssumption
       DEF HandlerInv, TypeOK, CommonTypeOK, InterfaceTypeOK
<1> USE DEF interfaceVars, portVars
<1>2. CASE PortExists(p)
    <2>1. op[p] = "read" /\ (p \notin chassis => ~made[p])
        BY <1>1, <1>2 DEF PortExists, InBody, CommonInv, InterfacePoint
    <2> QED
        BY <1>1, <1>2, <2>1 DEF PortExists, InBody, Suits, Writes, At, SetId, InterfacePoint
<1>3. CASE ReadInterfaces(p)
    <2>1. pc[p] = "body" /\ UNCHANGED <<portVars, made>>
        BY <1>3 DEF ReadInterfaces, InBody
    <2>2. made[p] => blocks[p] # Cleared /\ p \in chassis
        BY <1>1 DEF InterfacePoint
    <2>3. CASE op[p] = "read"
        BY <1>1, <1>3, <2>1, <2>2, <2>3 DEF ReadInterfaces, SetId
    <2>4. CASE op[p] = "update"
        BY <1>1, <1>3, <2>1, <2>2, <2>4 DEF ReadInterfaces, SendOrReturn, Suits, Writes, At
    <2>5. CASE op[p] = "delete"
        <3>1. BuildInterfaceDeleteBlock(blocks[p]) = {} => ~made[p]
            BY <1>1, <2>2, ClearingLines
        <3> QED
            BY <1>1, <1>3, <2>1, <2>2, <2>5, <3>1
               DEF ReadInterfaces, SendOrReturn, Suits, Writes, At
    <2> QED
        BY <1>3, <2>3, <2>4, <2>5 DEF ReadInterfaces
<1>4. ASSUME SendLine(p) \/ SendLineFails(p)
      PROVE  /\ made' \in [Op -> BOOLEAN]
             /\ made'[p] => made[p] \/ Writes(p)
             /\ \A o \in Op \ {p} : made'[o] = made[o]
             /\ made'[p] => blocks'[p] # Cleared /\ p \in chassis'
             /\ blocks' \in [Port -> Block]
             /\ \A q \in Port \ {p} : blocks'[q] = blocks[q]
             /\ UNCHANGED <<chassis, links>>
    <2>1. UNCHANGED <<chassis, links>>
        BY <1>4 DEF SendLine, SendLineFails
    <2>2. \/ p \in chassis /\ \E l \in todo[p] : ApplyLine(p, l)
          \/ IgnoreLine
        BY <1>4 DEF SendLine, SendLineFails
    <2>3. op[p] # "read" /\ (Writes(p) \/ blockWant[p] = Cleared)
        BY <1>1, <1>4 DEF SendLine, SendLineFails, InBody, CommonInv, InterfacePoint, Writes
    <2>4. CASE IgnoreLine
        BY <1>1, <2>1, <2>4 DEF IgnoreLine, InterfacePoint
    <2>5. CASE p \in chassis /\ \E l \in todo[p] : ApplyLine(p, l)
        BY <1>1, <2>1, <2>3, <2>5, ApplyLineType
    <2> QED
        BY <2>2, <2>4, <2>5
<1>5. CASE SendLine(p)
    <2>1. /\ InBody(p, "send") /\ UNCHANGED <<id, stale>>
          /\ \/ Goto(p, "send")
             \/ op[p] = "delete" /\ Goto(p, "verify")
             \/ op[p] # "delete" /\ Finish(p, "ok")
        BY <1>5 DEF SendLine
    <2> QED
        BY <1>1, <1>4, <1>5, <2>1 DEF InBody, CommonInv, Suits, Writes, At
<1>6. CASE SendLineFails(p)
    <2>1. InBody(p, "send") /\ UNCHANGED <<id, stale>> /\ Finish(p, "error")
        BY <1>6 DEF SendLineFails
    <2> QED
        BY <1>1, <1>4, <1>6, <2>1 DEF InBody
<1>7. CASE VerifyCleared(p)
    BY <1>1, <1>7 DEF VerifyCleared, InBody, InterfacePoint
<1> QED
    BY <1>2, <1>3, <1>5, <1>6, <1>7 DEF InterfaceBody

(* An interface handler's step keeps its own knowledge of its port.        *)
LEMMA InterfaceOwn ==
    ASSUME HandlerInv, NEW p \in Managed, InterfaceStep(p)
    PROVE  InterfaceTypeOK' /\ InterfacePoint(p)' /\ KnowsInterface(p)'
<1>1. /\ p \in Op /\ p \in Port /\ CommonTypeOK /\ Mu!TypeOK /\ InterfaceTypeOK
      /\ CommonInv(p) /\ InterfacePoint(p) /\ KnowsInterface(p)
      /\ blocks[p] \in Block /\ blockWant[p] \in Block /\ Cleared \in Block
    BY InterfaceAssumption
       DEF HandlerInv, TypeOK, CommonTypeOK, InterfaceTypeOK, Block, Cleared
<1> USE <1>1 DEF CommonTypeOK, Mu!TypeOK, InterfaceTypeOK, Mu!Step, muVars,
                 interfaceVars, portVars
<1>2. CASE StartInterface(p)
    <2>1. PICK h \in Ops, b \in BOOLEAN : Start(p, h, b)
        BY <1>2 DEF StartInterface, Create, Update, Read, Delete, Ops
    <2>2. InterfaceTypeOK' /\ (op'[p] = "delete" => blockWant'[p] = Cleared)
        BY <1>2, <2>1, InterfaceAssumption
           DEF StartInterface, Create, Update, Read, Delete, Start
    <2> QED
        BY <1>2, <2>1, <2>2
           DEF StartInterface, Start, Mu!Enter, InterfacePoint, KnowsInterface, CommonInv,
               Answered
<1>3. CASE OpenInterface(p)
    <2>1. CASE op[p] # "create"
        BY <1>3, <2>1 DEF OpenInterface, OpenSucceeds, Mu!OpenSucceeds, InterfacePoint,
                          KnowsInterface, CommonInv, Answered
    <2>2. CASE op[p] = "create"
        <3>1. /\ BuildInterfaceConfig(Cleared, blockWant[p]) \subseteq Line
              /\ BuildInterfaceConfig(Cleared, blockWant[p]) # {}
            BY BuiltLines DEF BuildInterfaceConfig
        <3>2. /\ "exit" \in BuildInterfaceConfig(Cleared, blockWant[p])
              /\ Partway(Cleared, Cleared, blockWant[p],
                         BuildInterfaceConfig(Cleared, blockWant[p]))
            BY <3>1, BuiltLines
        <3>3. todo' = [todo EXCEPT ![p] = BuildInterfaceConfig(Cleared, blockWant[p])]
              /\ UNCHANGED <<portVars, blockWant, blockRead>>
              /\ OpenSucceeds(p, "send", blocks[p] # Cleared)
            BY <1>3, <2>2 DEF OpenInterface
        <3>4. InterfaceTypeOK' /\ InterfacePoint(p)'
            BY <2>2, <3>1, <3>2, <3>3 DEF OpenSucceeds, Mu!OpenSucceeds, InterfacePoint
        <3>5. KnowsInterface(p)'
            <4>1. CASE blocks[p] # Cleared
                BY <3>3, <4>1 DEF OpenSucceeds, KnowsInterface
            <4>2. CASE blocks[p] = Cleared
                <5>1. Partway(blocks[p], blockRead[p], blockWant[p], todo'[p])
                    BY <2>2, <3>2, <3>3, <4>2 DEF InterfacePoint
                <5> QED
                    BY <2>2, <3>3, <5>1
                       DEF OpenSucceeds, Mu!OpenSucceeds, KnowsInterface, Answered, Writes
            <4> QED
                BY <4>1, <4>2
        <3> QED
            BY <3>4, <3>5
    <2> QED
        BY <2>1, <2>2
<1>4. CASE InterfaceBody(p)
    <2> USE DEF InBody, Finish, Goto, Mu!BodyReturns
    <2>1. CASE PortExists(p)
        BY <2>1 DEF PortExists, InterfacePoint, KnowsInterface, Answered, Writes, CommonInv,
                    SetId
    <2>2. CASE ReadInterfaces(p)
        <3>1. CASE op[p] = "read"
            <4>1. /\ pc[p] = "body" /\ id'[p] /\ blocks[p] \in Block
                  /\ blockRead' = [blockRead EXCEPT ![p] = blocks[p]]
                  /\ UNCHANGED <<op, todo, portVars, blockWant, stale, made>>
                  /\ Finish(p, "ok")
                BY <2>2, <3>1 DEF ReadInterfaces, SetId
            <4>2. InterfaceTypeOK' /\ InterfacePoint(p)'
                BY <3>1, <4>1 DEF InterfacePoint
            <4>3. KnowsInterface(p)'
                BY <3>1, <4>1 DEF KnowsInterface, Answered, Writes
            <4> QED
                BY <4>2, <4>3
        <3> DEFINE lines == IF op[p] = "update"
                            THEN BuildInterfaceConfig(blocks[p], blockWant[p])
                            ELSE BuildInterfaceDeleteBlock(blocks[p])
        <3>2. CASE op[p] # "read"
            <4>1. /\ op[p] \in {"update", "delete"} /\ SendOrReturn(p, lines)
                  /\ blockRead' = [blockRead EXCEPT ![p] = blocks[p]]
                  /\ Fresh(p) /\ UNCHANGED <<op, portVars, blockWant, id, made>>
                <5>1. CASE op[p] = "update"
                    BY <2>2, <5>1 DEF ReadInterfaces, SendOrReturn
                <5>2. CASE op[p] = "delete"
                    BY <2>2, <5>2 DEF ReadInterfaces, SendOrReturn
                <5> QED
                    BY <2>2, <3>2, <5>1, <5>2 DEF ReadInterfaces
            <4>2. lines \subseteq Line /\ (lines # {} => "exit" \in lines)
                BY <4>1, BuiltLines, ClearingLines
            <4>3. lines = {} => blocks[p] = blockWant[p]
                BY <4>1, BuiltLines, ClearingLines DEF InterfacePoint
            <4>4. op[p] = "update" /\ lines # {}
                    => Partway(blocks[p], blocks[p], blockWant[p], lines)
                BY BuiltLines
            <4> HIDE DEF lines
            <4>5. pc[p] = "body"
                BY <2>2 DEF ReadInterfaces
            <4>6. InterfaceTypeOK' /\ InterfacePoint(p)'
                BY <4>1, <4>2, <4>5 DEF SendOrReturn, InterfacePoint
            <4>7. KnowsInterface(p)'
                BY <4>1, <4>3, <4>4, <4>5
                   DEF SendOrReturn, KnowsInterface, Answered, Writes, InterfacePoint
            <4> QED
                BY <4>6, <4>7
        <3> QED
            BY <3>1, <3>2
    <2>3. CASE SendLine(p)
        <3>1. PICK l \in todo[p] :
                /\ IsNext(l, todo[p])
                /\ ApplyLine(p, l) \/ (op[p] = "delete" /\ IgnoreLine)
                /\ todo' = [todo EXCEPT ![p] = @ \ {l}]
                /\ IF l # "exit" THEN Goto(p, "send")
                   ELSE IF op[p] = "delete" THEN Goto(p, "verify")
                   ELSE Finish(p, "ok")
            BY <2>3 DEF SendLine
        <3>2. /\ blocks' \in [Port -> Block] /\ (made'[p] => blocks'[p] # Cleared)
              /\ p \in chassis /\ UNCHANGED <<chassis, links, op, blockWant, blockRead, id, stale>>
            BY <1>4, <2>3, InterfaceBodyFrame DEF SendLine
        <3>3. InterfaceTypeOK' /\ InterfacePoint(p)'
            BY <2>3, <3>1, <3>2 DEF SendLine, InterfacePoint
        <3>4. KnowsInterface(p)'
            <4>1. CASE op[p] = "delete"
                BY <2>3, <3>1, <3>2, <4>1 DEF SendLine, KnowsInterface, Answered, Writes
            <4>2. CASE op[p] # "delete"
                <5>1. Writes(p)
                    BY <2>3, <4>2 DEF SendLine, CommonInv
                <5>2. \/ stale[p]
                      \/ /\ Partway(blocks'[p], blockRead[p], blockWant[p], todo[p] \ {l})
                         /\ l = "exit" => blocks'[p] = blockWant[p]
                    BY <2>3, <3>1, <4>2, <5>1, LineByLine DEF SendLine, KnowsInterface
                <5> QED
                    BY <2>3, <3>1, <3>2, <4>2, <5>1, <5>2
                       DEF SendLine, KnowsInterface, Answered, Writes
            <4> QED
                BY <4>1, <4>2
        <3> QED
            BY <3>3, <3>4
    <2>4. CASE SendLineFails(p)
        <3>1. /\ blocks' \in [Port -> Block] /\ (made'[p] => blocks'[p] # Cleared)
              /\ made'[p] => p \in chassis'
            BY <1>4, InterfaceBodyFrame
        <3> QED
            BY <2>4, <3>1 DEF SendLineFails, InterfacePoint, KnowsInterface, Answered, CommonInv
    <2>5. CASE VerifyCleared(p)
        BY <2>5 DEF VerifyCleared, InterfacePoint, KnowsInterface, Answered, Writes, CommonInv
    <2> QED
        BY <1>4, <2>1, <2>2, <2>3, <2>4, <2>5 DEF InterfaceBody
<1>5. CASE ReturnInterface(p)
    BY <1>5 DEF ReturnInterface, Return, Mu!Unlock, InterfacePoint, KnowsInterface,
                CommonInv, Answered
<1> QED
    BY <1>2, <1>3, <1>4, <1>5 DEF InterfaceStep

(* An interface handler's step keeps the frame, and leaves the others at   *)
(* rest.                                                                   *)
LEMMA InterfaceStepFrame ==
    ASSUME HandlerInv, Mu!TypeOK', NEW p \in Managed, InterfaceStep(p)
    PROVE  /\ CommonTypeOK' /\ \A o \in Op : CommonInv(o)' /\ Kept(o)'
           /\ \A o \in Op \ {p} : Resting(o)
           /\ \A o \in Op \ {p} : made'[o] = made[o]
           /\ \A q \in Managed \ {p} : UNCHANGED <<blockWant[q], blockRead[q], todo[q]>>
           /\ UNCHANGED <<chassis, links>>
           /\ \A q \in Port \ {p} : blocks'[q] = blocks[q]
           /\ UNCHANGED blocks \/ pc[p] = "body"
<1>1. p \in Op /\ CommonTypeOK /\ InterfaceTypeOK /\ CommonInv(p)
    BY InterfaceAssumption DEF HandlerInv, TypeOK
<1> USE DEF interfaceVars, portVars
<1>2. \A q \in Managed \ {p} : UNCHANGED <<blockWant[q], blockRead[q], todo[q]>>
    <2>1. CASE InterfaceBody(p)
        BY <1>1, <2>1 DEF InterfaceTypeOK, InterfaceBody, PortExists, ReadInterfaces,
                          SendOrReturn, SendLine, SendLineFails, VerifyCleared
    <2>2. CASE ~InterfaceBody(p)
        BY <1>1, <2>2 DEF InterfaceTypeOK, InterfaceStep, StartInterface, OpenInterface,
                          ReturnInterface
    <2> QED
        BY <2>1, <2>2
<1>3. CASE StartInterface(p)
    <2>1. /\ Create(p) \/ Update(p) \/ Read(p) \/ Delete(p)
          /\ UNCHANGED <<portVars, made>>
        BY <1>3 DEF StartInterface, Create, Update, Read, Delete, Start
    <2> QED
        BY <1>1, <1>2, <2>1, StartKept, OthersRest
<1>4. CASE OpenInterface(p)
    <2>1. /\ \E point \in At, b \in BOOLEAN : OpenSucceeds(p, point, b) /\ Suits(p, point)
          /\ UNCHANGED <<portVars, made>>
        BY <1>4 DEF OpenInterface, OpenSucceeds, Suits, Writes, At, Ops
    <2>2. \A o \in Op \ {p} : Resting(o)
        BY <1>1, <2>1, OthersRest
    <2>3. CommonTypeOK' /\ \A o \in Op : CommonInv(o)' /\ Kept(o)'
        BY <1>1, <2>1, OpenKept
    <2> QED
        BY <1>1, <1>2, <2>1, <2>2, <2>3
<1>5. CASE InterfaceBody(p)
    <2>1. id' \in [Op -> BOOLEAN] /\ stale' \in [Op -> BOOLEAN]
        <3>1. UNCHANGED stale \/ stale' = [stale EXCEPT ![p] = FALSE]
            BY <1>5, InterfaceBodyFrame DEF Fresh
        <3>2. UNCHANGED id \/ \E b \in BOOLEAN : id' = [id EXCEPT ![p] = b]
            BY <1>5, InterfaceBodyFrame DEF SetId
        <3> QED
            BY <1>1, <3>1, <3>2 DEF CommonTypeOK
    <2>2. \A o \in Op : o # p \/ op[o] # "read" => id'[o] = id[o]
        BY <1>1, <1>5, InterfaceBodyFrame DEF CommonTypeOK, SetId
    <2>3. CommonTypeOK' /\ \A o \in Op : CommonInv(o)'
        <3>1. id[p] => id'[p] \/ (Finish(p, "ok") /\ p \notin Reader)
            BY <1>5, InterfaceAssumption, InterfaceBodyFrame
        <3> QED
            BY <1>1, <1>5, <2>1, <2>2, <3>1, InterfaceBodyFrame, BodyKept
    <2>4. \A o \in Op : Kept(o)'
        BY <1>1, <1>5, InterfaceBodyFrame, BodyForgetsNothing
    <2>5. \A o \in Op \ {p} : Resting(o)
        BY <1>1, <1>5, InterfaceBodyFrame, OthersRest
    <2> QED
        BY <1>2, <1>5, <2>3, <2>4, <2>5, InterfaceBodyFrame
<1>6. CASE ReturnInterface(p)
    <2>1. Return(p) /\ UNCHANGED <<portVars, made>>
        BY <1>6 DEF ReturnInterface, Return
    <2> QED
        BY <1>1, <1>2, <2>1, CloseKept, OthersRest
<1> QED
    BY <1>3, <1>4, <1>5, <1>6 DEF InterfaceStep

(* So every handler keeps what it knows when an interface handler makes a  *)
(* step.                                                                   *)
LEMMA InterfaceStepKept ==
    ASSUME HandlerInv, Mu!LockInv', NEW p \in Managed, InterfaceStep(p)
    PROVE  HandlerInv'
<1>1. Mu!TypeOK' /\ Trunk \subseteq Op /\ Managed \subseteq Op \intersect Port
      /\ Reader \subseteq Op /\ Trunk \intersect Port = {} /\ Reader \intersect Port = {}
    BY TrunkAssumption, InterfaceAssumption, ReaderAssumption, DataAssumption DEF Mu!LockInv
<1>2. UNCHANGED <<trunkVars, dataVars>>
    BY DEF InterfaceStep
<1>3. TypeOK'
    BY <1>1, <1>2, InterfaceStepFrame, InterfaceOwn
       DEF HandlerInv, TypeOK, TrunkTypeOK, DataTypeOK, trunkVars, dataVars
<1>4. ASSUME NEW t \in Trunk PROVE TrunkPoint(t)' /\ KnowsTrunk(t)'
    <2>1. made'[t] => trunks'[t] # NoTrunk
        BY <1>1, <1>2, InterfaceStepFrame DEF HandlerInv, TrunkPoint, trunkVars
    <2> QED
        BY <1>1, <1>2, <2>1, InterfaceStepFrame, TrunkFrame DEF trunkVars
<1>5. ASSUME NEW q \in Managed PROVE InterfacePoint(q)' /\ KnowsInterface(q)'
    <2>1. CASE q = p
        BY <2>1, InterfaceOwn
    <2>2. CASE q # p
        <3>1. UNCHANGED <<blocks[q], made[q]>> /\ (q \in chassis <=> q \in chassis')
            BY <1>1, <2>2, InterfaceStepFrame
        <3>2. made'[q] => blocks'[q] # Cleared /\ q \in chassis'
            BY <3>1 DEF HandlerInv, InterfacePoint
        <3> QED
            BY <1>1, <2>2, <3>1, <3>2, InterfaceStepFrame, InterfaceFrame
    <2> QED
        BY <2>1, <2>2
<1>6. ASSUME NEW r \in Reader PROVE DataPoint(r)' /\ KnowsPicture(r)'
    <2>1. ~made'[r]
        BY <1>1, InterfaceStepFrame DEF HandlerInv, DataPoint
    <2>2. UNCHANGED <<trunks, portVars>> \/ pc[r] \notin Mu!Critical
        BY <1>1, <1>2, InterfaceStepFrame, Alone DEF Mu!Critical, trunkVars, portVars
    <2> QED
        BY <1>1, <1>2, <2>1, <2>2, InterfaceStepFrame, DataFrame DEF dataVars
<1> QED
    BY <1>1, <1>3, <1>4, <1>5, <1>6, InterfaceStepFrame DEF HandlerInv

-----------------------------------------------------------------------------
(* Steps of the data source                                                *)

(* What a step of a data source's body is to the frame.                    *)
LEMMA DataBodyFrame ==
    ASSUME HandlerInv, NEW r \in Reader, DataBody(r)
    PROVE  /\ pc[r] = "body"
           /\ \/ \E point \in At : Goto(r, point) /\ Suits(r, point)
              \/ Finish(r, "ok") /\ op[r] = "read"
           /\ UNCHANGED stale \/ Fresh(r)
           /\ UNCHANGED id \/ SetId(r, TRUE)
           /\ UNCHANGED made
<1>1. r \in Op /\ CommonInv(r) /\ DataPoint(r)
    BY ReaderAssumption DEF HandlerInv
<1>2. pc[r] = "body" /\ op[r] = "read"
    BY <1>1 DEF DataBody, ShowInterfaces, ShowRunningConfig, ShowInterface, InBody,
                DataPoint, CommonInv
<1> QED
    BY <1>2 DEF DataBody, ShowInterfaces, ShowRunningConfig, ShowInterface, Proceed,
                Suits, Writes, At

(* A data source's step keeps its picture true.                            *)
LEMMA DataOwn ==
    ASSUME HandlerInv, NEW r \in Reader, DataStep(r)
    PROVE  DataTypeOK' /\ DataPoint(r)' /\ KnowsPicture(r)'
<1>1. /\ r \in Op /\ CommonTypeOK /\ Mu!TypeOK /\ DataTypeOK
      /\ CommonInv(r) /\ DataPoint(r) /\ KnowsPicture(r)
      /\ trunks \in [Trunk -> TrunkConfig \union {NoTrunk}] /\ blocks \in [Port -> Block]
      /\ chassis \in SUBSET Port
    BY ReaderAssumption
       DEF HandlerInv, TypeOK, CommonTypeOK, TrunkTypeOK, InterfaceTypeOK, Trunks
<1>2. /\ NoMarks \in [Port -> Mark] /\ NoDetails \in [Port -> Detail]
      /\ NoConfig \in Configs
      /\ [p \in Port |-> MarkOf(p)] \in [Port -> Mark]
      /\ [names |-> [p \in Port |-> blocks[p].name], trunks |-> trunks] \in Configs
      /\ \A p \in Port : DetailOf(p) \in Detail
    BY <1>1 DEF NoMarks, NoDetails, NotShown, NoConfig, Mark, Detail, Configs, MarkOf,
                DetailOf, Up, Block
<1>3. UNCHANGED <<trunkVars, interfaceVars>>
    BY DEF DataStep
<1>4. UNCHANGED <<trunks, chassis, links, blocks>>
    BY <1>3 DEF trunkVars, interfaceVars, portVars
<1> USE <1>1, <1>2, <1>4 DEF CommonTypeOK, Mu!TypeOK, DataTypeOK, Mu!Step, muVars, dataVars
<1>5. CASE StartData(r)
    BY <1>5 DEF StartData, ReadData, Start, Mu!Enter, DataPoint, KnowsPicture, CommonInv,
                Answered
<1>6. CASE OpenData(r)
    BY <1>6 DEF OpenData, OpenSucceeds, Mu!OpenSucceeds, DataPoint, KnowsPicture, CommonInv,
                Answered
<1>7. CASE DataBody(r)
    <2> DEFINE answered == pc'[r] \in {"close", "unlock"} /\ result'[r] = "ok"
    <2>1. (/\ at'[r] \in {"show", "detail"} \/ answered
                => /\ marks'[r] = [p \in Port |-> MarkOf(p)]
                   /\ toShow'[r] \subseteq chassis
                   /\ \A p \in Port : details'[r][p] =
                        IF p \in chassis \ toShow'[r] THEN DetailOf(p) ELSE NotShown
           /\ at'[r] = "detail" \/ answered
                => /\ config'[r].names = [p \in Port |-> blocks[p].name]
                   /\ config'[r].trunks = trunks
           /\ answered => toShow'[r] = {})
          => KnowsPicture(r)'
        BY DEF KnowsPicture, Answered, MarkOf, DetailOf, Up
    <2>2. pc[r] = "body" /\ op[r] = "read" /\ ~made'[r] /\ op'[r] = "read"
        <3>1. op' = op
            BY <1>7, DataBodyFrame DEF Goto, Finish
        <3> QED
            BY <1>7, <3>1, DataBodyFrame
               DEF DataPoint, CommonInv, DataBody, InBody, ShowInterfaces,
                   ShowRunningConfig, ShowInterface
    <2>3. stale[r] /\ at[r] # "summary" /\ UNCHANGED stale => KnowsPicture(r)'
        BY DEF KnowsPicture
    <2>4. CASE ShowInterfaces(r)
        <3>1. /\ marks' = [marks EXCEPT ![r] = [p \in Port |-> MarkOf(p)]]
              /\ toShow' = [toShow EXCEPT ![r] = chassis]
              /\ at'[r] = "show" /\ pc'[r] = "body" /\ details[r] = NoDetails
              /\ UNCHANGED <<config, details>>
            BY <2>2, <2>4 DEF ShowInterfaces, InBody, Goto, DataPoint
        <3>2. DataTypeOK'
            BY <3>1
        <3>3. DataPoint(r)'
            BY <2>2, <3>1 DEF DataPoint
        <3>4. KnowsPicture(r)'
            BY <2>1, <3>1 DEF NoDetails
        <3> QED
            BY <3>2, <3>3, <3>4
    <2>5. ASSUME NEW left \in SUBSET Port, Proceed(r, left)
          PROVE  /\ at'[r] \notin {"summary", "show"}
                 /\ pc'[r] \in {"body", "close"}
                 /\ at'[r] = "detail" \/ answered
                 /\ answered => left = {}
        BY <2>2, <2>5 DEF Proceed, Goto, Finish, Mu!BodyReturns
    <2>6. CASE ShowRunningConfig(r)
        <3> DEFINE shown == [names |-> [p \in Port |-> blocks[p].name], trunks |-> trunks]
        <3>1. /\ config' = [config EXCEPT ![r] = shown] /\ at[r] = "show"
              /\ Proceed(r, toShow[r]) /\ UNCHANGED <<marks, details, toShow, stale>>
            BY <2>6 DEF ShowRunningConfig, InBody
        <3>2. DataTypeOK'
            BY <3>1
        <3>3. DataPoint(r)'
            BY <2>2, <2>5, <3>1 DEF DataPoint
        <3>4. config'[r].names = [p \in Port |-> blocks[p].name] /\ config'[r].trunks = trunks
            BY <3>1
        <3>5. KnowsPicture(r)'
            <4>1. CASE stale[r]
                BY <2>3, <3>1, <4>1
            <4>2. CASE ~stale[r]
                BY <2>1, <2>5, <3>1, <3>4, <4>2 DEF KnowsPicture
            <4> QED
                BY <4>1, <4>2
        <3> QED
            BY <3>2, <3>3, <3>5
    <2>7. CASE ShowInterface(r)
        <3>1. PICK p \in toShow[r] \intersect chassis :
                /\ details' = [details EXCEPT ![r][p] = DetailOf(p)]
                /\ toShow' = [toShow EXCEPT ![r] = @ \ {p}]
                /\ Proceed(r, toShow[r] \ {p})
            BY <2>7 DEF ShowInterface
        <3>2. at[r] = "detail" /\ UNCHANGED <<marks, config, stale>>
            BY <2>7 DEF ShowInterface, InBody
        <3>3. p \in Port /\ toShow'[r] = toShow[r] \ {p} /\ toShow[r] \ {p} \in SUBSET Port
            BY <3>1
        <3>4. \A q \in Port : details'[r][q] = IF q = p THEN DetailOf(p) ELSE details[r][q]
            BY <3>1, <3>3
        <3>5. DataTypeOK'
            BY <3>1, <3>2, <3>3
        <3>6. DataPoint(r)'
            BY <2>2, <2>5, <3>1, <3>3 DEF DataPoint
        <3>7. KnowsPicture(r)'
            <4>1. CASE stale[r]
                BY <2>3, <3>2, <4>1
            <4>2. CASE ~stale[r]
                <5>1. /\ marks[r] = [q \in Port |-> MarkOf(q)] /\ toShow[r] \subseteq chassis
                      /\ \A q \in Port : details[r][q] =
                            IF q \in chassis \ toShow[r] THEN DetailOf(q) ELSE NotShown
                      /\ config[r].names = [q \in Port |-> blocks[q].name]
                      /\ config[r].trunks = trunks
                    BY <3>2, <4>2 DEF KnowsPicture
                <5>2. \A q \in Port : details'[r][q] =
                        IF q \in chassis \ toShow'[r] THEN DetailOf(q) ELSE NotShown
                    BY <3>1, <3>3, <3>4, <5>1
                <5>3. answered => toShow'[r] = {}
                    BY <2>5, <3>1, <3>3
                <5> QED
                    BY <2>1, <3>2, <3>3, <5>1, <5>2, <5>3
            <4> QED
                BY <4>1, <4>2
        <3> QED
            BY <3>5, <3>6, <3>7
    <2> QED
        BY <1>7, <2>4, <2>6, <2>7 DEF DataBody
<1>8. CASE ReturnData(r)
    BY <1>8 DEF ReturnData, Return, Mu!Unlock, DataPoint, KnowsPicture, CommonInv, Answered
<1> QED
    BY <1>5, <1>6, <1>7, <1>8 DEF DataStep

(* A data source's step keeps the frame, and leaves the others at rest.    *)
LEMMA DataStepFrame ==
    ASSUME HandlerInv, Mu!TypeOK', NEW r \in Reader, DataStep(r)
    PROVE  /\ CommonTypeOK' /\ \A o \in Op : CommonInv(o)' /\ Kept(o)'
           /\ \A o \in Op \ {r} : Resting(o)
           /\ UNCHANGED made
           /\ \A q \in Reader \ {r} :
                UNCHANGED <<marks[q], config[q], details[q], toShow[q]>>
<1>1. r \in Op /\ CommonTypeOK /\ DataTypeOK
    BY ReaderAssumption DEF HandlerInv, TypeOK
<1>2. \A q \in Reader \ {r} : UNCHANGED <<marks[q], config[q], details[q], toShow[q]>>
    BY <1>1 DEF DataTypeOK, dataVars, DataStep, StartData, OpenData, DataBody,
                ShowInterfaces, ShowRunningConfig, ShowInterface, ReturnData
<1>3. CASE StartData(r)
    <2>1. ReadData(r) /\ UNCHANGED made
        BY <1>3 DEF StartData, ReadData, Start
    <2> QED
        BY <1>1, <1>2, <2>1, StartKept, OthersRest
<1>4. CASE OpenData(r)
    <2>1. /\ \E point \in At, b \in BOOLEAN : OpenSucceeds(r, point, b) /\ Suits(r, point)
          /\ UNCHANGED made
        <3>1. pc[r] = "open" /\ op[r] = "read"
            BY <1>1, <1>4 DEF OpenData, OpenSucceeds, Mu!OpenSucceeds, Mu!Step, CommonInv,
                              DataPoint, HandlerInv
        <3> QED
            BY <1>4, <3>1 DEF OpenData, OpenSucceeds, Suits, Writes, At
    <2>2. \A o \in Op \ {r} : Resting(o)
        BY <1>1, <2>1, OthersRest
    <2>3. CommonTypeOK' /\ \A o \in Op : CommonInv(o)' /\ Kept(o)'
        BY <1>1, <2>1, OpenKept
    <2> QED
        BY <1>1, <1>2, <2>1, <2>2, <2>3
<1>5. CASE DataBody(r)
    <2>1. op[r] = "read" /\ ~made[r]
        BY <1>1, <1>5, DataBodyFrame
           DEF HandlerInv, DataPoint, CommonInv
    <2>2. id' \in [Op -> BOOLEAN] /\ stale' \in [Op -> BOOLEAN] /\ made' \in [Op -> BOOLEAN]
        BY <1>1, <1>5, DataBodyFrame DEF CommonTypeOK, SetId, Fresh
    <2>3. \A o \in Op : (o # r => id'[o] = id[o]) /\ (id[o] => id'[o])
        BY <1>1, <1>5, DataBodyFrame DEF CommonTypeOK, SetId
    <2>4. CommonTypeOK' /\ \A o \in Op : CommonInv(o)'
        BY <1>1, <1>5, <2>1, <2>2, <2>3, DataBodyFrame, BodyKept
    <2>5. \A o \in Op : Kept(o)'
        BY <1>1, <1>5, <2>1, <2>3, DataBodyFrame, BodyForgetsNothing
    <2>6. \A o \in Op \ {r} : Resting(o)
        BY <1>1, <1>5, DataBodyFrame, OthersRest
    <2> QED
        BY <1>2, <1>5, <2>4, <2>5, <2>6, DataBodyFrame
<1>6. CASE ReturnData(r)
    <2>1. Return(r) /\ UNCHANGED made
        BY <1>6 DEF ReturnData, Return
    <2> QED
        BY <1>1, <1>2, <2>1, CloseKept, OthersRest
<1> QED
    BY <1>3, <1>4, <1>5, <1>6 DEF DataStep

(* So every handler keeps what it knows when a data source makes a step.   *)
LEMMA DataStepKept ==
    ASSUME HandlerInv, Mu!LockInv', NEW r \in Reader, DataStep(r)
    PROVE  HandlerInv'
<1>1. Mu!TypeOK' /\ Trunk \subseteq Op \ Reader /\ Managed \subseteq Op \ Reader
      /\ Reader \subseteq Op
    BY TrunkAssumption, InterfaceAssumption, ReaderAssumption DEF Mu!LockInv
<1>2. UNCHANGED <<trunkVars, interfaceVars, made>>
    BY <1>1, DataStepFrame DEF DataStep
<1>3. TypeOK'
    BY <1>1, <1>2, DataStepFrame, DataOwn
       DEF HandlerInv, TypeOK, TrunkTypeOK, InterfaceTypeOK, trunkVars, interfaceVars, portVars
<1>4. ASSUME NEW t \in Trunk PROVE TrunkPoint(t)' /\ KnowsTrunk(t)'
    <2>1. made'[t] => trunks'[t] # NoTrunk
        BY <1>2 DEF HandlerInv, TrunkPoint, trunkVars
    <2> QED
        BY <1>1, <1>2, <2>1, DataStepFrame, TrunkFrame DEF trunkVars
<1>5. ASSUME NEW p \in Managed PROVE InterfacePoint(p)' /\ KnowsInterface(p)'
    <2>1. made'[p] => blocks'[p] # Cleared /\ p \in chassis'
        BY <1>2 DEF HandlerInv, InterfacePoint, interfaceVars, portVars
    <2> QED
        BY <1>1, <1>2, <2>1, DataStepFrame, InterfaceFrame DEF interfaceVars, portVars
<1>6. ASSUME NEW q \in Reader PROVE DataPoint(q)' /\ KnowsPicture(q)'
    <2>1. CASE q = r
        BY <2>1, DataOwn
    <2>2. CASE q # r
        <3>1. ~made'[q]
            BY <1>2 DEF HandlerInv, DataPoint
        <3> QED
            BY <1>1, <1>2, <2>2, <3>1, DataStepFrame, DataFrame
               DEF trunkVars, interfaceVars, portVars
    <2> QED
        BY <2>1, <2>2
<1> QED
    BY <1>1, <1>3, <1>4, <1>5, <1>6, DataStepFrame DEF HandlerInv

-----------------------------------------------------------------------------
(* Steps in which the handlers do not differ                               *)

(* To open the switch, to fail, and to close it leaves what is known of it.*)
LEMMA CommonStepKept ==
    ASSUME HandlerInv, Mu!LockInv', NEW o \in Op, Waiting(o) \/ Opening(o) \/ Giving(o)
    PROVE  HandlerInv'
<1>1. Mu!TypeOK' /\ CommonTypeOK /\ Trunk \subseteq Op /\ Managed \subseteq Op
      /\ Reader \subseteq Op /\ CommonInv(o)
    BY TrunkAssumption, InterfaceAssumption, ReaderAssumption DEF Mu!LockInv, HandlerInv, TypeOK
<1>2. \/ Acquire(o) \/ NewSucceeds(o) \/ OpenFails(o)
      \/ ShowFails(o) \/ Close(o)
    BY DEF Waiting, Opening, Giving
<1>3. CommonTypeOK' /\ \A u \in Op : CommonInv(u)' /\ Kept(u)'
    BY <1>1, <1>2, OpenKept, CloseKept
<1>4. \A u \in Op \ {o} : Resting(u)
    BY <1>1, <1>2, OthersRest
<1>5. UNCHANGED <<trunkVars, interfaceVars, dataVars, made>>
    BY DEF Waiting, Opening, Giving, Acquire, NewSucceeds, OpenFails, ShowFails, Close
<1>6. /\ UNCHANGED <<op, id, stale>>
      /\ \/ pc'[o] \in {"new", "open"} /\ pc[o] \in {"lock", "new"} /\ UNCHANGED <<at, result>>
         \/ pc'[o] \in {"close", "unlock"} /\ result'[o] = "error" /\ at'[o] = "none"
         \/ pc[o] = "close" /\ pc'[o] = "unlock" /\ UNCHANGED <<at, result>>
    <2> USE <1>1 DEF CommonTypeOK, Mu!TypeOK, Mu!Step
    <2>1. CASE Acquire(o) \/ NewSucceeds(o)
        BY <2>1 DEF Acquire, NewSucceeds, Mu!Acquire, Mu!NewSucceeds
    <2>2. CASE OpenFails(o)
        BY <2>2 DEF OpenFails, Mu!NewFails, Mu!OpenFails, CommonInv
    <2>3. CASE ShowFails(o) \/ Close(o)
        BY <2>3 DEF ShowFails, Finish, Mu!BodyReturns, Close, Mu!Close
    <2> QED
        BY <1>2, <2>1, <2>2, <2>3
<1>7. TypeOK'
    BY <1>1, <1>3, <1>5
       DEF HandlerInv, TypeOK, TrunkTypeOK, InterfaceTypeOK, DataTypeOK, trunkVars,
           interfaceVars, portVars, dataVars
<1>8. ASSUME NEW t \in Trunk PROVE TrunkPoint(t)' /\ KnowsTrunk(t)'
    <2>1. TrunkPoint(t) /\ KnowsTrunk(t) /\ CommonInv(t)
        BY <1>1 DEF HandlerInv
    <2>2. CASE t = o
        BY <1>5, <1>6, <2>1, <2>2
           DEF TrunkPoint, KnowsTrunk, Answered, Writes, TrunkReached, CommonInv, trunkVars
    <2>3. CASE t # o
        BY <1>1, <1>4, <1>5, <2>1, <2>3, TrunkFrame DEF trunkVars, TrunkPoint
    <2> QED
        BY <2>2, <2>3
<1>9. ASSUME NEW p \in Managed PROVE InterfacePoint(p)' /\ KnowsInterface(p)'
    <2>1. InterfacePoint(p) /\ KnowsInterface(p) /\ CommonInv(p)
        BY <1>1 DEF HandlerInv
    <2>2. CASE p = o
        BY <1>5, <1>6, <2>1, <2>2
           DEF InterfacePoint, KnowsInterface, Answered, Writes, CommonInv, interfaceVars, portVars
    <2>3. CASE p # o
        BY <1>1, <1>4, <1>5, <2>1, <2>3, InterfaceFrame
           DEF interfaceVars, portVars, InterfacePoint
    <2> QED
        BY <2>2, <2>3
<1>10. ASSUME NEW r \in Reader PROVE DataPoint(r)' /\ KnowsPicture(r)'
    <2>1. DataPoint(r) /\ KnowsPicture(r) /\ CommonInv(r)
        BY <1>1 DEF HandlerInv
    <2>2. CASE r = o
        <3>1. DataPoint(r)'
            BY <1>5, <1>6, <2>1, <2>2 DEF DataPoint, CommonInv, dataVars
        <3>2. KnowsPicture(r)'
            BY <1>5, <1>6, <2>1, <2>2
               DEF KnowsPicture, Answered, CommonInv, MarkOf, DetailOf, Up, trunkVars,
                   interfaceVars, portVars, dataVars
        <3> QED
            BY <3>1, <3>2
    <2>3. CASE r # o
        BY <1>1, <1>4, <1>5, <2>1, <2>3, DataFrame
           DEF trunkVars, interfaceVars, portVars, dataVars, DataPoint
    <2> QED
        BY <2>2, <2>3
<1> QED
    BY <1>3, <1>7, <1>8, <1>9, <1>10 DEF HandlerInv

-----------------------------------------------------------------------------
(* Steps of people                                                         *)

(* Whoever changes the switch changes it behind the back of the handler    *)
(* that has it, and may take away what the provider made.                  *)
LEMMA PeopleFrame ==
    ASSUME HandlerInv, People
    PROVE  /\ UNCHANGED <<muVars, scenario, op, at, id, result, state>>
           /\ UNCHANGED <<trunkWant, trunkRead, blockWant, blockRead, todo, dataVars>>
           /\ stale' \in [Op -> BOOLEAN] /\ \A o \in Op : stale[o] => stale'[o]
           /\ made' \in [Op -> BOOLEAN] /\ \A o \in Op : made'[o] => made[o]
           /\ trunks' \in Trunks /\ InterfaceTypeOK'
           /\ \A t \in Trunk :
                /\ made'[t] => trunks'[t] # NoTrunk
                /\ UNCHANGED trunks[t] \/ stale'[t] \/ mu # t
           /\ \A p \in Managed :
                /\ made'[p] => blocks'[p] # Cleared /\ p \in chassis'
                /\ \/ UNCHANGED blocks[p] /\ (p \in chassis <=> p \in chassis')
                   \/ stale'[p]
                   \/ mu # p
           /\ \A r \in Reader :
                UNCHANGED <<trunks, portVars>> \/ stale'[r] \/ mu # r
<1> DEFINE Goal ==
        /\ UNCHANGED <<muVars, scenario, op, at, id, result, state>>
        /\ UNCHANGED <<trunkWant, trunkRead, blockWant, blockRead, todo, dataVars>>
        /\ stale' \in [Op -> BOOLEAN] /\ \A o \in Op : stale[o] => stale'[o]
        /\ made' \in [Op -> BOOLEAN] /\ \A o \in Op : made'[o] => made[o]
        /\ trunks' \in Trunks /\ InterfaceTypeOK'
        /\ \A t \in Trunk :
             /\ made'[t] => trunks'[t] # NoTrunk
             /\ UNCHANGED trunks[t] \/ stale'[t] \/ mu # t
        /\ \A p \in Managed :
             /\ made'[p] => blocks'[p] # Cleared /\ p \in chassis'
             /\ \/ UNCHANGED blocks[p] /\ (p \in chassis <=> p \in chassis')
                \/ stale'[p]
                \/ mu # p
        /\ \A r \in Reader :
             UNCHANGED <<trunks, portVars>> \/ stale'[r] \/ mu # r
<1>1. /\ CommonTypeOK /\ trunks \in Trunks /\ TrunkTypeOK /\ InterfaceTypeOK
      /\ \A t \in Trunk : made[t] => trunks[t] # NoTrunk
      /\ \A p \in Managed : made[p] => blocks[p] # Cleared /\ p \in chassis
      /\ Trunk \subseteq Op /\ Managed \subseteq Op \intersect Port /\ Reader \subseteq Op
      /\ Trunk \intersect Port = {}
    BY TrunkAssumption, InterfaceAssumption, ReaderAssumption, DataAssumption
       DEF HandlerInv, TypeOK, TrunkTypeOK, TrunkPoint, InterfacePoint
<1>2. ASSUME NEW S, BehindTheBackOf(S)
      PROVE  /\ stale' \in [Op -> BOOLEAN]
             /\ \A o \in Op : stale[o] => stale'[o]
             /\ \A o \in Op \intersect S : stale'[o] \/ mu # o
    BY <1>1, <1>2 DEF BehindTheBackOf, CommonTypeOK
<1> USE <1>1 DEF CommonTypeOK, portVars
<1>3. ASSUME NEW t \in Trunk, NEW c \in TrunkEdits, EditTrunk(t, c),
             UNCHANGED <<interfaceVars, dataVars>>
      PROVE  /\ UNCHANGED <<muVars, scenario, op, at, id, result, state>>
             /\ UNCHANGED <<trunkWant, trunkRead, interfaceVars, dataVars>>
             /\ made' \in [Op -> BOOLEAN] /\ \A o \in Op : made'[o] => made[o]
             /\ \A u \in Trunk : made'[u] => trunks'[u] # NoTrunk
             /\ trunks' \in Trunks
             /\ BehindTheBackOf(Reader \union {u \in Trunk : trunks'[u] # trunks[u]})
    <2>1. trunks' \in Trunks
        BY <1>3, FormType, TrunkAssumption DEF EditTrunk
    <2> QED
        BY <1>3, <2>1 DEF EditTrunk
<1>4. ASSUME NEW p \in Managed, NEW b \in BlockEdits, EditBlock(p, b),
             UNCHANGED <<trunkVars, dataVars>>
      PROVE  /\ UNCHANGED <<muVars, scenario, op, at, id, result, state>>
             /\ UNCHANGED <<trunkVars, chassis, blockWant, blockRead, todo, dataVars>>
             /\ made' \in [Op -> BOOLEAN] /\ \A o \in Op : made'[o] => made[o]
             /\ \A q \in Managed : made'[q] => blocks'[q] # Cleared
             /\ \A q \in Managed \ {p} : blocks'[q] = blocks[q]
             /\ InterfaceTypeOK'
             /\ BehindTheBackOf(Reader \union {p})
    BY <1>4, InterfaceAssumption DEF EditBlock, InterfaceTypeOK
<1>5. ASSUME NEW p \in Pluggable, Replug(p), UNCHANGED <<trunkVars, dataVars>>
      PROVE  /\ UNCHANGED <<muVars, scenario, op, at, id, result, state>>
             /\ UNCHANGED <<trunkVars, blocks, blockWant, blockRead, todo, dataVars>>
             /\ made' \in [Op -> BOOLEAN] /\ \A o \in Op : made'[o] => made[o]
             /\ \A q \in Managed : made'[q] => q \in chassis'
             /\ \A q \in Managed \ {p} : q \in chassis <=> q \in chassis'
             /\ InterfaceTypeOK'
             /\ BehindTheBackOf(Reader \union {p})
    BY <1>5, InterfaceAssumption DEF Replug, InterfaceTypeOK
<1>6. ASSUME NEW p \in Cabled, Relink(p), UNCHANGED <<trunkVars, dataVars>>
      PROVE  /\ UNCHANGED <<muVars, scenario, op, at, id, result, state, made>>
             /\ UNCHANGED <<trunkVars, chassis, blocks, blockWant, blockRead, todo, dataVars>>
             /\ InterfaceTypeOK'
             /\ BehindTheBackOf(Reader)
    BY <1>6, InterfaceAssumption DEF Relink, InterfaceTypeOK
<1> HIDE DEF portVars
<1>7. ASSUME NEW t \in Trunk, NEW c \in TrunkEdits, EditTrunk(t, c),
             UNCHANGED <<interfaceVars, dataVars>>
      PROVE  Goal
    <2>1. UNCHANGED <<portVars, blockWant, blockRead, todo>>
        BY <1>7 DEF interfaceVars
    <2>2. BehindTheBackOf(Reader \union {u \in Trunk : trunks'[u] # trunks[u]})
        BY <1>3, <1>7
    <2>3. \A o \in Op : o \in Reader \/ (o \in Trunk /\ trunks'[o] # trunks[o])
            => stale'[o] \/ mu # o
        BY <1>2, <2>2
    <2>4. InterfaceTypeOK'
        BY <2>1 DEF InterfaceTypeOK, portVars
    <2>5. \A p \in Managed : made'[p] => blocks'[p] # Cleared /\ p \in chassis'
        BY <1>3, <1>7, <2>1 DEF portVars
    <2> QED
        BY <1>2, <1>3, <1>7, <2>1, <2>2, <2>3, <2>4, <2>5 DEF portVars
<1>8. ASSUME NEW p \in Managed, NEW b \in BlockEdits, EditBlock(p, b),
             UNCHANGED <<trunkVars, dataVars>>
      PROVE  Goal
    <2>1. BehindTheBackOf(Reader \union {p}) /\ p \in Op
        BY <1>4, <1>8
    <2>2. \A o \in Op : o \in Reader \/ o = p => stale'[o] \/ mu # o
        BY <1>2, <2>1
    <2>3. UNCHANGED <<trunks, trunkWant, trunkRead>>
        BY <1>8 DEF trunkVars
    <2> QED
        BY <1>2, <1>4, <1>8, <2>1, <2>2, <2>3
<1>9. ASSUME NEW p \in Pluggable, Replug(p), UNCHANGED <<trunkVars, dataVars>>
      PROVE  Goal
    <2>1. BehindTheBackOf(Reader \union {p})
        BY <1>5, <1>9
    <2>2. \A o \in Op : o \in Reader \/ o = p => stale'[o] \/ mu # o
        BY <1>2, <2>1
    <2>3. UNCHANGED <<trunks, trunkWant, trunkRead>>
        BY <1>9 DEF trunkVars
    <2> QED
        BY <1>2, <1>5, <1>9, <2>1, <2>2, <2>3
<1>10. ASSUME NEW p \in Cabled, Relink(p), UNCHANGED <<trunkVars, dataVars>>
       PROVE  Goal
    <2>1. \A o \in Reader : stale'[o] \/ mu # o
        BY <1>2, <1>6, <1>10
    <2>2. UNCHANGED <<trunks, trunkWant, trunkRead>>
        BY <1>10 DEF trunkVars
    <2> QED
        BY <1>2, <1>6, <1>10, <2>1, <2>2
<1> QED
    BY <1>7, <1>8, <1>9, <1>10 DEF People

LEMMA PeopleKept ==
    ASSUME HandlerInv, Mu!LockInv', People
    PROVE  HandlerInv'
<1>1. Mu!TypeOK' /\ Trunk \subseteq Op /\ Managed \subseteq Op /\ Reader \subseteq Op
      /\ CommonTypeOK /\ TrunkTypeOK /\ DataTypeOK
      /\ \A o \in Op : pc[o] \in Mu!Critical <=> mu = o
    BY TrunkAssumption, InterfaceAssumption, ReaderAssumption
       DEF HandlerInv, TypeOK, Mu!LockInv, Mu!LockDiscipline
<1>2. \A o \in Op : Resting(o)
    BY PeopleFrame DEF Resting, muVars
<1>3. TypeOK'
    BY <1>1, PeopleFrame
       DEF TypeOK, CommonTypeOK, TrunkTypeOK, DataTypeOK, dataVars
<1>4. ASSUME NEW o \in Op PROVE CommonInv(o)' /\ Kept(o)'
    BY PeopleFrame DEF HandlerInv, CommonInv, Kept, Answered, Writes, muVars
<1>5. ASSUME NEW t \in Trunk PROVE TrunkPoint(t)' /\ KnowsTrunk(t)'
    BY <1>1, <1>2, PeopleFrame, TrunkFrame
<1>6. ASSUME NEW p \in Managed PROVE InterfacePoint(p)' /\ KnowsInterface(p)'
    BY <1>1, <1>2, PeopleFrame, InterfaceFrame
<1>7. ASSUME NEW r \in Reader PROVE DataPoint(r)' /\ KnowsPicture(r)'
    <2>1. ~made'[r]
        BY <1>1, PeopleFrame DEF HandlerInv, DataPoint
    <2> QED
        BY <1>1, <1>2, <2>1, PeopleFrame, DataFrame DEF dataVars
<1> QED
    BY <1>3, <1>4, <1>5, <1>6, <1>7 DEF HandlerInv

-----------------------------------------------------------------------------
(* The invariant                                                           *)

LEMMA InitHandlerInv == Init => HandlerInv
<1> SUFFICES ASSUME Init PROVE HandlerInv
    OBVIOUS
<1> USE DEF Init, CommonInit, TrunkInit, InterfaceInit, DataInit, Mu!Init
<1>1. /\ Trunk \subseteq Op \ Reader /\ Managed \subseteq Port \intersect (Op \ Reader)
      /\ Reader \subseteq Op
    BY TrunkAssumption, InterfaceAssumption, ReaderAssumption
<1>2. Mu!LockInv
    BY NoOpAssumption DEF Mu!LockInv, Mu!TypeOK, Mu!PC, Mu!LockDiscipline, Mu!Critical,
                          Mu!SessionDiscipline
<1>3. CommonTypeOK
    BY <1>2 DEF CommonTypeOK, Mu!LockInv, Ops, At
<1>4. TrunkTypeOK
    BY TrunkAssumption DEF TrunkTypeOK
<1>5. InterfaceTypeOK
    <2>1. Cleared \in Block
        BY DEF Cleared, Block
    <2>2. PICK b \in BlockEdits :
            blocks = [p \in Port |-> IF p \in Managed \intersect scenario.plan THEN b ELSE Cleared]
        OBVIOUS
    <2>3. blocks \in [Port -> Block]
        BY <2>1, <2>2, InterfaceAssumption
    <2> QED
        BY <2>1, <2>3, InterfaceAssumption DEF InterfaceTypeOK
<1>6. DataTypeOK
    <2>1. /\ NoMarks \in [Port -> Mark] /\ NoDetails \in [Port -> Detail]
          /\ NoConfig \in Configs
        BY DEF NoMarks, NoDetails, NotShown, NoConfig, Mark, Detail, Configs
    <2> QED
        BY <2>1 DEF DataTypeOK
<1>7. ASSUME NEW o \in Op PROVE CommonInv(o) /\ Kept(o)
    BY DEF CommonInv, Kept, Writes
<1>8. ASSUME NEW t \in Trunk PROVE TrunkPoint(t) /\ KnowsTrunk(t)
    BY <1>1 DEF TrunkPoint, KnowsTrunk, Answered
<1>9. ASSUME NEW p \in Managed PROVE InterfacePoint(p) /\ KnowsInterface(p)
    BY <1>1 DEF InterfacePoint, KnowsInterface, Answered
<1>10. ASSUME NEW r \in Reader PROVE DataPoint(r) /\ KnowsPicture(r)
    BY <1>1 DEF DataPoint, KnowsPicture, Answered
<1> QED
    BY <1>2, <1>3, <1>4, <1>5, <1>6, <1>7, <1>8, <1>9, <1>10 DEF HandlerInv, TypeOK

LEMMA NextHandlerInv == HandlerInv /\ [Next]_vars => HandlerInv'
<1> SUFFICES ASSUME HandlerInv, [Next]_vars PROVE HandlerInv'
    OBVIOUS
<1>1. Mu!LockInv'
    BY MuKept DEF HandlerInv
<1>2. CASE \E o \in Op : Waiting(o) \/ Opening(o) \/ Giving(o)
    BY <1>1, <1>2, CommonStepKept
<1>3. CASE \E t \in Trunk : TrunkStep(t)
    BY <1>1, <1>3, TrunkStepKept
<1>4. CASE \E p \in Managed : InterfaceStep(p)
    BY <1>1, <1>4, InterfaceStepKept
<1>5. CASE \E r \in Reader : DataStep(r)
    BY <1>1, <1>5, DataStepKept
<1>6. CASE People
    BY <1>1, <1>6, PeopleKept
<1>7. CASE UNCHANGED vars
    <2> USE <1>7 DEF vars, common, muVars, trunkVars, interfaceVars, portVars, dataVars
    <2>1. TypeOK'
        BY <1>1 DEF HandlerInv, TypeOK, CommonTypeOK, TrunkTypeOK, InterfaceTypeOK,
                    DataTypeOK, Mu!LockInv
    <2>2. ASSUME NEW o \in Op PROVE CommonInv(o)' /\ Kept(o)'
        BY DEF HandlerInv, CommonInv, Kept, Answered, Writes
    <2>3. ASSUME NEW t \in Trunk PROVE TrunkPoint(t)' /\ KnowsTrunk(t)'
        BY DEF HandlerInv, TrunkPoint, KnowsTrunk, Answered, Writes, TrunkReached
    <2>4. ASSUME NEW p \in Managed PROVE InterfacePoint(p)' /\ KnowsInterface(p)'
        BY DEF HandlerInv, InterfacePoint, KnowsInterface, Answered, Writes
    <2>5. ASSUME NEW r \in Reader PROVE DataPoint(r)' /\ KnowsPicture(r)'
        BY DEF HandlerInv, DataPoint, KnowsPicture, Answered, MarkOf, DetailOf, Up
    <2> QED
        BY <1>1, <2>1, <2>2, <2>3, <2>4, <2>5 DEF HandlerInv
<1> QED
    BY <1>2, <1>3, <1>4, <1>5, <1>6, <1>7 DEF Next

(* In every state, what each handler has read and not seen change is what  *)
(* the switch has, and what the provider made is not forgotten.            *)
THEOREM HandlerInvariant == Spec => []HandlerInv
BY InitHandlerInv, NextHandlerInv, PTL DEF Spec

-----------------------------------------------------------------------------
(* What follows from it                                                    *)

(* A trunk write that reports success has put its trunk there.             *)
THEOREM TrunkWritesReach == Spec => []TrunkWriteReaches
<1>1. HandlerInv => TrunkWriteReaches
    BY DEF HandlerInv, KnowsTrunk, TrunkWriteReaches
<1> QED
    BY <1>1, HandlerInvariant, PTL

(* An interface write that reports success has brought the block to what   *)
(* the resource asks for, for every block it found and every block it      *)
(* wants.                                                                  *)
THEOREM InterfaceWritesReach == Spec => []InterfaceWriteReaches
<1>1. HandlerInv => InterfaceWriteReaches
    BY DEF HandlerInv, KnowsInterface, InterfaceWriteReaches
<1> QED
    BY <1>1, HandlerInvariant, PTL

(* What the provider put on the switch is never forgotten.                 *)
THEOREM NothingForgotten == Spec => []NeverForgotten
<1>1. HandlerInv => NeverForgotten
    BY DEF HandlerInv, Kept, NeverForgotten
<1> QED
    BY <1>1, HandlerInvariant, PTL

(* The rows of a data source that was answered are the switch's rows.      *)
THEOREM SnapshotsAreConsistent == Spec => []SnapshotIsConsistent
<1>1. ASSUME HandlerInv, NEW r \in Reader, Answered(r), ~stale[r]
      PROVE  Rows(r) = Truth
    <2>1. /\ marks[r] = [p \in Port |-> MarkOf(p)]
          /\ \A p \in Port : details[r][p] = IF p \in chassis THEN DetailOf(p) ELSE NotShown
          /\ config[r].names = [p \in Port |-> blocks[p].name]
          /\ config[r].trunks = trunks
        BY <1>1 DEF HandlerInv, KnowsPicture
    <2>2. /\ chassis \subseteq Port
          /\ \A t \in Trunk : PortsOf(trunks[t]) \subseteq Port
          /\ \A p \in Port : blocks[p].shutdown \in BOOLEAN
        BY <1>1 DEF HandlerInv, TypeOK, InterfaceTypeOK, TrunkTypeOK, Trunks, TrunkConfig,
                    PortsOf, Block
    <2>3. \A p \in Port : MarkOf(p) # "absent" <=> p \in chassis
        BY DEF MarkOf
    <2>4. ASSUME NEW p \in chassis
          PROVE  Row(marks[r][p], p, config[r].names[p],
                     details[r][p].shutdown, details[r][p].running)
                 = Row(MarkOf(p), p, blocks[p].name, blocks[p].shutdown, Up(p))
        <3>1. p \in Port /\ details[r][p] = DetailOf(p)
            BY <2>1, <2>2
        <3>2. details[r][p].shutdown = blocks[p].shutdown /\ details[r][p].running = Up(p)
            BY <3>1 DEF DetailOf
        <3> QED
            BY <2>1, <3>1, <3>2
    <2>5. {p \in Port : marks[r][p] # "absent"} = chassis
        BY <2>1, <2>2, <2>3
    <2>6. ASSUME NEW t \in Trunk
          PROVE  SomeRunning(r, PortsOf(config[r].trunks[t]))
                 = \E p \in PortsOf(trunks[t]) \intersect chassis : Up(p)
        <3>1. ASSUME NEW p \in PortsOf(trunks[t])
              PROVE  details[r][p].running <=> p \in chassis /\ Up(p)
            <4>1. p \in Port
                BY <2>2
            <4>2. CASE p \in chassis
                <5>1. details[r][p] = DetailOf(p)
                    BY <2>1, <4>1, <4>2
                <5>2. details[r][p].running = Up(p)
                    BY <5>1 DEF DetailOf
                <5> QED
                    BY <4>2, <5>2
            <4>3. CASE p \notin chassis
                <5>1. details[r][p].running = FALSE
                    BY <2>1, <4>1, <4>3 DEF NotShown
                <5> QED
                    BY <4>3, <5>1
            <4> QED
                BY <4>2, <4>3
        <3> QED
            BY <2>1, <3>1 DEF SomeRunning
    <2> DEFINE truly(p) == Row(MarkOf(p), p, blocks[p].name, blocks[p].shutdown, Up(p))
               shown(p) == Row(marks[r][p], p, config[r].names[p],
                               details[r][p].shutdown, details[r][p].running)
               trulyUp(t) == \E p \in PortsOf(trunks[t]) \intersect chassis : Up(p)
               shownUp(t) == SomeRunning(r, PortsOf(config[r].trunks[t]))
    <2>7. {shown(p) : p \in {q \in Port : marks[r][q] # "absent"}} = {truly(p) : p \in chassis}
        <3> HIDE DEF shown, truly
        <3>1. \A p \in chassis : shown(p) = truly(p)
            BY <2>4 DEF shown, truly
        <3> QED
            BY <2>5, <3>1
    <2>8. {Row("logical", 0, t, FALSE, shownUp(t)) : t \in {u \in Trunk : config[r].trunks[u] # NoTrunk}}
          = {Row("logical", 0, t, FALSE, trulyUp(t)) : t \in {u \in Trunk : trunks[u] # NoTrunk}}
        <3> DEFINE one(t) == Row("logical", 0, t, FALSE, shownUp(t))
                   two(t) == Row("logical", 0, t, FALSE, trulyUp(t))
        <3>1. \A t \in Trunk : one(t) = two(t)
            BY <2>6
        <3> HIDE DEF one, two
        <3>2. {one(t) : t \in {u \in Trunk : trunks[u] # NoTrunk}}
              = {two(t) : t \in {u \in Trunk : trunks[u] # NoTrunk}}
            BY <3>1
        <3> QED
            BY <2>1, <3>2 DEF one, two
    <2> QED
        BY <2>7, <2>8 DEF Rows, Truth
<1>2. HandlerInv => SnapshotIsConsistent
    BY <1>1 DEF SnapshotIsConsistent
<1> QED
    BY <1>2, HandlerInvariant, PTL

(* Only the return of its handler changes an instance in the Terraform     *)
(* state.                                                                  *)
LEMMA StateChanges ==
    ASSUME HandlerInv, [Next]_vars, NEW o \in Op, state'[o] # state[o]
    PROVE  Return(o)
<1>1. /\ state \in [Op -> {"absent", "tainted", "present"}]
      /\ Trunk \subseteq Op /\ Managed \subseteq Op /\ Reader \subseteq Op
    BY TrunkAssumption, InterfaceAssumption, ReaderAssumption
       DEF HandlerInv, TypeOK, CommonTypeOK
<1>2. ASSUME NEW u \in Op, Return(u) PROVE u = o
    BY <1>1, <1>2 DEF Return
<1>3. CASE \E u \in Op : Waiting(u) \/ Opening(u) \/ Giving(u)
    BY <1>3 DEF Waiting, Opening, Giving, Acquire, NewSucceeds, OpenFails, ShowFails,
                Finish, Close
<1>4. ASSUME NEW t \in Trunk, TrunkStep(t) PROVE Return(t)
    <2>1. ~(StartTrunk(t) \/ OpenTrunk(t))
        BY DEF StartTrunk, Create, Update, Read, Delete, Start, OpenTrunk, OpenSucceeds
    <2>2. ~TrunkBody(t)
        BY TrunkBodyFrame DEF Goto, Finish
    <2> QED
        BY <1>4, <2>1, <2>2 DEF TrunkStep, ReturnTrunk
<1>5. ASSUME NEW p \in Managed, InterfaceStep(p) PROVE Return(p)
    <2>1. ~(StartInterface(p) \/ OpenInterface(p))
        BY DEF StartInterface, Create, Update, Read, Delete, Start, OpenInterface,
               OpenSucceeds
    <2>2. ~InterfaceBody(p)
        BY InterfaceBodyFrame DEF Goto, Finish
    <2> QED
        BY <1>5, <2>1, <2>2 DEF InterfaceStep, ReturnInterface
<1>6. ASSUME NEW r \in Reader, DataStep(r) PROVE Return(r)
    <2>1. ~(StartData(r) \/ OpenData(r))
        BY DEF StartData, ReadData, Start, OpenData, OpenSucceeds
    <2>2. ~DataBody(r)
        BY DataBodyFrame DEF Goto, Finish
    <2> QED
        BY <1>6, <2>1, <2>2 DEF DataStep, ReturnData
<1>7. CASE People \/ UNCHANGED vars
    BY <1>7, PeopleFrame DEF vars, common
<1> QED
    BY <1>1, <1>2, <1>3, <1>4, <1>5, <1>6, <1>7 DEF Next

(* An instance leaves the Terraform state only when what it stands for is  *)
(* off the switch.                                                         *)
THEOREM OnlyGoneDropped == Spec => DropsOnlyGone
<1> DEFINE Gone(o) == \/ stale[o]
                      \/ o \in Trunk /\ trunks[o] = NoTrunk
                      \/ o \in Managed /\ op[o] = "delete" /\ blocks[o] = Cleared
                      \/ o \in Managed /\ op[o] = "read" /\ o \notin chassis
<1>1. ASSUME HandlerInv, [Next]_vars, NEW o \in Op,
             state[o] # "absent", state'[o] = "absent"
      PROVE  Gone(o)
    <2>1. /\ Op = Trunk \union Managed \union Reader
          /\ CommonTypeOK /\ CommonInv(o)
          /\ o \in Trunk => KnowsTrunk(o) /\ TrunkPoint(o)
          /\ o \in Managed => KnowsInterface(o)
          /\ o \in Reader => DataPoint(o)
        BY <1>1, DataAssumption DEF HandlerInv, TypeOK
    <2>2. Return(o)
        BY <1>1, StateChanges
    <2>3. pc[o] = "unlock" /\ StateAfter(o) = "absent"
        BY <1>1, <2>1, <2>2 DEF Return, Mu!Unlock, Mu!Step, CommonTypeOK
    <2>4. op[o] # "none" /\ (Writes(o) \/ op[o] = "delete" => id[o])
        BY <2>1, <2>3 DEF CommonInv
    <2>5. CASE ~id[o]
        <3>1. Answered(o) /\ o \notin Reader /\ op[o] = "read"
            BY <1>1, <2>1, <2>4, <2>5 DEF CommonInv, CommonTypeOK, Ops, Writes
        <3> QED
            BY <2>1, <2>5, <3>1 DEF KnowsTrunk, KnowsInterface
    <2>6. CASE id[o]
        <3>1. op[o] = "delete" /\ result[o] = "ok"
            BY <1>1, <2>1, <2>3, <2>6 DEF StateAfter, CommonTypeOK
        <3>2. Answered(o) /\ o \notin Reader
            BY <2>1, <2>3, <3>1 DEF Answered, DataPoint
        <3> QED
            BY <2>1, <3>1, <3>2 DEF KnowsTrunk, KnowsInterface
    <2> QED
        BY <2>5, <2>6
<1>2. HandlerInv /\ [Next]_vars
        => [\A o \in Op : state[o] # "absent" /\ state'[o] = "absent" => Gone(o)]_vars
    BY <1>1
<1> QED
    BY <1>2, HandlerInvariant, PTL DEF Spec, DropsOnlyGone

(* The delete of a trunk leaves the other trunks their ports.              *)
THEOREM TrunkDeletesSpare == Spec => TrunkDeleteSpares
<1>1. ASSUME HandlerInv, [Next]_vars, NEW t \in Trunk,
             at[t] = "send", op[t] = "delete", at'[t] # "send"
      PROVE  stale[t] \/ \A u \in Trunk \ {t} : trunks'[u] = trunks[u]
    <2>1. /\ t \in Op /\ Trunk \subseteq Op /\ Managed \subseteq Op /\ Reader \subseteq Op
          /\ CommonTypeOK /\ TrunkTypeOK /\ CommonInv(t) /\ KnowsTrunk(t)
          /\ Trunk \intersect Managed = {} /\ Trunk \intersect Reader = {}
          /\ pc[t] = "body"
        BY <1>1, TrunkAssumption, InterfaceAssumption, ReaderAssumption, DataAssumption
           DEF HandlerInv, TypeOK, CommonInv
    <2>2. Mu!TypeOK'
        BY <1>1, MuKept DEF HandlerInv, Mu!LockInv
    <2>3. TrunkStep(t)
        <3>1. ~\E o \in Op : Waiting(o) \/ Opening(o) \/ Giving(o)
            <4> SUFFICES ASSUME NEW o \in Op, Waiting(o) \/ Opening(o) \/ Giving(o)
                         PROVE  FALSE
                OBVIOUS
            <4>1. /\ Acquire(o) \/ NewSucceeds(o) \/ OpenFails(o) \/ ShowFails(o) \/ Close(o)
                BY DEF Waiting, Opening, Giving
            <4>2. CASE o = t
                BY <1>1, <2>1, <4>1, <4>2
                   DEF Acquire, NewSucceeds, OpenFails, ShowFails, Close, Mu!Acquire,
                       Mu!NewSucceeds, Mu!NewFails, Mu!OpenFails, Mu!Close, Mu!Step
            <4>3. CASE o # t
                BY <1>1, <2>1, <4>1, <4>3, OthersRest DEF Resting
            <4> QED
                BY <4>2, <4>3
        <3>2. ASSUME NEW u \in Trunk, TrunkStep(u), u # t PROVE FALSE
            BY <1>1, <2>1, <2>2, <3>2, TrunkStepFrame DEF Resting
        <3>3. ASSUME NEW p \in Managed, InterfaceStep(p) PROVE FALSE
            BY <1>1, <2>1, <2>2, <3>3, InterfaceStepFrame DEF Resting
        <3>4. ASSUME NEW r \in Reader, DataStep(r) PROVE FALSE
            BY <1>1, <2>1, <2>2, <3>4, DataStepFrame DEF Resting
        <3>5. ~(People \/ UNCHANGED vars)
            BY <1>1, PeopleFrame DEF vars, common
        <3> QED
            BY <1>1, <3>1, <3>2, <3>3, <3>4, <3>5 DEF Next
    <2>4. trunks' = trunks \/ trunks' = Release(Removes(t))
        <3>1. ~(StartTrunk(t) \/ OpenTrunk(t) \/ ReturnTrunk(t))
            BY <2>1 DEF StartTrunk, Create, Update, Read, Delete, Start, OpenTrunk,
                        OpenSucceeds, ReturnTrunk, Return, Mu!Enter, Mu!OpenSucceeds,
                        Mu!Unlock, Mu!Step
        <3>2. TrunkBody(t)
            BY <2>3, <3>1 DEF TrunkStep
        <3> QED
            BY <1>1, <3>2
               DEF TrunkBody, ReadTrunks, SendTrunk, RemoveTrunk, SendTrunkFails,
                   VerifyTrunk, InBody, Writes, ApplyTrunk, IgnoreTrunk, trunkVars
    <2>5. ASSUME ~stale[t], NEW u \in Trunk \ {t}, trunks' = Release(Removes(t))
          PROVE  trunks'[u] = trunks[u]
        <3>1. Removes(t) = PortsOf(trunks[t])
            BY <1>1, <2>1, <2>5 DEF KnowsTrunk, Removes
        <3>2. /\ trunks[u] \in TrunkConfig \union {NoTrunk}
              /\ PortsOf(trunks[u]) \intersect PortsOf(trunks[t]) = {}
            BY <2>1 DEF TrunkTypeOK, Trunks
        <3> QED
            BY <2>5, <3>1, <3>2, WithoutPorts DEF Release
    <2> QED
        BY <2>4, <2>5
<1>2. HandlerInv /\ [Next]_vars
        => [\A t \in Trunk :
                at[t] = "send" /\ op[t] = "delete" /\ at'[t] # "send"
                    => \/ stale[t]
                       \/ \A u \in Trunk \ {t} : trunks'[u] = trunks[u]]_vars
    BY <1>1
<1> QED
    BY <1>2, HandlerInvariant, PTL DEF Spec, TrunkDeleteSpares

-----------------------------------------------------------------------------
(* The way to the return                                                   *)

(* A block of lines has at most four, and one less when one is sent.       *)
LEMMA LinesLeft ==
    ASSUME NEW lines \in SUBSET Line
    PROVE  /\ Cardinality(lines) \in Nat
           /\ Cardinality(lines) <= 4
           /\ \A l \in lines : Cardinality(lines \ {l}) = Cardinality(lines) - 1
<1>1. Rank \in Injection(Line, 1..4)
    <2>1. Rank \in [Line -> 1..4]
        BY DEF Rank, Line
    <2>2. IsInjective(Rank)
        BY DEF IsInjective, Rank
    <2> QED
        BY <2>1, <2>2 DEF Injection
<1>2. IsFiniteSet(1..4) /\ Cardinality(1..4) = 4
    <2>1. 1 \in Int /\ 4 \in Int /\ (IF 1 > 4 THEN 0 ELSE 4 - 1 + 1) = 4
        OBVIOUS
    <2>2. /\ IsFiniteSet(1..4)
          /\ Cardinality(1..4) = IF 1 > 4 THEN 0 ELSE 4 - 1 + 1
        BY <2>1, FS_Interval, Zenon
    <2> QED
        BY <2>1, <2>2, SMT
<1>3. IsFiniteSet(Line) /\ Cardinality(Line) <= 4
    BY <1>1, <1>2, FS_Injection
<1>4. IsFiniteSet(lines) /\ Cardinality(lines) <= Cardinality(Line)
    BY <1>3, FS_Subset
<1>5. Cardinality(lines) \in Nat /\ Cardinality(Line) \in Nat
    BY <1>3, <1>4, FS_CardinalityType
<1> QED
    BY <1>3, <1>4, <1>5, FS_RemoveElement

(* So with the ports that are left to show.                                *)
LEMMA PortsLeft ==
    ASSUME NEW ports \in SUBSET Port
    PROVE  /\ Cardinality(ports) \in Nat
           /\ Cardinality(ports) <= Cardinality(Port)
           /\ \A p \in ports : Cardinality(ports \ {p}) = Cardinality(ports) - 1
<1>1. IsFiniteSet(ports) /\ Cardinality(ports) <= Cardinality(Port)
    BY PortsAreFinite, FS_Subset
<1>2. Cardinality(ports) \in Nat
    BY <1>1, FS_CardinalityType
<1> QED
    BY <1>1, <1>2, FS_RemoveElement

(* Where a handler is, and what it has before it there.                    *)
LEMMA Whereabouts ==
    ASSUME HandlerInv, NEW o \in Op
    PROVE  /\ pc \in [Op -> Mu!PC] /\ at \in [Op -> At] /\ (pc[o] = "body" => at[o] # "none")
           /\ Point(o) \in DOMAIN Ahead
           /\ Cardinality(Port) \in Nat /\ Cardinality({}) = 0
           /\ Cardinality(Pending(o)) \in Nat
           /\ o \in Managed => o \notin Reader /\ todo[o] \in SUBSET Line
           /\ o \in Reader => o \notin Managed /\ toShow[o] \in SUBSET Port
           /\ o \in Trunk => o \notin Managed /\ o \notin Reader
<1>1. /\ pc \in [Op -> Mu!PC] /\ at \in [Op -> At]
      /\ todo \in [Managed -> SUBSET Line] /\ toShow \in [Reader -> SUBSET Port]
      /\ (pc[o] = "body" => at[o] # "none")
    BY DEF HandlerInv, TypeOK, CommonTypeOK, Mu!TypeOK, InterfaceTypeOK, DataTypeOK,
           CommonInv
<1>2. /\ Trunk \intersect Reader = {} /\ Managed \intersect Reader = {}
      /\ Trunk \intersect Managed = {}
    BY TrunkAssumption, InterfaceAssumption, DataAssumption
<1>3. Point(o) \in DOMAIN Ahead
    BY <1>1 DEF Point, Ahead, Mu!PC, At
<1>4. Cardinality(Port) \in Nat /\ Cardinality({}) = 0
    BY PortsLeft, FS_EmptySet
<1>5. Cardinality(Pending(o)) \in Nat
    BY <1>1, <1>4, LinesLeft, PortsLeft DEF Pending
<1> QED
    BY <1>1, <1>2, <1>3, <1>4, <1>5

(* At every point there is a bound on the steps that are left.             *)
LEMMA StepsLeftType == HandlerInv => \A o \in Op : StepsLeft(o) \in Nat
<1> SUFFICES ASSUME HandlerInv, NEW o \in Op PROVE StepsLeft(o) \in Nat
    OBVIOUS
<1>1. Ahead \in [DOMAIN Ahead -> Nat]
    BY DEF Ahead
<1> QED
    BY <1>1, Whereabouts DEF StepsLeft

(* A handler that returns has closeSwitch before it, and had more.         *)
LEMMA FinishNears ==
    ASSUME HandlerInv, NEW o \in Op, NEW x, Finish(o, x)
    PROVE  StepsLeft(o)' < StepsLeft(o)
<1>1. /\ pc[o] = "body" /\ pc'[o] = "close"
    BY Whereabouts DEF Finish, Mu!BodyReturns, Mu!Step
<1>2. Point(o)' = "close" /\ Pending(o)' = {}
    BY <1>1 DEF Point, Pending
<1>3. Ahead[Point(o)] >= 3 /\ Ahead[Point(o)] \in Nat
    BY <1>1, Whereabouts DEF Point, Ahead, At
<1> QED
    BY <1>2, <1>3, Whereabouts DEF StepsLeft, Ahead

(* openSwitch and closeSwitch go one way.                                  *)
LEMMA FrameStepNears ==
    ASSUME HandlerInv, NEW o \in Op,
           Acquire(o) \/ NewSucceeds(o) \/ OpenFails(o) \/ ShowFails(o) \/ Close(o) \/ Return(o)
    PROVE  StepsLeft(o)' < StepsLeft(o)
<1>1. CASE ShowFails(o)
    BY <1>1, FinishNears DEF ShowFails
<1>2. CASE Acquire(o) \/ NewSucceeds(o) \/ OpenFails(o) \/ Close(o) \/ Return(o)
    <2>1. <<pc[o], pc'[o]>> \in
            {<<"lock", "new">>, <<"new", "open">>, <<"new", "unlock">>, <<"open", "close">>,
             <<"close", "unlock">>, <<"unlock", "idle">>}
        BY <1>2, Whereabouts
           DEF Acquire, NewSucceeds, OpenFails, Close, Return, Mu!Acquire, Mu!NewSucceeds,
               Mu!NewFails, Mu!OpenFails, Mu!Close, Mu!Unlock, Mu!Step
    <2> QED
        BY <2>1, Whereabouts DEF StepsLeft, Pending, Point, Ahead
<1> QED
    BY <1>1, <1>2

(* A handler of a trunk reads one running configuration, sends one line    *)
(* and reads it back.                                                      *)
LEMMA TrunkStepNears ==
    ASSUME HandlerInv, NEW t \in Trunk, TrunkStep(t), pc[t] # "idle"
    PROVE  StepsLeft(t)' < StepsLeft(t)
<1>1. t \in Op /\ t \notin Managed /\ t \notin Reader
    BY Whereabouts, TrunkAssumption
<1>2. CASE StartTrunk(t)
    BY <1>2 DEF StartTrunk, Create, Update, Read, Delete, Start, Mu!Enter, Mu!Step
<1>3. CASE OpenTrunk(t)
    <2>1. /\ pc[t] = "open" /\ pc'[t] = "body"
          /\ at'[t] \in {"send", "show"}
        BY <1>1, <1>3, Whereabouts
           DEF OpenTrunk, OpenSucceeds, Mu!OpenSucceeds, Mu!Step
    <2> QED
        BY <1>1, <2>1, Whereabouts DEF StepsLeft, Pending, Point, Ahead
<1>4. CASE TrunkBody(t)
    <2>1. CASE \E x : Finish(t, x)
        BY <1>1, <2>1, FinishNears
    <2>2. CASE ~\E x : Finish(t, x)
        <3>1. /\ pc[t] = "body" /\ pc'[t] = "body"
              /\ <<at[t], at'[t]>> \in {<<"show", "send">>, <<"send", "verify">>}
            BY <1>1, <1>4, <2>2, Whereabouts
               DEF TrunkBody, ReadTrunks, SendTrunk, RemoveTrunk, SendTrunkFails,
                   VerifyTrunk, InBody, Goto, muVars
        <3> QED
            BY <1>1, <3>1, Whereabouts DEF StepsLeft, Pending, Point, Ahead
    <2> QED
        BY <2>1, <2>2
<1>5. CASE ReturnTrunk(t)
    BY <1>1, <1>5, FrameStepNears DEF ReturnTrunk
<1> QED
    BY <1>2, <1>3, <1>4, <1>5 DEF TrunkStep

(* A handler of an interface looks twice, sends up to four lines and reads *)
(* them back.                                                              *)
LEMMA InterfaceStepNears ==
    ASSUME HandlerInv, NEW p \in Managed, InterfaceStep(p), pc[p] # "idle"
    PROVE  StepsLeft(p)' < StepsLeft(p)
<1>1. /\ p \in Op /\ p \notin Reader /\ todo \in [Managed -> SUBSET Line]
      /\ blocks[p] \in Block /\ blockWant[p] \in Block /\ Cleared \in Block
    BY Whereabouts, InterfaceAssumption
       DEF HandlerInv, TypeOK, InterfaceTypeOK, Block, Cleared
<1>2. CASE StartInterface(p)
    BY <1>2 DEF StartInterface, Create, Update, Read, Delete, Start, Mu!Enter, Mu!Step
<1>3. ASSUME NEW c \in Block, NEW w \in Block,
             todo'[p] \in {BuildInterfaceConfig(c, w), BuildInterfaceDeleteBlock(c)}
      PROVE  Cardinality(todo'[p]) \in Nat /\ Cardinality(todo'[p]) <= 4
    BY <1>3, BuiltLines, ClearingLines, LinesLeft
<1>4. CASE OpenInterface(p)
    <2>1. /\ pc[p] = "open" /\ pc'[p] = "body"
          /\ \/ at'[p] \in {"summary", "show"}
             \/ at'[p] = "send" /\ todo'[p] = BuildInterfaceConfig(Cleared, blockWant[p])
        BY <1>1, <1>4, Whereabouts
           DEF OpenInterface, OpenSucceeds, Mu!OpenSucceeds, Mu!Step
    <2> QED
        BY <1>1, <1>3, <2>1, Whereabouts DEF StepsLeft, Pending, Point, Ahead
<1>5. CASE InterfaceBody(p)
    <2>1. CASE \E x : Finish(p, x)
        BY <1>1, <2>1, FinishNears
    <2>2. ASSUME ~\E x : Finish(p, x), PortExists(p) PROVE StepsLeft(p)' < StepsLeft(p)
        <3>1. pc[p] = "body" /\ pc'[p] = "body" /\ at[p] = "summary" /\ at'[p] = "show"
            BY <1>1, <2>2, Whereabouts DEF PortExists, InBody, Goto, muVars
        <3> QED
            BY <1>1, <3>1, Whereabouts DEF StepsLeft, Pending, Point, Ahead
    <2>3. ASSUME ~\E x : Finish(p, x), ReadInterfaces(p) PROVE StepsLeft(p)' < StepsLeft(p)
        <3>1. /\ pc[p] = "body" /\ pc'[p] = "body" /\ at[p] = "show" /\ at'[p] = "send"
              /\ todo'[p] \in {BuildInterfaceConfig(blocks[p], blockWant[p]),
                               BuildInterfaceDeleteBlock(blocks[p])}
            BY <1>1, <2>3, Whereabouts DEF ReadInterfaces, SendOrReturn, InBody, Goto, muVars
        <3> QED
            BY <1>1, <1>3, <3>1, Whereabouts DEF StepsLeft, Pending, Point, Ahead
    <2>4. ASSUME ~\E x : Finish(p, x), SendLine(p) PROVE StepsLeft(p)' < StepsLeft(p)
        <3>1. PICK l \in todo[p] : todo' = [todo EXCEPT ![p] = @ \ {l}]
            BY <2>4 DEF SendLine
        <3>2. /\ Cardinality(todo'[p]) = Cardinality(todo[p]) - 1
              /\ Cardinality(todo[p]) \in Nat
            BY <1>1, <3>1, LinesLeft
        <3>3. /\ pc[p] = "body" /\ pc'[p] = "body" /\ at[p] = "send"
              /\ at'[p] \in {"send", "verify"}
            BY <1>1, <2>4, Whereabouts DEF SendLine, InBody, Goto, muVars
        <3> QED
            BY <1>1, <3>2, <3>3, Whereabouts DEF StepsLeft, Pending, Point, Ahead
    <2> QED
        BY <1>5, <2>1, <2>2, <2>3, <2>4 DEF InterfaceBody, SendLineFails, VerifyCleared
<1>6. CASE ReturnInterface(p)
    BY <1>1, <1>6, FrameStepNears DEF ReturnInterface
<1> QED
    BY <1>2, <1>4, <1>5, <1>6 DEF InterfaceStep

(* A data source shows the ports, the running configuration, and each of   *)
(* the ports it saw.                                                       *)
LEMMA DataStepNears ==
    ASSUME HandlerInv, NEW r \in Reader, DataStep(r), pc[r] # "idle"
    PROVE  StepsLeft(r)' < StepsLeft(r)
<1>1. /\ r \in Op /\ r \notin Managed /\ toShow \in [Reader -> SUBSET Port]
      /\ chassis \in SUBSET Port
    BY Whereabouts, ReaderAssumption DEF HandlerInv, TypeOK, DataTypeOK, InterfaceTypeOK
<1>2. CASE StartData(r)
    BY <1>2 DEF StartData, ReadData, Start, Mu!Enter, Mu!Step
<1>3. CASE OpenData(r)
    <2>1. pc[r] = "open" /\ pc'[r] = "body" /\ at'[r] = "summary"
        BY <1>1, <1>3, Whereabouts DEF OpenData, OpenSucceeds, Mu!OpenSucceeds, Mu!Step
    <2> QED
        BY <1>1, <2>1, Whereabouts DEF StepsLeft, Pending, Point, Ahead
<1>4. CASE \E x : Finish(r, x)
    BY <1>1, <1>4, FinishNears
<1>5. ASSUME ~\E x : Finish(r, x), ShowInterfaces(r) PROVE StepsLeft(r)' < StepsLeft(r)
    <2>1. /\ pc[r] = "body" /\ pc'[r] = "body" /\ at[r] = "summary" /\ at'[r] = "show"
          /\ toShow'[r] = chassis
        BY <1>1, <1>5, Whereabouts DEF ShowInterfaces, InBody, Goto, muVars
    <2>2. Cardinality(chassis) \in Nat /\ Cardinality(chassis) <= Cardinality(Port)
        BY <1>1, PortsLeft
    <2> QED
        BY <1>1, <2>1, <2>2, Whereabouts DEF StepsLeft, Pending, Point, Ahead
<1>6. ASSUME ~\E x : Finish(r, x), ShowRunningConfig(r) PROVE StepsLeft(r)' < StepsLeft(r)
    <2>1. /\ pc[r] = "body" /\ pc'[r] = "body" /\ at[r] = "show" /\ at'[r] = "detail"
          /\ toShow'[r] = toShow[r]
        BY <1>1, <1>6, Whereabouts DEF ShowRunningConfig, Proceed, InBody, Goto, muVars
    <2>2. Cardinality(toShow[r]) \in Nat
        BY <1>1, PortsLeft
    <2> QED
        BY <1>1, <2>1, <2>2, Whereabouts DEF StepsLeft, Pending, Point, Ahead
<1>7. ASSUME ~\E x : Finish(r, x), ShowInterface(r) PROVE StepsLeft(r)' < StepsLeft(r)
    <2>1. PICK p \in toShow[r] : /\ toShow' = [toShow EXCEPT ![r] = @ \ {p}]
                                 /\ Goto(r, "detail")
        BY <1>7 DEF ShowInterface, Proceed
    <2>2. /\ Cardinality(toShow'[r]) = Cardinality(toShow[r]) - 1
          /\ Cardinality(toShow[r]) \in Nat
        BY <1>1, <2>1, PortsLeft
    <2>3. pc[r] = "body" /\ pc'[r] = "body" /\ at[r] = "detail" /\ at'[r] = "detail"
        BY <1>1, <1>7, <2>1, Whereabouts DEF ShowInterface, InBody, Goto, muVars
    <2> QED
        BY <1>1, <2>2, <2>3, Whereabouts DEF StepsLeft, Pending, Point, Ahead
<1>8. CASE ReturnData(r)
    BY <1>1, <1>8, FrameStepNears DEF ReturnData
<1> QED
    BY <1>2, <1>3, <1>4, <1>5, <1>6, <1>7, <1>8 DEF DataStep, DataBody

(* Every step of a handler brings it nearer to its return.                 *)
LEMMA OwnStepNears ==
    ASSUME HandlerInv, NEW o \in Op, Own(o)
    PROVE  StepsLeft(o)' < StepsLeft(o)
<1>1. CASE Waiting(o) \/ Opening(o) \/ Giving(o)
    BY <1>1, FrameStepNears DEF Waiting, Opening, Giving
<1> QED
    BY <1>1, TrunkStepNears, InterfaceStepNears, DataStepNears DEF Own

(* The steps of others leave a handler where it is.                        *)
LEMMA OthersLeaveAlone ==
    ASSUME HandlerInv, HandlerInv', Next, NEW o \in Op, ~Own(o), pc[o] # "idle"
    PROVE  StepsLeft(o)' = StepsLeft(o)
<1>1. ASSUME UNCHANGED <<pc[o], at[o]>>,
             o \in Managed => UNCHANGED todo[o], o \in Reader => UNCHANGED toShow[o]
      PROVE  StepsLeft(o)' = StepsLeft(o)
    BY <1>1 DEF StepsLeft, Pending, Point
<1>2. /\ Mu!TypeOK' /\ CommonTypeOK
      /\ o \in Managed => o \notin Reader /\ o \notin Trunk
      /\ o \in Reader => o \notin Trunk
    BY Whereabouts DEF HandlerInv, TypeOK, CommonTypeOK
<1>3. ASSUME NEW u \in Op, Waiting(u) \/ Opening(u) \/ Giving(u)
      PROVE  StepsLeft(o)' = StepsLeft(o)
    <2>1. u # o
        BY <1>3 DEF Own
    <2>2. Resting(o)
        BY <1>2, <1>3, <2>1, OthersRest DEF Waiting, Opening, Giving
    <2>3. UNCHANGED <<interfaceVars, dataVars>>
        BY <1>3 DEF Waiting, Opening, Giving
    <2> QED
        BY <1>1, <2>2, <2>3 DEF Resting, interfaceVars, dataVars
<1>4. ASSUME NEW t \in Trunk, TrunkStep(t) PROVE StepsLeft(o)' = StepsLeft(o)
    <2>1. t # o
        BY <1>4 DEF Own
    <2>2. Resting(o) /\ UNCHANGED <<interfaceVars, dataVars>>
        BY <1>2, <1>4, <2>1, TrunkStepFrame DEF TrunkStep
    <2> QED
        BY <1>1, <2>2 DEF Resting, interfaceVars, dataVars
<1>5. ASSUME NEW p \in Managed, InterfaceStep(p) PROVE StepsLeft(o)' = StepsLeft(o)
    <2>1. p # o
        BY <1>5 DEF Own
    <2>2. Resting(o) /\ UNCHANGED dataVars /\ (o \in Managed => UNCHANGED todo[o])
        BY <1>2, <1>5, <2>1, InterfaceStepFrame DEF InterfaceStep
    <2> QED
        BY <1>1, <2>2 DEF Resting, dataVars
<1>6. ASSUME NEW r \in Reader, DataStep(r) PROVE StepsLeft(o)' = StepsLeft(o)
    <2>1. r # o
        BY <1>6 DEF Own
    <2>2. Resting(o) /\ UNCHANGED interfaceVars /\ (o \in Reader => UNCHANGED toShow[o])
        BY <1>2, <1>6, <2>1, DataStepFrame DEF DataStep
    <2> QED
        BY <1>1, <2>2 DEF Resting, interfaceVars
<1>7. CASE People
    BY <1>1, <1>7, PeopleFrame DEF muVars, dataVars
<1> QED
    BY <1>3, <1>4, <1>5, <1>6, <1>7 DEF Next

(* Every handler returns after a bounded number of steps of its own: 13,   *)
(* and one for each port the data source shows.                            *)
THEOREM HandlersNearReturn == Spec => NearsReturn
<1>1. (HandlerInv => \A o \in Op : StepsLeft(o) \in Nat)'
    BY StepsLeftType, PTL
<1>2. ASSUME HandlerInv, HandlerInv', Next, NEW o \in Op
      PROVE  /\ Own(o) => StepsLeft(o)' < StepsLeft(o)
             /\ pc[o] # "idle" => StepsLeft(o)' <= StepsLeft(o)
    <2>1. StepsLeft(o) \in Nat /\ StepsLeft(o)' \in Nat
        BY <1>1, <1>2, StepsLeftType
    <2>2. CASE Own(o)
        BY <1>2, <2>1, <2>2, OwnStepNears
    <2>3. CASE ~Own(o)
        BY <1>2, <2>1, <2>3, OthersLeaveAlone
    <2> QED
        BY <2>2, <2>3
<1>3. HandlerInv /\ HandlerInv' /\ [Next]_vars =>
        [\A o \in Op :
            /\ Own(o) => StepsLeft(o)' < StepsLeft(o)
            /\ pc[o] # "idle" => StepsLeft(o)' <= StepsLeft(o)]_vars
    BY <1>2
<1> QED
    BY <1>3, HandlerInvariant, PTL DEF Spec, NearsReturn

(* A step of the lock protocol is a step of the promise of OneSession, as  *)
(* it is for any operations.                                               *)
LEMMA PromiseStep == Mu!LockInv /\ [Mu!Next]_(Mu!vars) => [Mu!Promise!Next]_(Mu!Promise!vars)
<1>1. Mu!LockInv <=> MuProofs!LockInv
    BY DEF Mu!LockInv, Mu!TypeOK, Mu!LockDiscipline, Mu!SessionDiscipline, Mu!PC,
           Mu!Critical, MuProofs!LockInv, MuProofs!TypeOK, MuProofs!LockDiscipline,
           MuProofs!SessionDiscipline, MuProofs!PC, MuProofs!Critical
<1>2. [Mu!Next]_(Mu!vars) <=> [MuProofs!Next]_(MuProofs!vars)
    BY DEF Mu!vars, Mu!Next, Mu!Enter, Mu!OpenSwitch, Mu!Acquire, Mu!NewSucceeds,
           Mu!NewFails, Mu!OpenSucceeds, Mu!OpenFails, Mu!BodyReturns,
           Mu!CloseSwitch, Mu!Close, Mu!Unlock, Mu!Step,
           MuProofs!vars, MuProofs!Next, MuProofs!Enter, MuProofs!OpenSwitch,
           MuProofs!Acquire, MuProofs!NewSucceeds, MuProofs!NewFails,
           MuProofs!OpenSucceeds, MuProofs!OpenFails, MuProofs!BodyReturns,
           MuProofs!CloseSwitch, MuProofs!Close, MuProofs!Unlock, MuProofs!Step
<1>3. MuProofs!LockInv /\ [MuProofs!Next]_(MuProofs!vars)
        => [MuProofs!Promise!Next]_(MuProofs!Promise!vars)
    BY MuProofs!NextRefines, NoOpAssumption DEF MuProofs!NoOpAssumption
<1>4. [MuProofs!Promise!Next]_(MuProofs!Promise!vars) => [Mu!Promise!Next]_(Mu!Promise!vars)
    BY DEF Mu!Promise!Next, Mu!Promise!vars, Mu!Promise!Request, Mu!Promise!Connect,
           Mu!Promise!GiveUp, Mu!Promise!Disconnect, Mu!Promise!Become, Mu!Phase,
           MuProofs!Promise!Next, MuProofs!Promise!vars, MuProofs!Promise!Request,
           MuProofs!Promise!Connect, MuProofs!Promise!GiveUp, MuProofs!Promise!Disconnect,
           MuProofs!Promise!Become, MuProofs!Phase
<1> QED
    BY <1>1, <1>2, <1>3, <1>4

(* At most one handler has a session with the switch at any time, and each *)
(* opens one only while nobody else has: the promise that the comment on   *)
(* switchMu makes holds of the handlers themselves.                        *)
THEOREM OneHandlerAtATime == Spec => []Mu!OneSessionAtATime /\ Mu!Promise!Safety
<1>1. Init => Mu!Promise!Init
    BY DEF Init, CommonInit, Mu!Init, Mu!Promise!Init, Mu!Phase
<1>2. HandlerInv => Mu!LockInv
    BY DEF HandlerInv
<1>3. Mu!LockInv => Mu!OneSessionAtATime
    BY DEF Mu!LockInv, Mu!LockDiscipline, Mu!SessionDiscipline, Mu!Critical,
           Mu!OneSessionAtATime, Mu!TypeOK
<1> QED
    BY <1>1, <1>2, <1>3, MuStep, PromiseStep, HandlerInvariant, PTL
       DEF Spec, Mu!Promise!Safety
=============================================================================
