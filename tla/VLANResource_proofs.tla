------------------------ MODULE VLANResource_proofs ------------------------
(***************************************************************************)
(* Proofs about the aoss_vlan handlers, for any set of VLANs, members and  *)
(* configurations, any number of parallel handlers, and any edits on the   *)
(* console: the inductive invariant HandlerInv, and from it what the       *)
(* reports of success mean, what is in force halfway, that only edits make *)
(* the plain delete hang, that no VLAN the provider made is forgotten,     *)
(* that every step brings a handler nearer to its return, and that the     *)
(* handlers keep the session discipline and the promise behind it.         *)
(***************************************************************************)
EXTENDS VLANResource, VLANConfig_proofs, FiniteSetTheorems

MuProofs == INSTANCE SwitchMu_proofs WITH Op <- Vlan

(* Every step of the handlers is a step of the session discipline or       *)
(* leaves it alone.                                                        *)
LEMMA MuStep == [Next]_vars => [Mu!Next]_(Mu!vars)
<1> USE DEF Mu!vars, muVars
<1>1. ASSUME NEW v \in Vlan, Terraform(v) PROVE Mu!Next
    BY <1>1 DEF Terraform, Create, Update, Read, Delete, Start, Mu!Next
<1>2. ASSUME NEW v \in Vlan, Acquire(v) PROVE Mu!Next
    BY <1>2 DEF Acquire, Mu!Next, Mu!OpenSwitch
<1>3. ASSUME NEW v \in Vlan, OpenSwitch(v) PROVE Mu!Next
    BY <1>3 DEF OpenSwitch, NewSucceeds, NewFails, OpenSucceeds, OpenFails,
                Mu!Next, Mu!OpenSwitch
<1>4. ASSUME NEW v \in Vlan, Body(v) PROVE [Mu!Next]_(Mu!vars)
    <2>1. Mu!BodyReturns(v) \/ UNCHANGED muVars
        BY <1>4 DEF Body, ShowFails, ReadVLANs, Build, EnterConfig, EnterConfigFails,
            SendLine, SendLineFails, RemovePlainly, RemoveHangs, RemoveTimesOut,
            RemoveConfirmed, RemoveFails, Verify, Finish, Goto
    <2> QED
        BY <2>1 DEF Mu!Next
<1>5. ASSUME NEW v \in Vlan, CloseSwitch(v) PROVE Mu!Next
    BY <1>5 DEF CloseSwitch, Close, Return, Mu!Next, Mu!CloseSwitch
<1>6. ASSUME NEW v \in Vlan, NEW c \in Edited, Edit(v, c) PROVE UNCHANGED muVars
    BY <1>6 DEF Edit
<1>7. CASE UNCHANGED vars
    BY <1>7 DEF vars
<1> QED
    BY <1>1, <1>2, <1>3, <1>4, <1>5, <1>6, <1>7 DEF Next

(* So the mutex, the program points and the sessions stay in agreement.    *)
LEMMA MuKept == Mu!LockInv /\ [Next]_vars => Mu!LockInv'
<1>1. Mu!LockInv <=> MuProofs!LockInv
    BY DEF Mu!LockInv, Mu!TypeOK, Mu!LockDiscipline, Mu!SessionDiscipline, Mu!PC,
           Mu!Critical, MuProofs!LockInv, MuProofs!TypeOK, MuProofs!LockDiscipline,
           MuProofs!SessionDiscipline, MuProofs!PC, MuProofs!Critical
<1>2. Mu!LockInv' <=> MuProofs!LockInv'
    BY DEF Mu!LockInv, Mu!TypeOK, Mu!LockDiscipline, Mu!SessionDiscipline, Mu!PC,
           Mu!Critical, MuProofs!LockInv, MuProofs!TypeOK, MuProofs!LockDiscipline,
           MuProofs!SessionDiscipline, MuProofs!PC, MuProofs!Critical
<1>3. [Mu!Next]_(Mu!vars) <=> [MuProofs!Next]_(MuProofs!vars)
    BY DEF Mu!vars, Mu!Next, Mu!Enter, Mu!OpenSwitch, Mu!Acquire, Mu!NewSucceeds,
           Mu!NewFails, Mu!OpenSucceeds, Mu!OpenFails, Mu!BodyReturns,
           Mu!CloseSwitch, Mu!Close, Mu!Unlock, Mu!Step,
           MuProofs!vars, MuProofs!Next, MuProofs!Enter, MuProofs!OpenSwitch,
           MuProofs!Acquire, MuProofs!NewSucceeds, MuProofs!NewFails,
           MuProofs!OpenSucceeds, MuProofs!OpenFails, MuProofs!BodyReturns,
           MuProofs!CloseSwitch, MuProofs!Close, MuProofs!Unlock, MuProofs!Step
<1>4. MuProofs!LockInv /\ [MuProofs!Next]_(MuProofs!vars) => MuProofs!LockInv'
    BY MuProofs!NextLockInv, NoOpAssumption DEF MuProofs!NoOpAssumption
<1> QED
    BY <1>1, <1>2, <1>3, <1>4, MuStep

(* A handler between Lock and Unlock is alone there.                       *)
LEMMA Alone ==
    ASSUME HandlerInv, NEW v \in Vlan, pc[v] \in Mu!Critical, NEW u \in Vlan \ {v}
    PROVE  pc[u] \notin Mu!Critical /\ at[u] = "none"
BY DEF HandlerInv, PointInv, Mu!LockInv, Mu!LockDiscipline, Mu!Critical

(* What a line, if it is the next one, may do to the running configuration *)
(* keeps its blocks well-formed, and takes none away.                      *)
LEMMA ApplyType ==
    ASSUME HandlerInv, NEW v \in Vlan, NEW l \in todo[v], Apply(v, l)
    PROVE  /\ running' \in Running
           /\ made' = [made EXCEPT ![v] = @ \/ (l = "vlan" /\ running[v] = NoBlock)]
           /\ l = "vlan" \/ running[v] # NoBlock => running'[v] # NoBlock
           /\ \A u \in Vlan \ {v} : running'[u] = NoBlock => running[u] = NoBlock
<1>1. /\ running \in Running /\ current[v] \in Block /\ want[v] \in Desired
      /\ l \in BuildVLANConfig(current[v], want[v])
    BY WantedAssumption DEF HandlerInv, TypeOK, PointInv, Block
<1>2. running' \in Accept(running, v, l, current[v], want[v])
    BY DEF Apply
<1> QED
    BY <1>1, <1>2, AcceptType DEF Apply

(* Every variable keeps its type.                                          *)
LEMMA TypeKept == HandlerInv /\ [Next]_vars => TypeOK'
<1> SUFFICES ASSUME HandlerInv, [Next]_vars PROVE TypeOK'
    OBVIOUS
<1>1. Mu!TypeOK'
    BY MuKept DEF HandlerInv, Mu!LockInv
<1>2. TypeOK
    BY DEF HandlerInv
<1> USE DEF handler
<1>3. ASSUME NEW v \in Vlan, Terraform(v) PROVE TypeOK'
    <2>1. PICK o \in Ops, b \in BOOLEAN, w \in Wanted : Start(v, o, b, w)
        BY <1>2, <1>3 DEF Terraform, Create, Update, Read, Delete, TypeOK, Ops
    <2> QED
        BY <1>1, <1>2, <2>1 DEF Start, TypeOK
<1>4. ASSUME NEW v \in Vlan, Acquire(v) PROVE TypeOK'
    BY <1>1, <1>2, <1>4 DEF Acquire, TypeOK
<1>5. ASSUME NEW v \in Vlan, OpenSwitch(v) PROVE TypeOK'
    BY <1>1, <1>2, <1>5
       DEF OpenSwitch, NewSucceeds, NewFails, OpenSucceeds, OpenFails, Fail, TypeOK, At
<1>6. ASSUME NEW v \in Vlan, Body(v) PROVE TypeOK'
    <2>1. CASE ShowFails(v)
        BY <1>1, <1>2, <2>1 DEF ShowFails, Finish, TypeOK, At
    <2>2. CASE ReadVLANs(v)
        BY <1>1, <1>2, <2>2 DEF ReadVLANs, Finish, Goto, TypeOK, At, Running
    <2>3. CASE Build(v)
        <3>1. BuildVLANConfig(current[v], want[v]) \subseteq Line
            BY <1>2, BlockLines, WantedAssumption DEF TypeOK, Block
        <3> QED
            BY <1>1, <1>2, <2>3, <3>1 DEF Build, Finish, Goto, TypeOK, At
    <2>4. CASE EnterConfig(v) \/ EnterConfigFails(v)
        BY <1>1, <1>2, <2>4 DEF EnterConfig, EnterConfigFails, Finish, Goto, TypeOK, At
    <2>5. CASE SendLine(v)
        <3>1. PICK l \in todo[v] :
                /\ Apply(v, l)
                /\ todo' = [todo EXCEPT ![v] = @ \ {l}]
                /\ IF todo[v] = {l} THEN Finish(v, "ok")
                   ELSE Goto(v, "send") /\ UNCHANGED result
            BY <2>5 DEF SendLine
        <3>2. /\ running' \in Running /\ made' \in [Vlan -> BOOLEAN]
              /\ todo' \in [Vlan -> SUBSET Line]
            BY <1>2, <3>1, ApplyType DEF TypeOK
        <3>3. at' \in [Vlan -> At] /\ result' \in [Vlan -> {"ok", "error"}]
            BY <1>2, <3>1 DEF Finish, Goto, TypeOK, At
        <3> QED
            BY <1>1, <1>2, <2>5, <3>2, <3>3 DEF SendLine, TypeOK
    <2>6. CASE SendLineFails(v)
        <3>1. running' \in Running /\ made' \in [Vlan -> BOOLEAN]
            BY <1>2, <2>6, ApplyType DEF SendLineFails, TypeOK
        <3> QED
            BY <1>1, <1>2, <2>6, <3>1 DEF SendLineFails, Finish, TypeOK, At
    <2>7. CASE RemovePlainly(v) \/ RemoveConfirmed(v) \/ RemoveFails(v)
        <3>1. running' \in Running /\ made' \in [Vlan -> BOOLEAN]
            BY <1>2, <2>7 DEF RemovePlainly, RemoveConfirmed, RemoveFails, Removed,
                              Forget, TypeOK, Running
        <3> QED
            BY <1>1, <1>2, <2>7, <3>1
               DEF RemovePlainly, RemoveConfirmed, RemoveFails, Finish, Goto, TypeOK, At
    <2>8. CASE RemoveHangs(v) \/ RemoveTimesOut(v) \/ Verify(v)
        BY <1>1, <1>2, <2>8 DEF RemoveHangs, RemoveTimesOut, Verify, Finish, Goto, TypeOK, At
    <2> QED
        BY <1>6, <2>1, <2>2, <2>3, <2>4, <2>5, <2>6, <2>7, <2>8 DEF Body
<1>7. ASSUME NEW v \in Vlan, CloseSwitch(v) PROVE TypeOK'
    BY <1>1, <1>2, <1>7 DEF CloseSwitch, Close, Return, StateAfter, TypeOK, Ops
<1>8. ASSUME NEW v \in Vlan, NEW c \in Edited, Edit(v, c) PROVE TypeOK'
    <2>1. running' \in Running
        BY <1>2, <1>8, WantedAssumption DEF Edit, TypeOK, Running, Config
    <2> QED
        BY <1>1, <1>2, <1>8, <2>1 DEF Edit, TypeOK
<1>9. CASE UNCHANGED vars
    BY <1>1, <1>2, <1>9 DEF vars, TypeOK
<1> QED
    BY <1>3, <1>4, <1>5, <1>6, <1>7, <1>8, <1>9 DEF Next

(* Program points, handlers and what they hold stay in agreement.          *)
LEMMA PointKept ==
    ASSUME HandlerInv, [Next]_vars, NEW u \in Vlan
    PROVE  PointInv(u)'
<1>1. TypeOK /\ Mu!TypeOK /\ PointInv(u)
    BY DEF HandlerInv, TypeOK
<1> USE <1>1 DEF handler, Mu!TypeOK, TypeOK, PointInv, Answered, Writes, Mu!Step
<1>2. ASSUME NEW v \in Vlan, Terraform(v) PROVE PointInv(u)'
    <2>1. ASSUME NEW o \in Ops \ {"none"}, NEW w \in Wanted, Start(v, o, TRUE, w),
                 o \in {"update", "delete"} => state[v] # "absent"
          PROVE  PointInv(u)'
        BY <2>1 DEF Start, Mu!Enter, Ops
    <2>2. CASE Create(v)
        BY <2>1, <2>2 DEF Create, Ops
    <2>3. CASE Update(v)
        BY <2>1, <2>3 DEF Update, Ops
    <2>4. CASE Read(v)
        BY <2>1, <2>4 DEF Read, Ops
    <2>5. CASE Delete(v)
        BY <2>1, <2>5 DEF Delete, Ops
    <2> QED
        BY <1>2, <2>2, <2>3, <2>4, <2>5 DEF Terraform
<1>3. ASSUME NEW v \in Vlan, Acquire(v) PROVE PointInv(u)'
    BY <1>3 DEF Acquire, Mu!Acquire
<1>4. ASSUME NEW v \in Vlan, OpenSwitch(v) PROVE PointInv(u)'
    <2>1. CASE NewSucceeds(v)
        BY <2>1 DEF NewSucceeds, Mu!NewSucceeds
    <2>2. CASE NewFails(v)
        BY <2>2 DEF NewFails, Mu!NewFails, Fail
    <2>3. CASE OpenSucceeds(v)
        BY <2>3 DEF OpenSucceeds, Mu!OpenSucceeds, Ops
    <2>4. CASE OpenFails(v)
        BY <2>4 DEF OpenFails, Mu!OpenFails, Fail
    <2> QED
        BY <1>4, <2>1, <2>2, <2>3, <2>4 DEF OpenSwitch
<1>5. ASSUME NEW v \in Vlan, Body(v) PROVE PointInv(u)'
    <2> USE DEF Finish, Goto, muVars, InBody, Mu!BodyReturns
    <2>1. CASE ShowFails(v) \/ RemoveTimesOut(v) \/ Verify(v)
        BY <2>1 DEF ShowFails, RemoveTimesOut, Verify
    <2>2. CASE ReadVLANs(v)
        BY <2>2 DEF ReadVLANs
    <2>3. CASE Build(v)
        BY <2>3 DEF Build
    <2>4. CASE EnterConfig(v) \/ EnterConfigFails(v)
        BY <2>4 DEF EnterConfig, EnterConfigFails
    <2>5. CASE SendLine(v)
        BY <2>5 DEF SendLine
    <2>6. CASE SendLineFails(v)
        BY <2>6 DEF SendLineFails
    <2>7. CASE RemovePlainly(v) \/ RemoveConfirmed(v) \/ RemoveFails(v) \/ RemoveHangs(v)
        BY <2>7 DEF RemovePlainly, RemoveConfirmed, RemoveFails, RemoveHangs
    <2> QED
        BY <1>5, <2>1, <2>2, <2>3, <2>4, <2>5, <2>6, <2>7 DEF Body
<1>6. ASSUME NEW v \in Vlan, CloseSwitch(v) PROVE PointInv(u)'
    BY <1>6 DEF CloseSwitch, Close, Return, Mu!Close, Mu!Unlock
<1>7. ASSUME NEW v \in Vlan, NEW c \in Edited, Edit(v, c) PROVE PointInv(u)'
    BY <1>7 DEF Edit, muVars
<1>8. CASE UNCHANGED vars
    BY <1>8 DEF vars, muVars
<1> QED
    BY <1>2, <1>3, <1>4, <1>5, <1>6, <1>7, <1>8 DEF Next

(* A handler whose own variables and block stay as they are keeps its      *)
(* knowledge of the block, and so does one that is not at work.            *)
LEMMA KnowsFrame ==
    ASSUME HandlerInv, NEW u \in Vlan, KnowsBlock(u),
           UNCHANGED <<pc[u], op[u], at[u], want[u], current[u], todo[u], result[u], id[u]>>,
           stale[u] => stale'[u],
           \/ UNCHANGED running[u]
           \/ stale'[u]
           \/ pc[u] \notin Mu!Critical
    PROVE  KnowsBlock(u)'
<1> USE DEF Answered
<1>1. PointInv(u)
    BY DEF HandlerInv
<1>2. CASE stale'[u]
    BY <1>2 DEF KnowsBlock
<1>3. CASE ~stale'[u] /\ UNCHANGED running[u]
    BY <1>3 DEF KnowsBlock, Writes
<1>4. CASE pc[u] \notin Mu!Critical
    <2>1. at'[u] = "none" /\ pc'[u] \notin {"close", "unlock"} /\ todo'[u] = {}
        <3>1. pc[u] \in {"idle", "lock"}
            BY <1>4 DEF HandlerInv, TypeOK, Mu!TypeOK, Mu!PC, Mu!Critical
        <3> QED
            BY <1>1, <3>1 DEF PointInv
    <2> QED
        BY <2>1 DEF KnowsBlock
<1> QED
    BY <1>2, <1>3, <1>4

(* A handler keeps its knowledge of the block while another is at work.    *)
LEMMA KnowsOthers ==
    ASSUME HandlerInv, NEW v \in Vlan, Body(v), NEW u \in Vlan \ {v}
    PROVE  KnowsBlock(u)'
<1>1. TypeOK /\ Mu!TypeOK /\ KnowsBlock(u)
    BY DEF HandlerInv, TypeOK
<1>2. pc[v] = "body"
    BY DEF Body, ShowFails, ReadVLANs, Build, EnterConfig, EnterConfigFails, SendLine,
           SendLineFails, RemovePlainly, RemoveHangs, RemoveTimesOut, RemoveConfirmed,
           RemoveFails, Verify, InBody, Finish, Mu!BodyReturns, Mu!Step
<1>3. pc[u] \notin Mu!Critical
    BY <1>2, Alone DEF Mu!Critical
<1>4. /\ UNCHANGED <<pc[u], op[u], at[u], want[u], current[u], todo[u], result[u], id[u]>>
      /\ UNCHANGED stale[u]
    BY <1>1 DEF Body, ShowFails, ReadVLANs, Build, EnterConfig, EnterConfigFails, SendLine,
           SendLineFails, RemovePlainly, RemoveHangs, RemoveTimesOut, RemoveConfirmed,
           RemoveFails, Verify, Finish, Goto, muVars, Mu!BodyReturns, Mu!Step,
           TypeOK, Mu!TypeOK
<1> QED
    BY <1>1, <1>3, <1>4, KnowsFrame

(* The handler at work keeps its knowledge of the block: read, build, and  *)
(* line by line to the block that was asked for, or to no block.           *)
LEMMA KnowsOwn ==
    ASSUME HandlerInv, NEW v \in Vlan, Body(v)
    PROVE  KnowsBlock(v)'
<1>1. TypeOK /\ Mu!TypeOK /\ KnowsBlock(v) /\ PointInv(v)
    BY DEF HandlerInv, TypeOK
<1> USE <1>1 DEF Answered, TypeOK, Mu!TypeOK, Finish, Goto, muVars, InBody, Mu!BodyReturns,
                 Mu!Step
<1>2. CASE ShowFails(v) \/ EnterConfigFails(v) \/ RemoveTimesOut(v) \/ RemoveFails(v)
    BY <1>2 DEF ShowFails, EnterConfigFails, RemoveTimesOut, RemoveFails,
                KnowsBlock, PointInv, Writes
<1>3. CASE ReadVLANs(v)
    <2>1. UNCHANGED <<running, op>> /\ current'[v] = running[v]
        BY <1>3 DEF ReadVLANs
    <2>2. CASE op[v] = "update"
        BY <1>3, <2>1, <2>2 DEF ReadVLANs, KnowsBlock, PointInv
    <2>3. CASE op[v] = "delete"
        BY <1>3, <2>1, <2>3 DEF ReadVLANs, KnowsBlock, Writes, PointInv
    <2>4. CASE op[v] = "read"
        BY <1>3, <2>1, <2>4 DEF ReadVLANs, KnowsBlock, Writes, PointInv
    <2> QED
        BY <1>3, <2>2, <2>3, <2>4 DEF ReadVLANs
<1>4. CASE Build(v)
    <2>1. current[v] \in Block /\ want[v] \in Desired
        BY WantedAssumption DEF Block
    <2>2. stale[v] \/ running[v] = current[v]
        BY <1>4 DEF Build, KnowsBlock
    <2>3. Writes(v)
        BY <1>4 DEF Build, PointInv, Writes
    <2>4. CASE BuildVLANConfig(current[v], want[v]) = {}
        <3>1. Matches(current[v], want[v])
            BY <2>1, <2>4, NothingToBuild
        <3> QED
            BY <1>4, <2>2, <2>3, <2>4, <3>1 DEF Build, KnowsBlock, Writes, PointInv
    <2>5. CASE BuildVLANConfig(current[v], want[v]) # {}
        BY <1>4, <2>1, <2>2, <2>5, StartsBetween DEF Build, KnowsBlock
    <2> QED
        BY <2>4, <2>5
<1>5. CASE EnterConfig(v)
    <2>1. current[v] \in Block /\ want[v] \in Desired
        BY WantedAssumption DEF Block
    <2>2. CASE op[v] = "delete"
        BY <1>5, <2>2 DEF EnterConfig, KnowsBlock, Writes
    <2>3. CASE op[v] # "delete"
        <3>1. stale[v] \/ Partway(running[v], current[v], want[v], todo[v])
            BY <1>5, <2>1, <2>3, BuildStarts DEF EnterConfig, KnowsBlock, Writes, PointInv
        <3> QED
            BY <1>5, <2>3, <3>1 DEF EnterConfig, KnowsBlock
    <2> QED
        BY <2>2, <2>3
<1>6. CASE SendLine(v)
    <2>1. current[v] \in Block /\ want[v] \in Desired /\ Writes(v)
        BY <1>6, WantedAssumption DEF Block, SendLine, PointInv, Writes
    <2>2. PICK l \in todo[v] :
            /\ IsNext(l, todo[v])
            /\ running' \in Accept(running, v, l, current[v], want[v])
            /\ todo' = [todo EXCEPT ![v] = @ \ {l}]
            /\ IF todo[v] = {l} THEN Finish(v, "ok")
               ELSE Goto(v, "send") /\ UNCHANGED result
        BY <1>6 DEF SendLine, Apply
    <2>3. stale[v] \/ Partway(running[v], current[v], want[v], todo[v])
        BY <1>6 DEF SendLine, KnowsBlock
    <2>4. \/ stale[v]
          \/ /\ todo[v] = {l} => Matches(running'[v], want[v])
             /\ todo[v] # {l} => Partway(running'[v], current[v], want[v], todo[v] \ {l})
             /\ todo[v] # {l} => Between(running'[v], current[v], want[v])
        <3>1. running \in Running
            OBVIOUS
        <3> HIDE <1>1 DEF TypeOK, Mu!TypeOK, Finish, Goto
        <3>2. CASE ~stale[v]
            <4>1. Partway(running[v], current[v], want[v], todo[v])
                BY <2>3, <3>2
            <4> QED
                BY <2>1, <2>2, <3>1, <4>1, LineByLine, PartwayIsBetween
        <3> QED
            BY <3>2
    <2>5. CASE todo[v] = {l}
        BY <1>6, <2>1, <2>2, <2>4, <2>5 DEF SendLine, KnowsBlock, Writes, PointInv
    <2>6. CASE todo[v] # {l}
        BY <1>6, <2>2, <2>4, <2>6 DEF SendLine, KnowsBlock
    <2> QED
        BY <2>5, <2>6
<1>7. CASE RemovePlainly(v) \/ RemoveConfirmed(v)
    BY <1>7 DEF RemovePlainly, RemoveConfirmed, KnowsBlock, PointInv, Writes
<1>8. CASE RemoveHangs(v)
    BY <1>8 DEF RemoveHangs, KnowsBlock, NeedsVLANDeleteConfirm, Prompts
<1>9. CASE Verify(v)
    BY <1>9 DEF Verify, KnowsBlock, Writes, PointInv
<1>10. CASE SendLineFails(v)
    <2>1. current[v] \in Block /\ want[v] \in Desired
        BY <1>10, WantedAssumption DEF Block
    <2>2. stale[v] \/ Partway(running[v], current[v], want[v], todo[v])
        BY <1>10 DEF SendLineFails, KnowsBlock
    <2>3. stale[v] \/ Between(running'[v], current[v], want[v])
        <3>1. CASE UNCHANGED running
            BY <2>1, <2>2, <3>1, PartwayIsBetween
        <3>2. CASE ~stale[v] /\ running' # running
            <4>1. PICK l \in todo[v] :
                    /\ IsNext(l, todo[v])
                    /\ running' \in Accept(running, v, l, current[v], want[v])
                BY <1>10, <3>2 DEF SendLineFails, Apply
            <4>2. running \in Running
                OBVIOUS
            <4> HIDE <1>1 DEF TypeOK, Mu!TypeOK, Finish, Goto
            <4>3. \/ Matches(running'[v], want[v])
                  \/ Partway(running'[v], current[v], want[v], todo[v] \ {l})
                BY <2>1, <2>2, <3>2, <4>1, <4>2, LineByLine
            <4> QED
                BY <2>1, <4>3, PartwayIsBetween, MatchesIsBetween
        <3> QED
            BY <3>1, <3>2
    <2> QED
        BY <1>10, <2>3 DEF SendLineFails, KnowsBlock
<1> QED
    BY <1>2, <1>3, <1>4, <1>5, <1>6, <1>7, <1>8, <1>9, <1>10 DEF Body

(* Every handler keeps its knowledge of its block, whoever makes a step.   *)
LEMMA KnowsKept ==
    ASSUME HandlerInv, [Next]_vars, NEW u \in Vlan
    PROVE  KnowsBlock(u)'
<1>1. TypeOK /\ Mu!TypeOK /\ KnowsBlock(u) /\ PointInv(u)
    BY DEF HandlerInv, TypeOK
<1> USE <1>1 DEF Answered, TypeOK, Mu!TypeOK, handler, Mu!Step
<1>2. ASSUME NEW v \in Vlan, Terraform(v) PROVE KnowsBlock(u)'
    <2>1. PICK o \in Ops, b \in BOOLEAN, w \in Wanted : Start(v, o, b, w)
        BY <1>2 DEF Terraform, Create, Update, Read, Delete, Ops
    <2>2. CASE u = v
        BY <2>1, <2>2 DEF Start, Mu!Enter, KnowsBlock, PointInv
    <2>3. CASE u # v
        BY <2>1, <2>3, KnowsFrame DEF Start, Mu!Enter
    <2> QED
        BY <2>2, <2>3
<1>3. ASSUME NEW v \in Vlan, Acquire(v) PROVE KnowsBlock(u)'
    BY <1>3 DEF Acquire, Mu!Acquire, KnowsBlock, PointInv, Writes
<1>4. ASSUME NEW v \in Vlan, OpenSwitch(v) PROVE KnowsBlock(u)'
    <2>1. CASE NewSucceeds(v)
        BY <2>1 DEF NewSucceeds, Mu!NewSucceeds, KnowsBlock, Writes
    <2>2. CASE NewFails(v)
        BY <2>2 DEF NewFails, Mu!NewFails, Fail, KnowsBlock, Writes
    <2>3. CASE OpenSucceeds(v)
        <3>1. CASE u = v
            BY <2>3, <3>1 DEF OpenSucceeds, Mu!OpenSucceeds, KnowsBlock, PointInv, Writes
        <3>2. CASE u # v
            BY <2>3, <3>2, KnowsFrame DEF OpenSucceeds, Mu!OpenSucceeds
        <3> QED
            BY <3>1, <3>2
    <2>4. CASE OpenFails(v)
        BY <2>4 DEF OpenFails, Mu!OpenFails, Fail, KnowsBlock, Writes, PointInv
    <2> QED
        BY <1>4, <2>1, <2>2, <2>3, <2>4 DEF OpenSwitch
<1>5. ASSUME NEW v \in Vlan, Body(v) PROVE KnowsBlock(u)'
    BY <1>5, KnowsOwn, KnowsOthers
<1>6. ASSUME NEW v \in Vlan, CloseSwitch(v) PROVE KnowsBlock(u)'
    <2>1. CASE Close(v)
        BY <2>1 DEF Close, Mu!Close, KnowsBlock, Writes
    <2>2. CASE Return(v)
        <3>1. CASE u = v
            BY <2>2, <3>1 DEF Return, Mu!Unlock, KnowsBlock, PointInv
        <3>2. CASE u # v
            BY <2>2, <3>2, KnowsFrame DEF Return, Mu!Unlock
        <3> QED
            BY <3>1, <3>2
    <2> QED
        BY <1>6, <2>1, <2>2 DEF CloseSwitch
<1>7. ASSUME NEW v \in Vlan, NEW c \in Edited, Edit(v, c) PROVE KnowsBlock(u)'
    BY <1>7, KnowsFrame DEF Edit, muVars
<1>8. CASE UNCHANGED vars
    BY <1>8, KnowsFrame DEF vars, muVars
<1> QED
    BY <1>2, <1>3, <1>4, <1>5, <1>6, <1>7, <1>8 DEF Next

(* The provider never loses track of a block it made.                      *)
LEMMA RemembersKept ==
    ASSUME HandlerInv, [Next]_vars, NEW u \in Vlan
    PROVE  Remembers(u)'
<1>1. TypeOK /\ Mu!TypeOK /\ Remembers(u) /\ PointInv(u)
    BY DEF HandlerInv, TypeOK
<1> USE <1>1 DEF TypeOK, Mu!TypeOK, handler, Mu!Step, Remembers
<1>2. ASSUME NEW v \in Vlan, Terraform(v) PROVE Remembers(u)'
    BY <1>2 DEF Terraform, Create, Update, Read, Delete, Start, Mu!Enter
<1>3. ASSUME NEW v \in Vlan, Acquire(v) PROVE Remembers(u)'
    BY <1>3 DEF Acquire, Mu!Acquire
<1>4. ASSUME NEW v \in Vlan, OpenSwitch(v) PROVE Remembers(u)'
    BY <1>4 DEF OpenSwitch, NewSucceeds, NewFails, OpenSucceeds, OpenFails, Fail,
           Mu!NewSucceeds, Mu!NewFails, Mu!OpenSucceeds, Mu!OpenFails
<1>5. ASSUME NEW v \in Vlan, Body(v) PROVE Remembers(u)'
    <2> USE DEF Finish, Goto, muVars, InBody, Mu!BodyReturns
    <2>1. CASE ShowFails(v) \/ RemoveTimesOut(v) \/ RemoveHangs(v)
        BY <2>1 DEF ShowFails, RemoveTimesOut, RemoveHangs
    <2>2. CASE ReadVLANs(v)
        BY <2>2 DEF ReadVLANs
    <2>3. CASE Build(v)
        BY <2>3 DEF Build, PointInv
    <2>4. CASE EnterConfig(v) \/ EnterConfigFails(v)
        BY <2>4 DEF EnterConfig, EnterConfigFails
    <2>5. CASE SendLine(v)
        <3>1. PICK l \in todo[v] : Apply(v, l)
            BY <2>5 DEF SendLine
        <3> QED
            BY <2>5, <3>1, ApplyType DEF SendLine, PointInv
    <2>6. CASE SendLineFails(v)
        <3>1. CASE UNCHANGED <<running, made>>
            BY <2>6, <3>1 DEF SendLineFails, PointInv
        <3>2. CASE \E l \in todo[v] : Apply(v, l)
            BY <2>6, <3>2, ApplyType DEF SendLineFails, PointInv
        <3> QED
            BY <2>6, <3>1, <3>2 DEF SendLineFails
    <2>7. CASE RemovePlainly(v) \/ RemoveConfirmed(v) \/ RemoveFails(v)
        <3>1. \/ UNCHANGED <<running, made>>
              \/ /\ running' = [running EXCEPT ![v] = NoBlock]
                 /\ made' = [made EXCEPT ![v] = FALSE]
            BY <2>7 DEF RemovePlainly, RemoveConfirmed, RemoveFails, Removed, Forget
        <3>2. UNCHANGED <<op, id, state>>
            BY <2>7 DEF RemovePlainly, RemoveConfirmed, RemoveFails
        <3>3. /\ pc[v] = "body"
              /\ \/ pc' = pc /\ UNCHANGED result
                 \/ /\ pc' = [pc EXCEPT ![v] = "close"]
                    /\ result' = [result EXCEPT ![v] = "error"]
            BY <2>7 DEF RemovePlainly, RemoveConfirmed, RemoveFails
        <3>4. CASE u = v
            BY <3>1, <3>2, <3>3, <3>4 DEF Running
        <3>5. CASE u # v
            BY <3>1, <3>2, <3>3, <3>5 DEF Running
        <3> QED
            BY <3>4, <3>5
    <2>8. CASE Verify(v)
        BY <2>8 DEF Verify
    <2> QED
        BY <1>5, <2>1, <2>2, <2>3, <2>4, <2>5, <2>6, <2>7, <2>8 DEF Body
<1>6. ASSUME NEW v \in Vlan, CloseSwitch(v) PROVE Remembers(u)'
    BY <1>6 DEF CloseSwitch, Close, Return, StateAfter, Mu!Close, Mu!Unlock
<1>7. ASSUME NEW v \in Vlan, NEW c \in Edited, Edit(v, c) PROVE Remembers(u)'
    <2>1. running'[u] = NoBlock => running[u] = NoBlock \/ (u = v /\ c = NoBlock)
        BY <1>7, BlockAssumption DEF Edit, Running, Config
    <2> QED
        BY <1>7, <2>1 DEF Edit, muVars
<1>8. CASE UNCHANGED vars
    BY <1>8 DEF vars, muVars
<1> QED
    BY <1>2, <1>3, <1>4, <1>5, <1>6, <1>7, <1>8 DEF Next

(* In the initial state no handler runs and the provider made nothing.     *)
LEMMA InitHandlerInv == Init => HandlerInv
<1> SUFFICES ASSUME Init PROVE HandlerInv
    OBVIOUS
<1>1. Mu!LockInv
    BY NoOpAssumption DEF Init, Mu!Init, Mu!LockInv, Mu!TypeOK, Mu!LockDiscipline,
       Mu!SessionDiscipline, Mu!PC, Mu!Critical
<1>2. TypeOK
    BY <1>1, WantedAssumption DEF Init, TypeOK, Ops, At, Mu!LockInv
<1>3. ASSUME NEW v \in Vlan PROVE PointInv(v) /\ KnowsBlock(v) /\ Remembers(v)
    BY DEF Init, Mu!Init, PointInv, KnowsBlock, Remembers, Writes, Answered
<1> QED
    BY <1>1, <1>2, <1>3 DEF HandlerInv

(* HandlerInv is inductive.                                                *)
LEMMA NextHandlerInv == HandlerInv /\ [Next]_vars => HandlerInv'
<1> SUFFICES ASSUME HandlerInv, [Next]_vars PROVE HandlerInv'
    OBVIOUS
<1>1. TypeOK' /\ Mu!LockInv'
    BY TypeKept, MuKept DEF HandlerInv
<1>2. ASSUME NEW v \in Vlan PROVE PointInv(v)' /\ KnowsBlock(v)' /\ Remembers(v)'
    BY PointKept, KnowsKept, RemembersKept
<1> QED
    BY <1>1, <1>2 DEF HandlerInv

(* At every point of every handler, the block on the switch is the one it  *)
(* read with the lines sent so far applied, unless an edit intervened.     *)
THEOREM HandlerInvariant == Spec => []HandlerInv
BY InitHandlerInv, NextHandlerInv, PTL DEF Spec, Safety

(* What the handlers know of their blocks is what the properties ask.      *)
LEMMA HandlerInvImplies ==
    HandlerInv => WriteReachesDesired /\ DeleteRemoves /\ HangsOnlyWhenStale
BY DEF HandlerInv, KnowsBlock, WriteReachesDesired, DeleteRemoves, HangsOnlyWhenStale,
       Returning, Answered, Writes

(* A write that reports success has reached what was asked, whatever the   *)
(* other handlers did and whatever block it started from.                  *)
THEOREM WritesReach == Spec => []WriteReachesDesired
BY HandlerInvariant, HandlerInvImplies, PTL

(* A delete that reports success has removed the block.                    *)
THEOREM DeletesRemove == Spec => []DeleteRemoves
BY HandlerInvariant, HandlerInvImplies, PTL

(* Only a block edited between read and delete meets an unanswered prompt. *)
THEOREM OnlyEditsHang == Spec => []HangsOnlyWhenStale
BY HandlerInvariant, HandlerInvImplies, PTL

(* No VLAN the provider made is missing from the Terraform state.          *)
THEOREM NothingForgotten == Spec => []NeverForgotten
<1>1. HandlerInv => NeverForgotten
    BY DEF HandlerInv, Remembers, NeverForgotten
<1> QED
    BY <1>1, HandlerInvariant, PTL

(* An apply that succeeded leaves nothing for the next one to send.        *)
THEOREM AppliesSettle == Spec => []ApplySettles
<1>1. HandlerInv => ApplySettles
    <2> SUFFICES ASSUME HandlerInv, NEW v \in Vlan, Answered(v), Writes(v), ~stale[v]
                 PROVE  BuildVLANConfig(running[v], want[v]) = {}
        BY DEF ApplySettles
    <2>1. Matches(running[v], want[v])
        BY DEF HandlerInv, KnowsBlock
    <2>2. running[v] \in Block /\ want[v] \in Desired
        BY WantedAssumption DEF HandlerInv, TypeOK, Running, Block
    <2> QED
        BY <2>1, <2>2, MatchesIsSettled
<1> QED
    BY <1>1, HandlerInvariant, PTL

(* Where nobody edits, no handler but a create is wrong about its block.   *)
OnlyCreatesStale == Edited = {} => \A v \in Vlan : stale[v] => op[v] = "create"

(* It is kept: a read clears the mark, and only a create or an edit sets   *)
(* it.                                                                     *)
LEMMA OnlyCreatesStaleKept ==
    HandlerInv /\ OnlyCreatesStale /\ [Next]_vars => OnlyCreatesStale'
<1> SUFFICES ASSUME HandlerInv, OnlyCreatesStale, [Next]_vars, Edited = {},
                    NEW u \in Vlan, stale'[u]
             PROVE  op'[u] = "create"
    BY DEF OnlyCreatesStale
<1>1. /\ stale[u] => op[u] = "create"
      /\ op \in [Vlan -> Ops] /\ stale \in [Vlan -> BOOLEAN] /\ pc \in [Vlan -> Mu!PC]
      /\ op[u] = "none" <=> pc[u] = "idle"
    BY DEF OnlyCreatesStale, HandlerInv, TypeOK, Mu!TypeOK, PointInv
<1> USE <1>1 DEF handler
<1>2. ASSUME NEW v \in Vlan, Terraform(v) PROVE op'[u] = "create"
    <2>1. PICK o, b, w : Start(v, o, b, w)
        BY <1>2 DEF Terraform, Create, Update, Read, Delete
    <2>2. u # v
        BY <2>1 DEF Start, Mu!Enter, Mu!Step
    <2> QED
        BY <2>1, <2>2 DEF Start
<1>3. ASSUME NEW v \in Vlan, Acquire(v) \/ OpenSwitch(v) PROVE op'[u] = "create"
    BY <1>3 DEF Acquire, OpenSwitch, NewSucceeds, NewFails, OpenSucceeds, OpenFails
<1>4. ASSUME NEW v \in Vlan, Body(v) PROVE op'[u] = "create"
    BY <1>4 DEF Body, ShowFails, ReadVLANs, Build, EnterConfig, EnterConfigFails,
        SendLine, SendLineFails, RemovePlainly, RemoveHangs, RemoveTimesOut,
        RemoveConfirmed, RemoveFails, Verify
<1>5. ASSUME NEW v \in Vlan, CloseSwitch(v) PROVE op'[u] = "create"
    BY <1>5 DEF CloseSwitch, Close, Return
<1>6. CASE UNCHANGED vars
    BY <1>6 DEF vars
<1> QED
    BY <1>2, <1>3, <1>4, <1>5, <1>6 DEF Next

(* Where nobody edits, updates and deletes are exact and never hang: the   *)
(* exception the other theorems make for a block that changed behind the   *)
(* handler's back is then one for creates alone, which do not read.        *)
THEOREM UndisturbedsAreExact == Spec => []UndisturbedIsExact
<1>1. Init => OnlyCreatesStale
    BY DEF Init, OnlyCreatesStale
<1>2. HandlerInv /\ OnlyCreatesStale => UndisturbedIsExact
    <2> SUFFICES ASSUME HandlerInv, OnlyCreatesStale, Edited = {}, NEW v \in Vlan
                 PROVE  /\ Answered(v) /\ op[v] = "update"
                             => BuildVLANConfig(running[v], want[v]) = {}
                        /\ Answered(v) /\ op[v] = "delete" => running[v] = NoBlock
                        /\ at[v] # "hung"
        BY DEF UndisturbedIsExact
    <2>1. /\ KnowsBlock(v) /\ PointInv(v)
          /\ stale[v] => op[v] = "create"
          /\ running[v] \in Block /\ want[v] \in Desired
        BY WantedAssumption DEF HandlerInv, TypeOK, Running, Block, OnlyCreatesStale
    <2>2. ASSUME Answered(v), op[v] = "update"
          PROVE  BuildVLANConfig(running[v], want[v]) = {}
        <3>1. Matches(running[v], want[v])
            BY <2>1, <2>2 DEF KnowsBlock, Writes
        <3> QED
            BY <2>1, <3>1, MatchesIsSettled
    <2>3. Answered(v) /\ op[v] = "delete" => running[v] = NoBlock
        BY <2>1 DEF KnowsBlock
    <2>4. at[v] # "hung"
        BY <2>1 DEF KnowsBlock, PointInv
    <2> QED
        BY <2>2, <2>3, <2>4
<1> QED
    BY <1>1, <1>2, OnlyCreatesStaleKept, HandlerInvariant, PTL DEF Spec, Safety

(* However far SendConfig got, no member that stays was taken out and none *)
(* was put in that is not asked for.                                       *)
THEOREM HalfwaysAreBetween == Spec => []HalfwayIsBetween
<1>1. HandlerInv => HalfwayIsBetween
    BY DEF HandlerInv, KnowsBlock, HalfwayIsBetween
<1> QED
    BY <1>1, HandlerInvariant, PTL

(* An instance that leaves the state has no block on the switch.           *)
THEOREM OnlyGoneDropped == Spec => DropsOnlyGone
<1>1. ASSUME HandlerInv, Next, NEW v \in Vlan, state[v] # "absent", state'[v] = "absent"
      PROVE  stale[v] \/ running[v] = NoBlock
    <2>1. Return(v)
        <3>1. TypeOK
            BY <1>1 DEF HandlerInv
        <3>2. \A u \in Vlan : CloseSwitch(u) => (Return(u) \/ UNCHANGED state)
            BY DEF CloseSwitch, Close
        <3>3. \A u \in Vlan : Terraform(u) \/ Acquire(u) \/ OpenSwitch(u) \/ Body(u)
                                => UNCHANGED state
            BY DEF Terraform, Create, Update, Read, Delete, Start, Acquire, OpenSwitch,
                   NewSucceeds, NewFails, OpenSucceeds, OpenFails, Body, ShowFails,
                   ReadVLANs, Build, EnterConfig, EnterConfigFails, SendLine, SendLineFails,
                   RemovePlainly, RemoveHangs, RemoveTimesOut, RemoveConfirmed,
                   RemoveFails, Verify
        <3>4. PICK u \in Vlan : Return(u)
            BY <1>1, <3>2, <3>3 DEF Next, Edit
        <3>5. u = v
            BY <1>1, <3>1, <3>4 DEF Return, TypeOK
        <3> QED
            BY <3>4, <3>5
    <2>2. StateAfter(v) = "absent" /\ pc[v] = "unlock"
        BY <1>1, <2>1 DEF HandlerInv, TypeOK, Return, Mu!Unlock, Mu!Step
    <2>3. PointInv(v) /\ KnowsBlock(v)
        BY <1>1 DEF HandlerInv
    <2> QED
        BY <1>1, <2>2, <2>3 DEF StateAfter, PointInv, KnowsBlock, Answered, HandlerInv, TypeOK
<1>2. HandlerInv /\ [Next]_vars =>
        [\A v \in Vlan : state[v] # "absent" /\ state'[v] = "absent"
            => stale[v] \/ running[v] = NoBlock]_vars
    BY <1>1
<1> QED
    BY <1>2, HandlerInvariant, PTL DEF Spec, Safety, DropsOnlyGone

(* A block has at most eight lines, and one less when one is sent.         *)
LEMMA LinesLeft ==
    ASSUME NEW lines \in SUBSET Line
    PROVE  /\ Cardinality(lines) \in Nat
           /\ Cardinality(lines) <= 8
           /\ \A l \in lines : Cardinality(lines \ {l}) = Cardinality(lines) - 1
<1>1. Rank \in Injection(Line, 1..8)
    <2>1. Rank \in [Line -> 1..8]
        BY DEF Rank, Line
    <2>2. IsInjective(Rank)
        BY DEF IsInjective, Rank
    <2> QED
        BY <2>1, <2>2 DEF Injection
<1>2. IsFiniteSet(1..8) /\ Cardinality(1..8) = 8
    <2>1. 1 \in Int /\ 8 \in Int /\ (IF 1 > 8 THEN 0 ELSE 8 - 1 + 1) = 8
        OBVIOUS
    <2>2. /\ IsFiniteSet(1..8)
          /\ Cardinality(1..8) = IF 1 > 8 THEN 0 ELSE 8 - 1 + 1
        BY <2>1, FS_Interval, Zenon
    <2> QED
        BY <2>1, <2>2, SMT
<1>3. IsFiniteSet(Line) /\ Cardinality(Line) <= 8
    BY <1>1, <1>2, FS_Injection
<1>4. IsFiniteSet(lines) /\ Cardinality(lines) <= Cardinality(Line)
    BY <1>3, FS_Subset
<1>5. Cardinality(lines) \in Nat /\ Cardinality(Line) \in Nat
    BY <1>3, <1>4, FS_CardinalityType
<1> QED
    BY <1>3, <1>4, <1>5, FS_RemoveElement

(* At every point there is a bound on the steps that are left.             *)
LEMMA StepsLeftType == HandlerInv => \A v \in Vlan : StepsLeft(v) \in Nat
<1> SUFFICES ASSUME HandlerInv, NEW v \in Vlan PROVE StepsLeft(v) \in Nat
    OBVIOUS
<1>1. /\ pc[v] \in Mu!PC /\ at[v] \in At /\ (pc[v] = "body" => at[v] # "none")
      /\ todo[v] \in SUBSET Line
    BY DEF HandlerInv, TypeOK, Mu!TypeOK, PointInv
<1>2. Cardinality(todo[v]) \in Nat
    BY <1>1, LinesLeft
<1> QED
    BY <1>1, <1>2 DEF StepsLeft, Ahead, Around, Mu!PC, At

(* Every step of a handler brings it nearer to its return.                 *)
LEMMA OwnStepNears ==
    ASSUME HandlerInv, NEW v \in Vlan, Own(v)
    PROVE  StepsLeft(v)' < StepsLeft(v)
<1>1. /\ pc \in [Vlan -> Mu!PC] /\ at \in [Vlan -> At] /\ todo \in [Vlan -> SUBSET Line]
      /\ Cardinality(todo[v]) \in Nat /\ PointInv(v)
      /\ \A l \in todo[v] : Cardinality(todo[v] \ {l}) = Cardinality(todo[v]) - 1
    BY LinesLeft DEF HandlerInv, TypeOK, Mu!TypeOK
<1> USE <1>1 DEF StepsLeft, Ahead, Around, handler, Mu!Step
<1>2. CASE Acquire(v)
    BY <1>2 DEF Acquire, Mu!Acquire
<1>3. CASE OpenSwitch(v)
    <2>1. CASE NewSucceeds(v)
        BY <2>1 DEF NewSucceeds, Mu!NewSucceeds
    <2>2. CASE NewFails(v) \/ OpenFails(v)
        BY <2>2 DEF NewFails, OpenFails, Mu!NewFails, Mu!OpenFails
    <2>3. CASE OpenSucceeds(v)
        BY <2>3 DEF OpenSucceeds, Mu!OpenSucceeds
    <2> QED
        BY <1>3, <2>1, <2>2, <2>3 DEF OpenSwitch
<1>4. CASE Body(v)
    <2>1. ASSUME NEW r, Finish(v, r), at[v] # "none" PROVE StepsLeft(v)' < StepsLeft(v)
        BY <2>1 DEF Finish, Mu!BodyReturns, At
    <2>2. ASSUME NEW point, NEW to, InBody(v, point), Goto(v, to),
                 UNCHANGED todo[v] \/ to # "send",
                 <<point, to>> \in {<<"show", "build">>, <<"show", "enter">>,
                    <<"enter", "remove">>, <<"remove", "verify">>, <<"remove", "hung">>}
          PROVE  StepsLeft(v)' < StepsLeft(v)
        BY <2>2 DEF InBody, Goto, muVars
    <2>3. ASSUME InBody(v, "build"), Goto(v, "enter") PROVE StepsLeft(v)' < StepsLeft(v)
        BY <2>3 DEF InBody, Goto, muVars
    <2>4. CASE ShowFails(v) \/ EnterConfigFails(v) \/ SendLineFails(v) \/ RemoveTimesOut(v)
                \/ RemoveFails(v) \/ Verify(v)
        BY <2>1, <2>4 DEF ShowFails, EnterConfigFails, SendLineFails, RemoveTimesOut,
                          RemoveFails, Verify, InBody
    <2>5. CASE ReadVLANs(v)
        BY <2>1, <2>2, <2>5 DEF ReadVLANs, InBody
    <2>6. CASE Build(v)
        BY <2>1, <2>3, <2>6 DEF Build, InBody
    <2>7. CASE EnterConfig(v)
        <3>1. Cardinality(todo[v]) <= 8
            BY LinesLeft
        <3>2. CASE op[v] = "delete"
            BY <2>2, <2>7, <3>2 DEF EnterConfig
        <3>3. CASE op[v] # "delete"
            BY <2>7, <3>1, <3>3 DEF EnterConfig, InBody, Goto, muVars
        <3> QED
            BY <3>2, <3>3
    <2>8. CASE SendLine(v)
        <3>1. PICK l \in todo[v] :
                /\ todo' = [todo EXCEPT ![v] = @ \ {l}]
                /\ IF todo[v] = {l} THEN Finish(v, "ok")
                   ELSE Goto(v, "send") /\ UNCHANGED result
            BY <2>8 DEF SendLine
        <3>2. Cardinality(todo'[v]) = Cardinality(todo[v]) - 1
            BY <3>1
        <3>3. CASE Finish(v, "ok")
            BY <2>1, <2>8, <3>3 DEF SendLine, InBody
        <3>4. CASE Goto(v, "send")
            BY <2>8, <3>2, <3>4 DEF SendLine, InBody, Goto, muVars
        <3> QED
            BY <3>1, <3>3, <3>4
    <2>9. CASE RemovePlainly(v) \/ RemoveConfirmed(v) \/ RemoveHangs(v)
        BY <2>2, <2>9 DEF RemovePlainly, RemoveConfirmed, RemoveHangs
    <2> QED
        BY <1>4, <2>4, <2>5, <2>6, <2>7, <2>8, <2>9 DEF Body
<1>5. CASE CloseSwitch(v)
    BY <1>5 DEF CloseSwitch, Close, Return, Mu!Close, Mu!Unlock
<1> QED
    BY <1>2, <1>3, <1>4, <1>5 DEF Own

(* The steps of others leave a handler where it is.                        *)
LEMMA OthersLeaveAlone ==
    ASSUME HandlerInv, Next, NEW v \in Vlan, ~Own(v), pc[v] # "idle"
    PROVE  UNCHANGED <<pc[v], at[v], todo[v]>>
<1>1. pc \in [Vlan -> Mu!PC] /\ at \in [Vlan -> At] /\ todo \in [Vlan -> SUBSET Line]
    BY DEF HandlerInv, TypeOK, Mu!TypeOK
<1> USE <1>1 DEF handler, muVars, Mu!Step
<1>2. ASSUME NEW u \in Vlan, Terraform(u) PROVE UNCHANGED <<pc[v], at[v], todo[v]>>
    BY <1>2 DEF Terraform, Create, Update, Read, Delete, Start, Mu!Enter
<1>3. ASSUME NEW u \in Vlan \ {v}, Own(u) PROVE UNCHANGED <<pc[v], at[v], todo[v]>>
    <2>1. CASE Acquire(u) \/ OpenSwitch(u)
        BY <2>1 DEF Acquire, OpenSwitch, NewSucceeds, NewFails, OpenSucceeds, OpenFails,
                    Mu!Acquire, Mu!NewSucceeds, Mu!NewFails, Mu!OpenSucceeds, Mu!OpenFails
    <2>2. CASE Body(u)
        BY <1>3, <2>2 DEF Body, ShowFails, ReadVLANs, Build, EnterConfig, EnterConfigFails,
            SendLine, SendLineFails, RemovePlainly, RemoveHangs, RemoveTimesOut,
            RemoveConfirmed, RemoveFails, Verify, Finish, Goto, Mu!BodyReturns
    <2>3. CASE CloseSwitch(u)
        BY <1>3, <2>3 DEF CloseSwitch, Close, Return, Mu!Close, Mu!Unlock
    <2> QED
        BY <1>3, <2>1, <2>2, <2>3 DEF Own
<1>4. ASSUME NEW u \in Vlan, NEW c \in Edited, Edit(u, c)
      PROVE  UNCHANGED <<pc[v], at[v], todo[v]>>
    BY <1>4 DEF Edit
<1> QED
    BY <1>2, <1>3, <1>4 DEF Next, Own

(* Every handler returns after at most 17 steps of its own, whatever the   *)
(* configuration, the switch and the other handlers: what is left of       *)
(* "every handler returns" is that the client calls do.                    *)
THEOREM HandlersNearReturn == Spec => NearsReturn
<1>0. (HandlerInv => \A v \in Vlan : StepsLeft(v) \in Nat)'
    BY StepsLeftType, PTL
<1>1. ASSUME HandlerInv, HandlerInv', Next, NEW v \in Vlan
      PROVE  /\ Own(v) => StepsLeft(v)' < StepsLeft(v)
             /\ pc[v] # "idle" => StepsLeft(v)' <= StepsLeft(v)
    <2>1. StepsLeft(v) \in Nat /\ StepsLeft(v)' \in Nat
        BY <1>0, <1>1, StepsLeftType
    <2>2. CASE Own(v)
        BY <1>1, <2>1, <2>2, OwnStepNears
    <2>3. CASE ~Own(v)
        <3>1. pc[v] # "idle" => StepsLeft(v)' = StepsLeft(v)
            BY <1>1, <2>3, OthersLeaveAlone DEF StepsLeft
        <3> QED
            BY <2>1, <2>3, <3>1
    <2> QED
        BY <2>2, <2>3
<1>2. HandlerInv /\ HandlerInv' /\ [Next]_vars =>
        [\A v \in Vlan :
            /\ Own(v) => StepsLeft(v)' < StepsLeft(v)
            /\ pc[v] # "idle" => StepsLeft(v)' <= StepsLeft(v)]_vars
    BY <1>1
<1> QED
    BY <1>2, HandlerInvariant, PTL DEF Spec, Safety, NearsReturn

(* The handlers keep the session discipline (its safety; that they return  *)
(* is model-checked), so at most one has a session.                        *)
THEOREM SessionDisciplineKept == Spec => Mu!Safety
<1>1. Init => Mu!Init
    BY DEF Init
<1> QED
    BY <1>1, MuStep, PTL DEF Spec, Safety, Mu!Safety

(* A step of the lock protocol is a step of the promise of OneSession, as  *)
(* it is for any operations.                                               *)
LEMMA PromiseStep == Mu!LockInv /\ [Mu!Next]_(Mu!vars) => [Mu!Promise!Next]_(Mu!Promise!vars)
<1>1. Mu!LockInv <=> MuProofs!LockInv
    BY DEF Mu!LockInv, Mu!TypeOK, Mu!LockDiscipline, Mu!SessionDiscipline, Mu!PC,
           Mu!Critical, MuProofs!LockInv, MuProofs!TypeOK, MuProofs!LockDiscipline,
           MuProofs!SessionDiscipline, MuProofs!PC, MuProofs!Critical
<1>2. [Mu!Next]_(Mu!vars) <=> [MuProofs!Next]_(MuProofs!vars)
    BY DEF Mu!vars, Mu!Next, Mu!Enter, Mu!OpenSwitch, Mu!Acquire, Mu!NewSucceeds,
           Mu!NewFails, Mu!OpenSucceeds, Mu!OpenFails, Mu!BodyReturns,
           Mu!CloseSwitch, Mu!Close, Mu!Unlock, Mu!Step,
           MuProofs!vars, MuProofs!Next, MuProofs!Enter, MuProofs!OpenSwitch,
           MuProofs!Acquire, MuProofs!NewSucceeds, MuProofs!NewFails,
           MuProofs!OpenSucceeds, MuProofs!OpenFails, MuProofs!BodyReturns,
           MuProofs!CloseSwitch, MuProofs!Close, MuProofs!Unlock, MuProofs!Step
<1>3. MuProofs!LockInv /\ [MuProofs!Next]_(MuProofs!vars)
        => [MuProofs!Promise!Next]_(MuProofs!Promise!vars)
    BY MuProofs!NextRefines, NoOpAssumption DEF MuProofs!NoOpAssumption
<1>4. [MuProofs!Promise!Next]_(MuProofs!Promise!vars) => [Mu!Promise!Next]_(Mu!Promise!vars)
    BY DEF Mu!Promise!Next, Mu!Promise!vars, Mu!Promise!Request, Mu!Promise!Connect,
           Mu!Promise!GiveUp, Mu!Promise!Disconnect, Mu!Promise!Become, Mu!Phase,
           MuProofs!Promise!Next, MuProofs!Promise!vars, MuProofs!Promise!Request,
           MuProofs!Promise!Connect, MuProofs!Promise!GiveUp, MuProofs!Promise!Disconnect,
           MuProofs!Promise!Become, MuProofs!Phase
<1> QED
    BY <1>1, <1>2, <1>3, <1>4

(* At most one handler has a session with the switch at any time, and each *)
(* opens one only while nobody else has: the promise that the comment on   *)
(* switchMu makes holds of the handlers themselves.                        *)
THEOREM OneHandlerAtATime == Spec => []Mu!OneSessionAtATime /\ Mu!Promise!Safety
<1>1. Init => Mu!Promise!Init
    BY DEF Init, Mu!Init, Mu!Promise!Init, Mu!Phase
<1>2. HandlerInv => Mu!LockInv
    BY DEF HandlerInv
<1>3. Mu!LockInv => Mu!OneSessionAtATime
    BY DEF Mu!LockInv, Mu!LockDiscipline, Mu!SessionDiscipline, Mu!Critical,
           Mu!OneSessionAtATime, Mu!TypeOK
<1> QED
    BY <1>1, <1>2, <1>3, MuStep, PromiseStep, HandlerInvariant, PTL
       DEF Spec, Safety, Mu!Promise!Safety
=============================================================================
