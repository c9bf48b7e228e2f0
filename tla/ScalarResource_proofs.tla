----------------------- MODULE ScalarResource_proofs -----------------------
(***************************************************************************)
(* Proofs about the resources that are one statement of the running        *)
(* configuration, for any number of instances, values and kinds: the       *)
(* inductive invariant HandlerInv, and from it what a successful write and *)
(* a delete mean, when an instance may leave the Terraform state, and that *)
(* the handlers keep the promise of OneSession.                            *)
(***************************************************************************)
EXTENDS ScalarResource, TLAPS

MuProofs == INSTANCE SwitchMu_proofs WITH Op <- Instance

(* An instance's kind is a kind.                                           *)
LEMMA KindOfInstance == \A i \in Instance : KindOf[i] \in Kind
BY DEF Kind

(* Every step of the handlers is a step of the session discipline or       *)
(* leaves it alone.                                                        *)
LEMMA MuStep == [Next]_vars => [Mu!Next]_(Mu!vars)
<1> USE DEF Mu!vars, muVars
<1>1. ASSUME NEW i \in Instance, Terraform(i) PROVE [Mu!Next]_(Mu!vars)
    BY <1>1 DEF Terraform, Create, Update, Read, Delete, DropHostname, Start, Mu!Next
<1>2. ASSUME NEW i \in Instance, Acquire(i) \/ OpenSwitch(i) PROVE Mu!Next
    BY <1>2 DEF Acquire, OpenSwitch, Opening, OpenSucceeds, OpenFails,
                Mu!Next, Mu!OpenSwitch
<1>3. ASSUME NEW i \in Instance, Body(i) PROVE [Mu!Next]_(Mu!vars)
    <2>1. Mu!BodyReturns(i) \/ UNCHANGED muVars
        BY <1>3 DEF Body, ShowFails, ReadStatement, CheckStatement, Write, Withdraw,
                    SendFails, Verify, Finish, Goto
    <2> QED
        BY <2>1 DEF Mu!Next
<1>4. ASSUME NEW i \in Instance, CloseSwitch(i) PROVE Mu!Next
    BY <1>4 DEF CloseSwitch, Close, Return, Mu!Next, Mu!CloseSwitch
<1>5. ASSUME NEW k \in Kind, NEW x \in Value \union {None}, Edit(k, x)
      PROVE  UNCHANGED muVars
    BY <1>5 DEF Edit
<1>6. CASE UNCHANGED vars
    BY <1>6 DEF vars
<1> QED
    BY <1>1, <1>2, <1>3, <1>4, <1>5, <1>6 DEF Next

(* So the mutex, the program points and the sessions stay in agreement.    *)
LEMMA MuKept == Mu!LockInv /\ [Next]_vars => Mu!LockInv'
<1>1. Mu!LockInv <=> MuProofs!LockInv
    BY DEF Mu!LockInv, Mu!TypeOK, Mu!LockDiscipline, Mu!SessionDiscipline, Mu!PC,
           Mu!Critical, MuProofs!LockInv, MuProofs!TypeOK, MuProofs!LockDiscipline,
           MuProofs!SessionDiscipline, MuProofs!PC, MuProofs!Critical
<1>2. Mu!LockInv' <=> MuProofs!LockInv'
    BY DEF Mu!LockInv, Mu!TypeOK, Mu!LockDiscipline, Mu!SessionDiscipline, Mu!PC,
           Mu!Critical, MuProofs!LockInv, MuProofs!TypeOK, MuProofs!LockDiscipline,
           MuProofs!SessionDiscipline, MuProofs!PC, MuProofs!Critical
<1>3. [Mu!Next]_(Mu!vars) <=> [MuProofs!Next]_(MuProofs!vars)
    BY DEF Mu!vars, Mu!Next, Mu!Enter, Mu!OpenSwitch, Mu!Acquire, Mu!NewSucceeds,
           Mu!NewFails, Mu!OpenSucceeds, Mu!OpenFails, Mu!BodyReturns,
           Mu!CloseSwitch, Mu!Close, Mu!Unlock, Mu!Step,
           MuProofs!vars, MuProofs!Next, MuProofs!Enter, MuProofs!OpenSwitch,
           MuProofs!Acquire, MuProofs!NewSucceeds, MuProofs!NewFails,
           MuProofs!OpenSucceeds, MuProofs!OpenFails, MuProofs!BodyReturns,
           MuProofs!CloseSwitch, MuProofs!Close, MuProofs!Unlock, MuProofs!Step
<1>4. MuProofs!LockInv /\ [MuProofs!Next]_(MuProofs!vars) => MuProofs!LockInv'
    BY MuProofs!NextLockInv, NoOpAssumption DEF MuProofs!NoOpAssumption
<1> QED
    BY <1>1, <1>2, <1>3, <1>4, MuStep

(* A handler between Lock and Unlock is alone there.                       *)
LEMMA Alone ==
    ASSUME HandlerInv, NEW i \in Instance, pc[i] \in Mu!Critical,
           NEW j \in Instance \ {i}
    PROVE  pc[j] \notin Mu!Critical /\ at[j] = "none"
BY DEF HandlerInv, PointInv, Mu!LockInv, Mu!LockDiscipline, Mu!Critical

(* The variables that a line may change.                                   *)
TypeOKOfApply ==
    /\ statement \in [Kind -> Value \union {None}]
    /\ stale \in [Instance -> BOOLEAN]
    /\ whose \in [Kind -> {"others", "ours", "unanswered"}]

(* A line that takes effect leaves a well-formed statement.                *)
LEMMA ApplyType ==
    ASSUME TypeOK, NEW i \in Instance,
           NEW from \in {"others", "ours", "unanswered"}, Apply(i, from)
    PROVE  TypeOKOfApply'
<1>1. KindOf[i] \in Kind
    BY KindOfInstance
<1>2. Kept(KindOf[i], want[i]) \in Value \union {None}
    BY DEF Kept, TypeOK
<1> QED
    BY <1>1, <1>2 DEF Apply, TypeOK, TypeOKOfApply

(* Every variable keeps its type.                                          *)
LEMMA TypeKept == HandlerInv /\ [Next]_vars => TypeOK'
<1> SUFFICES ASSUME HandlerInv, [Next]_vars PROVE TypeOK'
    OBVIOUS
<1>1. Mu!TypeOK'
    BY MuKept DEF HandlerInv, Mu!LockInv
<1>2. TypeOK
    BY DEF HandlerInv
<1> USE DEF handler
<1>3. ASSUME NEW i \in Instance, Terraform(i) PROVE TypeOK'
    BY <1>1, <1>2, <1>3
       DEF Terraform, Create, Update, Read, Delete, DropHostname, Start, TypeOK
<1>4. ASSUME NEW i \in Instance, Acquire(i) \/ OpenSwitch(i) PROVE TypeOK'
    BY <1>1, <1>2, <1>4
       DEF Acquire, OpenSwitch, Opening, OpenSucceeds, OpenFails, TypeOK
<1>5. ASSUME NEW i \in Instance, Body(i) PROVE TypeOK'
    <2>1. CASE ShowFails(i) \/ Verify(i)
        BY <1>1, <1>2, <2>1 DEF ShowFails, Verify, Finish, Fresh, TypeOK
    <2>2. CASE ReadStatement(i) \/ CheckStatement(i)
        <3>1. Stated(i) \in Value \union {None}
            BY <1>2, KindOfInstance DEF Stated, TypeOK
        <3>2. id' \in [Instance -> Value \union {None}]
            BY <1>2, <2>2, <3>1 DEF ReadStatement, CheckStatement, SetId, TypeOK
        <3> QED
            BY <1>1, <1>2, <2>2, <3>2
               DEF ReadStatement, CheckStatement, Finish, Goto, Fresh, TypeOK
    <2>3. CASE Write(i)
        <3>1. want[i] \in Value
            BY <1>2, <2>3 DEF Write, HandlerInv, PointInv, Writes, TypeOK
        <3>2. Apply(i, "ours")
            BY <2>3 DEF Write
        <3>3. TypeOKOfApply'
            BY <1>2, <3>2, ApplyType
        <3> QED
            BY <1>1, <1>2, <2>3, <3>1, <3>3 DEF Write, SetId, Finish, TypeOK, TypeOKOfApply
    <2>4. CASE Withdraw(i)
        <3>1. TypeOKOfApply'
            BY <1>2, <2>4, ApplyType DEF Withdraw, Ignore, TypeOK, TypeOKOfApply
        <3> QED
            BY <1>1, <1>2, <2>4, <3>1 DEF Withdraw, Goto, TypeOK, TypeOKOfApply
    <2>5. CASE SendFails(i)
        <3>1. TypeOKOfApply'
            BY <1>2, <2>5, ApplyType DEF SendFails, Ignore, TypeOK, TypeOKOfApply
        <3> QED
            BY <1>1, <1>2, <2>5, <3>1 DEF SendFails, Finish, TypeOK, TypeOKOfApply
    <2> QED
        BY <1>5, <2>1, <2>2, <2>3, <2>4, <2>5 DEF Body
<1>6. ASSUME NEW i \in Instance, CloseSwitch(i) PROVE TypeOK'
    <2>1. CASE Close(i)
        BY <1>1, <1>2, <2>1 DEF Close, TypeOK
    <2>2. CASE Return(i)
        <3>1. StateAfter(i) \in Value \union {None}
            BY <1>2 DEF StateAfter, TypeOK
        <3> QED
            BY <1>1, <1>2, <2>2, <3>1 DEF Return, TypeOK
    <2> QED
        BY <1>6, <2>1, <2>2 DEF CloseSwitch
<1>7. ASSUME NEW k \in Kind, NEW x \in Value \union {None}, Edit(k, x) PROVE TypeOK'
    BY <1>1, <1>2, <1>7 DEF Edit, Kept, TypeOK
<1>8. CASE UNCHANGED vars
    BY <1>1, <1>2, <1>8 DEF vars, TypeOK
<1> QED
    BY <1>3, <1>4, <1>5, <1>6, <1>7, <1>8 DEF Next

(* Program points, handlers and ids stay in agreement.                     *)
LEMMA PointKept ==
    ASSUME HandlerInv, [Next]_vars, NEW j \in Instance
    PROVE  PointInv(j)'
<1>1. TypeOK /\ Mu!TypeOK /\ PointInv(j)
    BY DEF HandlerInv, TypeOK
<1> USE <1>1, ValueAssumption DEF handler, Mu!TypeOK, TypeOK, PointInv, Writes, Answered, Mu!Step
<1>2. ASSUME NEW i \in Instance, Terraform(i) PROVE PointInv(j)'
    <2>1. CASE Create(i) \/ Update(i)
        BY <2>1 DEF Create, Update, Start, Mu!Enter
    <2>2. CASE Read(i) \/ Delete(i)
        BY <2>2 DEF Read, Delete, Start, Mu!Enter
    <2>3. CASE DropHostname(i)
        BY <2>3 DEF DropHostname, muVars
    <2> QED
        BY <1>2, <2>1, <2>2, <2>3 DEF Terraform
<1>3. ASSUME NEW i \in Instance, Acquire(i) \/ OpenSwitch(i) PROVE PointInv(j)'
    <2>1. CASE Opening(i)
        BY <2>1 DEF Opening, Mu!Acquire, Mu!NewSucceeds
    <2>2. CASE OpenSucceeds(i)
        BY <2>2 DEF OpenSucceeds, Mu!OpenSucceeds
    <2>3. CASE OpenFails(i)
        BY <2>3 DEF OpenFails, Mu!NewFails, Mu!OpenFails
    <2> QED
        BY <1>3, <2>1, <2>2, <2>3 DEF Acquire, OpenSwitch
<1>4. ASSUME NEW i \in Instance, Body(i) PROVE PointInv(j)'
    <2> USE DEF Finish, Goto, muVars, InBody, Mu!BodyReturns
    <2>1. CASE ShowFails(i) \/ Verify(i)
        BY <2>1 DEF ShowFails, Verify
    <2>2. CASE ReadStatement(i)
        BY <2>2 DEF ReadStatement, SetId
    <2>3. CASE CheckStatement(i)
        BY <2>3 DEF CheckStatement
    <2>4. CASE Write(i)
        BY <2>4 DEF Write, SetId
    <2>5. CASE Withdraw(i) \/ SendFails(i)
        BY <2>5 DEF Withdraw, SendFails
    <2> QED
        BY <1>4, <2>1, <2>2, <2>3, <2>4, <2>5 DEF Body
<1>5. ASSUME NEW i \in Instance, CloseSwitch(i) PROVE PointInv(j)'
    <2>1. CASE Close(i)
        BY <2>1 DEF Close, Mu!Close
    <2>2. CASE Return(i)
        BY <2>2 DEF Return, StateAfter, Mu!Unlock
    <2> QED
        BY <1>5, <2>1, <2>2 DEF CloseSwitch
<1>6. ASSUME NEW k \in Kind, NEW x \in Value \union {None}, Edit(k, x) PROVE PointInv(j)'
    BY <1>6 DEF Edit, muVars
<1>7. CASE UNCHANGED vars
    BY <1>7 DEF vars, muVars
<1> QED
    BY <1>2, <1>3, <1>4, <1>5, <1>6, <1>7 DEF Next

(* A handler whose own variables and statement stay as they are keeps what *)
(* it concluded, and so does one that is not at work.                      *)
LEMMA KnowsFrame ==
    ASSUME HandlerInv, NEW j \in Instance,
           UNCHANGED <<pc[j], op[j], at[j], want[j], id[j], result[j]>>,
           stale[j] => stale'[j],
           \/ UNCHANGED statement[KindOf[j]]
           \/ stale'[j]
           \/ pc[j] \notin Mu!Critical
    PROVE  KnowsStatement(j)'
<1>1. KnowsStatement(j)
    BY DEF HandlerInv
<1>2. CASE stale'[j]
    BY <1>2 DEF KnowsStatement
<1>3. CASE ~stale'[j] /\ UNCHANGED statement[KindOf[j]]
    BY <1>1, <1>3 DEF KnowsStatement, InBody, Answered, Writes, Stated
<1>4. CASE pc[j] \notin Mu!Critical
    BY <1>4 DEF KnowsStatement, InBody, Answered, Mu!Critical
<1> QED
    BY <1>2, <1>3, <1>4

(* What the handler at work concludes of the statement is true.            *)
LEMMA KnowsOwn ==
    ASSUME HandlerInv, NEW i \in Instance, Body(i)
    PROVE  KnowsStatement(i)'
<1>1. TypeOK /\ Mu!TypeOK /\ KnowsStatement(i) /\ PointInv(i)
    BY DEF HandlerInv, TypeOK
<1> USE <1>1, KindOfInstance
    DEF TypeOK, Mu!TypeOK, Finish, Goto, Fresh, muVars, InBody, Mu!BodyReturns, Mu!Step,
        Answered, Writes, Stated
<1>2. CASE ShowFails(i)
    BY <1>2 DEF ShowFails, KnowsStatement
<1>3. CASE ReadStatement(i)
    BY <1>3 DEF ReadStatement, SetId, KnowsStatement
<1>4. CASE CheckStatement(i)
    BY <1>4 DEF CheckStatement, KnowsStatement
<1>5. CASE Write(i)
    BY <1>5 DEF Write, Apply, SetId, KnowsStatement
<1>6. CASE Withdraw(i)
    BY <1>6 DEF Withdraw, KnowsStatement
<1>7. CASE SendFails(i)
    BY <1>7 DEF SendFails, KnowsStatement
<1>8. CASE Verify(i)
    BY <1>8 DEF Verify, KnowsStatement, PointInv
<1> QED
    BY <1>2, <1>3, <1>4, <1>5, <1>6, <1>7, <1>8 DEF Body

(* Every handler keeps what it concluded, whoever makes a step.            *)
LEMMA KnowsKept ==
    ASSUME HandlerInv, [Next]_vars, NEW j \in Instance
    PROVE  KnowsStatement(j)'
<1>1. TypeOK /\ Mu!TypeOK /\ KnowsStatement(j) /\ PointInv(j)
    BY DEF HandlerInv, TypeOK
<1> USE <1>1 DEF TypeOK, Mu!TypeOK, handler, Mu!Step
<1>2. ASSUME NEW i \in Instance, Terraform(i) PROVE KnowsStatement(j)'
    <2>1. CASE DropHostname(i)
        BY <2>1, KnowsFrame DEF DropHostname, muVars
    <2>2. CASE i # j /\ ~DropHostname(i)
        BY <1>2, <2>2, KnowsFrame
           DEF Terraform, Create, Update, Read, Delete, Start, Mu!Enter
    <2>3. CASE i = j /\ ~DropHostname(i)
        BY <1>2, <2>3 DEF Terraform, Create, Update, Read, Delete, Start, Mu!Enter,
                          KnowsStatement, InBody, Answered
    <2> QED
        BY <2>1, <2>2, <2>3
<1>3. ASSUME NEW i \in Instance, Acquire(i) \/ OpenSwitch(i) PROVE KnowsStatement(j)'
    <2>1. CASE Opening(i)
        BY <2>1 DEF Opening, Mu!Acquire, Mu!NewSucceeds, KnowsStatement, InBody,
                    Answered, Writes, Stated
    <2>2. CASE OpenSucceeds(i)
        <3>1. CASE i = j
            BY <2>2, <3>1 DEF OpenSucceeds, Mu!OpenSucceeds, KnowsStatement, InBody,
                              Answered, PointInv
        <3>2. CASE i # j
            BY <2>2, <3>2, KnowsFrame DEF OpenSucceeds, Mu!OpenSucceeds
        <3> QED
            BY <3>1, <3>2
    <2>3. CASE OpenFails(i)
        BY <2>3 DEF OpenFails, Mu!NewFails, Mu!OpenFails, KnowsStatement, InBody,
                    Answered, Writes, Stated
    <2> QED
        BY <1>3, <2>1, <2>2, <2>3 DEF Acquire, OpenSwitch
<1>4. ASSUME NEW i \in Instance, Body(i), i # j PROVE KnowsStatement(j)'
    <2>1. pc[i] = "body"
        BY <1>4 DEF Body, ShowFails, ReadStatement, CheckStatement, Write, Withdraw,
                    SendFails, Verify, InBody, Finish, Mu!BodyReturns
    <2>2. pc[j] \notin Mu!Critical
        BY <1>4, <2>1, Alone DEF Mu!Critical
    <2>3. /\ UNCHANGED <<pc[j], op[j], at[j], want[j], id[j], result[j]>>
          /\ UNCHANGED stale[j]
        BY <1>4 DEF Body, ShowFails, ReadStatement, CheckStatement, Write, Withdraw,
                    SendFails, Verify, Apply, Ignore, Fresh, SetId, Finish, Goto,
                    muVars, Mu!BodyReturns
    <2> QED
        BY <2>2, <2>3, KnowsFrame
<1>5. ASSUME NEW i \in Instance, CloseSwitch(i) PROVE KnowsStatement(j)'
    <2>1. CASE Close(i)
        BY <2>1 DEF Close, Mu!Close, KnowsStatement, InBody, Answered, Writes, Stated
    <2>2. CASE Return(i) /\ i # j
        BY <2>2, KnowsFrame DEF Return, Mu!Unlock
    <2>3. CASE Return(i) /\ i = j
        BY <2>3 DEF Return, Mu!Unlock, KnowsStatement, InBody, Answered
    <2> QED
        BY <1>5, <2>1, <2>2, <2>3 DEF CloseSwitch
<1>6. ASSUME NEW k \in Kind, NEW x \in Value \union {None}, Edit(k, x)
      PROVE  KnowsStatement(j)'
    <2>1. \/ UNCHANGED statement[KindOf[j]]
          \/ stale'[j]
          \/ pc[j] \notin Mu!Critical
        <3>1. CASE k = KindOf[j] /\ pc[j] # "idle"
            BY <1>6, <3>1 DEF Edit
        <3>2. CASE k # KindOf[j]
            BY <1>6, <3>2, KindOfInstance DEF Edit
        <3>3. CASE pc[j] = "idle"
            BY <3>3 DEF Mu!Critical
        <3> QED
            BY <3>1, <3>2, <3>3
    <2> QED
        BY <1>6, <2>1, KnowsFrame DEF Edit, muVars
<1>7. CASE UNCHANGED vars
    BY <1>7, KnowsFrame DEF vars, muVars
<1> QED
    BY <1>2, <1>3, <1>4, <1>5, <1>6, <1>7, KnowsOwn DEF Next

(* While the statement of kind k is the provider's and stays as it is, an  *)
(* instance that remembers it does not forget it.                          *)
LEMMA RememberedKept ==
    ASSUME HandlerInv, [Next]_vars, NEW j \in Instance, KindOf[j] # "hostname",
           Remembered(j) = Stated(j), Stated(j) # None, UNCHANGED statement[KindOf[j]]
    PROVE  Remembered(j)' = Stated(j)'
<1>1. TypeOK /\ Mu!TypeOK /\ PointInv(j)
    BY DEF HandlerInv, TypeOK
<1>2. SUFFICES UNCHANGED Remembered(j)
    BY DEF Stated
<1> USE <1>1 DEF TypeOK, Mu!TypeOK, handler, Mu!Step, Remembered, StateAfter, Stated
<1>3. ASSUME NEW i \in Instance, Terraform(i) PROVE UNCHANGED Remembered(j)
    <2>1. CASE DropHostname(i)
        BY <2>1 DEF DropHostname, muVars
    <2>2. CASE ~DropHostname(i)
        BY <1>3, <2>2 DEF Terraform, Create, Update, Read, Delete, Start, Mu!Enter
    <2> QED
        BY <2>1, <2>2
<1>4. ASSUME NEW i \in Instance, Acquire(i) \/ OpenSwitch(i) PROVE UNCHANGED Remembered(j)
    <2>1. CASE Opening(i) \/ OpenSucceeds(i)
        BY <2>1 DEF Opening, OpenSucceeds, Mu!Acquire, Mu!NewSucceeds, Mu!OpenSucceeds
    <2>2. CASE OpenFails(i)
        BY <2>2 DEF OpenFails, Mu!NewFails, Mu!OpenFails, PointInv, Answered
    <2> QED
        BY <1>4, <2>1, <2>2 DEF Acquire, OpenSwitch
<1>5. ASSUME NEW i \in Instance, Body(i) PROVE UNCHANGED Remembered(j)
    <2> USE DEF Finish, Goto, muVars, InBody, Mu!BodyReturns, PointInv, Answered, Writes
    <2>1. CASE ShowFails(i)
        BY <2>1 DEF ShowFails
    <2>2. CASE ReadStatement(i)
        BY <2>2 DEF ReadStatement, SetId
    <2>3. CASE CheckStatement(i)
        BY <2>3 DEF CheckStatement
    <2>4. CASE Write(i)
        BY <2>4, KindOfInstance DEF Write, Apply, Kept, SetId
    <2>5. CASE Withdraw(i)
        BY <2>5 DEF Withdraw
    <2>6. CASE SendFails(i)
        BY <2>6 DEF SendFails
    <2>7. CASE Verify(i)
        BY <2>7 DEF Verify
    <2> QED
        BY <1>5, <2>1, <2>2, <2>3, <2>4, <2>5, <2>6, <2>7 DEF Body
<1>6. ASSUME NEW i \in Instance, CloseSwitch(i) PROVE UNCHANGED Remembered(j)
    BY <1>6 DEF CloseSwitch, Close, Return, Mu!Close, Mu!Unlock
<1>7. ASSUME NEW k \in Kind, NEW x \in Value \union {None}, Edit(k, x)
      PROVE  UNCHANGED Remembered(j)
    BY <1>7 DEF Edit, muVars
<1>8. CASE UNCHANGED vars
    BY <1>8 DEF vars, muVars
<1> QED
    BY <1>3, <1>4, <1>5, <1>6, <1>7, <1>8 DEF Next

(* A statement becomes the provider's by an answered write only.           *)
LEMMA OursByWrite ==
    ASSUME HandlerInv, [Next]_vars, NEW k \in Kind, whose'[k] = "ours"
    PROVE  \/ UNCHANGED <<whose[k], statement[k]>>
           \/ \E i \in Instance : KindOf[i] = k /\ Write(i)
<1>1. TypeOK
    BY DEF HandlerInv
<1> DEFINE Goal == \/ UNCHANGED <<whose[k], statement[k]>>
                   \/ \E i \in Instance : KindOf[i] = k /\ Write(i)
<1>2. ASSUME NEW i \in Instance,
             Terraform(i) \/ Acquire(i) \/ OpenSwitch(i) \/ CloseSwitch(i)
      PROVE  Goal
    BY <1>2 DEF Terraform, Create, Update, Read, Delete, DropHostname, Start, Acquire,
                OpenSwitch, Opening, OpenSucceeds, OpenFails, CloseSwitch, Close, Return
<1>3. ASSUME NEW i \in Instance, Body(i) PROVE Goal
    <2>1. CASE ShowFails(i) \/ ReadStatement(i) \/ CheckStatement(i) \/ Verify(i)
        BY <2>1 DEF ShowFails, ReadStatement, CheckStatement, Verify
    <2>2. CASE Write(i)
        BY <1>1, <2>2, KindOfInstance DEF Write, Apply, TypeOK
    <2>3. CASE Withdraw(i) \/ SendFails(i)
        BY <1>1, <2>3, KindOfInstance DEF Withdraw, SendFails, Apply, Ignore, TypeOK
    <2> QED
        BY <1>3, <2>1, <2>2, <2>3 DEF Body
<1>4. ASSUME NEW l \in Kind, NEW x \in Value \union {None}, Edit(l, x) PROVE Goal
    BY <1>1, <1>4 DEF Edit, TypeOK
<1>5. CASE UNCHANGED vars
    BY <1>5 DEF vars
<1> QED
    BY <1>2, <1>3, <1>4, <1>5 DEF Next

(* A statement with an answered write stays in, or on its way to, the      *)
(* Terraform state.                                                        *)
LEMMA RemembersKept ==
    ASSUME HandlerInv, [Next]_vars, NEW k \in Kind
    PROVE  Remembers(k)'
<1>1. TypeOK /\ Mu!TypeOK /\ Remembers(k)
    BY DEF HandlerInv, TypeOK
<1>2. SUFFICES ASSUME k # "hostname", whose'[k] = "ours", statement'[k] # None
               PROVE  \E i \in Instance : KindOf[i] = k /\ Remembered(i)' = statement'[k]
    BY DEF Remembers
<1>3. CASE UNCHANGED <<whose[k], statement[k]>>
    <2>1. PICK j \in Instance : KindOf[j] = k /\ Remembered(j) = statement[k]
        BY <1>1, <1>2, <1>3 DEF Remembers
    <2>2. Remembered(j)' = statement'[k]
        BY <1>2, <1>3, <2>1, RememberedKept DEF Stated
    <2> QED
        BY <2>1, <2>2
<1>4. ASSUME NEW i \in Instance, KindOf[i] = k, Write(i)
      PROVE  Remembered(i)' = statement'[k]
    BY <1>1, <1>2, <1>4
       DEF Write, Apply, Kept, SetId, Finish, InBody, Mu!BodyReturns, Mu!Step,
           Remembered, StateAfter, TypeOK, Mu!TypeOK
<1> QED
    BY <1>2, <1>3, <1>4, OursByWrite

(* In the initial state no handler runs and no statement is the provider's. *)
LEMMA InitHandlerInv == Init => HandlerInv
<1> SUFFICES ASSUME Init PROVE HandlerInv
    OBVIOUS
<1>1. Mu!Init
    BY DEF Init
<1>2. Mu!LockInv
    BY <1>1, NoOpAssumption
       DEF Mu!Init, Mu!LockInv, Mu!TypeOK, Mu!LockDiscipline, Mu!SessionDiscipline,
           Mu!PC, Mu!Critical
<1>3. TypeOK
    BY <1>2 DEF Init, TypeOK, Mu!LockInv
<1>4. \A i \in Instance : PointInv(i) /\ KnowsStatement(i)
    BY <1>1 DEF Init, Mu!Init, PointInv, KnowsStatement, InBody, Answered, Writes
<1>5. \A k \in Kind : Remembers(k)
    BY DEF Init, Remembers
<1> QED
    BY <1>2, <1>3, <1>4, <1>5 DEF HandlerInv

(* HandlerInv is inductive.                                                *)
LEMMA NextHandlerInv == HandlerInv /\ [Next]_vars => HandlerInv'
<1> SUFFICES ASSUME HandlerInv, [Next]_vars PROVE HandlerInv'
    OBVIOUS
<1>1. TypeOK' /\ Mu!LockInv'
    BY TypeKept, MuKept DEF HandlerInv
<1>2. \A i \in Instance : PointInv(i)' /\ KnowsStatement(i)'
    BY PointKept, KnowsKept
<1>3. \A k \in Kind : Remembers(k)'
    BY RemembersKept
<1> QED
    BY <1>1, <1>2, <1>3 DEF HandlerInv, Kind

(* Ids, statements and what the handlers conclude agree at every point,    *)
(* for any number of instances, kinds and values.                          *)
THEOREM HandlerInvariant == Spec => []HandlerInv
BY InitHandlerInv, NextHandlerInv, PTL DEF Spec, Safety

(* A write that reports success is what the next read finds, for kinds     *)
(* that have no default: the read of a value that the switch omits as its  *)
(* default finds none.                                                     *)
THEOREM WritesAreRead ==
    ASSUME \A k \in Kind : Default[k] \notin Value
    PROVE  Spec => []WriteIsRead
<1>1. HandlerInv => WriteIsRead
    <2> SUFFICES ASSUME HandlerInv, NEW i \in Instance,
                        Returning(i, "create") \/ Returning(i, "update"), ~stale[i]
                 PROVE  Stated(i) = want[i]
        BY DEF WriteIsRead
    <2>1. Stated(i) = Kept(KindOf[i], want[i])
        BY DEF HandlerInv, KnowsStatement, Returning, Answered, Writes
    <2>2. want[i] \in Value
        BY DEF HandlerInv, TypeOK, PointInv, Writes, Returning
    <2> QED
        BY <2>1, <2>2, KindOfInstance DEF Kept
<1> QED
    BY <1>1, HandlerInvariant, PTL

(* A delete sends its `no` line for the value in the state only.           *)
THEOREM DeletesTheirOwn == Spec => []DeletesItsOwn
<1>1. HandlerInv => DeletesItsOwn
    BY DEF HandlerInv, KnowsStatement, DeletesItsOwn
<1> QED
    BY <1>1, HandlerInvariant, PTL

(* A statement with an answered write is in the Terraform state when the   *)
(* handlers of its kind rest.                                              *)
THEOREM AnsweredRemembered == Spec => []AnsweredIsRemembered
<1>1. HandlerInv => AnsweredIsRemembered
    <2> SUFFICES ASSUME HandlerInv, NEW k \in Kind \ {"hostname"},
                        whose[k] = "ours", statement[k] # None,
                        \A i \in Instance : KindOf[i] = k => pc[i] = "idle"
                 PROVE  \E i \in Instance : KindOf[i] = k /\ state[i] = statement[k]
        BY DEF AnsweredIsRemembered
    <2>1. PICK i \in Instance : KindOf[i] = k /\ Remembered(i) = statement[k]
        BY DEF HandlerInv, Remembers
    <2> QED
        BY <2>1 DEF Remembered
<1> QED
    BY <1>1, HandlerInvariant, PTL

(* An instance leaves the state only when its value is off the switch: a   *)
(* failed delete, and a read that fails, keep it.                          *)
THEOREM DroppedAreGone == Spec => DropsOnlyGone
<1> DEFINE Drops ==
        \A i \in Instance :
            KindOf[i] # "hostname" /\ state[i] # None /\ state'[i] = None
                => stale[i] \/ Stated(i) # state[i]
<1>1. HandlerInv /\ [Next]_vars => [Drops]_vars
    <2> SUFFICES ASSUME HandlerInv, Next, NEW i \in Instance, KindOf[i] # "hostname",
                        state[i] # None, state'[i] = None, ~stale[i]
                 PROVE  Stated(i) # state[i]
        OBVIOUS
    <2>1. Return(i)
        BY DEF Next, Terraform, Create, Update, Read, Delete, DropHostname, Start, Acquire,
               OpenSwitch, Opening, OpenSucceeds, OpenFails, Body, ShowFails,
               ReadStatement, CheckStatement, Write, Withdraw, SendFails, Verify,
               CloseSwitch, Close, Return, Edit, HandlerInv, TypeOK
    <2>2. StateAfter(i) = None /\ pc[i] = "unlock"
        BY <2>1 DEF Return, Mu!Unlock, Mu!Step, HandlerInv, TypeOK
    <2> QED
        BY <2>2 DEF StateAfter, HandlerInv, PointInv, KnowsStatement, Answered, Writes, TypeOK
<1> QED
    BY <1>1, HandlerInvariant, PTL DEF DropsOnlyGone, Spec, Safety

(* These handlers too have at most one session with the switch at a time.  *)
THEOREM SessionDisciplineKept == Spec => Mu!Safety
<1>1. Init => Mu!Init
    BY DEF Init
<1> QED
    BY <1>1, MuStep, PTL DEF Spec, Safety, Mu!Safety

(* A step of the lock protocol is a step of the promise of OneSession, as  *)
(* it is for any operations.                                               *)
LEMMA PromiseStep == Mu!LockInv /\ [Mu!Next]_(Mu!vars) => [Mu!Promise!Next]_(Mu!Promise!vars)
<1>1. Mu!LockInv <=> MuProofs!LockInv
    BY DEF Mu!LockInv, Mu!TypeOK, Mu!LockDiscipline, Mu!SessionDiscipline, Mu!PC,
           Mu!Critical, MuProofs!LockInv, MuProofs!TypeOK, MuProofs!LockDiscipline,
           MuProofs!SessionDiscipline, MuProofs!PC, MuProofs!Critical
<1>2. [Mu!Next]_(Mu!vars) <=> [MuProofs!Next]_(MuProofs!vars)
    BY DEF Mu!vars, Mu!Next, Mu!Enter, Mu!OpenSwitch, Mu!Acquire, Mu!NewSucceeds,
           Mu!NewFails, Mu!OpenSucceeds, Mu!OpenFails, Mu!BodyReturns,
           Mu!CloseSwitch, Mu!Close, Mu!Unlock, Mu!Step,
           MuProofs!vars, MuProofs!Next, MuProofs!Enter, MuProofs!OpenSwitch,
           MuProofs!Acquire, MuProofs!NewSucceeds, MuProofs!NewFails,
           MuProofs!OpenSucceeds, MuProofs!OpenFails, MuProofs!BodyReturns,
           MuProofs!CloseSwitch, MuProofs!Close, MuProofs!Unlock, MuProofs!Step
<1>3. MuProofs!LockInv /\ [MuProofs!Next]_(MuProofs!vars)
        => [MuProofs!Promise!Next]_(MuProofs!Promise!vars)
    BY MuProofs!NextRefines, NoOpAssumption DEF MuProofs!NoOpAssumption
<1>4. [MuProofs!Promise!Next]_(MuProofs!Promise!vars) => [Mu!Promise!Next]_(Mu!Promise!vars)
    BY DEF Mu!Promise!Next, Mu!Promise!vars, Mu!Promise!Request, Mu!Promise!Connect,
           Mu!Promise!GiveUp, Mu!Promise!Disconnect, Mu!Promise!Become, Mu!Phase,
           MuProofs!Promise!Next, MuProofs!Promise!vars, MuProofs!Promise!Request,
           MuProofs!Promise!Connect, MuProofs!Promise!GiveUp, MuProofs!Promise!Disconnect,
           MuProofs!Promise!Become, MuProofs!Phase
<1> QED
    BY <1>1, <1>2, <1>3, <1>4

(* At most one handler has a session with the switch at any time, and each *)
(* opens one only while nobody else has: the promise that the comment on   *)
(* switchMu makes holds of the handlers themselves.                        *)
THEOREM OneHandlerAtATime == Spec => []Mu!OneSessionAtATime /\ Mu!Promise!Safety
<1>1. Init => Mu!Promise!Init
    BY DEF Init, Mu!Init, Mu!Promise!Init, Mu!Phase
<1>2. HandlerInv => Mu!LockInv
    BY DEF HandlerInv
<1>3. Mu!LockInv => Mu!OneSessionAtATime
    BY DEF Mu!LockInv, Mu!LockDiscipline, Mu!SessionDiscipline, Mu!Critical,
           Mu!OneSessionAtATime, Mu!TypeOK
<1> QED
    BY <1>1, <1>2, <1>3, MuStep, PromiseStep, HandlerInvariant, PTL
       DEF Spec, Safety, Mu!Promise!Safety
=============================================================================
