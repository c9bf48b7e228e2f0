------------------------ MODULE RunningConfig_proofs ------------------------
(***************************************************************************)
(* Proofs about the scan of the running configuration, for texts of any    *)
(* length: what ParseRunningConfigVLANs returns is what the statements of  *)
(* each VLAN's blocks add up to, the other two scanners return what the    *)
(* latest block of each port and the latest line of each trunk say, and a  *)
(* text that is cut short shows no VLAN, port or trunk that the whole one  *)
(* does not.                                                               *)
(***************************************************************************)
EXTENDS RunningConfig, TLAPS, WellFoundedInduction

(* The kinds of statement that say something of a VLAN.                    *)
Said == {"name", "tagged", "untagged", "address"}

(* What the kind of a line tells of it.                                    *)
LEMMA LineKinds ==
    ASSUME NEW l \in Line
    PROVE  /\ l.kind = "vlan" => l = VLANHeader(l.id) /\ l.id \in Vlan \union {OutOfRange}
           /\ l.kind = "interface" => l = InterfaceHeader(l.id)
                                        /\ l.id \in Port \union {OutOfRange}
           /\ l.kind = "trunk" => l \in TrunkLine
           /\ l \in Root <=> l.kind \in {"vlan", "interface", "trunk", "other"}
           /\ l \in Statement <=> l.kind \in Said \union {"disable", "exit"}
           /\ l.kind \in Kind => l.no \in BOOLEAN /\ l.members \in MemberList
           /\ l.kind = "name" => l.name \in Name
           /\ l.kind = "address" => l.dhcp \in BOOLEAN
<1>1. CASE l \in Root
    BY <1>1 DEF Root, VLANHeader, InterfaceHeader, TrunkLine, Other, Statement, MemberLine, Kind, Said
<1>2. CASE l \in Statement
    <2>1. /\ l.kind \in Said \union {"disable", "exit"}
          /\ l.kind \in Kind => l.no \in BOOLEAN /\ l.members \in MemberList
          /\ l.kind = "name" => l.name \in Name
          /\ l.kind = "address" => l.dhcp \in BOOLEAN
        <3>1. CASE l \in MemberLine
            BY <3>1 DEF MemberLine, Kind, Said
        <3>2. CASE l \in [kind : {"name"}, name : Name]
            BY <3>2 DEF Kind, Said
        <3>3. CASE l \in [kind : {"address"}, dhcp : BOOLEAN]
            BY <3>3 DEF Kind, Said
        <3>4. CASE l \in [kind : {"disable", "exit"}]
            BY <3>4 DEF Kind, Said
        <3> QED
            BY <1>2, <3>1, <3>2, <3>3, <3>4 DEF Statement
    <2>2. \A k \in Root : k.kind \in {"vlan", "interface", "trunk", "other"}
        BY DEF Root, VLANHeader, InterfaceHeader, TrunkLine, Other
    <2> QED
        BY <1>2, <2>1, <2>2 DEF Said
<1> QED
    BY <1>1, <1>2 DEF Line

(* A header is a line at the root, and each VLAN has its own.              *)
LEMMA Headers ==
    \A v \in Vlan : /\ VLANHeader(v) \in Root
                    /\ VLANHeader(v).kind = "vlan" /\ VLANHeader(v).id = v
BY DEF VLANHeader, Root

(* A nonempty set of line numbers has a latest one.                        *)
LEMMA LatestExists ==
    ASSUME NEW N \in Nat, NEW S \in SUBSET (1..N), S # {}
    PROVE  Latest(S) \in S /\ \A k \in S : k <= Latest(S)
<1> DEFINE T == {N - n : n \in S}
<1>1. T \subseteq Nat /\ T # {}
    OBVIOUS
<1>2. PICK t \in T : \A u \in T : <<u, t>> \notin OpToRel(<, Nat)
    BY <1>1, NatLessThanWellFounded, WFMin
<1>3. \A u \in T : ~(u < t)
    BY <1>1, <1>2 DEF OpToRel
<1>4. PICK n \in S : t = N - n
    OBVIOUS
<1>5. ASSUME NEW k \in S PROVE k <= n
    <2>1. N - k \in T
        OBVIOUS
    <2>2. ~(N - k < N - n)
        BY <1>3, <1>4, <2>1
    <2> QED
        BY <2>2
<1> QED
    BY <1>5 DEF Latest

(* A line more leaves the lines before as they are.                        *)
LEMMA Grows ==
    ASSUME TypeOK, NEW l \in Line, text' = Append(text, l)
    PROVE  /\ Len(text) \in Nat
           /\ At' = At \union {Len(text) + 1}
           /\ Len(text') = Len(text) + 1
           /\ text'[Len(text) + 1] = l
           /\ \A n \in At : text'[n] = text[n] /\ text[n] \in Line
<1> DEFINE s == text
<1>1. s \in Seq(Line)
    BY DEF TypeOK
<1>2. Len(s) \in Nat /\ Len(Append(s, l)) = Len(s) + 1
    BY <1>1
<1>3. Append(s, l)[Len(s) + 1] = l
    BY <1>1
<1>4. \A n \in 1..Len(s) : Append(s, l)[n] = s[n] /\ s[n] \in Line
    BY <1>1
<1> QED
    BY <1>2, <1>3, <1>4 DEF At

(* A block reaches one line further, unless that line is at the root.      *)
LEMMA ReachesGrows ==
    ASSUME TypeOK, NEW l \in Line, text' = Append(text, l), NEW N \in Nat, N = Len(text)
    PROVE  /\ \A h \in 1..N, n \in 1..(N + 1) : Reaches(h, n)' <=> Reaches(h, n)
           /\ \A h \in 1..N : Reaches(h, N + 2)' <=> Reaches(h, N + 1) /\ l \notin Root
           /\ \A n \in 1..(N + 1) : ~Reaches(N + 1, n)'
           /\ Reaches(N + 1, N + 2)'
<1>1. text'[N + 1] = l /\ \A n \in 1..N : text'[n] = text[n]
    BY Grows DEF At
<1>2. ASSUME NEW h \in 1..N, NEW n \in 1..(N + 1)
      PROVE  Reaches(h, n)' <=> Reaches(h, n)
    <2>1. \A k \in (h + 1)..(n - 1) : text'[k] = text[k]
        BY <1>1
    <2> QED
        BY <2>1 DEF Reaches
<1>3. \A n \in 1..(N + 1) : ~Reaches(N + 1, n)'
    BY DEF Reaches
<1>4. ASSUME NEW h \in 1..N
      PROVE  Reaches(h, N + 2)' <=> Reaches(h, N + 1) /\ l \notin Root
    <2>1. Reaches(h, N + 2)' <=> \A k \in (h + 1)..(N + 1) : text'[k] \notin Root
        <3>1. h < N + 2 /\ (N + 2) - 1 = N + 1
            OBVIOUS
        <3> QED
            BY <3>1 DEF Reaches
    <2>2. Reaches(h, N + 1) <=> \A k \in (h + 1)..N : text[k] \notin Root
        <3>1. h < N + 1 /\ (N + 1) - 1 = N
            OBVIOUS
        <3> QED
            BY <3>1 DEF Reaches
    <2>3. \A k \in (h + 1)..N : text'[k] = text[k]
        BY <1>1
    <2>4. \A k \in (h + 1)..(N + 1) : k \in (h + 1)..N \/ k = N + 1
        OBVIOUS
    <2>5. N + 1 \in (h + 1)..(N + 1) /\ \A k \in (h + 1)..N : k \in (h + 1)..(N + 1)
        OBVIOUS
    <2> QED
        BY <1>1, <2>1, <2>2, <2>3, <2>4, <2>5
<1>5. Reaches(N + 1, N + 2)'
    BY DEF Reaches
<1> QED
    BY <1>2, <1>3, <1>4, <1>5

(* So does what is in a block of VLAN v.                                   *)
LEMMA InVLANGrows ==
    ASSUME TypeOK, NEW l \in Line, text' = Append(text, l), NEW v \in Vlan
    PROVE  /\ \A n \in 1..(Len(text) + 1) : InVLAN(v, n)' <=> InVLAN(v, n)
           /\ InVLAN(v, Len(text) + 1)' <=>
                IF l \in Root THEN l = VLANHeader(v) ELSE InVLAN(v, Len(text) + 1)
<1>0. PICK N \in Nat : N = Len(text)
    BY Grows
<1>1. /\ At = 1..N /\ At' = 1..(N + 1) /\ Len(text') = N + 1
      /\ text'[N + 1] = l
      /\ \A n \in 1..N : text'[n] = text[n]
    BY <1>0, Grows DEF At
<1>2. \A h \in 1..N, n \in 1..(N + 1) : Reaches(h, n)' <=> Reaches(h, n)
    BY <1>0, ReachesGrows
<1>3. \A n \in 1..(N + 1) : ~Reaches(N + 1, n)'
    BY <1>0, ReachesGrows
<1>4. ASSUME NEW n \in 1..(N + 1) PROVE InVLAN(v, n)' <=> InVLAN(v, n)
    <2>1. InVLAN(v, n)' <=> \E h \in 1..(N + 1) : text'[h] = VLANHeader(v) /\ Reaches(h, n)'
        BY <1>1 DEF InVLAN
    <2>2. InVLAN(v, n) <=> \E h \in 1..N : text[h] = VLANHeader(v) /\ Reaches(h, n)
        BY <1>1 DEF InVLAN
    <2>3. \A h \in 1..N : text'[h] = text[h] /\ (Reaches(h, n)' <=> Reaches(h, n))
        BY <1>1, <1>2
    <2>4. \A h \in 1..(N + 1) : Reaches(h, n)' => h \in 1..N
        BY <1>3
    <2>5. \A h \in 1..N : h \in 1..(N + 1)
        OBVIOUS
    <2>6. ASSUME InVLAN(v, n) PROVE InVLAN(v, n)'
        BY <2>1, <2>2, <2>3, <2>5, <2>6
    <2>7. ASSUME InVLAN(v, n)' PROVE InVLAN(v, n)
        BY <2>1, <2>2, <2>3, <2>4, <2>7
    <2> QED
        BY <2>6, <2>7
<1>5. \A h \in 1..N : Reaches(h, N + 2)' <=> Reaches(h, N + 1) /\ l \notin Root
    BY <1>0, ReachesGrows
<1>6. Reaches(N + 1, N + 2)'
    BY <1>0, ReachesGrows
<1>7. InVLAN(v, Len(text) + 1)' <=>
        \E h \in 1..(N + 1) : text'[h] = VLANHeader(v) /\ Reaches(h, N + 2)'
    <2>1. Len(text') + 1 = N + 2
        BY <1>1
    <2> QED
        BY <1>1, <2>1 DEF InVLAN
<1>8. InVLAN(v, Len(text) + 1)' <=>
        \/ l = VLANHeader(v)
        \/ \E h \in 1..N : text[h] = VLANHeader(v) /\ Reaches(h, N + 1) /\ l \notin Root
    <2>1. \A h \in 1..(N + 1) : h \in 1..N \/ h = N + 1
        OBVIOUS
    <2>2. N + 1 \in 1..(N + 1) /\ \A h \in 1..N : h \in 1..(N + 1)
        OBVIOUS
    <2> QED
        BY <1>1, <1>5, <1>6, <1>7, <2>1, <2>2
<1>9. InVLAN(v, Len(text) + 1) <=>
        \E h \in 1..N : text[h] = VLANHeader(v) /\ Reaches(h, N + 1)
    BY <1>0, <1>1 DEF InVLAN
<1>10. \A n \in 1..(N + 1) : InVLAN(v, n)' <=> InVLAN(v, n)
    BY <1>4
<1> QED
    BY <1>0, <1>8, <1>9, <1>10, Headers

(* What is said of a VLAN: the statements before, and the new line if it   *)
(* is in a block of the VLAN.                                              *)
LEMMA SaysGrows ==
    ASSUME TypeOK, NEW l \in Line, text' = Append(text, l), NEW v \in Vlan, NEW kind \in Said
    PROVE  /\ Says(v, kind) \subseteq 1..Len(text)
           /\ Says(v, kind)' = Says(v, kind) \union
                (IF l.kind = kind /\ InVLAN(v, Len(text) + 1) THEN {Len(text) + 1} ELSE {})
<1>0. PICK N \in Nat : N = Len(text)
    BY Grows
<1>1. /\ At = 1..N /\ At' = (1..N) \union {N + 1} /\ text'[N + 1] = l
      /\ \A n \in 1..N : text'[n] = text[n]
    BY <1>0, Grows DEF At
<1>2. \A n \in 1..(N + 1) : InVLAN(v, n)' <=> InVLAN(v, n)
    BY <1>0, InVLANGrows
<1>3. ASSUME NEW n \in 1..N PROVE n \in Says(v, kind)' <=> n \in Says(v, kind)
    <2>1. n \in 1..(N + 1) /\ n \in At /\ n \in At' /\ text'[n] = text[n]
        <3>1. n \in 1..(N + 1)
            OBVIOUS
        <3>2. n \in At /\ n \in At'
            BY <1>1
        <3>3. text'[n] = text[n]
            BY <1>1
        <3> QED
            BY <3>1, <3>2, <3>3
    <2>2. InVLAN(v, n)' <=> InVLAN(v, n)
        BY <1>2, <2>1
    <2>3. n \in Says(v, kind)' <=> text'[n].kind = kind /\ InVLAN(v, n)'
        BY <2>1 DEF Says
    <2>4. n \in Says(v, kind) <=> text[n].kind = kind /\ InVLAN(v, n)
        BY <2>1 DEF Says
    <2> QED
        BY <2>1, <2>2, <2>3, <2>4
<1>4. N + 1 \in Says(v, kind)' <=> l.kind = kind /\ InVLAN(v, N + 1)
    <2>1. N + 1 \in 1..(N + 1)
        OBVIOUS
    <2> QED
        BY <1>1, <1>2, <2>1 DEF Says
<1>5. Says(v, kind) \subseteq 1..N /\ Says(v, kind)' \subseteq (1..N) \union {N + 1}
    BY <1>1 DEF Says
<1> QED
    BY <1>0, <1>3, <1>4, <1>5

(* Nothing more is said: nothing changes.                                  *)
LEMMA SaidKept ==
    ASSUME TypeOK, NEW l \in Line, text' = Append(text, l), NEW v \in Vlan, NEW kind \in Said,
           ~(l.kind = kind /\ InVLAN(v, Len(text) + 1))
    PROVE  /\ Says(v, kind)' = Says(v, kind)
           /\ \A n \in Says(v, kind) : text'[n] = text[n]
           /\ Says(v, kind) # {} => UNCHANGED text[Latest(Says(v, kind))]
           /\ \A m \in Member : IsMember(v, kind, m)' <=> IsMember(v, kind, m)
<1>0. PICK N \in Nat : N = Len(text)
    BY Grows
<1>1. Says(v, kind)' = Says(v, kind) /\ Says(v, kind) \subseteq 1..N
    BY <1>0, SaysGrows
<1>2. \A n \in Says(v, kind) : text'[n] = text[n]
    BY <1>0, <1>1, Grows DEF At
<1>3. ASSUME Says(v, kind) # {} PROVE UNCHANGED text[Latest(Says(v, kind))]
    <2>1. PICK S \in SUBSET (1..N) : S = Says(v, kind) /\ S = Says(v, kind)' /\ S # {}
        BY <1>1, <1>3
    <2>2. Latest(S) \in S
        BY <2>1, LatestExists
    <2>3. Latest(Says(v, kind)) = Latest(S) /\ Latest(Says(v, kind))' = Latest(S)
        BY <2>1 DEF Latest
    <2> QED
        BY <1>2, <2>1, <2>2, <2>3
<1>4. ASSUME NEW m \in Member PROVE IsMember(v, kind, m)' <=> IsMember(v, kind, m)
    BY <1>1, <1>2 DEF IsMember
<1> QED
    BY <1>1, <1>2, <1>3, <1>4

(* A statement in a block of the VLAN: it is the latest, and it decides of *)
(* the members it names.                                                   *)
LEMMA SaidNew ==
    ASSUME TypeOK, NEW l \in Line, text' = Append(text, l), NEW v \in Vlan,
           l.kind \in Said, InVLAN(v, Len(text) + 1)
    PROVE  /\ Says(v, l.kind)' = Says(v, l.kind) \union {Len(text) + 1}
           /\ Says(v, l.kind)' # {} /\ text[Latest(Says(v, l.kind))]' = l
           /\ \A m \in Member :
                IsMember(v, l.kind, m)' <=>
                    IF m \in l.members THEN ~l.no ELSE IsMember(v, l.kind, m)
<1>0. PICK N \in Nat : N = Len(text)
    BY Grows
<1>1. PICK kind \in Said : kind = l.kind
    OBVIOUS
<1>2. /\ Says(v, kind)' = Says(v, kind) \union {N + 1}
      /\ Says(v, kind) \subseteq 1..N
    BY <1>0, <1>1, SaysGrows
<1>3. text'[N + 1] = l /\ \A n \in 1..N : text'[n] = text[n]
    BY <1>0, Grows DEF At
<1>4. text[Latest(Says(v, kind))]' = l
    <2>0. PICK M \in Nat : M = N + 1
        OBVIOUS
    <2>1. PICK S \in SUBSET (1..M) : S = Says(v, kind)'
        <3>1. M \in 1..M /\ \A n \in 1..N : n \in 1..M
            BY <2>0
        <3> QED
            BY <1>2, <2>0, <3>1
    <2>2. M \in S
        BY <1>2, <2>0, <2>1
    <2>3. Latest(S) = N + 1
        <3>1. Latest(S) \in S /\ M <= Latest(S)
            BY <2>2, LatestExists
        <3>2. Latest(S) \in 1..M
            BY <2>1, <3>1
        <3> QED
            BY <2>0, <3>1, <3>2
    <2>4. Latest(Says(v, kind))' = Latest(S)
        BY <2>1 DEF Latest
    <2> QED
        BY <1>3, <2>3, <2>4
<1>5. ASSUME NEW m \in Member
      PROVE  IsMember(v, kind, m)' <=> IF m \in l.members THEN ~l.no ELSE IsMember(v, kind, m)
    <2>1. IsMember(v, kind, m)' <=>
            \E n \in Says(v, kind)' :
                /\ m \in text'[n].members /\ ~text'[n].no
                /\ \A k \in Says(v, kind)' : k > n /\ m \in text'[k].members => ~text'[k].no
        BY DEF IsMember
    <2>2. ASSUME NEW n \in Says(v, kind)
          PROVE  n < N + 1 /\ ~(n > N + 1) /\ text'[n] = text[n]
        <3>1. n \in 1..N
            BY <1>2
        <3>2. n < N + 1 /\ ~(n > N + 1)
            BY <3>1
        <3>3. text'[n] = text[n]
            BY <1>3, <3>1
        <3> QED
            BY <3>2, <3>3
    <2>3. CASE m \in l.members /\ ~l.no
        <3>1. \A k \in Says(v, kind)' : ~(k > N + 1)
            BY <1>2, <2>2
        <3> QED
            BY <1>2, <1>3, <2>1, <2>3, <3>1
    <2>4. CASE m \in l.members /\ l.no
        <3>1. \A n \in Says(v, kind)' : ~text'[n].no => N + 1 > n
            BY <1>2, <1>3, <2>2, <2>4
        <3> QED
            BY <1>2, <1>3, <2>1, <2>4, <3>1
    <2>5. CASE m \notin l.members
        BY <1>2, <1>3, <2>1, <2>2, <2>5 DEF IsMember
    <2> QED
        BY <2>3, <2>4, <2>5
<1> QED
    BY <1>0, <1>1, <1>2, <1>4, <1>5

HasBlock(v) == \E h \in At : text[h] = VLANHeader(v)

LEMMA HasBlockGrows ==
    ASSUME TypeOK, NEW l \in Line, text' = Append(text, l), NEW v \in Vlan
    PROVE  HasBlock(v)' <=> HasBlock(v) \/ l = VLANHeader(v)
BY Grows DEF HasBlock, At

(* A line that says nothing of VLAN v and is not its first header leaves   *)
(* what is effective.                                                      *)
LEMMA EffectiveKept ==
    ASSUME TypeOK, NEW l \in Line, text' = Append(text, l), NEW v \in Vlan,
           ~(l.kind \in Said /\ InVLAN(v, Len(text) + 1)),
           l = VLANHeader(v) => HasBlock(v)
    PROVE  Effective(v)' = Effective(v)
<1>1. HasBlock(v)' <=> HasBlock(v)
    BY HasBlockGrows
<1>2. ASSUME NEW kind \in Said
      PROVE  /\ Says(v, kind)' = Says(v, kind)
             /\ Says(v, kind) # {} => UNCHANGED text[Latest(Says(v, kind))]
             /\ \A m \in Member : IsMember(v, kind, m)' <=> IsMember(v, kind, m)
    BY SaidKept
<1>3. UNCHANGED IF Says(v, "name") = {} THEN NoName ELSE text[Latest(Says(v, "name"))].name
    BY <1>2 DEF Said
<1>4. UNCHANGED (Says(v, "address") # {} /\ text[Latest(Says(v, "address"))].dhcp)
    BY <1>2 DEF Said
<1>5. UNCHANGED {m \in Member : IsMember(v, "tagged", m)}
    BY <1>2 DEF Said
<1>6. UNCHANGED {m \in Member : IsMember(v, "untagged", m)}
    BY <1>2 DEF Said
<1> QED
    BY <1>1, <1>3, <1>4, <1>5, <1>6 DEF Effective, HasBlock

(* The first header of a VLAN makes an empty block.                        *)
LEMMA EffectiveOpened ==
    ASSUME TypeOK, NEW v \in Vlan, ~HasBlock(v), VLANHeader(v) \in Line,
           text' = Append(text, VLANHeader(v))
    PROVE  Effective(v)' = EmptyVLAN
<1>1. HasBlock(v)'
    BY HasBlockGrows
<1>2. ASSUME NEW kind \in Said PROVE Says(v, kind)' = {}
    <2>1. VLANHeader(v).kind # kind
        BY Headers DEF Said
    <2>2. Says(v, kind)' = Says(v, kind)
        BY <2>1, SaidKept
    <2>3. Says(v, kind) = {}
        BY DEF Says, InVLAN, HasBlock
    <2> QED
        BY <2>2, <2>3
<1>3. \A m \in Member : ~IsMember(v, "tagged", m)' /\ ~IsMember(v, "untagged", m)'
    BY <1>2 DEF IsMember, Said
<1>4. /\ {m \in Member : IsMember(v, "tagged", m)}' = {}
      /\ {m \in Member : IsMember(v, "untagged", m)}' = {}
    BY <1>3
<1>5. Says(v, "name")' = {} /\ Says(v, "address")' = {}
    BY <1>2 DEF Said
<1> QED
    BY <1>1, <1>4, <1>5 DEF Effective, HasBlock, EmptyVLAN

(* A statement in a block of VLAN v has on it the effect that the scanner  *)
(* gives it.                                                               *)
LEMMA EffectiveTaken ==
    ASSUME TypeOK, NEW l \in Line, text' = Append(text, l), NEW v \in Vlan, HasBlock(v),
           l.kind \in Said, InVLAN(v, Len(text) + 1),
           l.kind \in Kind => l.members # Malformed,
           NEW c \in VLANConfig, c = Effective(v)
    PROVE  Effective(v)' =
            IF l.kind = "name" THEN [c EXCEPT !.name = l.name]
            ELSE IF l.kind = "tagged" THEN [c EXCEPT !.tagged = Membership(@, l)]
            ELSE IF l.kind = "untagged" THEN [c EXCEPT !.untagged = Membership(@, l)]
            ELSE [c EXCEPT !.dhcp = l.dhcp]
<1> DEFINE NameOf == IF Says(v, "name") = {} THEN NoName ELSE text[Latest(Says(v, "name"))].name
           Members(kind) == {m \in Member : IsMember(v, kind, m)}
           DHCPOf == Says(v, "address") # {} /\ text[Latest(Says(v, "address"))].dhcp
<1>1. HasBlock(v)'
    BY HasBlockGrows
<1>2. ASSUME NEW kind \in Said, kind # l.kind
      PROVE  /\ Says(v, kind)' = Says(v, kind)
             /\ Says(v, kind) # {} => UNCHANGED text[Latest(Says(v, kind))]
             /\ \A m \in Member : IsMember(v, kind, m)' <=> IsMember(v, kind, m)
    BY <1>2, SaidKept
<1>3. c = [name |-> NameOf, tagged |-> Members("tagged"), untagged |-> Members("untagged"),
           dhcp |-> DHCPOf]
    BY DEF Effective, HasBlock
<1>4. Effective(v)' = [name |-> NameOf', tagged |-> Members("tagged")',
                       untagged |-> Members("untagged")', dhcp |-> DHCPOf']
    BY <1>1 DEF Effective, HasBlock
<1>5. NameOf' = IF l.kind = "name" THEN l.name ELSE NameOf
    <2>1. CASE l.kind = "name"
        BY <2>1, SaidNew
    <2>2. CASE l.kind # "name"
        BY <1>2, <2>2 DEF Said
    <2> QED
        BY <2>1, <2>2
<1>6. DHCPOf' = IF l.kind = "address" THEN l.dhcp ELSE DHCPOf
    <2>1. CASE l.kind = "address"
        <3>1. l.dhcp \in BOOLEAN
            BY <2>1, LineKinds
        <3>2. Says(v, "address")' # {} /\ text[Latest(Says(v, "address"))]' = l
            BY <2>1, SaidNew
        <3>3. text[Latest(Says(v, "address"))]'.dhcp = l.dhcp
            BY <3>2
        <3>4. DHCPOf' = l.dhcp
            BY <3>1, <3>2, <3>3, Zenon
        <3> QED
            BY <2>1, <3>4
    <2>2. CASE l.kind # "address"
        BY <1>2, <2>2 DEF Said
    <2> QED
        BY <2>1, <2>2
<1>7. ASSUME NEW kind \in Kind
      PROVE  Members(kind)' = IF l.kind = kind THEN Membership(Members(kind), l) ELSE Members(kind)
    <2>1. CASE l.kind = kind
        <3>1. l.members \in SUBSET Member
            BY <2>1, LineKinds DEF MemberList
        <3>2. \A m \in Member : IsMember(v, kind, m)' <=>
                    IF m \in l.members THEN ~l.no ELSE IsMember(v, kind, m)
            BY <2>1, SaidNew
        <3> QED
            BY <2>1, <3>1, <3>2 DEF Membership, unionMembers, subtractMembers
    <2>2. CASE l.kind # kind
        BY <1>2, <2>2 DEF Said, Kind
    <2> QED
        BY <2>1, <2>2
<1>8. "tagged" \in Kind /\ "untagged" \in Kind
    BY DEF Kind
<1> HIDE DEF NameOf, Members, DHCPOf
<1> QED
    BY <1>3, <1>4, <1>5, <1>6, <1>7, <1>8 DEF Said

(* Every variable of both scanners keeps its type.                         *)
LEMMA TypeKept ==
    ASSUME TypeOK, NEW l \in Line, ReadLine(l)
    PROVE  TypeOK'
<1> USE DEF TypeOK
<1>1. text' \in Seq(Line)
    BY DEF ReadLine
<1>2. Flushed \in [Vlan -> VLANConfig \union {None}]
    BY DEF Flushed
<1>3. /\ vlans' \in [Vlan -> VLANConfig \union {None}] /\ vlan' \in Vlan \union {None}
      /\ cur' \in VLANConfig /\ vlanErr' \in BOOLEAN
    <2>1. CASE UNCHANGED vlanVars
        BY <2>1 DEF vlanVars
    <2>2. CASE OpenVLAN(l)
        <3>1. l.id \in Vlan
            BY <2>2 DEF OpenVLAN
        <3>2. EmptyVLAN \in VLANConfig
            BY DEF EmptyVLAN, VLANConfig
        <3> QED
            BY <1>2, <2>2, <3>1, <3>2 DEF OpenVLAN
    <2>3. CASE LeaveVLAN(l) \/ RefuseVLAN(l) \/ RefuseMembers(l)
        BY <1>2, <2>3 DEF LeaveVLAN, RefuseVLAN, RefuseMembers
    <2>4. CASE TakeStatement(l)
        <3>1. l.kind = "name" => l.name \in Name
            BY LineKinds
        <3>2. l.kind = "address" => l.dhcp \in BOOLEAN
            BY LineKinds
        <3>3. l.kind \in Kind /\ l.members # Malformed =>
                \A a \in SUBSET Member : Membership(a, l) \in SUBSET Member
            BY LineKinds DEF MemberList, Membership, unionMembers, subtractMembers
        <3> QED
            BY <2>4, <3>1, <3>2, <3>3 DEF TakeStatement, VLANConfig, Kind
    <2> QED
        BY <2>1, <2>2, <2>3, <2>4 DEF ReadLine, ScanVLANs, SkipStatement
<1>4. /\ ifaces' \in [Port -> InterfaceConfig \union {None}] /\ number' \in Port \union {None}
      /\ iface' \in InterfaceConfig \union {None} /\ ifaceErr' \in BOOLEAN
    <2>0. Closed \in [Port -> InterfaceConfig \union {None}]
        BY DEF Closed
    <2>1. CASE UNCHANGED ifaceVars
        BY <2>1 DEF ifaceVars
    <2>2. CASE OpenInterface(l) \/ LeaveInterface(l) \/ RefuseInterface(l)
        BY <2>0, <2>2 DEF OpenInterface, LeaveInterface, RefuseInterface
    <2>3. CASE InInterface(l)
        <3>1. l.kind = "name" => l.name \in Name
            BY LineKinds
        <3>2. Carried \in InterfaceConfig
            BY DEF Carried, EmptyInterface, InterfaceConfig
        <3> QED
            BY <2>3, <3>1, <3>2 DEF InInterface, InterfaceConfig
    <2> QED
        BY <2>1, <2>2, <2>3 DEF ReadLine, ScanInterfaces
<1>5. trunks' \in [Trunk -> TrunkConfig \union {None}] /\ trunkErr' \in BOOLEAN
    <2>1. CASE TakeTrunk(l)
        <3>1. l.id \in Trunk /\ l.mode \in Mode /\ l.ports \in (SUBSET Port) \ {{}}
            BY <2>1, LineKinds DEF TakeTrunk, TrunkLine
        <3>2. [ports |-> l.ports, mode |-> l.mode] \in TrunkConfig
            BY <3>1 DEF TrunkConfig
        <3> QED
            BY <2>1, <3>1, <3>2 DEF TakeTrunk
    <2>2. CASE ~TakeTrunk(l)
        BY <2>2 DEF ReadLine, ScanTrunks, RefuseTrunk, SkipLine, trunkVars
    <2> QED
        BY <2>1, <2>2
<1> QED
    BY <1>1, <1>3, <1>4, <1>5

(* Whether a member list in a VLAN's block is malformed.                   *)
Misstated == \E v \in Vlan, kind \in Kind : \E n \in Says(v, kind) : text[n].members = Malformed

LEMMA MisstatedGrows ==
    ASSUME TypeOK, NEW l \in Line, text' = Append(text, l)
    PROVE  Misstated' <=> \/ Misstated
                          \/ /\ l.kind \in Kind /\ l.members = Malformed
                             /\ \E v \in Vlan : InVLAN(v, Len(text) + 1)
<1>1. ASSUME NEW v \in Vlan, NEW kind \in Kind
      PROVE  (\E n \in Says(v, kind) : text[n].members = Malformed)' <=>
                \/ \E n \in Says(v, kind) : text[n].members = Malformed
                \/ l.kind = kind /\ l.members = Malformed /\ InVLAN(v, Len(text) + 1)
    <2>1. kind \in Said
        BY DEF Kind, Said
    <2>2. \A n \in Says(v, kind) : text'[n] = text[n]
        BY <2>1, SaysGrows, Grows DEF At
    <2>3. text'[Len(text) + 1] = l
        BY Grows
    <2> QED
        BY <2>1, <2>2, <2>3, SaysGrows
<1> DEFINE Bad(v, kind) == \E n \in Says(v, kind) : text[n].members = Malformed
<1>2. ASSUME Misstated'
      PROVE  \/ Misstated
             \/ /\ l.kind \in Kind /\ l.members = Malformed
                /\ \E v \in Vlan : InVLAN(v, Len(text) + 1)
    <2>1. PICK v \in Vlan, kind \in Kind : Bad(v, kind)'
        BY <1>2 DEF Misstated
    <2>2. CASE Bad(v, kind)
        BY <2>2 DEF Misstated
    <2>3. CASE ~Bad(v, kind)
        BY <1>1, <2>1, <2>3
    <2> QED
        BY <2>2, <2>3
<1>3. ASSUME Misstated PROVE Misstated'
    <2>1. PICK v \in Vlan, kind \in Kind : Bad(v, kind)
        BY <1>3 DEF Misstated
    <2>2. Bad(v, kind)'
        BY <1>1, <2>1
    <2> QED
        BY <2>2 DEF Misstated
<1>4. ASSUME l.kind \in Kind, l.members = Malformed, NEW v \in Vlan, InVLAN(v, Len(text) + 1)
      PROVE  Misstated'
    <2>1. PICK kind \in Kind : kind = l.kind
        BY <1>4
    <2>2. Bad(v, kind)'
        BY <1>1, <1>4, <2>1
    <2> QED
        BY <2>2 DEF Misstated
<1> QED
    BY <1>2, <1>3, <1>4

(* Whether the read of VLANs has to refuse the text.                       *)
Refused == (\E h \in At : text[h] = VLANHeader(OutOfRange)) \/ Misstated

LEMMA RefusedGrows ==
    ASSUME TypeOK, NEW l \in Line, text' = Append(text, l)
    PROVE  Refused' <=> \/ Refused
                        \/ l = VLANHeader(OutOfRange)
                        \/ /\ l.kind \in Kind /\ l.members = Malformed
                           /\ \E v \in Vlan : InVLAN(v, Len(text) + 1)
<1>1. (\E h \in At : text[h] = VLANHeader(OutOfRange))' <=>
        (\E h \in At : text[h] = VLANHeader(OutOfRange)) \/ l = VLANHeader(OutOfRange)
    BY Grows DEF At
<1> QED
    BY <1>1, MisstatedGrows DEF Refused

(* The invariant of the scan for VLANs, one kind of line at a time.        *)
LEMMA VLANScanKept ==
    ASSUME ScanInv, NEW l \in Line, ReadLine(l)
    PROVE  (~vlanErr => Position)' /\ VLANsAreEffective'
<1>1. TypeOK /\ TypeOK' /\ text' = Append(text, l) /\ ScanVLANs(l)
    BY TypeKept DEF ScanInv, ReadLine
<1>2. IF Refused THEN vlanErr ELSE ~vlanErr /\ Flushed = [v \in Vlan |-> Effective(v)]
    BY DEF ScanInv, VLANsAreEffective, Refused, Misstated
<1>3. Refused' <=> \/ Refused
                   \/ l = VLANHeader(OutOfRange)
                   \/ /\ l.kind \in Kind /\ l.members = Malformed
                      /\ \E v \in Vlan : InVLAN(v, Len(text) + 1)
    BY <1>1, RefusedGrows
<1>4. SUFFICES /\ ~vlanErr' => Position'
               /\ IF Refused' THEN vlanErr'
                  ELSE ~vlanErr' /\ Flushed' = [v \in Vlan |-> Effective(v)']
    BY DEF VLANsAreEffective, Refused, Misstated
<1>5. CASE vlanErr
    BY <1>1, <1>2, <1>3, <1>5 DEF ScanVLANs, vlanVars
<1>6. CASE ~vlanErr
    <2>1. /\ Position /\ ~Refused
          /\ \A v \in Vlan : Flushed[v] = Effective(v)
          /\ \A v \in Vlan : Flushed[v] = None <=> ~HasBlock(v)
        BY <1>2, <1>6 DEF ScanInv, Position, HasBlock
    <2>2. \A v \in Vlan : vlan = v <=> InVLAN(v, Len(text) + 1) /\ text[Len(text)].kind # "exit"
        BY <2>1 DEF Position
    <2>3. l \in Statement => text[Len(text)].kind # "exit"
        BY DEF ReadLine, MayFollow
    <2>4. Position' <=>
            \A v \in Vlan :
                /\ vlan' = v <=> /\ IF l \in Root THEN l = VLANHeader(v)
                                                  ELSE InVLAN(v, Len(text) + 1)
                                 /\ l.kind # "exit"
                /\ Flushed'[v] = None <=> ~(HasBlock(v) \/ l = VLANHeader(v))
        <3>1. text'[Len(text')].kind = l.kind
            BY <1>1, Grows
        <3>2. \A v \in Vlan :
                InVLAN(v, Len(text) + 1)' <=>
                    IF l \in Root THEN l = VLANHeader(v) ELSE InVLAN(v, Len(text) + 1)
            BY <1>1, InVLANGrows
        <3>3. \A v \in Vlan :
                (\A h \in At : text[h] # VLANHeader(v))' <=> ~(HasBlock(v) \/ l = VLANHeader(v))
            BY <1>1, HasBlockGrows DEF HasBlock
        <3> QED
            BY <3>1, <3>2, <3>3 DEF Position
    <2>5. Flushed' \in [Vlan -> VLANConfig \union {None}]
        BY <1>1 DEF Flushed, TypeOK
    <2>6. CASE OpenVLAN(l)
        <3>1. /\ l.id \in Vlan /\ l = VLANHeader(l.id) /\ l \in Root
              /\ l.kind = "vlan" /\ l.kind \notin Said /\ l.kind \notin Kind
              /\ l # VLANHeader(OutOfRange)
            BY <2>6, LineKinds, OutOfRangeAssumption DEF OpenVLAN, VLANHeader, Said, Kind
        <3>2. \A v \in Vlan : l = VLANHeader(v) <=> l.id = v
            BY <3>1, Headers
        <3>3. /\ vlan' = l.id /\ ~vlanErr'
              /\ \A v \in Vlan : v # l.id => Flushed'[v] = Flushed[v]
              /\ Flushed'[l.id] = IF Flushed[l.id] = None THEN EmptyVLAN ELSE Flushed[l.id]
            <4>1. Flushed \in [Vlan -> VLANConfig \union {None}]
                BY <1>1 DEF Flushed, TypeOK
            <4> QED
                BY <1>6, <2>6, <3>1, <4>1, NoneAssumption DEF OpenVLAN, Flushed
        <3>4. EmptyVLAN \in VLANConfig
            BY DEF EmptyVLAN, VLANConfig
        <3>5. ASSUME NEW v \in Vlan PROVE Flushed'[v] = Effective(v)'
            <4>1. CASE v # l.id \/ HasBlock(v)
                <5>1. Effective(v)' = Effective(v)
                    BY <1>1, <3>1, <3>2, <4>1, EffectiveKept
                <5> QED
                    BY <2>1, <3>3, <4>1, <5>1
            <4>2. CASE v = l.id /\ ~HasBlock(v)
                <5>1. Effective(v)' = EmptyVLAN
                    BY <1>1, <3>1, <4>2, EffectiveOpened
                <5> QED
                    BY <2>1, <3>3, <4>2, <5>1
            <4> QED
                BY <4>1, <4>2
        <3>6. Position'
            BY <2>1, <2>4, <3>1, <3>2, <3>3, <3>4, ConfigAssumption
        <3> QED
            BY <1>3, <2>1, <2>5, <3>1, <3>3, <3>5, <3>6
    <2>7. CASE LeaveVLAN(l)
        <3>1. /\ l.kind \notin Said /\ l.kind # "vlan" /\ l.kind \notin Kind
              /\ l # VLANHeader(OutOfRange)
            BY <2>7, LineKinds DEF LeaveVLAN, VLANHeader, Said, Kind
        <3>2. \A v \in Vlan : l # VLANHeader(v)
            BY <3>1, Headers
        <3>3. vlan' = None /\ ~vlanErr' /\ Flushed' = Flushed
            BY <1>6, <2>7 DEF LeaveVLAN, Flushed
        <3>4. \A v \in Vlan : Effective(v)' = Effective(v)
            BY <1>1, <3>1, <3>2, EffectiveKept
        <3>5. l \in Root \/ l.kind = "exit"
            BY <2>7 DEF LeaveVLAN
        <3>6. Position'
            BY <2>1, <2>4, <3>2, <3>3, <3>5, NoneAssumption
        <3> QED
            BY <1>3, <2>1, <2>5, <3>1, <3>3, <3>4, <3>6
    <2>8. CASE SkipStatement(l)
        <3>1. /\ l \in Statement /\ l \notin Root /\ l.kind # "exit" /\ l.kind # "vlan"
              /\ l # VLANHeader(OutOfRange)
            BY <2>8, LineKinds DEF SkipStatement, VLANHeader, Said
        <3>2. \A v \in Vlan : l # VLANHeader(v)
            BY <3>1, Headers
        <3>3. UNCHANGED vlanVars /\ Flushed' = Flushed
            BY <2>8 DEF SkipStatement, vlanVars, Flushed
        <3>4. \A v \in Vlan : ~(l.kind \in Said \union Kind /\ InVLAN(v, Len(text) + 1))
            BY <2>2, <2>3, <2>8, <3>1, NoneAssumption DEF SkipStatement, Said, Kind
        <3>5. \A v \in Vlan : Effective(v)' = Effective(v)
            BY <1>1, <3>2, <3>4, EffectiveKept
        <3>6. Position'
            BY <2>1, <2>2, <2>3, <2>4, <3>1, <3>2, <3>3 DEF vlanVars
        <3> QED
            BY <1>3, <1>6, <2>1, <2>5, <3>1, <3>3, <3>4, <3>5, <3>6 DEF vlanVars
    <2>9. ASSUME TakeStatement(l) \/ RefuseMembers(l)
          PROVE  /\ l \in Statement /\ l \notin Root /\ l.kind \in Said
                 /\ vlan \in Vlan /\ InVLAN(vlan, Len(text) + 1) /\ HasBlock(vlan)
                 /\ \A v \in Vlan : InVLAN(v, Len(text) + 1) => v = vlan
                 /\ \A v \in Vlan \union {OutOfRange} : l # VLANHeader(v)
        <3>1. l.kind \in Said /\ vlan # None
            BY <2>9 DEF TakeStatement, RefuseMembers, Said, Kind
        <3>2. l \in Statement /\ l \notin Root /\ l.kind # "vlan"
            BY <3>1, LineKinds DEF Said
        <3>3. vlan \in Vlan
            BY <1>1, <3>1 DEF TypeOK
        <3>4. InVLAN(vlan, Len(text) + 1)
            BY <2>2, <3>3
        <3>5. HasBlock(vlan)
            BY <3>4 DEF InVLAN, HasBlock
        <3> QED
            BY <2>2, <2>3, <3>1, <3>2, <3>3, <3>4, <3>5 DEF VLANHeader
    <2>10. CASE TakeStatement(l)
        <3>1. /\ vlan' = vlan /\ ~vlanErr'
              /\ cur' = IF l.kind = "name" THEN [cur EXCEPT !.name = l.name]
                        ELSE IF l.kind = "tagged" THEN [cur EXCEPT !.tagged = Membership(@, l)]
                        ELSE IF l.kind = "untagged" THEN [cur EXCEPT !.untagged = Membership(@, l)]
                        ELSE [cur EXCEPT !.dhcp = l.dhcp]
              /\ l.kind \in Kind => l.members # Malformed
            BY <1>6, <2>10 DEF TakeStatement, Kind
        <3>2. /\ Flushed'[vlan] = cur' /\ Flushed[vlan] = cur
              /\ \A v \in Vlan : v # vlan => Flushed'[v] = Flushed[v]
            BY <1>1, <2>9, <2>10 DEF TakeStatement, Flushed, TypeOK
        <3>3. cur \in VLANConfig /\ cur' \in VLANConfig
            BY <1>1 DEF TypeOK
        <3>4. ASSUME NEW v \in Vlan PROVE Flushed'[v] = Effective(v)'
            <4>1. CASE v = vlan
                BY <1>1, <2>1, <2>9, <2>10, <3>1, <3>2, <3>3, <4>1, EffectiveTaken
            <4>2. CASE v # vlan
                <5>1. Effective(v)' = Effective(v)
                    BY <1>1, <2>9, <2>10, <4>2, EffectiveKept
                <5> QED
                    BY <2>1, <3>2, <4>2, <5>1
            <4> QED
                BY <4>1, <4>2
        <3>5. l.kind # "exit"
            BY <2>9, <2>10 DEF Said
        <3>6. Position'
            BY <2>1, <2>2, <2>4, <2>9, <2>10, <3>1, <3>2, <3>3, <3>5, ConfigAssumption
               DEF TakeStatement
        <3> QED
            BY <1>3, <2>1, <2>5, <2>9, <2>10, <3>1, <3>4, <3>6
    <2>11. CASE RefuseMembers(l)
        BY <1>3, <2>9, <2>11 DEF RefuseMembers
    <2>12. CASE RefuseVLAN(l)
        <3>1. l = VLANHeader(OutOfRange)
            BY <2>12, LineKinds DEF RefuseVLAN
        <3> QED
            BY <1>3, <2>12, <3>1 DEF RefuseVLAN
    <2> QED
        BY <1>1, <1>6, <2>6, <2>7, <2>8, <2>10, <2>11, <2>12 DEF ScanVLANs
<1> QED
    BY <1>5, <1>6

-----------------------------------------------------------------------------
(* The scan for interfaces                                                 *)

(* The kinds of statement that say something of a port.                    *)
Tells == {"name", "disable"}

(* The statements of a kind in the block whose header is at h.             *)
SaysIn(h, kind) == {n \in At : Reaches(h, n) /\ text[n].kind = kind}

(* What a block says of its port, by its statements.                       *)
LEMMA SaidInUnfolded ==
    ASSUME NEW h
    PROVE  SaidIn(h) =
            IF SaysIn(h, "name") = {} /\ SaysIn(h, "disable") = {} THEN None
            ELSE [name |-> IF SaysIn(h, "name") = {} THEN NoName
                           ELSE text[Latest(SaysIn(h, "name"))].name,
                  shutdown |-> SaysIn(h, "disable") # {}]
BY DEF SaidIn, SaysIn

(* A line more adds itself to what the block it is in says.                *)
LEMMA SaysInGrows ==
    ASSUME TypeOK, NEW l \in Line, text' = Append(text, l), NEW N \in Nat, N = Len(text),
           NEW h \in 1..N, NEW kind \in Tells
    PROVE  /\ SaysIn(h, kind) \subseteq 1..N
           /\ SaysIn(h, kind)' = SaysIn(h, kind) \union
                (IF l.kind = kind /\ Reaches(h, N + 1) THEN {N + 1} ELSE {})
<1>1. /\ At = 1..N /\ At' = (1..N) \union {N + 1} /\ text'[N + 1] = l
      /\ \A n \in 1..N : text'[n] = text[n]
    BY Grows DEF At
<1>2. \A n \in 1..(N + 1) : Reaches(h, n)' <=> Reaches(h, n)
    BY ReachesGrows
<1>3. N + 1 \in 1..(N + 1) /\ \A n \in 1..N : n \in 1..(N + 1)
    OBVIOUS
<1>4. ASSUME NEW n \in 1..N PROVE n \in SaysIn(h, kind)' <=> n \in SaysIn(h, kind)
    BY <1>1, <1>2, <1>3 DEF SaysIn
<1>5. N + 1 \in SaysIn(h, kind)' <=> l.kind = kind /\ Reaches(h, N + 1)
    BY <1>1, <1>2, <1>3 DEF SaysIn
<1>6. SaysIn(h, kind) \subseteq 1..N /\ SaysIn(h, kind)' \subseteq (1..N) \union {N + 1}
    BY <1>1 DEF SaysIn
<1> QED
    BY <1>4, <1>5, <1>6

(* The latest of the statements before stays what it is.                   *)
LEMMA LatestIn ==
    ASSUME TypeOK, NEW l \in Line, text' = Append(text, l), NEW N \in Nat, N = Len(text),
           NEW h \in 1..N, SaysIn(h, "name") # {}
    PROVE  /\ Latest(SaysIn(h, "name")) \in 1..N
           /\ text[Latest(SaysIn(h, "name"))].name \in Name
           /\ SaysIn(h, "name")' = SaysIn(h, "name") =>
                UNCHANGED text[Latest(SaysIn(h, "name"))]
<1>1. SaysIn(h, "name") \in SUBSET (1..N)
    BY SaysInGrows DEF Tells
<1>2. PICK n \in SaysIn(h, "name") : n = Latest(SaysIn(h, "name"))
    BY <1>1, LatestExists
<1>3. n \in 1..N /\ text[n].kind = "name" /\ text[n] \in Line /\ text'[n] = text[n]
    BY <1>1, Grows DEF SaysIn, At
<1>4. text[n].name \in Name
    BY <1>3, LineKinds
<1>5. ASSUME SaysIn(h, "name")' = SaysIn(h, "name")
      PROVE  Latest(SaysIn(h, "name"))' = n
    <2>1. PICK S : S = SaysIn(h, "name") /\ S = SaysIn(h, "name")'
        BY <1>5
    <2>2. Latest(SaysIn(h, "name"))' = Latest(S) /\ Latest(SaysIn(h, "name")) = Latest(S)
        BY <2>1 DEF Latest
    <2> QED
        BY <1>2, <2>2
<1> QED
    BY <1>2, <1>3, <1>4, <1>5

(* What a block says is None or a configuration of the port.               *)
LEMMA SaidInType ==
    ASSUME TypeOK, NEW l \in Line, text' = Append(text, l), NEW h \in 1..Len(text)
    PROVE  SaidIn(h) \in InterfaceConfig \union {None}
<1>1. Len(text) \in Nat
    BY Grows
<1>2. SaysIn(h, "name") # {} => text[Latest(SaysIn(h, "name"))].name \in Name
    BY <1>1, LatestIn
<1> QED
    BY <1>2, SaidInUnfolded DEF InterfaceConfig

(* A block that a line says nothing in says what it said.                  *)
LEMMA SaidInKept ==
    ASSUME TypeOK, NEW l \in Line, text' = Append(text, l), NEW h \in 1..Len(text),
           ~(l.kind \in Tells /\ Reaches(h, Len(text) + 1))
    PROVE  SaidIn(h)' = SaidIn(h)
<1>1. Len(text) \in Nat
    BY Grows
<1>2. ASSUME NEW kind \in Tells PROVE SaysIn(h, kind)' = SaysIn(h, kind)
    <2>1. PICK N \in Nat : N = Len(text)
        BY <1>1
    <2>2. SaysIn(h, kind)' = SaysIn(h, kind) \union
                (IF l.kind = kind /\ Reaches(h, N + 1) THEN {N + 1} ELSE {})
        BY <2>1, SaysInGrows
    <2>3. ~(l.kind = kind /\ Reaches(h, N + 1))
        BY <2>1
    <2> QED
        BY <2>2, <2>3
<1>3. SaysIn(h, "name")' = SaysIn(h, "name") /\ SaysIn(h, "disable")' = SaysIn(h, "disable")
    BY <1>2 DEF Tells
<1>4. SaysIn(h, "name") # {} => UNCHANGED text[Latest(SaysIn(h, "name"))]
    BY <1>1, <1>3, LatestIn
<1>5. SaidIn(h)' =
        IF SaysIn(h, "name")' = {} /\ SaysIn(h, "disable")' = {} THEN None
        ELSE [name |-> IF SaysIn(h, "name")' = {} THEN NoName
                       ELSE text[Latest(SaysIn(h, "name"))]'.name,
              shutdown |-> SaysIn(h, "disable")' # {}]
    BY DEF SaidIn, SaysIn
<1> QED
    BY <1>3, <1>4, <1>5, SaidInUnfolded

(* A block in which a line says something says that, and what it said of   *)
(* the other field.                                                        *)
LEMMA SaidInNew ==
    ASSUME TypeOK, NEW l \in Line, text' = Append(text, l), NEW h \in 1..Len(text),
           l.kind \in Tells, Reaches(h, Len(text) + 1),
           NEW c, c = IF SaidIn(h) = None THEN EmptyInterface ELSE SaidIn(h)
    PROVE  SaidIn(h)' = IF l.kind = "name" THEN [c EXCEPT !.name = l.name]
                                           ELSE [name |-> c.name, shutdown |-> TRUE]
<1>0. PICK N \in Nat : N = Len(text)
    BY Grows
<1> DEFINE NameOf == IF SaysIn(h, "name") = {} THEN NoName
                     ELSE text[Latest(SaysIn(h, "name"))].name
           Off == SaysIn(h, "disable") # {}
<1>1. c = [name |-> NameOf, shutdown |-> Off]
    <2>1. CASE SaysIn(h, "name") = {} /\ SaysIn(h, "disable") = {}
        BY <2>1, SaidInUnfolded DEF EmptyInterface
    <2>2. CASE ~(SaysIn(h, "name") = {} /\ SaysIn(h, "disable") = {})
        <3>1. SaidIn(h) = [name |-> NameOf, shutdown |-> Off]
            BY <2>2, SaidInUnfolded
        <3>2. NameOf \in Name \union {NoName}
            BY <1>0, LatestIn
        <3>3. SaidIn(h) \in InterfaceConfig
            BY <3>1, <3>2 DEF InterfaceConfig
        <3> QED
            BY <3>1, <3>3, ConfigAssumption
    <2> QED
        BY <2>1, <2>2
<1>2. /\ \A kind \in Tells : SaysIn(h, kind) \subseteq 1..N
      /\ SaysIn(h, l.kind)' = SaysIn(h, l.kind) \union {N + 1}
      /\ \A kind \in Tells : kind # l.kind => SaysIn(h, kind)' = SaysIn(h, kind)
    <2>1. ASSUME NEW kind \in Tells
          PROVE  /\ SaysIn(h, kind) \subseteq 1..N
                 /\ SaysIn(h, kind)' = SaysIn(h, kind) \union
                        (IF l.kind = kind THEN {N + 1} ELSE {})
        <3>1. /\ SaysIn(h, kind) \subseteq 1..N
              /\ SaysIn(h, kind)' = SaysIn(h, kind) \union
                    (IF l.kind = kind /\ Reaches(h, N + 1) THEN {N + 1} ELSE {})
            BY <1>0, SaysInGrows
        <3>2. Reaches(h, N + 1)
            BY <1>0
        <3> QED
            BY <3>1, <3>2
    <2> QED
        BY <2>1
<1>3. SaidIn(h)' = [name |-> NameOf', shutdown |-> Off']
    <2>1. SaysIn(h, "name")' # {} \/ SaysIn(h, "disable")' # {}
        BY <1>2 DEF Tells
    <2> QED
        BY <2>1 DEF SaidIn, SaysIn
<1>4. Off' = IF l.kind = "name" THEN Off ELSE TRUE
    BY <1>2 DEF Tells
<1>5. NameOf' = IF l.kind = "name" THEN l.name ELSE NameOf
    <2>1. CASE l.kind = "name"
        <3>0. PICK M \in Nat : M = N + 1
            OBVIOUS
        <3>1. PICK S \in SUBSET (1..M) : S = SaysIn(h, "name")'
            <4>1. M \in 1..M /\ \A n \in 1..N : n \in 1..M
                BY <3>0
            <4>2. SaysIn(h, "name") \subseteq 1..N
                BY <1>2 DEF Tells
            <4> QED
                BY <1>2, <2>1, <3>0, <4>1, <4>2
        <3>2. M \in S
            BY <1>2, <2>1, <3>0, <3>1
        <3>3. Latest(S) = M
            <4>1. Latest(S) \in S /\ M <= Latest(S)
                BY <3>2, LatestExists
            <4>2. Latest(S) \in 1..M
                BY <3>1, <4>1
            <4> QED
                BY <3>0, <4>1, <4>2
        <3>4. Latest(SaysIn(h, "name"))' = Latest(S)
            BY <3>1 DEF Latest
        <3>5. text'[M] = l
            BY <1>0, <3>0, Grows
        <3>6. text[Latest(SaysIn(h, "name"))]' = l
            BY <3>3, <3>4, <3>5
        <3> QED
            BY <2>1, <3>1, <3>2, <3>6
    <2>2. CASE l.kind # "name"
        <3>1. SaysIn(h, "name")' = SaysIn(h, "name")
            BY <1>2, <2>2 DEF Tells
        <3>2. SaysIn(h, "name") # {} => UNCHANGED text[Latest(SaysIn(h, "name"))]
            BY <1>0, <3>1, LatestIn
        <3> QED
            BY <2>2, <3>1, <3>2
    <2> QED
        BY <2>1, <2>2
<1> HIDE DEF NameOf, Off
<1>6. CASE l.kind = "name"
    BY <1>1, <1>3, <1>4, <1>5, <1>6
<1>7. CASE l.kind # "name"
    <2>1. NameOf' = NameOf /\ Off' = TRUE
        BY <1>4, <1>5, <1>7
    <2>2. SaidIn(h)' = [name |-> NameOf, shutdown |-> TRUE]
        BY <1>3, <2>1, Zenon
    <2>3. c.name = NameOf
        BY <1>1
    <2> QED
        BY <1>7, <2>2, <2>3
<1> QED
    BY <1>6, <1>7

(* The block of a new header says nothing yet.                             *)
LEMMA SaidInNothing ==
    ASSUME TypeOK, NEW l \in Line, text' = Append(text, l), NEW N \in Nat, N = Len(text)
    PROVE  SaidIn(N + 1)' = None
<1>1. At' = (1..N) \union {N + 1}
    BY Grows DEF At
<1>2. \A n \in 1..(N + 1) : ~Reaches(N + 1, n)'
    BY ReachesGrows
<1>3. \A kind \in Tells : SaysIn(N + 1, kind)' = {}
    BY <1>1, <1>2 DEF SaysIn
<1>4. SaysIn(N + 1, "name")' = {} /\ SaysIn(N + 1, "disable")' = {}
    BY <1>3 DEF Tells
<1> QED
    BY <1>4 DEF SaidIn, SaysIn

(* A line that says nothing of port p leaves what is effective.            *)
LEMMA InterfaceKept ==
    ASSUME TypeOK, NEW l \in Line, text' = Append(text, l), NEW p \in Port,
           \A h \in At : text[h] = InterfaceHeader(p)
                            => ~(l.kind \in Tells /\ Reaches(h, Len(text) + 1))
    PROVE  EffectiveInterface(p)' = EffectiveInterface(p)
<1>0. PICK N \in Nat : N = Len(text)
    BY Grows
<1>1. /\ At = 1..N /\ At' = (1..N) \union {N + 1}
      /\ \A n \in 1..N : text'[n] = text[n]
    BY <1>0, Grows DEF At
<1>2. SaidIn(N + 1)' = None
    BY <1>0, SaidInNothing
<1>3. \A h \in 1..N : text[h] = InterfaceHeader(p) => SaidIn(h)' = SaidIn(h)
    BY <1>0, <1>1, SaidInKept
<1>4. Carrying(p)' = Carrying(p)
    BY <1>1, <1>2, <1>3 DEF Carrying
<1>5. Carrying(p) # {} => Latest(Carrying(p)) \in Carrying(p)
    <2>1. Carrying(p) \in SUBSET (1..N)
        BY <1>1 DEF Carrying
    <2> QED
        BY <2>1, LatestExists
<1>6. Latest(Carrying(p))' = Latest(Carrying(p))
    BY <1>4 DEF Latest
<1>7. \A h \in Carrying(p) : SaidIn(h)' = SaidIn(h)
    BY <1>1, <1>3 DEF Carrying
<1>8. Carrying(p) # {} => SaidIn(Latest(Carrying(p)))' = SaidIn(Latest(Carrying(p)))
    <2>1. PICK h : h = Latest(Carrying(p)) /\ h = Latest(Carrying(p))'
        BY <1>6
    <2>2. Carrying(p) # {} => SaidIn(h)' = SaidIn(h)
        BY <1>5, <1>7, <2>1
    <2>3. SaidIn(Latest(Carrying(p)))' = SaidIn(h)'
        BY <2>1 DEF SaidIn, Reaches
    <2>4. SaidIn(Latest(Carrying(p))) = SaidIn(h)
        BY <2>1
    <2> QED
        BY <2>2, <2>3, <2>4
<1> QED
    BY <1>4, <1>8 DEF EffectiveInterface

(* A line that says something in a block of port p makes that block, the   *)
(* latest, the effective one.                                              *)
LEMMA InterfaceTaken ==
    ASSUME TypeOK, NEW l \in Line, text' = Append(text, l), NEW p \in Port,
           NEW h \in At, text[h] = InterfaceHeader(p), Reaches(h, Len(text) + 1),
           l.kind \in Tells, SaidIn(h)' # None
    PROVE  EffectiveInterface(p)' = SaidIn(h)'
<1>0. PICK N \in Nat : N = Len(text)
    BY Grows
<1>1. /\ At = 1..N /\ At' = (1..N) \union {N + 1}
      /\ text'[N + 1] = l /\ \A n \in 1..N : text'[n] = text[n]
    BY <1>0, Grows DEF At
<1>2. InterfaceHeader(p) \in Root /\ l # InterfaceHeader(p)
    BY DEF InterfaceHeader, Root, Tells
<1>3. h \in Carrying(p)'
    BY <1>1 DEF Carrying
<1>4. ASSUME NEW k \in Carrying(p)' PROVE k <= h
    <2>1. k \in 1..N /\ text[k] \in Root
        BY <1>1, <1>2 DEF Carrying
    <2>2. \A i \in (h + 1)..N : text[i] \notin Root
        <3>1. h < N + 1 /\ (N + 1) - 1 = N
            BY <1>1
        <3> QED
            BY <1>0, <3>1 DEF Reaches
    <2>3. k \notin (h + 1)..N
        BY <2>1, <2>2
    <2> QED
        BY <1>1, <2>1, <2>3
<1>5. Latest(Carrying(p))' = h
    <2>0. PICK S : S = Carrying(p)'
        OBVIOUS
    <2>1. S \in SUBSET (1..N) /\ h \in S /\ \A k \in S : k <= h
        <3>1. \A k \in S : k \in 1..N
            BY <1>1, <1>2, <2>0 DEF Carrying
        <3> QED
            BY <1>3, <1>4, <2>0, <3>1
    <2>2. Latest(S) = h
        <3>1. Latest(S) \in S /\ h <= Latest(S)
            BY <2>1, LatestExists
        <3>2. Latest(S) \in 1..N /\ h \in 1..N /\ Latest(S) <= h
            BY <2>1, <3>1
        <3> QED
            BY <3>1, <3>2
    <2>3. Latest(Carrying(p))' = Latest(S)
        BY <2>0 DEF Latest
    <2> QED
        BY <2>2, <2>3
<1>6. SaidIn(Latest(Carrying(p)))' = SaidIn(h)'
    BY <1>5 DEF SaidIn, Reaches
<1> QED
    BY <1>3, <1>6 DEF EffectiveInterface

(* The invariant of the scan for interfaces, one kind of line at a time.   *)
LEMMA InterfaceScanKept ==
    ASSUME ScanInv, NEW l \in Line, ReadLine(l)
    PROVE  (~ifaceErr => InterfacePosition)' /\ InterfacesAreEffective'
<1> DEFINE OutOf == \E h \in At : text[h] = InterfaceHeader(OutOfRange)
           Open(h, p) == text[h] = InterfaceHeader(p) /\ Reaches(h, Len(text) + 1)
<1>1. TypeOK /\ TypeOK' /\ text' = Append(text, l) /\ ScanInterfaces(l)
    BY TypeKept DEF ScanInv, ReadLine
<1>2. PICK N \in Nat : N = Len(text)
    BY <1>1, Grows
<1>3. /\ At = 1..N /\ At' = (1..N) \union {N + 1} /\ Len(text') = N + 1
      /\ text'[N + 1] = l /\ \A n \in 1..N : text'[n] = text[n]
    BY <1>1, <1>2, Grows DEF At
<1>4. OutOf' <=> OutOf \/ l = InterfaceHeader(OutOfRange)
    BY <1>3
<1>5. IF OutOf THEN ifaceErr
      ELSE ~ifaceErr /\ Closed = [p \in Port |-> EffectiveInterface(p)]
    BY DEF ScanInv, InterfacesAreEffective
<1>6. SUFFICES /\ ~ifaceErr' => InterfacePosition'
               /\ IF OutOf' THEN ifaceErr'
                  ELSE ~ifaceErr' /\ Closed' = [p \in Port |-> EffectiveInterface(p)']
    BY DEF InterfacesAreEffective
<1>7. CASE ifaceErr
    BY <1>1, <1>4, <1>5, <1>7 DEF ScanInterfaces, ifaceVars
<1>8. CASE ~ifaceErr
    <2>1. /\ ~OutOf
          /\ \A p \in Port : Closed[p] = EffectiveInterface(p)
          /\ \A p \in Port : number = p <=> \E h \in 1..N : Open(h, p)
          /\ \A p \in Port : \A h \in 1..N : Open(h, p) => iface = SaidIn(h)
        BY <1>3, <1>5, <1>8 DEF ScanInv, InterfacePosition
    <2>2. Closed' \in [Port -> InterfaceConfig \union {None}]
        BY <1>1 DEF Closed, TypeOK
    <2>3. ASSUME NEW p \in Port
          PROVE  /\ \A h \in 1..N : Open(h, p)' <=> Open(h, p) /\ l \notin Root
                 /\ Open(N + 1, p)' <=> l = InterfaceHeader(p)
        <3>1. Len(text') + 1 = N + 2
            BY <1>3
        <3>2. /\ \A h \in 1..N : Reaches(h, N + 2)' <=> Reaches(h, N + 1) /\ l \notin Root
              /\ Reaches(N + 1, N + 2)'
            BY <1>1, <1>2, ReachesGrows
        <3>3. \A h : Open(h, p)' <=> text'[h] = InterfaceHeader(p) /\ Reaches(h, N + 2)'
            BY <3>1 DEF Reaches
        <3> QED
            BY <1>2, <1>3, <3>2, <3>3
    <2>4. SaidIn(N + 1)' = None
        BY <1>1, <1>2, SaidInNothing
    <2>5. ASSUME \A p \in Port : number' = p <=>
                    IF l \in Root THEN l = InterfaceHeader(p) ELSE number = p,
                 l \in Root => iface' = None,
                 \A p \in Port : \A h \in 1..N :
                    Open(h, p) /\ l \notin Root => iface' = SaidIn(h)'
          PROVE  InterfacePosition'
        <3>1. ASSUME NEW p \in Port
              PROVE  number' = p <=> \E h \in (1..N) \union {N + 1} : Open(h, p)'
            <4>1. l = InterfaceHeader(p) => l \in Root
                BY DEF Root
            <4> QED
                BY <2>1, <2>3, <2>5, <4>1
        <3>2. ASSUME NEW p \in Port, NEW h \in (1..N) \union {N + 1}, Open(h, p)'
              PROVE  iface' = SaidIn(h)'
            <4>1. CASE h \in 1..N
                BY <2>3, <2>5, <3>2, <4>1
            <4>2. CASE h = N + 1
                <5>1. l \in Root
                    BY <2>3, <3>2, <4>2 DEF Root
                <5> QED
                    BY <2>4, <2>5, <4>2, <5>1
            <4> QED
                BY <4>1, <4>2
        <3> QED
            BY <1>3, <3>1, <3>2 DEF InterfacePosition
    <2>6. CASE l \in Root
        <3>1. l.kind \notin Tells /\ l \notin Statement
            BY <2>6, LineKinds DEF Tells, Said
        <3>2. \A p \in Port : EffectiveInterface(p)' = EffectiveInterface(p)
            BY <1>1, <3>1, InterfaceKept
        <3>3. ifaces' = Closed /\ iface' = None
            BY <1>1, <1>8, <2>6, <3>1
               DEF ScanInterfaces, OpenInterface, LeaveInterface, RefuseInterface, InInterface
        <3>4. Closed' = Closed
            BY <3>3 DEF Closed
        <3>5. CASE l = InterfaceHeader(OutOfRange)
            <4>1. ifaceErr'
                BY <1>1, <1>8, <3>1, <3>5, OutOfRangeAssumption
                   DEF ScanInterfaces, OpenInterface, LeaveInterface, RefuseInterface,
                       InInterface, InterfaceHeader
            <4> QED
                BY <1>4, <3>5, <4>1
        <3>6. CASE l # InterfaceHeader(OutOfRange)
            <4>1. /\ l.kind = "interface" => l.id \in Port /\ l = InterfaceHeader(l.id)
                BY <3>6, LineKinds
            <4>2. ~ifaceErr' /\ number' = IF l.kind = "interface" THEN l.id ELSE None
                BY <1>1, <1>8, <3>1, <4>1
                   DEF ScanInterfaces, OpenInterface, LeaveInterface, RefuseInterface, InInterface
            <4>3. \A p \in Port : number' = p <=> l = InterfaceHeader(p)
                BY <4>1, <4>2, NoneAssumption DEF InterfaceHeader
            <4>4. InterfacePosition'
                BY <2>5, <2>6, <3>3, <4>3
            <4> QED
                BY <1>4, <2>1, <2>2, <3>2, <3>4, <3>6, <4>2, <4>4
        <3> QED
            BY <3>5, <3>6
    <2>7. CASE l \notin Root
        <3>1. l \in Statement /\ l.kind # "interface"
            BY <2>7, LineKinds DEF Line
        <3>2. InInterface(l)
            BY <1>1, <1>8, <2>7, <3>1
               DEF ScanInterfaces, OpenInterface, LeaveInterface, RefuseInterface
        <3>3. number' = number /\ ifaces' = ifaces /\ ~ifaceErr'
            BY <1>8, <3>2 DEF InInterface
        <3>4. ~OutOf'
            <4>1. l # InterfaceHeader(OutOfRange)
                BY <3>1 DEF InterfaceHeader
            <4> QED
                BY <1>4, <2>1, <4>1
        <3>5. number \in Port \union {None}
            BY <1>1 DEF TypeOK
        <3>6. CASE number = None \/ l.kind \notin Tells
            <4>1. iface' = iface
                BY <3>2, <3>6 DEF InInterface, Tells
            <4>2. ASSUME NEW p \in Port, NEW h \in 1..N, Open(h, p)
                  PROVE  l.kind \notin Tells
                BY <2>1, <3>6, <4>2, NoneAssumption
            <4>3. \A p \in Port : EffectiveInterface(p)' = EffectiveInterface(p)
                BY <1>1, <1>2, <1>3, <4>2, InterfaceKept
            <4>4. \A p \in Port : \A h \in 1..N : Open(h, p) => SaidIn(h)' = SaidIn(h)
                BY <1>1, <1>2, <4>2, SaidInKept
            <4>5. InterfacePosition'
                BY <2>1, <2>5, <2>7, <3>3, <4>1, <4>4
            <4>6. Closed' = Closed
                BY <3>3, <4>1 DEF Closed
            <4> QED
                BY <2>1, <2>2, <3>3, <3>4, <4>3, <4>5, <4>6
        <3>7. CASE number # None /\ l.kind \in Tells
            <4>1. PICK q \in Port : q = number
                BY <3>5, <3>7
            <4>2. PICK h \in 1..N : Open(h, q)
                BY <2>1, <4>1
            <4>3. \A k \in 1..N : \A p \in Port : Open(k, p) => p = q
                BY <2>1, <4>1
            <4>4. iface = SaidIn(h)
                BY <2>1, <4>1, <4>2
            <4>5. iface' = IF l.kind = "name" THEN [Carried EXCEPT !.name = l.name]
                                              ELSE [name |-> Carried.name, shutdown |-> TRUE]
                BY <3>2, <3>7 DEF InInterface, Tells
            <4>6. ASSUME NEW k \in 1..N, Open(k, q) PROVE SaidIn(k)' = iface'
                <5>1. iface = SaidIn(k)
                    BY <2>1, <4>1, <4>6
                <5>2. Carried = IF SaidIn(k) = None THEN EmptyInterface ELSE SaidIn(k)
                    BY <5>1 DEF Carried
                <5> QED
                    BY <1>1, <1>2, <3>7, <4>5, <4>6, <5>2, SaidInNew
            <4>7. iface' \in InterfaceConfig
                <5>1. Carried \in InterfaceConfig
                    BY <1>1 DEF Carried, TypeOK, EmptyInterface, InterfaceConfig
                <5>2. l.kind = "name" => l.name \in Name
                    BY LineKinds
                <5> QED
                    BY <4>5, <5>1, <5>2 DEF InterfaceConfig
            <4>8. iface' # None
                BY <4>7, ConfigAssumption
            <4>9. EffectiveInterface(q)' = iface'
                <5>1. SaidIn(h)' = iface'
                    BY <4>2, <4>6
                <5> QED
                    BY <1>1, <1>2, <1>3, <3>7, <4>1, <4>2, <4>8, <5>1, InterfaceTaken
            <4>10. ASSUME NEW p \in Port, p # q
                   PROVE  EffectiveInterface(p)' = EffectiveInterface(p)
                BY <1>1, <1>2, <1>3, <4>3, <4>10, InterfaceKept
            <4>11. InterfacePosition'
                BY <2>1, <2>5, <2>7, <3>3, <4>1, <4>3, <4>6
            <4>12. /\ Closed'[q] = iface'
                   /\ \A p \in Port : p # q => Closed'[p] = Closed[p]
                BY <1>1, <3>3, <3>7, <4>1, <4>8 DEF Closed, TypeOK
            <4>13. \A p \in Port : Closed'[p] = EffectiveInterface(p)'
                BY <2>1, <4>9, <4>10, <4>12
            <4> QED
                BY <2>2, <3>3, <3>4, <4>11, <4>13
        <3> QED
            BY <3>6, <3>7
    <2> QED
        BY <2>6, <2>7
<1> QED
    BY <1>7, <1>8

-----------------------------------------------------------------------------
(* The scan for trunks                                                     *)

(* The invariant of the scan for trunks, one kind of line at a time.       *)
LEMMA TrunkScanKept ==
    ASSUME ScanInv, NEW l \in Line, ReadLine(l)
    PROVE  TrunksAreEffective'
<1> DEFINE Bad == \E n \in At : text[n].kind = "trunk" /\ text[n].ports = Malformed
<1>1. TypeOK /\ TypeOK' /\ text' = Append(text, l) /\ ScanTrunks(l)
    BY TypeKept DEF ScanInv, ReadLine
<1>2. PICK N \in Nat : N = Len(text)
    BY <1>1, Grows
<1>3. /\ At = 1..N /\ At' = (1..N) \union {N + 1}
      /\ text'[N + 1] = l /\ \A n \in 1..N : text'[n] = text[n]
    BY <1>1, <1>2, Grows DEF At
<1>4. Bad' <=> Bad \/ (l.kind = "trunk" /\ l.ports = Malformed)
    BY <1>3
<1>5. IF Bad THEN trunkErr ELSE ~trunkErr /\ trunks = [t \in Trunk |-> EffectiveTrunk(t)]
    BY DEF ScanInv, TrunksAreEffective
<1>6. SUFFICES IF Bad' THEN trunkErr'
               ELSE ~trunkErr' /\ trunks' = [t \in Trunk |-> EffectiveTrunk(t)']
    BY DEF TrunksAreEffective
<1>7. CASE trunkErr
    BY <1>1, <1>4, <1>5, <1>7 DEF ScanTrunks, trunkVars
<1>8. CASE ~trunkErr
    <2>1. ASSUME NEW t \in Trunk
          PROVE  LinesOf(t) \subseteq 1..N /\
                 LinesOf(t)' = LinesOf(t) \union
                    (IF l.kind = "trunk" /\ l.id = t THEN {N + 1} ELSE {})
        BY <1>3 DEF LinesOf
    <2>2. ASSUME NEW t \in Trunk, ~(l.kind = "trunk" /\ l.id = t)
          PROVE  EffectiveTrunk(t)' = EffectiveTrunk(t)
        <3>1. PICK S \in SUBSET (1..N) : S = LinesOf(t) /\ S = LinesOf(t)'
            BY <2>1, <2>2
        <3>2. Latest(LinesOf(t))' = Latest(S) /\ Latest(LinesOf(t)) = Latest(S)
            BY <3>1 DEF Latest
        <3>3. S # {} => Latest(S) \in 1..N
            BY LatestExists
        <3>4. S # {} => text'[Latest(S)] = text[Latest(S)]
            BY <1>3, <3>3
        <3> QED
            BY <3>1, <3>2, <3>4 DEF EffectiveTrunk
    <2>3. ASSUME l.kind = "trunk", NEW t \in Trunk, t = l.id
          PROVE  EffectiveTrunk(t)' = [ports |-> l.ports, mode |-> l.mode]
        <3>0. PICK M \in Nat : M = N + 1
            OBVIOUS
        <3>1. PICK S \in SUBSET (1..M) : S = LinesOf(t)'
            <4>1. M \in 1..M /\ \A n \in 1..N : n \in 1..M
                BY <3>0
            <4> QED
                BY <2>1, <3>0, <4>1
        <3>2. M \in S
            BY <2>1, <2>3, <3>0, <3>1
        <3>3. Latest(S) = M
            <4>1. Latest(S) \in S /\ M <= Latest(S)
                BY <3>2, LatestExists
            <4>2. Latest(S) \in 1..M
                BY <3>1, <4>1
            <4> QED
                BY <3>0, <4>1, <4>2
        <3>4. Latest(LinesOf(t))' = M
            BY <3>1, <3>3 DEF Latest
        <3> QED
            BY <1>3, <3>0, <3>1, <3>2, <3>4 DEF EffectiveTrunk
    <2>4. CASE l.kind # "trunk"
        <3>1. UNCHANGED trunkVars
            BY <1>1, <2>4 DEF ScanTrunks, TakeTrunk, RefuseTrunk, SkipLine
        <3> QED
            BY <1>4, <1>5, <1>8, <2>2, <2>4, <3>1 DEF trunkVars
    <2>5. CASE l.kind = "trunk" /\ l.ports = Malformed
        <3>1. trunkErr'
            BY <1>1, <1>8, <2>5 DEF ScanTrunks, TakeTrunk, RefuseTrunk, SkipLine
        <3> QED
            BY <1>4, <2>5, <3>1
    <2>6. CASE l.kind = "trunk" /\ l.ports # Malformed
        <3>1. /\ ~trunkErr' /\ l.id \in Trunk
              /\ trunks' = [trunks EXCEPT ![l.id] = [ports |-> l.ports, mode |-> l.mode]]
            BY <1>1, <1>8, <2>6, LineKinds
               DEF ScanTrunks, TakeTrunk, RefuseTrunk, SkipLine, TrunkLine
        <3>2. ~Bad /\ ~Bad'
            BY <1>4, <1>5, <1>8, <2>6
        <3>3. \A t \in Trunk : trunks'[t] = EffectiveTrunk(t)'
            BY <1>1, <1>5, <2>2, <2>3, <2>6, <3>1, <3>2 DEF TypeOK
        <3> QED
            BY <1>1, <3>1, <3>2, <3>3 DEF TypeOK
    <2> QED
        BY <2>4, <2>5, <2>6
<1> QED
    BY <1>7, <1>8

-----------------------------------------------------------------------------

(* For texts of any length, over any VLANs, ports, trunks, members and     *)
(* names, the three reads are what the text says.                          *)
THEOREM ScanInvariant == Spec => []ScanInv
<1>1. Init => ScanInv
    <2> SUFFICES ASSUME Init PROVE ScanInv
        OBVIOUS
    <2>1. At = {}
        BY DEF Init, At
    <2>2. TypeOK
        <3>1. text \in Seq(Line)
            BY DEF Init
        <3>2. EmptyVLAN \in VLANConfig
            BY DEF EmptyVLAN, VLANConfig
        <3> QED
            BY <3>1, <3>2 DEF Init, TypeOK
    <2>3. Flushed = [v \in Vlan |-> None]
        BY DEF Init, Flushed
    <2>4. \A v \in Vlan : Effective(v) = None
        BY <2>1 DEF Effective
    <2>5. Position
        BY <2>1, <2>3, NoneAssumption DEF Init, Position, InVLAN
    <2>6. VLANsAreEffective
        BY <2>1, <2>3, <2>4 DEF Init, VLANsAreEffective, Says
    <2>7. \A p \in Port : EffectiveInterface(p) = None
        BY <2>1 DEF EffectiveInterface, Carrying
    <2>8. Closed = [p \in Port |-> None]
        BY DEF Init, Closed
    <2>9. InterfacePosition
        BY <2>1, NoneAssumption DEF Init, InterfacePosition
    <2>10. InterfacesAreEffective
        BY <2>1, <2>7, <2>8 DEF Init, InterfacesAreEffective
    <2>11. \A t \in Trunk : EffectiveTrunk(t) = None
        BY <2>1 DEF EffectiveTrunk, LinesOf
    <2>12. TrunksAreEffective
        BY <2>1, <2>11 DEF Init, TrunksAreEffective
    <2> QED
        BY <2>2, <2>5, <2>6, <2>9, <2>10, <2>12 DEF ScanInv
<1>2. ScanInv /\ [Next]_vars => ScanInv'
    <2> SUFFICES ASSUME ScanInv, [Next]_vars PROVE ScanInv'
        OBVIOUS
    <2>1. CASE Next
        BY <2>1, TypeKept, VLANScanKept, InterfaceScanKept, TrunkScanKept DEF Next, ScanInv
    <2>2. CASE UNCHANGED vars
        <3>1. TypeOK'
            BY <2>2 DEF vars, vlanVars, ifaceVars, trunkVars, ScanInv, TypeOK
        <3>2. (~vlanErr => Position)' /\ VLANsAreEffective'
            BY <2>2 DEF vars, vlanVars, ScanInv, Position, VLANsAreEffective,
                        Flushed, Effective, IsMember, Says, InVLAN, Reaches, At
        <3>3. (~ifaceErr => InterfacePosition)' /\ InterfacesAreEffective'
            <4>1. UNCHANGED <<text, ifaces, number, iface, ifaceErr>>
                BY <2>2 DEF vars, ifaceVars
            <4>2. At' = At /\ \A h, n : Reaches(h, n)' <=> Reaches(h, n)
                BY <4>1 DEF At, Reaches
            <4>3. \A h : SaidIn(h)' = SaidIn(h)
                BY <4>1, <4>2 DEF SaidIn
            <4>4. \A p \in Port : EffectiveInterface(p)' = EffectiveInterface(p)
                <5>1. \A p \in Port : Carrying(p)' = Carrying(p)
                    BY <4>1, <4>2, <4>3 DEF Carrying
                <5>2. ASSUME NEW p \in Port
                      PROVE  SaidIn(Latest(Carrying(p)))' = SaidIn(Latest(Carrying(p)))
                    <6>1. Latest(Carrying(p))' = Latest(Carrying(p))
                        BY <5>1 DEF Latest
                    <6> QED
                        BY <4>1, <4>2, <6>1 DEF SaidIn
                <5> QED
                    BY <5>1, <5>2 DEF EffectiveInterface
            <4>5. Closed' = Closed
                BY <4>1 DEF Closed
            <4>6. InterfacesAreEffective'
                BY <4>1, <4>2, <4>4, <4>5 DEF ScanInv, InterfacesAreEffective
            <4>7. ASSUME ~ifaceErr PROVE InterfacePosition'
                BY <4>1, <4>2, <4>3, <4>7 DEF ScanInv, InterfacePosition
            <4> QED
                BY <4>1, <4>6, <4>7
        <3>4. TrunksAreEffective'
            BY <2>2 DEF vars, trunkVars, ScanInv, TrunksAreEffective, EffectiveTrunk, LinesOf, At
        <3> QED
            BY <3>1, <3>2, <3>3, <3>4 DEF ScanInv
    <2> QED
        BY <2>1, <2>2
<1> QED
    BY <1>1, <1>2, PTL DEF Spec

(* What ParseRunningConfigVLANs returns is the effective configuration of  *)
(* every VLAN, and it refuses nothing but a malformed list of members and  *)
(* a header out of range.                                                  *)
THEOREM VLANReadIsEffective == Spec => []VLANsAreEffective
<1>1. ScanInv => VLANsAreEffective
    BY DEF ScanInv
<1> QED
    BY <1>1, ScanInvariant, PTL

(* What ParseRunningConfigInterfaces returns is, for every port, what its  *)
(* latest block that says something says, and it refuses nothing but a     *)
(* port out of range.                                                      *)
THEOREM InterfaceReadIsEffective == Spec => []InterfacesAreEffective
<1>1. ScanInv => InterfacesAreEffective
    BY DEF ScanInv
<1> QED
    BY <1>1, ScanInvariant, PTL

(* What ParseRunningConfigTrunks returns is the latest line of every trunk,*)
(* and it refuses nothing but ports that do not parse.                     *)
THEOREM TrunkReadIsEffective == Spec => []TrunksAreEffective
<1>1. ScanInv => TrunksAreEffective
    BY DEF ScanInv
<1> QED
    BY <1>1, ScanInvariant, PTL

(* A line changes the block it stands in, takes nothing out of the maps,   *)
(* and does not make good what was refused.                                *)
LEMMA LineOnlyAdds ==
    ASSUME TypeOK, TypeOK', NEW l \in Line, ReadLine(l)
    PROVE  /\ \A v \in Vlan :
                (Flushed')[v] # Flushed[v] => vlan' = v /\ (Flushed')[v] # None
           /\ \A p \in Port :
                (Closed')[p] # Closed[p] => number' = p /\ (Closed')[p] # None
           /\ \A t \in Trunk : trunks'[t] # trunks[t] => trunks'[t] # None
           /\ (vlanErr => vlanErr') /\ (ifaceErr => ifaceErr') /\ (trunkErr => trunkErr')
<1>1. \A v \in Vlan : (Flushed')[v] # Flushed[v] => vlan' = v /\ (Flushed')[v] # None
    <2> SUFFICES ASSUME NEW v \in Vlan, (Flushed')[v] # Flushed[v]
                 PROVE  vlan' = v /\ (Flushed')[v] # None
        OBVIOUS
    <2>1. Flushed = IF vlan = None THEN vlans ELSE [vlans EXCEPT ![vlan] = cur]
        BY DEF Flushed
    <2>2. Flushed' = IF vlan' = None THEN vlans' ELSE [vlans' EXCEPT ![vlan'] = cur']
        BY DEF Flushed
    <2>3. cur' # None /\ vlans \in [Vlan -> VLANConfig \union {None}]
        BY ConfigAssumption DEF TypeOK
    <2>4. vlans' = vlans \/ vlans' = Flushed
        BY DEF ReadLine, ScanVLANs, vlanVars, OpenVLAN, RefuseVLAN, LeaveVLAN, SkipStatement,
               TakeStatement, RefuseMembers
    <2>5. CASE UNCHANGED vlanVars \/ RefuseMembers(l)
        BY <2>1, <2>2, <2>5 DEF vlanVars, RefuseMembers
    <2>6. CASE OpenVLAN(l)
        BY <2>1, <2>2, <2>3, <2>6, NoneAssumption DEF OpenVLAN, TypeOK
    <2>7. CASE LeaveVLAN(l) \/ RefuseVLAN(l)
        BY <2>2, <2>7 DEF LeaveVLAN, RefuseVLAN
    <2>8. CASE TakeStatement(l)
        BY <2>1, <2>2, <2>3, <2>8 DEF TakeStatement, TypeOK
    <2> QED
        BY <2>5, <2>6, <2>7, <2>8 DEF ReadLine, ScanVLANs, SkipStatement
<1>2. \A p \in Port : (Closed')[p] # Closed[p] => number' = p /\ (Closed')[p] # None
    <2> SUFFICES ASSUME NEW p \in Port, (Closed')[p] # Closed[p]
                 PROVE  number' = p /\ (Closed')[p] # None
        OBVIOUS
    <2>1. Closed = IF number # None /\ iface # None
                   THEN [ifaces EXCEPT ![number] = iface] ELSE ifaces
        BY DEF Closed
    <2>2. Closed' = IF number' # None /\ iface' # None
                    THEN [ifaces' EXCEPT ![number'] = iface'] ELSE ifaces'
        BY DEF Closed
    <2>3. CASE UNCHANGED ifaceVars
        BY <2>1, <2>2, <2>3 DEF ifaceVars
    <2>4. CASE OpenInterface(l) \/ LeaveInterface(l) \/ RefuseInterface(l)
        BY <2>2, <2>4 DEF OpenInterface, LeaveInterface, RefuseInterface
    <2>5. CASE InInterface(l)
        <3>1. ifaces' = ifaces /\ number' = number
            BY <2>5, Zenon DEF InInterface
        <3>2. number = None => iface' = iface
            BY <2>5, Zenon DEF InInterface
        <3>3. number # None => iface' = iface \/ iface' # None
            <4>1. Carried \in InterfaceConfig
                BY DEF Carried, EmptyInterface, InterfaceConfig, TypeOK
            <4>2. l.kind = "name" => l.name \in Name
                BY LineKinds
            <4>3. l.kind = "name" => [Carried EXCEPT !.name = l.name] \in InterfaceConfig
                BY <4>1, <4>2 DEF InterfaceConfig
            <4>4. [name |-> Carried.name, shutdown |-> TRUE] \in InterfaceConfig
                BY <4>1 DEF InterfaceConfig
            <4> QED
                BY <2>5, <4>3, <4>4, ConfigAssumption DEF InInterface
        <3> QED
            BY <2>1, <2>2, <3>1, <3>2, <3>3 DEF TypeOK
    <2> QED
        BY <2>3, <2>4, <2>5 DEF ReadLine, ScanInterfaces
<1>3. \A t \in Trunk : trunks'[t] # trunks[t] => trunks'[t] # None
    <2>1. CASE TakeTrunk(l)
        <3>1. [ports |-> l.ports, mode |-> l.mode] \in TrunkConfig
            BY <2>1, LineKinds DEF TakeTrunk, TrunkLine, TrunkConfig
        <3> QED
            BY <2>1, <3>1, ConfigAssumption DEF TakeTrunk, TypeOK
    <2>2. CASE ~TakeTrunk(l)
        BY <2>2 DEF ReadLine, ScanTrunks, RefuseTrunk, SkipLine, trunkVars
    <2> QED
        BY <2>1, <2>2
<1>4. (vlanErr => vlanErr') /\ (ifaceErr => ifaceErr') /\ (trunkErr => trunkErr')
    BY DEF ReadLine, ScanVLANs, ScanInterfaces, ScanTrunks, vlanVars, ifaceVars, trunkVars
<1> QED
    BY <1>1, <1>2, <1>3, <1>4

(* However long the text, and wherever it is cut, the scanners show no     *)
(* VLAN, port or trunk that the whole text does not have.                  *)
THEOREM ReadsOnlyGrow == Spec => ReadOnlyGrows
<1>1. ScanInv /\ ScanInv' /\ [Next]_vars =>
        [/\ \A v \in Vlan :
              (Flushed')[v] # Flushed[v] => vlan' = v /\ (Flushed')[v] # None
         /\ \A p \in Port :
              (Closed')[p] # Closed[p] => number' = p /\ (Closed')[p] # None
         /\ \A t \in Trunk : trunks'[t] # trunks[t] => trunks'[t] # None
         /\ (vlanErr => vlanErr') /\ (ifaceErr => ifaceErr') /\ (trunkErr => trunkErr')]_vars
    BY LineOnlyAdds DEF ScanInv, Next
<1> QED
    BY <1>1, ScanInvariant, PTL DEF Spec, ReadOnlyGrows
=============================================================================
