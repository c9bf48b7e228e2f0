-------------------------- MODULE Members_proofs --------------------------
(***************************************************************************)
(* Proofs about member lists, for any MaxPort and any set of references:   *)
(* the loop invariant of FormatMemberRange, that ParseMemberRange reads    *)
(* its result back, and that the result is the one canonical string of its *)
(* members.                                                                *)
(***************************************************************************)
EXTENDS Members, TLAPS, SequenceTheorems, WellFoundedInduction

(* Adding a part adds the references it names.                             *)
LEMMA ExpandAppend ==
    ASSUME NEW s \in Seq(Part), NEW p \in Part
    PROVE  /\ Append(s, p) \in Seq(Part)
           /\ Len(Append(s, p)) = Len(s) + 1
           /\ Append(s, p)[Len(s) + 1] = p
           /\ \A i \in 1..Len(s) : Append(s, p)[i] = s[i]
           /\ Expand(Append(s, p)) =
                Expand(s) \union {r \in Ref : r.kind = p.kind /\ p.lo <= r.num /\ r.num <= p.hi}
<1>1. /\ Append(s, p) \in Seq(Part)
      /\ Len(Append(s, p)) = Len(s) + 1
      /\ Append(s, p)[Len(s) + 1] = p
      /\ \A i \in 1..Len(s) : Append(s, p)[i] = s[i]
    OBVIOUS
<1>2. Len(s) \in Nat
    OBVIOUS
<1> QED
    BY <1>1, <1>2 DEF Expand

(* Before the loops, every reference is pending.                           *)
LEMMA InitLoopInv == Init => LoopInv
<1> SUFFICES ASSUME Init PROVE LoopInv
    OBVIOUS
<1>1. TypeOK
    <2>1. left \in SUBSET Number /\ parts \in Seq(Part)
        BY DEF Init, Numbers
    <2>2. 0 \in 0..MaxPort
        BY MaxPortAssumption
    <2>3. /\ kind \in {"port", "trunk", "done"} /\ refs \in SUBSET Ref
          /\ open \in BOOLEAN /\ start \in 0..MaxPort /\ prev \in 0..MaxPort
        BY <2>2 DEF Init
    <2> QED
        BY <2>1, <2>3 DEF TypeOK
<1>2. Expand(parts) = {}
    BY DEF Init, Expand
<1>3. Pending = refs
    BY <1>1 DEF Init, TypeOK, Pending, Numbers, Ref, Number
<1> QED
    BY <1>1, <1>2, <1>3 DEF Init, LoopInv, Canonical

(* An iteration that continues the run moves one number into it.           *)
LEMMA ExtendKeeps ==
    ASSUME LoopInv, NEW n \in Number, Extend(n)
    PROVE  LoopInv'
<1> USE MaxPortAssumption DEF LoopInv, Extend, IsLeast
<1>1. TypeOK'
    <2>1. left' \in SUBSET Number /\ prev' \in 0..MaxPort
        BY DEF TypeOK, Number
    <2> QED
        BY <2>1 DEF TypeOK
<1>2. Pending' = Pending
    BY DEF TypeOK, Pending, Ref, Number
<1>3. Expand(parts)' = Expand(parts)
    BY DEF Expand
<1> QED
    BY <1>1, <1>2, <1>3 DEF Canonical, TypeOK, Number

(* The run that goes out, as a part, keeps the parts in order and apart.   *)
LEMMA FlushKeeps ==
    ASSUME LoopInv, open
    PROVE  /\ Flush \in Seq(Part)
           /\ Len(Flush) = Len(parts) + 1
           /\ \A i \in 1..Len(parts) : Flush[i] = parts[i]
           /\ Flush[Len(parts) + 1] = [kind |-> kind, lo |-> start, hi |-> prev]
           /\ Expand(Flush) = Expand(parts) \union
                {r \in Ref : r.kind = kind /\ start <= r.num /\ r.num <= prev}
           /\ \A i \in 1..Len(Flush) : Valid(Flush[i])
           /\ \A i, j \in 1..Len(Flush) : i < j =>
                \/ Flush[i].kind = "port" /\ Flush[j].kind = "trunk"
                \/ Flush[i].kind = Flush[j].kind /\ Flush[i].hi + 1 < Flush[j].lo
<1> DEFINE p == [kind |-> kind, lo |-> start, hi |-> prev]
<1>1. p \in Part /\ Valid(p) /\ parts \in Seq(Part)
    BY MaxPortAssumption DEF LoopInv, TypeOK, Part, Valid
<1>2. /\ Flush \in Seq(Part)
      /\ Len(Flush) = Len(parts) + 1
      /\ \A i \in 1..Len(parts) : Flush[i] = parts[i]
      /\ Flush[Len(parts) + 1] = p
      /\ Expand(Flush) = Expand(parts) \union
            {r \in Ref : r.kind = kind /\ start <= r.num /\ r.num <= prev}
    BY <1>1, ExpandAppend DEF Flush
<1>3. Len(parts) \in Nat
    BY <1>1
<1>4. \A i \in 1..Len(Flush) : Valid(Flush[i])
    BY <1>1, <1>2, <1>3 DEF LoopInv
<1>5. \A i \in 1..Len(parts) :
        \/ parts[i].kind = "port" /\ kind = "trunk"
        \/ parts[i].kind = kind /\ parts[i].hi + 1 < start
    BY DEF LoopInv
<1>6. \A i, j \in 1..Len(Flush) : i < j =>
        \/ Flush[i].kind = "port" /\ Flush[j].kind = "trunk"
        \/ Flush[i].kind = Flush[j].kind /\ Flush[i].hi + 1 < Flush[j].lo
    <2> SUFFICES ASSUME NEW i \in 1..Len(Flush), NEW j \in 1..Len(Flush), i < j
                 PROVE  \/ Flush[i].kind = "port" /\ Flush[j].kind = "trunk"
                        \/ Flush[i].kind = Flush[j].kind /\ Flush[i].hi + 1 < Flush[j].lo
        OBVIOUS
    <2>1. CASE j \in 1..Len(parts)
        BY <1>2, <1>3, <2>1 DEF LoopInv, Canonical
    <2>2. CASE j = Len(parts) + 1
        BY <1>2, <1>3, <1>5, <2>2
    <2> QED
        BY <1>2, <1>3, <2>1, <2>2
<1> QED
    BY <1>2, <1>4, <1>6

(* An iteration that starts a run moves the one before it to the parts.    *)
LEMMA BeginKeeps ==
    ASSUME LoopInv, NEW n \in Number, Begin(n)
    PROVE  LoopInv'
<1> USE MaxPortAssumption
<1>1. /\ TypeOK /\ n \in left /\ left' = left \ {n} /\ open' = TRUE
      /\ start' = n /\ prev' = n /\ UNCHANGED <<refs, kind>>
      /\ \A m \in left : n <= m
      /\ kind \in {"port", "trunk"}
    BY DEF LoopInv, Begin, IsLeast, TypeOK
<1>2. Pending' = (Pending \ {r \in Ref : open /\ r.kind = kind /\ start <= r.num /\ r.num <= prev})
                 \union {r \in Ref : r.kind = kind /\ r.num = n}
    <2>1. open => \A m \in left : prev < m
        BY DEF LoopInv
    <2> QED
        BY <1>1, <2>1 DEF Pending, TypeOK, Ref, Number
<1>3. {r \in Ref : r.kind = kind /\ r.num = n} \subseteq Pending
    BY <1>1 DEF Pending
<1>4. CASE open
    <2>1. parts' = Flush /\ prev + 1 < n
        BY <1>1, <1>4 DEF Begin, LoopInv, TypeOK, Number
    <2>2. refs' = Expand(parts)' \union Pending'
        <3> DEFINE run == {r \in Ref : r.kind = kind /\ start <= r.num /\ r.num <= prev}
        <3>1. Expand(parts)' = Expand(parts) \union run
            <4>1. Expand(parts)' = Expand(Flush)
                BY <2>1 DEF Expand
            <4> QED
                BY <1>4, <4>1, FlushKeeps
        <3>2. Pending' = (Pending \ run) \union {r \in Ref : r.kind = kind /\ r.num = n}
            BY <1>2, <1>4
        <3>3. refs' = Expand(parts) \union Pending
            BY <1>1 DEF LoopInv
        <3>4. run \subseteq Pending
            BY <1>4 DEF Pending
        <3> HIDE DEF run
        <3> QED
            BY <1>3, <3>1, <3>2, <3>3, <3>4
    <2>3. parts' \in Seq(Part) /\ (\A i \in 1..Len(parts') : Valid(parts'[i])) /\ Canonical'
        BY <1>4, <2>1, FlushKeeps DEF Canonical
    <2>4. \A i \in 1..Len(parts') :
            \/ kind = "trunk" /\ parts'[i].kind = "port"
            \/ parts'[i].kind = kind /\ parts'[i].hi + 1 < n
        <3> SUFFICES ASSUME NEW i \in 1..Len(parts')
                     PROVE  \/ kind = "trunk" /\ parts'[i].kind = "port"
                            \/ parts'[i].kind = kind /\ parts'[i].hi + 1 < n
            OBVIOUS
        <3>1. Len(parts) \in Nat /\ Len(parts') = Len(parts) + 1
            BY <1>1, <1>4, <2>1, FlushKeeps DEF TypeOK
        <3>2. CASE i \in 1..Len(parts)
            <4>1. parts'[i] = parts[i] /\ parts[i] \in Part
                BY <1>1, <1>4, <2>1, <3>2, FlushKeeps DEF TypeOK
            <4> QED
                BY <1>1, <1>4, <2>1, <3>2, <4>1 DEF LoopInv, TypeOK, Part, Number
        <3>3. CASE i = Len(parts) + 1
            <4>1. parts'[i] = [kind |-> kind, lo |-> start, hi |-> prev]
                BY <1>4, <2>1, <3>3, FlushKeeps
            <4> QED
                BY <2>1, <4>1
        <3> QED
            BY <3>1, <3>2, <3>3
    <2> QED
        BY <1>1, <2>2, <2>3, <2>4 DEF LoopInv, TypeOK, Number
<1>5. CASE ~open
    <2>1. UNCHANGED parts
        BY <1>5 DEF Begin
    <2>2. refs' = Expand(parts)' \union Pending'
        BY <1>1, <1>2, <1>3, <1>5, <2>1 DEF LoopInv, Expand
    <2>3. \A i \in 1..Len(parts) : kind = "trunk" /\ parts[i].kind = "port"
        BY <1>1, <1>5 DEF LoopInv
    <2> QED
        BY <1>1, <2>1, <2>2, <2>3 DEF LoopInv, TypeOK, Number, Canonical
<1> QED
    BY <1>4, <1>5

(* The end of a loop moves the last run to the parts.                      *)
LEMMA EndLoopKeeps ==
    ASSUME LoopInv, EndLoop
    PROVE  LoopInv'
<1> USE MaxPortAssumption
<1>1. /\ TypeOK /\ left = {} /\ open' = FALSE /\ UNCHANGED <<refs, start, prev>>
      /\ \/ kind = "port" /\ kind' = "trunk" /\ left' = Numbers("trunk")
         \/ kind = "trunk" /\ kind' = "done" /\ left' = {}
    BY DEF LoopInv, EndLoop, TypeOK
<1>2. Pending' = Pending \ {r \in Ref : open /\ r.kind = kind /\ start <= r.num /\ r.num <= prev}
    <2>1. CASE kind = "port"
        BY <1>1, <2>1 DEF Pending, Numbers, Ref, TypeOK
    <2>2. CASE kind = "trunk"
        BY <1>1, <2>2 DEF Pending, Ref, TypeOK
    <2> QED
        BY <1>1, <2>1, <2>2
<1>3. left' \in SUBSET Number
    BY <1>1 DEF Numbers
<1>4. CASE open
    <2>1. parts' = Flush
        BY <1>4 DEF EndLoop
    <2>2. refs' = Expand(parts)' \union Pending'
        <3> DEFINE run == {r \in Ref : r.kind = kind /\ start <= r.num /\ r.num <= prev}
        <3>1. Expand(parts)' = Expand(parts) \union run
            <4>1. Expand(parts)' = Expand(Flush)
                BY <2>1 DEF Expand
            <4> QED
                BY <1>4, <4>1, FlushKeeps
        <3>2. Pending' = Pending \ run
            BY <1>2, <1>4
        <3>3. refs' = Expand(parts) \union Pending
            BY <1>1 DEF LoopInv
        <3>4. run \subseteq Pending
            BY <1>4 DEF Pending
        <3> HIDE DEF run
        <3> QED
            BY <3>1, <3>2, <3>3, <3>4
    <2>3. parts' \in Seq(Part) /\ (\A i \in 1..Len(parts') : Valid(parts'[i])) /\ Canonical'
        BY <1>4, <2>1, FlushKeeps DEF Canonical
    <2>4. kind = "port" => \A i \in 1..Len(parts') : parts'[i].kind = "port"
        <3> SUFFICES ASSUME kind = "port", NEW i \in 1..Len(parts')
                     PROVE  parts'[i].kind = "port"
            OBVIOUS
        <3>1. Len(parts) \in Nat /\ Len(parts') = Len(parts) + 1
            BY <1>1, <1>4, <2>1, FlushKeeps DEF TypeOK
        <3>2. CASE i \in 1..Len(parts)
            BY <1>4, <2>1, <3>2, FlushKeeps DEF LoopInv
        <3>3. CASE i = Len(parts) + 1
            BY <1>4, <2>1, <3>3, FlushKeeps
        <3> QED
            BY <3>1, <3>2, <3>3
    <2> QED
        BY <1>1, <1>3, <2>2, <2>3, <2>4 DEF LoopInv, TypeOK
<1>5. CASE ~open
    <2>1. UNCHANGED parts
        BY <1>5 DEF EndLoop
    <2>2. refs' = Expand(parts)' \union Pending'
        BY <1>1, <1>2, <1>5, <2>1 DEF LoopInv, Expand
    <2>3. kind = "port" => \A i \in 1..Len(parts) : parts[i].kind = "port"
        BY <1>5 DEF LoopInv
    <2>4. TypeOK'
        BY <1>1, <1>3, <2>1 DEF TypeOK
    <2>5. Canonical' /\ \A i \in 1..Len(parts') : Valid(parts'[i])
        BY <2>1 DEF LoopInv, Canonical
    <2>6. \A i \in 1..Len(parts') : kind' = "done" \/ (kind' = "trunk" /\ parts'[i].kind = "port")
        BY <1>1, <2>1, <2>3 DEF TypeOK
    <2> QED
        BY <1>1, <2>2, <2>4, <2>5, <2>6 DEF LoopInv
<1> QED
    BY <1>4, <1>5

(* The loops of FormatMemberRange keep every reference, once, in order.    *)
THEOREM LoopInvariant == Spec => []LoopInv
<1>1. ASSUME LoopInv, [Next]_vars PROVE LoopInv'
    <2>1. ASSUME NEW n \in Number, Extend(n) \/ Begin(n) PROVE LoopInv'
        BY <1>1, <2>1, ExtendKeeps, BeginKeeps
    <2>2. CASE EndLoop
        BY <1>1, <2>2, EndLoopKeeps
    <2>3. CASE UNCHANGED vars
        BY <1>1, <2>3 DEF vars, LoopInv, TypeOK, Expand, Pending, Canonical
    <2> QED
        BY <1>1, <2>1, <2>2, <2>3 DEF Next
<1> QED
    BY <1>1, InitLoopInv, PTL DEF Spec

(* ParseMemberRange reads back exactly the members that were formatted.    *)
THEOREM FormatRoundTrips == Spec => []RoundTrip
<1>1. LoopInv => RoundTrip
    <2> SUFFICES ASSUME LoopInv, Done, refs # {}
                 PROVE  ParseMemberRange(parts) = refs
        BY DEF RoundTrip
    <2>1. Pending = {}
        BY DEF LoopInv, Done, Pending
    <2>2. refs = Expand(parts)
        BY <2>1 DEF LoopInv
    <2>3. parts # <<>>
        BY <2>2 DEF Expand
    <2> QED
        BY <2>2, <2>3 DEF ParseMemberRange, LoopInv
<1> QED
    BY <1>1, LoopInvariant, PTL

(* The member string is canonical.                                         *)
THEOREM FormatIsCanonical == Spec => []Canonical
<1>1. LoopInv => Canonical
    BY DEF LoopInv
<1> QED
    BY <1>1, LoopInvariant, PTL

(* A list of parts that FormatMemberRange may give: in bounds and in the   *)
(* order of Canonical.                                                     *)
IsCanonical(s) ==
    /\ s \in Seq(Part)
    /\ \A i \in 1..Len(s) : Valid(s[i])
    /\ \A i, j \in 1..Len(s) : i < j =>
        \/ s[i].kind = "port" /\ s[j].kind = "trunk"
        \/ s[i].kind = s[j].kind /\ s[i].hi + 1 < s[j].lo

(* The parts of a canonical list, and their types.                         *)
LEMMA CanonicalParts ==
    ASSUME NEW s, IsCanonical(s)
    PROVE  \E n \in Nat :
            /\ n = Len(s)
            /\ \A i \in 1..n : /\ s[i] \in Part /\ Valid(s[i])
                              /\ s[i].kind \in {"port", "trunk"}
                              /\ s[i].lo \in Int /\ s[i].hi \in Int
<1>1. PICK n \in Nat : n = Len(s)
    BY DEF IsCanonical
<1>2. ASSUME NEW i \in 1..n
      PROVE  /\ s[i] \in Part /\ Valid(s[i]) /\ s[i].kind \in {"port", "trunk"}
             /\ s[i].lo \in Int /\ s[i].hi \in Int
    <2>1. s[i] \in Part
        BY <1>1 DEF IsCanonical
    <2> QED
        BY <1>1, <2>1 DEF IsCanonical, Part
<1> QED
    BY <1>1, <1>2

(* Where two canonical lists of the same members first differ, the one     *)
(* cannot have a part that the other lacks: nothing in the other would     *)
(* name the lower bound of that part.                                      *)
LEMMA SameStart ==
    ASSUME NEW s, NEW t, IsCanonical(s), IsCanonical(t), Expand(s) = Expand(t),
           NEW i \in Nat, i \in 1..Len(s),
           \A j \in 1..(i - 1) : j \in 1..Len(t) /\ s[j] = t[j]
    PROVE  /\ i \in 1..Len(t)
           /\ t[i].kind = "port" \/ s[i].kind = "trunk"
           /\ t[i].kind = s[i].kind => t[i].lo <= s[i].lo
<1> DEFINE r == [kind |-> s[i].kind, num |-> s[i].lo]
<1>1. PICK m \in Nat, n \in Nat : m = Len(s) /\ n = Len(t)
    BY DEF IsCanonical
<1>2. /\ s[i] \in Part /\ Valid(s[i]) /\ s[i].kind \in {"port", "trunk"}
      /\ s[i].lo \in Int /\ s[i].hi \in Int
    BY CanonicalParts
<1>3. r \in Ref
    BY <1>2, MaxPortAssumption DEF Valid, Ref, Number
<1>4. r \in Expand(s)
    BY <1>2, <1>3 DEF Expand, Valid
<1>5. PICK j \in 1..Len(t) : t[j].kind = s[i].kind /\ t[j].lo <= s[i].lo /\ s[i].lo <= t[j].hi
    BY <1>4 DEF Expand
<1>6. /\ \A k \in 1..n : t[k].lo \in Int /\ t[k].hi \in Int
      /\ \A k \in 1..n : Valid(t[k]) /\ t[k].kind \in {"port", "trunk"}
    BY <1>1, CanonicalParts
<1>7. ~(j < i)
    <2> SUFFICES ASSUME j < i PROVE FALSE
        OBVIOUS
    <2>1. j \in 1..m /\ s[j] = t[j]
        BY <1>1
    <2>2. s[j].kind = s[i].kind /\ s[j].hi + 1 < s[i].lo
        BY <1>1, <1>2, <1>5, <2>1 DEF IsCanonical
    <2> QED
        BY <1>1, <1>2, <1>5, <1>6, <2>1, <2>2
<1>8. i \in 1..n /\ i <= j
    BY <1>1, <1>7
<1>9. CASE i = j
    BY <1>1, <1>2, <1>5, <1>8, <1>9
<1>10. CASE i < j
    <2>1. \/ t[i].kind = "port" /\ t[j].kind = "trunk"
          \/ t[i].kind = t[j].kind /\ t[i].hi + 1 < t[j].lo
        BY <1>1, <1>8, <1>10 DEF IsCanonical
    <2>2. t[i].lo <= t[i].hi
        BY <1>6, <1>8 DEF Valid
    <2> QED
        BY <1>1, <1>2, <1>5, <1>6, <1>8, <2>1, <2>2
<1> QED
    BY <1>1, <1>8, <1>9, <1>10

(* And where both have a part with the same lower bound, the part of the   *)
(* one does not end before that of the other: nothing else in the one      *)
(* would name the number after it.                                         *)
LEMMA SameEnd ==
    ASSUME NEW s, NEW t, IsCanonical(s), IsCanonical(t), Expand(s) = Expand(t),
           NEW i \in Nat, i \in 1..Len(s), i \in 1..Len(t),
           s[i].kind = t[i].kind, s[i].lo = t[i].lo
    PROVE  t[i].hi <= s[i].hi
<1> SUFFICES ASSUME s[i].hi < t[i].hi PROVE FALSE
    BY CanonicalParts
<1> DEFINE r == [kind |-> s[i].kind, num |-> s[i].hi + 1]
<1>1. PICK m \in Nat, n \in Nat : m = Len(s) /\ n = Len(t)
    BY DEF IsCanonical
<1>2. /\ \A k \in 1..m : s[k].lo \in Int /\ s[k].hi \in Int
      /\ \A k \in 1..m : Valid(s[k]) /\ s[k].kind \in {"port", "trunk"}
      /\ t[i].lo \in Int /\ t[i].hi \in Int /\ Valid(t[i])
    BY <1>1, CanonicalParts
<1>3. r \in Ref
    BY <1>1, <1>2, MaxPortAssumption DEF Valid, Ref, Number
<1>4. r \in Expand(t)
    BY <1>1, <1>2, <1>3 DEF Expand, Valid
<1>5. PICK j \in 1..Len(s) : /\ s[j].kind = s[i].kind
                             /\ s[j].lo <= s[i].hi + 1 /\ s[i].hi + 1 <= s[j].hi
    BY <1>4 DEF Expand
<1>6. CASE j < i
    <2>1. s[j].hi + 1 < s[i].lo
        BY <1>1, <1>2, <1>5, <1>6 DEF IsCanonical
    <2> QED
        BY <1>1, <1>2, <1>5, <2>1 DEF Valid
<1>7. CASE i < j
    <2>1. s[i].hi + 1 < s[j].lo
        BY <1>1, <1>2, <1>5, <1>7 DEF IsCanonical
    <2> QED
        BY <1>1, <1>2, <1>5, <2>1
<1>8. CASE i = j
    BY <1>1, <1>2, <1>5, <1>8
<1> QED
    BY <1>1, <1>6, <1>7, <1>8

(* Two member strings in canonical form that name the same members are the *)
(* same string.  So a member list has one string, whatever order its set   *)
(* was walked in, and comparing strings is comparing members.              *)
THEOREM CanonicalIsUnique ==
    ASSUME NEW s, NEW t, IsCanonical(s), IsCanonical(t), Expand(s) = Expand(t)
    PROVE  s = t
<1>1. PICK m \in Nat, n \in Nat : m = Len(s) /\ n = Len(t)
    BY DEF IsCanonical
<1> DEFINE Differ == {i \in Nat : \/ i \in 1..m /\ ~(i \in 1..n /\ s[i] = t[i])
                                  \/ i \in 1..n /\ ~(i \in 1..m /\ s[i] = t[i])}
<1>2. CASE Differ = {}
    <2>1. m = n
        <3>1. m \notin Differ /\ n \notin Differ
            BY <1>2
        <3> QED
            BY <1>1, <3>1
    <2>2. \A i \in 1..m : s[i] = t[i]
        BY <1>2, <2>1
    <2>3. s \in Seq(Part) /\ t \in Seq(Part)
        BY DEF IsCanonical
    <2> HIDE DEF Differ
    <2> QED
        BY <1>1, <2>1, <2>2, <2>3, SeqEqual
<1>3. CASE Differ # {}
    <2>1. PICK i \in Differ : \A j \in Differ : ~(j < i)
        <3>1. \E i \in Differ : \A j \in Differ : ~(<<j, i>> \in OpToRel(<, Nat))
            BY <1>3, NatLessThanWellFounded, WFMin
        <3> QED
            BY <3>1 DEF OpToRel
    <2>2. i \in Nat /\ \A j \in 1..(i - 1) : j \notin Differ
        BY <2>1
    <2>3. \A j \in 1..(i - 1) : j \in 1..m /\ j \in 1..n /\ s[j] = t[j]
        BY <1>1, <2>1, <2>2
    <2>4. i \in 1..m /\ i \in 1..n
        BY <1>1, <2>1, <2>3, SameStart
    <2>5. /\ s[i].kind \in {"port", "trunk"} /\ t[i].kind \in {"port", "trunk"}
          /\ s[i] \in Part /\ t[i] \in Part
        BY <1>1, <2>4, CanonicalParts
    <2>6. s[i].kind = t[i].kind
        BY <1>1, <2>3, <2>4, <2>5, SameStart
    <2>7. s[i].lo = t[i].lo
        <3>1. t[i].lo <= s[i].lo /\ s[i].lo <= t[i].lo
            BY <1>1, <2>3, <2>4, <2>6, SameStart
        <3> QED
            BY <2>5, <3>1 DEF Part
    <2>8. s[i].hi = t[i].hi
        <3>1. t[i].hi <= s[i].hi /\ s[i].hi <= t[i].hi
            BY <1>1, <2>4, <2>6, <2>7, SameEnd
        <3> QED
            BY <2>5, <3>1 DEF Part
    <2>9. s[i] = t[i]
        BY <2>5, <2>6, <2>7, <2>8 DEF Part
    <2> QED
        BY <1>1, <2>1, <2>4, <2>9
<1> QED
    BY <1>2, <1>3

(* What FormatMemberRange gives is the one canonical string of the members *)
(* it was given.                                                           *)
THEOREM FormatIsTheString ==
    Spec => [](Done /\ refs # {} =>
                \A s : IsCanonical(s) /\ ParseMemberRange(s) = refs => s = parts)
<1>1. LoopInv /\ RoundTrip => (Done /\ refs # {} =>
                \A s : IsCanonical(s) /\ ParseMemberRange(s) = refs => s = parts)
    <2> SUFFICES ASSUME LoopInv, RoundTrip, Done, refs # {},
                        NEW s, IsCanonical(s), ParseMemberRange(s) = refs
                 PROVE  s = parts
        OBVIOUS
    <2>1. Expand(s) = refs /\ Expand(parts) = refs
        BY DEF RoundTrip, ParseMemberRange, Invalid
    <2>2. IsCanonical(parts)
        BY DEF LoopInv, TypeOK, Canonical, IsCanonical
    <2> QED
        BY <2>1, <2>2, CanonicalIsUnique
<1> QED
    BY <1>1, LoopInvariant, FormatRoundTrips, PTL
=============================================================================
