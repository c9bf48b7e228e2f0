------------------------------ MODULE Members ------------------------------
(***************************************************************************)
(* The member lists of internal/client/member.go: FormatMemberRange, which *)
(* collapses a set of references into the ranges of a CLI member string,   *)
(* one loop iteration per step, and ParseMemberRange, which reads such a   *)
(* string back (and those the switch prints).  A string is the sequence of *)
(* its comma-separated parts, a part a kind with its two bounds; a single  *)
(* reference is the part whose bounds are equal.                           *)
(***************************************************************************)
EXTENDS Integers, Sequences

CONSTANT MaxPort    \* the highest port and trunk number (255 in the code)

ASSUME MaxPortAssumption == MaxPort \in Nat \ {0}

Number == 1..MaxPort

(* Canonical references: a port "24" or a trunk circuit "Trk1".  They are  *)
(* all that ParseMember and ParseMemberRange return; how ParseMember reads *)
(* another spelling of one is not modelled.                                *)
Ref == [kind : {"port", "trunk"}, num : Number]

Part == [kind : {"port", "trunk"}, lo : Int, hi : Int]

-----------------------------------------------------------------------------
(* ParseMemberRange                                                        *)

(* An error comes with no members, and only an error does.                 *)
Invalid == {}

(* parseOneRange and trunkMembers: the checks on a part's bounds.          *)
Valid(part) == 1 <= part.lo /\ part.lo <= part.hi /\ part.hi <= MaxPort

(* The references that some part names, each once.                         *)
Expand(parts) ==
    {r \in Ref : \E i \in 1..Len(parts) :
        /\ parts[i].kind = r.kind
        /\ parts[i].lo <= r.num
        /\ r.num <= parts[i].hi}

(* An empty string and any part out of bounds are errors.                  *)
ParseMemberRange(parts) ==
    IF parts = <<>> \/ \E i \in 1..Len(parts) : ~Valid(parts[i])
    THEN Invalid
    ELSE Expand(parts)

-----------------------------------------------------------------------------
(* FormatMemberRange                                                       *)

VARIABLES refs,          \* the references to format
          kind,          \* the loop that runs: over the ports, then the trunks
          left,          \* the numbers it has yet to visit
          open,          \* has it visited one, so that start and prev are set?
          start, prev,   \* the run of consecutive numbers it is in
          parts          \* the parts so far

vars == <<refs, kind, left, open, start, prev, parts>>

Numbers(k) == {n \in Number : [kind |-> k, num |-> n] \in refs}

Init ==
    /\ refs \in SUBSET Ref
    /\ kind = "port"
    /\ left = Numbers("port")
    /\ open = FALSE
    /\ start = 0
    /\ prev = 0
    /\ parts = <<>>

IsLeast(n) == n \in left /\ \A m \in left : n <= m

(* flush and flushTrunk.                                                   *)
Flush == Append(parts, [kind |-> kind, lo |-> start, hi |-> prev])

(* n continues the run.                                                    *)
Extend(n) ==
    /\ IsLeast(n) /\ open /\ n = prev + 1
    /\ prev' = n
    /\ left' = left \ {n}
    /\ UNCHANGED <<refs, kind, open, start, parts>>

\* A slip to rule out: a number that continues the run taken to start one.
BeginAnyway(n) ==
    /\ IsLeast(n)
    /\ parts' = IF open THEN Flush ELSE parts
    /\ open' = TRUE
    /\ start' = n
    /\ prev' = n
    /\ left' = left \ {n}
    /\ UNCHANGED <<refs, kind>>

(* n starts a run; the run before it, if any, goes out.                    *)
Begin(n) ==
    /\ IsLeast(n)
    /\ ~open \/ n # prev + 1
    /\ parts' = IF open THEN Flush ELSE parts
    /\ open' = TRUE
    /\ start' = n
    /\ prev' = n
    /\ left' = left \ {n}
    /\ UNCHANGED <<refs, kind>>

\* A slip to rule out: no flush after the loop.
EndLoopUnflushed ==
    /\ kind # "done" /\ left = {}
    /\ open' = FALSE
    /\ IF kind = "port"
       THEN kind' = "trunk" /\ left' = Numbers("trunk")
       ELSE kind' = "done" /\ UNCHANGED left
    /\ UNCHANGED <<refs, start, prev, parts>>

(* The loop ends, and the last run goes out.                               *)
EndLoop ==
    /\ kind # "done" /\ left = {}
    /\ parts' = IF open THEN Flush ELSE parts
    /\ open' = FALSE
    /\ IF kind = "port"
       THEN kind' = "trunk" /\ left' = Numbers("trunk")
       ELSE kind' = "done" /\ UNCHANGED left
    /\ UNCHANGED <<refs, start, prev>>

Next == (\E n \in Number : Extend(n) \/ Begin(n)) \/ EndLoop

Spec == Init /\ [][Next]_vars /\ WF_vars(Next)

-----------------------------------------------------------------------------

TypeOK ==
    /\ refs \in SUBSET Ref
    /\ kind \in {"port", "trunk", "done"}
    /\ left \in SUBSET Number
    /\ open \in BOOLEAN
    /\ start \in 0..MaxPort
    /\ prev \in 0..MaxPort
    /\ parts \in Seq(Part)

(* The references that are not in a part yet: those of the open run, those *)
(* the loop has left, and the trunks while the loop is over the ports.     *)
Pending ==
    {r \in Ref :
        \/ kind # "done" /\ r.kind = kind /\ r.num \in left
        \/ open /\ r.kind = kind /\ start <= r.num /\ r.num <= prev
        \/ kind = "port" /\ r.kind = "trunk" /\ r \in refs}

Done == kind = "done"

(* What FormatMemberRange writes on the switch's command line names the    *)
(* members it was given and no others, and none of it is rejected, at the  *)
(* bounds 1 and MaxPort included.                                          *)
RoundTrip == Done /\ refs # {} => ParseMemberRange(parts) = refs

(* The string is canonical, so that equal sets of members are equal        *)
(* strings: ports before trunks, in order, and no two parts that one range *)
(* could replace.                                                          *)
Canonical ==
    \A i, j \in 1..Len(parts) : i < j =>
        \/ parts[i].kind = "port" /\ parts[j].kind = "trunk"
        \/ parts[i].kind = parts[j].kind /\ parts[i].hi + 1 < parts[j].lo

(* The loop invariant: parts and pending references make up the input; the *)
(* open run is one, what is left comes after it, and the parts before it   *)
(* are apart from it.                                                      *)
LoopInv ==
    /\ TypeOK
    /\ refs = Expand(parts) \union Pending
    /\ \A i \in 1..Len(parts) : Valid(parts[i])
    /\ open => /\ kind # "done"
               /\ 1 <= start /\ start <= prev
               /\ \A n \in left : prev < n
    /\ kind = "done" => left = {}
    /\ Canonical
    /\ \A i \in 1..Len(parts) :
        \/ kind = "done"
        \/ kind = "trunk" /\ parts[i].kind = "port"
        \/ parts[i].kind = kind /\ open /\ parts[i].hi + 1 < start
=============================================================================
