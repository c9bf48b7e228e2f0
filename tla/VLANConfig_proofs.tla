------------------------- MODULE VLANConfig_proofs -------------------------
(***************************************************************************)
(* Proofs about BuildVLANConfig and the switch, for any VLANs, members and *)
(* names: sent line by line, the block BuildVLANConfig computes takes the  *)
(* VLAN from the block it was computed from to the one asked for, by       *)
(* blocks that lie between the two, and there it stops.                    *)
(***************************************************************************)
EXTENDS VLANConfig, TLAPS

Block == Config \union {NoBlock}

(* A block of lines starts with `vlan` and ends with `exit`, and between   *)
(* them there is nothing but what Changes lists.                           *)
LEMMA BlockFrame ==
    ASSUME NEW c \in Block, NEW w \in Desired, BuildVLANConfig(c, w) # {}
    PROVE  BuildVLANConfig(c, w) = Changes(c, w) \union {"vlan", "exit"}
BY DEF BuildVLANConfig

(* What Known returns has the fields of a block.                           *)
LEMMA KnownType ==
    ASSUME NEW c \in Block
    PROVE  /\ Known(c) \in [name : Name \union {NoName}, tagged : SUBSET Member,
                            untagged : SUBSET Member, dhcp : BOOLEAN]
           /\ Known(c).tagged \intersect Known(c).untagged = {}
BY DEF Block, Known, Nothing, Config

(* Before the first line is sent, the switch has the block that was read.  *)
LEMMA BuildStarts ==
    ASSUME NEW c \in Block, NEW w \in Desired, BuildVLANConfig(c, w) # {}
    PROVE  Partway(c, c, w, BuildVLANConfig(c, w))
BY BlockFrame DEF Partway

(* BuildVLANConfig returns "" only for a block that is already as asked.   *)
LEMMA NothingToBuild ==
    ASSUME NEW c \in Block, NEW w \in Desired, BuildVLANConfig(c, w) = {}
    PROVE  Matches(c, w)
<1>1. c # NoBlock /\ Changes(c, w) = {}
    BY DEF BuildVLANConfig
<1>2. c \in Config /\ Known(c) = c
    BY <1>1 DEF Block, Known
<1>3. /\ w.name \in {NoName, c.name}
      /\ c.tagged \ w.tagged = {} /\ w.tagged \ c.tagged = {}
      /\ c.untagged \ w.untagged = {} /\ w.untagged \ c.untagged = {}
      /\ w.dhcp = c.dhcp
    BY <1>1, <1>2 DEF Changes, Line, Rank, MemberAdd, MemberRemove
<1> QED
    BY <1>1, <1>3 DEF Matches

(* When each line is in the block.                                         *)
LEMMA BlockLines ==
    ASSUME NEW c \in Block, NEW w \in Desired, BuildVLANConfig(c, w) # {}
    PROVE  /\ BuildVLANConfig(c, w) \subseteq Line
           /\ {"vlan", "exit"} \subseteq BuildVLANConfig(c, w)
           /\ "name" \notin BuildVLANConfig(c, w) => w.name \in {NoName, Known(c).name}
           /\ "noTagged" \notin BuildVLANConfig(c, w)
                => Known(c).tagged \ w.tagged = {}
           /\ "noUntagged" \notin BuildVLANConfig(c, w)
                => Known(c).untagged \ w.untagged = {}
           /\ "tagged" \notin BuildVLANConfig(c, w)
                => w.tagged \ Known(c).tagged = {}
           /\ "untagged" \notin BuildVLANConfig(c, w)
                => w.untagged \ Known(c).untagged = {}
           /\ "address" \notin BuildVLANConfig(c, w) => w.dhcp = Known(c).dhcp
BY BlockFrame DEF Changes, Line, Rank, MemberAdd, MemberRemove

(* Lines go out in the order of Rank, so every line before the next one    *)
(* has been sent, and only `exit` can be the last.                         *)
LEMMA NextLine ==
    ASSUME NEW block \in SUBSET Line, "exit" \in block, NEW l, IsNext(l, block)
    PROVE  /\ l \in block
           /\ l # "exit" => "exit" \in block \ {l}
           /\ l = "exit" => block = {"exit"}
           /\ l # "vlan" => "vlan" \notin block
           /\ l \in {"tagged", "untagged"} => block \intersect {"noTagged", "noUntagged"} = {}
           /\ l = "noUntagged" => "noTagged" \notin block
           /\ l = "untagged" => "tagged" \notin block
           /\ l \in {"noTagged", "noUntagged"} => "name" \notin block
BY DEF IsNext, Line, Rank

(* `vlan <id>` enters the block, or makes an empty one on a create.        *)
LEMMA VlanApplied ==
    ASSUME NEW c \in Block, NEW w \in Desired, BuildVLANConfig(c, w) # {}
    PROVE  Applied(IF c = NoBlock THEN NewBlock ELSE c, c, w,
                   BuildVLANConfig(c, w) \ {"vlan"})
<1> DEFINE B == BuildVLANConfig(c, w)
           b == IF c = NoBlock THEN NewBlock ELSE c
<1>1. b \in Config /\ b.tagged = Known(c).tagged /\ b.untagged = Known(c).untagged
      /\ b.dhcp = Known(c).dhcp
    BY NameAssumption DEF Block, Known, Nothing, NewBlock, Config
<1>2. "name" \notin B => w.name \in {NoName, b.name}
    BY BlockLines DEF Known, Nothing
<1>3. b.tagged = (IF "noTagged" \in B THEN Known(c).tagged
                  ELSE Known(c).tagged \intersect w.tagged)
                 \union (IF "tagged" \in B THEN {} ELSE w.tagged)
    BY <1>1, BlockLines
<1>4. b.untagged = (IF "noUntagged" \in B THEN Known(c).untagged
                    ELSE Known(c).untagged \intersect w.untagged)
                   \union (IF "untagged" \in B THEN {} ELSE w.untagged)
    BY <1>1, BlockLines
<1>5. b.dhcp = IF "address" \in B THEN Known(c).dhcp ELSE w.dhcp
    BY <1>1, BlockLines
<1> HIDE DEF B, b
<1>6. Applied(b, c, w, B \ {"vlan"})
    BY <1>1, <1>2, <1>3, <1>4, <1>5 DEF Applied
<1> QED
    BY <1>6 DEF B, b

(* Once only `exit` is left, the block is as asked.                        *)
LEMMA AllApplied ==
    ASSUME NEW c \in Block, NEW w \in Desired, NEW b, Applied(b, c, w, {"exit"})
    PROVE  Matches(b, w)
BY BlockAssumption DEF Applied, Matches

(* A line that changes a field of the block, sent in its turn, leaves the  *)
(* rest of the lines to be sent and no more.                               *)
LEMMA AcceptApplied ==
    ASSUME NEW c \in Block, NEW w \in Desired,
           NEW block \in SUBSET BuildVLANConfig(c, w), "exit" \in block,
           \A l \in block, k \in BuildVLANConfig(c, w) :
                Rank[l] <= Rank[k] => k \in block,
           NEW b, Applied(b, c, w, block),
           NEW l \in Line \ {"vlan", "exit"}, IsNext(l, block),
           NEW n \in AcceptInBlock(b, l, c, w)
    PROVE  Applied(n, c, w, block \ {l})
<1> DEFINE B == BuildVLANConfig(c, w)
           K == Known(c)
<1>1. B # {} /\ block \in SUBSET Line
    BY BlockLines
<1>2. /\ K \in [name : Name \union {NoName}, tagged : SUBSET Member,
                untagged : SUBSET Member, dhcp : BOOLEAN]
      /\ K.tagged \intersect K.untagged = {}
    BY KnownType
<1>3. /\ b \in [name : Name, tagged : SUBSET Member, untagged : SUBSET Member,
                dhcp : BOOLEAN]
      /\ b.tagged \intersect b.untagged = {}
      /\ w \in [name : Name \union {NoName}, tagged : SUBSET Member,
                untagged : SUBSET Member, dhcp : BOOLEAN]
      /\ w.tagged \intersect w.untagged = {}
    BY DEF Applied, Config, Desired
<1>4. \A k \in B : Rank[l] <= Rank[k] => k \in block
    BY DEF IsNext
<1> HIDE DEF B, K
<1>5. CASE l = "name"
    <2>1. n = [b EXCEPT !.name = w.name] /\ w.name \in Name
        BY <1>1, <1>3, <1>5, BlockFrame, NextLine DEF AcceptInBlock, Changes, B, K, Line, Rank
    <2> QED
        BY <1>3, <1>5, <2>1 DEF Applied, Config
<1>6. CASE l = "address"
    <2>1. n = [b EXCEPT !.dhcp = w.dhcp]
        BY <1>6 DEF AcceptInBlock
    <2> QED
        BY <1>3, <1>6, <2>1 DEF Applied, Config
<1>7. CASE l = "noTagged"
    <2>1. /\ n = [b EXCEPT !.tagged = n.tagged, !.untagged = n.untagged]
          /\ n.tagged = b.tagged \ (K.tagged \ w.tagged)
          /\ n.untagged \in {b.untagged, b.untagged \ (K.tagged \ w.tagged)}
        BY <1>3, <1>7 DEF AcceptInBlock, MemberRemove, K
    <2>2. l \in block /\ "name" \notin block /\ "vlan" \notin block
        BY <1>1, <1>7, NextLine
    <2>3. /\ "tagged" \notin block => w.tagged \subseteq K.tagged
          /\ "untagged" \notin block => w.untagged \subseteq K.untagged
        BY <1>1, <1>4, <1>7, BlockLines DEF B, K, Rank
    <2>4. b.untagged \intersect (K.tagged \ w.tagged) = {}
        BY <1>2, <1>3, <2>3 DEF Applied, K
    <2>5. n.untagged = b.untagged
        BY <2>1, <2>4
    <2>6. n.tagged = (K.tagged \intersect w.tagged)
                     \union (IF "tagged" \in block THEN {} ELSE w.tagged)
        BY <1>7, <2>1, <2>2, <2>3 DEF Applied, K
    <2>7. n \in Config /\ n.name = b.name /\ n.dhcp = b.dhcp
        BY <1>3, <2>1, <2>5 DEF Config
    <2> QED
        BY <1>7, <2>2, <2>5, <2>6, <2>7 DEF Applied, K
<1>8. CASE l = "noUntagged"
    <2>1. /\ n = [b EXCEPT !.tagged = n.tagged, !.untagged = n.untagged]
          /\ n.untagged = b.untagged \ (K.untagged \ w.untagged)
          /\ n.tagged \in {b.tagged, b.tagged \ (K.untagged \ w.untagged)}
        BY <1>3, <1>8 DEF AcceptInBlock, MemberRemove, K
    <2>2. l \in block /\ {"vlan", "name", "noTagged"} \intersect block = {}
        BY <1>1, <1>8, NextLine
    <2>3. /\ "tagged" \notin block => w.tagged \subseteq K.tagged
          /\ "untagged" \notin block => w.untagged \subseteq K.untagged
        BY <1>1, <1>4, <1>8, BlockLines DEF B, K, Rank
    <2>4. b.tagged \intersect (K.untagged \ w.untagged) = {}
        BY <1>2, <1>3, <2>2, <2>3 DEF Applied, K
    <2>5. n.tagged = b.tagged
        BY <2>1, <2>4
    <2>6. n.untagged = (K.untagged \intersect w.untagged)
                       \union (IF "untagged" \in block THEN {} ELSE w.untagged)
        BY <1>8, <2>1, <2>2, <2>3 DEF Applied, K
    <2>7. n \in Config /\ n.name = b.name /\ n.dhcp = b.dhcp
        BY <1>3, <2>1, <2>5 DEF Config
    <2> QED
        BY <1>8, <2>2, <2>5, <2>6, <2>7 DEF Applied, K
<1>9. CASE l = "tagged"
    <2>1. /\ n = [b EXCEPT !.tagged = n.tagged, !.untagged = n.untagged]
          /\ n.tagged = b.tagged \union (w.tagged \ K.tagged)
          /\ n.untagged = b.untagged \ (w.tagged \ K.tagged)
        BY <1>3, <1>9 DEF AcceptInBlock, MemberAdd, K
    <2>2. l \in block /\ {"vlan", "noTagged", "noUntagged"} \intersect block = {}
        BY <1>1, <1>9, NextLine
    <2>3. n.tagged = (K.tagged \intersect w.tagged) \union w.tagged
        BY <1>9, <2>1, <2>2 DEF Applied, K
    <2>4. n.untagged = b.untagged
        BY <1>3, <2>1, <2>2 DEF Applied, K
    <2>5. n \in Config /\ n.name = b.name /\ n.dhcp = b.dhcp
        <3>1. b.untagged \subseteq w.untagged /\ n.tagged \subseteq w.tagged
            BY <2>2, <2>3 DEF Applied, K
        <3> QED
            BY <1>3, <2>1, <2>4, <3>1 DEF Config
    <2>6. "name" \notin block \ {l} => w.name \in {NoName, n.name}
        BY <1>9, <2>5 DEF Applied
    <2> QED
        BY <1>9, <2>2, <2>3, <2>4, <2>5, <2>6 DEF Applied, K
<1>10. CASE l = "untagged"
    <2>1. /\ n = [b EXCEPT !.tagged = n.tagged, !.untagged = n.untagged]
          /\ n.tagged = b.tagged \ (w.untagged \ K.untagged)
          /\ n.untagged = b.untagged \union (w.untagged \ K.untagged)
        BY <1>3, <1>10 DEF AcceptInBlock, MemberAdd, K
    <2>2. l \in block /\ {"vlan", "noTagged", "noUntagged", "tagged"} \intersect block = {}
        BY <1>1, <1>10, NextLine
    <2>3. n.untagged = (K.untagged \intersect w.untagged) \union w.untagged
        BY <1>10, <2>1, <2>2 DEF Applied, K
    <2>4. n.tagged = b.tagged
        BY <1>3, <2>1, <2>2 DEF Applied, K
    <2>5. n \in Config /\ n.name = b.name /\ n.dhcp = b.dhcp
        <3>1. b.tagged \subseteq w.tagged /\ n.untagged \subseteq w.untagged
            BY <2>2, <2>3 DEF Applied, K
        <3> QED
            BY <1>3, <2>1, <2>4, <3>1 DEF Config
    <2>6. "name" \notin block \ {l} => w.name \in {NoName, n.name}
        BY <1>10, <2>5 DEF Applied
    <2> QED
        BY <1>10, <2>2, <2>3, <2>4, <2>5, <2>6 DEF Applied, K
<1> QED
    BY <1>5, <1>6, <1>7, <1>8, <1>9, <1>10 DEF Line, Rank

(* A line of the block that the switch accepts makes a well-formed block   *)
(* of any well-formed block.                                               *)
LEMMA AcceptInBlockType ==
    ASSUME NEW b \in Config, NEW c \in Block, NEW w \in Desired,
           NEW l \in BuildVLANConfig(c, w) \ {"vlan", "exit"},
           NEW n \in AcceptInBlock(b, l, c, w)
    PROVE  n \in Config
<1> DEFINE K == Known(c)
<1>1. l \in Line /\ (l = "name" => w.name \in Name)
    BY BlockLines DEF BuildVLANConfig, Changes, Desired
<1>2. K \in [name : Name \union {NoName}, tagged : SUBSET Member,
            untagged : SUBSET Member, dhcp : BOOLEAN]
    BY KnownType
<1>3. /\ b \in [name : Name, tagged : SUBSET Member, untagged : SUBSET Member,
                dhcp : BOOLEAN]
      /\ b.tagged \intersect b.untagged = {}
      /\ w \in [name : Name \union {NoName}, tagged : SUBSET Member,
                untagged : SUBSET Member, dhcp : BOOLEAN]
    BY DEF Config, Desired
<1> HIDE DEF K
<1>4. CASE l = "name"
    <2>1. n = [b EXCEPT !.name = w.name]
        BY <1>4 DEF AcceptInBlock
    <2> QED
        BY <1>1, <1>3, <1>4, <2>1 DEF Config
<1>5. CASE l = "address"
    <2>1. n = [b EXCEPT !.dhcp = w.dhcp]
        BY <1>5 DEF AcceptInBlock
    <2> QED
        BY <1>3, <2>1 DEF Config
<1>6. CASE l \in {"noTagged", "noUntagged"}
    <2>1. /\ n = [b EXCEPT !.tagged = n.tagged, !.untagged = n.untagged]
          /\ n.tagged \subseteq b.tagged /\ n.untagged \subseteq b.untagged
        <3>1. CASE l = "noTagged"
            BY <1>3, <3>1 DEF AcceptInBlock
        <3>2. CASE l = "noUntagged"
            BY <1>3, <3>2 DEF AcceptInBlock
        <3> QED
            BY <1>6, <3>1, <3>2
    <2> QED
        BY <1>3, <2>1 DEF Config
<1>7. CASE l = "tagged"
    <2>1. /\ n = [b EXCEPT !.tagged = n.tagged, !.untagged = n.untagged]
          /\ n.tagged = b.tagged \union (w.tagged \ K.tagged)
          /\ n.untagged = b.untagged \ (w.tagged \ K.tagged)
        BY <1>3, <1>7 DEF AcceptInBlock, MemberAdd, K
    <2> QED
        BY <1>3, <2>1 DEF Config
<1>8. CASE l = "untagged"
    <2>1. /\ n = [b EXCEPT !.tagged = n.tagged, !.untagged = n.untagged]
          /\ n.tagged = b.tagged \ (w.untagged \ K.untagged)
          /\ n.untagged = b.untagged \union (w.untagged \ K.untagged)
        BY <1>3, <1>8 DEF AcceptInBlock, MemberAdd, K
    <2> QED
        BY <1>3, <2>1 DEF Config
<1> QED
    BY <1>1, <1>4, <1>5, <1>6, <1>7, <1>8 DEF Line, Rank

(* Whatever line of the block the switch accepts, and whatever its blocks  *)
(* were before, it has well-formed blocks afterwards.                      *)
LEMMA AcceptType ==
    ASSUME NEW r \in Running, NEW v \in Vlan, NEW c \in Block, NEW w \in Desired,
           NEW l \in BuildVLANConfig(c, w), NEW s \in Accept(r, v, l, c, w)
    PROVE  /\ s \in Running
           /\ l = "vlan" \/ r[v] # NoBlock => s[v] # NoBlock
           /\ \A u \in Vlan \ {v} : s[u] = NoBlock => r[u] = NoBlock
<1>1. CASE l = "vlan"
    <2>1. NewBlock \in Config
        BY NameAssumption DEF NewBlock, Config
    <2>2. s = [r EXCEPT ![v] = IF @ = NoBlock THEN NewBlock ELSE @]
        BY <1>1 DEF Accept
    <2> QED
        BY <2>1, <2>2, BlockAssumption DEF Running
<1>2. CASE l = "exit" \/ (r[v] = NoBlock /\ l # "vlan")
    BY <1>2 DEF Accept
<1>3. CASE l \notin {"vlan", "exit"} /\ r[v] # NoBlock
    <2> DEFINE taken == IF l = "untagged"
                        THEN MemberAdd(Known(c).untagged, w.untagged) ELSE {}
    <2>1. PICK b \in AcceptInBlock(r[v], l, c, w) :
            s = [u \in Vlan |-> IF u = v THEN b ELSE Lose(r[u], taken)]
        BY <1>3 DEF Accept
    <2> HIDE DEF taken
    <2>2. b \in Config
        BY <1>3, <2>1, AcceptInBlockType DEF Running
    <2>3. \A u \in Vlan :
            /\ Lose(r[u], taken) \in Config \union {NoBlock}
            /\ Lose(r[u], taken) = NoBlock => r[u] = NoBlock
        BY BlockAssumption DEF Running, Lose, Config
    <2> QED
        BY <1>3, <2>1, <2>2, <2>3, BlockAssumption DEF Running
<1> QED
    BY <1>1, <1>2, <1>3

(* SendConfig sends the next line and the switch accepts it: the handler   *)
(* is one line further, and after the last line the block is as asked.     *)
THEOREM LineByLine ==
    ASSUME NEW r \in Running, NEW v \in Vlan, NEW c \in Block, NEW w \in Desired,
           NEW block, Partway(r[v], c, w, block),
           NEW l, IsNext(l, block),
           NEW s \in Accept(r, v, l, c, w)
    PROVE  /\ s \in Running
           /\ block = {l} => Matches(s[v], w)
           /\ block # {l} => Partway(s[v], c, w, block \ {l})
<1> DEFINE B == BuildVLANConfig(c, w)
<1>1. /\ block \in SUBSET B /\ "exit" \in block /\ l \in block
      /\ \A i \in block, k \in B : Rank[i] <= Rank[k] => k \in block
      /\ block \in SUBSET Line
      /\ B # {} /\ {"vlan", "exit"} \subseteq B
    BY BlockLines DEF Partway, IsNext
<1>2. \A i \in block \ {l}, k \in B : Rank[i] <= Rank[k] => k \in block \ {l}
    BY <1>1 DEF IsNext, Line, Rank
<1>3. CASE l = "vlan"
    <2>1. r[v] = c /\ s = [r EXCEPT ![v] = IF @ = NoBlock THEN NewBlock ELSE @]
        BY <1>1, <1>3 DEF Partway, Accept
    <2>2. block = B
        <3>1. \A k \in Line : Rank["vlan"] <= Rank[k]
            BY DEF Rank, Line
        <3> HIDE DEF B
        <3> QED
            BY <1>1, <1>3, <3>1, BlockLines DEF B
    <2>3. s \in Running /\ s[v] = IF c = NoBlock THEN NewBlock ELSE c
        BY <2>1, NameAssumption DEF Running, NewBlock, Config
    <2>4. Applied(s[v], c, w, block \ {"vlan"})
        BY <1>1, <2>2, <2>3, VlanApplied
    <2> QED
        BY <1>1, <1>2, <1>3, <2>3, <2>4 DEF Partway
<1>4. CASE l = "exit"
    <2>1. s = r /\ block = {"exit"}
        BY <1>1, <1>4, NextLine DEF Accept
    <2>2. Applied(r[v], c, w, {"exit"})
        BY <2>1 DEF Partway
    <2> QED
        BY <1>4, <2>1, <2>2, AllApplied
<1>5. CASE l \notin {"vlan", "exit"}
    <2>1. "vlan" \notin block /\ "exit" \in block \ {l}
        BY <1>1, <1>5, NextLine
    <2>2. Applied(r[v], c, w, block) /\ r[v] # NoBlock
        BY <2>1, BlockAssumption DEF Partway, Applied
    <2> DEFINE taken == IF l = "untagged"
                        THEN MemberAdd(Known(c).untagged, w.untagged) ELSE {}
    <2>3. PICK b \in AcceptInBlock(r[v], l, c, w) :
            s = [u \in Vlan |-> IF u = v THEN b ELSE Lose(r[u], taken)]
        BY <1>5, <2>2 DEF Accept
    <2> HIDE DEF taken
    <2>4. Applied(b, c, w, block \ {l})
        BY <1>1, <1>5, <2>2, AcceptApplied
    <2>5. s[v] = b /\ b \in Config
        BY <2>3, <2>4 DEF Applied
    <2>6. \A u \in Vlan : Lose(r[u], taken) \in Config \union {NoBlock}
        BY DEF Running, Lose, Config
    <2> QED
        BY <1>1, <1>2, <2>1, <2>3, <2>4, <2>5, <2>6 DEF Partway, Running
<1> QED
    BY <1>3, <1>4, <1>5

(* BuildVLANConfig returns "" for a block that is as asked.                *)
LEMMA MatchesIsSettled ==
    ASSUME NEW b \in Block, NEW w \in Desired, Matches(b, w)
    PROVE  BuildVLANConfig(b, w) = {}
<1>1. b # NoBlock /\ Known(b) = b
    BY DEF Matches, Known
<1>2. Changes(b, w) = {}
    BY <1>1 DEF Matches, Changes, MemberAdd, MemberRemove
<1> QED
    BY <1>1, <1>2 DEF BuildVLANConfig

(* A block is between itself and any other.                                *)
LEMMA StartsBetween ==
    ASSUME NEW c \in Block, NEW w \in Desired
    PROVE  Between(c, c, w)
BY DEF Between

(* Wherever SendConfig stops, the block is between the one it started from *)
(* and the one asked for: removals name nothing that stays.                *)
LEMMA PartwayIsBetween ==
    ASSUME NEW c \in Block, NEW w \in Desired, NEW b, NEW block, Partway(b, c, w, block)
    PROVE  Between(b, c, w)
<1>1. CASE "vlan" \in block
    BY <1>1, StartsBetween DEF Partway
<1>2. CASE "vlan" \notin block
    <2>1. Applied(b, c, w, block)
        BY <1>2 DEF Partway
    <2>2. Known(b) = b
        BY <2>1, BlockAssumption DEF Applied, Known
    <2> QED
        BY <2>1, <2>2 DEF Applied, Between
<1> QED
    BY <1>1, <1>2

(* And so is the block asked for.                                          *)
LEMMA MatchesIsBetween ==
    ASSUME NEW c \in Block, NEW w \in Desired, NEW b, Matches(b, w)
    PROVE  Between(b, c, w)
<1>1. Known(b) = b
    BY DEF Matches, Known
<1> QED
    BY <1>1 DEF Matches, Between
=============================================================================
