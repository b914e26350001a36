-------------------------- MODULE DriverLoad_proofs --------------------------
(***************************************************************************)
(* Theorems about DriverLoad.  The resources are numbered by their step in *)
(* nna_init (At), so that what is held becomes a set of numbers: on the    *)
(* way in all below the step, on the way out Kept and Left.                *)
(***************************************************************************)
EXTENDS DriverLoad, FiniteSetTheorems, TLAPS

-----------------------------------------------------------------------------
(* The numbering.                                                          *)

\* The i-th memory block.
BlockAt(i) ==
    IF i <= 2 THEN <<"imblk", i - 1>> ELSE IF i <= 4 THEN <<"kmblk", i - 3>>
    ELSE IF i <= 7 THEN <<"omblk", i - 5>> ELSE IF i <= 17 THEN <<"omblk_extra", i - 8>>
    ELSE IF i <= 19 THEN <<"bsblk", i - 18>> ELSE <<"pmblk", i - 20>>

\* Every name a block can have.
AnyBlock == {"imblk", "kmblk", "omblk", "omblk_extra", "bsblk", "pmblk"} \X (0 .. 9)

\* s lists the n blocks after the first m.
Lists(s, m, n) ==
    s \in Seq(AnyBlock) /\ Len(s) = n /\ \A i \in 1 .. n : s[i] = BlockAt(i + m)

LEMMA Chain ==
    ASSUME NEW s, NEW t, NEW l \in Nat, NEW m \in Nat, NEW n \in Nat, Lists(s, l, m), Lists(t, l + m, n)
    PROVE  Lists(s \o t, l, m + n)
<1>1. (s \o t) \in Seq(AnyBlock) /\ Len(s \o t) = m + n
  BY DEF Lists
<1>2. \A i \in 1 .. m + n : (s \o t)[i] = IF i <= m THEN s[i] ELSE t[i - m]
  BY DEF Lists
<1>3. ASSUME NEW i \in 1 .. m + n, i <= m PROVE (s \o t)[i] = BlockAt(i + l)
  BY <1>2, <1>3 DEF Lists
<1>4. ASSUME NEW i \in 1 .. m + n, ~(i <= m) PROVE (s \o t)[i] = BlockAt(i + l)
  <2>1. i - m \in 1 .. n /\ (i - m) + (l + m) = i + l
    BY <1>4
  <2>2. t[i - m] = BlockAt((i - m) + (l + m))
    BY <2>1 DEF Lists
  <2> QED
    BY <1>2, <1>4, <2>1, <2>2
<1> QED
  BY <1>1, <1>3, <1>4 DEF Lists

LEMMA Order == Lists(BlockOrder, 0, 21)
<1> DEFINE a == << <<"imblk", 0>>, <<"imblk", 1>>, <<"kmblk", 0>>, <<"kmblk", 1>> >>
           b == << <<"omblk", 0>>, <<"omblk", 1>>, <<"omblk", 2>> >>
           c == [i \in 1 .. 10 |-> <<"omblk_extra", i - 1>>]
           d == << <<"bsblk", 0>>, <<"bsblk", 1>>, <<"pmblk", 0>>, <<"pmblk", 1>> >>
<1>1. Lists(a, 0, 4)
  <2>1. a[1] \in AnyBlock /\ a[2] \in AnyBlock /\ a[3] \in AnyBlock /\ a[4] \in AnyBlock
    BY DEF AnyBlock
  <2>2. Len(a) = 4 /\ a \in Seq(AnyBlock)
    BY <2>1
  <2>3. a[1] = BlockAt(1) /\ a[2] = BlockAt(2) /\ a[3] = BlockAt(3) /\ a[4] = BlockAt(4)
    BY DEF BlockAt
  <2> QED
    BY <2>2, <2>3 DEF Lists
<1>2. Lists(b, 4, 3)
  <2>1. b[1] \in AnyBlock /\ b[2] \in AnyBlock /\ b[3] \in AnyBlock
    BY DEF AnyBlock
  <2>2. Len(b) = 3 /\ b \in Seq(AnyBlock)
    BY <2>1
  <2>3. b[1] = BlockAt(5) /\ b[2] = BlockAt(6) /\ b[3] = BlockAt(7)
    BY DEF BlockAt
  <2> QED
    BY <2>2, <2>3 DEF Lists
<1>3. Lists(c, 7, 10)
  <2>1. c \in [1 .. 10 -> AnyBlock]
    BY DEF AnyBlock
  <2>2. Len(c) = 10 /\ c \in Seq(AnyBlock)
    BY <2>1
  <2>3. \A i \in 1 .. 10 : c[i] = BlockAt(i + 7)
    BY DEF BlockAt
  <2> QED
    BY <2>2, <2>3 DEF Lists
<1>4. Lists(d, 17, 4)
  <2>1. d[1] \in AnyBlock /\ d[2] \in AnyBlock /\ d[3] \in AnyBlock /\ d[4] \in AnyBlock
    BY DEF AnyBlock
  <2>2. Len(d) = 4 /\ d \in Seq(AnyBlock)
    BY <2>1
  <2>3. d[1] = BlockAt(18) /\ d[2] = BlockAt(19) /\ d[3] = BlockAt(20) /\ d[4] = BlockAt(21)
    BY DEF BlockAt
  <2> QED
    BY <2>2, <2>3 DEF Lists
<1>5. BlockOrder = ((a \o b) \o c) \o d
  BY DEF BlockOrder
<1>6. /\ 4 + 3 = 7 /\ 7 + 10 = 17 /\ 17 + 4 = 21 /\ 0 + 4 = 4 /\ 0 + 7 = 7 /\ 0 + 17 = 17
      /\ {0, 3, 4, 7, 10, 17} \subseteq Nat
  OBVIOUS
<1> HIDE DEF a, b, c, d
<1>7. Lists(a \o b, 0, 4 + 3)
  BY <1>1, <1>2, <1>6, Chain
<1>8. Lists((a \o b) \o c, 0, 7 + 10)
  BY <1>3, <1>6, <1>7, Chain
<1>9. Lists(((a \o b) \o c) \o d, 0, 17 + 4)
  BY <1>4, <1>6, <1>8, Chain
<1> QED
  BY <1>5, <1>6, <1>9

\* The loops of fail_1 free what the allocation order names.
LEMMA FreedAre == FreedBlocks = {BlockAt(i) : i \in 1 .. 21}
<1>1. ASSUME NEW x \in FreedBlocks PROVE \E i \in 1 .. 21 : x = BlockAt(i)
  <2>1. CASE x \in {"imblk", "kmblk", "omblk", "bsblk", "pmblk"} \X (0 .. 1)
    <3>1. PICK k \in 0 .. 1 : x = <<"imblk", k>> \/ x = <<"kmblk", k>> \/ x = <<"omblk", k>> \/ x = <<"bsblk", k>> \/ x = <<"pmblk", k>>
      BY <2>1
    <3>2. /\ BlockAt(k + 1) = <<"imblk", k>> /\ BlockAt(k + 3) = <<"kmblk", k>> /\ BlockAt(k + 5) = <<"omblk", k>>
          /\ BlockAt(k + 18) = <<"bsblk", k>> /\ BlockAt(k + 20) = <<"pmblk", k>>
       BY DEF BlockAt
    <3> HIDE DEF BlockAt
    <3>3. {k + 1, k + 3, k + 5, k + 18, k + 20} \subseteq 1 .. 21
      OBVIOUS
    <3> QED BY <3>1, <3>2, <3>3
  <2>2. CASE x = <<"omblk", 2>>
    <3>1. BlockAt(7) = <<"omblk", 2>>
      BY DEF BlockAt
    <3> QED BY <2>2, <3>1
  <2>3. CASE x \in {"omblk_extra"} \X (0 .. 9)
    <3>1. PICK k \in 0 .. 9 : x = <<"omblk_extra", k>>
      BY <2>3
    <3>2. BlockAt(k + 8) = <<"omblk_extra", k>> /\ k + 8 \in 1 .. 21
      BY DEF BlockAt
    <3> QED BY <3>1, <3>2
  <2> QED BY <2>1, <2>2, <2>3 DEF FreedBlocks
<1>2. ASSUME NEW i \in 1 .. 21 PROVE BlockAt(i) \in FreedBlocks
  BY DEF BlockAt, FreedBlocks
<1> QED BY <1>1, <1>2

LEMMA BlocksDiffer == \A i, j \in 1 .. 21 : BlockAt(i) = BlockAt(j) => i = j
BY DEF BlockAt

\* The resource of the i-th step of nna_init.
At(i) ==
    IF i = 1 THEN One("objId") ELSE IF i <= 22 THEN BlockAt(i - 1)
    ELSE IF i = 23 THEN One("dma") ELSE IF i = 24 THEN One("cra")
    ELSE IF i = 25 THEN One("devno") ELSE IF i = 26 THEN One("class")
    ELSE IF i = 27 THEN One("cdev") ELSE IF i = 28 THEN One("device")
    ELSE One("mutex")

\* The resources of a set of steps.
Things(S) == {At(i) : i \in S}

\* A sequence of n members of U.
Sized(s, U, n) == s \in Seq(U) /\ Len(s) = n

\* l is x, then y, then z.
Three(l, x, y, z, k, m, n) ==
    /\ Len(l) = k + m + n
    /\ \A i \in 1 .. k : l[i] = x[i]
    /\ \A i \in 1 .. m : l[i + k] = y[i]
    /\ \A i \in 1 .. n : l[i + (k + m)] = z[i]

LEMMA Around0 ==
    ASSUME NEW U, NEW x \in Seq(U), NEW y \in Seq(U), NEW z \in Seq(U),
           NEW k \in Nat, NEW m \in Nat, NEW n \in Nat, Len(x) = k, Len(y) = m, Len(z) = n
    PROVE  Three((x \o y) \o z, x, y, z, k, m, n)
<1>1. (x \o y) \in Seq(U) /\ Len(x \o y) = k + m
  OBVIOUS
<1>2. \A i \in 1 .. k + m : (x \o y)[i] = IF i <= k THEN x[i] ELSE y[i - k]
  OBVIOUS
<1>3. Len((x \o y) \o z) = (k + m) + n
  BY <1>1 
<1>4. \A i \in 1 .. (k + m) + n : ((x \o y) \o z)[i] = IF i <= k + m THEN (x \o y)[i] ELSE z[i - (k + m)]
  BY <1>1, SMTT(30)
<1>5. ASSUME NEW i \in 1 .. k PROVE ((x \o y) \o z)[i] = x[i]
  BY <1>2, <1>4
<1>6. ASSUME NEW i \in 1 .. m PROVE ((x \o y) \o z)[i + k] = y[i]
  <2>1. i + k \in 1 .. k + m /\ ~(i + k <= k) /\ (i + k) - k = i /\ i + k \in 1 .. (k + m) + n /\ i + k <= k + m
    OBVIOUS
  <2> QED
    BY <1>2, <1>4, <2>1
<1>7. ASSUME NEW i \in 1 .. n PROVE ((x \o y) \o z)[i + (k + m)] = z[i]
  <2>1. i + (k + m) \in 1 .. (k + m) + n /\ ~(i + (k + m) <= k + m) /\ (i + (k + m)) - (k + m) = i
    OBVIOUS
  <2> QED
    BY <1>4, <2>1
<1> QED
  BY <1>3, <1>5, <1>6, <1>7 DEF Three

LEMMA Around ==
    ASSUME NEW U, NEW x, NEW y, NEW z, NEW k \in Nat, NEW m \in Nat, NEW n \in Nat,
           Sized(x, U, k), Sized(y, U, m), Sized(z, U, n)
    PROVE  Three((x \o y) \o z, x, y, z, k, m, n)
<1>1. x \in Seq(U) /\ y \in Seq(U) /\ z \in Seq(U) /\ Len(x) = k /\ Len(y) = m /\ Len(z) = n
  BY DEF Sized
<1> QED
  BY <1>1, Around0

LEMMA LoadOrderIs == Len(LoadOrder) = 29 /\ \A i \in 1 .. 29 : LoadOrder[i] = At(i)
<1> DEFINE x == <<One("objId")>>
           z == <<One("dma"), One("cra"), One("devno"), One("class"), One("cdev"), One("device"), One("mutex")>>
           U == AnyBlock \cup {One(r) : r \in {"objId", "dma", "cra", "devno", "class", "cdev", "device", "mutex"}}
<1>1. Sized(x, U, 1) /\ x[1] = One("objId")
  BY DEF Sized
<1>2. Sized(z, U, 7)
  <2>1. z[1] \in U /\ z[2] \in U /\ z[3] \in U /\ z[4] \in U /\ z[5] \in U /\ z[6] \in U /\ z[7] \in U
    OBVIOUS
  <2> HIDE DEF U
  <2> QED
    BY <2>1 DEF Sized
<1>3. Sized(BlockOrder, U, 21)
  <2>1. BlockOrder \in Seq(AnyBlock) /\ Len(BlockOrder) = 21
    BY Order DEF Lists
  <2>2. AnyBlock \subseteq U
    OBVIOUS
  <2> HIDE DEF U
  <2> QED
    BY <2>1, <2>2 DEF Sized
<1>4. LoadOrder = (x \o BlockOrder) \o z
  BY DEF LoadOrder
<1>5. 1 + 21 = 22 /\ 1 + 21 + 7 = 29 /\ {1, 7, 21} \subseteq Nat
  OBVIOUS
<1>6. z[1] = At(23) /\ z[2] = At(24) /\ z[3] = At(25) /\ z[4] = At(26) /\ z[5] = At(27) /\ z[6] = At(28) /\ z[7] = At(29)
  BY DEF At
<1> HIDE DEF x, z, U
<1>7. Three((x \o BlockOrder) \o z, x, BlockOrder, z, 1, 21, 7)
  BY <1>1, <1>2, <1>3, <1>5, Around
<1>8. /\ Len(LoadOrder) = 1 + 21 + 7
      /\ \A i \in 1 .. 1 : LoadOrder[i] = x[i]
      /\ \A i \in 1 .. 21 : LoadOrder[i + 1] = BlockOrder[i]
      /\ \A i \in 1 .. 7 : LoadOrder[i + (1 + 21)] = z[i]
  BY <1>4, <1>7 DEF Three
<1>9. LoadOrder[1] = At(1)
  BY <1>1, <1>8 DEF At
<1>10. ASSUME NEW i \in 2 .. 22 PROVE LoadOrder[i] = At(i)
  <2>1. i - 1 \in 1 .. 21 /\ (i - 1) + 1 = i /\ (i - 1) + 0 = i - 1
    OBVIOUS
  <2>2. BlockOrder[i - 1] = BlockAt(i - 1)
    BY <2>1, Order DEF Lists
  <2> QED
    BY <1>8, <2>1, <2>2 DEF At
<1>11. ASSUME NEW i \in 23 .. 29 PROVE LoadOrder[i] = At(i)
  <2>1. i - 22 \in 1 .. 7 /\ (i - 22) + (1 + 21) = i
    OBVIOUS
  <2>2. LoadOrder[i] = z[i - 22]
    BY <1>8, <2>1
  <2>3. z[i - 22] = At(i)
    BY <1>6
  <2> QED
    BY <2>2, <2>3
<1> QED
  BY <1>5, <1>8, <1>9, <1>10, <1>11

LEMMA AllDiffer == /\ \A i, j \in 1 .. 29 : At(i) = At(j) => i = j
                   /\ \A i \in 1 .. 29 : At(i) # One("region") /\ At(i) # One("none")
                   /\ One("region") # One("none")
<1>1. \A i \in 1 .. 21 : BlockAt(i)[1] \in {"imblk", "kmblk", "omblk", "omblk_extra", "bsblk", "pmblk"}
  BY DEF BlockAt
<1>2. ASSUME NEW i \in 2 .. 22 PROVE At(i) = BlockAt(i - 1) /\ i - 1 \in 1 .. 21
  BY DEF At
<1>3. ASSUME NEW i \in {1} \cup 23 .. 29 PROVE At(i)[1] \in {"objId", "dma", "cra", "devno", "class", "cdev", "device", "mutex"}
  BY DEF At, One
<1>4. \A i, j \in {1} \cup 23 .. 29 : At(i) = At(j) => i = j
  BY DEF At, One
<1>5. ASSUME NEW i \in 2 .. 22, NEW j \in {1} \cup 23 .. 29 PROVE At(i) # At(j)
  BY <1>1, <1>2, <1>3
<1>6. ASSUME NEW i \in 2 .. 22, NEW j \in 2 .. 22, At(i) = At(j) PROVE i = j
  BY <1>2, <1>6, BlocksDiffer
<1>7. ASSUME NEW i \in 1 .. 29 PROVE At(i) # One("region") /\ At(i) # One("none")
  <2>1. At(i)[1] # "region" /\ At(i)[1] # "none"
    BY <1>1, <1>2, <1>3
  <2> QED
    BY <2>1 DEF One
<1>8. One("region") # One("none")
  BY DEF One
<1>9. \A i \in 1 .. 29 : i \in 2 .. 22 \/ i \in {1} \cup 23 .. 29
  OBVIOUS
<1> QED
  BY <1>4, <1>5, <1>6, <1>7, <1>8, <1>9

LEMMA Names == /\ One("objId") = At(1) /\ One("dma") = At(23) /\ One("cra") = At(24) /\ One("devno") = At(25)
               /\ One("class") = At(26) /\ One("cdev") = At(27) /\ One("device") = At(28) /\ One("mutex") = At(29)
BY DEF At

LEMMA BlocksAre == Blocks = Things(2 .. 22) /\ FreedBlocks = Things(2 .. 22)
<1>1. \A i \in 1 .. 21 : BlockAt(i) = At(i + 1)
  BY DEF At
<1>2. \A j \in 2 .. 22 : At(j) = BlockAt(j - 1) /\ j - 1 \in 1 .. 21
  BY DEF At
<1>3. {BlockAt(i) : i \in 1 .. 21} = Things(2 .. 22)
  BY <1>1, <1>2 DEF Things
<1>4. Len(BlockOrder) = 21 /\ \A i \in 1 .. 21 : BlockOrder[i] = BlockAt(i)
  BY Order DEF Lists
<1> QED
  BY <1>3, <1>4, FreedAre DEF Blocks

LEMMA ResourcesAre == Resources = Things(1 .. 29) \cup {One("region")}
BY LoadOrderIs DEF Resources, Things

LEMMA Less == ASSUME NEW S \in SUBSET (1 .. 29), NEW R \in SUBSET (1 .. 29)
              PROVE  Things(S) \ Things(R) = Things(S \ R)
BY AllDiffer DEF Things

-----------------------------------------------------------------------------
(* The loader.                                                             *)

\* What is held when fail_6 to fail_0 are next at s, and when nna_exit is.
Kept(s) == IF s <= 6 THEN 1 .. (28 - s) ELSE IF s = 7 THEN {1} ELSE {}
Left(s) ==
    IF s = 1 THEN 1 .. 29 ELSE IF s = 2 THEN (1 .. 29) \ {28} ELSE IF s = 3 THEN (1 .. 29) \ {26, 28}
    ELSE IF s <= 5 THEN (1 .. (29 - s)) \cup {29}
    ELSE IF s <= 7 THEN (1 .. 23) \cup {29} ELSE IF s = 8 THEN (1 .. 22) \cup {29}
    ELSE IF s = 9 THEN {1, 29} ELSE {}

\* What the current load has lost.
Gone == {l[2] : l \in {x \in leaked : x[1] = loads}}

AbsentInv ==
    pc = "absent" =>
        /\ held = {}
        /\ \/ \E f \in 2 .. 22 : failed = At(f) /\ Gone = Things(2 .. (f - 1))
           \/ (failed = One("none") \/ failed \in Things({1} \cup 23 .. 28)) /\ Gone = {}
LoadInv ==
    pc = "load" => failed = One("none") /\ held = Things(1 .. (step - 1)) /\ Gone = {} /\ step \in 1 .. 30
RollInv ==
    pc = "rollback" =>
        /\ err = (failed \notin {At(26), At(28)})
        /\ \/ \E f \in 2 .. 22 :
                 /\ failed = At(f)
                 /\ \/ step = 7 /\ held = Things(1 .. (f - 1)) /\ Gone = {}
                    \/ step = 8 /\ held = {} /\ Gone = Things(2 .. (f - 1))
           \/ /\ failed \in Things(23 .. 28)
              /\ step \in 1 .. 8 /\ held = Things(Kept(step)) /\ Gone = {}
InInv ==
    pc = "in" =>
        /\ Gone = {}
        /\ \/ failed = One("none") /\ held = Things(1 .. 29)
           \/ failed \in {At(26), At(28)} /\ held = {}
UnloadInv ==
    pc = "unload" => failed = One("none") /\ step \in 1 .. 10 /\ held = Things(Left(step)) /\ Gone = {}
AppInv ==
    \A a \in Apps : app[a] # "away" => \/ pc = "load" /\ step \in {29, 30}
                                       \/ pc = "in" /\ failed = One("none")
OutInv ==
    /\ wrong \subseteq {One("region")}
    /\ \A l \in leaked : l[1] <= loads
    /\ pc # "absent" => loads >= 1

LoaderInv == AbsentInv /\ LoadInv /\ RollInv /\ InInv /\ UnloadInv /\ AppInv /\ OutInv

LEMMA RollbackIs ==
    /\ Len(Rollback) = 7 /\ \A s \in 1 .. 5 : Rollback[s] = Things({28 - s})
    /\ Rollback[6] = Things(2 .. 22) /\ Rollback[7] = Things({1})
<1>1. Rollback = << {At(27)}, {At(26)}, {At(25)}, {At(24)}, {At(23)}, Things(2 .. 22), {At(1)} >>
  BY Names, BlocksAre DEF Rollback
<1>2. \A i \in Nat : Things({i}) = {At(i)}
  BY DEF Things
<1>3. Len(Rollback) = 7
  BY DEF Rollback
<1>4. /\ Rollback[1] = {At(27)} /\ Rollback[2] = {At(26)} /\ Rollback[3] = {At(25)} /\ Rollback[4] = {At(24)}
      /\ Rollback[5] = {At(23)} /\ Rollback[6] = Things(2 .. 22) /\ Rollback[7] = {At(1)}
  BY <1>1
<1>5. ASSUME NEW s \in 1 .. 5 PROVE Rollback[s] = Things({28 - s})
  <2>1. s = 1 \/ s = 2 \/ s = 3 \/ s = 4 \/ s = 5
    OBVIOUS
  <2>2. 28 - 1 = 27 /\ 28 - 2 = 26 /\ 28 - 3 = 25 /\ 28 - 4 = 24 /\ 28 - 5 = 23
    OBVIOUS
  <2>3. Things({28 - s}) = {At(28 - s)}
    BY DEF Things
  <2> QED
    BY <1>4, <2>1, <2>2, <2>3
<1> QED
  BY <1>2, <1>3, <1>4, <1>5

LEMMA UnloadOrderIs ==
    /\ Len(UnloadOrder) = 9
    /\ UnloadOrder[1] = Things({28}) /\ UnloadOrder[2] = Things({26}) /\ UnloadOrder[3] = Things({27})
    /\ UnloadOrder[4] = Things({25}) /\ UnloadOrder[5] = Things({24}) /\ UnloadOrder[6] = {One("region")}
    /\ UnloadOrder[7] = Things({23}) /\ UnloadOrder[8] = Things(2 .. 22) /\ UnloadOrder[9] = Things({1})
<1>1. UnloadOrder = << {At(28)}, {At(26)}, {At(27)}, {At(25)}, {At(24)}, {One("region")}, {At(23)}, Things(2 .. 22), {At(1)} >>
  BY Names, BlocksAre DEF UnloadOrder
<1>2. \A i \in Nat : Things({i}) = {At(i)}
  BY DEF Things
<1>3. Len(UnloadOrder) = 9
  BY DEF UnloadOrder
<1> QED
  BY <1>1, <1>2, <1>3

LEMMA FailLabelIs == /\ \A f \in 2 .. 22 : FailLabel(At(f)) = 7
                     /\ \A f \in 23 .. 28 : FailLabel(At(f)) = 29 - f
                     /\ \A f \in 2 .. 28 : SilentFailure(At(f)) <=> At(f) \in {At(26), At(28)}
<1>1. ASSUME NEW f \in 2 .. 22 PROVE FailLabel(At(f)) = 7
  <2>1. At(f) \in Blocks
    BY BlocksAre DEF Things
  <2>2. /\ At(f) # One("device") /\ At(f) # One("cdev") /\ At(f) # One("class") /\ At(f) # One("devno")
        /\ At(f) # One("cra") /\ At(f) # One("dma")
    BY AllDiffer, Names
  <2> QED
    BY <2>1, <2>2 DEF FailLabel
<1>2. ASSUME NEW f \in 23 .. 28 PROVE FailLabel(At(f)) = 29 - f
  <2>1. At(f) \notin Blocks
    BY BlocksAre, AllDiffer DEF Things
  <2>2. f = 23 \/ f = 24 \/ f = 25 \/ f = 26 \/ f = 27 \/ f = 28
    OBVIOUS
  <2>3. \A g \in 23 .. 28 : At(f) = At(g) => f = g
    BY AllDiffer
  <2> QED
    BY <2>1, <2>2, <2>3, Names DEF FailLabel
<1>3. ASSUME NEW f \in 2 .. 28 PROVE SilentFailure(At(f)) <=> At(f) \in {At(26), At(28)}
  BY Names DEF SilentFailure
<1> QED
  BY <1>1, <1>2, <1>3

\* R can be released when H is held.
Part(R, H) == R \subseteq H /\ H \subseteq 1 .. 29

LEMMA ReleaseOfHeld ==
    ASSUME NEW H, NEW R, Part(R, H), held = Things(H), Released(Things(R)), loads' = loads
    PROVE  /\ wrong' = wrong
           /\ 1 \notin R => held' = Things(H \ R) /\ leaked' = leaked
           /\ 1 \in R => held' = {} /\ Gone' = Gone \cup Things(H \ (R \cup {29}))
                        /\ leaked' = leaked \cup {<<loads, r>> : r \in Things(H \ (R \cup {29}))}
<1>1. H \in SUBSET (1 .. 29) /\ R \in SUBSET H /\ R \in SUBSET (1 .. 29)
  BY DEF Part
<1>2. Things(R) \ held = {}
  BY <1>1 DEF Things
<1>3. wrong' = wrong
  BY <1>2 DEF Released
<1>4. One("objId") \in Things(R) <=> 1 \in R
  BY <1>1, Names, AllDiffer DEF Things
<1>5. CASE 1 \notin R
  <2>1. held' = held \ Things(R) /\ leaked' = leaked
    BY <1>4, <1>5 DEF Released
  <2> QED
    BY <1>1, <1>3, <1>5, <2>1, Less
<1>6. CASE 1 \in R
  <2>1. Things(R) \cup {One("mutex")} = Things(R \cup {29})
    BY Names DEF Things
  <2>2. held \ (Things(R) \cup {One("mutex")}) = Things(H \ (R \cup {29}))
    BY <1>1, <2>1, Less, R \cup {29} \in SUBSET (1 .. 29)
  <2>3. held' = {} /\ leaked' = leaked \cup {<<loads, r>> : r \in Things(H \ (R \cup {29}))}
    BY <1>4, <1>6, <2>2 DEF Released
  <2>4. Gone' = Gone \cup Things(H \ (R \cup {29}))
    <3> DEFINE T == Things(H \ (R \cup {29}))
    <3> HIDE DEF T
    <3>1. leaked' = leaked \cup {<<loads, r>> : r \in T}
      BY <2>3 DEF T
    <3>2. ASSUME NEW r \in Gone' PROVE r \in Gone \cup T
      <4>1. PICK l \in leaked' : l[1] = loads' /\ r = l[2]
        BY DEF Gone
      <4> QED
        BY <3>1, <4>1 DEF Gone
    <3>3. ASSUME NEW r \in Gone PROVE r \in Gone'
      BY <3>1 DEF Gone
    <3>4. ASSUME NEW r \in T PROVE r \in Gone'
      <4>1. <<loads, r>> \in leaked' /\ <<loads, r>>[1] = loads' /\ <<loads, r>>[2] = r
        BY <3>1
      <4> QED
        BY <4>1 DEF Gone
    <3> QED
      BY <3>2, <3>3, <3>4 DEF T
  <2> QED
    BY <1>3, <1>6, <2>3, <2>4
<1> QED
  BY <1>5, <1>6

LEMMA ReleaseOfRegion ==
    ASSUME NEW H \in SUBSET (1 .. 29), held = Things(H), Released({One("region")}), loads' = loads
    PROVE  wrong' = wrong \cup {One("region")} /\ held' = held /\ leaked' = leaked
<1>1. One("region") \notin held /\ One("objId") # One("region")
  BY AllDiffer, Names DEF Things
<1> QED
  BY <1>1 DEF Released

-----------------------------------------------------------------------------

LEMMA InitOK == Init => TypeOK /\ LoaderInv
<1> SUFFICES ASSUME Init PROVE TypeOK /\ LoaderInv
  OBVIOUS
<1>1. TypeOK
  <2>1. err \in BOOLEAN
    BY Zenon DEF Init
  <2>2. step \in 1 .. Len(LoadOrder) + 1 /\ loads \in 0 .. MaxLoads /\ halfDone \in Nat /\ orphans \in Nat
    BY LoadOrderIs, LoadAssumption DEF Init
  <2>3. /\ app \in [Apps -> {"away", "open", "call", "get"}]
        /\ lent \in [Lendable -> {Free, Lost} \cup {Getting(a) : a \in Apps} \cup {Held(a) : a \in Apps}]
    BY DEF Init
  <2>4. /\ pc \in {"absent", "load", "rollback", "in", "unload"} /\ failed \in Resources \cup {One("none")}
        /\ held \subseteq Resources /\ leaked \subseteq (1 .. MaxLoads) \X Resources /\ wrong \subseteq Resources
    BY DEF Init
  <2> QED
    BY <2>1, <2>2, <2>3, <2>4 DEF TypeOK
<1>2. LoaderInv
  BY DEF Init, LoaderInv, AbsentInv, LoadInv, RollInv, InInv, UnloadInv, AppInv, OutInv, Gone
<1> QED
  BY <1>1, <1>2

LEMMA ReleasedTypes ==
    ASSUME TypeOK, loads >= 1, loads' = loads, NEW rs \in SUBSET Resources, Released(rs)
    PROVE  held' \subseteq Resources /\ wrong' \subseteq Resources /\ leaked' \subseteq (1 .. MaxLoads) \X Resources
<1>1. loads \in 1 .. MaxLoads
  BY LoadAssumption DEF TypeOK
<1> QED
  BY <1>1 DEF Released, TypeOK

LEMMA LoaderTypes ==
    ASSUME TypeOK, LoaderInv, Loader, UNCHANGED <<app, lending>>
    PROVE  TypeOK'
<1>1. /\ app' \in [Apps -> {"away", "open", "call", "get"}]
      /\ lent' \in [Lendable -> {Free, Lost} \cup {Getting(a) : a \in Apps} \cup {Held(a) : a \in Apps}]
      /\ halfDone' \in Nat /\ orphans' \in Nat
  BY DEF TypeOK, lending
<1>2. Len(LoadOrder) + 1 = 30 /\ \A i \in 1 .. 29 : LoadOrder[i] \in Resources
  BY LoadOrderIs, ResourcesAre DEF Things
<1>3. ASSUME pc' \in {"absent", "load", "rollback", "in", "unload"}, step' \in 1 .. 30, err' \in BOOLEAN,
              loads' \in 0 .. MaxLoads, held' \subseteq Resources, failed' \in Resources \cup {One("none")},
              leaked' \subseteq (1 .. MaxLoads) \X Resources, wrong' \subseteq Resources
       PROVE  TypeOK'
  BY <1>1, <1>2, <1>3, Zenon DEF TypeOK
<1>4. /\ pc \in {"absent", "load", "rollback", "in", "unload"} /\ step \in 1 .. 30
       /\ loads \in 0 .. MaxLoads /\ held \subseteq Resources /\ failed \in Resources \cup {One("none")}
       /\ leaked \subseteq (1 .. MaxLoads) \X Resources /\ wrong \subseteq Resources
  BY <1>2, Zenon DEF TypeOK
<1>5. err \in BOOLEAN
  BY Zenon DEF TypeOK
<1>6. CASE Insmod
  <2>1. err' \in BOOLEAN
    BY <1>6, <1>5, Zenon DEF Insmod
  <2>2. pc' \in {"absent", "load", "rollback", "in", "unload"}
    BY <1>2, <1>6, <1>4, LoadAssumption DEF Insmod
  <2>3. step' \in 1 .. 30
    BY <1>2, <1>6, <1>4, LoadAssumption DEF Insmod
  <2>4. loads' \in 0 .. MaxLoads
    BY <1>2, <1>6, <1>4, LoadAssumption DEF Insmod
  <2>5. held' \subseteq Resources
    BY <1>2, <1>6, <1>4, LoadAssumption DEF Insmod
  <2>6. failed' \in Resources \cup {One("none")}
    BY <1>2, <1>6, <1>4, LoadAssumption DEF Insmod
  <2>7. leaked' \subseteq (1 .. MaxLoads) \X Resources /\ wrong' \subseteq Resources
    BY <1>2, <1>6, <1>4, LoadAssumption DEF Insmod
  <2> QED
    BY <1>3, <2>1, <2>2, <2>3, <2>4, <2>5, <2>6, <2>7
<1>7. CASE Acquire
  <2>1. err' \in BOOLEAN
    BY <1>7, <1>5, Zenon DEF Acquire
  <2>2. pc' \in {"absent", "load", "rollback", "in", "unload"}
    BY <1>2, <1>7, <1>4 DEF Acquire
  <2>3. step' \in 1 .. 30
    BY <1>2, <1>7, <1>4 DEF Acquire
  <2>4. loads' \in 0 .. MaxLoads
    BY <1>2, <1>7, <1>4 DEF Acquire
  <2>5. held' \subseteq Resources
    <3>1. LoadOrder[step] \in Resources
      BY <1>7, <1>4 DEF Acquire, Resources
    <3> QED
      BY <1>7, <1>4, <3>1 DEF Acquire
  <2>6. failed' \in Resources \cup {One("none")}
    BY <1>2, <1>7, <1>4 DEF Acquire
  <2>7. leaked' \subseteq (1 .. MaxLoads) \X Resources /\ wrong' \subseteq Resources
    BY <1>2, <1>7, <1>4 DEF Acquire
  <2> QED
    BY <1>3, <2>1, <2>2, <2>3, <2>4, <2>5, <2>6, <2>7
<1>8. CASE NoObject
  <2>1. err' \in BOOLEAN
    BY <1>8, <1>5, Zenon DEF NoObject
  <2>2. pc' \in {"absent", "load", "rollback", "in", "unload"}
    BY <1>2, <1>8, <1>4 DEF NoObject
  <2>3. step' \in 1 .. 30
    BY <1>2, <1>8, <1>4 DEF NoObject
  <2>4. loads' \in 0 .. MaxLoads
    BY <1>2, <1>8, <1>4 DEF NoObject
  <2>5. held' \subseteq Resources
    BY <1>2, <1>8, <1>4 DEF NoObject
  <2>6. failed' \in Resources \cup {One("none")}
    BY <1>2, <1>8, <1>4 DEF NoObject
  <2>7. leaked' \subseteq (1 .. MaxLoads) \X Resources /\ wrong' \subseteq Resources
    BY <1>2, <1>8, <1>4 DEF NoObject
  <2> QED
    BY <1>3, <2>1, <2>2, <2>3, <2>4, <2>5, <2>6, <2>7
<1>9. CASE CannotAcquire
  <2>1. step \in 2 .. 28 /\ LoadOrder[step] = At(step)
    BY <1>2, <1>9, <1>4, LoadOrderIs, Names DEF CannotAcquire
  <2>2. FailLabel(At(step)) \in 1 .. 30
    BY <2>1, FailLabelIs
  <2>3. step' \in 1 .. 30
    BY <1>9, <2>1, <2>2 DEF CannotAcquire
  <2>4. err' \in BOOLEAN
    BY <1>9, <1>5, Zenon DEF CannotAcquire
  <2>5. pc' \in {"absent", "load", "rollback", "in", "unload"}
    BY <1>2, <1>9, <1>4, <2>1, <2>3 DEF CannotAcquire
  <2>6. step' \in 1 .. 30
    BY <1>2, <1>9, <1>4, <2>1, <2>3 DEF CannotAcquire
  <2>7. loads' \in 0 .. MaxLoads
    BY <1>2, <1>9, <1>4, <2>1, <2>3 DEF CannotAcquire
  <2>8. held' \subseteq Resources
    BY <1>2, <1>9, <1>4, <2>1, <2>3 DEF CannotAcquire
  <2>9. failed' \in Resources \cup {One("none")}
    <3>1. At(step) \in Resources
      BY <2>1, ResourcesAre DEF Things
    <3>2. failed' = LoadOrder[step]
      BY <1>9, Zenon DEF CannotAcquire
    <3> QED
      BY <2>1, <3>1, <3>2
  <2>10. leaked' \subseteq (1 .. MaxLoads) \X Resources /\ wrong' \subseteq Resources
    BY <1>2, <1>9, <1>4, <2>1, <2>3 DEF CannotAcquire
  <2> QED
    BY <1>3, <2>4, <2>5, <2>6, <2>7, <2>8, <2>9, <2>10
<1>10. CASE Loaded
  <2>1. err' \in BOOLEAN
    BY <1>10, <1>5, Zenon DEF Loaded
  <2>2. pc' \in {"absent", "load", "rollback", "in", "unload"}
    BY <1>2, <1>10, <1>4 DEF Loaded
  <2>3. step' \in 1 .. 30
    BY <1>2, <1>10, <1>4 DEF Loaded
  <2>4. loads' \in 0 .. MaxLoads
    BY <1>2, <1>10, <1>4 DEF Loaded
  <2>5. held' \subseteq Resources
    BY <1>2, <1>10, <1>4 DEF Loaded
  <2>6. failed' \in Resources \cup {One("none")}
    BY <1>2, <1>10, <1>4 DEF Loaded
  <2>7. leaked' \subseteq (1 .. MaxLoads) \X Resources /\ wrong' \subseteq Resources
    BY <1>2, <1>10, <1>4 DEF Loaded
  <2> QED
    BY <1>3, <2>1, <2>2, <2>3, <2>4, <2>5, <2>6, <2>7
<1>11. CASE RollBack
  <2>1. step \in 1 .. 7 /\ loads >= 1
    BY <1>11, RollbackIs DEF RollBack, TypeOK, LoaderInv, OutInv
  <2>2. Rollback[step] \in SUBSET Resources
    <3>1. \A i \in 1 .. 29 : Things({i}) \subseteq Resources
      BY ResourcesAre DEF Things
    <3>2. Things(2 .. 22) \subseteq Resources
      BY ResourcesAre DEF Things
    <3>3. step \in 1 .. 5 \/ step = 6 \/ step = 7
      BY <2>1
    <3> QED
      BY <3>1, <3>2, <3>3, RollbackIs
  <2>3. /\ held' \subseteq Resources /\ wrong' \subseteq Resources
        /\ leaked' \subseteq (1 .. MaxLoads) \X Resources
    BY <1>11, <2>1, <2>2, ReleasedTypes DEF RollBack
  <2>4. err' \in BOOLEAN
    BY <1>11, <1>5, Zenon DEF RollBack
  <2>5. pc' \in {"absent", "load", "rollback", "in", "unload"}
    BY <1>2, <1>11, <1>4, <2>1, <2>3 DEF RollBack
  <2>6. step' \in 1 .. 30
    BY <1>2, <1>11, <1>4, <2>1, <2>3 DEF RollBack
  <2>7. loads' \in 0 .. MaxLoads
    BY <1>2, <1>11, <1>4, <2>1, <2>3 DEF RollBack
  <2>8. held' \subseteq Resources
    BY <1>2, <1>11, <1>4, <2>1, <2>3 DEF RollBack
  <2>9. failed' \in Resources \cup {One("none")}
    BY <1>2, <1>11, <1>4, <2>1, <2>3 DEF RollBack
  <2>10. leaked' \subseteq (1 .. MaxLoads) \X Resources /\ wrong' \subseteq Resources
    BY <1>2, <1>11, <1>4, <2>1, <2>3 DEF RollBack
  <2> QED
    BY <1>3, <2>4, <2>5, <2>6, <2>7, <2>8, <2>9, <2>10
<1>12. CASE RolledBack
  <2>1. err' \in BOOLEAN
    BY <1>12, <1>5, Zenon DEF RolledBack
  <2>2. pc' \in {"absent", "load", "rollback", "in", "unload"}
    BY <1>2, <1>12, <1>4 DEF RolledBack
  <2>3. step' \in 1 .. 30
    BY <1>2, <1>12, <1>4 DEF RolledBack
  <2>4. loads' \in 0 .. MaxLoads
    BY <1>2, <1>12, <1>4 DEF RolledBack
  <2>5. held' \subseteq Resources
    BY <1>2, <1>12, <1>4 DEF RolledBack
  <2>6. failed' \in Resources \cup {One("none")}
    BY <1>2, <1>12, <1>4 DEF RolledBack
  <2>7. leaked' \subseteq (1 .. MaxLoads) \X Resources /\ wrong' \subseteq Resources
    BY <1>2, <1>12, <1>4 DEF RolledBack
  <2> QED
    BY <1>3, <2>1, <2>2, <2>3, <2>4, <2>5, <2>6, <2>7
<1>13. CASE Rmmod
  <2>1. err' \in BOOLEAN
    BY <1>13, <1>5, Zenon DEF Rmmod
  <2>2. pc' \in {"absent", "load", "rollback", "in", "unload"}
    BY <1>2, <1>13, <1>4 DEF Rmmod
  <2>3. step' \in 1 .. 30
    BY <1>2, <1>13, <1>4 DEF Rmmod
  <2>4. loads' \in 0 .. MaxLoads
    BY <1>2, <1>13, <1>4 DEF Rmmod
  <2>5. held' \subseteq Resources
    BY <1>2, <1>13, <1>4 DEF Rmmod
  <2>6. failed' \in Resources \cup {One("none")}
    BY <1>2, <1>13, <1>4 DEF Rmmod
  <2>7. leaked' \subseteq (1 .. MaxLoads) \X Resources /\ wrong' \subseteq Resources
    BY <1>2, <1>13, <1>4 DEF Rmmod
  <2> QED
    BY <1>3, <2>1, <2>2, <2>3, <2>4, <2>5, <2>6, <2>7
<1>14. CASE Unload
  <2>1. step \in 1 .. 9 /\ loads >= 1
    BY <1>14, UnloadOrderIs DEF Unload, TypeOK, LoaderInv, OutInv
  <2>2. UnloadOrder[step] \in SUBSET Resources
    <3>1. \A i \in 1 .. 29 : Things({i}) \subseteq Resources
      BY ResourcesAre DEF Things
    <3>2. Things(2 .. 22) \subseteq Resources /\ {One("region")} \subseteq Resources
      BY ResourcesAre DEF Things
    <3>3. step = 1 \/ step = 2 \/ step = 3 \/ step = 4 \/ step = 5 \/ step = 6 \/ step = 7 \/ step = 8 \/ step = 9
      BY <2>1
    <3> QED
      BY <3>1, <3>2, <3>3, UnloadOrderIs
  <2>3. /\ held' \subseteq Resources /\ wrong' \subseteq Resources
        /\ leaked' \subseteq (1 .. MaxLoads) \X Resources
    BY <1>14, <2>1, <2>2, ReleasedTypes DEF Unload
  <2>4. err' \in BOOLEAN
    BY <1>14, <1>5, Zenon DEF Unload
  <2>5. pc' \in {"absent", "load", "rollback", "in", "unload"}
    BY <1>2, <1>14, <1>4, <2>1, <2>3 DEF Unload
  <2>6. step' \in 1 .. 30
    BY <1>2, <1>14, <1>4, <2>1, <2>3 DEF Unload
  <2>7. loads' \in 0 .. MaxLoads
    BY <1>2, <1>14, <1>4, <2>1, <2>3 DEF Unload
  <2>8. held' \subseteq Resources
    BY <1>2, <1>14, <1>4, <2>1, <2>3 DEF Unload
  <2>9. failed' \in Resources \cup {One("none")}
    BY <1>2, <1>14, <1>4, <2>1, <2>3 DEF Unload
  <2>10. leaked' \subseteq (1 .. MaxLoads) \X Resources /\ wrong' \subseteq Resources
    BY <1>2, <1>14, <1>4, <2>1, <2>3 DEF Unload
  <2> QED
    BY <1>3, <2>4, <2>5, <2>6, <2>7, <2>8, <2>9, <2>10
<1>15. CASE Unloaded
  <2>1. err' \in BOOLEAN
    BY <1>15, <1>5, Zenon DEF Unloaded
  <2>2. pc' \in {"absent", "load", "rollback", "in", "unload"}
    BY <1>2, <1>15, <1>4 DEF Unloaded
  <2>3. step' \in 1 .. 30
    BY <1>2, <1>15, <1>4 DEF Unloaded
  <2>4. loads' \in 0 .. MaxLoads
    BY <1>2, <1>15, <1>4 DEF Unloaded
  <2>5. held' \subseteq Resources
    BY <1>2, <1>15, <1>4 DEF Unloaded
  <2>6. failed' \in Resources \cup {One("none")}
    BY <1>2, <1>15, <1>4 DEF Unloaded
  <2>7. leaked' \subseteq (1 .. MaxLoads) \X Resources /\ wrong' \subseteq Resources
    BY <1>2, <1>15, <1>4 DEF Unloaded
  <2> QED
    BY <1>3, <2>1, <2>2, <2>3, <2>4, <2>5, <2>6, <2>7
<1> QED
  BY <1>6, <1>7, <1>8, <1>9, <1>10, <1>11, <1>12, <1>13, <1>14, <1>15 DEF Loader

LEMMA ApplicationTypes ==
    ASSUME TypeOK, NEW a \in Apps, Application(a), UNCHANGED loader
    PROVE  TypeOK'
<1>1. /\ pc' = pc /\ step' = step /\ err' = err /\ loads' = loads /\ held' = held /\ failed' = failed
      /\ leaked' = leaked /\ wrong' = wrong
  BY DEF loader
<1>2. ASSUME app' \in [Apps -> {"away", "open", "call", "get"}],
             lent' \in [Lendable -> {Free, Lost} \cup {Getting(b) : b \in Apps} \cup {Held(b) : b \in Apps}],
             halfDone' \in Nat, orphans' \in Nat
      PROVE  TypeOK'
  BY <1>1, <1>2 DEF TypeOK
<1> HIDE DEF loader, TypeOK
<1>3. app \in [Apps -> {"away", "open", "call", "get"}] /\ halfDone \in Nat /\ orphans \in Nat
  BY DEF TypeOK
<1>4. lent \in [Lendable -> {Free, Lost} \cup {Getting(b) : b \in Apps} \cup {Held(b) : b \in Apps}]
  BY DEF TypeOK
<1>5. CASE Open(a) \/ Enter(a) \/ Leave(a)
  BY <1>2, <1>3, <1>4, <1>5 DEF Open, Enter, Leave, lending
<1>6. CASE MGet(a)
  BY <1>2, <1>3, <1>4, <1>6 DEF MGet
<1>7. CASE MGetReturn(a)
  BY <1>2, <1>3, <1>4, <1>7 DEF MGetReturn
<1>8. CASE GiveBack(a)
  BY <1>2, <1>3, <1>4, <1>8 DEF GiveBack
<1>9. CASE Close(a)
  <2>1. Cardinality({b \in Lendable : lent[b] = Held(a)}) \in Nat
    BY FS_Subset, FS_CardinalityType, LoadAssumption
  <2>2. orphans' \in Nat /\ halfDone' \in Nat
    BY <1>3, <1>9, <2>1 DEF Close, lending
  <2>3. lent' \in [Lendable -> {Free, Lost} \cup {Getting(b) : b \in Apps} \cup {Held(b) : b \in Apps}]
    BY <1>4, <1>9 DEF Close, lending
  <2> QED
    BY <1>2, <1>3, <1>9, <2>2, <2>3 DEF Close
<1> QED
  BY <1>5, <1>6, <1>7, <1>8, <1>9 DEF Application

\* One line of LoaderInv speaks about each pc.
LEMMA ByPc ==
    /\ pc' = "absent" /\ AbsentInv' /\ AppInv' /\ OutInv' => LoaderInv'
    /\ pc' = "load" /\ LoadInv' /\ AppInv' /\ OutInv' => LoaderInv'
    /\ pc' = "rollback" /\ RollInv' /\ AppInv' /\ OutInv' => LoaderInv'
    /\ pc' = "in" /\ InInv' /\ AppInv' /\ OutInv' => LoaderInv'
    /\ pc' = "unload" /\ UnloadInv' /\ AppInv' /\ OutInv' => LoaderInv'
<1>1. pc' = "absent" => LoadInv' /\ RollInv' /\ InInv' /\ UnloadInv'
  BY Zenon DEF LoadInv, RollInv, InInv, UnloadInv
<1>2. pc' = "load" => AbsentInv' /\ RollInv' /\ InInv' /\ UnloadInv'
  BY Zenon DEF AbsentInv, RollInv, InInv, UnloadInv
<1>3. pc' = "rollback" => AbsentInv' /\ LoadInv' /\ InInv' /\ UnloadInv'
  BY Zenon DEF AbsentInv, LoadInv, InInv, UnloadInv
<1>4. pc' = "in" => AbsentInv' /\ LoadInv' /\ RollInv' /\ UnloadInv'
  BY Zenon DEF AbsentInv, LoadInv, RollInv, UnloadInv
<1>5. pc' = "unload" => AbsentInv' /\ LoadInv' /\ RollInv' /\ InInv'
  BY Zenon DEF AbsentInv, LoadInv, RollInv, InInv
<1> QED
  BY <1>1, <1>2, <1>3, <1>4, <1>5 DEF LoaderInv

\* While some application has the device open the loader only finishes the load.
LEMMA LoaderLeavesApps ==
    ASSUME TypeOK, AppInv, LoadInv, InInv, Loader, app' = app
    PROVE  AppInv'
<1> SUFFICES ASSUME NEW a \in Apps, app[a] # "away"
             PROVE  (pc' = "load" /\ step' \in {29, 30}) \/ (pc' = "in" /\ failed' = One("none"))
  BY DEF AppInv
<1>1. (pc = "load" /\ step \in {29, 30}) \/ (pc = "in" /\ failed = One("none"))
  BY Zenon DEF AppInv
<1>2. Len(LoadOrder) = 29 /\ LoadOrder[29] = One("mutex")
  BY LoadOrderIs, Names
<1>3. CASE pc = "load" /\ step = 29
  <2>1. Acquire
    BY <1>2, <1>3 DEF Loader, Insmod, NoObject, CannotAcquire, Loaded, RollBack, RolledBack, Rmmod, Unload, Unloaded
  <2> QED
    BY <1>3, <2>1 DEF Acquire
<1>4. CASE pc = "load" /\ step = 30
  <2>1. Loaded
    BY <1>2, <1>4 DEF Loader, Insmod, Acquire, NoObject, CannotAcquire, RollBack, RolledBack, Rmmod, Unload, Unloaded
  <2> QED
    BY <1>4, <2>1 DEF Loaded, LoadInv
<1>5. CASE pc = "in" /\ failed = One("none")
  BY <1>5 DEF Loader, Insmod, Acquire, NoObject, CannotAcquire, Loaded, RollBack, RolledBack, Rmmod, Unload, Unloaded
<1> QED
  BY <1>1, <1>3, <1>4, <1>5

LEMMA GoneStays == ASSUME leaked' = leaked, loads' = loads PROVE Gone' = Gone
BY DEF Gone

LEMMA LoaderKeepsInv ==
    ASSUME TypeOK, LoaderInv, Loader, app' = app
    PROVE  LoaderInv'
<1>1. AppInv'
  BY LoaderLeavesApps DEF LoaderInv
<1>2. AbsentInv /\ LoadInv /\ RollInv /\ InInv /\ UnloadInv /\ OutInv /\ loads \in Nat /\ step \in Nat
  BY LoadAssumption, LoadOrderIs DEF LoaderInv, TypeOK
<1>3. \A l \in leaked : l[1] \in Nat
  BY LoadAssumption DEF TypeOK
<1>4. wrong' = wrong /\ leaked' = leaked /\ loads' = loads /\ pc # "absent" => OutInv'
  BY <1>2 DEF OutInv
<1>5. \A i \in Nat : Things(1 .. i) \cup {At(i + 1)} = Things(1 .. (i + 1))
  BY DEF Things
<1>6. CASE Insmod
  <2>1. Gone' = {}
    BY <1>2, <1>6 DEF Gone, Insmod, OutInv
  <2>2. held' = Things(1 .. (step' - 1))
    BY <1>2, <1>6 DEF Insmod, AbsentInv, Things
  <2>3. LoadInv'
    BY <1>6, <2>1, <2>2 DEF Insmod, LoadInv
  <2>4. OutInv'
    BY <1>2, <1>6, <1>3 DEF Insmod, OutInv
  <2> QED
    BY <1>1, <1>6, <2>3, <2>4, ByPc DEF Insmod
<1>7. CASE Acquire
  <2>1. step \in 1 .. 29 /\ LoadOrder[step] = At(step) /\ held = Things(1 .. (step - 1))
    <3>1. pc = "load" /\ step <= Len(LoadOrder)
      BY <1>7 DEF Acquire
    <3>2. step \in 1 .. 30 /\ held = Things(1 .. (step - 1))
      BY <1>2, <3>1 DEF LoadInv
    <3>3. step \in 1 .. 29
      BY <3>1, <3>2, LoadOrderIs
    <3> QED
      BY <3>2, <3>3, LoadOrderIs
  <2>2. held' = Things(1 .. (step' - 1)) /\ step' \in 1 .. 30
    <3>1. step - 1 \in Nat /\ (step - 1) + 1 = step /\ step' = step + 1 /\ (step + 1) - 1 = step
      BY <1>7, <2>1 DEF Acquire
    <3>2. held' = Things(1 .. (step - 1)) \cup {At(step)}
      BY <1>7, <2>1 DEF Acquire
    <3>3. Things(1 .. (step - 1)) \cup {At((step - 1) + 1)} = Things(1 .. ((step - 1) + 1))
      BY <1>5, <3>1
    <3>4. (step + 1) - 1 = step /\ step + 1 \in 1 .. 30
      BY <2>1
    <3> QED
      BY <3>1, <3>2, <3>3, <3>4
  <2>3. LoadInv'
    BY <1>2, <1>7, <2>2, GoneStays DEF Acquire, LoadInv
  <2>4. OutInv'
    BY <1>2, <1>7 DEF Acquire, OutInv
  <2> QED
    BY <1>1, <1>7, <2>3, <2>4, ByPc DEF Acquire
<1>8. CASE NoObject
  <2>1. Gone' = {} /\ held' = {}
    BY <1>2, <1>8, GoneStays DEF NoObject, LoadInv, Things
  <2>2. failed' \in Things({1} \cup 23 .. 28)
    BY <1>8, LoadOrderIs DEF NoObject, Things
  <2>3. AbsentInv'
    BY <2>1, <2>2 DEF AbsentInv
  <2>4. OutInv'
    BY <1>2, <1>8 DEF NoObject, OutInv
  <2> QED
    BY <1>1, <1>8, <2>3, <2>4, ByPc DEF NoObject
<1>9. CASE CannotAcquire
  <2>1. step \in 2 .. 28 /\ LoadOrder[step] = At(step) /\ held' = Things(1 .. (step - 1))
    <3>1. /\ pc = "load" /\ step \in 2 .. Len(LoadOrder) /\ LoadOrder[step] # One("mutex")
          /\ held' = held
      BY <1>9 DEF CannotAcquire
    <3>2. held = Things(1 .. (step - 1))
      BY <1>2, <3>1 DEF LoadInv
    <3>3. step \in 2 .. 29 /\ LoadOrder[step] = At(step)
      BY <3>1, LoadOrderIs
    <3>4. At(29) = One("mutex")
      BY DEF At
    <3>5. step # 29
      BY <3>1, <3>3, <3>4
    <3> QED
      BY <3>1, <3>2, <3>3, <3>5
  <2>2. Gone' = {}
    BY <1>2, <1>9, GoneStays DEF CannotAcquire, LoadInv
  <2>3. failed' = At(step) /\ step' = FailLabel(At(step)) /\ err' = ~SilentFailure(At(step))
    BY <1>9, <2>1, Zenon DEF CannotAcquire
  <2>4. err' = (failed' \notin {At(26), At(28)})
    BY <2>1, <2>3, FailLabelIs
  <2>5. CASE step \in 2 .. 22
    <3>1. step' = 7
      BY <2>3, <2>5, FailLabelIs
    <3> QED
      BY <1>1, <1>2, <1>9, <2>1, <2>2, <2>3, <2>4, <2>5, <3>1, ByPc DEF CannotAcquire, RollInv, OutInv
  <2>6. CASE step \in 23 .. 28
    <3>1. step' = 29 - step /\ step' \in 1 .. 6 /\ 28 - step' = step - 1
      BY <2>3, <2>6, FailLabelIs
    <3>2. held' = Things(Kept(step'))
      BY <2>1, <3>1 DEF Kept
    <3>3. failed' \in Things(23 .. 28)
      BY <2>3, <2>6 DEF Things
    <3>4. RollInv'
      BY <2>2, <2>4, <3>1, <3>2, <3>3 DEF RollInv
    <3> QED
      BY <1>1, <1>2, <1>9, <3>4, ByPc DEF CannotAcquire, OutInv
  <2> QED
    BY <2>1, <2>5, <2>6
<1>10. CASE Loaded
  <2>1. step = 30 /\ held = Things(1 .. 29)
    <3>1. step = 30 /\ held = Things(1 .. (step - 1)) /\ 30 - 1 = 29
      BY <1>2, <1>10, LoadOrderIs DEF Loaded, LoadInv
    <3> QED
      BY <3>1
  <2> QED
    BY <1>1, <1>2, <1>10, <2>1, GoneStays, ByPc DEF Loaded, LoadInv, InInv, OutInv
<1>11. CASE RollBack
  <2>1. step \in 1 .. 7 /\ step' = step + 1 /\ pc' = "rollback" /\ failed' = failed /\ loads' = loads /\ Released(Rollback[step])
    BY <1>2, <1>11, RollbackIs DEF RollBack, RollInv
  <2>2. err' = (failed' \notin {At(26), At(28)})
    BY <1>2, <1>11, Zenon DEF RollBack, RollInv
  <2>3. CASE failed \in Things(23 .. 28) /\ held = Things(Kept(step)) /\ Gone = {}
    <3>1. CASE step \in 1 .. 5
      <4>1. Rollback[step] = Things({28 - step}) /\ Part({28 - step}, 1 .. (28 - step)) /\ 1 \notin {28 - step}
        BY <3>1, RollbackIs DEF Part
      <4>2. held = Things(1 .. (28 - step))
        BY <2>3, <3>1 DEF Kept
      <4>3. Released(Things({28 - step}))
        BY <2>1, <4>1
      <4>4. wrong' = wrong /\ held' = Things((1 .. (28 - step)) \ {28 - step}) /\ leaked' = leaked
        BY <2>1, <4>1, <4>2, <4>3, ReleaseOfHeld, Zenon
      <4>5. (1 .. (28 - step)) \ {28 - step} = Kept(step') /\ step' \in 1 .. 8
        BY <2>1, <3>1 DEF Kept
      <4>6. RollInv'
        BY <2>1, <2>2, <2>3, <4>4, <4>5, GoneStays DEF RollInv
      <4> QED
        BY <1>1, <1>2, <2>1, <4>4, <4>6, <1>11, <1>4, ByPc DEF RollBack
    <3>2. CASE step = 6
      <4>1. Rollback[step] = Things(2 .. 22) /\ Part(2 .. 22, 1 .. 22) /\ 1 \notin 2 .. 22
        BY <3>2, RollbackIs DEF Part
      <4>2. held = Things(1 .. 22)
        BY <2>3, <3>2 DEF Kept
      <4>3. wrong' = wrong /\ held' = Things((1 .. 22) \ (2 .. 22)) /\ leaked' = leaked
        BY <2>1, <4>1, <4>2, ReleaseOfHeld
      <4>4. (1 .. 22) \ (2 .. 22) = Kept(step') /\ step' \in 1 .. 8
        BY <2>1, <3>2 DEF Kept
      <4>5. RollInv'
        BY <2>1, <2>2, <2>3, <4>3, <4>4, GoneStays DEF RollInv
      <4> QED
        BY <1>1, <1>2, <2>1, <4>3, <4>5, <1>11, <1>4, ByPc DEF RollBack
    <3>3. CASE step = 7
      <4>1. Rollback[step] = Things({1}) /\ Part({1}, {1}) /\ 1 \in {1}
        BY <3>3, RollbackIs DEF Part
      <4>2. held = Things({1})
        BY <2>3, <3>3 DEF Kept
      <4>3. wrong' = wrong /\ held' = {} /\ Gone' = Gone \cup Things({1} \ ({1} \cup {29}))
            /\ leaked' = leaked \cup {<<loads, r>> : r \in Things({1} \ ({1} \cup {29}))}
        BY <2>1, <4>1, <4>2, ReleaseOfHeld
      <4>4. Gone' = {} /\ leaked' = leaked /\ held' = Things(Kept(step')) /\ step' = 8
        BY <2>1, <2>3, <3>3, <4>3 DEF Things, Kept
      <4>5. RollInv'
        BY <2>1, <2>2, <2>3, <4>4 DEF RollInv
      <4> QED
        BY <1>1, <1>2, <2>1, <4>3, <4>4, <4>5, <1>11, <1>4, ByPc DEF RollBack
    <3> QED
      BY <2>1, <3>1, <3>2, <3>3
  <2>4. ASSUME NEW f \in 2 .. 22, failed = At(f), step = 7, held = Things(1 .. (f - 1)), Gone = {}
        PROVE  LoaderInv'
    <3>1. Rollback[step] = Things({1}) /\ Part({1}, 1 .. (f - 1)) /\ 1 \in {1}
      BY <2>4, RollbackIs DEF Part
    <3>2. Released(Things({1}))
      BY <2>1, <3>1
    <3>3. wrong' = wrong /\ held' = {} /\ Gone' = Gone \cup Things((1 .. (f - 1)) \ ({1} \cup {29}))
          /\ leaked' = leaked \cup {<<loads, r>> : r \in Things((1 .. (f - 1)) \ ({1} \cup {29}))}
      BY <2>1, <2>4, <3>1, <3>2, ReleaseOfHeld, Zenon
    <3>4. (1 .. (f - 1)) \ ({1} \cup {29}) = 2 .. (f - 1)
      OBVIOUS
    <3>5. Gone' = Things(2 .. (f - 1))
      BY <2>4, <3>3, <3>4
    <3>6. RollInv'
      <4>1. step' = 8 /\ failed' = At(f) /\ held' = {}
        BY <2>1, <2>4, <3>3
      <4> QED
        BY <2>2, <3>5, <4>1, Zenon DEF RollInv
    <3>7. OutInv'
      <4>1. loads \in Nat /\ \A l \in leaked' : l[1] <= loads
        BY <1>2, <3>3 DEF OutInv
      <4> QED
        BY <1>2, <1>11, <2>1, <3>3, <4>1 DEF OutInv, RollBack
    <3> QED
      BY <1>1, <2>1, <3>6, <3>7, ByPc
  <2> QED
    BY <1>2, <1>11, <2>1, <2>3, <2>4 DEF RollBack, RollInv
<1>12. CASE RolledBack
  <2>1. step = 8
    BY <1>2, <1>12, RollbackIs DEF RolledBack, RollInv
  <2>2. UNCHANGED <<step, err, loads, held, failed, leaked, wrong>> /\ pc' = IF err THEN "absent" ELSE "in"
    BY <1>12, Zenon DEF RolledBack
  <2>3. Gone' = Gone /\ OutInv'
    BY <1>2, <1>12, <2>2, GoneStays DEF OutInv, RolledBack
  <2>4. held = {}
    BY <1>2, <1>12, <2>1 DEF RolledBack, RollInv, Kept, Things
  <2>5. err = (failed \notin {At(26), At(28)})
    BY <1>2, <1>12, Zenon DEF RolledBack, RollInv
  <2>6. (\E f \in 2 .. 22 : failed = At(f) /\ Gone = Things(2 .. (f - 1))) \/ (failed \in Things(23 .. 28) /\ Gone = {})
    <3>1. pc = "rollback"
      BY <1>12, Zenon DEF RolledBack
    <3>2. \/ \E f \in 2 .. 22 :
                 /\ failed = At(f)
                 /\ (step = 7 /\ held = Things(1 .. (f - 1)) /\ Gone = {}) \/ (step = 8 /\ held = {} /\ Gone = Things(2 .. (f - 1)))
          \/ failed \in Things(23 .. 28) /\ Gone = {}
      BY <1>2, <3>1, Zenon DEF RollInv
    <3> QED
      BY <2>1, <3>2
  <2>7. CASE err
    <3>1. AbsentInv'
      <4>1. Things(23 .. 28) \subseteq Things({1} \cup 23 .. 28)
        BY DEF Things
      <4> QED
        BY <2>2, <2>3, <2>4, <2>6, <4>1 DEF AbsentInv
    <3> QED
      BY <1>1, <2>2, <2>3, <2>7, <3>1, ByPc
  <2>8. CASE ~err
    <3>1. failed \in {At(26), At(28)}
      BY <2>5, <2>8
    <3>2. Gone = {}
      <4>1. \A f \in 2 .. 22 : failed # At(f)
        BY <3>1, AllDiffer
      <4> QED
        BY <1>2, <1>12, <4>1 DEF RolledBack, RollInv
    <3>3. InInv'
      BY <2>2, <2>3, <2>4, <3>1, <3>2 DEF InInv
    <3> QED
      BY <1>1, <2>2, <2>3, <2>8, <3>3, ByPc
  <2>9. err \in BOOLEAN
    BY Zenon DEF TypeOK
  <2> QED
    BY <2>7, <2>8, <2>9
<1>13. CASE Rmmod
  <2>1. Gone' = Gone /\ held' = held /\ failed' = failed /\ step' = 1
    BY <1>13, GoneStays DEF Rmmod
  <2>2. OutInv'
    BY <1>2, <1>13 DEF OutInv, Rmmod
  <2>3. CASE failed = One("none") /\ held = Things(1 .. 29)
    <3>1. One("objId") \in held
      BY <2>3, Names DEF Things
    <3>2. pc' = "unload"
      BY <1>13, <3>1 DEF Rmmod
    <3>3. UnloadInv'
      BY <1>2, <1>13, <2>1, <2>3 DEF UnloadInv, InInv, Rmmod, Left
    <3> QED
      BY <1>1, <2>2, <3>2, <3>3, ByPc
  <2>4. CASE failed \in {At(26), At(28)} /\ held = {}
    <3>1. pc' = "absent"
      BY <1>13, <2>4 DEF Rmmod
    <3>2. failed \in Things({1} \cup 23 .. 28)
      BY <2>4 DEF Things
    <3>3. AbsentInv'
      BY <1>2, <1>13, <2>1, <2>4, <3>2 DEF AbsentInv, InInv, Rmmod
    <3> QED
      BY <1>1, <2>2, <3>1, <3>3, ByPc
  <2> QED
    BY <1>2, <1>13, <2>3, <2>4 DEF Rmmod, InInv
<1>14. CASE Unload
  <2>1. step \in 1 .. 9 /\ step' = step + 1 /\ pc' = "unload" /\ failed' = failed /\ loads' = loads /\ Released(UnloadOrder[step])
    BY <1>2, <1>14, UnloadOrderIs DEF Unload, UnloadInv
  <2>2. failed = One("none") /\ held = Things(Left(step)) /\ Gone = {}
    BY <1>2, <1>14 DEF Unload, UnloadInv
  <2>3. Left(step) \in SUBSET (1 .. 29)
    BY <2>1 DEF Left
  <2>4. ASSUME held' = Things(Left(step')), wrong' \subseteq {One("region")}, leaked' = leaked PROVE LoaderInv'
    <3>1. UnloadInv'
      BY <2>1, <2>2, <2>4, GoneStays DEF UnloadInv
    <3> QED
      BY <1>1, <1>2, <1>14, <2>1, <2>4, <3>1, ByPc DEF OutInv, Unload
  <2>5. CASE step = 1
    <3>1. UnloadOrder[step] = Things({28}) /\ Part({28}, Left(step)) /\ 1 \notin {28} /\ Left(step) \ ({28}) = Left(step')
      BY <2>1, <2>5, <2>3, UnloadOrderIs DEF Left, Part
    <3>2. wrong' = wrong /\ held' = Things(Left(step) \ ({28})) /\ leaked' = leaked
      BY <2>1, <2>2, <2>3, <3>1, ReleaseOfHeld
    <3> QED
      BY <1>2, <2>4, <3>1, <3>2 DEF OutInv
  <2>6. CASE step = 2
    <3>1. UnloadOrder[step] = Things({26}) /\ Part({26}, Left(step)) /\ 1 \notin {26} /\ Left(step) \ ({26}) = Left(step')
      BY <2>1, <2>6, <2>3, UnloadOrderIs DEF Left, Part
    <3>2. wrong' = wrong /\ held' = Things(Left(step) \ ({26})) /\ leaked' = leaked
      BY <2>1, <2>2, <2>3, <3>1, ReleaseOfHeld
    <3> QED
      BY <1>2, <2>4, <3>1, <3>2 DEF OutInv
  <2>7. CASE step = 3
    <3>1. UnloadOrder[step] = Things({27}) /\ Part({27}, Left(step)) /\ 1 \notin {27} /\ Left(step) \ ({27}) = Left(step')
      BY <2>1, <2>7, <2>3, UnloadOrderIs DEF Left, Part
    <3>2. wrong' = wrong /\ held' = Things(Left(step) \ ({27})) /\ leaked' = leaked
      BY <2>1, <2>2, <2>3, <3>1, ReleaseOfHeld
    <3> QED
      BY <1>2, <2>4, <3>1, <3>2 DEF OutInv
  <2>8. CASE step = 4
    <3>1. UnloadOrder[step] = Things({25}) /\ Part({25}, Left(step)) /\ 1 \notin {25} /\ Left(step) \ ({25}) = Left(step')
      BY <2>1, <2>8, <2>3, UnloadOrderIs DEF Left, Part
    <3>2. wrong' = wrong /\ held' = Things(Left(step) \ ({25})) /\ leaked' = leaked
      BY <2>1, <2>2, <2>3, <3>1, ReleaseOfHeld
    <3> QED
      BY <1>2, <2>4, <3>1, <3>2 DEF OutInv
  <2>9. CASE step = 5
    <3>1. UnloadOrder[step] = Things({24}) /\ Part({24}, Left(step)) /\ 1 \notin {24} /\ Left(step) \ ({24}) = Left(step')
      BY <2>1, <2>9, <2>3, UnloadOrderIs DEF Left, Part
    <3>2. wrong' = wrong /\ held' = Things(Left(step) \ ({24})) /\ leaked' = leaked
      BY <2>1, <2>2, <2>3, <3>1, ReleaseOfHeld
    <3> QED
      BY <1>2, <2>4, <3>1, <3>2 DEF OutInv
  <2>10. CASE step = 7
    <3>1. UnloadOrder[step] = Things({23}) /\ Part({23}, Left(step)) /\ 1 \notin {23} /\ Left(step) \ ({23}) = Left(step')
      BY <2>1, <2>10, <2>3, UnloadOrderIs DEF Left, Part
    <3>2. wrong' = wrong /\ held' = Things(Left(step) \ ({23})) /\ leaked' = leaked
      BY <2>1, <2>2, <2>3, <3>1, ReleaseOfHeld
    <3> QED
      BY <1>2, <2>4, <3>1, <3>2 DEF OutInv
  <2>11. CASE step = 8
    <3>1. UnloadOrder[step] = Things(2 .. 22) /\ Part(2 .. 22, Left(step)) /\ 1 \notin 2 .. 22 /\ Left(step) \ (2 .. 22) = Left(step')
      BY <2>1, <2>11, <2>3, UnloadOrderIs DEF Left, Part
    <3>2. wrong' = wrong /\ held' = Things(Left(step) \ (2 .. 22)) /\ leaked' = leaked
      BY <2>1, <2>2, <2>3, <3>1, ReleaseOfHeld
    <3> QED
      BY <1>2, <2>4, <3>1, <3>2 DEF OutInv
  <2>12. CASE step = 6
    <3>1. Left(step) = Left(step')
      BY <2>1, <2>12 DEF Left
    <3>2. wrong' = wrong \cup {One("region")} /\ held' = held /\ leaked' = leaked
      BY <2>1, <2>2, <2>3, <2>12, UnloadOrderIs, ReleaseOfRegion
    <3> QED
      BY <1>2, <2>2, <2>4, <3>1, <3>2 DEF OutInv
  <2>13. CASE step = 9
    <3>1. UnloadOrder[step] = Things({1}) /\ Part({1}, Left(step)) /\ 1 \in {1} /\ Left(step) \ ({1} \cup {29}) = {} /\ Left(step') = {}
      BY <2>1, <2>13, <2>3, UnloadOrderIs DEF Left, Part
    <3>2. wrong' = wrong /\ held' = {} /\ leaked' = leaked \cup {<<loads, r>> : r \in Things(Left(step) \ ({1} \cup {29}))}
      <4>1. Released(Things({1}))
        BY <2>1, <3>1
      <4> QED
        BY <2>1, <2>2, <3>1, <4>1, ReleaseOfHeld, Zenon
    <3>3. leaked' = leaked /\ held' = Things(Left(step'))
      BY <3>1, <3>2 DEF Things
    <3> QED
      BY <1>2, <2>4, <3>2, <3>3 DEF OutInv
  <2> QED
    BY <2>1, <2>5, <2>6, <2>7, <2>8, <2>9, <2>10, <2>11, <2>12, <2>13
<1>15. CASE Unloaded
  <2>1. step = 10
    BY <1>2, <1>15, UnloadOrderIs DEF Unloaded, UnloadInv
  <2>2. held = {} /\ Gone = {} /\ failed = One("none")
    BY <1>2, <1>15, <2>1 DEF Unloaded, UnloadInv, Left, Things
  <2>3. AbsentInv'
    BY <1>15, <2>2, GoneStays DEF Unloaded, AbsentInv
  <2>4. OutInv'
    BY <1>2, <1>15 DEF Unloaded, OutInv
  <2> QED
    BY <1>1, <1>15, <2>3, <2>4, ByPc DEF Unloaded
<1> QED
  BY <1>6, <1>7, <1>8, <1>9, <1>10, <1>11, <1>12, <1>13, <1>14, <1>15 DEF Loader

LEMMA ApplicationKeepsInv ==
    ASSUME TypeOK, LoaderInv, NEW a \in Apps, Application(a), UNCHANGED loader
    PROVE  LoaderInv'
<1>1. /\ pc' = pc /\ step' = step /\ err' = err /\ loads' = loads /\ held' = held /\ failed' = failed
      /\ leaked' = leaked /\ wrong' = wrong
  BY DEF loader
<1>2. AbsentInv' /\ LoadInv' /\ RollInv' /\ InInv' /\ UnloadInv' /\ OutInv'
  BY <1>1 DEF LoaderInv, AbsentInv, LoadInv, RollInv, InInv, UnloadInv, OutInv, Gone
<1>3. AbsentInv /\ LoadInv /\ RollInv /\ InInv /\ UnloadInv /\ AppInv
  BY DEF LoaderInv
<1> DEFINE Usable == (pc = "load" /\ step \in {29, 30}) \/ (pc = "in" /\ failed = One("none"))
<1>4. app \in [Apps -> {"away", "open", "call", "get"}] /\ pc \in {"absent", "load", "rollback", "in", "unload"}
  BY DEF TypeOK
<1>5. CASE Open(a)
  <2>1. At(28) \in held /\ pc # "unload"
    BY <1>5, Names DEF Open
  <2>2. \A S \in SUBSET (1 .. 29) : At(28) \in Things(S) => 28 \in S
    BY AllDiffer DEF Things
  <2>3. ASSUME pc = "load" PROVE Usable
    <3>1. step \in 1 .. 30 /\ held = Things(1 .. (step - 1))
      BY <1>3, <2>3 DEF LoadInv
    <3>2. 28 \in 1 .. (step - 1)
      BY <2>1, <2>2, <3>1
    <3> QED
      BY <2>3, <3>1, <3>2
  <2>4. ASSUME pc = "in" PROVE Usable
    BY <1>3, <2>1, <2>4 DEF InInv
  <2>5. ASSUME pc = "rollback" PROVE Usable
    <3>1. PICK S \in SUBSET (1 .. 27) : held = Things(S)
      <4>1. \/ \E f \in 2 .. 22 : held = Things(1 .. (f - 1)) \/ held = {}
            \/ step \in 1 .. 8 /\ held = Things(Kept(step))
        BY <1>3, <2>5, Zenon DEF RollInv
      <4>2. \A f \in 2 .. 22 : 1 .. (f - 1) \in SUBSET (1 .. 27)
        OBVIOUS
      <4>3. step \in 1 .. 8 => Kept(step) \in SUBSET (1 .. 27)
        BY DEF Kept
      <4>4. held # {}
        BY <2>1
      <4> QED
        BY <4>1, <4>2, <4>3, <4>4
    <3>2. S \in SUBSET (1 .. 29) /\ 28 \notin S
      OBVIOUS
    <3> QED
      BY <2>1, <2>2, <3>1, <3>2
  <2>6. ASSUME pc = "absent" PROVE Usable
    BY <1>3, <2>1, <2>6 DEF AbsentInv
  <2>7. Usable
    BY <1>4, <2>1, <2>3, <2>4, <2>5, <2>6
  <2> QED
    BY <1>1, <1>2, <2>7 DEF AppInv, LoaderInv
<1>6. CASE ~Open(a)
  <2>1. app[a] # "away" /\ \A b \in Apps : b # a => app'[b] = app[b]
    BY <1>4, <1>6 DEF Application, Enter, Leave, MGet, MGetReturn, GiveBack, Close
  <2>2. Usable
    BY <1>3, <2>1 DEF AppInv
  <2>3. AppInv'
    BY <1>1, <2>2 DEF AppInv
  <2> QED
    BY <1>2, <2>3 DEF LoaderInv
<1> QED
  BY <1>5, <1>6

LEMMA LoadInductive == Spec => [](TypeOK /\ LoaderInv)
<1>1. ASSUME TypeOK, LoaderInv, [Next]_vars
      PROVE  TypeOK' /\ LoaderInv'
  <2>1. CASE Loader /\ UNCHANGED <<app, lending>>
    BY <1>1, <2>1, LoaderTypes, LoaderKeepsInv
  <2>2. ASSUME NEW a \in Apps, Application(a), UNCHANGED loader
        PROVE  TypeOK' /\ LoaderInv'
    BY <1>1, <2>2, ApplicationTypes, ApplicationKeepsInv
  <2>3. CASE UNCHANGED vars
    <3>1. /\ pc' = pc /\ step' = step /\ err' = err /\ loads' = loads /\ held' = held /\ failed' = failed
          /\ leaked' = leaked /\ wrong' = wrong /\ app' = app /\ lent' = lent /\ halfDone' = halfDone
          /\ orphans' = orphans
      BY <2>3 DEF vars, loader, lending
    <3> QED
      BY <1>1, <3>1 DEF TypeOK, LoaderInv, AbsentInv, LoadInv, RollInv, InInv, UnloadInv, AppInv, OutInv, Gone
  <2> QED
    BY <1>1, <2>1, <2>2, <2>3 DEF Next
<1> QED
  BY <1>1, InitOK, PTL DEF Spec

(* Type correctness of the driver's loading and of the memory it lends.    *)
THEOREM LoadTypes == Spec => []TypeOK
BY LoadInductive, PTL

(* A call inside the driver finds all nna_conv2d and the walk use in place, *)
(* whatever insmod or rmmod is doing.                                      *)
THEOREM CallsFindTheirResources == Spec => []CallsHaveTheirResources
<1>1. ASSUME TypeOK, LoaderInv PROVE CallsHaveTheirResources
  <2> SUFFICES ASSUME NEW a \in Apps, app[a] = "call"
               PROVE  /\ Blocks \cup {One("objId"), One("dma"), One("cra")} \subseteq held
                      /\ pc # "load" => One("mutex") \in held
    BY DEF CallsHaveTheirResources
  <2>1. (pc = "load" /\ step \in {29, 30}) \/ (pc = "in" /\ failed = One("none"))
    BY <1>1 DEF LoaderInv, AppInv
  <2>2. \A i \in {1, 23, 24} \cup 2 .. 22 : At(i) \in held
    BY <1>1, <2>1, AllDiffer DEF LoaderInv, LoadInv, InInv, Things
  <2>3. pc # "load" => At(29) \in held
    BY <1>1, <2>1, AllDiffer DEF LoaderInv, InInv, Things
  <2>4. Blocks \subseteq held
    BY <2>2, BlocksAre DEF Things
  <2> QED
    BY <2>2, <2>3, <2>4, Names
<1> QED
  BY <1>1, LoadInductive, PTL

(* A module that insmod reports as loaded holds everything but the region  *)
(* nobody requested, except after a failed class_create or device_create.  *)
THEOREM WhatIsLoadedIsUsable == Spec => []LoadedIsUsable
<1>1. ASSUME LoaderInv PROVE LoadedIsUsable
  <2>1. At(26) = One("class") /\ At(28) = One("device") /\ At(26) # One("none") /\ At(28) # One("none")
    BY Names, AllDiffer
  <2>2. Things(1 .. 29) = Resources \ {One("region")}
    BY ResourcesAre, AllDiffer DEF Things
  <2> QED
    BY <1>1, <2>1, <2>2 DEF LoaderInv, InInv, LoadedIsUsable
<1> QED
  BY <1>1, LoadInductive, PTL

(* nna_init and nna_exit give back what was taken, a failed load's blocks  *)
(* apart.                                                                  *)
THEOREM OnlyBlocksLeak == Spec => []LeaksOnlyBlocks
<1>1. ASSUME LoaderInv PROVE LeaksOnlyBlocks
  <2> SUFFICES ASSUME pc = "absent" PROVE LeaksOnlyBlocks
    BY DEF LeaksOnlyBlocks
  <2>1. AbsentInv /\ held = {}
    BY <1>1 DEF LoaderInv, AbsentInv
  <2>2. \A i \in 1 .. 21 : BlockOrder[i] = At(i + 1)
    <3>1. \A i \in 1 .. 21 : BlockOrder[i] = BlockAt(i + 0)
      BY Order DEF Lists
    <3>2. \A i \in 1 .. 21 : BlockAt(i + 0) = At(i + 1)
      BY DEF At
    <3> QED
      BY <3>1, <3>2
  <2>3. Len(BlockOrder) = 21
    BY Order DEF Lists
  <2> DEFINE Before == {BlockOrder[i] : i \in {k \in 1 .. Len(BlockOrder) :
                            \E j \in (k + 1) .. Len(BlockOrder) : BlockOrder[j] = failed}}
  <2>4. CASE \E f \in 2 .. 22 : failed = At(f) /\ Gone = Things(2 .. (f - 1))
    <3>1. PICK f \in 2 .. 22 : failed = At(f) /\ Gone = Things(2 .. (f - 1))
      BY <2>4
    <3>2. failed \in Blocks
      BY <3>1, BlocksAre DEF Things
    <3>3. ASSUME NEW k \in 1 .. 21 PROVE (\E j \in (k + 1) .. 21 : BlockOrder[j] = failed) <=> k + 1 <= f - 1
      <4>1. \A j \in (k + 1) .. 21 : BlockOrder[j] = failed <=> j + 1 = f
        <5>1. ASSUME NEW j \in (k + 1) .. 21 PROVE BlockOrder[j] = failed <=> j + 1 = f
          <6>1. j \in 1 .. 21 /\ j + 1 \in 1 .. 29 /\ f \in 1 .. 29
            OBVIOUS
          <6>2. BlockOrder[j] = At(j + 1)
            BY <2>2, <6>1
          <6> QED
            BY <3>1, <6>1, <6>2, AllDiffer
        <5> QED
          BY <5>1
      <4>2. f - 1 \in 1 .. 21 /\ (f - 1) + 1 = f
        OBVIOUS
      <4> QED
        BY <4>1, <4>2
    <3>4. Before = Things(2 .. (f - 1))
      <4>1. Before = {BlockOrder[i] : i \in {k \in 1 .. 21 : \E j \in (k + 1) .. 21 : BlockOrder[j] = failed}}
        BY <2>3
      <4>2. ASSUME NEW x \in Before PROVE x \in Things(2 .. (f - 1))
        <5>1. PICK k \in 1 .. 21 : k + 1 <= f - 1 /\ x = BlockOrder[k]
          BY <3>3, <4>1
        <5>2. x = At(k + 1)
          BY <2>2, <5>1
        <5>3. k + 1 \in 2 .. (f - 1)
          <6>1. k \in 1 .. 21 /\ k + 1 <= f - 1
            BY <5>1
          <6> QED
            BY <6>1, SMTT(20)
        <5> QED
          BY <5>2, <5>3 DEF Things
      <4>3. ASSUME NEW x \in Things(2 .. (f - 1)) PROVE x \in Before
        <5>1. PICK i \in 2 .. (f - 1) : x = At(i)
          BY DEF Things
        <5>2. i - 1 \in 1 .. 21 /\ (i - 1) + 1 = i
          OBVIOUS
        <5>3. x = BlockOrder[i - 1] /\ \E j \in ((i - 1) + 1) .. 21 : BlockOrder[j] = failed
          BY <2>2, <3>3, <5>1, <5>2
        <5> QED
          BY <4>1, <5>2, <5>3
      <4> HIDE DEF Before
      <4> QED
        BY <4>2, <4>3
    <3> QED
      BY <2>1, <3>1, <3>2, <3>4 DEF LeaksOnlyBlocks, Gone
  <2>5. CASE (failed = One("none") \/ failed \in Things({1} \cup 23 .. 28)) /\ Gone = {}
    <3>1. failed \notin Blocks
      BY <2>5, BlocksAre, AllDiffer DEF Things
    <3> QED
      BY <2>1, <2>5, <3>1 DEF LeaksOnlyBlocks, Gone
  <2> QED
    BY <2>1, <2>4, <2>5 DEF AbsentInv
<1> QED
  BY <1>1, LoadInductive, PTL

(* No path of nna_init or nna_exit releases what it does not hold, the     *)
(* register region apart.                                                  *)
THEOREM OnlyHeldIsReleased == Spec => []ReleasesOnlyHeld
<1>1. LoaderInv => ReleasesOnlyHeld
  BY DEF LoaderInv, OutInv, ReleasesOnlyHeld
<1> QED
  BY <1>1, LoadInductive, PTL

-----------------------------------------------------------------------------
(* The memory that MGET lends.                                             *)

\* The blocks nobody can return, and those an MGET of a is handing over.
LostBlocks == {b \in Lendable : lent[b] = Lost}
GotBy(a) == {b \in Lendable : lent[b] = Getting(a)}

\* An application in MGET is getting one block, others none.
LentInv ==
    /\ Cardinality(LostBlocks) = halfDone + orphans
    /\ \A a \in Apps : IF app[a] = "get" THEN \E b \in Lendable : GotBy(a) = {b} ELSE GotBy(a) = {}

LEMMA LentDiffer ==
    /\ \A a, b : Getting(a) = Getting(b) => a = b
    /\ \A a, b : Getting(a) # Held(b) /\ Getting(a) # Free /\ Getting(a) # Lost /\ Held(a) # Free /\ Held(a) # Lost
    /\ Free # Lost
<1>1. \A a : Getting(a)[1] = "getting" /\ Held(a)[1] = "held"
  BY DEF Getting, Held
<1>2. Free[1] = "free" /\ Lost[1] = "lost"
  BY DEF Free, Lost
<1>3. \A a, b : Getting(a) = Getting(b) => a = b
  BY DEF Getting
<1> QED
  BY <1>1, <1>2, <1>3

LEMMA FiniteLending == \A S \in SUBSET Lendable : IsFiniteSet(S) /\ Cardinality(S) \in Nat
BY LoadAssumption, FS_Subset, FS_CardinalityType

LEMMA OneMoreLost ==
    ASSUME NEW b \in Lendable, lent[b] # Lost, LostBlocks' = LostBlocks \cup {b}
    PROVE  Cardinality(LostBlocks') = Cardinality(LostBlocks) + 1
<1>1. b \notin LostBlocks /\ IsFiniteSet(LostBlocks)
  BY FiniteLending DEF LostBlocks
<1> QED
  BY <1>1, FS_AddElement

\* Only a's blocks change, and a is not in MGET before or after.
LEMMA LentInvStep ==
    ASSUME TypeOK, LentInv, NEW a \in Apps, Application(a)
    PROVE  LentInv'
<1>1. /\ app \in [Apps -> {"away", "open", "call", "get"}] /\ halfDone \in Nat /\ orphans \in Nat
      /\ lent \in [Lendable -> {Free, Lost} \cup {Getting(b) : b \in Apps} \cup {Held(b) : b \in Apps}]
  BY DEF TypeOK
<1>2. ASSUME NEW c \in Apps, c # a PROVE app'[c] = app[c]
  BY <1>1, <1>2 DEF Application, Open, Enter, Leave, MGet, MGetReturn, GiveBack, Close
<1>3. ASSUME \A c \in Apps : c # a => GotBy(c)' = GotBy(c),
             IF app'[a] = "get" THEN \E b \in Lendable : GotBy(a)' = {b} ELSE GotBy(a)' = {},
             Cardinality(LostBlocks') = halfDone' + orphans'
      PROVE  LentInv'
  <2>1. ASSUME NEW c \in Apps
        PROVE  IF app'[c] = "get" THEN \E b \in Lendable : GotBy(c)' = {b} ELSE GotBy(c)' = {}
    <3>1. CASE c = a
      BY <1>3, <3>1
    <3>2. CASE c # a
      <4>1. GotBy(c)' = GotBy(c) /\ app'[c] = app[c]
        BY <1>2, <1>3, <3>2
      <4> QED
        BY <4>1 DEF LentInv
    <3> QED
      BY <3>1, <3>2
  <2> QED
    BY <1>3, <2>1 DEF LentInv
<1>4. Cardinality(LostBlocks) = halfDone + orphans
  BY DEF LentInv
<1>5. CASE Open(a) \/ Enter(a) \/ Leave(a)
  <2>1. lent' = lent /\ halfDone' = halfDone /\ orphans' = orphans
    BY <1>5 DEF Open, Enter, Leave, lending
  <2>2. (\A c : GotBy(c)' = GotBy(c)) /\ LostBlocks' = LostBlocks
    BY <2>1 DEF GotBy, LostBlocks
  <2>3. app[a] # "get" /\ app'[a] # "get"
    BY <1>1, <1>5 DEF Open, Enter, Leave
  <2> QED
    BY <1>3, <1>4, <2>1, <2>2, <2>3 DEF LentInv
<1>6. CASE MGet(a)
  <2>1. PICK b \in Lendable : lent[b] = Free /\ lent' = [lent EXCEPT ![b] = Getting(a)]
    BY <1>6 DEF MGet
  <2>2. GotBy(a) = {} /\ app'[a] = "get" /\ halfDone' = halfDone /\ orphans' = orphans
    BY <1>1, <1>6 DEF MGet, LentInv
  <2>3. GotBy(a)' = {b}
    BY <1>1, <2>1, <2>2 DEF GotBy
  <2>4. \A c \in Apps : c # a => GotBy(c)' = GotBy(c)
    BY <1>1, <2>1, LentDiffer DEF GotBy
  <2>5. LostBlocks' = LostBlocks
    BY <1>1, <2>1, LentDiffer DEF LostBlocks
  <2> QED
    BY <1>3, <1>4, <2>2, <2>3, <2>4, <2>5
<1>7. CASE MGetReturn(a)
  <2>1. PICK b \in Lendable :
            /\ lent[b] = Getting(a) /\ orphans' = orphans
            /\ \/ (\E x \in {Held(a), Free} : lent' = [lent EXCEPT ![b] = x]) /\ halfDone' = halfDone
               \/ lent' = [lent EXCEPT ![b] = Lost] /\ halfDone' = halfDone + 1
    BY <1>7 DEF MGetReturn
  <2>2. app[a] = "get" /\ app'[a] = "open"
    BY <1>1, <1>7 DEF MGetReturn
  <2>3. GotBy(a) = {b}
    <3>1. PICK d \in Lendable : GotBy(a) = {d}
      BY <2>2 DEF LentInv
    <3> QED
      BY <2>1, <3>1 DEF GotBy
  <2>4. PICK x \in {Held(a), Free, Lost} :
            /\ lent' = [lent EXCEPT ![b] = x]
            /\ IF x = Lost THEN halfDone' = halfDone + 1 ELSE halfDone' = halfDone
    BY <2>1, LentDiffer
  <2>5. GotBy(a)' = {}
    BY <1>1, <2>3, <2>4, LentDiffer DEF GotBy
  <2>6. \A c \in Apps : c # a => GotBy(c)' = GotBy(c)
    BY <1>1, <2>1, <2>4, LentDiffer DEF GotBy
  <2>7. Cardinality(LostBlocks') = halfDone' + orphans'
    <3>1. CASE x = Lost
      <4>1. LostBlocks' = LostBlocks \cup {b} /\ lent[b] # Lost
        BY <1>1, <2>1, <2>4, <3>1, LentDiffer DEF LostBlocks
      <4> QED
        BY <1>1, <1>4, <2>1, <2>4, <3>1, <4>1, OneMoreLost
    <3>2. CASE x # Lost
      <4>1. LostBlocks' = LostBlocks
        BY <1>1, <2>1, <2>4, <3>2, LentDiffer DEF LostBlocks
      <4> QED
        BY <1>4, <2>1, <2>4, <3>2, <4>1
    <3> QED
      BY <3>1, <3>2
  <2> QED
    BY <1>3, <2>2, <2>5, <2>6, <2>7
<1>8. CASE GiveBack(a)
  <2>1. PICK b \in Lendable : lent[b] = Held(a) /\ lent' = [lent EXCEPT ![b] = Free]
    BY <1>8 DEF GiveBack
  <2>2. app[a] = "open" /\ app' = app /\ halfDone' = halfDone /\ orphans' = orphans
    BY <1>8 DEF GiveBack
  <2>3. \A c \in Apps : GotBy(c)' = GotBy(c)
    BY <1>1, <2>1, LentDiffer DEF GotBy
  <2>4. LostBlocks' = LostBlocks
    BY <1>1, <2>1, LentDiffer DEF LostBlocks
  <2>5. GotBy(a)' = {}
    BY <2>2, <2>3 DEF LentInv
  <2> QED
    BY <1>3, <1>4, <2>2, <2>3, <2>4, <2>5
<1>9. CASE Close(a)
  <2>1. app[a] = "open" /\ app'[a] = "away"
    BY <1>1, <1>9 DEF Close
  <2>2. CASE UNCHANGED lending
    <3>1. lent' = lent /\ halfDone' = halfDone /\ orphans' = orphans
      BY <2>2 DEF lending
    <3>2. (\A c : GotBy(c)' = GotBy(c)) /\ LostBlocks' = LostBlocks
      BY <3>1 DEF GotBy, LostBlocks
    <3> QED
      BY <1>3, <1>4, <2>1, <3>1, <3>2 DEF LentInv
  <2>3. CASE /\ lent' = [b \in Lendable |-> IF lent[b] = Held(a) THEN Lost ELSE lent[b]]
             /\ orphans' = orphans + Cardinality({b \in Lendable : lent[b] = Held(a)})
             /\ halfDone' = halfDone
    <3> DEFINE H == {b \in Lendable : lent[b] = Held(a)}
    <3>1. \A c \in Apps : GotBy(c)' = GotBy(c)
      BY <1>1, <2>3, LentDiffer DEF GotBy
    <3>2. LostBlocks' = LostBlocks \cup H /\ LostBlocks \cap H = {}
      BY <1>1, <2>3, LentDiffer DEF LostBlocks
    <3>3. LostBlocks \in SUBSET Lendable /\ H \in SUBSET Lendable
      BY DEF LostBlocks
    <3>4. orphans' = orphans + Cardinality(H)
      BY <2>3
    <3> HIDE DEF H
    <3>5. Cardinality(LostBlocks') = Cardinality(LostBlocks) + Cardinality(H)
      <4>1. IsFiniteSet(LostBlocks) /\ IsFiniteSet(H) /\ Cardinality(LostBlocks) \in Nat /\ Cardinality(H) \in Nat
        BY <3>3, FiniteLending
      <4>2. Cardinality(LostBlocks \cup H)
              = Cardinality(LostBlocks) + Cardinality(H) - Cardinality(LostBlocks \cap H)
        BY <4>1, FS_Union
      <4>3. Cardinality(LostBlocks \cap H) = 0
        BY <3>2, FS_EmptySet
      <4> QED
        BY <3>2, <4>1, <4>2, <4>3
    <3> QED
      BY <1>1, <1>3, <1>4, <2>1, <2>3, <3>1, <3>3, <3>4, <3>5, FiniteLending DEF LentInv
  <2> QED
    BY <1>9, <2>2, <2>3 DEF Close
<1> QED
  BY <1>5, <1>6, <1>7, <1>8, <1>9 DEF Application

(* Memory lent by MGET is lost only by an MGET that failed at its second   *)
(* copy and by the end of its holder.                                      *)
THEOREM LentMemoryIsAccounted == Spec => []LentMemoryAccounted
<1>1. Init => LentInv
  <2> SUFFICES ASSUME Init PROVE LentInv
    OBVIOUS
  <2>1. LostBlocks = {} /\ \A a \in Apps : GotBy(a) = {} /\ app[a] # "get"
    BY LentDiffer DEF Init, LostBlocks, GotBy
  <2> QED
    BY <2>1, FS_EmptySet DEF Init, LentInv
<1>2. ASSUME TypeOK, LentInv, [Next]_vars PROVE LentInv'
  <2>1. CASE UNCHANGED <<app, lending>>
    <3>1. app' = app /\ lent' = lent /\ halfDone' = halfDone /\ orphans' = orphans
      BY <2>1 DEF lending
    <3> QED
      BY <1>2, <3>1 DEF LentInv, LostBlocks, GotBy
  <2>2. ASSUME NEW a \in Apps, Application(a) PROVE LentInv'
    BY <1>2, <2>2, LentInvStep
  <2> QED
    BY <1>2, <2>1, <2>2 DEF Next, vars
<1>3. ASSUME LentInv PROVE LentMemoryAccounted
  <2>1. Cardinality({}) = 0 /\ \A b : Cardinality({b}) = 1
    BY FS_EmptySet, FS_Singleton
  <2>2. ASSUME NEW a \in Apps PROVE Cardinality(GotBy(a)) = IF app[a] = "get" THEN 1 ELSE 0
    BY <1>3, <2>1 DEF LentInv
  <2> QED
    BY <1>3, <2>2 DEF LentInv, LentMemoryAccounted, LostBlocks, GotBy
<1> QED
  BY <1>1, <1>2, <1>3, LoadTypes, PTL DEF Spec
=============================================================================
