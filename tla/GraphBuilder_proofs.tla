------------------------ MODULE GraphBuilder_proofs ------------------------
(***************************************************************************)
(* Theorems about GraphBuilder, for any programs, tile and block sizes.    *)
(* What the list, the maps and the heap are after so many convolutions or  *)
(* nodes is given in closed form; the argument is that a step of the       *)
(* builder goes from one of these to the next.                             *)
(***************************************************************************)
EXTENDS GraphBuilder, FiniteSetTheorems, TLAPS

-----------------------------------------------------------------------------
(* Programs and their graphs.                                              *)

Count(P) == Len(P.ops)

\* The one convolution that writes what the i-th reads.
LEMMA WriterIs ==
    ASSUME NEW P, IsProgram(P)
    PROVE  /\ Count(P) \in Nat /\ Count(P) >= 1
           /\ GraphOf(P).len = Count(P) /\ GraphOf(P).parent[1] = 0
           /\ \A i \in 2 .. Count(P) : /\ GraphOf(P).parent[i] \in 1 .. (i - 1)
                                       /\ P.ops[GraphOf(P).parent[i]].out = P.ops[i].in
           /\ \A i \in 1 .. Count(P) : /\ GraphOf(P).isOutput[i] = (P.ops[i].out \in P.outputs)
                                       /\ GraphOf(P).inPad[i] = P.ops[i].pad
<1>1. Count(P) \in Nat /\ Count(P) >= 1
  <2>1. Len(P.ops) \in Nat /\ Len(P.ops) > 0
    <3> DEFINE Entries == [in : Tensors(P), out : Tensors(P), pad : Nat, kh : Nat, kw : Nat,
                           dw : BOOLEAN]
    <3>1. P.ops \in Seq(Entries) /\ Len(P.ops) > 0
      BY DEF IsProgram
    <3> HIDE DEF Entries
    <3> QED
      BY <3>1
  <2> QED
    BY <2>1 DEF Count
<1>2. GraphOf(P).len = Count(P) /\ GraphOf(P).parent[1] = 0
  BY <1>1 DEF GraphOf, Count
<1>3. ASSUME NEW i \in 2 .. Count(P)
      PROVE  GraphOf(P).parent[i] \in 1 .. (i - 1) /\ P.ops[GraphOf(P).parent[i]].out = P.ops[i].in
  <2>1. \E j \in 1 .. (i - 1) : P.ops[j].out = P.ops[i].in
    BY DEF IsProgram, Count
  <2>2. GraphOf(P).parent[i] = CHOOSE j \in 1 .. (i - 1) : P.ops[j].out = P.ops[i].in
    BY <1>1 DEF GraphOf, Count
  <2> QED
    BY <2>1, <2>2
<1>4. \A i \in 1 .. Count(P) : /\ GraphOf(P).isOutput[i] = (P.ops[i].out \in P.outputs)
                               /\ GraphOf(P).inPad[i] = P.ops[i].pad
  BY DEF GraphOf, Count
<1> QED
  BY <1>1, <1>2, <1>3, <1>4

LEMMA OpTypes ==
    ASSUME NEW P, IsProgram(P)
    PROVE  /\ \A i \in 1 .. Count(P) : /\ P.ops[i].in \in Tensors(P) /\ P.ops[i].out \in Tensors(P)
                                       /\ P.ops[i].pad \in Nat /\ P.ops[i].dw \in BOOLEAN
           /\ \A t \in Tensors(P) : P.shape[t] \in [c : Nat \ {0}, h : Nat \ {0}, w : Nat \ {0}]
           /\ \A i, j \in 1 .. Count(P) : P.ops[i].out = P.ops[j].out => i = j
           /\ \A i \in 1 .. Count(P) : P.ops[i].out # P.ops[1].in
<1> DEFINE Ops == [in : Tensors(P), out : Tensors(P), pad : Nat, kh : Nat, kw : Nat,
                        dw : BOOLEAN]
<1>1. P.ops \in Seq(Ops)
  BY DEF IsProgram
<1>2. \A i \in 1 .. Count(P) : P.ops[i] \in Ops
  <2> HIDE DEF Ops
  <2> QED
    BY <1>1 DEF Count
<1>3. \A t \in Tensors(P) : P.shape[t] \in [c : Nat \ {0}, h : Nat \ {0}, w : Nat \ {0}]
  BY DEF IsProgram
<1>4. \A i, j \in 1 .. Count(P) : P.ops[i].out = P.ops[j].out => i = j
  BY DEF IsProgram, Count
<1>5. \A i \in 1 .. Count(P) : P.ops[i].out # P.ops[1].in
  BY DEF IsProgram, Count
<1> QED
  BY <1>2, <1>3, <1>4, <1>5

LEMMA ProgramIsAGraph == ASSUME NEW P, IsProgram(P) PROVE IsGraph(GraphOf(P))
<1> DEFINE g == GraphOf(P)
<1>1. g.len \in Nat \ {0} /\ Nodes(g) = 1 .. Count(P) /\ g.parent[1] = 0
  BY WriterIs DEF Nodes
<1>2. DOMAIN g.parent = 1 .. Count(P) /\ DOMAIN g.isOutput = 1 .. Count(P) /\ DOMAIN g.inPad = 1 .. Count(P)
  BY DEF GraphOf, Count
<1>3. g.parent = [i \in 1 .. Count(P) |-> g.parent[i]] /\ g.inPad = [i \in 1 .. Count(P) |-> g.inPad[i]]
  BY DEF GraphOf, Count
<1>4. \A i \in Nodes(g) \ {1} : g.parent[i] \in 1 .. (i - 1)
  BY <1>1, WriterIs
<1>5. \A i \in 1 .. Count(P) : g.parent[i] \in Nat /\ g.inPad[i] \in Nat
  BY <1>1, <1>4, WriterIs, OpTypes
<1>6. g.parent \in [Nodes(g) -> Nat] /\ g.inPad \in [Nodes(g) -> Nat]
  BY <1>1, <1>3, <1>5
<1>7. g.isOutput \in [Nodes(g) -> BOOLEAN]
  BY <1>1 DEF GraphOf, Count
<1> QED
  BY <1>1, <1>4, <1>6, <1>7 DEF IsGraph

LEMMA ExtentType ==
    ASSUME NEW s \in [c : Nat \ {0}, h : Nat \ {0}, w : Nat \ {0}], NEW p \in Nat
    PROVE  Extent(s, p) \in Nat
<1>1. Tile \in Nat /\ Tile > 0
  BY BuilderAssumption
<1>2. (s.c - 1) \div Tile + 1 \in Nat
  BY <1>1
<1>3. s.h + 2 * p \in Nat /\ s.w + 2 * p \in Nat
  OBVIOUS
<1>4. \A a, b \in Nat : a * b \in Nat
  OBVIOUS
<1>5. ((s.c - 1) \div Tile + 1) * Tile \in Nat
  BY <1>1, <1>2, <1>4
<1>6. ((s.c - 1) \div Tile + 1) * Tile * (s.h + 2 * p) \in Nat
  BY <1>3, <1>4, <1>5
<1> QED
  BY <1>3, <1>4, <1>6 DEF Extent

-----------------------------------------------------------------------------
(* Readers counted so far.                                                 *)

Kids(P, i, k) == {j \in 1 .. k : GraphOf(P).parent[j] = i}
Refs(P, i, k) == Cardinality(Kids(P, i, k))

LEMMA RefsGrow ==
    ASSUME NEW P, IsProgram(P), NEW i \in Nat, NEW k \in 0 .. Count(P)
    PROVE  /\ Refs(P, i, k) \in Nat
           /\ Refs(P, i, 0) = 0
           /\ k < Count(P) =>
                Refs(P, i, k + 1) = IF i = GraphOf(P).parent[k + 1] THEN Refs(P, i, k) + 1 ELSE Refs(P, i, k)
           /\ k >= 1 /\ i >= k => Refs(P, i, k) = 0
<1>1. k \in Nat /\ Count(P) \in Nat /\ Count(P) >= 1
  BY WriterIs
<1>2. IsFiniteSet(1 .. k) /\ Kids(P, i, k) \in SUBSET (1 .. k)
  BY <1>1, FS_Interval DEF Kids
<1>3. IsFiniteSet(Kids(P, i, k)) /\ Refs(P, i, k) \in Nat
  BY <1>2, FS_Subset, FS_CardinalityType DEF Refs
<1>4. Refs(P, i, 0) = 0
  <2>1. Kids(P, i, 0) = {}
    BY DEF Kids
  <2> QED
    BY <2>1, FS_EmptySet DEF Refs
<1>5. ASSUME k < Count(P)
      PROVE  Refs(P, i, k + 1) = IF i = GraphOf(P).parent[k + 1] THEN Refs(P, i, k) + 1 ELSE Refs(P, i, k)
  <2>1. CASE i = GraphOf(P).parent[k + 1]
    <3>1. Kids(P, i, k + 1) = Kids(P, i, k) \cup {k + 1} /\ k + 1 \notin Kids(P, i, k)
      BY <1>1, <2>1 DEF Kids
    <3> QED
      BY <1>3, <2>1, <3>1, FS_AddElement DEF Refs
  <2>2. CASE i # GraphOf(P).parent[k + 1]
    <3>1. Kids(P, i, k + 1) = Kids(P, i, k)
      BY <1>1, <2>2 DEF Kids
    <3> QED
      BY <2>2, <3>1 DEF Refs
  <2> QED
    BY <2>1, <2>2
<1>6. ASSUME k >= 1, i >= k PROVE Refs(P, i, k) = 0
  <2>1. \A j \in 1 .. k : GraphOf(P).parent[j] # i
    <3> SUFFICES ASSUME NEW j \in 1 .. k PROVE GraphOf(P).parent[j] # i
      OBVIOUS
    <3>1. j = 1 \/ j \in 2 .. Count(P)
      BY <1>1
    <3>2. GraphOf(P).parent[j] = 0 \/ (GraphOf(P).parent[j] \in 1 .. (j - 1))
      BY <3>1, WriterIs
    <3> QED
      BY <1>1, <1>6, <3>2
  <2>2. Kids(P, i, k) = {}
    BY <2>1 DEF Kids
  <2> QED
    BY <2>2, FS_EmptySet DEF Refs
<1> QED
  BY <1>3, <1>4, <1>5, <1>6

LEMMA RefsAreRefCount ==
    ASSUME NEW P, IsProgram(P), NEW i
    PROVE  Refs(P, i, Count(P)) = RefCount(GraphOf(P), i)
<1>1. Kids(P, i, Count(P)) = Children(GraphOf(P), i)
  BY WriterIs DEF Kids, Children, Nodes
<1> QED
  BY <1>1 DEF Refs, RefCount

-----------------------------------------------------------------------------
(* The list after k conversions.                                           *)

MadeNode(P, i, k) ==
    [parent |-> GraphOf(P).parent[i], next |-> IF i < k THEN i + 1 ELSE 0, ref |-> Refs(P, i, k),
     isOutput |-> GraphOf(P).isOutput[i], inPad |-> GraphOf(P).inPad[i], outPad |-> 0,
     ddr |-> 0, extIn |-> 0, extOut |-> 0,
     ia |-> TensorMem(P.ops[i].in), oa |-> TensorMem(P.ops[i].out)]
Made(P, k) == [i \in 1 .. k |-> MadeNode(P, i, k)]

MakeHeap(k) == {"node", "param", "ip", "ba", "ka"} \X (1 .. k)

\* tensor2node_ knows the k convolutions' outputs and nothing else.
Maps(P, t2n, k) ==
    /\ t2n \in [Tensors(P) -> 0 .. k]
    /\ \A j \in 1 .. k : t2n[P.ops[j].out] = j
    /\ \A t \in Tensors(P) : t2n[t] # 0 => P.ops[t2n[t]].out = t

\* Nothing has been built yet.
Untouched(blk, d, outs, max, buff, lost) ==
    blk = 0 /\ d = Null /\ outs = <<>> /\ max = 0 /\ buff = 0 /\ lost = {}

ConvertInv ==
    /\ cur \in 1 .. Count(prog) + 1
    /\ nodes = Made(prog, cur - 1) /\ tail = cur - 1 /\ root = IF cur = 1 THEN 0 ELSE 1
    /\ Maps(prog, tensor2node, cur - 1)
    /\ heap = MakeHeap(cur - 1)
    /\ Untouched(ddrBlock, din, outputNodes, maxOut, dataBuff, foreign)

LEMMA MapsFindParent ==
    ASSUME NEW P, IsProgram(P), NEW k \in 0 .. Count(P) - 1, NEW t2n, Maps(P, t2n, k)
    PROVE  t2n[P.ops[k + 1].in] = GraphOf(P).parent[k + 1]
<1>1. k \in Nat /\ k + 1 \in 1 .. Count(P)
  BY WriterIs
<1>2. P.ops[k + 1].in \in Tensors(P)
  BY <1>1, OpTypes
<1>3. CASE k = 0
  BY <1>2, <1>3, WriterIs DEF Maps
<1>4. CASE k # 0
  <2>1. k + 1 \in 2 .. Count(P)
    BY <1>1, <1>4
  <2>2. GraphOf(P).parent[k + 1] \in 1 .. k /\ P.ops[GraphOf(P).parent[k + 1]].out = P.ops[k + 1].in
    BY <1>1, <2>1, WriterIs
  <2> QED
    BY <2>2 DEF Maps
<1> QED
  BY <1>3, <1>4

LEMMA MapsGrow ==
    ASSUME NEW P, IsProgram(P), NEW k \in 0 .. Count(P) - 1, NEW t2n, Maps(P, t2n, k)
    PROVE  Maps(P, [t2n EXCEPT ![P.ops[k + 1].out] = k + 1], k + 1)
<1> DEFINE new == [t2n EXCEPT ![P.ops[k + 1].out] = k + 1]
<1>1. k \in Nat /\ k + 1 \in 1 .. Count(P) /\ 1 .. k \in SUBSET (1 .. Count(P))
  BY WriterIs
<1>2. P.ops[k + 1].out \in Tensors(P) /\ \A j \in 1 .. k : P.ops[j].out # P.ops[k + 1].out
  BY <1>1, OpTypes
<1>3. t2n \in [Tensors(P) -> 0 .. k] /\ \A j \in 1 .. k : P.ops[j].out \in Tensors(P)
  BY <1>1, OpTypes DEF Maps
<1>4. new \in [Tensors(P) -> 0 .. k + 1]
  <2>1. t2n \in [Tensors(P) -> 0 .. k + 1]
    <3>1. \A x \in 0 .. k : x \in 0 .. k + 1
      BY <1>1
    <3> QED
      BY <1>3, <3>1
  <2>2. k + 1 \in 0 .. k + 1
    BY <1>1
  <2> QED
    BY <2>1, <2>2
<1>5. ASSUME NEW j \in 1 .. k + 1 PROVE new[P.ops[j].out] = j
  <2>1. j = k + 1 \/ j \in 1 .. k
    BY <1>1
  <2> QED
    BY <1>2, <1>3, <2>1 DEF Maps
<1>6. ASSUME NEW t \in Tensors(P), new[t] # 0 PROVE P.ops[new[t]].out = t
  BY <1>3, <1>6 DEF Maps
<1> QED
  BY <1>4, <1>5, <1>6 DEF Maps

\* A record of a node with two, and with five, of its fields assigned.
LEMMA LinkedNode ==
    ASSUME NEW par, NEW nx, NEW rf, NEW io, NEW ip, NEW ia, NEW oa, NEW x, NEW y, NEW r,
           r = [parent |-> par, next |-> nx, ref |-> rf, isOutput |-> io, inPad |-> ip, outPad |-> 0,
      ddr |-> 0, extIn |-> 0, extOut |-> 0, ia |-> ia, oa |-> oa]
    PROVE  [r EXCEPT !.ref = x, !.next = y] =
           [parent |-> par, next |-> y, ref |-> x, isOutput |-> io, inPad |-> ip, outPad |-> 0,
      ddr |-> 0, extIn |-> 0, extOut |-> 0, ia |-> ia, oa |-> oa]
<1>1. PICK s : s = [r EXCEPT !.ref = x]
  OBVIOUS
<1>2. s = [parent |-> par, next |-> nx, ref |-> x, isOutput |-> io, inPad |-> ip, outPad |-> 0,
      ddr |-> 0, extIn |-> 0, extOut |-> 0, ia |-> ia, oa |-> oa]
  BY <1>1
<1>3. [s EXCEPT !.next = y] =
      [parent |-> par, next |-> y, ref |-> x, isOutput |-> io, inPad |-> ip, outPad |-> 0,
      ddr |-> 0, extIn |-> 0, extOut |-> 0, ia |-> ia, oa |-> oa]
  BY <1>2
<1>4. [r EXCEPT !.ref = x, !.next = y] = [s EXCEPT !.next = y]
  BY <1>1
<1> QED
  BY <1>3, <1>4

LEMMA MadeGrows ==
    ASSUME NEW P, IsProgram(P), NEW k \in 0 .. Count(P) - 1
    PROVE  Append([m \in 1 .. k |->
                      [MadeNode(P, m, k) EXCEPT
                          !.ref = IF m = GraphOf(P).parent[k + 1] THEN @ + 1 ELSE @,
                          !.next = IF m = k THEN k + 1 ELSE @]],
                  MadeNode(P, k + 1, k + 1))
           = Made(P, k + 1)
<1> DEFINE e(m) == [MadeNode(P, m, k) EXCEPT
                       !.ref = IF m = GraphOf(P).parent[k + 1] THEN @ + 1 ELSE @,
                       !.next = IF m = k THEN k + 1 ELSE @]
           old == [m \in 1 .. k |-> e(m)]
           V == {e(m) : m \in 1 .. k} \cup {MadeNode(P, k + 1, k + 1)}
<1>1. k \in Nat /\ k + 1 \in 1 .. Count(P)
  BY WriterIs
<1>2. ASSUME NEW m \in 1 .. k PROVE e(m) = MadeNode(P, m, k + 1)
  <2>1. Refs(P, m, k + 1) = IF m = GraphOf(P).parent[k + 1] THEN Refs(P, m, k) + 1 ELSE Refs(P, m, k)
    BY <1>1, RefsGrow, WriterIs
  <2>2. (IF m < k + 1 THEN m + 1 ELSE 0) = IF m = k THEN k + 1 ELSE (IF m < k THEN m + 1 ELSE 0)
    BY <1>1
  <2>3. e(m) = [parent |-> GraphOf(P).parent[m],
                next |-> IF m = k THEN k + 1 ELSE (IF m < k THEN m + 1 ELSE 0),
                ref |-> IF m = GraphOf(P).parent[k + 1] THEN Refs(P, m, k) + 1 ELSE Refs(P, m, k),
                isOutput |-> GraphOf(P).isOutput[m], inPad |-> GraphOf(P).inPad[m], outPad |-> 0,
                ddr |-> 0, extIn |-> 0, extOut |-> 0,
                ia |-> TensorMem(P.ops[m].in), oa |-> TensorMem(P.ops[m].out)]
    <3> DEFINE r == MadeNode(P, m, k)
               nx == IF m < k THEN m + 1 ELSE 0
               x == IF m = GraphOf(P).parent[k + 1] THEN Refs(P, m, k) + 1 ELSE Refs(P, m, k)
               y == IF m = k THEN k + 1 ELSE nx
    <3>1. r = [parent |-> GraphOf(P).parent[m], next |-> nx, ref |-> Refs(P, m, k),
               isOutput |-> GraphOf(P).isOutput[m], inPad |-> GraphOf(P).inPad[m], outPad |-> 0,
               ddr |-> 0, extIn |-> 0, extOut |-> 0,
               ia |-> TensorMem(P.ops[m].in), oa |-> TensorMem(P.ops[m].out)]
      BY DEF MadeNode
    <3>2. e(m) = [r EXCEPT !.ref = IF m = GraphOf(P).parent[k + 1] THEN r.ref + 1 ELSE r.ref,
                           !.next = IF m = k THEN k + 1 ELSE r.next]
      BY Zenon
    <3> HIDE DEF r, nx
    <3>3. r.ref = Refs(P, m, k) /\ r.next = nx
      BY <3>1
    <3>4. e(m) = [r EXCEPT !.ref = x, !.next = y]
      BY <3>2, <3>3
    <3> HIDE DEF x, y, e
    <3>5. e(m) = [parent |-> GraphOf(P).parent[m], next |-> y, ref |-> x,
                  isOutput |-> GraphOf(P).isOutput[m], inPad |-> GraphOf(P).inPad[m], outPad |-> 0,
                  ddr |-> 0, extIn |-> 0, extOut |-> 0,
                  ia |-> TensorMem(P.ops[m].in), oa |-> TensorMem(P.ops[m].out)]
      BY <3>1, <3>4, LinkedNode
    <3> QED
      BY <3>5 DEF x, y, nx
  <2> QED
    BY <2>1, <2>2, <2>3 DEF MadeNode
<1> HIDE DEF e
<1>3. old \in Seq(V) /\ Len(old) = k /\ MadeNode(P, k + 1, k + 1) \in V
  BY <1>1
<1> HIDE DEF V
<1>4. /\ Append(old, MadeNode(P, k + 1, k + 1)) \in Seq(V)
      /\ Len(Append(old, MadeNode(P, k + 1, k + 1))) = k + 1
      /\ \A m \in 1 .. k : Append(old, MadeNode(P, k + 1, k + 1))[m] = e(m)
      /\ Append(old, MadeNode(P, k + 1, k + 1))[k + 1] = MadeNode(P, k + 1, k + 1)
  BY <1>1, <1>3
<1> HIDE DEF old
<1>5. DOMAIN Append(old, MadeNode(P, k + 1, k + 1)) = 1 .. k + 1
  BY <1>1, <1>4
<1>6. \A m \in 1 .. k + 1 : m = k + 1 \/ m \in 1 .. k
  BY <1>1
<1>7. \A m \in 1 .. k + 1 : Append(old, MadeNode(P, k + 1, k + 1))[m] = MadeNode(P, m, k + 1)
  BY <1>2, <1>4, <1>6
<1>8. Append(old, MadeNode(P, k + 1, k + 1)) \in [1 .. k + 1 -> V]
  <2> DEFINE new == Append(old, MadeNode(P, k + 1, k + 1))
  <2>1. new \in Seq(V) /\ Len(new) = k + 1
    BY <1>4
  <2> HIDE DEF new
  <2>2. new \in [1 .. Len(new) -> V]
    BY <2>1
  <2> QED
    BY <2>1, <2>2 DEF new
<1>9. Append(old, MadeNode(P, k + 1, k + 1)) = [m \in 1 .. k + 1 |-> MadeNode(P, m, k + 1)]
  BY <1>7, <1>8
<1> QED
  BY <1>9 DEF Made, old, e

LEMMA ConvertKeeps ==
    ASSUME IsProgram(prog), ConvertInv, Convert
    PROVE  ConvertInv' /\ pc' = "convert" /\ prog' = prog
<1> DEFINE k == cur - 1
<1>1. /\ pc' = "convert" /\ prog' = prog /\ cur' = cur + 1 /\ cur <= Count(prog) /\ tail' = cur
      /\ nodes' = Append(Linked(NewNode(cur).parent, cur), NewNode(cur))
      /\ root' = IF NewNode(cur).parent = 0 THEN cur ELSE root
      /\ tensor2node' = [tensor2node EXCEPT ![Op(cur).out] = cur]
      /\ heap' = heap \cup ({"node", "param", "ip", "ba", "ka"} \X {cur})
      /\ UNCHANGED <<ddrBlock, din, outputNodes, maxOut, dataBuff, foreign>>
  BY DEF Convert, Count, model
<1>2. Count(prog) \in Nat /\ Count(prog) >= 1 /\ cur \in 1 .. Count(prog)
  BY <1>1, WriterIs DEF ConvertInv
<1>3. k \in 0 .. Count(prog) - 1 /\ cur = k + 1 /\ k \in Nat
  BY <1>2
<1>4. Maps(prog, tensor2node, k) /\ nodes = Made(prog, k) /\ tail = k
  BY DEF ConvertInv
<1> HIDE DEF k
<1>5. tensor2node[prog.ops[cur].in] = GraphOf(prog).parent[cur]
  BY <1>3, <1>4, MapsFindParent
<1>6. NewNode(cur) = MadeNode(prog, cur, cur)
  <2>1. Refs(prog, cur, cur) = 0
    <3>1. cur \in Nat /\ cur \in 0 .. Count(prog) /\ cur >= 1 /\ cur >= cur
      BY <1>2
    <3> QED
      BY <3>1, RefsGrow
  <2>2. GraphOf(prog).isOutput[cur] = (prog.ops[cur].out \in prog.outputs) /\ GraphOf(prog).inPad[cur] = prog.ops[cur].pad
    BY <1>2, WriterIs
  <2>3. ~(cur < cur)
    BY <1>2
  <2> QED
    BY <1>5, <2>1, <2>2, <2>3, Zenon DEF NewNode, MadeNode, Op
<1>7. NewNode(cur).parent = GraphOf(prog).parent[cur]
  BY <1>5 DEF NewNode, Op
<1>8. Linked(GraphOf(prog).parent[cur], cur) =
        [m \in 1 .. k |->
            [MadeNode(prog, m, k) EXCEPT
                !.ref = IF m = GraphOf(prog).parent[k + 1] THEN @ + 1 ELSE @,
                !.next = IF m = k THEN k + 1 ELSE @]]
  <2>1. DOMAIN nodes = 1 .. k /\ \A m \in 1 .. k : nodes[m] = MadeNode(prog, m, k)
    BY <1>4 DEF Made
  <2> QED
    BY <1>3, <1>4, <2>1 DEF Linked
<1>9. nodes' = Made(prog, cur)
  BY <1>1, <1>3, <1>6, <1>7, <1>8, MadeGrows
<1>10. Maps(prog, tensor2node', cur)
  BY <1>1, <1>3, <1>4, MapsGrow DEF Op
<1>11. root' = 1
  <2>1. CASE cur = 1
    BY <1>1, <1>7, <2>1, WriterIs
  <2>2. CASE cur # 1
    <3>1. GraphOf(prog).parent[cur] # 0
      BY <1>2, <2>2, WriterIs
    <3> QED
      BY <1>1, <1>7, <2>2, <3>1 DEF ConvertInv
  <2> QED
    BY <2>1, <2>2
<1>12. heap' = MakeHeap(cur)
  <2>1. heap = MakeHeap(k)
    BY DEF ConvertInv, k
  <2>2. 1 .. cur = (1 .. k) \cup {cur}
    BY <1>3
  <2> QED
    BY <1>1, <2>1, <2>2 DEF MakeHeap
<1>13. cur' \in 1 .. Count(prog) + 1 /\ cur' - 1 = cur /\ cur' # 1
  BY <1>1, <1>2
<1>14. Untouched(ddrBlock, din, outputNodes, maxOut, dataBuff, foreign)'
  BY <1>1 DEF ConvertInv, Untouched
<1> QED
  BY <1>1, <1>9, <1>10, <1>11, <1>12, <1>13, <1>14 DEF ConvertInv

-----------------------------------------------------------------------------
(* The list after BuildDeviceModel has been over the first k nodes.        *)

InExtent(P, i) == Extent(P.shape[P.ops[i].in], P.ops[i].pad)
OutExtentOf(P, i) == Extent(P.shape[P.ops[i].out], OutPad(GraphOf(P), i))
IsOut(P, i) == P.ops[i].out \in P.outputs
DeviceMem(P, i) == IF IsOut(P, i) THEN <<"oa", i>> ELSE TensorMem(P.ops[i].out)

BuiltNode(P, i) ==
    [parent |-> GraphOf(P).parent[i], next |-> IF i < Count(P) THEN i + 1 ELSE 0,
     ref |-> Refs(P, i, Count(P)),
     isOutput |-> GraphOf(P).isOutput[i], inPad |-> GraphOf(P).inPad[i],
     outPad |-> OutPad(GraphOf(P), i), ddr |-> DdrBlock(GraphOf(P), i),
     extIn |-> InExtent(P, i), extOut |-> OutExtentOf(P, i),
     ia |-> TensorMem(P.ops[i].in), oa |-> DeviceMem(P, i)]
BuiltUpTo(P, k) ==
    [i \in 1 .. Count(P) |-> IF i <= k THEN BuiltNode(P, i) ELSE MadeNode(P, i, Count(P))]

\* The nodes before c in the list, which ends with 0.
Behind(P, c) == IF c = 0 THEN Count(P) ELSE c - 1
OutsUpTo(P, k) == {i \in 1 .. k : IsOut(P, i)}

FitUpTo(P, k) == \A i \in 1 .. k : InExtent(P, i) <= BlockSize /\ OutExtentOf(P, i) <= BlockSize

\* output_nodes_ remembers the tensors of the outputs, and the largest of them.
OutsKept(P, k, outs, max) ==
    /\ DOMAIN outs = OutsUpTo(P, k) /\ \A i \in OutsUpTo(P, k) : outs[i] = TensorMem(P.ops[i].out)
    /\ max \in Nat /\ \A i \in OutsUpTo(P, k) : OutExtentOf(P, i) <= max

BuildHeap(P, k) == MakeHeap(Count(P)) \cup {<<"oa", i>> : i \in OutsUpTo(P, k)}

BuildInv ==
    /\ cur \in 0 .. Count(prog)
    /\ nodes = BuiltUpTo(prog, Behind(prog, cur)) /\ root = 1 /\ tail = Count(prog)
    /\ Maps(prog, tensor2node, Count(prog))
    /\ ddrBlock = Cardinality(SpecialsBefore(GraphOf(prog), Behind(prog, cur) + 1))
    /\ OutsKept(prog, Behind(prog, cur), outputNodes, maxOut)
    /\ FitUpTo(prog, Behind(prog, cur))
    /\ heap = BuildHeap(prog, Behind(prog, cur))
    /\ din = Null /\ dataBuff = 0 /\ foreign = {}

LEMMA ConvertedIsBuilt ==
    ASSUME IsProgram(prog), ConvertInv, Converted
    PROVE  BuildInv' /\ pc' = "build" /\ prog' = prog
<1>1. /\ pc' = "build" /\ cur' = root /\ prog' = prog /\ cur > Count(prog)
      /\ UNCHANGED <<nodes, root, tail, tensor2node, ddrBlock, din, outputNodes, maxOut, dataBuff, heap, foreign>>
  BY DEF Converted, Count, list, model
<1>2. Count(prog) \in Nat /\ Count(prog) >= 1 /\ cur = Count(prog) + 1 /\ cur - 1 = Count(prog) /\ cur # 1
  BY <1>1, WriterIs DEF ConvertInv
<1>3. /\ nodes = Made(prog, Count(prog)) /\ tail = Count(prog) /\ root = 1
      /\ Maps(prog, tensor2node, Count(prog)) /\ heap = MakeHeap(Count(prog))
  BY <1>2 DEF ConvertInv
<1>4. ddrBlock = 0 /\ din = Null /\ outputNodes = <<>> /\ maxOut = 0 /\ dataBuff = 0 /\ foreign = {}
  BY DEF ConvertInv, Untouched
<1>5. Behind(prog, cur') = 0 /\ cur' \in 0 .. Count(prog)
  BY <1>1, <1>2, <1>3 DEF Behind
<1>6. OutsUpTo(prog, 0) = {} /\ SpecialsBefore(GraphOf(prog), 0 + 1) = {}
  BY DEF OutsUpTo, SpecialsBefore
<1>7. nodes' = BuiltUpTo(prog, 0)
  <2>1. \A i \in 1 .. Count(prog) : ~(i <= 0)
    BY <1>2
  <2> QED
    BY <1>1, <1>3, <2>1 DEF BuiltUpTo, Made
<1>8. ddrBlock' = Cardinality(SpecialsBefore(GraphOf(prog), 0 + 1))
  BY <1>1, <1>4, <1>6, FS_EmptySet
<1>9. OutsKept(prog, 0, outputNodes', maxOut')
  BY <1>1, <1>4, <1>6 DEF OutsKept
<1>10. FitUpTo(prog, 0)
  BY DEF FitUpTo
<1>11. heap' = BuildHeap(prog, 0)
  BY <1>1, <1>3, <1>6 DEF BuildHeap
<1> QED
  BY <1>1, <1>3, <1>4, <1>5, <1>7, <1>8, <1>9, <1>10, <1>11 DEF BuildInv

LEMMA CompletedNode ==
    ASSUME NEW par, NEW nx, NEW rf, NEW io, NEW ip, NEW ia, NEW oa,
           NEW x, NEW d, NEW e, NEW f, NEW y, NEW r,
           r = [parent |-> par, next |-> nx, ref |-> rf, isOutput |-> io, inPad |-> ip, outPad |-> 0,
        ddr |-> 0, extIn |-> 0, extOut |-> 0, ia |-> ia, oa |-> oa]
    PROVE  [r EXCEPT !.outPad = x, !.ddr = d, !.extIn = e, !.extOut = f, !.oa = y] =
       [parent |-> par, next |-> nx, ref |-> rf, isOutput |-> io, inPad |-> ip, outPad |-> x,
        ddr |-> d, extIn |-> e, extOut |-> f, ia |-> ia, oa |-> y]
<1>1. PICK s1 : s1 = [r EXCEPT !.outPad = x]
  OBVIOUS
<1>2. s1 = [parent |-> par, next |-> nx, ref |-> rf, isOutput |-> io, inPad |-> ip, outPad |-> x,
        ddr |-> 0, extIn |-> 0, extOut |-> 0, ia |-> ia, oa |-> oa]
  BY <1>1
<1>3. PICK s2 : s2 = [s1 EXCEPT !.ddr = d]
  OBVIOUS
<1>4. s2 = [parent |-> par, next |-> nx, ref |-> rf, isOutput |-> io, inPad |-> ip, outPad |-> x,
        ddr |-> d, extIn |-> 0, extOut |-> 0, ia |-> ia, oa |-> oa]
  BY <1>3, <1>2
<1>5. PICK s3 : s3 = [s2 EXCEPT !.extIn = e]
  OBVIOUS
<1>6. s3 = [parent |-> par, next |-> nx, ref |-> rf, isOutput |-> io, inPad |-> ip, outPad |-> x,
        ddr |-> d, extIn |-> e, extOut |-> 0, ia |-> ia, oa |-> oa]
  BY <1>5, <1>4
<1>7. PICK s4 : s4 = [s3 EXCEPT !.extOut = f]
  OBVIOUS
<1>8. s4 = [parent |-> par, next |-> nx, ref |-> rf, isOutput |-> io, inPad |-> ip, outPad |-> x,
        ddr |-> d, extIn |-> e, extOut |-> f, ia |-> ia, oa |-> oa]
  BY <1>7, <1>6
<1>9. PICK s5 : s5 = [s4 EXCEPT !.oa = y]
  OBVIOUS
<1>10. s5 = [parent |-> par, next |-> nx, ref |-> rf, isOutput |-> io, inPad |-> ip, outPad |-> x,
        ddr |-> d, extIn |-> e, extOut |-> f, ia |-> ia, oa |-> y]
  BY <1>9, <1>8
<1>11. [r EXCEPT !.outPad = x, !.ddr = d, !.extIn = e, !.extOut = f, !.oa = y] = s5
  BY <1>1, <1>3, <1>5, <1>7, <1>9
<1> QED
  BY <1>10, <1>11

LEMMA NodeIsMade ==
    ASSUME IsProgram(prog), NEW i \in 1 .. Count(prog), nodes = BuiltUpTo(prog, i - 1)
    PROVE  /\ nodes[i] = MadeNode(prog, i, Count(prog)) /\ DOMAIN nodes = 1 .. Count(prog)
           /\ nodes[i].isOutput = IsOut(prog, i) /\ nodes[i].next = IF i < Count(prog) THEN i + 1 ELSE 0
           /\ FramePad(nodes[i]) = OutPad(GraphOf(prog), i)
           /\ OwnBlock(nodes[i]) <=> Special(GraphOf(prog), i)
<1> DEFINE g == GraphOf(prog)
           n == Count(prog)
<1>1. n \in Nat /\ i \in Nat /\ g.len = n
  BY WriterIs
<1>2. nodes[i] = MadeNode(prog, i, n) /\ DOMAIN nodes = 1 .. n
  BY <1>1 DEF BuiltUpTo
<1>3. /\ nodes[i].ref = RefCount(g, i) /\ nodes[i].isOutput = g.isOutput[i]
      /\ nodes[i].next = IF i < n THEN i + 1 ELSE 0
  BY <1>2, RefsAreRefCount DEF MadeNode
<1>4. nodes[i].isOutput = IsOut(prog, i)
  BY <1>3, WriterIs DEF IsOut
<1>5. OwnBlock(nodes[i]) <=> Special(g, i)
  <2>1. RefCount(g, i) \in Nat
    BY <1>1, RefsAreRefCount, RefsGrow
  <2>2. RefCount(g, i) = 1 /\ g.isOutput[i] <=> nodes[i].isOutput /\ nodes[i].ref = 1
    BY <1>3
  <2> QED
    BY <1>3, <2>2 DEF OwnBlock, Special
<1>6. ASSUME i < n PROVE nodes[i + 1].inPad = g.inPad[i + 1]
  <2>1. i + 1 \in 1 .. n /\ ~(i + 1 <= i - 1)
    BY <1>1, <1>6
  <2>2. nodes[i + 1] = MadeNode(prog, i + 1, n)
    BY <2>1 DEF BuiltUpTo
  <2> QED
    BY <2>2 DEF MadeNode
<1>7. FramePad(nodes[i]) = OutPad(g, i)
  <2>1. nodes[i].next # 0 <=> i < n
    BY <1>1, <1>3
  <2>2. i < n => nodes[nodes[i].next].inPad = g.inPad[i + 1]
    BY <1>3, <1>6
  <2> QED
    BY <1>1, <1>3, <2>1, <2>2 DEF FramePad, OutPad
<1> QED
  BY <1>2, <1>3, <1>4, <1>5, <1>7

LEMMA BuildKeeps ==
    ASSUME IsProgram(prog), pc = "build", BuildInv, BuildNode
    PROVE  BuildInv' /\ pc' = "build" /\ prog' = prog
<1> DEFINE g == GraphOf(prog)
           n == Count(prog)
           k == cur - 1
<1>1. /\ pc' = pc /\ prog' = prog /\ cur # 0 /\ ~TooLarge(cur)
      /\ nodes' = [nodes EXCEPT ![cur] = Completed(cur)]
      /\ ddrBlock' = IF OwnBlock(nodes[cur]) THEN ddrBlock + 1 ELSE ddrBlock
      /\ cur' = nodes[cur].next
      /\ UNCHANGED <<root, tail, tensor2node, din, dataBuff, foreign>>
  BY DEF BuildNode
<1>2. IF nodes[cur].isOutput
      THEN /\ outputNodes' = [i \in DOMAIN outputNodes \cup {cur} |->
                                 IF i = cur THEN TensorOf(cur) ELSE outputNodes[i]]
           /\ maxOut' = IF OutExtent(cur) > maxOut THEN OutExtent(cur) ELSE maxOut
           /\ heap' = heap \cup {<<"oa", cur>>}
      ELSE UNCHANGED <<outputNodes, maxOut, heap>>
  BY DEF BuildNode
<1>3. n \in Nat /\ n >= 1 /\ cur \in 1 .. n /\ Behind(prog, cur) = k /\ k \in 0 .. n - 1 /\ cur = k + 1
  BY <1>1, WriterIs DEF BuildInv, Behind
<1>4. /\ nodes = BuiltUpTo(prog, k) /\ ddrBlock = Cardinality(SpecialsBefore(g, k + 1))
      /\ OutsKept(prog, k, outputNodes, maxOut) /\ FitUpTo(prog, k) /\ heap = BuildHeap(prog, k)
      /\ root = 1 /\ tail = n /\ Maps(prog, tensor2node, n) /\ din = Null /\ dataBuff = 0 /\ foreign = {}
  BY <1>3 DEF BuildInv
<1>5. /\ nodes[cur] = MadeNode(prog, cur, n) /\ DOMAIN nodes = 1 .. n
      /\ nodes[cur].isOutput = IsOut(prog, cur) /\ nodes[cur].next = IF cur < n THEN cur + 1 ELSE 0
      /\ FramePad(nodes[cur]) = OutPad(g, cur)
      /\ OwnBlock(nodes[cur]) <=> Special(g, cur)
  BY <1>3, <1>4, NodeIsMade
<1>6. cur' \in 0 .. n /\ Behind(prog, cur') = cur
  BY <1>1, <1>3, <1>5 DEF Behind
<1>7. /\ OutExtent(cur) = OutExtentOf(prog, cur)
      /\ Extent(InShape(cur), Op(cur).pad) = InExtent(prog, cur)
  BY <1>5 DEF OutExtent, OutExtentOf, InExtent, OutShape, InShape, Op
<1>8. FitUpTo(prog, cur)
  <2>1. ~(InExtent(prog, cur) > BlockSize) /\ ~(OutExtentOf(prog, cur) > BlockSize)
    BY <1>1, <1>7 DEF TooLarge
  <2>2. InExtent(prog, cur) \in Nat /\ OutExtentOf(prog, cur) \in Nat /\ BlockSize \in Nat
    <3>1. cur \in Nat /\ OutPad(g, cur) \in Nat
      <4>1. cur < n => cur + 1 \in 1 .. n
        BY <1>3
      <4>2. cur < n => g.inPad[cur + 1] \in Nat
        BY <4>1, WriterIs, OpTypes
      <4> QED
        BY <1>3, <4>2, WriterIs DEF OutPad
    <3>2. /\ prog.shape[prog.ops[cur].in] \in [c : Nat \ {0}, h : Nat \ {0}, w : Nat \ {0}]
          /\ prog.shape[prog.ops[cur].out] \in [c : Nat \ {0}, h : Nat \ {0}, w : Nat \ {0}]
          /\ prog.ops[cur].pad \in Nat
      BY <1>3, OpTypes
    <3> QED
      BY <3>1, <3>2, ExtentType, BuilderAssumption DEF InExtent, OutExtentOf
  <2>3. InExtent(prog, cur) <= BlockSize /\ OutExtentOf(prog, cur) <= BlockSize
    BY <2>1, <2>2
  <2>4. \A i \in 1 .. cur : i = cur \/ i \in 1 .. k
    BY <1>3
  <2> QED
    BY <1>4, <2>3, <2>4 DEF FitUpTo
<1>9. Completed(cur) = BuiltNode(prog, cur)
  <2> DEFINE nx == IF cur < n THEN cur + 1 ELSE 0
             r == nodes[cur]
             d == IF OwnBlock(r) THEN ddrBlock ELSE 0
  <2>1. r = [parent |-> g.parent[cur], next |-> nx, ref |-> Refs(prog, cur, n),
             isOutput |-> g.isOutput[cur], inPad |-> g.inPad[cur], outPad |-> 0,
             ddr |-> 0, extIn |-> 0, extOut |-> 0,
             ia |-> TensorMem(prog.ops[cur].in), oa |-> TensorMem(prog.ops[cur].out)]
    BY <1>5 DEF MadeNode
  <2>2. Completed(cur) = [r EXCEPT !.outPad = FramePad(r), !.ddr = IF OwnBlock(r) THEN ddrBlock ELSE r.ddr,
                            !.extIn = Extent(InShape(cur), Op(cur).pad), !.extOut = OutExtent(cur),
                            !.oa = IF r.isOutput THEN <<"oa", cur>> ELSE r.oa]
    BY Zenon DEF Completed
  <2>3. d = DdrBlock(g, cur)
    BY <1>3, <1>4, <1>5 DEF DdrBlock
  <2> HIDE DEF nx, r
  <2>4. r.ddr = 0 /\ r.oa = TensorMem(prog.ops[cur].out)
    BY <2>1
  <2>5. (IF r.isOutput THEN <<"oa", cur>> ELSE r.oa) = DeviceMem(prog, cur)
    BY <1>5, <2>4 DEF DeviceMem, r
  <2>6. FramePad(r) = OutPad(g, cur)
    BY <1>5 DEF r
  <2>7. Completed(cur) = [r EXCEPT !.outPad = OutPad(g, cur), !.ddr = DdrBlock(g, cur),
                            !.extIn = InExtent(prog, cur), !.extOut = OutExtentOf(prog, cur),
                            !.oa = DeviceMem(prog, cur)]
    BY <1>7, <2>2, <2>3, <2>4, <2>5, <2>6
  <2>8. Completed(cur) = [parent |-> g.parent[cur], next |-> nx, ref |-> Refs(prog, cur, n),
             isOutput |-> g.isOutput[cur], inPad |-> g.inPad[cur], outPad |-> OutPad(g, cur),
             ddr |-> DdrBlock(g, cur), extIn |-> InExtent(prog, cur), extOut |-> OutExtentOf(prog, cur),
             ia |-> TensorMem(prog.ops[cur].in), oa |-> DeviceMem(prog, cur)]
    BY <2>1, <2>7, CompletedNode
  <2> QED
    BY <2>8 DEF BuiltNode, nx
<1>10. nodes' = BuiltUpTo(prog, cur)
  <2>1. nodes' = [i \in 1 .. n |-> IF i = cur THEN BuiltNode(prog, cur) ELSE nodes[i]]
    BY <1>1, <1>3, <1>5, <1>9
  <2>2. \A i \in 1 .. n : i # cur => (i <= k <=> i <= cur)
    BY <1>3
  <2>3. cur <= cur
    BY <1>3
  <2> QED
    BY <1>3, <1>4, <2>1, <2>2, <2>3 DEF BuiltUpTo
<1>11. ddrBlock' = Cardinality(SpecialsBefore(g, cur + 1))
  <2>1. IsFiniteSet(SpecialsBefore(g, cur)) /\ Cardinality(SpecialsBefore(g, cur)) \in Nat
    <3>1. IsFiniteSet(1 .. (cur - 1)) /\ SpecialsBefore(g, cur) \in SUBSET (1 .. (cur - 1))
      BY <1>3, FS_Interval DEF SpecialsBefore
    <3> QED
      BY <3>1, FS_Subset, FS_CardinalityType
  <2>2. ddrBlock = Cardinality(SpecialsBefore(g, cur))
    BY <1>3, <1>4
  <2>3. CASE Special(g, cur)
    <3>1. SpecialsBefore(g, cur + 1) = SpecialsBefore(g, cur) \cup {cur} /\ cur \notin SpecialsBefore(g, cur)
      BY <1>3, <2>3 DEF SpecialsBefore
    <3> QED
      BY <1>1, <1>5, <2>1, <2>2, <2>3, <3>1, FS_AddElement
  <2>4. CASE ~Special(g, cur)
    <3>1. SpecialsBefore(g, cur + 1) = SpecialsBefore(g, cur)
      BY <1>3, <2>4 DEF SpecialsBefore
    <3> QED
      BY <1>1, <1>5, <2>2, <2>4, <3>1
  <2> QED
    BY <2>3, <2>4
<1>12. OutsKept(prog, cur, outputNodes', maxOut') /\ heap' = BuildHeap(prog, cur)
  <2>1. \A i : i \in 1 .. cur <=> i = cur \/ i \in 1 .. k
    BY <1>3
  <2>2. cur \notin 1 .. k
    BY <1>3
  <2>3. CASE IsOut(prog, cur)
    <3>1. OutsUpTo(prog, cur) = OutsUpTo(prog, k) \cup {cur} /\ cur \notin OutsUpTo(prog, k)
      BY <2>1, <2>2, <2>3 DEF OutsUpTo
    <3>2. TensorOf(cur) = TensorMem(prog.ops[cur].out)
      BY <1>5 DEF TensorOf, MadeNode
    <3>3. /\ outputNodes' = [i \in DOMAIN outputNodes \cup {cur} |->
                                 IF i = cur THEN TensorMem(prog.ops[cur].out) ELSE outputNodes[i]]
          /\ maxOut' = IF OutExtentOf(prog, cur) > maxOut THEN OutExtentOf(prog, cur) ELSE maxOut
          /\ heap' = heap \cup {<<"oa", cur>>}
      BY <1>2, <1>5, <1>7, <2>3, <3>2
    <3>4. DOMAIN outputNodes' = OutsUpTo(prog, cur)
      BY <1>4, <3>1, <3>3 DEF OutsKept
    <3>5. \A i \in OutsUpTo(prog, cur) : outputNodes'[i] = TensorMem(prog.ops[i].out)
      BY <1>4, <3>1, <3>3 DEF OutsKept
    <3>6. maxOut' \in Nat /\ \A i \in OutsUpTo(prog, cur) : OutExtentOf(prog, i) <= maxOut'
      <4>1. \A i \in OutsUpTo(prog, k) \cup {cur} : OutExtentOf(prog, i) \in Nat
        <5> SUFFICES ASSUME NEW i \in OutsUpTo(prog, k) \cup {cur} PROVE OutExtentOf(prog, i) \in Nat
          OBVIOUS
        <5>1. i \in 1 .. n
          BY <1>3 DEF OutsUpTo
        <5>2. OutPad(g, i) \in Nat
          <6>1. i < n => i + 1 \in 1 .. n
            BY <1>3, <5>1
          <6>2. i < n => g.inPad[i + 1] \in Nat
            BY <6>1, WriterIs, OpTypes
          <6> QED
            BY <6>2, WriterIs DEF OutPad
        <5>3. prog.shape[prog.ops[i].out] \in [c : Nat \ {0}, h : Nat \ {0}, w : Nat \ {0}]
          BY <5>1, OpTypes
        <5> QED
          BY <5>2, <5>3, ExtentType DEF OutExtentOf
      <4>2. maxOut \in Nat /\ \A i \in OutsUpTo(prog, k) : OutExtentOf(prog, i) <= maxOut
        BY <1>4 DEF OutsKept
      <4>3. maxOut' \in Nat /\ maxOut <= maxOut' /\ OutExtentOf(prog, cur) <= maxOut'
        BY <3>3, <4>1, <4>2
      <4> QED
        BY <3>1, <4>1, <4>2, <4>3
    <3>7. heap' = BuildHeap(prog, cur)
      BY <1>4, <3>1, <3>3 DEF BuildHeap
    <3> QED
      BY <3>4, <3>5, <3>6, <3>7 DEF OutsKept
  <2>4. CASE ~IsOut(prog, cur)
    <3>1. OutsUpTo(prog, cur) = OutsUpTo(prog, k)
      BY <2>1, <2>4 DEF OutsUpTo
    <3>2. outputNodes' = outputNodes /\ maxOut' = maxOut /\ heap' = heap
      BY <1>2, <1>5, <2>4
    <3> QED
      BY <1>4, <3>1, <3>2 DEF OutsKept, BuildHeap
  <2> QED
    BY <2>3, <2>4
<1> QED
  BY <1>1, <1>4, <1>6, <1>8, <1>10, <1>11, <1>12 DEF BuildInv

LEMMA ExtentsAreNat ==
    ASSUME NEW P, IsProgram(P), NEW i \in 1 .. Count(P)
    PROVE  InExtent(P, i) \in Nat /\ OutExtentOf(P, i) \in Nat /\ OutPad(GraphOf(P), i) \in Nat
<1>1. Count(P) \in Nat /\ GraphOf(P).len = Count(P)
  BY WriterIs
<1>2. OutPad(GraphOf(P), i) \in Nat
  <2>1. i < Count(P) => i + 1 \in 1 .. Count(P)
    BY <1>1
  <2>2. i < Count(P) => GraphOf(P).inPad[i + 1] \in Nat
    BY <2>1, WriterIs, OpTypes
  <2> QED
    BY <1>1, <2>2 DEF OutPad
<1>3. /\ P.shape[P.ops[i].in] \in [c : Nat \ {0}, h : Nat \ {0}, w : Nat \ {0}]
      /\ P.shape[P.ops[i].out] \in [c : Nat \ {0}, h : Nat \ {0}, w : Nat \ {0}]
      /\ P.ops[i].pad \in Nat
  BY OpTypes
<1> QED
  BY <1>2, <1>3, ExtentType DEF InExtent, OutExtentOf

-----------------------------------------------------------------------------
(* The finished graph, and what its destructor leaves after k nodes.       *)

FinalNode(P, i) == IF i = 1 THEN [BuiltNode(P, 1) EXCEPT !.ia = <<"ia", 1>>] ELSE BuiltNode(P, i)
Final(P) == [i \in 1 .. Count(P) |-> FinalNode(P, i)]

Unread(P, i) == Refs(P, i, Count(P)) = 0
Remains(P, k) ==
    ({"node", "param", "ip", "ba", "ka"} \X (k + 1 .. Count(P)))
        \cup {<<"oa", i>> : i \in {j \in 1 .. Count(P) : IsOut(P, j) /\ (j > k \/ ~Unread(P, j))}}
Lost(P, k) == {TensorMem(P.ops[i].out) : i \in {j \in 1 .. k : ~IsOut(P, j) /\ Unread(P, j)}}
Buffer == <<"data_buff", 0>>

FinalInv ==
    /\ nodes = Final(prog) /\ root = 1 /\ tail = Count(prog)
    /\ Maps(prog, tensor2node, Count(prog))
    /\ ddrBlock \in Nat /\ din = TensorMem(prog.ops[1].in)
    /\ OutsKept(prog, Count(prog), outputNodes, maxOut) /\ FitUpTo(prog, Count(prog))
    /\ dataBuff \in Nat /\ \A i \in OutsUpTo(prog, Count(prog)) : OutExtentOf(prog, i) <= dataBuff

ReadyInv == cur = 0 /\ heap = Remains(prog, 0) \cup {<<"ia", 1>>, Buffer} /\ foreign = {}
DeleteInv ==
    /\ cur \in 0 .. Count(prog)
    /\ heap = Remains(prog, Behind(prog, cur)) \cup {Buffer}
    /\ foreign = Lost(prog, Behind(prog, cur))
GoneInv == cur = 0 /\ heap = Remains(prog, Count(prog)) /\ foreign = Lost(prog, Count(prog))

LEMMA FinalFields ==
    ASSUME NEW P, IsProgram(P), NEW i \in 1 .. Count(P)
    PROVE  /\ Final(P)[i].parent = GraphOf(P).parent[i]
           /\ Final(P)[i].next = IF i < Count(P) THEN i + 1 ELSE 0
           /\ Final(P)[i].ref = Refs(P, i, Count(P))
           /\ Final(P)[i].isOutput = GraphOf(P).isOutput[i]
           /\ Final(P)[i].outPad = OutPad(GraphOf(P), i) /\ Final(P)[i].ddr = DdrBlock(GraphOf(P), i)
           /\ Final(P)[i].extIn = InExtent(P, i) /\ Final(P)[i].extOut = OutExtentOf(P, i)
           /\ Final(P)[i].oa = DeviceMem(P, i)
           /\ Final(P)[1].ia = <<"ia", 1>>
<1>1. 1 \in 1 .. Count(P)
  BY WriterIs
<1>2. Final(P)[i] = FinalNode(P, i) /\ Final(P)[1] = [BuiltNode(P, 1) EXCEPT !.ia = <<"ia", 1>>]
  BY <1>1 DEF Final, FinalNode
<1>3. FinalNode(P, i) = BuiltNode(P, i) \/ (i = 1 /\ FinalNode(P, i) = [BuiltNode(P, i) EXCEPT !.ia = <<"ia", 1>>])
  BY DEF FinalNode
<1> QED
  BY <1>2, <1>3 DEF BuiltNode

LEMMA BuiltIsReady ==
    ASSUME IsProgram(prog), BuildInv, Built
    PROVE  FinalInv' /\ ReadyInv' /\ pc' = "ready" /\ prog' = prog
<1> DEFINE n == Count(prog)
<1>1. /\ cur = 0 /\ pc' = "ready" /\ din' = nodes[root].ia
      /\ nodes' = [nodes EXCEPT ![root].ia = <<"ia", root>>]
      /\ dataBuff' = maxOut + nodes[root].extIn
      /\ heap' = heap \cup {<<"ia", root>>, Buffer}
      /\ UNCHANGED <<prog, cur, root, tail, tensor2node, ddrBlock, outputNodes, maxOut, foreign>>
  BY DEF Built, Buffer
<1>2. n \in Nat /\ n >= 1 /\ 1 \in 1 .. n /\ Behind(prog, cur) = n /\ root = 1
  BY <1>1, WriterIs DEF Behind, BuildInv
<1>3. /\ nodes = BuiltUpTo(prog, n) /\ tail = n /\ Maps(prog, tensor2node, n)
      /\ ddrBlock = Cardinality(SpecialsBefore(GraphOf(prog), n + 1))
      /\ OutsKept(prog, n, outputNodes, maxOut) /\ FitUpTo(prog, n)
      /\ heap = BuildHeap(prog, n) /\ foreign = {}
  BY <1>2 DEF BuildInv
<1>4. nodes = [i \in 1 .. n |-> BuiltNode(prog, i)]
  <2>1. \A i \in 1 .. n : i <= n
    BY <1>2
  <2> QED
    BY <1>3, <2>1 DEF BuiltUpTo
<1>5. nodes' = Final(prog)
  <2>1. nodes' = [nodes EXCEPT ![1] = [nodes[1] EXCEPT !.ia = <<"ia", 1>>]]
    BY <1>1, <1>2, Zenon
  <2>2. nodes[1] = BuiltNode(prog, 1)
    BY <1>2, <1>4
  <2>3. nodes' = [i \in 1 .. n |-> IF i = 1 THEN [BuiltNode(prog, 1) EXCEPT !.ia = <<"ia", 1>>] ELSE BuiltNode(prog, i)]
    BY <1>2, <1>4, <2>1, <2>2, Zenon
  <2> QED
    BY <2>3 DEF Final, FinalNode
<1>6. nodes[1].ia = TensorMem(prog.ops[1].in) /\ nodes[1].extIn = InExtent(prog, 1)
  BY <1>2, <1>4 DEF BuiltNode
<1>7. ddrBlock \in Nat
  <2>1. IsFiniteSet(1 .. n) /\ SpecialsBefore(GraphOf(prog), n + 1) \in SUBSET (1 .. n)
    BY <1>2, FS_Interval DEF SpecialsBefore
  <2> QED
    BY <1>3, <2>1, FS_Subset, FS_CardinalityType
<1>8. dataBuff' \in Nat /\ \A i \in OutsUpTo(prog, n) : OutExtentOf(prog, i) <= dataBuff'
  <2>1. InExtent(prog, 1) \in Nat /\ \A i \in OutsUpTo(prog, n) : OutExtentOf(prog, i) \in Nat
    BY <1>2, ExtentsAreNat DEF OutsUpTo
  <2>2. maxOut \in Nat /\ \A i \in OutsUpTo(prog, n) : OutExtentOf(prog, i) <= maxOut
    BY <1>3 DEF OutsKept
  <2>3. dataBuff' = maxOut + InExtent(prog, 1)
    BY <1>1, <1>2, <1>6
  <2> QED
    BY <2>1, <2>2, <2>3
<1>9. BuildHeap(prog, n) = Remains(prog, 0)
  <2>1. 0 + 1 .. n = 1 .. n /\ \A j \in 1 .. n : j > 0
    OBVIOUS
  <2>2. OutsUpTo(prog, n) = {j \in 1 .. n : IsOut(prog, j) /\ (j > 0 \/ ~Unread(prog, j))}
    BY <2>1 DEF OutsUpTo
  <2> QED
    BY <2>1, <2>2 DEF BuildHeap, Remains, MakeHeap
<1> QED
  BY <1>1, <1>2, <1>3, <1>5, <1>6, <1>7, <1>8, <1>9 DEF FinalInv, ReadyInv

LEMMA InputGone ==
    ASSUME IsProgram(prog), FinalInv, ReadyInv, DeleteInput
    PROVE  FinalInv' /\ DeleteInv' /\ pc' = "delete" /\ prog' = prog
<1>1. /\ pc' = "delete" /\ cur' = root
      /\ heap' = heap \ {nodes[root].ia} /\ foreign' = foreign \cup ({nodes[root].ia} \ heap)
      /\ UNCHANGED <<prog, nodes, root, tail, tensor2node, ddrBlock, din, outputNodes, maxOut, dataBuff>>
  BY DEF DeleteInput, Delete, list, model
<1>2. Count(prog) \in Nat /\ Count(prog) >= 1 /\ 1 \in 1 .. Count(prog) /\ root = 1
  BY WriterIs DEF FinalInv
<1>3. nodes[root].ia = <<"ia", 1>>
  BY <1>2, FinalFields DEF FinalInv
<1>4. cur' \in 0 .. Count(prog) /\ Behind(prog, cur') = 0
  BY <1>1, <1>2 DEF Behind
<1>5. heap' = Remains(prog, 0) \cup {Buffer}
  <2>1. <<"ia", 1>> \notin Remains(prog, 0) /\ <<"ia", 1>> # Buffer
    BY DEF Remains, Buffer
  <2> QED
    BY <1>1, <1>3, <2>1 DEF ReadyInv
<1>6. foreign' = Lost(prog, 0)
  <2>1. Lost(prog, 0) = {}
    BY DEF Lost
  <2> QED
    BY <1>1, <1>3, <2>1 DEF ReadyInv
<1>7. FinalInv'
  BY <1>1 DEF FinalInv
<1> QED
  BY <1>1, <1>4, <1>5, <1>6, <1>7 DEF DeleteInv

LEMMA NodeGone ==
    ASSUME IsProgram(prog), FinalInv, DeleteInv, pc = "delete", DeleteNode
    PROVE  FinalInv' /\ DeleteInv' /\ pc' = "delete" /\ prog' = prog
<1> DEFINE n == Count(prog)
           k == cur - 1
           Own == {"node", "param", "ip", "ba", "ka"}
           Oa == IF DeletesOa(nodes[cur]) THEN {nodes[cur].oa} ELSE {}
<1>1. /\ cur # 0 /\ cur' = nodes[cur].next
      /\ heap' = heap \ ((Own \X {cur}) \cup Oa) /\ foreign' = foreign \cup (((Own \X {cur}) \cup Oa) \ heap)
      /\ UNCHANGED <<prog, pc, nodes, root, tail, tensor2node, ddrBlock, din, outputNodes, maxOut, dataBuff>>
  BY DEF DeleteNode, Delete, list, model
<1>2. n \in Nat /\ cur \in 1 .. n /\ Behind(prog, cur) = k /\ k \in 0 .. n - 1 /\ cur = k + 1
  BY <1>1, WriterIs DEF DeleteInv, Behind
<1>3. /\ nodes[cur].next = IF cur < n THEN cur + 1 ELSE 0
      /\ nodes[cur].ref = Refs(prog, cur, n) /\ nodes[cur].oa = DeviceMem(prog, cur)
  BY <1>2, FinalFields DEF FinalInv
<1>4. cur' \in 0 .. n /\ Behind(prog, cur') = cur
  BY <1>1, <1>2, <1>3 DEF Behind
<1>5. heap = Remains(prog, k) \cup {Buffer} /\ foreign = Lost(prog, k)
  BY <1>2 DEF DeleteInv
<1>6. Oa = IF Unread(prog, cur) THEN {DeviceMem(prog, cur)} ELSE {}
  BY <1>3 DEF DeletesOa, Unread
<1> DEFINE Tuples == Own \X (cur .. n)
           Later == Own \X (cur + 1 .. n)
           Outs(j) == {<<"oa", i>> : i \in {m \in 1 .. n : IsOut(prog, m) /\ (m > j \/ ~Unread(prog, m))}}
<1>7. Remains(prog, k) = Tuples \cup Outs(k) /\ Remains(prog, cur) = Later \cup Outs(cur)
  BY <1>2 DEF Remains
<1>8. Tuples = Later \cup (Own \X {cur}) /\ Later \cap (Own \X {cur}) = {}
  <2>1. \A m : m \in cur .. n <=> (m = cur \/ m \in cur + 1 .. n)
    BY <1>2
  <2>2. cur \notin cur + 1 .. n
    BY <1>2
  <2> QED
    BY <2>1, <2>2
<1>9. /\ \A x \in Outs(k) : x \notin Own \X {cur} /\ x # Buffer
      /\ \A x \in Tuples : x # Buffer /\ x # <<"oa", cur>>
      /\ \A x \in Tuples : x # TensorMem(prog.ops[cur].out)
      /\ \A x \in Outs(k) : x # TensorMem(prog.ops[cur].out)
      /\ Buffer # TensorMem(prog.ops[cur].out) /\ Buffer # <<"oa", cur>> /\ Buffer \notin Own \X {cur}
  BY DEF Buffer, TensorMem
<1>10. Outs(cur) = IF IsOut(prog, cur) /\ Unread(prog, cur) THEN Outs(k) \ {<<"oa", cur>>} ELSE Outs(k)
  <2>1. \A m \in 1 .. n : m # cur => (m > k <=> m > cur)
    BY <1>2
  <2>2. cur > k /\ ~(cur > cur)
    BY <1>2
  <2> QED
    BY <2>1, <2>2
<1>11. IsOut(prog, cur) => <<"oa", cur>> \in Outs(k)
  BY <1>2
<1>12. Lost(prog, cur) = IF ~IsOut(prog, cur) /\ Unread(prog, cur)
                         THEN Lost(prog, k) \cup {TensorMem(prog.ops[cur].out)} ELSE Lost(prog, k)
  <2>1. \A m : m \in 1 .. cur <=> (m = cur \/ m \in 1 .. k)
    BY <1>2
  <2> QED
    BY <2>1 DEF Lost
<1> DEFINE Mine == Own \X {cur}
<1>13. Mine \subseteq heap
  BY <1>5, <1>7, <1>8
<1> DEFINE Left == Remains(prog, k)
           Rest == Remains(prog, cur)
           oa == <<"oa", cur>>
           mem == TensorMem(prog.ops[cur].out)
<1>14. /\ heap' = heap \ (Mine \cup Oa) /\ foreign' = foreign \cup ((Mine \cup Oa) \ heap)
       /\ heap = Left \cup {Buffer} /\ foreign = Lost(prog, k) /\ Buffer \notin Mine /\ Buffer # oa
  BY <1>1, <1>5, <1>9
<1>15. Left \ Mine = Later \cup Outs(k) /\ mem \notin heap
  BY <1>5, <1>7, <1>8, <1>9
<1>16. oa \notin Later
  BY <1>8, <1>9
<1> HIDE DEF Tuples, Later, Outs, Oa, Own, k, n, Mine, Left, Rest, oa, mem
<1>17. ASSUME IsOut(prog, cur), Unread(prog, cur)
       PROVE  heap' = Remains(prog, cur) \cup {Buffer} /\ foreign' = Lost(prog, cur)
  <2>1. Oa = {oa} /\ oa \in heap /\ Outs(cur) = Outs(k) \ {oa}
    BY <1>5, <1>6, <1>7, <1>10, <1>11, <1>17 DEF DeviceMem, oa
  <2>2. Rest = (Later \cup Outs(k)) \ {oa}
    BY <1>7, <1>16, <2>1 DEF Rest
  <2>3. heap' = Rest \cup {Buffer}
    BY <1>14, <1>15, <2>1, <2>2
  <2>4. foreign' = Lost(prog, cur)
    <3>1. Lost(prog, cur) = Lost(prog, k)
      BY <1>12, <1>17, Zenon
    <3> QED
      BY <1>13, <1>14, <2>1, <3>1
  <2> QED
    BY <2>3, <2>4 DEF Rest
<1>18. ASSUME ~IsOut(prog, cur), Unread(prog, cur)
       PROVE  heap' = Remains(prog, cur) \cup {Buffer} /\ foreign' = Lost(prog, cur)
  <2>1. Oa = {mem} /\ Outs(cur) = Outs(k)
    BY <1>6, <1>10, <1>18 DEF DeviceMem, mem
  <2>2. Rest = Later \cup Outs(k)
    BY <1>7, <2>1 DEF Rest
  <2>3. heap' = Rest \cup {Buffer}
    BY <1>14, <1>15, <2>1, <2>2
  <2>4. foreign' = Lost(prog, cur)
    <3>1. Lost(prog, cur) = Lost(prog, k) \cup {mem}
      BY <1>12, <1>18, Zenon DEF mem
    <3> QED
      BY <1>13, <1>14, <1>15, <2>1, <3>1
  <2> QED
    BY <2>3, <2>4 DEF Rest
<1>19. ASSUME ~Unread(prog, cur)
       PROVE  heap' = Remains(prog, cur) \cup {Buffer} /\ foreign' = Lost(prog, cur)
  <2>1. Oa = {} /\ Outs(cur) = Outs(k)
    BY <1>6, <1>10, <1>19
  <2>2. Rest = Later \cup Outs(k)
    BY <1>7, <2>1 DEF Rest
  <2>3. heap' = Rest \cup {Buffer}
    BY <1>14, <1>15, <2>1, <2>2
  <2>4. foreign' = Lost(prog, cur)
    <3>1. Lost(prog, cur) = Lost(prog, k)
      BY <1>12, <1>19, Zenon
    <3> QED
      BY <1>13, <1>14, <2>1, <3>1
  <2> QED
    BY <2>3, <2>4 DEF Rest
<1>20. heap' = Remains(prog, cur) \cup {Buffer} /\ foreign' = Lost(prog, cur)
  <2>1. \/ IsOut(prog, cur) /\ Unread(prog, cur)
        \/ ~IsOut(prog, cur) /\ Unread(prog, cur)
        \/ ~Unread(prog, cur)
    BY Zenon
  <2> QED
    BY <1>17, <1>18, <1>19, <2>1, Zenon
<1>21. FinalInv'
  BY <1>1 DEF FinalInv
<1> QED
  BY <1>1, <1>4, <1>20, <1>21 DEF DeleteInv, n

LEMMA BufferGone ==
    ASSUME IsProgram(prog), FinalInv, DeleteInv, DeleteBuffer
    PROVE  FinalInv' /\ GoneInv' /\ pc' = "gone" /\ prog' = prog
<1>1. /\ cur = 0 /\ pc' = "gone"
      /\ heap' = heap \ {Buffer} /\ foreign' = foreign \cup ({Buffer} \ heap)
      /\ UNCHANGED <<prog, cur, nodes, root, tail, tensor2node, ddrBlock, din, outputNodes, maxOut, dataBuff>>
  BY DEF DeleteBuffer, Delete, list, model, Buffer
<1>2. heap = Remains(prog, Count(prog)) \cup {Buffer} /\ foreign = Lost(prog, Count(prog))
  BY <1>1 DEF DeleteInv, Behind
<1>3. Buffer \notin Remains(prog, Count(prog))
  BY DEF Remains, Buffer
<1>4. FinalInv'
  BY <1>1 DEF FinalInv
<1> QED
  BY <1>1, <1>2, <1>3, <1>4 DEF GoneInv

-----------------------------------------------------------------------------
(* The invariant.                                                          *)

BuilderInv ==
    /\ IsProgram(prog)
    /\ pc \in {"convert", "build", "ready", "delete", "gone", "aborted"}
    /\ pc = "convert" => ConvertInv
    /\ pc = "build" => BuildInv
    /\ Finished => FinalInv
    /\ pc = "ready" => ReadyInv
    /\ pc = "delete" => DeleteInv
    /\ pc = "gone" => GoneInv
    /\ pc = "aborted" => TypeOK

LEMMA FieldTypes ==
    ASSUME NEW P, IsProgram(P), NEW k \in 0 .. Count(P), NEW i \in 1 .. k
    PROVE  /\ GraphOf(P).parent[i] \in 0 .. k
           /\ (IF i < k THEN i + 1 ELSE 0) \in 0 .. k
           /\ Refs(P, i, k) \in Nat /\ DdrBlock(GraphOf(P), i) \in Nat
           /\ OutPad(GraphOf(P), i) \in Nat /\ InExtent(P, i) \in Nat /\ OutExtentOf(P, i) \in Nat
<1>1. Count(P) \in Nat /\ k \in Nat /\ i \in Nat /\ i \in 1 .. Count(P)
  BY WriterIs
<1>2. GraphOf(P).parent[i] \in 0 .. k
  <2>1. i = 1 \/ i \in 2 .. Count(P)
    BY <1>1
  <2>2. GraphOf(P).parent[i] = 0 \/ GraphOf(P).parent[i] \in 1 .. (i - 1)
    BY <2>1, WriterIs
  <2> QED
    BY <1>1, <2>2
<1>3. DdrBlock(GraphOf(P), i) \in Nat
  <2>1. 1 \in Int /\ i - 1 \in Int
    BY <1>1
  <2>2. IsFiniteSet(1 .. (i - 1))
    BY <2>1, FS_Interval
  <2>3. SpecialsBefore(GraphOf(P), i) \in SUBSET (1 .. (i - 1))
    BY DEF SpecialsBefore
  <2> QED
    BY <2>2, <2>3, FS_Subset, FS_CardinalityType DEF DdrBlock
<1> QED
  BY <1>1, <1>2, <1>3, RefsGrow, ExtentsAreNat

LEMMA ListLength ==
    ASSUME NEW k \in Nat, NEW S, NEW f \in [1 .. k -> S]
    PROVE  Len(f) = k
OBVIOUS

LEMMA ConvertTypes ==
    ASSUME IsProgram(prog), pc = "convert", ConvertInv
    PROVE  TypeOK
<1> DEFINE k == cur - 1
<1>1. k \in Nat /\ k \in 0 .. Count(prog) /\ cur \in 0 .. Count(prog) + 1 /\ Count(prog) \in Nat
  BY WriterIs DEF ConvertInv
<1>2. nodes = [i \in 1 .. k |-> MadeNode(prog, i, k)]
  BY DEF ConvertInv, Made
<1>3. Len(nodes) = k /\ DOMAIN nodes = 1 .. k
  BY <1>1, <1>2, ListLength
<1>4. ASSUME NEW i \in 1 .. k
      PROVE  /\ {nodes[i].parent, nodes[i].next} \subseteq 0 .. k
             /\ {nodes[i].ref, nodes[i].ddr, nodes[i].outPad,
                 nodes[i].extIn, nodes[i].extOut} \subseteq Nat
  <2>1. nodes[i] = MadeNode(prog, i, k)
    BY <1>2
  <2> HIDE DEF k
  <2> QED
    BY <1>1, <2>1, FieldTypes DEF MadeNode
<1>5. root \in 0 .. k /\ tail \in 0 .. k
  BY <1>1 DEF ConvertInv
<1>6. tensor2node \in [Tensors(prog) -> 0 .. k]
  BY DEF ConvertInv, Maps
<1>7. DOMAIN outputNodes \subseteq 1 .. k /\ {ddrBlock, maxOut, dataBuff} \subseteq Nat
  BY DEF ConvertInv, Untouched
<1> QED
  BY <1>1, <1>3, <1>4, <1>5, <1>6, <1>7 DEF TypeOK, Count

LEMMA BuildTypes ==
    ASSUME IsProgram(prog), pc = "build", BuildInv
    PROVE  TypeOK
<1> DEFINE n == Count(prog)
           k == Behind(prog, cur)
<1>1. n \in Nat /\ n \in 0 .. n /\ n >= 1 /\ cur \in 0 .. n /\ cur \in 0 .. n + 1 /\ k \in 0 .. n
  BY WriterIs DEF BuildInv, Behind
<1>2. nodes = [i \in 1 .. n |-> IF i <= k THEN BuiltNode(prog, i) ELSE MadeNode(prog, i, n)]
  BY DEF BuildInv, BuiltUpTo
<1>3. Len(nodes) = n /\ DOMAIN nodes = 1 .. n
  BY <1>1, <1>2, ListLength
<1>4. ASSUME NEW i \in 1 .. n
      PROVE  /\ {nodes[i].parent, nodes[i].next} \subseteq 0 .. n
             /\ {nodes[i].ref, nodes[i].ddr, nodes[i].outPad,
                 nodes[i].extIn, nodes[i].extOut} \subseteq Nat
  <2>1. nodes[i] = BuiltNode(prog, i) \/ nodes[i] = MadeNode(prog, i, n)
    BY <1>2
  <2> QED
    BY <1>1, <2>1, FieldTypes DEF MadeNode, BuiltNode
<1>5. root \in 0 .. n /\ tail \in 0 .. n
  BY <1>1 DEF BuildInv
<1>6. tensor2node \in [Tensors(prog) -> 0 .. n]
  BY DEF BuildInv, Maps
<1>7. DOMAIN outputNodes \subseteq 1 .. n
  BY <1>1 DEF BuildInv, OutsKept, OutsUpTo
<1>8. {ddrBlock, maxOut, dataBuff} \subseteq Nat
  <2>1. IsFiniteSet(1 .. k) /\ SpecialsBefore(GraphOf(prog), k + 1) \in SUBSET (1 .. k)
    BY <1>1, FS_Interval DEF SpecialsBefore
  <2>2. ddrBlock \in Nat
    BY <2>1, FS_Subset, FS_CardinalityType DEF BuildInv
  <2> QED
    BY <2>2 DEF BuildInv, OutsKept
<1> QED
  BY <1>1, <1>3, <1>4, <1>5, <1>6, <1>7, <1>8 DEF TypeOK, Count

LEMMA FinalTypes ==
    ASSUME IsProgram(prog), Finished, FinalInv, cur \in 0 .. Count(prog)
    PROVE  TypeOK
<1> DEFINE n == Count(prog)
<1>1. n \in Nat /\ n \in 0 .. n /\ n >= 1 /\ cur \in 0 .. n + 1
  BY WriterIs
<1>2. nodes = [i \in 1 .. n |-> FinalNode(prog, i)]
  BY DEF FinalInv, Final
<1>3. Len(nodes) = n /\ DOMAIN nodes = 1 .. n
  BY <1>1, <1>2, ListLength
<1>4. ASSUME NEW i \in 1 .. n
      PROVE  /\ {nodes[i].parent, nodes[i].next} \subseteq 0 .. n
             /\ {nodes[i].ref, nodes[i].ddr, nodes[i].outPad,
                 nodes[i].extIn, nodes[i].extOut} \subseteq Nat
  <2>1. nodes = Final(prog)
    BY DEF FinalInv
  <2> QED
    BY <1>1, <2>1, FinalFields, FieldTypes
<1>5. root \in 0 .. n /\ tail \in 0 .. n
  BY <1>1 DEF FinalInv
<1>6. tensor2node \in [Tensors(prog) -> 0 .. n]
  BY DEF FinalInv, Maps
<1>7. DOMAIN outputNodes \subseteq 1 .. n /\ {ddrBlock, maxOut, dataBuff} \subseteq Nat
  BY DEF FinalInv, OutsKept, OutsUpTo
<1>8. pc \in {"convert", "build", "ready", "delete", "gone", "aborted"}
  BY DEF Finished
<1> QED
  BY <1>1, <1>3, <1>4, <1>5, <1>6, <1>7, <1>8 DEF TypeOK, Count

LEMMA TypesHold == BuilderInv => TypeOK
<1> SUFFICES ASSUME BuilderInv PROVE TypeOK
  OBVIOUS
<1>1. IsProgram(prog) /\ Count(prog) \in Nat
  BY WriterIs DEF BuilderInv
<1>2. CASE pc = "convert"
  BY <1>1, <1>2, ConvertTypes DEF BuilderInv
<1>3. CASE pc = "build"
  BY <1>1, <1>3, BuildTypes DEF BuilderInv
<1>4. CASE pc \in {"ready", "delete", "gone"}
  <2>1. Finished /\ FinalInv
    BY <1>4 DEF BuilderInv, Finished
  <2>2. cur \in 0 .. Count(prog)
    BY <1>1, <1>4 DEF BuilderInv, ReadyInv, DeleteInv, GoneInv
  <2> QED
    BY <1>1, <2>1, <2>2, FinalTypes
<1>5. CASE pc = "aborted"
  BY <1>5 DEF BuilderInv
<1> QED
  BY <1>2, <1>3, <1>4, <1>5 DEF BuilderInv

LEMMA InvInit == Init => BuilderInv
<1> SUFFICES ASSUME Init PROVE BuilderInv
  OBVIOUS
<1>1. /\ prog \in Programs /\ pc = "convert" /\ cur = 1 /\ nodes = <<>> /\ root = 0 /\ tail = 0
      /\ tensor2node = [t \in Tensors(prog) |-> 0]
      /\ ddrBlock = 0 /\ din = Null /\ maxOut = 0 /\ dataBuff = 0 /\ outputNodes = <<>>
      /\ heap = {} /\ foreign = {}
  BY DEF Init
<1>2. IsProgram(prog) /\ Count(prog) \in Nat /\ Count(prog) >= 1
  BY <1>1, BuilderAssumption, WriterIs
<1>3. cur - 1 = 0 /\ 1 .. 0 = {}
  BY <1>1
<1>4. nodes = Made(prog, 0)
  BY <1>1, <1>3 DEF Made
<1>5. Maps(prog, tensor2node, 0)
  BY <1>1, <1>3 DEF Maps
<1>6. heap = MakeHeap(0)
  BY <1>1, <1>3 DEF MakeHeap
<1>7. ConvertInv
  BY <1>1, <1>2, <1>3, <1>4, <1>5, <1>6 DEF ConvertInv, Untouched
<1> QED
  BY <1>1, <1>2, <1>7 DEF BuilderInv, Finished

LEMMA AbortKeeps ==
    ASSUME BuilderInv, Abort
    PROVE  BuilderInv'
<1>1. TypeOK /\ pc' = "aborted" /\ UNCHANGED <<prog, cur, nodes, root, tail, tensor2node, ddrBlock, din,
                                                outputNodes, maxOut, dataBuff, heap, foreign>>
  BY TypesHold DEF Abort, list, model
<1>2. TypeOK' /\ IsProgram(prog')
  BY <1>1 DEF TypeOK
<1> QED
  BY <1>1, <1>2 DEF BuilderInv, Finished

LEMMA InvNext == BuilderInv /\ [Next]_vars => BuilderInv'
<1> SUFFICES ASSUME BuilderInv, [Next]_vars PROVE BuilderInv'
  OBVIOUS
<1>1. IsProgram(prog)
  BY DEF BuilderInv
<1>2. CASE Convert
  <2>1. ConvertInv /\ pc = "convert"
    BY <1>2 DEF Convert, BuilderInv
  <2> QED
    BY <1>1, <1>2, <2>1, ConvertKeeps DEF BuilderInv, Finished
<1>3. CASE ConvertRefused
  BY <1>3, AbortKeeps DEF ConvertRefused
<1>4. CASE Converted
  <2>1. ConvertInv
    BY <1>4 DEF Converted, BuilderInv
  <2> QED
    BY <1>1, <1>4, <2>1, ConvertedIsBuilt DEF BuilderInv, Finished
<1>5. CASE BuildNode
  <2>1. BuildInv /\ pc = "build"
    BY <1>5 DEF BuildNode, BuilderInv
  <2> QED
    BY <1>1, <1>5, <2>1, BuildKeeps DEF BuilderInv, Finished
<1>6. CASE BuildRefused
  BY <1>6, AbortKeeps DEF BuildRefused
<1>7. CASE Built
  <2>1. BuildInv
    BY <1>7 DEF Built, BuilderInv
  <2> QED
    BY <1>1, <1>7, <2>1, BuiltIsReady DEF BuilderInv, Finished
<1>8. CASE DeleteInput
  <2>1. FinalInv /\ ReadyInv
    BY <1>8 DEF DeleteInput, BuilderInv, Finished
  <2> QED
    BY <1>1, <1>8, <2>1, InputGone DEF BuilderInv, Finished
<1>9. CASE DeleteNode
  <2>1. FinalInv /\ DeleteInv /\ pc = "delete"
    BY <1>9 DEF DeleteNode, BuilderInv, Finished
  <2> QED
    BY <1>1, <1>9, <2>1, NodeGone DEF BuilderInv, Finished
<1>10. CASE DeleteBuffer
  <2>1. FinalInv /\ DeleteInv
    BY <1>10 DEF DeleteBuffer, BuilderInv, Finished
  <2> QED
    BY <1>1, <1>10, <2>1, BufferGone DEF BuilderInv, Finished
<1>11. CASE UNCHANGED vars
  BY <1>11 DEF vars, list, model, BuilderInv, Finished, TypeOK, ConvertInv, BuildInv, FinalInv,
               ReadyInv, DeleteInv, GoneInv, Maps, OutsKept, FitUpTo, Untouched
<1> QED
  BY <1>2, <1>3, <1>4, <1>5, <1>6, <1>7, <1>8, <1>9, <1>10, <1>11 DEF Next

LEMMA InvHolds == Spec => []BuilderInv
<1>1. Init => BuilderInv
  BY InvInit
<1>2. BuilderInv /\ [Next]_vars => BuilderInv'
  BY InvNext
<1> QED
  BY <1>1, <1>2, PTL DEF Spec

-----------------------------------------------------------------------------
(* The theorems.                                                           *)

\* Whatever convolutions a subgraph has, every index in the list, the map and the
\* local counters of the builder stays a node of the list or a natural number, also
\* when a CHECK has stopped it half-way.
THEOREM BuilderTypes == Spec => []TypeOK
<1>1. BuilderInv => TypeOK
  BY TypesHold
<1> QED
  BY <1>1, InvHolds, PTL

LEMMA FinalIsTheGraph == BuilderInv => ListIsTheGraph
<1> SUFFICES ASSUME BuilderInv, Finished
             PROVE  LET g == GraphOf(prog)
                    IN  /\ IsGraph(g) /\ root = 1 /\ Len(nodes) = g.len
                        /\ \A i \in Nodes(g) :
                              /\ nodes[i].next = IF i < g.len THEN i + 1 ELSE 0
                              /\ nodes[i].parent = g.parent[i]
                              /\ nodes[i].isOutput = g.isOutput[i]
                              /\ nodes[i].ref = RefCount(g, i)
                              /\ nodes[i].ddr = DdrBlock(g, i)
                              /\ nodes[i].outPad = OutPad(g, i)
  BY DEF ListIsTheGraph
<1> DEFINE g == GraphOf(prog)
           n == Count(prog)
<1>1. IsProgram(prog) /\ FinalInv /\ n \in Nat /\ g.len = n /\ Nodes(g) = 1 .. n
  BY WriterIs DEF BuilderInv, Nodes
<1>2. root = 1 /\ nodes = Final(prog) /\ Len(nodes) = n
  BY <1>1, ListLength DEF FinalInv, Final
<1>3. IsGraph(g)
  BY <1>1, ProgramIsAGraph
<1>4. \A i \in 1 .. n : nodes[i].ref = RefCount(g, i)
  BY <1>1, <1>2, FinalFields, RefsAreRefCount
<1> HIDE DEF n
<1>5. \A i \in 1 .. n : /\ nodes[i].next = IF i < n THEN i + 1 ELSE 0
                        /\ nodes[i].parent = g.parent[i]
                        /\ nodes[i].isOutput = g.isOutput[i]
                        /\ nodes[i].ddr = DdrBlock(g, i)
                        /\ nodes[i].outPad = OutPad(g, i)
  BY <1>1, <1>2, FinalFields DEF n
<1> HIDE DEF g
<1>6. /\ IsGraph(g) /\ root = 1 /\ Len(nodes) = g.len
      /\ \A i \in Nodes(g) :
            /\ nodes[i].next = IF i < g.len THEN i + 1 ELSE 0
            /\ nodes[i].parent = g.parent[i]
            /\ nodes[i].isOutput = g.isOutput[i]
            /\ nodes[i].ref = RefCount(g, i)
            /\ nodes[i].ddr = DdrBlock(g, i)
            /\ nodes[i].outPad = OutPad(g, i)
  BY <1>1, <1>2, <1>3, <1>4, <1>5
<1> QED
  BY <1>6 DEF g

\* The list that ConvConverter chains and BuildDeviceModel completes is, for every
\* program of convolutions, the graph that SubgraphExec takes as its input.
THEOREM TheListIsTheGraph == Spec => []ListIsTheGraph
<1>1. BuilderInv => ListIsTheGraph
  BY FinalIsTheGraph
<1> QED
  BY <1>1, InvHolds, PTL

LEMMA FinalFits == BuilderInv => FramesFit
<1> SUFFICES ASSUME BuilderInv, Finished
             PROVE  LET g == GraphOf(prog)
                    IN  \A i \in Nodes(g) :
                          /\ nodes[i].extIn <= BlockSize /\ nodes[i].extOut <= BlockSize
                          /\ i > 1 /\ g.parent[i] = i - 1 /\ ~Special(g, i - 1)
                                => nodes[i].extIn = nodes[i - 1].extOut
                          /\ g.isOutput[i] =>
                                /\ nodes[i].extOut = Extent(OutShape(i), 0)
                                /\ nodes[i].extOut <= dataBuff
  BY DEF FramesFit
<1> DEFINE g == GraphOf(prog)
           n == Count(prog)
<1>1. IsProgram(prog) /\ FinalInv /\ n \in Nat /\ g.len = n /\ Nodes(g) = 1 .. n
  BY WriterIs DEF BuilderInv, Nodes
<1>2. \A i \in 1 .. n : nodes[i].extIn = InExtent(prog, i) /\ nodes[i].extOut = OutExtentOf(prog, i)
  BY <1>1, FinalFields DEF FinalInv
<1>3. ASSUME NEW i \in 1 .. n
      PROVE  /\ nodes[i].extIn <= BlockSize /\ nodes[i].extOut <= BlockSize
             /\ i > 1 /\ g.parent[i] = i - 1 /\ ~Special(g, i - 1)
                   => nodes[i].extIn = nodes[i - 1].extOut
             /\ g.isOutput[i] =>
                   /\ nodes[i].extOut = Extent(OutShape(i), 0)
                   /\ nodes[i].extOut <= dataBuff
  <2>1. nodes[i].extIn <= BlockSize /\ nodes[i].extOut <= BlockSize
    BY <1>1, <1>2 DEF FinalInv, FitUpTo
  <2>2. ASSUME i > 1, g.parent[i] = i - 1, ~Special(g, i - 1)
        PROVE  nodes[i].extIn = nodes[i - 1].extOut
    <3>1. i - 1 \in 1 .. n /\ i - 1 \in Nat /\ i \in 2 .. n /\ i - 1 < n /\ (i - 1) + 1 = i
      BY <1>1, <2>2
    <3>2. RefCount(g, i - 1) \in Nat /\ RefCount(g, i - 1) # 0
      <4>1. RefCount(g, i - 1) = Refs(prog, i - 1, n) /\ n \in 0 .. n
        BY <1>1, RefsAreRefCount
      <4>2. i \in Kids(prog, i - 1, n) /\ Kids(prog, i - 1, n) \in SUBSET (1 .. n) /\ IsFiniteSet(1 .. n)
        BY <1>1, <2>2, FS_Interval DEF Kids
      <4>3. IsFiniteSet(Kids(prog, i - 1, n)) /\ Kids(prog, i - 1, n) # {}
        BY <4>2, FS_Subset
      <4>4. Refs(prog, i - 1, n) # 0 /\ Refs(prog, i - 1, n) \in Nat
        BY <4>3, FS_EmptySet, FS_CardinalityType DEF Refs
      <4> QED
        BY <4>1, <4>4
    <3>3. RefCount(g, i - 1) = 1 /\ ~g.isOutput[i - 1]
      BY <2>2, <3>2 DEF Special
    <3>4. OutPad(g, i - 1) = g.inPad[i]
      BY <1>1, <3>1, <3>3 DEF OutPad
    <3>5. g.inPad[i] = prog.ops[i].pad /\ prog.ops[i - 1].out = prog.ops[i].in
      BY <1>1, <2>2, <3>1, WriterIs
    <3> QED
      BY <1>2, <3>1, <3>4, <3>5 DEF InExtent, OutExtentOf
  <2>3. ASSUME g.isOutput[i]
        PROVE  nodes[i].extOut = Extent(OutShape(i), 0) /\ nodes[i].extOut <= dataBuff
    <3>1. OutPad(g, i) = 0
      BY <2>3 DEF OutPad
    <3>2. i \in OutsUpTo(prog, n)
      BY <1>1, <2>3, WriterIs DEF OutsUpTo, IsOut
    <3> QED
      BY <1>1, <1>2, <3>1, <3>2 DEF FinalInv, OutExtentOf, OutShape, Op
  <2> QED
    BY <2>1, <2>2, <2>3
<1> QED
  BY <1>1, <1>3

\* Whatever a list carries fits the device's blocks, and a frame is never missing nor
\* superfluous where one node reads in place what the node before it wrote.
THEOREM FramesAlwaysFit == Spec => []FramesFit
<1>1. BuilderInv => FramesFit
  BY FinalFits
<1> QED
  BY <1>1, InvHolds, PTL

LEMMA FinalKeepsTensors == BuilderInv => UserTensorsKept
<1> SUFFICES ASSUME BuilderInv, Finished
             PROVE  /\ din = TensorMem(Op(1).in)
                    /\ \A i \in 1 .. Len(prog.ops) :
                          Op(i).out \in prog.outputs =>
                              /\ i \in DOMAIN outputNodes /\ outputNodes[i] = TensorMem(Op(i).out)
                              /\ nodes[i].oa # TensorMem(Op(i).out)
  BY DEF UserTensorsKept
<1>1. IsProgram(prog) /\ FinalInv
  BY DEF BuilderInv
<1>2. din = TensorMem(Op(1).in)
  BY <1>1 DEF FinalInv, Op
<1>3. ASSUME NEW i \in 1 .. Count(prog), Op(i).out \in prog.outputs
      PROVE  /\ i \in DOMAIN outputNodes /\ outputNodes[i] = TensorMem(Op(i).out)
             /\ nodes[i].oa # TensorMem(Op(i).out)
  <2>1. i \in OutsUpTo(prog, Count(prog)) /\ IsOut(prog, i)
    BY <1>3 DEF OutsUpTo, IsOut, Op
  <2>2. i \in DOMAIN outputNodes /\ outputNodes[i] = TensorMem(Op(i).out)
    BY <1>1, <2>1 DEF FinalInv, OutsKept, Op
  <2>3. nodes[i].oa = <<"oa", i>>
    BY <1>1, <1>3, <2>1, FinalFields DEF FinalInv, DeviceMem
  <2> QED
    BY <2>2, <2>3 DEF TensorMem
<1> QED
  BY <1>2, <1>3 DEF Count

\* The memory the library copies from and to is that of the program's tensors, in every
\* finished graph, although its list no longer points there.
THEOREM UserTensorsAreKept == Spec => []UserTensorsKept
<1>1. BuilderInv => UserTensorsKept
  BY FinalKeepsTensors
<1> QED
  BY <1>1, InvHolds, PTL

LEMMA GoneByReaders == BuilderInv => DestructorGoesByReaders
<1> SUFFICES ASSUME BuilderInv, pc = "gone"
             PROVE  /\ foreign = {TensorMem(Op(i).out) :
                                  i \in {k \in 1 .. Len(prog.ops) :
                                            /\ Op(k).out \notin prog.outputs
                                            /\ RefCount(GraphOf(prog), k) = 0}}
                    /\ heap = {<<"oa", i>> : i \in {k \in 1 .. Len(prog.ops) :
                                                    /\ Op(k).out \in prog.outputs
                                                    /\ RefCount(GraphOf(prog), k) > 0}}
  BY DEF DestructorGoesByReaders
<1> DEFINE n == Count(prog)
<1>1. IsProgram(prog) /\ GoneInv /\ n \in Nat /\ n \in 0 .. n
  BY WriterIs DEF BuilderInv
<1>2. \A k \in 1 .. n : /\ Unread(prog, k) <=> RefCount(GraphOf(prog), k) = 0
                        /\ ~Unread(prog, k) <=> RefCount(GraphOf(prog), k) > 0
                        /\ ~(k > n)
  BY <1>1, RefsAreRefCount, RefsGrow DEF Unread
<1>3. foreign = {TensorMem(prog.ops[i].out) :
                 i \in {k \in 1 .. n : ~IsOut(prog, k) /\ RefCount(GraphOf(prog), k) = 0}}
  BY <1>1, <1>2 DEF GoneInv, Lost
<1>4. n + 1 .. n = {}
  BY <1>1
<1>5. heap = {<<"oa", i>> : i \in {k \in 1 .. n : IsOut(prog, k) /\ RefCount(GraphOf(prog), k) > 0}}
  BY <1>1, <1>2, <1>4 DEF GoneInv, Remains
<1> QED
  BY <1>3, <1>5, Zenon DEF Op, IsOut, Count

\* What ~Graph deletes that is not its own, and what it leaves behind, depends on the
\* reader counts alone, in every graph that was finished.
THEOREM TheDestructorGoesByReaders == Spec => []DestructorGoesByReaders
<1>1. BuilderInv => DestructorGoesByReaders
  BY GoneByReaders
<1> QED
  BY <1>1, InvHolds, PTL
=============================================================================
