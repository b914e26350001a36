--------------------------- MODULE SubgraphExec_proofs ---------------------------
(***************************************************************************)
(* Proofs about SubgraphExec, for every set of graphs, any number of calls *)
(* and every way the copies, the IP and the time-outs can go.              *)
(***************************************************************************)
EXTENDS SubgraphExec, FiniteSetTheorems, TLAPS

-----------------------------------------------------------------------------
(* Facts about device graphs.                                              *)

LEMMA NodesFinite ==
    ASSUME NEW g, IsGraph(g)
    PROVE  /\ IsFiniteSet(Nodes(g)) /\ Nodes(g) \in SUBSET Nat
           /\ g.len \in Nat /\ 1 \in Nodes(g) /\ g.len \in Nodes(g)
<1>1. g.len \in Nat /\ g.len # 0
  BY DEF IsGraph
<1>2. IsFiniteSet(1 .. g.len)
  BY <1>1, FS_Interval
<1>3. QED
  BY <1>1, <1>2 DEF Nodes

\* A reference counter is a natural number, and a node that is some node's
\* parent has been counted.
LEMMA RefCountFacts ==
    ASSUME NEW g, IsGraph(g), NEW i
    PROVE  /\ RefCount(g, i) \in Nat
           /\ \A j \in Nodes(g) : g.parent[j] = i => RefCount(g, i) >= 1
<1>1. IsFiniteSet(Nodes(g))
  BY NodesFinite
<1>2. Children(g, i) \in SUBSET Nodes(g)
  BY DEF Children
<1>3. IsFiniteSet(Children(g, i))
  BY <1>1, <1>2, FS_Subset
<1>4. Cardinality(Children(g, i)) \in Nat
  BY <1>3, FS_CardinalityType
<1>5. ASSUME NEW j \in Nodes(g), g.parent[j] = i
      PROVE  Cardinality(Children(g, i)) # 0
  <2>1. j \in Children(g, i)
    BY <1>5 DEF Children
  <2>2. QED
    BY <2>1, <1>3, FS_EmptySet
<1>6. QED
  BY <1>4, <1>5 DEF RefCount

\* A special node's block index is below the number of special nodes, and no
\* two special nodes have the same.
LEMMA DdrBlockFacts ==
    ASSUME NEW g, IsGraph(g), NEW i \in Nodes(g)
    PROVE  /\ DdrBlock(g, i) \in Nat
           /\ Special(g, i) => DdrBlock(g, i) < Cardinality(Specials(g))
           /\ \A j \in Nodes(g) :
                 j < i /\ Special(g, j) /\ Special(g, i) => DdrBlock(g, j) < DdrBlock(g, i)
<1>1. IsFiniteSet(Nodes(g)) /\ g.len \in Nat
  BY NodesFinite
<1>2. IsFiniteSet(Specials(g)) /\ Cardinality(Specials(g)) \in Nat
  BY <1>1, FS_Subset, FS_CardinalityType DEF Specials
<1>3. ASSUME NEW k \in Nodes(g)
      PROVE  /\ SpecialsBefore(g, k) \in SUBSET Specials(g)
             /\ IsFiniteSet(SpecialsBefore(g, k))
             /\ Cardinality(SpecialsBefore(g, k)) \in Nat
  <2>1. SpecialsBefore(g, k) \in SUBSET Specials(g)
    BY <1>1 DEF SpecialsBefore, Specials, Nodes
  <2>2. QED
    BY <2>1, <1>2, FS_Subset, FS_CardinalityType
<1>4. Special(g, i) => Cardinality(SpecialsBefore(g, i)) < Cardinality(Specials(g))
  <2> SUFFICES ASSUME Special(g, i)
               PROVE  Cardinality(SpecialsBefore(g, i)) < Cardinality(Specials(g))
    OBVIOUS
  <2>1. i \in Specials(g) /\ i \notin SpecialsBefore(g, i)
    BY <1>1 DEF Specials, SpecialsBefore, Nodes
  <2>2. /\ Cardinality(SpecialsBefore(g, i)) <= Cardinality(Specials(g))
        /\ Cardinality(SpecialsBefore(g, i)) # Cardinality(Specials(g))
    BY <1>2, <1>3, <2>1, FS_Subset
  <2>3. QED
    BY <2>2, <1>2, <1>3
<1>5. ASSUME NEW j \in Nodes(g), j < i, Special(g, j)
      PROVE  Cardinality(SpecialsBefore(g, j)) < Cardinality(SpecialsBefore(g, i))
  <2>1. /\ SpecialsBefore(g, j) \in SUBSET SpecialsBefore(g, i)
        /\ j \in SpecialsBefore(g, i) /\ j \notin SpecialsBefore(g, j)
    BY <1>1, <1>5 DEF SpecialsBefore, Nodes
  <2>2. /\ Cardinality(SpecialsBefore(g, j)) <= Cardinality(SpecialsBefore(g, i))
        /\ Cardinality(SpecialsBefore(g, j)) # Cardinality(SpecialsBefore(g, i))
    BY <1>3, <2>1, FS_Subset
  <2>3. QED
    BY <2>2, <1>3
<1>6. QED
  BY <1>3, <1>4, <1>5 DEF DdrBlock

\* WellRead is the greatest set it could be: a node that reads the right block,
\* framed right, and whose parent is well read is well read.
LEMMA WellReadFacts ==
    ASSUME NEW g, IsGraph(g)
    PROVE  /\ WellRead(g) \in SUBSET Nodes(g)
           /\ 1 \in WellRead(g) <=> SoftwareFrames(g.inPad[1])
           /\ \A i \in WellRead(g) : ~Misread(g, i) /\ (i # 1 => g.parent[i] \in WellRead(g))
           /\ \A i \in Nodes(g) : ~Misread(g, i) /\ g.parent[i] \in WellRead(g) => i \in WellRead(g)
<1> DEFINE Closed(S) == \A i \in S : ~Misread(g, i) /\ (i # 1 => g.parent[i] \in S)
<1>1. WellRead(g) = UNION {S \in SUBSET Nodes(g) : Closed(S)}
  BY DEF WellRead
<1>2. \A S \in SUBSET Nodes(g) : Closed(S) => S \in SUBSET WellRead(g)
  BY <1>1
<1>3. \A i \in WellRead(g) : \E S \in SUBSET Nodes(g) : Closed(S) /\ i \in S
  BY <1>1
<1>4. {1} \in SUBSET Nodes(g) /\ (SoftwareFrames(g.inPad[1]) => Closed({1}))
  BY NodesFinite DEF Misread, Misframed
<1>5. WellRead(g) \in SUBSET Nodes(g) /\ Closed(WellRead(g))
  BY <1>2, <1>3
<1>6. 1 \in WellRead(g) => SoftwareFrames(g.inPad[1])
  BY <1>5 DEF Misread, Misframed
<1>7. ASSUME NEW i \in Nodes(g), ~Misread(g, i), g.parent[i] \in WellRead(g)
      PROVE  i \in WellRead(g)
  <2>1. Closed(WellRead(g) \cup {i}) /\ WellRead(g) \cup {i} \in SUBSET Nodes(g)
    BY <1>5, <1>7
  <2>2. QED
    BY <1>2, <2>1
<1>8. QED
  BY <1>2, <1>4, <1>5, <1>7, <1>6

\* The graphs whose shared outputs have blocks that nothing else is put in.
Fits(g) == ~Special(g, 1) /\ Cardinality(Specials(g)) <= PadBase

\* In a supported graph every node is well read.
LEMMA SupportedWellRead ==
    ASSUME NEW g, IsGraph(g), Supported(g)
    PROVE  Fits(g) /\ WellRead(g) = Nodes(g)
<1>1. \A i \in Nodes(g) : ~Misread(g, i)
  BY DEF Supported, Misread
<1>2. \A i \in Nodes(g) : i # 1 => g.parent[i] \in Nodes(g)
  BY NodesFinite DEF IsGraph, Nodes
<1>3. Nodes(g) \in SUBSET WellRead(g)
  BY <1>1, <1>2 DEF WellRead
<1>4. QED
  BY <1>3, WellReadFacts DEF Supported, Fits

-----------------------------------------------------------------------------
(* Facts about blocks and their contents.                                  *)

\* The blocks of the driver, and that no two of them are the same.
LEMMA BlockFacts ==
    /\ Im \in Blocks
    /\ \A f \in 0 .. 1 : Bs(f) \in Blocks /\ Km(f) \in Blocks /\ Pm(f) \in Blocks
    /\ \A o \in 0 .. 2 : Om(o) \in Blocks
    /\ \A k \in 0 .. (NumExtra - 1) : Extra(k) \in Blocks
BY DEF Im, Bs, Km, Pm, Om, Extra, Blocks

LEMMA BlocksDiffer ==
    /\ \A f : Im # Bs(f) /\ Im # Km(f) /\ Im # Pm(f) /\ Im # Om(f) /\ Im # Extra(f)
    /\ \A f, k : /\ Bs(f) # Km(k) /\ Bs(f) # Pm(k) /\ Bs(f) # Om(k) /\ Bs(f) # Extra(k)
                 /\ Km(f) # Pm(k) /\ Km(f) # Om(k) /\ Km(f) # Extra(k)
                 /\ Pm(f) # Om(k) /\ Pm(f) # Extra(k)
                 /\ Om(f) # Extra(k)
    /\ \A f, k : f # k => /\ Bs(f) # Bs(k) /\ Km(f) # Km(k) /\ Pm(f) # Pm(k)
                          /\ Om(f) # Om(k) /\ Extra(f) # Extra(k)
BY DEF Im, Bs, Km, Pm, Om, Extra

\* Constructors of contents are typed and recognised by their kind.
LEMMA ContentFacts ==
    /\ Junk \in Contents /\ Zero \in Contents
    /\ \A g \in Graphs, i \in Nat :
          /\ Setting("bs", g, i) \in Contents
          /\ Setting("km", g, i) \in Contents
          /\ Setting("pm", g, i) \in Contents
    /\ \A g \in Graphs, c \in Nat, i \in Nat, p \in Nat : Tensor(g, c, i, p) \in Contents
BY DEF Junk, Zero, Contents, Setting, Tensor

LEMMA ContentKinds ==
    ASSUME NEW x \in Contents
    PROVE  /\ x.kind = "pm" => x.graph \in Graphs /\ x.node \in Nat
           /\ x.kind = "tensor" =>
                 /\ x.graph \in Graphs /\ x.call \in Nat /\ x.node \in Nat /\ x.pad \in Nat
                 /\ x = Tensor(x.graph, x.call, x.node, x.pad)
<1>1. CASE x \in {Junk, Zero}
  BY <1>1 DEF Junk, Zero
<1>2. CASE x \in [kind : {"bs", "km", "pm"}, graph : Graphs, node : Nat]
  BY <1>2
<1>3. CASE x \in [kind : {"tensor"}, graph : Graphs, call : Nat, node : Nat, pad : Nat]
  BY <1>3 DEF Tensor
<1>4. QED
  BY <1>1, <1>2, <1>3 DEF Contents

\* The block a node is told to write exists.
LEMMA OutBlockFacts ==
    ASSUME NEW g \in Graphs, NEW i \in Nodes(g), NEW o \in 0 .. 2
    PROVE  /\ OutBlock(g, i, o) \in Blocks
           /\ OutBlock(g, i, o) \notin {Pm(0), Pm(1)}
           /\ Special(g, i) => Extra(DdrBlock(g, i)) \in Blocks
<1>1. IsGraph(g) /\ Cardinality(Specials(g)) <= NumExtra
  BY GraphsAssumption
<1>2. Cardinality(Specials(g)) \in Nat /\ NumExtra \in Nat
  BY <1>1, NodesFinite, FS_Subset, FS_CardinalityType, ExtraAssumption DEF Specials
<1>3. Special(g, i) => DdrBlock(g, i) \in 0 .. (NumExtra - 1)
  BY <1>1, <1>2, DdrBlockFacts
<1>4. QED
  BY <1>3, BlockFacts, BlocksDiffer DEF OutBlock

LEMMA OutPadType ==
    ASSUME NEW g \in Graphs, NEW i \in Nat
    PROVE  OutPad(g, i) \in Nat
<1>1. g.len \in Nat /\ g.inPad \in [Nodes(g) -> Nat]
  BY GraphsAssumption, NodesFinite DEF IsGraph
<1>2. i < g.len => i + 1 \in Nodes(g)
  BY <1>1 DEF Nodes
<1>3. QED
  BY <1>1, <1>2 DEF OutPad

\* The result of a run is a content, whatever the registers point to.
LEMMA ResultType ==
    ASSUME NEW m \in [Blocks -> Contents], NEW r \in Registers
    PROVE  Result(m, r) \in Contents
<1> DEFINE p == m[r.param]
           x == m[r.in]
<1>1. p \in Contents /\ x \in Contents
  BY DEF Registers
<1>2. ASSUME p.kind = "pm", x.kind = "tensor"
      PROVE  Tensor(p.graph, x.call, p.node, OutPad(p.graph, p.node)) \in Contents
  <2>1. p.graph \in Graphs /\ p.node \in Nat /\ x.call \in Nat
    BY <1>1, <1>2, ContentKinds
  <2>2. QED
    BY <2>1, OutPadType, ContentFacts
<1>3. QED
  BY <1>2, ContentFacts DEF Result

-----------------------------------------------------------------------------
(* The inductive invariant: types, control, and the data of a carried call. *)

Walking == pc \notin {"idle", "copyHead", "programHead"}

\* Where the walk is: the static copies of nodes and parameters are those of
\* the current node and its successor when they are read.
ControlInv ==
    /\ pc \in {"copyHead", "programHead"} => flag = 0 /\ outFlag = 0
    /\ pc = "programHead" => convParam = 1
    /\ Walking => curNode \in Nodes(graph) /\ convParam = curNode
    /\ pc = "copyNext" => curNode < graph.len
    /\ pc = "programNext" => curNode < graph.len
    /\ pc \in {"programNext", "copyOut", "advance"} /\ curNode < graph.len =>
          nextNode = curNode + 1 /\ nextNode \in Nodes(graph) /\ convNextParam = nextNode
    /\ pc = "programNext" =>
          /\ parentNode = graph.parent[nextNode]
          /\ mem[Pm(1 - flag)] = Setting("pm", graph, nextNode)
    /\ ip.job.out \notin {Pm(0), Pm(1)} /\ regs.out \notin {Pm(0), Pm(1)}

SettingsLoaded(i, f) ==
    /\ mem[Bs(f)] = Setting("bs", graph, i)
    /\ mem[Km(f)] = Setting("km", graph, i)
    /\ mem[Pm(f)] = Setting("pm", graph, i)

\* Registers and blocks are ready for a run of node i with parameter bank f and
\* output block o of omblk[].
Armed(i, f, o) ==
    /\ SettingsLoaded(i, f)
    /\ regs.scale = Bs(f) /\ regs.weight = Km(f) /\ regs.param = Pm(f)
    /\ regs.out = OutBlock(graph, i, o)
    /\ i \in WellRead(graph) =>
          mem[regs.in] = Tensor(graph, call, graph.parent[i], graph.inPad[i])
    /\ mem[Om(o)] = Zero

Computed(i, o) ==
    i \in WellRead(graph) =>
        mem[OutBlock(graph, i, o)] = Tensor(graph, call, i, OutPad(graph, i))

Kept(n) ==
    \A j \in Specials(graph) \cap WellRead(graph) :
        j <= n => mem[Extra(DdrBlock(graph, j))] = Right(j)

Given(n) ==
    \A j \in Outputs(graph) \cap WellRead(graph) : j <= n => oa[j] = Right(j)

\* The calls that found the IP at rest, with a graph whose shared outputs fit.
Carried == Fits(graph) /\ ~late

\* The data of such a call: all of it is right for the well-read nodes.
DataInv ==
    /\ pc # "wait" => ~ip.busy
    /\ ip.busy => ip.job = regs /\ ~ip.torn
    /\ pc = "programHead" =>
          /\ SettingsLoaded(1, 0)
          /\ 1 \in WellRead(graph) => mem[Im] = Tensor(graph, call, 0, graph.inPad[1])
    /\ pc \in {"start", "wait"} => Kept(curNode - 1)
    /\ pc = "start" => Armed(curNode, flag, outFlag)
    /\ pc = "wait" => IF ip.busy THEN Armed(curNode, flag, outFlag)
                                 ELSE Computed(curNode, outFlag)
    /\ pc \in {"copyNext", "programNext", "copyOut"} => Computed(curNode, outFlag)
    /\ pc \in {"copyNext", "programNext", "copyOut", "advance"} => Kept(curNode)
    /\ pc = "programNext" =>
          SettingsLoaded(nextNode, 1 - flag) /\ mem[Om(NextOut)] = Zero
    /\ pc \in {"copyOut", "advance"} /\ curNode < graph.len =>
          Armed(curNode + 1, 1 - flag, NextOut)
    /\ Walking => Given(IF pc = "advance" THEN curNode ELSE curNode - 1)

WellReadRight ==
    pc = "idle" /\ call > 0 /\ ret = "ok" /\ Carried =>
        \A i \in Outputs(graph) \cap WellRead(graph) : oa[i] = Right(i)

SafeInv ==
    /\ pc # "idle" /\ Carried => DataInv
    /\ WellReadRight

IInv == TypeOK /\ ControlInv /\ SafeInv

-----------------------------------------------------------------------------
(* What the copies into the blocks leave in memory.                        *)

Sources == {Im} \cup {Bs(f) : f \in 0 .. 1} \cup {Km(f) : f \in 0 .. 1}
                \cup {Pm(f) : f \in 0 .. 1}

LEMMA ImageFacts ==
    ASSUME TypeOK, NEW i \in Nodes(graph)
    PROVE  /\ \A b \in Sources : Image(i, b) \in Contents
           /\ SoftwareFrames(graph.inPad[i]) =>
                 Image(i, Im) = Tensor(graph, call, graph.parent[i], graph.inPad[i])
           /\ \A f : /\ Image(i, Bs(f)) = Setting("bs", graph, i)
                     /\ Image(i, Km(f)) = Setting("km", graph, i)
                     /\ Image(i, Pm(f)) = Setting("pm", graph, i)
<1>1. /\ graph \in Graphs /\ call \in Nat /\ i \in Nat
      /\ graph.parent[i] \in Nat /\ graph.inPad[i] \in Nat
  BY GraphsAssumption, NodesFinite DEF TypeOK, IsGraph
<1>2. Image(i, Im) = IF SoftwareFrames(graph.inPad[i])
                     THEN Tensor(graph, call, graph.parent[i], graph.inPad[i]) ELSE Junk
  BY DEF Image
<1>3. \A f : /\ Image(i, Bs(f)) = Setting("bs", graph, i)
             /\ Image(i, Km(f)) = Setting("km", graph, i)
             /\ Image(i, Pm(f)) = Setting("pm", graph, i)
  BY BlocksDiffer DEF Image, Bs, Km, Pm
<1>4. QED
  BY <1>1, <1>2, <1>3, ContentFacts DEF Sources

LEMMA LoadedFacts ==
    ASSUME TypeOK, NEW i \in Nodes(graph), NEW order, NEW n,
           \A k \in 1 .. n : order[k] \in Sources
    PROVE  /\ Loaded(order, n, i) \in [Blocks -> Contents]
           /\ LoadFailed(order, n, i) \in [Blocks -> Contents]
           /\ \A k \in 1 .. n : order[k] \in Blocks =>
                 Loaded(order, n, i)[order[k]] = Image(i, order[k])
           /\ \A b \in Blocks : (\A k \in 1 .. n : order[k] # b) =>
                 Loaded(order, n, i)[b] = mem[b]
<1>1. Loaded(order, n, i) \in [Blocks -> Contents]
  BY ImageFacts DEF TypeOK, Loaded
<1>2. LoadFailed(order, n, i) \in [Blocks -> Contents]
  BY <1>1, ContentFacts DEF LoadFailed
<1>3. QED
  BY <1>1, <1>2 DEF Loaded

LEMMA HeadLoadedFacts ==
    ASSUME TypeOK
    PROVE  /\ \A n \in 0 .. 3 : LoadFailed(HeadOrder, n, 1) \in [Blocks -> Contents]
           /\ Loaded(HeadOrder, 4, 1) \in [Blocks -> Contents]
           /\ 1 \in WellRead(graph) =>
                 Loaded(HeadOrder, 4, 1)[Im] = Tensor(graph, call, 0, graph.inPad[1])
           /\ Loaded(HeadOrder, 4, 1)[Bs(0)] = Setting("bs", graph, 1)
           /\ Loaded(HeadOrder, 4, 1)[Km(0)] = Setting("km", graph, 1)
           /\ Loaded(HeadOrder, 4, 1)[Pm(0)] = Setting("pm", graph, 1)
<1>1. /\ 1 \in Nodes(graph) /\ graph.parent[1] = 0
      /\ 1 \in WellRead(graph) => SoftwareFrames(graph.inPad[1])
  BY GraphsAssumption, NodesFinite, WellReadFacts DEF TypeOK, IsGraph
<1>2. /\ HeadOrder[1] = Bs(0) /\ HeadOrder[2] = Im
      /\ HeadOrder[3] = Km(0) /\ HeadOrder[4] = Pm(0)
  BY DEF HeadOrder
<1>3. \A k \in 1 .. 4 : HeadOrder[k] \in Sources
  BY <1>2 DEF Sources
<1>4. \A n \in 0 .. 3 : LoadFailed(HeadOrder, n, 1) \in [Blocks -> Contents]
  BY <1>1, <1>3, LoadedFacts
<1>5. /\ Loaded(HeadOrder, 4, 1) \in [Blocks -> Contents]
      /\ \A k \in 1 .. 4 : HeadOrder[k] \in Blocks =>
            Loaded(HeadOrder, 4, 1)[HeadOrder[k]] = Image(1, HeadOrder[k])
  BY <1>1, <1>3, LoadedFacts
<1>6. QED
  BY <1>1, <1>2, <1>4, <1>5, BlockFacts, ImageFacts

LEMMA NextLoadedFacts ==
    ASSUME TypeOK, NEW i \in Nodes(graph)
    PROVE  /\ \A n \in 0 .. 2 : LoadFailed(NextOrder, n, i) \in [Blocks -> Contents]
           /\ NextLoaded(i) \in [Blocks -> Contents]
           /\ NextLoaded(i)[Bs(1 - flag)] = Setting("bs", graph, i)
           /\ NextLoaded(i)[Km(1 - flag)] = Setting("km", graph, i)
           /\ NextLoaded(i)[Pm(1 - flag)] = Setting("pm", graph, i)
           /\ NextLoaded(i)[Om(NextOut)] = Zero
           /\ \A b \in Blocks \ {Bs(1 - flag), Km(1 - flag), Pm(1 - flag), Om(NextOut)} :
                 NextLoaded(i)[b] = mem[b]
<1>1. 1 - flag \in 0 .. 1 /\ NextOut \in 0 .. 2
  BY DEF TypeOK, NextOut
<1>2. NextOrder[1] = Bs(1 - flag) /\ NextOrder[2] = Km(1 - flag) /\ NextOrder[3] = Pm(1 - flag)
  BY DEF NextOrder
<1>3. \A k \in 1 .. 3 : NextOrder[k] \in Sources
  BY <1>1, <1>2 DEF Sources
<1>4. \A n \in 0 .. 2 : LoadFailed(NextOrder, n, i) \in [Blocks -> Contents]
  BY <1>3, LoadedFacts
<1> DEFINE m == Loaded(NextOrder, 3, i)
<1>5. /\ m \in [Blocks -> Contents]
      /\ \A k \in 1 .. 3 : NextOrder[k] \in Blocks => m[NextOrder[k]] = Image(i, NextOrder[k])
      /\ \A b \in Blocks : (\A k \in 1 .. 3 : NextOrder[k] # b) => m[b] = mem[b]
  BY <1>3, LoadedFacts
<1>6. /\ m[Bs(1 - flag)] = Setting("bs", graph, i)
      /\ m[Km(1 - flag)] = Setting("km", graph, i)
      /\ m[Pm(1 - flag)] = Setting("pm", graph, i)
  BY <1>1, <1>2, <1>5, BlockFacts, ImageFacts
<1>7. \A b \in Blocks \ {Bs(1 - flag), Km(1 - flag), Pm(1 - flag)} : m[b] = mem[b]
  <2> SUFFICES ASSUME NEW b \in Blocks \ {Bs(1 - flag), Km(1 - flag), Pm(1 - flag)}
               PROVE  m[b] = mem[b]
    OBVIOUS
  <2>1. \A k \in 1 .. 3 : k = 1 \/ k = 2 \/ k = 3
    OBVIOUS
  <2>2. \A k \in 1 .. 3 : NextOrder[k] # b
    BY <1>2, <2>1
  <2>3. QED
    BY <1>5, <2>2
<1>8. /\ Om(NextOut) \in Blocks
      /\ Om(NextOut) # Bs(1 - flag) /\ Om(NextOut) # Km(1 - flag) /\ Om(NextOut) # Pm(1 - flag)
  BY <1>1, BlockFacts, BlocksDiffer
<1>9. NextLoaded(i) = [m EXCEPT ![Om(NextOut)] = Zero]
  BY DEF NextLoaded
<1> HIDE DEF m
<1>10. QED
  BY <1>1, <1>4, <1>5, <1>6, <1>7, <1>8, <1>9, BlockFacts, ContentFacts

-----------------------------------------------------------------------------
(* Type correctness and control.                                           *)

LEMMA GraphTypes ==
    ASSUME graph \in Graphs
    PROVE  /\ IsGraph(graph) /\ graph.len \in Nat /\ 1 \in Nodes(graph)
           /\ Nodes(graph) = 1 .. graph.len /\ Nodes(graph) \in SUBSET Nat
           /\ \A i \in Nodes(graph) : /\ graph.parent[i] \in Nat /\ graph.inPad[i] \in Nat
                                      /\ i # 1 => graph.parent[i] \in 1 .. (i - 1)
           /\ graph.parent[1] = 0
BY GraphsAssumption, NodesFinite DEF IsGraph, Nodes

LEMMA InitInv == Init => TypeOK /\ ControlInv
<1> SUFFICES ASSUME Init PROVE TypeOK /\ ControlInv
  OBVIOUS
<1>1. graph \in Graphs
  BY GraphsAssumption DEF Init
<1>2. mem \in [Blocks -> Contents] /\ oa \in [Nodes(graph) -> Contents]
  BY ContentFacts DEF Init
<1>3. NoRegs \in Registers /\ NoRegs.out = Om(0)
  BY BlockFacts DEF NoRegs, Registers
<1>4. TypeOK
  <2>1. call \in 0 .. MaxCalls
    BY GraphsAssumption DEF Init
  <2>2. ip = [busy |-> FALSE, job |-> NoRegs, torn |-> FALSE] /\ NoRegs \in Registers
    BY <1>3 DEF Init
  <2>3. ip \in [busy : BOOLEAN, job : Registers, torn : BOOLEAN]
    BY <2>2
  <2>4. late \in BOOLEAN
    BY Zenon DEF Init
  <2>5. /\ pc \in PCs /\ ret \in {"ok", "EFAULT", "ETIMEDOUT"}
        /\ regs \in Registers
        /\ curNode \in Nat /\ nextNode \in Nat /\ parentNode \in Nat
        /\ convParam \in Nat /\ convNextParam \in Nat
        /\ flag \in 0 .. 1 /\ outFlag \in 0 .. 2 /\ buffFlag \in 0 .. 1
    BY <1>3 DEF Init, PCs
  <2>6. QED
    BY <1>1, <1>2, <2>1, <2>5, <2>3, <2>4 DEF TypeOK
<1>5. ControlInv
  BY <1>3, BlocksDiffer DEF Init, ControlInv, Walking
<1>6. QED
  BY <1>4, <1>5

\* The walk's position and the static copies stay in step with each other.
LEMMA ControlNext == TypeOK /\ ControlInv /\ [Next]_vars => TypeOK' /\ ControlInv'
<1> SUFFICES ASSUME TypeOK, ControlInv, [Next]_vars
             PROVE  TypeOK' /\ ControlInv'
  OBVIOUS
<1>1. graph \in Graphs
  BY DEF TypeOK
<1> USE GraphTypes
<1>2. ASSUME NEW g \in Graphs, Call(g)
      PROVE  TypeOK' /\ ControlInv'
  <2>1. oa' \in [Nodes(g) -> Contents]
    BY <1>2, ContentFacts DEF Call, TypeOK
  <2>2. ip' \in [busy : BOOLEAN, job : Registers, torn : BOOLEAN] /\ ip'.job = ip.job
    BY <1>2 DEF Call, TypeOK
  <2>3. TypeOK'
    BY <1>2, <2>1, <2>2, GraphsAssumption DEF Call, TypeOK, PCs, statics
  <2>4. QED
    BY <1>2, <2>2, <2>3 DEF Call, ControlInv, Walking, statics
<1>3. CASE CopyHead
  BY <1>3, <1>1, HeadLoadedFacts DEF CopyHead, TypeOK, PCs, ControlInv, Walking, banks
<1>4. CASE CopyHeadFails
  <2>1. mem' \in [Blocks -> Contents] /\ convParam' \in Nat
    BY <1>4, HeadLoadedFacts DEF CopyHeadFails, TypeOK
  <2>2. QED
    BY <1>4, <1>1, <2>1 DEF CopyHeadFails, Return, TypeOK, PCs, ControlInv, Walking, banks
<1>5. CASE ProgramHead
  <2>1. mem' \in [Blocks -> Contents]
    BY <1>5, ContentFacts DEF ProgramHead, TypeOK
  <2>2. regs' \in Registers /\ regs'.out = Om(0)
    BY <1>5, BlockFacts DEF ProgramHead, Registers, HeadOut
  <2>3. TypeOK'
    BY <1>5, <1>1, <2>1, <2>2 DEF ProgramHead, TypeOK, PCs, banks
  <2>4. QED
    BY <1>5, <1>1, <2>2, <2>3, BlocksDiffer DEF ProgramHead, ControlInv, Walking, banks
<1>6. CASE Start
  <2>1. /\ ip' \in [busy : BOOLEAN, job : Registers, torn : BOOLEAN]
        /\ ip'.job \in {ip.job, regs}
    <3>1. ip' = ip \/ ip' = [busy |-> TRUE, job |-> regs, torn |-> FALSE]
      BY <1>6 DEF Start
    <3>2. /\ regs \in Registers
          /\ ip \in [busy : BOOLEAN, job : Registers, torn : BOOLEAN]
      BY DEF TypeOK
    <3>3. [busy |-> TRUE, job |-> regs, torn |-> FALSE]
             \in [busy : BOOLEAN, job : Registers, torn : BOOLEAN]
      BY <3>2
    <3>4. ip' \in [busy : BOOLEAN, job : Registers, torn : BOOLEAN]
      BY <3>1, <3>2, <3>3, Zenon
    <3>5. ip'.job \in {ip.job, regs}
      BY <3>1
    <3>6. QED
      BY <3>4, <3>5
  <2>2. QED
    BY <1>6, <1>1, <2>1 DEF Start, TypeOK, PCs, ControlInv, Walking, statics, banks
<1>7. CASE IpFinish
  <2>1. Result(mem, ip.job) \in Contents /\ Junk \in Contents
    BY ResultType, ContentFacts DEF TypeOK
  <2>2. PICK x \in Contents : mem' = [mem EXCEPT ![ip.job.out] = x]
    BY <1>7, <2>1 DEF IpFinish
  <2>3. mem' \in [Blocks -> Contents]
    BY <2>2 DEF TypeOK
  <2>4. /\ ip' \in [busy : BOOLEAN, job : Registers, torn : BOOLEAN]
        /\ ip'.job = ip.job
    BY <1>7 DEF IpFinish, TypeOK
  <2>5. TypeOK'
    BY <1>7, <2>3, <2>4 DEF IpFinish, TypeOK, statics, banks
  <2>6. mem'[Pm(1 - flag)] = mem[Pm(1 - flag)]
    <3>1. 1 - flag \in 0 .. 1
      BY DEF TypeOK
    <3>2. Pm(1 - flag) \in Blocks /\ Pm(1 - flag) \in {Pm(0), Pm(1)}
      BY <3>1, BlockFacts
    <3>3. QED
      BY <2>2, <3>2 DEF TypeOK, ControlInv
  <2>7. QED
    BY <1>7, <2>4, <2>5, <2>6 DEF IpFinish, ControlInv, Walking, statics, banks
<1>8. CASE WaitDone
  BY <1>8, <1>1 DEF WaitDone, TypeOK, PCs, ControlInv, Walking, statics, banks
<1>9. CASE WaitTimeout
  BY <1>9 DEF WaitTimeout, Return, TypeOK, PCs, ControlInv, Walking, statics, banks
<1>10. CASE CopyNext
  <2>1. curNode + 1 \in Nodes(graph)
    BY <1>10, <1>1 DEF CopyNext, ControlInv, Walking
  <2>2. graph.parent[curNode + 1] \in Nat /\ graph.parent[curNode + 1] # 0
    BY <2>1, <1>1, <1>10 DEF CopyNext, ControlInv, Walking
  <2>3. TypeOK'
    BY <1>10, <1>1, <2>1, <2>2, NextLoadedFacts DEF CopyNext, TypeOK, PCs, banks
  <2>4. QED
    BY <1>10, <2>1, <2>2, <2>3, NextLoadedFacts DEF CopyNext, ControlInv, Walking, banks
<1>11. CASE CopyNextFails
  <2>1. curNode + 1 \in Nodes(graph)
    BY <1>11, <1>1 DEF CopyNextFails, ControlInv, Walking
  <2>2. mem' \in [Blocks -> Contents] /\ nextNode' \in Nat /\ convNextParam' \in Nat
    BY <1>11, <1>1, <2>1, NextLoadedFacts DEF CopyNextFails, TypeOK
  <2>3. QED
    BY <1>11, <2>2 DEF CopyNextFails, Return, TypeOK, PCs, ControlInv, Walking, banks
<1>12. CASE ProgramNext
  <2>1. /\ nextNode \in Nodes(graph) /\ parentNode \in Nodes(graph)
        /\ mem[Pm(1 - flag)].node = nextNode
    BY <1>12, <1>1 DEF ProgramNext, ControlInv, Walking, Setting
  <2>2. 1 - flag \in 0 .. 1 /\ NextOut \in 0 .. 2
    BY DEF TypeOK, NextOut
  <2>3. /\ OutBlock(graph, nextNode, NextOut) \in Blocks
        /\ OutBlock(graph, nextNode, NextOut) \notin {Pm(0), Pm(1)}
        /\ Special(graph, parentNode) => Extra(DdrBlock(graph, parentNode)) \in Blocks
    BY <1>1, <2>1, <2>2, OutBlockFacts
  <2>4. Extra(PadBase + buffFlag) \in Blocks /\ Om(outFlag) \in Blocks
    BY BlockFacts, ExtraAssumption DEF TypeOK
  <2>5. regs' \in Registers /\ regs'.out \notin {Pm(0), Pm(1)}
    BY <1>12, <2>2, <2>3, <2>4, BlockFacts DEF ProgramNext, Registers
  <2>6. mem' \in [Blocks -> Contents]
    <3>1. \A x \in Contents, p \in Nat : AddPad(x, p) \in Contents
      BY ContentKinds, ContentFacts DEF AddPad, Tensor
    <3>2. graph.inPad[nextNode] \in Nat
      BY <1>1, <2>1
    <3>3. QED
      BY <1>12, <2>1, <2>3, <3>1, <3>2, ContentFacts DEF ProgramNext, TypeOK
  <2>7. buffFlag' \in 0 .. 1
    BY <1>12 DEF ProgramNext, TypeOK
  <2>8. TypeOK'
    BY <1>12, <2>5, <2>6, <2>7 DEF ProgramNext, TypeOK, PCs, statics
  <2>9. QED
    BY <1>12, <2>5, <2>8 DEF ProgramNext, ControlInv, Walking, statics
<1>13. CASE CopyOut
  <2>1. curNode \in Nodes(graph)
    BY <1>13 DEF CopyOut, ControlInv, Walking
  <2>2. RefCount(graph, curNode) \in Nat
    BY <1>1, RefCountFacts
  <2>3. graph.isOutput[curNode] => OutputSource \in Blocks
    <3>1. graph.isOutput[curNode] /\ RefCount(graph, curNode) # 0 => Special(graph, curNode)
      BY <2>2 DEF Special
    <3>2. QED
      BY <3>1, <1>1, <2>1, OutBlockFacts, BlockFacts DEF OutputSource, TypeOK
  <2>4. oa' \in [Nodes(graph) -> Contents]
    BY <1>13, <2>3 DEF CopyOut, TypeOK
  <2>5. QED
    BY <1>13, <2>4 DEF CopyOut, TypeOK, PCs, ControlInv, Walking, statics, banks
<1>14. CASE CopyOutFails
  BY <1>14, ContentFacts DEF CopyOutFails, Return, TypeOK, PCs, ControlInv, Walking, statics, banks
<1>15. CASE Advance
  <2>1. /\ convNextParam \in Nat /\ nextNode \in Nat /\ NextOut \in 0 .. 2
        /\ 1 - flag \in 0 .. 1
    BY DEF TypeOK, NextOut
  <2>2. TypeOK'
    BY <1>15, <2>1 DEF Advance, Return, SwapBanks, TypeOK, PCs
  <2>3. ControlInv'
    BY <1>15, <1>1 DEF Advance, Return, SwapBanks, ControlInv, Walking
  <2>4. QED
    BY <2>2, <2>3
<1>16. CASE UNCHANGED vars
  BY <1>16 DEF vars, statics, banks, TypeOK, ControlInv, Walking
<1>17. QED
  BY <1>2, <1>3, <1>4, <1>5, <1>6, <1>7, <1>8, <1>9, <1>10, <1>11, <1>12, <1>13,
     <1>14, <1>15, <1>16 DEF Next, DriverStep

\* Every state of every behaviour is well typed: in particular the registers
\* hold the addresses of the driver's own blocks and nothing else, whatever the
\* graphs, the failures and the state an abandoned run left behind.
THEOREM TypeCorrect == Spec => []TypeOK
<1>1. Init => TypeOK /\ ControlInv
  BY InitInv
<1>2. TypeOK /\ ControlInv /\ [Next]_vars => TypeOK' /\ ControlInv'
  BY ControlNext
<1>3. QED
  BY <1>1, <1>2, PTL DEF Spec

-----------------------------------------------------------------------------
(* The data of a carried call.                                             *)

\* In a supported graph every special node has a block below the padding
\* buffers, shared with no other node.
LEMMA SpecialBlocks ==
    ASSUME graph \in Graphs, Fits(graph), NEW j \in Specials(graph)
    PROVE  /\ j \in Nodes(graph) /\ Special(graph, j) /\ j # 1
           /\ DdrBlock(graph, j) \in 0 .. (PadBase - 1)
           /\ Extra(DdrBlock(graph, j)) \in Blocks
           /\ \A k \in Specials(graph) : k # j => DdrBlock(graph, k) # DdrBlock(graph, j)
<1>1. /\ IsGraph(graph) /\ j \in Nodes(graph) /\ Special(graph, j)
      /\ Nodes(graph) \in SUBSET Nat
  BY GraphTypes DEF Specials
<1>2. /\ DdrBlock(graph, j) \in Nat
      /\ DdrBlock(graph, j) < Cardinality(Specials(graph))
  BY <1>1, DdrBlockFacts
<1>3. Cardinality(Specials(graph)) \in Nat /\ Cardinality(Specials(graph)) <= PadBase
  BY <1>1, NodesFinite, FS_Subset, FS_CardinalityType DEF Specials, Fits
<1>4. DdrBlock(graph, j) \in 0 .. (PadBase - 1)
  BY <1>2, <1>3, ExtraAssumption
<1>5. ASSUME NEW k \in Specials(graph), k # j
      PROVE  DdrBlock(graph, k) # DdrBlock(graph, j)
  <2>1. k \in Nodes(graph) /\ Special(graph, k)
    BY DEF Specials
  <2>2. DdrBlock(graph, k) \in Nat
    BY <1>1, <2>1, DdrBlockFacts
  <2>3. k < j \/ j < k
    BY <1>1, <1>5, <2>1
  <2>4. CASE k < j
    BY <2>4, <1>1, <1>2, <2>1, <2>2, DdrBlockFacts
  <2>5. CASE j < k
    BY <2>5, <1>1, <1>2, <2>1, <2>2, DdrBlockFacts
  <2>6. QED
    BY <2>3, <2>4, <2>5
<1>6. Extra(DdrBlock(graph, j)) \in Blocks
  BY <1>4, BlockFacts, ExtraAssumption
<1>7. QED
  BY <1>1, <1>4, <1>5, <1>6 DEF Fits

\* The frame of a node's output: none for a special node, a leaf or an output;
\* for any other node of a supported graph, what its one reader wants, which
\* is the next node of the list.
LEMMA OutPadFacts ==
    ASSUME graph \in Graphs, Fits(graph), NEW i \in Nodes(graph)
    PROVE  /\ Special(graph, i) => OutPad(graph, i) = 0
           /\ graph.isOutput[i] => OutPad(graph, i) = 0
           /\ \A j \in WellRead(graph) : j # 1 /\ graph.parent[j] = i /\ ~Special(graph, i) =>
                 i = j - 1 /\ OutPad(graph, i) = graph.inPad[j]
<1>1. RefCount(graph, i) \in Nat
  BY GraphTypes, RefCountFacts
<1>2. ASSUME NEW j \in WellRead(graph), j # 1, graph.parent[j] = i, ~Special(graph, i)
      PROVE  i = j - 1 /\ OutPad(graph, i) = graph.inPad[j]
  <2>1. j \in Nodes(graph)
    BY GraphTypes, WellReadFacts
  <2>2. i = j - 1
    BY <1>2, GraphTypes, WellReadFacts DEF Misread
  <2>3. RefCount(graph, i) >= 1
    BY <1>2, <2>1, GraphTypes, RefCountFacts
  <2>4. RefCount(graph, i) = 1 /\ ~graph.isOutput[i]
    BY <1>1, <1>2, <2>3 DEF Special
  <2>5. i < graph.len /\ i + 1 = j
    BY <2>1, <2>2, GraphTypes
  <2>6. QED
    BY <2>2, <2>4, <2>5 DEF OutPad
<1>3. QED
  BY <1>1, <1>2 DEF OutPad, Special

\* A run with everything in place computes its node's tensor.
LEMMA ResultRight ==
    ASSUME TypeOK, Fits(graph), NEW i \in Nodes(graph), i \in WellRead(graph),
           NEW f, NEW o, Armed(i, f, o)
    PROVE  Result(mem, regs) = Tensor(graph, call, i, OutPad(graph, i))
<1>1. graph \in Graphs
  BY DEF TypeOK
<1>2. /\ mem[regs.param] = Setting("pm", graph, i)
      /\ mem[regs.weight] = Setting("km", graph, i)
      /\ mem[regs.scale] = Setting("bs", graph, i)
      /\ mem[regs.in] = Tensor(graph, call, graph.parent[i], graph.inPad[i])
  BY DEF Armed, SettingsLoaded
<1>3. OutPad(graph, i) # 0 => mem[regs.out] = Zero
  BY <1>1, OutPadFacts DEF Armed, OutBlock
<1>4. /\ mem[regs.param].kind = "pm" /\ mem[regs.param].graph = graph
      /\ mem[regs.param].node = i
      /\ mem[regs.in].kind = "tensor" /\ mem[regs.in].call = call
  BY <1>2 DEF Setting, Tensor
<1>5. QED
  BY <1>2, <1>3, <1>4 DEF Result

\* What copyOut hands to the user is the current node's tensor, unpadded.
LEMMA OutputSourceRight ==
    ASSUME TypeOK, ControlInv, Carried, DataInv, pc = "copyOut", graph.isOutput[curNode],
           curNode \in WellRead(graph)
    PROVE  mem[OutputSource] = Right(curNode)
<1>1. graph \in Graphs /\ Fits(graph) /\ curNode \in Nodes(graph) /\ curNode \in Nat
  BY DEF TypeOK, Carried, ControlInv, Walking
<1>2. Computed(curNode, outFlag) /\ Kept(curNode)
  BY DEF DataInv
<1>3. RefCount(graph, curNode) \in Nat
  BY <1>1, GraphTypes, RefCountFacts
<1>4. CASE RefCount(graph, curNode) = 0
  <2>1. ~Special(graph, curNode)
    BY <1>4 DEF Special
  <2>2. OutPad(graph, curNode) = 0
    BY <1>1, OutPadFacts
  <2>3. QED
    BY <1>2, <1>4, <2>1, <2>2 DEF OutputSource, Computed, OutBlock, Right
<1>5. CASE RefCount(graph, curNode) # 0
  <2>1. curNode \in Specials(graph)
    BY <1>1, <1>3, <1>5 DEF Special, Specials
  <2>2. QED
    BY <1>1, <1>2, <1>5, <2>1 DEF OutputSource, Kept
<1>6. QED
  BY <1>4, <1>5

\* A step of the driver in a carried call.
LEMMA DriverData ==
    ASSUME TypeOK, ControlInv, TypeOK', ControlInv', Carried, DataInv, DriverStep
    PROVE  (pc' # "idle" => DataInv') /\ WellReadRight'
<1>1. /\ graph \in Graphs /\ Fits(graph) /\ ~late
      /\ pc # "idle"
      /\ graph' = graph /\ call' = call /\ late' = late
  BY DEF TypeOK, Carried, DriverStep, CopyHead, CopyHeadFails, ProgramHead, Start,
         WaitDone, WaitTimeout, CopyNext, CopyNextFails, ProgramNext, CopyOut,
         CopyOutFails, Advance
<1>2. /\ 1 - flag \in 0 .. 1 /\ NextOut \in 0 .. 2 /\ NextOut # outFlag /\ 1 - flag # flag
      /\ flag \in 0 .. 1 /\ outFlag \in 0 .. 2 /\ buffFlag \in 0 .. 1
      /\ curNode \in Nat /\ mem \in [Blocks -> Contents] /\ PadBase \in Nat
  BY ExtraAssumption DEF TypeOK, NextOut
<1>3. CASE CopyHead
  <2>1. /\ SettingsLoaded(1, 0)'
        /\ 1 \in WellRead(graph) => mem'[Im] = Tensor(graph, call, 0, graph.inPad[1])
    BY <1>3, <1>1, HeadLoadedFacts DEF CopyHead, SettingsLoaded
  <2>2. QED
    BY <1>3, <1>1, <2>1 DEF CopyHead, DataInv, WellReadRight, Walking
<1>4. CASE ProgramHead
  <2>1. /\ mem' = [mem EXCEPT ![Om(0)] = Zero]
        /\ regs' = [in |-> Im, weight |-> Km(0), out |-> Om(0), scale |-> Bs(0),
                    param |-> Pm(0)]
        /\ flag' = 0 /\ outFlag' = 0 /\ curNode' = 1 /\ pc' = "start" /\ ip' = ip
        /\ pc = "programHead"
    BY <1>4 DEF ProgramHead, ControlInv, HeadOut, banks
  <2>2. /\ SettingsLoaded(1, 0) /\ ~ip.busy
        /\ 1 \in WellRead(graph) => mem[Im] = Tensor(graph, call, 0, graph.inPad[1])
    BY <2>1 DEF DataInv
  <2>3. Armed(1, 0, 0)'
    <3>1. OutBlock(graph, 1, 0) = Om(0) /\ graph.parent[1] = 0
      BY <1>1, GraphTypes DEF OutBlock, Fits
    <3>2. /\ mem'[Bs(0)] = mem[Bs(0)] /\ mem'[Km(0)] = mem[Km(0)]
          /\ mem'[Pm(0)] = mem[Pm(0)] /\ mem'[Im] = mem[Im] /\ mem'[Om(0)] = Zero
      BY <1>2, <2>1, BlockFacts, BlocksDiffer
    <3>3. QED
      BY <1>1, <2>1, <2>2, <3>1, <3>2 DEF Armed, SettingsLoaded
  <2>4. Kept(0)' /\ Given(0)'
    BY <1>1, GraphTypes DEF Kept, Given, Specials, Outputs
  <2>5. QED
    BY <1>1, <2>1, <2>2, <2>3, <2>4 DEF DataInv, WellReadRight, Walking
<1>5. CASE Start
  <2>1. ip' = [busy |-> TRUE, job |-> regs, torn |-> FALSE]
    BY <1>5 DEF Start, DataInv
  <2>2. /\ Armed(curNode, flag, outFlag)' /\ Kept(curNode - 1)' /\ Given(curNode - 1)'
    BY <1>5, <1>1 DEF Start, DataInv, Walking, Armed, SettingsLoaded, Kept, Given, Right,
                      statics, banks
  <2>3. QED
    BY <1>5, <1>1, <2>1, <2>2 DEF Start, DataInv, WellReadRight, Walking
<1>6. CASE WaitDone
  <2>1. Computed(curNode, outFlag) /\ Kept(curNode - 1) /\ Given(curNode - 1)
    BY <1>6 DEF WaitDone, StartCleared, DataInv, Walking
  <2>2. Kept(curNode)
    <3> SUFFICES ASSUME NEW j \in Specials(graph) \cap WellRead(graph), j <= curNode
                 PROVE  mem[Extra(DdrBlock(graph, j))] = Right(j)
      BY DEF Kept
    <3>1. j \in Nat /\ j \in Nodes(graph) /\ Special(graph, j)
      BY <1>1, GraphTypes DEF Specials
    <3>2. CASE j <= curNode - 1
      BY <3>2, <2>1 DEF Kept
    <3>3. CASE j = curNode
      BY <3>1, <3>3, <1>1, <2>1, OutPadFacts DEF Computed, OutBlock, Right
    <3>4. QED
      BY <3>1, <3>2, <3>3, <1>2
  <2>3. curNode \in Nodes(graph) /\ graph.len \in Nat
    BY <1>6, <1>1, GraphTypes DEF WaitDone, ControlInv, Walking
  <2>4. Computed(curNode, outFlag)' /\ Kept(curNode)' /\ Given(curNode - 1)' /\ ~ip'.busy
    BY <1>6, <1>1, <2>1, <2>2 DEF WaitDone, StartCleared, Computed, Kept, Given, Right,
                                  statics, banks
  <2>5. pc' = "copyNext" \/ (pc' = "copyOut" /\ ~(curNode' < graph'.len))
    <3>1. curNode' = curNode
      BY <1>6 DEF WaitDone, statics
    <3>2. QED
      BY <3>1, <1>6, <1>1 DEF WaitDone
  <2>6. QED
    BY <2>4, <2>5 DEF DataInv, WellReadRight, Walking
<1>7. CASE CopyNext
  <2>1. /\ nextNode' = curNode + 1 /\ mem' = NextLoaded(curNode + 1)
        /\ pc' = "programNext" /\ ip' = ip /\ oa' = oa /\ curNode' = curNode
        /\ flag' = flag /\ outFlag' = outFlag /\ NextOut' = NextOut
        /\ pc = "copyNext"
    BY <1>7 DEF CopyNext, banks, NextOut
  <2>2. curNode + 1 \in Nodes(graph) /\ curNode \in Nodes(graph)
    BY <1>1, <2>1, GraphTypes DEF ControlInv, Walking
  <2>3. /\ mem'[Bs(1 - flag)] = Setting("bs", graph, curNode + 1)
        /\ mem'[Km(1 - flag)] = Setting("km", graph, curNode + 1)
        /\ mem'[Pm(1 - flag)] = Setting("pm", graph, curNode + 1)
        /\ mem'[Om(NextOut)] = Zero
        /\ \A k \in 0 .. (NumExtra - 1) : mem'[Extra(k)] = mem[Extra(k)]
        /\ mem'[Om(outFlag)] = mem[Om(outFlag)]
    BY <1>2, <2>1, <2>2, NextLoadedFacts, BlockFacts, BlocksDiffer
  <2>4. Computed(curNode, outFlag) /\ Kept(curNode) /\ Given(curNode - 1) /\ ~ip.busy
    BY <2>1 DEF DataInv, Walking
  <2>5. \A j \in Specials(graph) :
           mem'[Extra(DdrBlock(graph, j))] = mem[Extra(DdrBlock(graph, j))]
    BY <1>1, <1>2, <2>3, SpecialBlocks, ExtraAssumption
  <2>6. Kept(curNode)' /\ Given(curNode - 1)'
    BY <1>1, <2>1, <2>4, <2>5 DEF Kept, Given, Right
  <2>7. Computed(curNode, outFlag)'
    BY <1>1, <2>1, <2>2, <2>3, <2>4, <2>5 DEF Computed, OutBlock, Specials
  <2>8. SettingsLoaded(nextNode, 1 - flag)' /\ mem'[Om(NextOut)'] = Zero
    BY <1>1, <2>1, <2>3 DEF SettingsLoaded, Om
  <2>9. QED
    BY <2>1, <2>4, <2>6, <2>7, <2>8 DEF DataInv, WellReadRight, Walking, Om
<1>8. CASE ProgramNext
  <2> DEFINE n == nextNode
             framed == Special(graph, parentNode) /\ graph.inPad[n] # 0
             source == Extra(DdrBlock(graph, parentNode))
             padded == Extra(PadBase + buffFlag)
             input == IF framed THEN padded
                      ELSE IF Special(graph, parentNode) THEN source ELSE Om(outFlag)
  <2>1. /\ n = curNode + 1 /\ n \in Nodes(graph) /\ n # 1 /\ curNode \in Nodes(graph)
        /\ parentNode = graph.parent[n] /\ parentNode # 0 /\ parentNode \in Nodes(graph)
        /\ parentNode <= curNode
        /\ mem[Pm(1 - flag)].node = n
    BY <1>8, <1>1, GraphTypes DEF ProgramNext, ControlInv, Walking, Setting
  <2>2. /\ Computed(curNode, outFlag) /\ Kept(curNode) /\ Given(curNode - 1) /\ ~ip.busy
        /\ SettingsLoaded(n, 1 - flag) /\ mem[Om(NextOut)] = Zero
    BY <1>8 DEF ProgramNext, DataInv, Walking
  <2>3. Special(graph, parentNode) =>
           /\ source \in Blocks /\ source # padded
           /\ parentNode \in WellRead(graph) => mem[source] = Tensor(graph, call, parentNode, 0)
    <3> SUFFICES ASSUME Special(graph, parentNode)
                 PROVE  /\ source \in Blocks /\ source # padded
                        /\ parentNode \in WellRead(graph) =>
                              mem[source] = Tensor(graph, call, parentNode, 0)
      OBVIOUS
    <3>1. parentNode \in Specials(graph)
      BY <2>1 DEF Specials
    <3>2. DdrBlock(graph, parentNode) \in 0 .. (PadBase - 1) /\ source \in Blocks
      BY <1>1, <3>1, SpecialBlocks
    <3>3. DdrBlock(graph, parentNode) # PadBase + buffFlag
      BY <3>2, <1>2
    <3>4. QED
      BY <2>1, <2>2, <3>1, <3>2, <3>3, BlocksDiffer DEF Kept, Right
  <2>4. /\ regs' = [in |-> input, weight |-> Km(1 - flag),
                    out |-> OutBlock(graph, n, NextOut),
                    scale |-> Bs(1 - flag), param |-> Pm(1 - flag)]
        /\ mem' = IF framed
                  THEN [mem EXCEPT ![padded] = AddPad(mem[source], graph.inPad[n])]
                  ELSE mem
    BY <1>8, <2>1, <2>3 DEF ProgramNext
  <2>5. /\ pc' = "copyOut" /\ ip' = ip /\ oa' = oa /\ curNode' = curNode /\ nextNode' = nextNode
        /\ flag' = flag /\ outFlag' = outFlag /\ NextOut' = NextOut
    BY <1>8 DEF ProgramNext, statics, NextOut
  <2>6. padded \in Blocks
    BY <1>2, BlockFacts, ExtraAssumption
  <2>7. \A b \in Blocks \ {padded} : mem'[b] = mem[b]
    BY <2>4, <1>2
  <2>8. \A j \in Specials(graph) :
           mem'[Extra(DdrBlock(graph, j))] = mem[Extra(DdrBlock(graph, j))]
    <3> SUFFICES ASSUME NEW j \in Specials(graph)
                 PROVE  Extra(DdrBlock(graph, j)) \in Blocks \ {padded}
      BY <2>7
    <3>1. DdrBlock(graph, j) \in 0 .. (PadBase - 1) /\ Extra(DdrBlock(graph, j)) \in Blocks
      BY <1>1, SpecialBlocks
    <3>2. DdrBlock(graph, j) # PadBase + buffFlag
      BY <3>1, <1>2
    <3>3. QED
      BY <3>1, <3>2, BlocksDiffer
  <2>9. \A o \in 0 .. 2 : mem'[Om(o)] = mem[Om(o)]
    BY <2>7, BlockFacts, BlocksDiffer
  <2>10. SettingsLoaded(n, 1 - flag)'
    <3>1. /\ mem'[Bs(1 - flag)] = mem[Bs(1 - flag)] /\ mem'[Km(1 - flag)] = mem[Km(1 - flag)]
          /\ mem'[Pm(1 - flag)] = mem[Pm(1 - flag)]
      BY <1>2, <2>7, BlockFacts, BlocksDiffer
    <3>2. QED
      BY <1>1, <2>2, <2>5, <3>1 DEF SettingsLoaded
  <2>11. ASSUME n \in WellRead(graph)
         PROVE  mem'[regs'.in] = Tensor(graph, call, graph.parent[n], graph.inPad[n])
    <3>1. parentNode \in WellRead(graph)
      BY <1>1, <2>1, <2>11, GraphTypes, WellReadFacts
    <3>2. regs'.in = input
      BY <2>4
    <3>3. CASE framed
      <4>1. mem'[padded] = AddPad(mem[source], graph.inPad[n])
        BY <3>3, <2>4, <2>6, <1>2
      <4>2. mem[source] = Tensor(graph, call, parentNode, 0)
        BY <3>1, <3>3, <2>3
      <4>3. SoftwareFrames(graph.inPad[n])
        BY <1>1, <2>1, <2>11, <3>3, GraphTypes, WellReadFacts DEF Misread, Misframed
      <4>4. AddPad(mem[source], graph.inPad[n]) = Tensor(graph, call, parentNode, graph.inPad[n])
        BY <4>2, <4>3 DEF AddPad, Tensor
      <4>5. QED
        BY <3>2, <3>3, <4>1, <4>4, <2>1
    <3>4. CASE ~framed /\ Special(graph, parentNode)
      BY <3>1, <3>2, <3>4, <2>1, <2>3, <2>4
    <3>5. CASE ~Special(graph, parentNode)
      <4>1. parentNode = curNode /\ OutPad(graph, curNode) = graph.inPad[n]
        <5>1. parentNode = n - 1 /\ OutPad(graph, parentNode) = graph.inPad[n]
          BY <3>5, <1>1, <2>1, <2>11, OutPadFacts
        <5>2. QED
          BY <5>1, <2>1, <1>2
      <4>2. mem[Om(outFlag)] = Tensor(graph, call, curNode, OutPad(graph, curNode))
        BY <3>1, <3>5, <2>2, <4>1 DEF Computed, OutBlock
      <4>3. QED
        BY <3>2, <3>5, <2>1, <2>9, <1>2, <4>1, <4>2
    <3>6. QED
      BY <3>3, <3>4, <3>5
  <2>12. Armed(curNode + 1, 1 - flag, NextOut)'
    BY <1>1, <1>2, <2>1, <2>2, <2>4, <2>5, <2>9, <2>10, <2>11 DEF Armed, OutBlock, Om
  <2>13. Kept(curNode)' /\ Given(curNode - 1)'
    BY <1>1, <2>2, <2>5, <2>8 DEF Kept, Given, Right
  <2>14. Computed(curNode, outFlag)'
    BY <1>1, <1>2, <2>1, <2>2, <2>5, <2>8, <2>9 DEF Computed, OutBlock, Specials, Om
  <2>15. QED
    BY <2>2, <2>5, <2>12, <2>13, <2>14 DEF DataInv, WellReadRight, Walking
<1>9. CASE CopyOut
  <2>1. /\ pc = "copyOut" /\ pc' = "advance" /\ ip' = ip /\ regs' = regs /\ mem' = mem
        /\ curNode' = curNode /\ flag' = flag /\ outFlag' = outFlag /\ NextOut' = NextOut
    BY <1>9 DEF CopyOut, statics, banks, NextOut
  <2>2. /\ Computed(curNode, outFlag) /\ Kept(curNode) /\ Given(curNode - 1) /\ ~ip.busy
        /\ curNode < graph.len => Armed(curNode + 1, 1 - flag, NextOut)
    BY <2>1 DEF DataInv, Walking
  <2>3. curNode \in Nodes(graph) /\ convParam = curNode
    BY <2>1 DEF ControlInv, Walking
  <2>4. graph.isOutput[curNode] /\ curNode \in WellRead(graph) =>
           mem[OutputSource] = Right(curNode)
    BY <2>1, OutputSourceRight
  <2>5. Given(curNode)'
    <3> SUFFICES ASSUME NEW j \in Outputs(graph) \cap WellRead(graph), j <= curNode
                 PROVE  oa'[j] = Right(j)
      BY <1>1, <2>1 DEF Given, Right
    <3>1. j \in Nodes(graph) /\ graph.isOutput[j] /\ j \in Nat /\ oa \in [Nodes(graph) -> Contents]
      BY <1>1, GraphTypes DEF Outputs, TypeOK
    <3>2. CASE j = curNode
      BY <3>1, <3>2, <1>9, <2>3, <2>4 DEF CopyOut
    <3>3. CASE j # curNode
      <4>1. j <= curNode - 1
        BY <3>1, <3>3, <1>2
      <4>2. oa'[j] = oa[j]
        BY <3>1, <3>3, <1>9, <2>3 DEF CopyOut
      <4>3. QED
        BY <4>1, <4>2, <2>2 DEF Given
    <3>4. QED
      BY <3>2, <3>3
  <2>6. Kept(curNode)' /\ (curNode' < graph'.len => Armed(curNode + 1, 1 - flag, NextOut)')
    BY <1>1, <2>1, <2>2 DEF Kept, Armed, SettingsLoaded, Right
  <2>7. QED
    BY <2>1, <2>2, <2>5, <2>6 DEF DataInv, WellReadRight, Walking
<1>10. CASE Advance
  <2>1. /\ pc = "advance" /\ curNode \in Nodes(graph) /\ graph.len \in Nat
        /\ Kept(curNode) /\ Given(curNode) /\ ~ip.busy
        /\ mem' = mem /\ regs' = regs /\ ip' = ip /\ oa' = oa
    BY <1>10, <1>1, GraphTypes DEF Advance, ControlInv, Walking, DataInv
  <2>2. CASE curNode < graph.len
    <3>1. /\ pc' = "start" /\ curNode' = curNode + 1 /\ flag' = 1 - flag /\ outFlag' = NextOut
      BY <1>10, <2>1, <2>2 DEF Advance, ControlInv, SwapBanks
    <3>2. Armed(curNode + 1, 1 - flag, NextOut)
      BY <2>1, <2>2 DEF DataInv
    <3>3. Armed(curNode, flag, outFlag)'
      BY <1>1, <2>1, <3>1, <3>2 DEF Armed, SettingsLoaded
    <3>4. Kept(curNode - 1)' /\ Given(curNode - 1)'
      <4>1. curNode' - 1 = curNode
        BY <3>1, <1>2
      <4>2. QED
        BY <1>1, <2>1, <4>1 DEF Kept, Given, Right
    <3>5. QED
      BY <2>1, <3>1, <3>3, <3>4 DEF DataInv, WellReadRight, Walking
  <2>3. CASE curNode = graph.len
    <3>1. pc' = "idle"
      BY <1>10, <2>1, <2>3 DEF Advance, Return
    <3>2. \A j \in Outputs(graph) \cap WellRead(graph) : oa[j] = Right(j)
      BY <1>1, <2>1, <2>3, GraphTypes DEF Given, Outputs
    <3>3. WellReadRight'
      BY <1>1, <2>1, <3>2 DEF WellReadRight, Right
    <3>4. QED
      BY <3>1, <3>3
  <2>4. QED
    BY <2>1, <2>2, <2>3, <1>1, GraphTypes
<1>11. CASE CopyHeadFails \/ WaitTimeout \/ CopyNextFails \/ CopyOutFails
  BY <1>11 DEF CopyHeadFails, WaitTimeout, CopyNextFails, CopyOutFails, Return, WellReadRight
<1>12. QED
  BY <1>3, <1>4, <1>5, <1>6, <1>7, <1>8, <1>9, <1>10, <1>11 DEF DriverStep

\* The IP finishes in a carried call: the run was armed for the current node.
LEMMA FinishData ==
    ASSUME TypeOK, ControlInv, pc # "idle", Carried, DataInv, IpFinish
    PROVE  DataInv'
<1>1. /\ graph \in Graphs /\ Fits(graph) /\ mem \in [Blocks -> Contents]
      /\ curNode \in Nat /\ outFlag \in 0 .. 2
  BY DEF TypeOK, Carried
<1>2. /\ pc = "wait" /\ ip.job = regs /\ ~ip.torn
      /\ Armed(curNode, flag, outFlag) /\ Kept(curNode - 1) /\ Given(curNode - 1)
  BY DEF IpFinish, DataInv, Walking
<1>3. curNode \in Nodes(graph) /\ OutBlock(graph, curNode, outFlag) \in Blocks
  BY <1>1, <1>2, OutBlockFacts DEF ControlInv, Walking
<1> DEFINE out == OutBlock(graph, curNode, outFlag)
           t == Tensor(graph, call, curNode, OutPad(graph, curNode))
           x == Result(mem, ip.job)
<1>4. ip.job.out = out /\ (curNode \in WellRead(graph) => x = t)
  BY <1>1, <1>2, <1>3, ResultRight DEF Armed
<1>5. mem' = [mem EXCEPT ![out] = x]
  <2>1. \E y \in {x} : mem' = [mem EXCEPT ![ip.job.out] = y]
    BY <1>2 DEF IpFinish
  <2>2. QED
    BY <2>1, <1>4
<1>6. /\ pc' = pc /\ graph' = graph /\ call' = call /\ curNode' = curNode
      /\ outFlag' = outFlag /\ oa' = oa
  BY DEF IpFinish, statics, banks
<1>7. ~ip'.busy
  BY DEF IpFinish, TypeOK
<1>8. Computed(curNode, outFlag)'
  BY <1>1, <1>3, <1>4, <1>5, <1>6 DEF Computed, OutBlock, Om
<1>9. Kept(curNode - 1)'
  <2> SUFFICES ASSUME NEW j \in Specials(graph) \cap WellRead(graph), j <= curNode - 1
               PROVE  mem'[Extra(DdrBlock(graph, j))] = Right(j)
    BY <1>6 DEF Kept, Right
  <2>1. /\ mem[Extra(DdrBlock(graph, j))] = Right(j)
        /\ Extra(DdrBlock(graph, j)) \in Blocks
    BY <1>1, <1>2, SpecialBlocks DEF Kept
  <2>2. Extra(DdrBlock(graph, j)) # out
    <3>1. CASE Special(graph, curNode)
      <4>1. curNode \in Specials(graph) /\ j # curNode
        BY <1>1, <1>3, <3>1, GraphTypes DEF Specials
      <4>2. DdrBlock(graph, j) # DdrBlock(graph, curNode)
        BY <1>1, <4>1, SpecialBlocks
      <4>3. QED
        BY <3>1, <4>2, BlocksDiffer DEF OutBlock
    <3>2. CASE ~Special(graph, curNode)
      BY <3>2, BlocksDiffer DEF OutBlock
    <3>3. QED
      BY <3>1, <3>2
  <2>3. QED
    BY <1>1, <1>5, <2>1, <2>2
<1>10. Given(curNode - 1)'
  BY <1>2, <1>6 DEF Given, Right
<1>11. QED
  BY <1>2, <1>6, <1>7, <1>8, <1>9, <1>10 DEF DataInv, Walking

\* Every step preserves the data invariant of carried calls.
LEMMA SafeNext == IInv /\ [Next]_vars => IInv'
<1> SUFFICES ASSUME IInv, [Next]_vars
             PROVE  IInv'
  OBVIOUS
<1>1. TypeOK /\ ControlInv /\ SafeInv /\ TypeOK' /\ ControlInv'
  BY ControlNext DEF IInv
<1> SUFFICES SafeInv'
  BY <1>1 DEF IInv
<1>2. ASSUME NEW g \in Graphs, Call(g)
      PROVE  SafeInv'
  <2>1. pc' = "copyHead" /\ late' = ip.busy /\ ip' = [ip EXCEPT !.torn = ip.busy]
    BY <1>2 DEF Call
  <2>2. ip \in [busy : BOOLEAN, job : Registers, torn : BOOLEAN]
    BY <1>1 DEF TypeOK
  <2>3. ip'.busy = ip.busy
    BY <2>1, <2>2
  <2>4. ~late' => ~ip'.busy
    BY <2>1, <2>3, Zenon
  <2>5. QED
    BY <2>1, <2>4 DEF SafeInv, Carried, DataInv, Walking, WellReadRight
<1>3. CASE DriverStep
  <2>1. pc # "idle" /\ graph' = graph /\ late' = late
    BY <1>3 DEF DriverStep, CopyHead, CopyHeadFails, ProgramHead, Start,
         WaitDone, WaitTimeout, CopyNext, CopyNextFails, ProgramNext, CopyOut,
         CopyOutFails, Advance
  <2>2. CASE Carried
    <3>1. DataInv
      BY <1>1, <2>1, <2>2 DEF SafeInv
    <3>2. (pc' # "idle" => DataInv') /\ WellReadRight'
      BY <1>1, <1>3, <2>2, <3>1, DriverData
    <3>3. QED
      BY <3>2 DEF SafeInv
  <2>3. CASE ~Carried
    <3>1. ~Carried'
      BY <2>1, <2>3 DEF Carried
    <3>2. QED
      BY <3>1 DEF SafeInv, WellReadRight
  <2>4. QED
    BY <2>2, <2>3
<1>4. CASE IpFinish
  <2>1. /\ pc' = pc /\ call' = call /\ ret' = ret /\ graph' = graph /\ late' = late
        /\ oa' = oa
    BY <1>4 DEF IpFinish
  <2>2. WellReadRight'
    BY <1>1, <2>1 DEF SafeInv, WellReadRight, Carried, Right
  <2>3. ASSUME pc' # "idle", Carried'
        PROVE  DataInv'
    <3>1. pc # "idle" /\ Carried
      BY <2>1, <2>3 DEF Carried
    <3>2. DataInv
      BY <1>1, <3>1 DEF SafeInv
    <3>3. QED
      BY <1>1, <1>4, <3>1, <3>2, FinishData
  <2>4. QED
    BY <2>2, <2>3 DEF SafeInv
<1>5. CASE UNCHANGED vars
  <2>1. DataInv => DataInv'
    BY <1>5 DEF vars, statics, banks, DataInv, Walking, SettingsLoaded, Armed,
       Computed, Kept, Given, Right, NextOut
  <2>2. (Carried' <=> Carried) /\ (WellReadRight => WellReadRight')
    BY <1>5 DEF vars, Carried, WellReadRight, Right
  <2>3. pc' = pc
    BY <1>5 DEF vars
  <2>4. QED
    BY <1>1, <2>1, <2>2, <2>3 DEF SafeInv
<1>6. QED
  BY <1>2, <1>3, <1>4, <1>5 DEF Next

\* A graph the driver supports is one whose shared outputs fit and all of whose
\* nodes are well read.
LEMMA TrustedFacts ==
    ASSUME TypeOK, Trusted
    PROVE  Carried /\ WellRead(graph) = Nodes(graph)
BY GraphTypes, SupportedWellRead DEF TypeOK, Trusted, Carried

LEMMA Inductive == Spec => []IInv
<1>1. Init => IInv
  BY InitInv DEF Init, IInv, SafeInv, WellReadRight
<1>2. QED
  BY <1>1, SafeNext, PTL DEF Spec

\* For every set of graphs, whatever fails and whatever an earlier call left in the
\* blocks, a call with a supported one (nothing framed in software by more than
\* one among its conditions) that found the IP at rest and returned 0 has copied
\* to the user the right tensor of every output node.
THEOREM OutputsAreCorrect == Spec => []OutputsCorrect
<1>1. IInv => OutputsCorrect
  BY TrustedFacts DEF IInv, SafeInv, WellReadRight, OutputsCorrect, Outputs
<1>2. QED
  BY <1>1, Inductive, PTL

\* The blocks of omblk_extra[] given to shared nodes keep their tensors until
\* the call is over: neither the rotation of omblk[] nor a padding buffer nor
\* the block of another shared node is laid over them.
THEOREM SharedOutputsAreSafe == Spec => []SharedOutputsSurvive
<1>1. IInv => SharedOutputsSurvive
  BY TrustedFacts DEF IInv, SafeInv, DataInv, Kept, SharedOutputsSurvive, Specials
<1>2. QED
  BY <1>1, Inductive, PTL

-----------------------------------------------------------------------------
(* Graphs that need not be supported: what is not well read is not right.  *)

Reached(i) == ~Special(graph, 1) /\ i \in WellRead(graph)

\* The output of node j for the input of this call, in whatever frame.
Of(x, j) == x.kind = "tensor" /\ x.graph = graph /\ x.call = call /\ x.node = j

LEMMA OfFacts ==
    ASSUME NEW j \in Nat
    PROVE  /\ ~Of(Zero, j) /\ ~Of(Junk, j)
           /\ \A k \in {"bs", "km", "pm"} : \A g, i : ~Of(Setting(k, g, i), j)
           /\ j # 0 => \A g, c, p : ~Of(Tensor(g, c, 0, p), j)
           /\ \A x \in Contents, p \in Nat :
                 Of(AddPad(x, p), j) => Of(x, j) /\ SoftwareFrames(p)
           /\ \A p : Of(Right(j), j)
<1>1. ~Of(Zero, j) /\ ~Of(Junk, j)
  BY DEF Of, Zero, Junk
<1>2. \A k \in {"bs", "km", "pm"} : \A g, i : ~Of(Setting(k, g, i), j)
  BY DEF Of, Setting
<1>3. j # 0 => \A g, c, p : ~Of(Tensor(g, c, 0, p), j)
  BY DEF Of, Tensor
<1>4. Of(Right(j), j)
  BY DEF Of, Right, Tensor
<1>5. ASSUME NEW x \in Contents, NEW p \in Nat, Of(AddPad(x, p), j)
      PROVE  Of(x, j) /\ SoftwareFrames(p)
  <2>1. x.kind = "tensor" /\ x.pad = 0 /\ SoftwareFrames(p)
    BY <1>1, <1>5 DEF AddPad
  <2>2. x = Tensor(x.graph, x.call, x.node, 0)
    BY <2>1, ContentKinds
  <2>3. AddPad(x, p) = [x EXCEPT !.pad = p]
    BY <2>1 DEF AddPad
  <2>4. AddPad(x, p) = Tensor(x.graph, x.call, x.node, p)
    BY <2>2, <2>3 DEF Tensor
  <2>5. QED
    BY <1>5, <2>1, <2>4 DEF Of, Tensor
<1>6. QED
  BY <1>1, <1>2, <1>3, <1>4, <1>5

Oms == {Om(o) : o \in 0 .. 2}

\* No tensor is of a call to come.
AgeInv ==
    /\ \A b \in Blocks : mem[b].kind = "tensor" => mem[b].call <= call
    /\ \A i \in Nodes(graph) : oa[i].kind = "tensor" => oa[i].call <= call

\* In a call that found the IP at rest it runs only while the caller polls.
RestInv == ip.busy => pc = "wait" /\ ip.job = regs /\ ~ip.torn

\* A head that is well read leaves its output in omblk[0], even if it has a
\* block of its own, where all the others look for it.
HeadIn(b) == 1 \in WellRead(graph) /\ b \in Oms

\* What is not well read is not computed either, and an input framed wrong is in
\* no block as the head wants it.
SpoiltInv ==
    /\ \A b \in Blocks, j \in Nodes(graph) :
          Of(mem[b], j) => Reached(j) \/ (j = 1 /\ HeadIn(b))
    /\ \A b \in Blocks : Of(mem[b], 0) => 1 \in WellRead(graph)
    /\ \A i, j \in Nodes(graph) : Of(oa[i], j) => Reached(j)

\* A tensor of this call in the current omblk[] is the current node's.
OwnInv ==
    /\ Walking => \A j \in Nodes(graph) : Of(mem[Om(outFlag)], j) => j = curNode
    /\ pc = "programNext" \/ (pc \in {"copyOut", "advance"} /\ curNode < graph.len) =>
          mem[Om(NextOut)] = Zero

\* The IP is programmed for node i: if that is not the head and reads omblk[],
\* a tensor of this call there is of the node before it; if it reads elsewhere,
\* there is one only in a frame that software makes right.
Programmed(i, f, o) ==
    /\ regs.param = Pm(f) /\ mem[Pm(f)] = Setting("pm", graph, i)
    /\ regs.out = IF i = 1 THEN Om(o) ELSE OutBlock(graph, i, o)
    /\ i # 1 => \A j \in Nodes(graph) : Of(mem[regs.in], j) =>
                   IF Special(graph, graph.parent[i])
                   THEN regs.in \notin Oms /\ ~Misframed(graph, i)
                   ELSE j = i - 1

ProgramInv ==
    /\ pc = "programHead" => mem[Pm(0)] = Setting("pm", graph, 1)
    /\ pc = "start" \/ (pc = "wait" /\ ip.busy) => Programmed(curNode, flag, outFlag)
    /\ pc \in {"copyOut", "advance"} /\ curNode < graph.len =>
          Programmed(curNode + 1, 1 - flag, NextOut)

Fresh == ~late /\ (pc # "idle" \/ ret = "ok")
FreshInv == RestInv /\ SpoiltInv /\ OwnInv /\ ProgramInv
MisreadInv == AgeInv /\ (Fresh => FreshInv)

\* What a run leaves in its output block for this call is of the node it was
\* programmed for, and that node is well read or a head.
LEMMA ResultOf ==
    ASSUME TypeOK, SpoiltInv, NEW i \in Nodes(graph), NEW f, NEW o, Programmed(i, f, o),
           NEW j \in Nodes(graph), Of(Result(mem, regs), j)
    PROVE  j = i /\ (Reached(i) \/ (i = 1 /\ 1 \in WellRead(graph)))
<1> DEFINE p == mem[regs.param]
           x == mem[regs.in]
<1>1. graph \in Graphs /\ j \in Nat /\ i \in Nat /\ j # 0
  BY GraphTypes DEF TypeOK
<1>2. p = Setting("pm", graph, i)
  BY DEF Programmed
<1>3. p.kind = "pm" /\ p.graph = graph /\ p.node = i
  BY <1>2 DEF Setting
<1>4. Result(mem, regs) # Junk
  BY <1>1, OfFacts
<1>5. /\ x = Tensor(p.graph, x.call, p.graph.parent[p.node], p.graph.inPad[p.node])
      /\ Result(mem, regs) = Tensor(p.graph, x.call, p.node, OutPad(p.graph, p.node))
  BY <1>4 DEF Result
<1>6. /\ x = Tensor(graph, x.call, graph.parent[i], graph.inPad[i])
      /\ Result(mem, regs) = Tensor(graph, x.call, i, OutPad(graph, i))
  BY <1>3, <1>5
<1>7. x.call = call /\ j = i
  BY <1>6 DEF Of, Tensor
<1>8. ASSUME i # 1
      PROVE  Reached(i)
  <2> DEFINE k == graph.parent[i]
  <2>1. k \in Nodes(graph) /\ k \in Nat /\ k # 0
    BY <1>1, <1>8, GraphTypes
  <2>2. Of(x, k)
    BY <1>6, <1>7 DEF Of, Tensor
  <2>3. regs.in \in Blocks
    BY DEF TypeOK, Registers
  <2>4. IF Special(graph, k) THEN regs.in \notin Oms /\ ~Misframed(graph, i) ELSE k = i - 1
    BY <1>8, <2>1, <2>2 DEF Programmed
  <2>5. Reached(k) \/ (k = 1 /\ HeadIn(regs.in))
    BY <2>1, <2>2, <2>3 DEF SpoiltInv
  <2>6. Reached(k)
    <3>1. CASE k = 1 /\ HeadIn(regs.in)
      BY <3>1, <2>4 DEF HeadIn, Reached
    <3>2. QED
      BY <2>5, <3>1
  <2>7. ~Misread(graph, i)
    BY <1>8, <2>4 DEF Misread, Misframed
  <2>8. QED
    BY <1>1, <2>6, <2>7, GraphTypes, WellReadFacts DEF Reached
<1>9. ASSUME i = 1
      PROVE  1 \in WellRead(graph)
  <2>1. graph.parent[i] = 0 /\ regs.in \in Blocks
    BY <1>1, <1>9, GraphTypes DEF TypeOK, Registers
  <2>2. Of(x, 0)
    BY <1>6, <1>7, <2>1 DEF Of, Tensor
  <2>3. QED
    BY <2>1, <2>2 DEF SpoiltInv
<1>10. QED
  BY <1>7, <1>8, <1>9

\* The block an output is copied from exists.
LEMMA OutputSourceType ==
    ASSUME TypeOK, curNode \in Nodes(graph), graph.isOutput[curNode]
    PROVE  OutputSource \in Blocks
<1>1. graph \in Graphs /\ RefCount(graph, curNode) \in Nat
  BY GraphTypes, RefCountFacts DEF TypeOK
<1>2. RefCount(graph, curNode) # 0 => Special(graph, curNode)
  BY <1>1 DEF Special
<1>3. QED
  BY <1>1, <1>2, OutBlockFacts, BlockFacts DEF OutputSource, TypeOK

\* The blocks a copy list or a run leaves hold old tensors or this call's.
LEMMA LoadedAge ==
    ASSUME TypeOK, AgeInv, NEW i \in Nodes(graph), NEW order, NEW n, NEW b \in Blocks
    PROVE  /\ Loaded(order, n, i)[b].kind = "tensor" => Loaded(order, n, i)[b].call <= call
           /\ LoadFailed(order, n, i)[b].kind = "tensor" => LoadFailed(order, n, i)[b].call <= call
<1>1. call \in Nat /\ mem \in [Blocks -> Contents]
  BY GraphsAssumption DEF TypeOK
<1>2. Image(i, b).kind = "tensor" => Image(i, b).call <= call
  <2>1. CASE b = Im
    <3>1. Image(i, b).kind = "tensor" => Image(i, b).call = call
      BY <2>1 DEF Image, Tensor, Junk
    <3>2. QED
      BY <1>1, <3>1
  <2>2. CASE b # Im
    <3>1. Image(i, b).kind # "tensor"
      <4>1. Image(i, b) = Setting(b[1], graph, i)
        BY <2>2 DEF Image
      <4>2. Image(i, b).kind = b[1] /\ b[1] # "tensor"
        BY <4>1, <2>2 DEF Setting, Blocks, Im
      <4>3. QED
        BY <4>2
    <3>2. QED
      BY <3>1
  <2>3. QED
    BY <2>1, <2>2
<1>3. Loaded(order, n, i)[b] \in {Image(i, b), mem[b]}
  BY DEF Loaded
<1>4. LoadFailed(order, n, i)[b] \in {Loaded(order, n, i)[b], Junk}
  BY DEF LoadFailed, Loaded
<1>5. Junk.kind # "tensor"
  BY DEF Junk
<1>6. QED
  BY <1>2, <1>3, <1>4, <1>5 DEF AgeInv

LEMMA AgeNext == TypeOK /\ ControlInv /\ AgeInv /\ [Next]_vars => AgeInv'
<1> SUFFICES ASSUME TypeOK, ControlInv, AgeInv, [Next]_vars
             PROVE  AgeInv'
  OBVIOUS
<1>1. /\ graph \in Graphs /\ mem \in [Blocks -> Contents] /\ call \in Nat
      /\ oa \in [Nodes(graph) -> Contents]
      /\ Junk.kind # "tensor" /\ Zero.kind # "tensor"
  BY GraphsAssumption DEF TypeOK, Junk, Zero
<1> DEFINE Old(m) == \A b \in Blocks : m[b].kind = "tensor" => m[b].call <= call
<1>2. ASSUME NEW g \in Graphs, Call(g)
      PROVE  AgeInv'
  <2>1. call' = call + 1 /\ mem' = mem /\ graph' = g
        /\ oa' = IF g = graph THEN oa ELSE [i \in Nodes(g) |-> Junk]
    BY <1>2 DEF Call
  <2>2. \A b \in Blocks : mem'[b].kind = "tensor" => mem'[b].call <= call'
    <3> SUFFICES ASSUME NEW b \in Blocks, mem[b].kind = "tensor"
                 PROVE  mem[b].call <= call + 1
      BY <2>1
    <3>1. mem[b].call \in Nat /\ mem[b].call <= call
      BY <1>1, ContentKinds DEF AgeInv
    <3>2. QED
      BY <1>1, <3>1
  <2>3. \A i \in Nodes(g) : oa'[i].kind = "tensor" => oa'[i].call <= call'
    <3> SUFFICES ASSUME NEW i \in Nodes(g), oa'[i].kind = "tensor"
                 PROVE  oa'[i].call <= call + 1
      BY <2>1
    <3>1. g = graph /\ oa' = oa
      BY <1>1, <2>1
    <3>2. oa[i].call \in Nat /\ oa[i].call <= call
      BY <1>1, <3>1, ContentKinds DEF AgeInv
    <3>3. QED
      BY <1>1, <3>1, <3>2
  <2>4. QED
    BY <2>1, <2>2, <2>3 DEF AgeInv
<1>3. CASE CopyHead \/ CopyHeadFails
  <2>1. 1 \in Nodes(graph)
    BY <1>1, GraphTypes
  <2>2. /\ graph' = graph /\ call' = call /\ oa' = oa
        /\ \/ mem' = mem \/ mem' = Loaded(HeadOrder, 4, 1)
           \/ \E n \in 0 .. 3 : mem' = LoadFailed(HeadOrder, n, 1)
    BY <1>3 DEF CopyHead, CopyHeadFails
  <2>3. Old(mem')
    BY <2>1, <2>2, LoadedAge DEF AgeInv
  <2>4. QED
    BY <2>2, <2>3 DEF AgeInv
<1>4. CASE CopyNext \/ CopyNextFails
  <2>1. curNode + 1 \in Nodes(graph)
    BY <1>4, <1>1, GraphTypes DEF CopyNext, CopyNextFails, ControlInv, Walking
  <2>2. /\ graph' = graph /\ call' = call /\ oa' = oa
        /\ \/ mem' = mem \/ mem' = NextLoaded(curNode + 1)
           \/ \E n \in 0 .. 2 : mem' = LoadFailed(NextOrder, n, curNode + 1)
    BY <1>4 DEF CopyNext, CopyNextFails
  <2>3. Old(NextLoaded(curNode + 1))
    <3>1. \A b \in Blocks : NextLoaded(curNode + 1)[b] \in
                               {Zero, Loaded(NextOrder, 3, curNode + 1)[b]}
      BY DEF NextLoaded, Loaded
    <3>2. QED
      BY <1>1, <2>1, <3>1, LoadedAge
  <2>4. Old(mem')
    BY <2>1, <2>2, <2>3, LoadedAge DEF AgeInv
  <2>5. QED
    BY <2>2, <2>4 DEF AgeInv
<1>5. CASE ProgramHead
  BY <1>1, <1>5 DEF ProgramHead, AgeInv
<1>6. CASE ProgramNext
  <2>1. graph' = graph /\ call' = call /\ oa' = oa
    BY <1>6 DEF ProgramNext
  <2>2. \E x \in {Zero} \cup {mem[b] : b \in Blocks}, p \in Nat, d \in Blocks :
            mem' = mem \/ mem' = [mem EXCEPT ![d] = AddPad(x, p)]
    <3>1. /\ nextNode \in Nodes(graph) /\ parentNode \in Nodes(graph)
          /\ mem[Pm(1 - flag)].node = nextNode
      BY <1>6, <1>1, GraphTypes DEF ProgramNext, ControlInv, Walking, Setting
    <3>2. graph.inPad[nextNode] \in Nat /\ Extra(PadBase + buffFlag) \in Blocks
      BY <1>1, <3>1, GraphTypes, BlockFacts, ExtraAssumption DEF TypeOK
    <3>3. Special(graph, parentNode) => Extra(DdrBlock(graph, parentNode)) \in Blocks
      BY <1>1, <3>1, OutBlockFacts
    <3>4. QED
      BY <1>6, <3>1, <3>2, <3>3 DEF ProgramNext
  <2>3. Old(mem')
    <3>1. PICK x \in {Zero} \cup {mem[b] : b \in Blocks}, p \in Nat, d \in Blocks :
             mem' = mem \/ mem' = [mem EXCEPT ![d] = AddPad(x, p)]
      BY <2>2
    <3>2. x \in Contents /\ (x.kind = "tensor" => x.call <= call)
      BY <1>1, ContentFacts DEF AgeInv
    <3>3. AddPad(x, p).kind = "tensor" => AddPad(x, p).call <= call
      <4>1. CASE x.kind = "tensor" /\ x.pad = 0 /\ SoftwareFrames(p)
        <5>1. x = Tensor(x.graph, x.call, x.node, 0)
          BY <3>2, <4>1, ContentKinds
        <5>2. AddPad(x, p) = [x EXCEPT !.pad = p]
          BY <4>1 DEF AddPad
        <5>3. AddPad(x, p).call = x.call
          BY <5>1, <5>2 DEF Tensor
        <5>4. QED
          BY <3>2, <4>1, <5>3
      <4>2. CASE ~(x.kind = "tensor" /\ x.pad = 0 /\ SoftwareFrames(p))
        BY <1>1, <4>2 DEF AddPad
      <4>3. QED
        BY <4>1, <4>2
    <3>4. QED
      BY <1>1, <3>1, <3>3 DEF AgeInv
  <2>4. QED
    BY <2>1, <2>3 DEF AgeInv
<1>7. CASE IpFinish
  <2>1. graph' = graph /\ call' = call /\ oa' = oa
    BY <1>7 DEF IpFinish
  <2>2. Result(mem, ip.job).kind = "tensor" => Result(mem, ip.job).call <= call
    <3> DEFINE x == mem[ip.job.in]
    <3>1. ip.job.in \in Blocks
      BY DEF TypeOK, Registers
    <3>2. Result(mem, ip.job) = Junk \/ (x.kind = "tensor" /\ Result(mem, ip.job).call = x.call)
      BY DEF Result, Tensor
    <3>3. QED
      BY <1>1, <3>1, <3>2 DEF AgeInv
  <2>3. PICK x \in {Result(mem, ip.job), Junk} : mem' = [mem EXCEPT ![ip.job.out] = x]
    BY <1>7 DEF IpFinish
  <2>4. Old(mem')
    BY <1>1, <2>2, <2>3 DEF AgeInv
  <2>5. QED
    BY <2>1, <2>4 DEF AgeInv
<1>8. CASE CopyOut \/ CopyOutFails
  <2>1. graph' = graph /\ call' = call /\ mem' = mem /\ curNode \in Nodes(graph)
    BY <1>8 DEF CopyOut, CopyOutFails, ControlInv, Walking
  <2>2. graph.isOutput[curNode] => OutputSource \in Blocks
    BY <1>1, <2>1, OutputSourceType
  <2>3. oa' = oa \/ \E x \in {Junk} \cup {mem[b] : b \in Blocks} : oa' = [oa EXCEPT ![convParam] = x]
    BY <1>8, <2>2 DEF CopyOut, CopyOutFails
  <2>4. QED
    BY <1>1, <2>1, <2>3 DEF AgeInv
<1>9. CASE Start \/ WaitDone \/ WaitTimeout \/ Advance \/ UNCHANGED vars
  BY <1>9 DEF Start, WaitDone, WaitTimeout, Advance, vars, AgeInv
<1>10. QED
  BY <1>2, <1>3, <1>4, <1>5, <1>6, <1>7, <1>8, <1>9 DEF Next, DriverStep

\* What the copies from the user leave is not the output of any node, and the
\* input only if it is framed right.
LEMMA LoadedOf ==
    ASSUME TypeOK, NEW i \in Nodes(graph), NEW order, NEW n,
           i = 1 \/ \A k \in 1 .. n : order[k] # Im,
           NEW b \in Blocks, NEW j \in Nodes(graph) \cup {0}, Of(Loaded(order, n, i)[b], j)
    PROVE  Of(mem[b], j) \/ (j = 0 /\ 1 \in WellRead(graph))
<1>1. graph \in Graphs /\ j \in Nat /\ IsGraph(graph)
  BY GraphTypes DEF TypeOK
<1>2. ASSUME NEW k \in 1 .. n, order[k] = b
      PROVE  Of(Image(i, b), j) => j = 0 /\ 1 \in WellRead(graph)
  <2>1. CASE b = Im
    <3>1. i = 1
      BY <1>2, <2>1
    <3>2. Image(i, b) = IF 1 \in WellRead(graph) THEN Tensor(graph, call, 0, graph.inPad[1])
                                                  ELSE Junk
      BY <1>1, <2>1, <3>1, GraphTypes, WellReadFacts DEF Image
    <3>3. QED
      BY <1>1, <3>2, OfFacts
  <2>2. CASE b # Im
    <3>1. Image(i, b) = Setting(b[1], graph, i)
      BY <2>2 DEF Image
    <3>2. Image(i, b).kind = b[1] /\ b[1] # "tensor"
      BY <3>1, <2>2 DEF Setting, Blocks, Im
    <3>3. QED
      BY <3>2 DEF Of
  <2>3. QED
    BY <2>1, <2>2
<1>3. QED
  BY <1>2 DEF Loaded

\* A step of the driver in a call that found the IP at rest.
LEMMA DriverFresh ==
    ASSUME TypeOK, ControlInv, TypeOK', ControlInv', Fresh, FreshInv, DriverStep, Fresh'
    PROVE  FreshInv'
<1>1. /\ graph \in Graphs /\ pc # "idle"
      /\ graph' = graph /\ call' = call
      /\ \A j : Reached(j)' <=> Reached(j)
      /\ \A b : HeadIn(b)' <=> HeadIn(b)
      /\ \A x, j : Of(x, j)' <=> Of(x, j)
  BY DEF TypeOK, HeadIn, DriverStep, CopyHead, CopyHeadFails, ProgramHead, Start,
         WaitDone, WaitTimeout, CopyNext, CopyNextFails, ProgramNext, CopyOut,
         CopyOutFails, Advance, Reached, Of
<1>2. /\ 1 - flag \in 0 .. 1 /\ NextOut \in 0 .. 2 /\ NextOut # outFlag /\ 1 - flag # flag
      /\ flag \in 0 .. 1 /\ outFlag \in 0 .. 2 /\ buffFlag \in 0 .. 1
      /\ curNode \in Nat /\ mem \in [Blocks -> Contents] /\ PadBase \in Nat
  BY ExtraAssumption DEF TypeOK, NextOut
<1>3. RestInv /\ SpoiltInv /\ OwnInv /\ ProgramInv
  BY DEF FreshInv
<1>4. /\ Nodes(graph) \in SUBSET Nat /\ 1 \in Nodes(graph) /\ 0 \notin Nodes(graph)
      /\ graph.len \in Nat
  BY <1>1, GraphTypes
<1>5. ASSUME oa' = oa,
             \A b \in Blocks, j \in Nodes(graph) \cup {0} :
                Of(mem'[b], j) => Of(mem[b], j) \/ (j = 0 /\ 1 \in WellRead(graph))
      PROVE  SpoiltInv'
  <2>1. \A b \in Blocks, j \in Nodes(graph) :
           Of(mem'[b], j) => Reached(j) \/ (j = 1 /\ HeadIn(b))
    BY <1>3, <1>4, <1>5 DEF SpoiltInv
  <2>2. \A b \in Blocks : Of(mem'[b], 0) => 1 \in WellRead(graph)
    BY <1>3, <1>5 DEF SpoiltInv
  <2>3. \A i, j \in Nodes(graph) : Of(oa'[i], j) => Reached(j)
    BY <1>3, <1>5 DEF SpoiltInv
  <2>4. QED
    BY <1>1, <2>1, <2>2, <2>3 DEF SpoiltInv
<1>6. CASE CopyHead
  <2>1. pc' = "programHead" /\ ip' = ip /\ oa' = oa /\ pc = "copyHead"
        /\ mem' = Loaded(HeadOrder, 4, 1)
    BY <1>6 DEF CopyHead
  <2>2. RestInv'
    BY <1>3, <2>1 DEF RestInv
  <2>3. SpoiltInv'
    BY <1>4, <1>5, <2>1, LoadedOf
  <2>4. OwnInv' /\ ProgramInv'
    BY <1>1, <2>1, HeadLoadedFacts DEF OwnInv, ProgramInv, Walking
  <2>5. QED
    BY <2>2, <2>3, <2>4 DEF FreshInv
<1>7. CASE ProgramHead
  <2>1. /\ mem' = [mem EXCEPT ![Om(0)] = Zero]
        /\ regs' = [in |-> Im, weight |-> Km(0), out |-> Om(0), scale |-> Bs(0),
                    param |-> Pm(0)]
        /\ flag' = 0 /\ outFlag' = 0 /\ curNode' = 1 /\ pc' = "start" /\ ip' = ip
        /\ pc = "programHead" /\ oa' = oa
    BY <1>7 DEF ProgramHead, ControlInv, HeadOut, banks
  <2>2. /\ mem'[Pm(0)] = mem[Pm(0)] /\ mem'[Om(0)] = Zero
        /\ \A b \in Blocks : mem'[b] \in {Zero, mem[b]}
    BY <1>2, <2>1, BlockFacts, BlocksDiffer
  <2>3. SpoiltInv'
    BY <1>4, <1>5, <2>1, <2>2, OfFacts
  <2>4. RestInv'
    BY <1>3, <2>1 DEF RestInv
  <2>5. OwnInv'
    BY <1>1, <1>4, <2>1, <2>2, OfFacts DEF OwnInv
  <2>6. ProgramInv'
    BY <1>1, <1>3, <2>1, <2>2 DEF ProgramInv, Programmed
  <2>7. QED
    BY <2>3, <2>4, <2>5, <2>6 DEF FreshInv
<1>8. CASE Start
  <2>1. pc = "start" /\ ~ip.busy
    BY <1>8, <1>3 DEF Start, RestInv
  <2>2. /\ ip' = [busy |-> TRUE, job |-> regs, torn |-> FALSE] /\ pc' = "wait"
        /\ mem' = mem /\ oa' = oa /\ regs' = regs /\ curNode' = curNode
        /\ flag' = flag /\ outFlag' = outFlag
    BY <1>8, <2>1 DEF Start, statics, banks
  <2>3. RestInv'
    BY <2>2 DEF RestInv
  <2>4. SpoiltInv'
    BY <1>5, <2>2
  <2>5. OwnInv'
    BY <1>1, <1>3, <2>1, <2>2 DEF OwnInv, Walking
  <2>6. Programmed(curNode, flag, outFlag)'
    BY <1>1, <1>3, <2>1, <2>2 DEF ProgramInv, Programmed
  <2>7. ProgramInv'
    BY <2>2, <2>6 DEF ProgramInv
  <2>8. QED
    BY <2>3, <2>4, <2>5, <2>7 DEF FreshInv
<1>9. CASE WaitDone
  <2>1. /\ pc = "wait" /\ pc' \in {"copyNext", "copyOut"}
        /\ pc' = "copyOut" => ~(curNode < graph.len)
        /\ ip' = ip /\ ~ip.busy
        /\ mem' = mem /\ oa' = oa /\ curNode' = curNode /\ outFlag' = outFlag
    BY <1>9 DEF WaitDone, StartCleared, statics, banks
  <2>2. RestInv' /\ SpoiltInv'
    BY <1>5, <2>1 DEF RestInv
  <2>3. OwnInv' /\ ProgramInv'
    BY <1>1, <1>3, <2>1 DEF OwnInv, ProgramInv, Walking
  <2>4. QED
    BY <2>2, <2>3 DEF FreshInv
<1>10. CASE CopyNext
  <2>1. /\ mem' = NextLoaded(curNode + 1)
        /\ pc' = "programNext" /\ ip' = ip /\ oa' = oa /\ curNode' = curNode
        /\ outFlag' = outFlag /\ NextOut' = NextOut /\ pc = "copyNext"
    BY <1>10 DEF CopyNext, banks, NextOut
  <2>2. curNode + 1 \in Nodes(graph)
    BY <1>1, <2>1, GraphTypes DEF ControlInv, Walking
  <2>3. mem'[Om(NextOut)] = Zero /\ mem'[Om(outFlag)] = mem[Om(outFlag)]
    BY <1>2, <2>1, <2>2, NextLoadedFacts, BlockFacts, BlocksDiffer
  <2>4. \A b \in Blocks : mem'[b] = Zero \/ mem'[b] = Loaded(NextOrder, 3, curNode + 1)[b]
    BY <2>1 DEF NextLoaded, Loaded
  <2>5. \A k \in 1 .. 3 : NextOrder[k] # Im
    BY BlocksDiffer DEF NextOrder
  <2>6. SpoiltInv'
    BY <1>4, <1>5, <2>1, <2>2, <2>4, <2>5, LoadedOf, OfFacts
  <2>7. RestInv' /\ ProgramInv'
    BY <1>3, <2>1 DEF RestInv, ProgramInv
  <2>8. OwnInv'
    BY <1>1, <1>3, <2>1, <2>3 DEF OwnInv, Walking, Om
  <2>9. QED
    BY <2>6, <2>7, <2>8 DEF FreshInv
<1>11. CASE ProgramNext
  <2> DEFINE n == nextNode
             framed == Special(graph, parentNode) /\ graph.inPad[n] # 0
             source == Extra(DdrBlock(graph, parentNode))
             padded == Extra(PadBase + buffFlag)
             old == IF source = padded THEN Zero ELSE mem[source]
             input == IF framed THEN padded
                      ELSE IF Special(graph, parentNode) THEN source ELSE Om(outFlag)
  <2>1. /\ n = curNode + 1 /\ n \in Nodes(graph) /\ n # 1 /\ curNode \in Nodes(graph)
        /\ parentNode = graph.parent[n] /\ parentNode # 0 /\ parentNode \in Nodes(graph)
        /\ mem[Pm(1 - flag)] = Setting("pm", graph, n) /\ mem[Pm(1 - flag)].node = n
        /\ pc = "programNext"
    BY <1>11, <1>1, GraphTypes DEF ProgramNext, ControlInv, Walking, Setting
  <2>2. /\ regs' = [in |-> input, weight |-> Km(1 - flag),
                    out |-> OutBlock(graph, n, NextOut),
                    scale |-> Bs(1 - flag), param |-> Pm(1 - flag)]
        /\ mem' = IF framed
                  THEN [mem EXCEPT ![padded] = AddPad(old, graph.inPad[n])]
                  ELSE mem
    BY <1>11, <2>1 DEF ProgramNext
  <2>3. /\ pc' = "copyOut" /\ ip' = ip /\ oa' = oa /\ curNode' = curNode
        /\ flag' = flag /\ outFlag' = outFlag /\ NextOut' = NextOut
    BY <1>11 DEF ProgramNext, statics, NextOut
  <2>4. padded \in Blocks /\ padded \notin Oms /\ source \notin Oms
    BY <1>2, BlockFacts, BlocksDiffer, ExtraAssumption DEF Oms
  <2>5. \A b \in Blocks \ {padded} : mem'[b] = mem[b]
    BY <2>2, <1>2
  <2>6. /\ mem'[Pm(1 - flag)] = mem[Pm(1 - flag)] /\ mem'[Om(outFlag)] = mem[Om(outFlag)]
        /\ mem'[Om(NextOut)] = mem[Om(NextOut)]
    BY <1>2, <2>5, BlockFacts, BlocksDiffer
  <2>7. ASSUME framed, NEW j \in Nodes(graph), Of(mem'[padded], j)
        PROVE  Reached(j) /\ SoftwareFrames(graph.inPad[n])
    <3>1. source \in Blocks
      <4>1. Special(graph, parentNode) /\ outFlag \in 0 .. 2
        BY <1>2, <2>7
      <4>2. QED
        BY <1>1, <2>1, <4>1, OutBlockFacts
    <3>2. mem'[padded] = AddPad(old, graph.inPad[n])
      BY <1>2, <2>2, <2>4, <2>7
    <3>3. old \in Contents /\ graph.inPad[n] \in Nat
      BY <1>1, <1>2, <2>1, <3>1, ContentFacts, GraphTypes
    <3>4. Of(old, j) /\ SoftwareFrames(graph.inPad[n])
      BY <1>4, <2>7, <3>2, <3>3, OfFacts
    <3>5. Of(mem[source], j)
      BY <1>4, <3>4, OfFacts
    <3>6. QED
      BY <1>3, <2>4, <3>1, <3>4, <3>5 DEF SpoiltInv, HeadIn
  <2>8. SpoiltInv'
    <3>1. \A b \in Blocks, j \in Nodes(graph) :
             Of(mem'[b], j) => Reached(j) \/ (j = 1 /\ HeadIn(b))
      <4> SUFFICES ASSUME NEW b \in Blocks, NEW j \in Nodes(graph), Of(mem'[b], j)
                   PROVE  Reached(j) \/ (j = 1 /\ HeadIn(b))
        OBVIOUS
      <4>1. CASE framed /\ b = padded
        BY <2>7, <4>1
      <4>2. CASE ~(framed /\ b = padded)
        <5>1. mem'[b] = mem[b]
          BY <2>2, <2>5, <4>2
        <5>2. QED
          BY <1>3, <5>1 DEF SpoiltInv
      <4>3. QED
        BY <4>1, <4>2
    <3>2. \A b \in Blocks : Of(mem'[b], 0) => 1 \in WellRead(graph)
      <4> SUFFICES ASSUME NEW b \in Blocks, Of(mem'[b], 0)
                   PROVE  1 \in WellRead(graph)
        OBVIOUS
      <4>1. CASE framed /\ b = padded
        <5>1. source \in Blocks /\ mem'[padded] = AddPad(old, graph.inPad[n])
          <6>1. Special(graph, parentNode) /\ outFlag \in 0 .. 2
            BY <1>2, <4>1
          <6>2. source \in Blocks
            BY <1>1, <2>1, <6>1, OutBlockFacts
          <6>3. QED
            BY <1>2, <2>2, <2>4, <4>1, <6>2
        <5>2. old \in Contents /\ graph.inPad[n] \in Nat
          BY <1>1, <1>2, <2>1, <5>1, ContentFacts, GraphTypes
        <5>3. Of(old, 0)
          BY <4>1, <5>1, <5>2, OfFacts
        <5>4. Of(mem[source], 0)
          BY <5>3, OfFacts
        <5>5. QED
          BY <1>3, <5>1, <5>4 DEF SpoiltInv
      <4>2. CASE ~(framed /\ b = padded)
        <5>1. mem'[b] = mem[b]
          BY <2>2, <2>5, <4>2
        <5>2. QED
          BY <1>3, <5>1 DEF SpoiltInv
      <4>3. QED
        BY <4>1, <4>2
    <3>3. QED
      BY <1>1, <1>3, <2>3, <3>1, <3>2 DEF SpoiltInv
  <2>9. RestInv'
    BY <1>3, <2>1, <2>3 DEF RestInv
  <2>10. OwnInv'
    BY <1>1, <1>3, <2>1, <2>3, <2>6 DEF OwnInv, Walking, Om
  <2>11. Programmed(curNode + 1, 1 - flag, NextOut)'
    <3>1. regs'.param = Pm(1 - flag) /\ regs'.out = OutBlock(graph, n, NextOut) /\ regs'.in = input
      BY <2>2
    <3>2. ASSUME NEW j \in Nodes(graph), Of(mem'[regs'.in], j)
          PROVE  IF Special(graph, graph.parent[n])
                 THEN regs'.in \notin Oms /\ ~Misframed(graph, n) ELSE j = n - 1
      <4>1. CASE Special(graph, parentNode)
        <5>1. regs'.in \notin Oms
          BY <2>4, <3>1, <4>1
        <5>2. SoftwareFrames(graph.inPad[n])
          <6>1. CASE framed
            BY <2>7, <3>1, <3>2, <6>1
          <6>2. CASE ~framed
            BY <4>1, <6>2 DEF SoftwareFrames
          <6>3. QED
            BY <6>1, <6>2
        <5>3. QED
          BY <2>1, <4>1, <5>1, <5>2 DEF Misframed
      <4>2. CASE ~Special(graph, parentNode)
        <5>1. regs'.in = Om(outFlag) /\ Of(mem[Om(outFlag)], j)
          BY <2>6, <3>1, <3>2, <4>2
        <5>2. j = curNode
          BY <1>3, <2>1, <5>1 DEF OwnInv, Walking
        <5>3. QED
          BY <1>2, <2>1, <4>2, <5>2
      <4>3. QED
        BY <4>1, <4>2
    <3>3. QED
      BY <1>1, <1>2, <2>1, <2>3, <2>6, <3>1, <3>2 DEF Programmed, Pm, OutBlock, Om
  <2>12. ProgramInv'
    BY <2>3, <2>11 DEF ProgramInv
  <2>13. QED
    BY <2>8, <2>9, <2>10, <2>12 DEF FreshInv
<1>12. CASE CopyOut
  <2>1. /\ pc = "copyOut" /\ pc' = "advance" /\ ip' = ip /\ regs' = regs /\ mem' = mem
        /\ curNode' = curNode /\ flag' = flag /\ outFlag' = outFlag /\ NextOut' = NextOut
    BY <1>12 DEF CopyOut, statics, banks, NextOut
  <2>2. curNode \in Nodes(graph) /\ convParam = curNode
    BY <2>1 DEF ControlInv, Walking
  <2>3. ASSUME graph.isOutput[curNode], NEW j \in Nodes(graph), Of(mem[OutputSource], j)
        PROVE  Reached(j)
    <3>1. OutputSource \in Blocks
      BY <2>2, <2>3, OutputSourceType
    <3>2. Reached(j) \/ (j = 1 /\ HeadIn(OutputSource))
      BY <1>3, <2>3, <3>1 DEF SpoiltInv
    <3>3. CASE j = 1 /\ HeadIn(OutputSource)
      <4>1. RefCount(graph, curNode) = 0 /\ OutputSource = Om(outFlag)
        BY <3>3, BlocksDiffer DEF OutputSource, HeadIn, Oms
      <4>2. curNode = 1
        BY <1>3, <2>1, <2>3, <3>3, <4>1 DEF OwnInv, Walking
      <4>3. ~Special(graph, 1)
        BY <4>1, <4>2 DEF Special
      <4>4. QED
        BY <3>3, <4>3 DEF HeadIn, Reached
    <3>4. QED
      BY <3>2, <3>3
  <2>4. oa' = IF graph.isOutput[curNode] THEN [oa EXCEPT ![curNode] = mem[OutputSource]] ELSE oa
    BY <1>12, <2>2 DEF CopyOut
  <2>5. \A i, j \in Nodes(graph) : Of(oa'[i], j) => Reached(j)
    <3> SUFFICES ASSUME NEW i \in Nodes(graph), NEW j \in Nodes(graph), Of(oa'[i], j)
                 PROVE  Reached(j)
      OBVIOUS
    <3>1. oa'[i] = oa[i] \/ (graph.isOutput[curNode] /\ oa'[i] = mem[OutputSource])
      BY <1>1, <2>2, <2>4 DEF TypeOK
    <3>2. QED
      BY <1>3, <2>3, <3>1 DEF SpoiltInv
  <2>6. SpoiltInv'
    BY <1>1, <1>3, <2>1, <2>5 DEF SpoiltInv
  <2>7. RestInv' /\ OwnInv'
    BY <1>1, <1>3, <2>1 DEF RestInv, OwnInv, Walking
  <2>8. ProgramInv'
    BY <1>1, <1>3, <2>1 DEF ProgramInv, Programmed
  <2>9. QED
    BY <2>6, <2>7, <2>8 DEF FreshInv
<1>13. CASE Advance
  <2>1. /\ pc = "advance" /\ curNode \in Nodes(graph) /\ ~ip.busy
        /\ mem' = mem /\ regs' = regs /\ ip' = ip /\ oa' = oa
    BY <1>13, <1>3 DEF Advance, ControlInv, Walking, RestInv
  <2>2. RestInv' /\ SpoiltInv'
    BY <1>5, <2>1 DEF RestInv
  <2>3. CASE curNode < graph.len
    <3>1. /\ pc' = "start" /\ curNode' = curNode + 1 /\ flag' = 1 - flag /\ outFlag' = NextOut
      BY <1>13, <1>2, <1>4, <2>1, <2>3 DEF Advance, ControlInv, SwapBanks
    <3>2. Programmed(curNode + 1, 1 - flag, NextOut) /\ mem[Om(NextOut)] = Zero
      BY <1>3, <2>1, <2>3 DEF ProgramInv, OwnInv
    <3>3. Programmed(curNode, flag, outFlag)'
      BY <1>1, <2>1, <3>1, <3>2 DEF Programmed
    <3>4. OwnInv'
      BY <1>1, <1>4, <2>1, <3>1, <3>2, OfFacts DEF OwnInv
    <3>5. QED
      BY <2>2, <3>1, <3>3, <3>4 DEF FreshInv, ProgramInv
  <2>4. CASE ~(curNode < graph.len)
    <3>1. pc' = "idle"
      BY <1>13, <2>4 DEF Advance, Return
    <3>2. QED
      BY <2>2, <3>1 DEF FreshInv, ProgramInv, OwnInv, Walking
  <2>5. QED
    BY <2>3, <2>4
<1>14. CASE CopyHeadFails \/ WaitTimeout \/ CopyNextFails \/ CopyOutFails
  BY <1>14 DEF CopyHeadFails, WaitTimeout, CopyNextFails, CopyOutFails, Return, Fresh
<1>15. QED
  BY <1>6, <1>7, <1>8, <1>9, <1>10, <1>11, <1>12, <1>13, <1>14 DEF DriverStep

\* The IP finishes in such a call.
LEMMA FinishFresh ==
    ASSUME TypeOK, ControlInv, Fresh, FreshInv, IpFinish
    PROVE  FreshInv'
<1>1. /\ graph \in Graphs /\ mem \in [Blocks -> Contents]
      /\ Nodes(graph) \in SUBSET Nat /\ 0 \notin Nodes(graph)
      /\ flag \in 0 .. 1 /\ outFlag \in 0 .. 2 /\ regs \in Registers
  BY GraphTypes DEF TypeOK
<1>2. /\ pc = "wait" /\ ip.job = regs /\ ~ip.torn
      /\ Programmed(curNode, flag, outFlag) /\ SpoiltInv /\ OwnInv
      /\ curNode \in Nodes(graph)
  BY DEF FreshInv, IpFinish, RestInv, ProgramInv, ControlInv, Walking
<1>3. /\ pc' = pc /\ graph' = graph /\ call' = call /\ curNode' = curNode
      /\ outFlag' = outFlag /\ oa' = oa
      /\ \A j : Reached(j)' <=> Reached(j)
      /\ \A b : HeadIn(b)' <=> HeadIn(b)
      /\ \A x, j : Of(x, j)' <=> Of(x, j)
  BY DEF IpFinish, statics, banks, Reached, HeadIn, Of
<1>4. ~ip'.busy
  BY DEF IpFinish, TypeOK
<1>5. mem' = [mem EXCEPT ![regs.out] = Result(mem, regs)]
  <2>1. \E x \in {Result(mem, ip.job)} : mem' = [mem EXCEPT ![ip.job.out] = x]
    BY <1>2 DEF IpFinish
  <2>2. QED
    BY <2>1, <1>2
<1>6. \A j \in Nodes(graph) : Of(Result(mem, regs), j) =>
         j = curNode /\ (Reached(curNode) \/ (curNode = 1 /\ 1 \in WellRead(graph)))
  BY <1>2, ResultOf
<1>7. ~Of(Result(mem, regs), 0)
  BY <1>1, <1>2 DEF Result, Programmed, Setting, Tensor, Of, Junk
<1>8. curNode = 1 => regs.out \in Oms
  BY <1>1, <1>2 DEF Programmed, Oms
<1>9. SpoiltInv'
  <2>1. ASSUME NEW b \in Blocks, NEW j \in Nodes(graph), Of(mem'[b], j)
        PROVE  Reached(j) \/ (j = 1 /\ HeadIn(b))
    <3>1. CASE b = regs.out
      <4>1. Of(Result(mem, regs), j)
        BY <1>1, <1>5, <2>1, <3>1
      <4>2. QED
        BY <1>6, <1>8, <3>1, <4>1 DEF HeadIn
    <3>2. CASE b # regs.out
      BY <1>1, <1>2, <1>5, <2>1, <3>2 DEF SpoiltInv
    <3>3. QED
      BY <3>1, <3>2
  <2>2. ASSUME NEW b \in Blocks, Of(mem'[b], 0)
        PROVE  1 \in WellRead(graph)
    <3>1. b # regs.out
      BY <1>1, <1>5, <1>7, <2>2
    <3>2. QED
      BY <1>1, <1>2, <1>5, <2>2, <3>1 DEF SpoiltInv
  <2>3. QED
    BY <1>2, <1>3, <2>1, <2>2 DEF SpoiltInv
<1>10. OwnInv'
  <2>1. Om(outFlag) \in Blocks
    BY <1>1, BlockFacts
  <2>2. mem'[Om(outFlag)] \in {mem[Om(outFlag)], Result(mem, regs)}
    BY <1>1, <1>5, <2>1
  <2>3. QED
    BY <1>2, <1>3, <1>6, <2>2 DEF OwnInv, Walking, Om
<1>11. QED
  BY <1>2, <1>3, <1>4, <1>9, <1>10 DEF FreshInv, RestInv, ProgramInv

LEMMA MisreadNext == TypeOK /\ ControlInv /\ MisreadInv /\ [Next]_vars => MisreadInv'
<1> SUFFICES ASSUME TypeOK, ControlInv, MisreadInv, [Next]_vars
             PROVE  MisreadInv'
  OBVIOUS
<1>1. AgeInv /\ AgeInv' /\ TypeOK' /\ ControlInv'
  BY AgeNext, ControlNext DEF MisreadInv
<1> SUFFICES ASSUME Fresh' PROVE FreshInv'
  BY <1>1 DEF MisreadInv
<1>2. ASSUME NEW g \in Graphs, Call(g)
      PROVE  FreshInv'
  <2>1. /\ pc' = "copyHead" /\ late' = ip.busy /\ ip'.busy = ip.busy
        /\ call' = call + 1 /\ mem' = mem /\ graph' = g
        /\ oa' = IF g = graph THEN oa ELSE [i \in Nodes(g) |-> Junk]
    BY <1>2 DEF Call, TypeOK
  <2>2. ~ip'.busy
    <3>1. ~late'
      BY DEF Fresh
    <3>2. QED
      BY <2>1, <3>1, Zenon
  <2>3. call \in Nat /\ mem \in [Blocks -> Contents] /\ oa \in [Nodes(graph) -> Contents]
    BY GraphsAssumption DEF TypeOK
  <2>4. \A b \in Blocks : \A j : ~Of(mem[b], j)'
    <3> SUFFICES ASSUME NEW b \in Blocks, mem[b].kind = "tensor"
                 PROVE  mem[b].call # call + 1
      BY <2>1 DEF Of
    <3>1. mem[b].call \in Nat /\ mem[b].call <= call
      BY <1>1, <2>3, ContentKinds DEF AgeInv
    <3>2. QED
      BY <2>3, <3>1
  <2>5. \A i \in Nodes(g) : \A j : ~Of(oa[i], j)'
    <3> SUFFICES ASSUME NEW i \in Nodes(g), oa'[i].kind = "tensor"
                 PROVE  oa'[i].call # call + 1
      BY <2>1 DEF Of
    <3>1. g = graph /\ oa' = oa
      BY <2>1 DEF Junk
    <3>2. oa[i].call \in Nat /\ oa[i].call <= call
      BY <1>1, <2>3, <3>1, ContentKinds DEF AgeInv
    <3>3. QED
      BY <2>3, <3>1, <3>2
  <2>6. SpoiltInv'
    BY <2>1, <2>4, <2>5 DEF SpoiltInv
  <2>7. QED
    BY <2>1, <2>2, <2>6 DEF FreshInv, RestInv, OwnInv, ProgramInv, Walking
<1>3. CASE DriverStep
  <2>1. pc # "idle" /\ late' = late
    BY <1>3 DEF DriverStep, CopyHead, CopyHeadFails, ProgramHead, Start,
         WaitDone, WaitTimeout, CopyNext, CopyNextFails, ProgramNext, CopyOut,
         CopyOutFails, Advance
  <2>2. Fresh /\ FreshInv
    BY <2>1 DEF MisreadInv, Fresh
  <2>3. QED
    BY <1>1, <1>3, <2>2, DriverFresh
<1>4. CASE IpFinish
  <2>1. Fresh
    BY <1>4 DEF IpFinish, Fresh
  <2>2. QED
    BY <1>4, <2>1, FinishFresh DEF MisreadInv
<1>5. CASE UNCHANGED vars
  <2>1. Fresh
    BY <1>5 DEF vars, Fresh
  <2>2. FreshInv
    BY <2>1 DEF MisreadInv
  <2>3. QED
    BY <1>5, <2>2 DEF vars, statics, banks, FreshInv, RestInv, SpoiltInv, OwnInv, ProgramInv,
       Programmed, Walking, Of, Reached, HeadIn, NextOut
<1>6. QED
  BY <1>2, <1>3, <1>4, <1>5 DEF Next

LEMMA MisreadInit == Init => MisreadInv
<1> SUFFICES ASSUME Init PROVE MisreadInv
  OBVIOUS
<1>1. graph \in Graphs
  BY GraphsAssumption DEF Init
<1>2. /\ \A b \in Blocks : mem[b] = Junk
      /\ \A i \in Nodes(graph) : oa[i] = Junk
      /\ ~ip.busy /\ pc = "idle" /\ Junk.kind # "tensor"
  BY DEF Init, Junk
<1>3. QED
  BY <1>1, <1>2 DEF MisreadInv, AgeInv, FreshInv, RestInv, SpoiltInv, OwnInv, ProgramInv,
     Walking, Of

LEMMA MisreadInductive == Spec => [](TypeOK /\ MisreadInv)
<1>1. Init => TypeOK /\ ControlInv /\ MisreadInv
  BY InitInv, MisreadInit
<1>2. TypeOK /\ ControlInv /\ MisreadInv /\ [Next]_vars => (TypeOK /\ ControlInv /\ MisreadInv)'
  BY ControlNext, MisreadNext
<1>3. QED
  BY <1>1, <1>2, PTL DEF Spec

\* In any graph whatever: the output of a node that reads the wrong block or an
\* input that software frames wrong, or that has such an ancestor, is never right,
\* nor is any if the head has a block of its own; all the others are, as long as no
\* shared output lies in a padding buffer.  Supported is therefore not only enough
\* but, except for the number of shared nodes, necessary, output by output.
THEOREM RightExactly == Spec => []RightExactlyIfWellRead
<1>1. TypeOK /\ MisreadInv /\ IInv => RightExactlyIfWellRead
  <2> SUFFICES ASSUME TypeOK, MisreadInv, IInv, pc = "idle", call > 0, ret = "ok", ~late,
                      NEW i \in Outputs(graph)
               PROVE  /\ oa[i] = Right(i) => Reached(i)
                      /\ Reached(i) /\ Cardinality(Specials(graph)) <= PadBase => oa[i] = Right(i)
    BY DEF RightExactlyIfWellRead, Reached
  <2>1. i \in Nodes(graph) /\ i \in Nat /\ i # 0
    BY GraphTypes DEF TypeOK, Outputs
  <2>2. oa[i] = Right(i) => Reached(i)
    BY <2>1, OfFacts DEF MisreadInv, Fresh, FreshInv, SpoiltInv
  <2>3. Reached(i) /\ Cardinality(Specials(graph)) <= PadBase => oa[i] = Right(i)
    BY DEF IInv, SafeInv, WellReadRight, Carried, Fits, Reached
  <2>4. QED
    BY <2>2, <2>3
<1>2. QED
  BY <1>1, MisreadInductive, Inductive, PTL

-----------------------------------------------------------------------------
(* What no step may do.                                                    *)

\* While the IP runs for the current call the caller is polling; it may run
\* elsewhere only torn, in a call that found it running.
IpInv ==
    /\ ip.busy /\ ~ip.torn => pc \in {"idle", "wait"}
    /\ pc # "idle" /\ ip.busy /\ ip.torn => late

LEMMA IpNext == TypeOK /\ IpInv /\ [Next]_vars => IpInv'
<1> SUFFICES ASSUME TypeOK, IpInv, [Next]_vars
             PROVE  IpInv'
  OBVIOUS
<1>1. ip \in [busy : BOOLEAN, job : Registers, torn : BOOLEAN]
  BY DEF TypeOK
<1>2. ASSUME NEW g \in Graphs, Call(g)
      PROVE  IpInv'
  <2>1. ip'.busy = ip.busy /\ ip'.torn = ip.busy /\ late' = ip.busy
    BY <1>2, <1>1 DEF Call
  <2>2. QED
    BY <2>1, Zenon DEF IpInv
<1>3. CASE Start
  <2>1. pc = "start" /\ pc' = "wait" /\ late' = late
    BY <1>3 DEF Start
  <2>2. ip' = ip \/ ip' = [busy |-> TRUE, job |-> regs, torn |-> FALSE]
    BY <1>3 DEF Start
  <2>3. ip'.torn => ip' = ip
    BY <2>2
  <2>4. QED
    BY <2>1, <2>3 DEF IpInv
<1>4. CASE IpFinish
  BY <1>4, <1>1 DEF IpFinish, IpInv
<1>5. CASE WaitDone
  BY <1>5 DEF WaitDone, StartCleared, IpInv
<1>6. CASE WaitTimeout
  BY <1>6 DEF WaitTimeout, Return, IpInv
<1>7. CASE \/ CopyHead \/ CopyHeadFails \/ ProgramHead \/ CopyNext \/ CopyNextFails
           \/ ProgramNext \/ CopyOut \/ CopyOutFails \/ Advance
  <2>1. /\ ip' = ip /\ late' = late
        /\ pc \notin {"idle", "wait"}
    BY <1>7 DEF CopyHead, CopyHeadFails, ProgramHead, CopyNext, CopyNextFails,
       ProgramNext, CopyOut, CopyOutFails, Advance
  <2>2. QED
    BY <2>1 DEF IpInv
<1>8. CASE UNCHANGED vars
  BY <1>8 DEF vars, IpInv
<1>9. QED
  BY <1>2, <1>3, <1>4, <1>5, <1>6, <1>7, <1>8 DEF Next, DriverStep

LEMMA IpInvariant == Spec => [](TypeOK /\ IpInv)
<1>1. Init => IpInv
  BY DEF Init, IpInv
<1>2. QED
  BY <1>1, IpNext, TypeCorrect, PTL DEF Spec

\* No block the IP reads or writes in a run of the current call is touched by
\* the processor: not by a copy from the user, not by the clearing of an
\* output block, not by the padding of an input.
THEOREM NoWriteUnderTheIp == Spec => NoWriteUnderIp
<1> DEFINE A == ip.busy /\ ip'.busy /\ ~ip.torn /\ ~ip'.torn =>
                   \A b \in JobBlocks(ip.job) : mem'[b] = mem[b]
<1>1. TypeOK /\ IpInv /\ [Next]_vars => [A]_vars
  <2> SUFFICES ASSUME TypeOK, IpInv, [Next]_vars,
                      ip.busy, ip'.busy, ~ip.torn, ~ip'.torn
               PROVE  mem' = mem
    OBVIOUS
  <2>1. pc \in {"idle", "wait"}
    BY DEF IpInv
  <2>2. ~IpFinish
    BY DEF IpFinish, TypeOK
  <2>3. QED
    BY <2>1, <2>2 DEF Next, DriverStep, Call, CopyHead, CopyHeadFails, ProgramHead,
       Start, WaitDone, WaitTimeout, CopyNext, CopyNextFails, ProgramNext, CopyOut,
       CopyOutFails, Advance, vars
<1>2. QED
  BY <1>1, IpInvariant, PTL DEF Spec, NoWriteUnderIp

\* The only way out of a call that leaves its run of the IP behind is the
\* time-out of the poll.
THEOREM NoRunIsAbandoned == Spec => NoRunAbandoned
<1> DEFINE A == pc # "idle" /\ pc' = "idle" /\ ip'.busy => ret' = "ETIMEDOUT" \/ late
<1>1. TypeOK /\ IpInv /\ [Next]_vars => [A]_vars
  <2> SUFFICES ASSUME TypeOK, IpInv, [Next]_vars,
                      pc # "idle", pc' = "idle", ip'.busy, ~late
               PROVE  ret' = "ETIMEDOUT"
    OBVIOUS
  <2>1. ip.busy => pc = "wait"
    BY DEF IpInv
  <2>2. CASE WaitTimeout
    BY <2>2 DEF WaitTimeout, Return
  <2>3. CASE CopyHeadFails \/ CopyNextFails \/ CopyOutFails \/ Advance
    BY <2>1, <2>3 DEF CopyHeadFails, CopyNextFails, CopyOutFails, Advance
  <2>4. QED
    BY <2>2, <2>3 DEF Next, DriverStep, Call, CopyHead, ProgramHead, Start, IpFinish,
       WaitDone, CopyNext, ProgramNext, CopyOut, vars
<1>2. QED
  BY <1>1, IpInvariant, PTL DEF Spec, NoRunAbandoned

\* A user buffer receives its node's tensor for the current input or nothing:
\* also in a call that fails later, no output is given a tensor of another
\* node or of another call.
THEOREM OnlyRightTensors == Spec => OnlyRightTensorsDelivered
<1> DEFINE A == pc # "idle" /\ Trusted =>
                   \A i \in Nodes(graph) : oa'[i] # oa[i] => oa'[i] \in {Right(i), Junk}
<1>1. IInv /\ [Next]_vars => [A]_vars
  <2> SUFFICES ASSUME IInv, [Next]_vars, pc # "idle", Trusted,
                      NEW i \in Nodes(graph), oa'[i] # oa[i]
               PROVE  oa'[i] \in {Right(i), Junk}
    OBVIOUS
  <2>1. TypeOK /\ ControlInv /\ DataInv /\ Carried /\ WellRead(graph) = Nodes(graph)
    BY TrustedFacts DEF IInv, SafeInv
  <2>2. oa' # oa
    OBVIOUS
  <2>3. CopyOut \/ CopyOutFails
    BY <2>2 DEF Next, DriverStep, Call, CopyHead, CopyHeadFails, ProgramHead, Start,
       WaitDone, WaitTimeout, CopyNext, CopyNextFails, ProgramNext, Advance, IpFinish, vars
  <2>4. oa \in [Nodes(graph) -> Contents]
    BY <2>1 DEF TypeOK
  <2>5. CASE CopyOutFails
    BY <2>4, <2>5 DEF CopyOutFails
  <2>6. CASE CopyOut
    <3>1. pc = "copyOut" /\ graph.isOutput[curNode]
      BY <2>2, <2>6 DEF CopyOut
    <3>2. mem[OutputSource] = Right(curNode)
      BY <2>1, <3>1, OutputSourceRight DEF ControlInv, Walking
    <3>3. convParam = curNode
      BY <2>1, <3>1 DEF ControlInv, Walking
    <3>4. QED
      BY <2>4, <2>6, <3>1, <3>2, <3>3 DEF CopyOut
  <2>7. QED
    BY <2>3, <2>5, <2>6
<1>2. QED
  BY <1>1, Inductive, PTL DEF Spec, OnlyRightTensorsDelivered

-----------------------------------------------------------------------------
(* SubgraphExec implements SubgraphService: whatever the copies, the IP    *)
(* and the time-outs do, for any graphs and any number of calls, a caller  *)
(* of the driver sees a behaviour of the service.                          *)

\* The refinement mapping of SubgraphExec!Service.
Serving == pc # "idle"
HandedOver ==
    IF pc \in {"idle", "copyHead", "programHead"} THEN {}
    ELSE {i \in Outputs(graph) : i < curNode \/ (i = curNode /\ pc = "advance")}
Hung == pc = "idle" /\ ip.busy

LEMMA SameGraphs ==
    /\ \A g : Service!Nodes(g) = Nodes(g)
    /\ \A g : Service!Outputs(g) = Outputs(g)
    /\ \A g : Service!Supported(g) <=> Supported(g)
    /\ Service!Spoilt = Junk
    /\ \A g, c, i : Service!Wanted(g, c, i) = Tensor(g, c, i, 0)
    /\ Service!Promised <=> Trusted
<1>1. \A g : Service!Nodes(g) = Nodes(g)
  BY DEF Service!Nodes, Nodes
<1>2. \A S : Service!Cardinality(S) = Cardinality(S)
  BY DEF Service!Cardinality, Cardinality
<1>3. \A g, i : Service!Special(g, i) <=> Special(g, i)
  BY <1>1, <1>2 DEF Service!Special, Special, Service!RefCount, RefCount, Service!Children, Children
<1>4. \A g : Service!Specials(g) = Specials(g) /\ Service!Outputs(g) = Outputs(g)
  BY <1>1, <1>3 DEF Service!Specials, Specials, Service!Outputs, Outputs
<1>5. \A g, i : Service!Misframed(g, i) <=> Misframed(g, i)
  BY <1>3 DEF Service!Misframed, Misframed, Service!SoftwareFrames, SoftwareFrames
<1>6. \A g : Service!Supported(g) <=> Supported(g)
  BY <1>1, <1>2, <1>3, <1>4, <1>5 DEF Service!Supported, Supported
<1>7. Service!Spoilt = Junk /\ \A g, c, i : Service!Wanted(g, c, i) = Tensor(g, c, i, 0)
  BY DEF Service!Spoilt, Junk, Service!Wanted, Tensor
<1> QED
  BY <1>1, <1>4, <1>6, <1>7 DEF Service!Promised, Trusted

LEMMA InitMaps == Init => Service!Init
<1> SUFFICES ASSUME Init PROVE Service!Init
  OBVIOUS
<1>1. pc = "idle" /\ ip.busy = FALSE /\ late = FALSE /\ call = 0 /\ graph = (CHOOSE g \in Graphs : TRUE) /\ ret = "ok"
  BY DEF Init
<1>2. oa = [i \in Service!Nodes(graph) |-> Service!Spoilt]
  BY SameGraphs DEF Init
<1> QED
  BY <1>1, <1>2 DEF Service!Init

\* The abstract variables in the words of the mapping.
LEMMA BeginIs ==
    ASSUME NEW g \in Graphs, pc = "idle", call < MaxCalls, pc' # "idle", call' = call + 1, graph' = g,
           late' = Hung, HandedOver' = {}, ret' = ret,
           oa' = IF g = graph THEN oa ELSE [i \in Nodes(g) |-> Junk]
    PROVE  Service!Next
<1>1. Service!Begin(g)
  BY SameGraphs DEF Service!Begin, HandedOver, Hung
<1> QED
  BY <1>1 DEF Service!Next

LEMMA DeliverIs ==
    ASSUME pc # "idle", pc' # "idle", UNCHANGED <<call, graph, late, ret>>,
           NEW i \in Outputs(graph), i \notin HandedOver, HandedOver' = HandedOver \cup {i},
           \A j \in Outputs(graph) : j < i => j \in HandedOver,
           oa' = [oa EXCEPT ![i] = oa'[i]],
           Trusted => oa'[i] = Right(i)
    PROVE  Service!Next
<1>1. Trusted => oa'[i] = Service!Wanted(graph, call, i)
  BY SameGraphs DEF Right
<1>2. i \in Service!Nodes(graph)
  BY SameGraphs DEF Outputs
<1>3. Service!Deliver(i)
  BY <1>1, SameGraphs DEF Service!Deliver, HandedOver
<1> QED
  BY <1>2, <1>3 DEF Service!Next

LEMMA SucceedIs ==
    ASSUME pc # "idle", pc' = "idle", ret' = "ok", HandedOver = Outputs(graph),
           UNCHANGED <<call, graph, late, oa>>, ip'.busy \in BOOLEAN, late \in BOOLEAN, ip'.busy => late
    PROVE  Service!Next
<1>1. (pc' = "idle" /\ ip'.busy) \in (IF late THEN BOOLEAN ELSE {FALSE})
  OBVIOUS
<1>2. Service!Succeed
  BY <1>1, SameGraphs DEF Service!Succeed, HandedOver
<1> QED
  BY <1>2 DEF Service!Next

LEMMA FailIs ==
    ASSUME pc # "idle", pc' = "idle", UNCHANGED <<call, graph, late>>, ip'.busy \in BOOLEAN, late \in BOOLEAN,
           \/ /\ ret' = "EFAULT" /\ (ip'.busy => late)
              /\ \/ oa' = oa
                 \/ \E i \in Outputs(graph) \ HandedOver : oa' = [oa EXCEPT ![i] = Junk]
           \/ ret' = "ETIMEDOUT" /\ ip'.busy /\ oa' = oa
    PROVE  Service!Next
<1>1. (ip'.busy => late) => (pc' = "idle" /\ ip'.busy) \in (IF late THEN BOOLEAN ELSE {FALSE})
  OBVIOUS
<1>2. Service!Fail
  BY <1>1, SameGraphs DEF Service!Fail, HandedOver
<1> QED
  BY <1>2 DEF Service!Next

LEMMA StutterIs ==
    ASSUME UNCHANGED <<call, graph, late, ret, oa>>, (pc' # "idle") = (pc # "idle"),
           HandedOver' = HandedOver, Hung' = Hung
    PROVE  UNCHANGED Service!vars
BY DEF Service!vars, HandedOver, Hung

\* In a call the walk returns from, the IP is still busy only if it was when the call
\* began, or the poll has timed out.
LEMMA ReturnsAtRest ==
    ASSUME TypeOK, IpInv, pc \notin {"idle", "wait"}
    PROVE  ip.busy \in BOOLEAN /\ late \in BOOLEAN /\ (ip.busy => late)
BY Zenon DEF TypeOK, IpInv

LEMMA HandedOverIs ==
    ASSUME TypeOK, ControlInv, Walking
    PROVE  /\ curNode \in Nat /\ curNode \in Nodes(graph) /\ convParam = curNode
           /\ graph.len \in Nat /\ Outputs(graph) \in SUBSET Nat
           /\ \A i \in Outputs(graph) : i <= graph.len
           /\ HandedOver = {i \in Outputs(graph) : i < curNode \/ (i = curNode /\ pc = "advance")}
<1>1. curNode \in Nodes(graph) /\ convParam = curNode /\ graph \in Graphs
  BY DEF TypeOK, ControlInv, Walking
<1>2. graph.len \in Nat
  BY <1>1, GraphTypes
<1>3. HandedOver = {i \in Outputs(graph) : i < curNode \/ (i = curNode /\ pc = "advance")}
  BY DEF HandedOver, Walking
<1> QED
  BY <1>1, <1>2, <1>3 DEF Nodes, Outputs

LEMMA CallMaps ==
    ASSUME TypeOK, NEW g \in Graphs, Call(g)
    PROVE  Service!Next
<1>1. /\ pc = "idle" /\ call < MaxCalls /\ call' = call + 1 /\ graph' = g /\ pc' = "copyHead" /\ ret' = ret
      /\ oa' = IF g = graph THEN oa ELSE [i \in Nodes(g) |-> Junk]
  BY DEF Call
<1>2. late' = Hung
  <2>1. late' = ip.busy /\ ip.busy \in BOOLEAN
    BY DEF Call, TypeOK
  <2> QED
    BY <1>1, <2>1 DEF Hung
<1>3. HandedOver' = {}
  BY <1>1 DEF HandedOver
<1> QED
  BY <1>1, <1>2, <1>3, BeginIs

LEMMA CopyOutMaps ==
    ASSUME TypeOK, ControlInv, IpInv, Trusted => DataInv, CopyOut
    PROVE  Service!Next \/ UNCHANGED Service!vars
<1>1. /\ pc = "copyOut" /\ pc' = "advance" /\ UNCHANGED <<call, graph, ret, curNode, late>>
      /\ oa' = IF graph.isOutput[curNode] THEN [oa EXCEPT ![convParam] = mem[OutputSource]] ELSE oa
  BY DEF CopyOut, statics
<1>2. /\ curNode \in Nat /\ curNode \in Nodes(graph) /\ convParam = curNode /\ Outputs(graph) \in SUBSET Nat
      /\ HandedOver = {i \in Outputs(graph) : i < curNode}
  BY <1>1, HandedOverIs DEF Walking
<1>3. HandedOver' = {i \in Outputs(graph) : i < curNode \/ i = curNode}
  BY <1>1 DEF HandedOver
<1>4. CASE graph.isOutput[curNode]
  <2>1. curNode \in Outputs(graph) /\ curNode \notin HandedOver
    BY <1>2, <1>4 DEF Outputs
  <2>2. HandedOver' = HandedOver \cup {curNode}
    BY <1>2, <1>3, <2>1
  <2>3. \A j \in Outputs(graph) : j < curNode => j \in HandedOver
    BY <1>2
  <2>4. oa \in [Nodes(graph) -> Contents]
    BY DEF TypeOK
  <2>5. oa' = [oa EXCEPT ![curNode] = oa'[curNode]] /\ oa'[curNode] = mem[OutputSource]
    BY <1>1, <1>2, <1>4, <2>4
  <2>6. Trusted => oa'[curNode] = Right(curNode)
    BY <1>1, <1>2, <1>4, <2>5, TrustedFacts, OutputSourceRight
  <2> QED
    BY <1>1, <2>1, <2>2, <2>3, <2>5, <2>6, DeliverIs
<1>5. CASE ~graph.isOutput[curNode]
  <2>1. curNode \notin Outputs(graph)
    BY <1>5 DEF Outputs
  <2>2. HandedOver' = HandedOver
    BY <1>2, <1>3, <2>1
  <2>3. Hung' = Hung
    BY <1>1 DEF Hung
  <2> QED
    BY <1>1, <1>5, <2>2, <2>3, StutterIs
<1> QED
  BY <1>4, <1>5

LEMMA AdvanceMaps ==
    ASSUME TypeOK, ControlInv, IpInv, Advance
    PROVE  Service!Next \/ UNCHANGED Service!vars
<1>1. pc = "advance" /\ UNCHANGED <<call, graph, ip, oa, late>>
  BY DEF Advance
<1>2. /\ curNode \in Nat /\ graph.len \in Nat /\ Outputs(graph) \in SUBSET Nat
      /\ \A i \in Outputs(graph) : i <= graph.len
      /\ HandedOver = {i \in Outputs(graph) : i < curNode \/ i = curNode}
  BY <1>1, HandedOverIs DEF Walking
<1>3. CASE curNode < graph.len /\ curNode' = nextNode /\ pc' = "start" /\ ret' = ret
  <2>1. curNode' = curNode + 1
    BY <1>1, <1>3 DEF ControlInv
  <2>2. HandedOver' = {i \in Outputs(graph) : i < curNode + 1}
    BY <1>1, <1>3, <2>1 DEF HandedOver
  <2>3. HandedOver' = HandedOver
    BY <1>2, <2>2
  <2>4. Hung' = Hung
    BY <1>1, <1>3 DEF Hung
  <2> QED
    BY <1>1, <1>3, <2>3, <2>4, StutterIs
<1>4. CASE curNode = graph.len /\ pc' = "idle" /\ ret' = "ok"
  <2>1. HandedOver = Outputs(graph)
    BY <1>2, <1>4
  <2>2. ip.busy \in BOOLEAN /\ late \in BOOLEAN /\ (ip.busy => late)
    BY <1>1, ReturnsAtRest
  <2> QED
    BY <1>1, <1>4, <2>1, <2>2, SucceedIs
<1> QED
  BY <1>3, <1>4 DEF Advance, Return

LEMMA FailuresMap ==
    ASSUME TypeOK, ControlInv, IpInv, CopyHeadFails \/ CopyNextFails \/ CopyOutFails \/ WaitTimeout
    PROVE  Service!Next
<1>1. CASE CopyHeadFails \/ CopyNextFails
  <2>1. /\ pc \in {"copyHead", "copyNext"} /\ pc' = "idle" /\ ret' = "EFAULT"
        /\ UNCHANGED <<call, graph, ip, oa, late>>
    BY <1>1 DEF CopyHeadFails, CopyNextFails, Return
  <2>2. ip.busy \in BOOLEAN /\ late \in BOOLEAN /\ (ip.busy => late)
    BY <2>1, ReturnsAtRest
  <2> QED
    BY <2>1, <2>2, FailIs
<1>2. CASE CopyOutFails
  <2>1. /\ pc = "copyOut" /\ pc' = "idle" /\ ret' = "EFAULT" /\ graph.isOutput[curNode]
        /\ oa' = [oa EXCEPT ![convParam] = Junk] /\ UNCHANGED <<call, graph, ip, late>>
    BY <1>2 DEF CopyOutFails, Return
  <2>2. ip.busy \in BOOLEAN /\ late \in BOOLEAN /\ (ip.busy => late)
    BY <2>1, ReturnsAtRest
  <2>3. convParam \in Outputs(graph) \ HandedOver
    BY <2>1, HandedOverIs DEF Walking, Outputs
  <2> QED
    BY <2>1, <2>2, <2>3, FailIs
<1>3. CASE WaitTimeout
  <2>1. /\ pc = "wait" /\ pc' = "idle" /\ ret' = "ETIMEDOUT" /\ ip.busy
        /\ UNCHANGED <<call, graph, ip, oa, late>>
    BY <1>3 DEF WaitTimeout, StartCleared, Return
  <2>2. ip.busy \in BOOLEAN /\ late \in BOOLEAN
    BY Zenon DEF TypeOK
  <2> QED
    BY <2>1, <2>2, FailIs
<1> QED
  BY <1>1, <1>2, <1>3

LEMMA WalkStutters ==
    ASSUME TypeOK, ControlInv, CopyHead \/ ProgramHead \/ Start \/ WaitDone \/ CopyNext \/ ProgramNext
    PROVE  UNCHANGED Service!vars
<1>1. /\ pc # "idle" /\ pc' # "idle" /\ UNCHANGED <<call, graph, late, ret, oa>>
  BY DEF CopyHead, ProgramHead, Start, WaitDone, CopyNext, ProgramNext
<1>2. Hung' = Hung
  BY <1>1 DEF Hung
<1>3. HandedOver' = HandedOver
  <2>1. CASE CopyHead
    BY <2>1 DEF CopyHead, HandedOver
  <2>2. CASE ProgramHead
    <3>1. pc = "programHead" /\ pc' = "start" /\ curNode' = 1 /\ graph' = graph
      BY <2>2 DEF ProgramHead
    <3>2. Outputs(graph) \in SUBSET {i \in Nat : i >= 1}
      BY GraphTypes DEF TypeOK, Outputs, Nodes
    <3> QED
      BY <3>1, <3>2 DEF HandedOver
  <2>3. CASE Start \/ WaitDone \/ CopyNext \/ ProgramNext
    <3>1. /\ pc \in {"start", "wait", "copyNext", "programNext"} /\ pc' \in {"wait", "copyNext", "copyOut", "programNext"}
          /\ curNode' = curNode /\ graph' = graph
      BY <2>3 DEF Start, WaitDone, CopyNext, ProgramNext, statics
    <3> QED
      BY <3>1 DEF HandedOver
  <2> QED
    BY <2>1, <2>2, <2>3
<1> QED
  BY <1>1, <1>2, <1>3, StutterIs

LEMMA FinishMaps ==
    ASSUME TypeOK, IpFinish
    PROVE  Service!Next \/ UNCHANGED Service!vars
<1>1. ip.busy /\ ip'.busy = FALSE /\ UNCHANGED <<call, graph, pc, ret, curNode, oa, late>>
  BY DEF IpFinish, TypeOK, statics
<1>2. HandedOver' = HandedOver
  BY <1>1 DEF HandedOver
<1>3. CASE pc = "idle"
  <2>1. Service!Recover
    BY <1>1, <1>2, <1>3 DEF Service!Recover, HandedOver
  <2> QED
    BY <2>1 DEF Service!Next
<1>4. CASE pc # "idle"
  <2>1. Hung' = Hung
    BY <1>1, <1>4 DEF Hung
  <2> QED
    BY <1>1, <1>2, <2>1, StutterIs
<1> QED
  BY <1>3, <1>4

LEMMA StepMaps == IInv /\ IpInv /\ [Next]_vars => [Service!Next]_(Service!vars)
<1> SUFFICES ASSUME IInv, IpInv, [Next]_vars PROVE Service!Next \/ UNCHANGED Service!vars
  OBVIOUS
<1>1. TypeOK /\ ControlInv /\ (pc # "idle" /\ Trusted => DataInv)
  BY TrustedFacts DEF IInv, SafeInv
<1>2. CASE \E g \in Graphs : Call(g)
  BY <1>1, <1>2, CallMaps
<1>3. CASE CopyOut
  <2>1. pc # "idle"
    BY <1>3 DEF CopyOut
  <2> QED
    BY <1>1, <1>3, <2>1, CopyOutMaps
<1>4. CASE Advance
  BY <1>1, <1>4, AdvanceMaps
<1>5. CASE CopyHeadFails \/ CopyNextFails \/ CopyOutFails \/ WaitTimeout
  BY <1>1, <1>5, FailuresMap
<1>6. CASE CopyHead \/ ProgramHead \/ Start \/ WaitDone \/ CopyNext \/ ProgramNext
  BY <1>1, <1>6, WalkStutters
<1>7. CASE IpFinish
  BY <1>1, <1>7, FinishMaps
<1>8. CASE UNCHANGED vars
  <2>1. UNCHANGED <<call, graph, pc, ret, curNode, ip, oa, late>>
    BY <1>8 DEF vars, statics
  <2>2. HandedOver' = HandedOver /\ Hung' = Hung
    BY <2>1 DEF HandedOver, Hung
  <2> QED
    BY <2>1, <2>2, StutterIs
<1> QED
  BY <1>2, <1>3, <1>4, <1>5, <1>6, <1>7, <1>8 DEF Next, DriverStep

-----------------------------------------------------------------------------

\* The driver's walk over blocks and registers, with every copy that fails, every
\* time-out and every late run of the IP, is to its callers the service of
\* SubgraphService: outputs handed over in order, right for a supported graph on an IP
\* at rest, and 0 returned only after the last.
THEOREM DriverImplementsService == Spec => ImplementsService
<1>1. Init => Service!Init
  BY InitMaps
<1>2. IInv /\ IpInv /\ [Next]_vars => [Service!Next]_(Service!vars)
  BY StepMaps
<1> QED
  BY <1>1, <1>2, Inductive, IpInvariant, PTL DEF Spec, ImplementsService, Service!Spec

=============================================================================
