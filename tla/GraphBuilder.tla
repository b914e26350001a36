----------------------------- MODULE GraphBuilder -----------------------------
(***************************************************************************)
(* How the engine makes a device graph out of a subgraph's program, and    *)
(* how it is destroyed: ConvConverter once for each convolution            *)
(* (lite/kernels/intel_fpga/bridges/conv_op.cc), Graph::BuildDeviceModel   *)
(* over the finished list (bridges/graph.cc), ~Graph (bridges/graph.h).    *)
(*                                                                         *)
(* A program is a record P: the convolutions P.ops in execution order,     *)
(* each with its input and output tensor, its padding, its kernel's height *)
(* and width and whether it is depthwise; P.outputs, the tensors that leave the      *)
(* subgraph; P.shape, the channels, height and width of every tensor.      *)
(* Pointers are pairs: <<"tensor", name>> is memory a tensor owns,         *)
(* <<kind, i>> an allocation made for node i.                              *)
(***************************************************************************)
EXTENDS DeviceGraph, Sequences

CONSTANTS
    Programs,    \* the programs of the subgraphs
    Tile,        \* INPUT_EXTEND_SCALE and the other channel tiles (16)
    BlockSize,   \* NNA_IDM_SIZE and NNA_ODM_SIZE
    WeightBlock, \* NNA_KDM_SIZE
    ScaleBlock   \* NNA_BSDM_SIZE

Tensors(P) == DOMAIN P.shape

\* What the subgraph detector guarantees: every convolution but the first reads
\* what an earlier one wrote, no tensor is written twice.
IsProgram(P) ==
    LET n == Len(P.ops)
    IN  /\ P.ops \in Seq([in : Tensors(P), out : Tensors(P), pad : Nat, kh : Nat, kw : Nat,
                        dw : BOOLEAN])
        /\ P.shape \in [Tensors(P) -> [c : Nat \ {0}, h : Nat \ {0}, w : Nat \ {0}]]
        /\ n > 0 /\ P.outputs \subseteq Tensors(P)
        /\ \A i, j \in 1 .. n : P.ops[i].out = P.ops[j].out => i = j
        /\ \A i \in 1 .. n : P.ops[i].out # P.ops[1].in
        /\ \A i \in 2 .. n : \E j \in 1 .. (i - 1) : P.ops[i].in = P.ops[j].out

ASSUME BuilderAssumption ==
    /\ \A P \in Programs : IsProgram(P)
    /\ {Tile, BlockSize, WeightBlock, ScaleBlock} \subseteq Nat \ {0}

VARIABLES
    prog,         \* the program
    pc,           \* convert, build, ready, delete, gone; aborted by a CHECK
    cur,          \* the convolution or list node that is next
    nodes,        \* the nodes made so far, in the order they were made
    root, tail,   \* root_, tail_
    tensor2node,  \* tensor2node_, 0 for a tensor no node writes
    ddrBlock,     \* the local ddr_block of BuildDeviceModel
    din,          \* din_
    outputNodes,  \* output_nodes_: for each output node the tensor's memory
    maxOut,       \* max_device_output_size_
    dataBuff,     \* bytes of data_buff_
    heap,         \* the allocations that are live
    foreign       \* history: what ~Graph deleted without owning it

list == <<nodes, root, tail, tensor2node>>
model == <<ddrBlock, din, outputNodes, maxOut, dataBuff>>
vars == <<prog, pc, cur, list, model, heap, foreign>>

Null == <<"null", 0>>
TensorMem(t) == <<"tensor", t>>

\* Bytes of a tensor of shape s in the device's layout, framed by padding p.
Extent(s, p) ==
    ((s.c - 1) \div Tile + 1) * Tile * (s.h + 2 * p) * (s.w + 2 * p)

Op(i) == prog.ops[i]
InShape(i) == prog.shape[Op(i).in]
OutShape(i) == prog.shape[Op(i).out]

Init ==
    /\ prog \in Programs
    /\ pc = "convert" /\ cur = 1
    /\ nodes = <<>> /\ root = 0 /\ tail = 0
    /\ tensor2node = [t \in Tensors(prog) |-> 0]
    /\ ddrBlock = 0 /\ din = Null /\ maxOut = 0 /\ dataBuff = 0
    /\ outputNodes = <<>>
    /\ heap = {} /\ foreign = {}

Abort == pc' = "aborted" /\ UNCHANGED <<prog, cur, list, model, heap, foreign>>

-----------------------------------------------------------------------------
(* ConvConverter.                                                          *)

Tiles(n) == (n - 1) \div Tile + 1

WeightSize(i) ==
    LET blocks == IF Op(i).dw THEN Tiles(OutShape(i).c)
                  ELSE Tiles(OutShape(i).c) * Tiles(InShape(i).c)
    IN  blocks * Tile * Op(i).kh * Op(i).kw * Tile

\* A factor and a bias for each output channel and two more numbers, in floats.
ScaleSize(i) == (2 * OutShape(i).c + 2) * 4

Refused(i) ==
    \/ tensor2node[Op(i).out] # 0
    \/ ScaleSize(i) > ScaleBlock
    \/ WeightSize(i) > WeightBlock
    \/ Op(i).kw > 3

NewNode(i) ==
    [parent |-> tensor2node[Op(i).in], next |-> 0, ref |-> 0,
     isOutput |-> Op(i).out \in prog.outputs, inPad |-> Op(i).pad, outPad |-> 0,
     ddr |-> 0, extIn |-> 0, extOut |-> 0,
     ia |-> TensorMem(Op(i).in), oa |-> TensorMem(Op(i).out)]

\* The parent counts one more reader, the last node of the list links to the new.
LinkedMutant(parent, i) ==
    [k \in DOMAIN nodes |->
        [nodes[k] EXCEPT !.ref = IF k = tail THEN @ + 1 ELSE @,
                         !.next = IF k = tail THEN i ELSE @]]
LinkedAheadMutant(parent, i) ==
    [k \in DOMAIN nodes |->
        [nodes[k] EXCEPT !.ref = IF k = parent THEN @ + 1 ELSE @,
                         !.next = IF k = tail THEN i + 1 ELSE @]]
Linked(parent, i) ==
    [k \in DOMAIN nodes |->
        [nodes[k] EXCEPT !.ref = IF k = parent THEN @ + 1 ELSE @,
                         !.next = IF k = tail THEN i ELSE @]]

Convert ==
    /\ pc = "convert" /\ cur <= Len(prog.ops) /\ ~Refused(cur)
    /\ LET new == NewNode(cur)
       IN  /\ nodes' = Append(Linked(new.parent, cur), new)
           /\ root' = IF new.parent = 0 THEN cur ELSE root
    /\ tail' = cur
    /\ tensor2node' = [tensor2node EXCEPT ![Op(cur).out] = cur]
    /\ heap' = heap \cup ({"node", "param", "ip", "ba", "ka"} \X {cur})
    /\ cur' = cur + 1
    /\ UNCHANGED <<prog, pc, model, foreign>>

ConvertRefused ==
    /\ pc = "convert" /\ cur <= Len(prog.ops) /\ Refused(cur)
    /\ Abort

Converted ==
    /\ pc = "convert" /\ cur > Len(prog.ops)
    /\ pc' = "build" /\ cur' = root
    /\ UNCHANGED <<prog, list, model, heap, foreign>>

-----------------------------------------------------------------------------
(* BuildDeviceModel.                                                       *)

OwnBlock(n) == (n.isOutput /\ n.ref = 1) \/ n.ref > 1

FramePad(n) == IF n.ref = 1 /\ n.next # 0 /\ ~n.isOutput THEN nodes[n.next].inPad ELSE 0

\* The extent of the output is taken after out_pad has been set.
OutExtentMutant(i) == Extent(OutShape(i), 0)
OutExtent(i) == Extent(OutShape(i), FramePad(nodes[i]))

TooLarge(i) == Extent(InShape(i), Op(i).pad) > BlockSize \/ OutExtent(i) > BlockSize

Completed(i) ==
    [nodes[i] EXCEPT !.outPad = FramePad(nodes[i]),
                     !.ddr = IF OwnBlock(nodes[i]) THEN ddrBlock ELSE @,
                     !.extIn = Extent(InShape(i), Op(i).pad),
                     !.extOut = OutExtent(i),
                     !.oa = IF nodes[i].isOutput THEN <<"oa", i>> ELSE @]

\* An output node's tensor is remembered before oa is pointed at a new buffer.
TensorOfMutant(i) == Completed(i).oa
TensorOf(i) == nodes[i].oa

BuildNode ==
    /\ pc = "build" /\ cur # 0 /\ ~TooLarge(cur)
    /\ nodes' = [nodes EXCEPT ![cur] = Completed(cur)]
    /\ ddrBlock' = IF OwnBlock(nodes[cur]) THEN ddrBlock + 1 ELSE ddrBlock
    /\ IF nodes[cur].isOutput
       THEN /\ outputNodes' = [i \in DOMAIN outputNodes \cup {cur} |->
                                  IF i = cur THEN TensorOf(cur) ELSE outputNodes[i]]
            /\ maxOut' = IF OutExtent(cur) > maxOut THEN OutExtent(cur) ELSE maxOut
            /\ heap' = heap \cup {<<"oa", cur>>}
       ELSE UNCHANGED <<outputNodes, maxOut, heap>>
    /\ cur' = nodes[cur].next
    /\ UNCHANGED <<prog, pc, root, tail, tensor2node, din, dataBuff, foreign>>

BuildRefused ==
    /\ pc = "build" /\ cur # 0 /\ TooLarge(cur)
    /\ Abort

Built ==
    /\ pc = "build" /\ cur = 0
    /\ din' = nodes[root].ia
    /\ nodes' = [nodes EXCEPT ![root].ia = <<"ia", root>>]
    /\ dataBuff' = maxOut + nodes[root].extIn
    /\ heap' = heap \cup {<<"ia", root>>, <<"data_buff", 0>>}
    /\ pc' = "ready"
    /\ UNCHANGED <<prog, cur, root, tail, tensor2node, ddrBlock, outputNodes, maxOut, foreign>>

-----------------------------------------------------------------------------
(* ~Graph.                                                                 *)

\* delete of pointers the graph may or may not own.
Delete(ps) == heap' = heap \ ps /\ foreign' = foreign \cup (ps \ heap)

DeleteInput ==
    /\ pc = "ready"
    /\ Delete({nodes[root].ia})
    /\ pc' = "delete" /\ cur' = root
    /\ UNCHANGED <<prog, list, model>>

DeletesOaMutant(n) == n.isOutput
DeletesOa(n) == n.ref = 0

DeleteNode ==
    /\ pc = "delete" /\ cur # 0
    /\ Delete(({"node", "param", "ip", "ba", "ka"} \X {cur})
                \cup (IF DeletesOa(nodes[cur]) THEN {nodes[cur].oa} ELSE {}))
    /\ cur' = nodes[cur].next
    /\ UNCHANGED <<prog, pc, list, model>>

DeleteBuffer ==
    /\ pc = "delete" /\ cur = 0
    /\ Delete({<<"data_buff", 0>>})
    /\ pc' = "gone"
    /\ UNCHANGED <<prog, cur, list, model>>

Next ==
    \/ Convert \/ ConvertRefused \/ Converted
    \/ BuildNode \/ BuildRefused \/ Built
    \/ DeleteInput \/ DeleteNode \/ DeleteBuffer

Spec == Init /\ [][Next]_vars

-----------------------------------------------------------------------------
(* Properties.                                                             *)

TypeOK ==
    /\ IsProgram(prog)
    /\ pc \in {"convert", "build", "ready", "delete", "gone", "aborted"}
    /\ Len(nodes) \in 0 .. Len(prog.ops)
    /\ \A i \in DOMAIN nodes :
          /\ {nodes[i].parent, nodes[i].next} \subseteq 0 .. Len(nodes)
          /\ {nodes[i].ref, nodes[i].ddr, nodes[i].outPad,
              nodes[i].extIn, nodes[i].extOut} \subseteq Nat
    /\ {root, tail} \subseteq 0 .. Len(nodes) /\ cur \in 0 .. Len(prog.ops) + 1
    /\ tensor2node \in [Tensors(prog) -> 0 .. Len(nodes)]
    /\ DOMAIN outputNodes \subseteq 1 .. Len(nodes)
    /\ {ddrBlock, maxOut, dataBuff} \subseteq Nat

\* The graph of a program: who reads whose tensor.
GraphOf(P) ==
    [len |-> Len(P.ops),
     parent |-> [i \in 1 .. Len(P.ops) |->
                    IF i = 1 THEN 0
                    ELSE CHOOSE j \in 1 .. (i - 1) : P.ops[j].out = P.ops[i].in],
     isOutput |-> [i \in 1 .. Len(P.ops) |-> P.ops[i].out \in P.outputs],
     inPad |-> [i \in 1 .. Len(P.ops) |-> P.ops[i].pad]]

Finished == pc \in {"ready", "delete", "gone"}

\* The list the driver is given is the graph of the program: in execution order
\* from the root, parents and reader counts right, blocks numbered and frames
\* chosen as DeviceGraph says, which is what SubgraphExec starts from.
ListIsTheGraph ==
    Finished =>
        LET g == GraphOf(prog)
        IN  /\ IsGraph(g) /\ root = 1 /\ Len(nodes) = g.len
            /\ \A i \in Nodes(g) :
                  /\ nodes[i].next = IF i < g.len THEN i + 1 ELSE 0
                  /\ nodes[i].parent = g.parent[i]
                  /\ nodes[i].isOutput = g.isOutput[i]
                  /\ nodes[i].ref = RefCount(g, i)
                  /\ nodes[i].ddr = DdrBlock(g, i)
                  /\ nodes[i].outPad = OutPad(g, i)

\* The driver checks no size of a list: every tensor with its frame fits a block,
\* a node that reads its predecessor's block in place finds it framed exactly as
\* it wants, and what is copied to the user has no frame.
FramesFit ==
    Finished =>
        LET g == GraphOf(prog)
        IN  \A i \in Nodes(g) :
              /\ nodes[i].extIn <= BlockSize /\ nodes[i].extOut <= BlockSize
              /\ i > 1 /\ g.parent[i] = i - 1 /\ ~Special(g, i - 1)
                    => nodes[i].extIn = nodes[i - 1].extOut
              /\ g.isOutput[i] =>
                    /\ nodes[i].extOut = Extent(OutShape(i), 0)
                    /\ nodes[i].extOut <= dataBuff

\* The SDK reads the subgraph's input from, and writes its outputs to, the memory
\* of the tensors, although ia and oa of those nodes point at device buffers.
UserTensorsKept ==
    Finished =>
        /\ din = TensorMem(Op(1).in)
        /\ \A i \in 1 .. Len(prog.ops) :
              Op(i).out \in prog.outputs =>
                  /\ i \in DOMAIN outputNodes /\ outputNodes[i] = TensorMem(Op(i).out)
                  /\ nodes[i].oa # TensorMem(Op(i).out)

\* ~Graph goes by reader counts instead of by what it allocated.  It deletes memory of
\* a tensor, which is not its own, for the convolutions whose output nobody uses,
\* inside or outside the subgraph, and never otherwise; it leaves behind the device
\* buffer of every output that a later convolution of the subgraph reads too, although
\* the comment in graph.h says that it deletes the output nodes' space, and no other.
DestructorGoesByReaders ==
    pc = "gone" =>
        /\ foreign = {TensorMem(Op(i).out) :
                      i \in {k \in 1 .. Len(prog.ops) :
                                /\ Op(k).out \notin prog.outputs
                                /\ RefCount(GraphOf(prog), k) = 0}}
        /\ heap = {<<"oa", i>> : i \in {k \in 1 .. Len(prog.ops) :
                                        /\ Op(k).out \in prog.outputs
                                        /\ RefCount(GraphOf(prog), k) > 0}}
=============================================================================
