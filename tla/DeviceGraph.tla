----------------------------- MODULE DeviceGraph -----------------------------
(***************************************************************************)
(* The device graph the inference engine hands to the accelerator driver:  *)
(* the linked list of DeviceGraphNode records that ConvConverter chains    *)
(* together (lite/kernels/intel_fpga/bridges/conv_op.cc) and that          *)
(* Graph::BuildDeviceModel completes (bridges/graph.cc).                   *)
(*                                                                         *)
(* A graph is a record g.  Its nodes are numbered 1 .. g.len in the order  *)
(* of the next_ list, the order in which the driver executes them:         *)
(*   g.parent[i]    the node whose output tensor node i reads (parent_),   *)
(*                  0 for the head, which reads the subgraph's input;      *)
(*   g.isOutput[i]  is_output: the tensor leaves the subgraph;             *)
(*   g.inPad[i]     the padding node i wants around its input (in_pad),    *)
(*                  alike on its four sides.                               *)
(* A node is converted after its parent, because the converter walks the   *)
(* program in a topological order, and has one data input: a subgraph of   *)
(* convolutions is a tree rooted at the head.                              *)
(***************************************************************************)
EXTENDS Integers, FiniteSets

CONSTANTS
    NumExtra,  \* length of omblk_extra[] in struct nna_pdata (10)
    PadBase    \* omblk_extra[PadBase] and its successor hold padded inputs (8)

ASSUME ExtraAssumption ==
    /\ PadBase \in Nat
    /\ NumExtra = PadBase + 2

Nodes(g) == 1 .. g.len

\* What conversion in topological order guarantees.
IsGraph(g) ==
    /\ g.len \in Nat \ {0}
    /\ g.parent \in [Nodes(g) -> Nat]
    /\ g.parent[1] = 0
    /\ \A i \in Nodes(g) \ {1} : g.parent[i] \in 1 .. (i - 1)
    /\ g.isOutput \in [Nodes(g) -> BOOLEAN]
    /\ g.inPad \in [Nodes(g) -> Nat]

Children(g, i) == {j \in Nodes(g) : g.parent[j] = i}

\* output_ref_count_: each converted child increments its parent's counter.
RefCount(g, i) == Cardinality(Children(g, i))

\* The nodes whose output must outlive the next operation.
SpecialMutant(g, i) == RefCount(g, i) > 1
Special(g, i) ==
    \/ RefCount(g, i) = 1 /\ g.isOutput[i]
    \/ RefCount(g, i) > 1

\* ddr_block_idx: special nodes are numbered from 0 in list order; the field
\* of every other node keeps the zero of its value-initialisation.
SpecialsBefore(g, i) == {j \in 1 .. (i - 1) : Special(g, j)}

DdrBlockMutant(g, i) == 0
DdrBlock(g, i) == IF Special(g, i) THEN Cardinality(SpecialsBefore(g, i)) ELSE 0

\* out_pad: the padding of the NEXT node of the list, whichever node reads it.
OutPad(g, i) ==
    IF RefCount(g, i) = 1 /\ i < g.len /\ ~g.isOutput[i]
    THEN g.inPad[i + 1]
    ELSE 0

(***************************************************************************)
(* The IP frames its own outputs.  What is framed in software is the       *)
(* head's input, by the library's conv_chw_pad, and the input of a node    *)
(* whose parent has a block of its own, by the driver's add_pad.  Both     *)
(* leave one row above the data whatever the padding, so that a larger     *)
(* padding is framed wrong (see FramedUnlessOddlyPadded in DataLayout).    *)
(***************************************************************************)
SoftwareFrames(p) == p <= 1

Misframed(g, i) ==
    /\ i = 1 \/ Special(g, g.parent[i])
    /\ ~SoftwareFrames(g.inPad[i])

Specials(g) == {i \in Nodes(g) : Special(g, i)}
Outputs(g) == {i \in Nodes(g) : g.isOutput[i]}

(***************************************************************************)
(* The graphs the driver's buffer discipline is good for.  The code does   *)
(* not test any of this (DeviceModelValidCheck returns true):              *)
(*   - the head always writes omblk[0], so it must not be special;         *)
(*   - a node without a block of its own is read back from omblk[], where  *)
(*     only the previous operation's output is, so its reader must follow  *)
(*     it immediately;                                                     *)
(*   - special nodes must not reach the two padding buffers;               *)
(*   - what software frames must want a padding it frames right.           *)
(***************************************************************************)
Supported(g) ==
    /\ ~Special(g, 1)
    /\ \A i \in Nodes(g) \ {1} : ~Special(g, g.parent[i]) => g.parent[i] = i - 1
    /\ Cardinality(Specials(g)) <= PadBase
    /\ \A i \in Nodes(g) : ~Misframed(g, i)

=============================================================================
