---------------------------- MODULE MCSubgraphExec ----------------------------
(* Instances of SubgraphExec for TLC.                                       *)
EXTENDS SubgraphExec

Parents(n) == {p \in [1 .. n -> 0 .. (n - 1)] :
                  p[1] = 0 /\ \A i \in 2 .. n : p[i] \in 1 .. (i - 1)}

\* Every tree of n nodes in every topological order, its leaves outputs and
\* every choice of further outputs, with paddings from Pads.
Trees(n, Pads) ==
    {[len |-> n, parent |-> p, isOutput |-> o, inPad |-> q] :
        p \in Parents(n), o \in [1 .. n -> BOOLEAN], q \in [1 .. n -> Pads]}

LeavesAreOutputs(g) == \A i \in Nodes(g) : RefCount(g, i) = 0 => g.isOutput[i]

Programs(n, Pads) == {g \in Trees(n, Pads) : LeavesAreOutputs(g)}

\* All graphs of up to four nodes, each padded by 0, 1 or 2, and of five and six
\* nodes that all want the same padding.
SmallGraphs ==
    {g : g \in UNION {Programs(n, 0 .. 2) : n \in 1 .. 4}
               \cup UNION {Programs(n, {p}) : n \in 5 .. 6, p \in 0 .. 2}}

\* The graphs of two and three nodes the driver supports, all but the head
\* padded alike.
PairGraphs ==
    {g : g \in {h \in UNION {Programs(n, 0 .. 2) : n \in 2 .. 3} :
                   Supported(h) /\ \A i \in Nodes(h) \ {1} : h.inPad[i] = h.inPad[2]}}

\* Every leaf an output, nothing else; every node wants padding.
Leafy(p) ==
    LET ns == DOMAIN p
    IN  [len |-> Cardinality(ns), parent |-> p,
         isOutput |-> [i \in ns |-> \A j \in ns : p[j] # i],
         inPad |-> [i \in ns |-> 1]]

\* Nine nodes with two readers each, a leaf and the next one; head not shared.
NineShared == {Leafy([i \in 1 .. 20 |->
                  IF i = 1 THEN 0 ELSE IF i % 2 = 1 THEN i - 1
                  ELSE IF i = 2 THEN 1 ELSE i - 2])}

\* A chain of two.
ShortChain == {Leafy(<<0, 1>>)}
=============================================================================
