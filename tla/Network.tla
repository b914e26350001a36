-------------------------------- MODULE Network --------------------------------
(***************************************************************************)
(* A network as the optimizer holds it (lite/core/mir/ssa_graph.cc): a     *)
(* program of operators over named variables, and the bipartite graph of   *)
(* operator and variable nodes that SSAGraph::Build makes of it.           *)
(*                                                                         *)
(* An operator is a record: its type, the names it reads, the name it      *)
(* writes.  Name 0 is what feed puts in.  An operator may write a name     *)
(* again, also one that it reads (an in-place operator); every write makes *)
(* a variable node of its own, <<"var", i>> for operator i.  Weights have  *)
(* no producer and play no part.  A fetch marks a name as an output of the *)
(* network; what it writes, a column of the list of outputs, nobody reads. *)
(* "excluded" stands for the operators whose variables keep their memory   *)
(* (cast, expand, a reshape in place, ...).                                *)
(***************************************************************************)
EXTENDS Integers, Sequences, FiniteSets

Ops(net) == 1 .. Len(net)
Names(net) == {0} \cup {net[i].out : i \in Ops(net)}

FetchOps(net) == {i \in Ops(net) : net[i].type = "fetch"}

Operators ==
    [type : {"supported", "other", "excluded", "fetch"}, ins : SUBSET Nat, out : Nat \ {0}]
IsNetwork(net) ==
    /\ net \in Seq(Operators)
    /\ \A i \in Ops(net) : net[i].ins \subseteq {0} \cup {net[j].out : j \in 1 .. i - 1}
    /\ \A i \in Ops(net) : \A j \in FetchOps(net) : net[j].out \notin net[i].ins

\* arg_update_node_map: the variable node that name x means for operator i, the last
\* one written before it, 0 for the fed one.
Producer(net, i, x) ==
    LET writers == {j \in 1 .. i - 1 : net[j].out = x}
    IN  IF writers = {} THEN 0 ELSE CHOOSE j \in writers : \A k \in writers : k <= j

VarsRead(net, i) == {Producer(net, i, x) : x \in net[i].ins}
NameOf(net, v) == IF v = 0 THEN 0 ELSE net[v].out

OpNode(i) == <<"op", i>>
VarNode(v) == <<"var", v>>
GraphNodes(net) == {OpNode(i) : i \in Ops(net)} \cup {VarNode(v) : v \in 0 .. Len(net)}

\* Node::inlinks and outlinks.
LinksIn(net, n) ==
    IF n[1] = "op" THEN {VarNode(v) : v \in VarsRead(net, n[2])}
    ELSE {OpNode(n[2])} \cap GraphNodes(net)
LinksOut(net, n) == {m \in GraphNodes(net) : n \in LinksIn(net, m)}

\* The operators whose data reaches operator i.
DependsOn(net) ==
    LET D[i \in Ops(net)] == UNION {{v} \cup D[v] : v \in VarsRead(net, i) \ {0}} IN D

\* StmtTopologicalOrder and NodeTopologicalOrder search from the nodes in the order of
\* their addresses and list a node after what it reads: any topological order of S may
\* come out, where dep[x] are the elements x must follow.
TopologicalOrders(S, dep) ==
    LET T[R \in SUBSET S] ==
          IF R = {} THEN {<<>>}
          ELSE UNION {{Append(q, x) : q \in T[R \ {x}]} :
                         x \in {y \in R : \A z \in R : y \notin dep[z]}}
    IN  T[S]
=============================================================================
