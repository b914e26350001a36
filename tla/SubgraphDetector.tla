--------------------------- MODULE SubgraphDetector ---------------------------
(***************************************************************************)
(* How operators are gathered into subgraphs                               *)
(* (lite/core/mir/subgraph/subgraph_detector.cc): SubgraphDetector marks   *)
(* the supported operators and their outputs, walks the nodes in           *)
(* topological order and contracts a marked node with its marked           *)
(* successors as long as no other path leads from one to the other, with a *)
(* union-find structure that rewires the links; SubgraphFuser then puts    *)
(* one subgraph operator in the place of each cluster.                     *)
(***************************************************************************)
EXTENDS Network, SequencesExt

CONSTANT Networks   \* the networks to be compiled

ASSUME NetworksAssumption == \A net \in Networks : IsNetwork(net)

VARIABLES
    net,        \* the network
    pc,         \* init, visit, expand, combine, cluster, and those of the passes after
    marked,     \* node_dat_t::marked
    inlinks, outlinks, union_find_parent,   \* the other fields of node_dat_t
    todo,       \* the marked nodes the walk has not reached
    node,       \* the one it is at
    contract,   \* contract_nodes
    stmts       \* the statements of the graph after fusion

links == <<inlinks, outlinks, union_find_parent>>
detector == <<marked, links, todo, node, contract>>

Nodes == GraphNodes(net)
NoNode == <<"none", 0>>

DetectorInit ==
    /\ net \in Networks
    /\ pc = "init" /\ marked = {} /\ todo = {} /\ node = NoNode /\ contract = {}
    /\ inlinks = [n \in Nodes |-> {}] /\ outlinks = [n \in Nodes |-> {}]
    /\ union_find_parent = [n \in Nodes |-> n]
    /\ stmts = {}

-----------------------------------------------------------------------------
(* SubgraphDetector.                                                       *)

\* A supported operator and the variable it writes.
Supported == {i \in Ops(net) : net[i].type = "supported"}
MarkedMutant == {OpNode(i) : i \in Supported}
Marked == {OpNode(i) : i \in Supported} \cup {VarNode(i) : i \in Supported}

InitNodes ==
    /\ pc = "init"
    /\ inlinks' = [n \in Nodes |-> LinksIn(net, n)]
    /\ outlinks' = [n \in Nodes |-> LinksOut(net, n)]
    /\ marked' = Marked
    /\ todo' = marked'
    /\ pc' = IF todo' # {} THEN "visit" ELSE "cluster"
    /\ UNCHANGED <<net, union_find_parent, node, contract, stmts>>

\* What reaches a node of S against the direction of the links, S included.
ReverseDFS(S) ==
    LET R[k \in 0 .. Cardinality(Nodes)] ==
          IF k = 0 THEN S
          ELSE LET reached == R[k - 1] IN reached \cup UNION {inlinks[x] : x \in reached}
    IN  R[Cardinality(Nodes)]

UnionFindAncestor(n) ==
    LET A[k \in 0 .. Cardinality(Nodes)] ==
          IF k = 0 THEN n ELSE union_find_parent[A[k - 1]]
    IN  A[Cardinality(Nodes)]

\* The marked successors with no other input from which a path leads back.
ContractibleUnmarkedMutant(n) == {m \in outlinks[n] : n \notin ReverseDFS(inlinks[m] \ {n})}
ContractibleMutant(n) == outlinks[n] \cap marked
Contractible(n) ==
    {m \in outlinks[n] \cap marked : n \notin ReverseDFS(inlinks[m] \ {n})}

\* The walk, in any topological order of the graph as it was at the beginning.
Visit ==
    /\ pc = "visit"
    /\ \E n \in todo :
          /\ \A m \in todo \ {n} :
                /\ m[2] = n[2] => m[1] = "var"
                /\ m[2] \notin DependsOn(net)[n[2]]
          /\ node' = n /\ todo' = todo \ {n}
    /\ pc' = "expand"
    /\ UNCHANGED <<net, marked, links, contract, stmts>>

\* One round of the while loop: successors to contract, or on to the next node.
Expand ==
    /\ pc = "expand"
    /\ contract' = Contractible(node)
    /\ pc' = IF contract' # {} THEN "combine" ELSE IF todo # {} THEN "visit" ELSE "cluster"
    /\ UNCHANGED <<net, marked, links, todo, node, stmts>>

\* UnionFindCombine: this takes the candidate's links, and whoever had a link to the
\* candidate has one to this.
Renamed(S, c, new) == IF c \in S THEN (S \ {c}) \cup {new} ELSE S

CombineWith(c, outputs, new) ==
    LET anc == UnionFindAncestor(node)
        inputs == inlinks[node] \cup (inlinks[c] \ {node})
    IN  /\ union_find_parent' =
              [union_find_parent EXCEPT ![UnionFindAncestor(c)] = anc, ![node] = anc, ![c] = anc]
        /\ inlinks' = [n \in Nodes |->
              IF n = node THEN inputs ELSE IF n = c THEN {}
              ELSE IF n \in outputs THEN Renamed(inlinks[n], c, new) ELSE inlinks[n]]
        /\ outlinks' = [n \in Nodes |->
              IF n = node THEN outputs ELSE IF n = c THEN {}
              ELSE IF n \in inputs THEN Renamed(outlinks[n], c, new) ELSE outlinks[n]]

UnionFindCombineMutant(c) == CombineWith(c, outlinks[c] \cup (outlinks[node] \ {c}), c)
UnionFindCombineAgainMutant(c) == CombineWith(c, outlinks[c] \cup outlinks[node], node)
UnionFindCombine(c) == CombineWith(c, outlinks[c] \cup (outlinks[node] \ {c}), node)

Combine ==
    /\ pc = "combine"
    /\ \E c \in contract :
          /\ UnionFindCombine(c)
          /\ contract' = contract \ {c}
    /\ pc' = IF contract' = {} THEN "expand" ELSE "combine"
    /\ UNCHANGED <<net, marked, todo, node, stmts>>

-----------------------------------------------------------------------------
(* SubgraphFuser.                                                          *)

MarkedOps == {i \in Ops(net) : OpNode(i) \in marked}

\* Each marked operator is appended to the list of its ancestor's cluster.
Clusters(order) ==
    LET clusters == FoldLeft(LAMBDA c, i : [c EXCEPT ![UnionFindAncestor(OpNode(i))] = Append(@, i)],
                             [n \in Nodes |-> <<>>], order)
    IN  {clusters[n] : n \in Nodes} \ {<<>>}

\* ExtractInputsOutputs: variables that come in from outside, and that are read outside.
Inside(ops) == {ops[k] : k \in DOMAIN ops}
Readers(v) == {i \in Ops(net) : v \in VarsRead(net, i)}
InputVars(ops) == (UNION {VarsRead(net, i) : i \in Inside(ops)}) \ Inside(ops)
OutputVars(ops) == {i \in Inside(ops) : ~(Readers(i) \subseteq Inside(ops))}

\* A statement of the fused graph.  The subgraph operator also keeps the variables
\* nobody outside reads among its outputs, so that they stay in the scope.
Subgraph(ops) ==
    [sub |-> TRUE, ops |-> ops, ins |-> InputVars(ops), outs |-> OutputVars(ops),
     kept |-> Inside(ops) \ OutputVars(ops)]
Statement(i) ==
    [sub |-> FALSE, ops |-> <<i>>, ins |-> VarsRead(net, i), outs |-> {i}, kept |-> {}]

\* InsertNewNode for every cluster; min_subgraph_size is 1.
Fuse ==
    /\ pc = "cluster"
    /\ \E order \in TopologicalOrders(MarkedOps, DependsOn(net)) :
          stmts' = {Subgraph(ops) : ops \in Clusters(order)}
                     \cup {Statement(i) : i \in Ops(net) \ MarkedOps}
    /\ pc' = "schedule"
    /\ UNCHANGED <<net, detector>>

Detect == InitNodes \/ Visit \/ Expand \/ Combine \/ Fuse

-----------------------------------------------------------------------------
(* Properties.                                                             *)

DetectorTypeOK ==
    /\ net \in Networks
    /\ pc \in {"init", "visit", "expand", "combine", "cluster", "schedule", "collect", "plan", "run", "done"}
    /\ marked \subseteq Nodes /\ todo \subseteq marked /\ contract \subseteq marked
    /\ node \in Nodes \cup {NoNode}
    /\ {inlinks, outlinks} \subseteq [Nodes -> SUBSET Nodes]
    /\ union_find_parent \in [Nodes -> Nodes]

Ancestors == [n \in Nodes |-> UnionFindAncestor(n)]

\* The links of the contracted nodes are those of the network with every cluster made
\* one node, whatever was rewired in what order, and a node that was contracted has
\* none left.
LinksAreTheQuotient ==
    pc \notin {"init"} =>
        LET A == Ancestors
        IN  \A n \in Nodes :
              /\ A[n] # n => inlinks[n] = {} /\ outlinks[n] = {}
              /\ A[n] = n =>
                    /\ inlinks[n] = {A[m] : m \in UNION {LinksIn(net, x) :
                                        x \in {y \in Nodes : A[y] = n}}} \ {n}
                    /\ outlinks[n] = {A[m] : m \in UNION {LinksOut(net, x) :
                                        x \in {y \in Nodes : A[y] = n}}} \ {n}

\* "The graph is always directed acyclic graph", lines 326-329: no cluster feeds itself through others.
ContractedGraphIsAcyclic ==
    \A n \in Nodes : n \notin ReverseDFS(inlinks[n])
=============================================================================
