---------------------------- MODULE SubgraphService ----------------------------
(***************************************************************************)
(* What NNA_CMD_CONV_SUBGRAPH promises the inference engine, with nothing  *)
(* of how the driver keeps the promise: a call hands over right tensors    *)
(* one at a time and returns 0 only when it has handed over every output   *)
(* of the graph.  A call that fails may leave outputs missing, and one     *)
(* that times out leaves the accelerator hung; calls made before it has    *)
(* recovered, and calls with a graph the buffers cannot carry, promise     *)
(* nothing.                                                                *)
(***************************************************************************)
EXTENDS DeviceGraph

CONSTANTS Graphs, MaxCalls

VARIABLES
    call,    \* number of the current or last call
    graph,   \* its graph
    busy,    \* a call is being served
    given,   \* the outputs it has handed over
    hung,    \* between calls: the accelerator still runs for a call that is over
    late,    \* the current call began while it was hung
    ret,     \* what the last call returned
    oa       \* the user's output buffers

vars == <<call, graph, busy, given, hung, late, ret, oa>>

Wanted(g, c, i) ==
    [kind |-> "tensor", graph |-> g, call |-> c, node |-> i, pad |-> 0]
Spoilt == [kind |-> "junk"]

Init ==
    /\ call = 0
    /\ graph = CHOOSE g \in Graphs : TRUE
    /\ ~busy /\ given = {} /\ ~hung /\ ~late
    /\ ret = "ok"
    /\ oa = [i \in Nodes(graph) |-> Spoilt]

Promised == Supported(graph) /\ ~late

Begin(g) ==
    /\ ~busy /\ call < MaxCalls
    /\ busy' /\ call' = call + 1 /\ graph' = g /\ late' = hung
    /\ given' = {} /\ hung' = FALSE
    /\ oa' = IF g = graph THEN oa ELSE [i \in Nodes(g) |-> Spoilt]
    /\ UNCHANGED ret

\* The next output of the list is handed over.
Deliver(i) ==
    /\ busy
    /\ i \in Outputs(graph) \ given
    /\ \A j \in Outputs(graph) : j < i => j \in given
    /\ given' = given \cup {i}
    /\ oa' = [oa EXCEPT ![i] = oa'[i]]
    /\ Promised => oa'[i] = Wanted(graph, call, i)
    /\ UNCHANGED <<call, graph, busy, hung, late, ret>>

Succeed ==
    /\ busy /\ given = Outputs(graph)
    /\ ~busy' /\ given' = {} /\ ret' = "ok"
    /\ hung' \in (IF late THEN BOOLEAN ELSE {FALSE})
    /\ UNCHANGED <<call, graph, late, oa>>

\* A failed copy may spoil the one output it was about; a time-out leaves the
\* accelerator hung.
Fail ==
    /\ busy
    /\ ~busy' /\ given' = {}
    /\ \/ /\ ret' = "EFAULT"
          /\ hung' \in (IF late THEN BOOLEAN ELSE {FALSE})
          /\ \/ UNCHANGED oa
             \/ \E i \in Outputs(graph) \ given : oa' = [oa EXCEPT ![i] = Spoilt]
       \/ ret' = "ETIMEDOUT" /\ hung' = TRUE /\ UNCHANGED oa
    /\ UNCHANGED <<call, graph, late>>

Recover == hung /\ hung' = FALSE /\ UNCHANGED <<call, graph, busy, given, late, ret, oa>>

Next ==
    \/ \E g \in Graphs : Begin(g)
    \/ \E i \in Nodes(graph) : Deliver(i)
    \/ Succeed \/ Fail \/ Recover

Spec == Init /\ [][Next]_vars
=============================================================================
