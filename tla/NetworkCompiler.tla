---------------------------- MODULE NetworkCompiler ----------------------------
(***************************************************************************)
(* From a network to the program that runs, in the optimizer's order       *)
(* (lite/core/optimizer.h, lines 213-216 and 279): the subgraph pass       *)
(* (SubgraphDetector), the memory plan (MemoryReuse), GenerateProgramPass, *)
(* and one run of the program.  Memory holds for each name the operator    *)
(* whose value is there, and every read is compared with the variable the  *)
(* network's program means.                                                *)
(***************************************************************************)
EXTENDS SubgraphDetector, MemoryReuse

VARIABLES
    sched,   \* nodes_in_order: the statements in the order they will run
    lifecycles,   \* when each variable that takes part in the plan is in use
    plan,    \* node2cluster
    pos,     \* the statement to be run next
    mem,     \* for each name the operator whose value it holds, 0 for what was fed
    wrong    \* history: the reads <<operator, name>> that found another value

later == <<sched, lifecycles, plan, pos, mem, wrong>>
vars == <<net, pc, detector, stmts, later>>

Unwritten == -1

Init ==
    /\ DetectorInit
    /\ sched = <<>> /\ lifecycles = <<>> /\ plan = <<>> /\ pos = 1 /\ wrong = {}
    /\ mem = [x \in Names(net) |-> IF x = 0 THEN 0 ELSE Unwritten]

\* The graph's addresses are the same for both passes: one order for the plan and the
\* program.
Writer(v) == {s \in stmts : v \in s.outs \cup s.kept}
Follows == [s \in stmts |-> UNION {Writer(v) : v \in s.ins}]

Schedule ==
    /\ pc = "schedule"
    /\ sched' \in TopologicalOrders(stmts, Follows)
    /\ pc' = "collect"
    /\ UNCHANGED <<net, detector, stmts, lifecycles, plan, pos, mem, wrong>>

Uses(s) ==
    [names |-> {NameOf(net, v) : v \in s.ins \cup s.outs \cup s.kept},
     invalid |-> s.sub \/ net[s.ops[1]].type \in {"excluded", "fetch"}]
Feed == [names |-> {0}, invalid |-> TRUE]

Collect ==
    /\ pc = "collect"
    /\ lifecycles' = Lifecycles(<<Feed>> \o [k \in DOMAIN sched |-> Uses(sched[k])])
    /\ pc' = "plan"
    /\ UNCHANGED <<net, detector, stmts, sched, plan, pos, mem, wrong>>

\* The names' alphabetical order is any order.
Plan ==
    /\ pc = "plan"
    /\ \E q \in SetToSeqs(DOMAIN lifecycles) : plan' = ReusePlan(lifecycles, q)
    /\ pc' = "run"
    /\ UNCHANGED <<net, detector, stmts, sched, lifecycles, pos, mem, wrong>>

-----------------------------------------------------------------------------
(* The program.                                                            *)

\* What operator i misreads in memory m.
Misreads(m, i) ==
    {<<i, x>> : x \in {y \in net[i].ins : m[Renaming(plan, y)] # Producer(net, i, y)}}

\* Operators one after the other on a memory m: what they leave and what they misread.
RunOps(ops, m) ==
    FoldLeft(LAMBDA acc, i :
               [mem |-> [acc.mem EXCEPT ![Renaming(plan, net[i].out)] = i],
                wrong |-> acc.wrong \cup Misreads(acc.mem, i)],
             [mem |-> m, wrong |-> {}], ops)

\* A subgraph keeps its inner values on the device: only the tensors read outside
\* are written.
Fetches(s) == net[s.ops[1]].type = "fetch"

Run ==
    /\ pc = "run" /\ pos <= Len(sched) /\ ~Fetches(sched[pos])
    /\ LET s == sched[pos]
           r == RunOps(s.ops, mem)
           written == {Renaming(plan, NameOf(net, v)) : v \in s.outs}
       IN  /\ mem' = [x \in DOMAIN mem |-> IF x \in written THEN r.mem[x] ELSE mem[x]]
           /\ wrong' = wrong \cup r.wrong
    /\ pos' = pos + 1
    /\ UNCHANGED <<net, pc, detector, stmts, sched, lifecycles, plan>>

\* A fetch is passed over ...
SkipFetch ==
    /\ pc = "run" /\ pos <= Len(sched) /\ Fetches(sched[pos])
    /\ pos' = pos + 1
    /\ UNCHANGED <<net, pc, detector, stmts, sched, lifecycles, plan, mem, wrong>>

\* ... and the user reads the outputs where they lie when the program has ended.
Finished ==
    /\ pc = "run" /\ pos > Len(sched)
    /\ wrong' = wrong \cup UNION {Misreads(mem, i) : i \in FetchOps(net)}
    /\ pc' = "done"
    /\ UNCHANGED <<net, detector, stmts, sched, lifecycles, plan, pos, mem>>

Next ==
    \/ Detect /\ UNCHANGED later
    \/ Schedule \/ Collect \/ Plan \/ Run \/ SkipFetch \/ Finished

Spec == Init /\ [][Next]_vars

\* The compiler is one thread: it goes on as long as it can.
FairSpec == Spec /\ WF_vars(Next)

-----------------------------------------------------------------------------
(* Properties.                                                             *)

TypeOK ==
    /\ DetectorTypeOK
    /\ pos \in 1 .. Len(sched) + 1
    /\ mem \in [Names(net) -> {Unwritten, 0} \cup Ops(net)]
    /\ wrong \subseteq Ops(net) \X Names(net)

\* Whoever writes a name again comes after everybody who reads what it held.
WritesOrdered ==
    \A j \in Ops(net) : \A i \in Ops(net) \ {j} :
        /\ net[j].out \in net[i].ins /\ Producer(net, i, net[j].out) < j => i \in DependsOn(net)[j]
        /\ net[j].out = net[i].out /\ i < j => i \in DependsOn(net)[j]

\* The compiled program computes what the network says: every operator, and the user at
\* the end, reads the value the network meant, through fusion, reordering and shared
\* memory, as long as every rewriting of a name is ordered by data after the reads of its
\* old value.  (The graph has no edge for that: an in-place operator beside another reader
\* of the same variable may come first.)
ReadsWhatTheNetworkMeans == WritesOrdered => wrong = {}

\* No operator gets one memory for two names it uses: its output never overwrites an
\* input it still reads.
NoOperatorOverwritesItsInput ==
    pc = "run" =>
        \A s \in stmts : \A v, w \in s.ins \cup s.outs :
            Renaming(plan, NameOf(net, v)) = Renaming(plan, NameOf(net, w))
                => NameOf(net, v) = NameOf(net, w)

\* With one data input per supported operator, what the accelerator's builder gets is a
\* tree in execution order: every operator but the first reads what an earlier one of
\* the same subgraph wrote, and one that reads another's output is in its subgraph.
SubgraphsArePrograms ==
    pc = "schedule" /\ (\A i \in MarkedOps : Cardinality(net[i].ins) = 1) =>
        \A s \in stmts : s.sub =>
            /\ \A k \in DOMAIN s.ops \ {1} :
                  \E j \in 1 .. k - 1 : VarsRead(net, s.ops[k]) = {s.ops[j]}
            /\ \A i \in MarkedOps : VarsRead(net, i) \cap Inside(s.ops) # {} => i \in Inside(s.ops)

\* The contraction loop and everything after it come to an end.
Compiles == <>(pc = "done")
=============================================================================
