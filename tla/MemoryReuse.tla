------------------------------ MODULE MemoryReuse ------------------------------
(***************************************************************************)
(* The memory plan (lite/core/mir/memory_optimize_pass.cc): variables of   *)
(* the finished graph whose lifetimes do not meet get the memory of one of *)
(* them.  A schedule is the sequence of the statements as                  *)
(* StmtTopologicalOrder lists them, each with the names it uses and        *)
(* whether these are left alone: the type is on a list (subgraph, feed and *)
(* fetch are), or the operator is a reshape in place.  The devices'        *)
(* variables are one class here: those of the accelerator belong to        *)
(* subgraphs.  Variables that are no tensors are not modelled.             *)
(***************************************************************************)
EXTENDS Integers, Sequences, SequencesExt

\* CollectLifeCycleByDevice: the names that take part ...
UsedNames(sched) == UNION {sched[k].names : k \in DOMAIN sched}
InvalidNames(sched) == UNION {sched[k].names : k \in {j \in DOMAIN sched : sched[j].invalid}}
SharedNames(sched) == UsedNames(sched) \ InvalidNames(sched)

\* ... and from the first to the last statement that uses each.
LifetimeMutant(sched, x) ==
    LET uses == {k \in DOMAIN sched : x \in sched[k].names}
        first == CHOOSE k \in uses : \A j \in uses : k <= j
        others == uses \ {first}
    IN  [first |-> first,
         last |-> IF others = {} THEN first ELSE CHOOSE k \in others : \A j \in others : k <= j]
Lifetime(sched, x) ==
    LET uses == {k \in DOMAIN sched : x \in sched[k].names}
    IN  [first |-> CHOOSE k \in uses : \A j \in uses : k <= j,
         last |-> CHOOSE k \in uses : \A j \in uses : j <= k]
Lifecycles(sched) == [x \in SharedNames(sched) |-> Lifetime(sched, x)]

OverlapMutant(a, b) == b.last > a.first /\ a.last > b.first
Overlap(a, b) == b.last >= a.first /\ a.last >= b.first

\* MakeReusePlan for the variables in the order q of a std::map: each that has no cluster
\* yet heads a new one and takes in every later one that overlaps none of it.
Adjacent(life, x) == {y \in DOMAIN life : y # x /\ Overlap(life[x], life[y])}

Placed(plan, x, head) == [y \in DOMAIN plan \cup {x} |-> IF y = x THEN head ELSE plan[y]]

Fill(life, q, plan, i) ==
    LET Join(acc, x) ==
          IF x \in DOMAIN acc.plan \/ x \in acc.adj THEN acc
          ELSE [plan |-> Placed(acc.plan, x, q[i]), adj |-> acc.adj \cup Adjacent(life, x)]
    IN  FoldLeft(Join, [plan |-> Placed(plan, q[i], q[i]), adj |-> Adjacent(life, q[i])],
                 SubSeq(q, i + 1, Len(q))).plan

ReusePlan(life, q) ==
    FoldLeft(LAMBDA plan, i : IF q[i] \in DOMAIN plan THEN plan ELSE Fill(life, q, plan, i),
             <<>>, [i \in DOMAIN q |-> i])

\* PerformReusePlan: the name a statement uses for x from now on.
Renaming(plan, x) == IF x \in DOMAIN plan THEN plan[x] ELSE x
=============================================================================
