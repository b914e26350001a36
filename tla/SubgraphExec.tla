----------------------------- MODULE SubgraphExec -----------------------------
(***************************************************************************)
(* nna_conv2d_subgraph (nnadrv/src/nnadrv.c) and the convolution IP it     *)
(* drives.  The ioctl handler calls the function with the driver mutex     *)
(* held, so calls do not overlap; the IP is a second actor.  One call      *)
(* walks the node list: it starts the IP on the current node, polls until  *)
(* the START register falls, copies the next node's parameters into the    *)
(* other parameter bank, reprograms the five address registers, copies an  *)
(* output node's block to the user and goes on.                            *)
(*                                                                         *)
(* Data is abstracted to what tells a right tensor from a wrong one: a     *)
(* block holds the parameters of a node, or the output of a node computed  *)
(* from the input of a call with some padding around it, or zeros, or      *)
(* junk.                                                                   *)
(***************************************************************************)
EXTENDS DeviceGraph

CONSTANTS
    Graphs,    \* the device graphs applications submit
    MaxCalls   \* bound on the number of calls of a behaviour

ASSUME GraphsAssumption ==
    /\ \A g \in Graphs : IsGraph(g) /\ Cardinality(Specials(g)) <= NumExtra
    /\ Graphs # {}
    /\ MaxCalls \in Nat

VARIABLES
    call,           \* number of the current or, when idle, last call
    graph,          \* the list that call walks
    pc,             \* where the caller is in nna_conv2d_subgraph
    ret,            \* what the last call returned
    curNode, nextNode, parentNode,   \* static cur_node, next_node, parent_node
    convParam, convNextParam,        \* static conv_param, conv_next_param
    flag, outFlag, buffFlag,         \* the locals of the same names
    mem,            \* the driver's memory blocks
    regs,           \* the IP's address registers
    ip,             \* the IP
    oa,             \* the user's output buffers for that graph (oa of each node)
    late            \* history: the IP was still running when the call began

statics == <<curNode, nextNode, parentNode, convParam, convNextParam>>
banks == <<flag, outFlag, buffFlag>>
vars == <<call, graph, pc, ret, statics, banks, mem, regs, ip, oa, late>>

-----------------------------------------------------------------------------
(* Memory blocks and what they can hold.                                   *)

Im == <<"im", 0>>
Bs(f) == <<"bs", f>>
Km(f) == <<"km", f>>
Pm(f) == <<"pm", f>>
Om(o) == <<"om", o>>
Extra(k) == <<"extra", k>>

Blocks ==
    {Im} \cup ({"bs", "km", "pm"} \X (0 .. 1)) \cup ({"om"} \X (0 .. 2))
         \cup ({"extra"} \X (0 .. (NumExtra - 1)))

Junk == [kind |-> "junk"]
Zero == [kind |-> "zero"]
Setting(k, g, i) == [kind |-> k, graph |-> g, node |-> i]

\* The output of node i of g for the input of call c, in a frame of padding p.
\* Node 0 stands for the subgraph's input tensor itself.
Tensor(g, c, i, p) ==
    [kind |-> "tensor", graph |-> g, call |-> c, node |-> i, pad |-> p]

Contents ==
    {Junk, Zero}
      \cup [kind : {"bs", "km", "pm"}, graph : Graphs, node : Nat]
      \cup [kind : {"tensor"}, graph : Graphs, call : Nat, node : Nat, pad : Nat]

\* The block node i's output goes to when it is programmed for omblk[o].
OutBlock(g, i, o) == IF Special(g, i) THEN Extra(DdrBlock(g, i)) ELSE Om(o)

\* add_pad into a zeroed block: it frames an unpadded tensor, and misplaces its
\* rows for a padding of more than one.
AddPad(x, p) ==
    IF x.kind = "tensor" /\ x.pad = 0 /\ SoftwareFrames(p)
    THEN [x EXCEPT !.pad = p] ELSE Junk

(***************************************************************************)
(* What the IP leaves in its output block.  The result is right if the     *)
(* three parameter blocks are those of one node, the input block holds the *)
(* tensor that node reads, framed by the padding it wants, and the frame   *)
(* of the output block, which the IP does not write, had been zeroed.      *)
(***************************************************************************)
Result(m, r) ==
    LET p == m[r.param]
        x == m[r.in]
    IN  IF /\ p.kind = "pm"
           /\ m[r.weight] = Setting("km", p.graph, p.node)
           /\ m[r.scale] = Setting("bs", p.graph, p.node)
           /\ x.kind = "tensor"
           /\ x = Tensor(p.graph, x.call, p.graph.parent[p.node],
                         p.graph.inPad[p.node])
           /\ OutPad(p.graph, p.node) # 0 => m[r.out] = Zero
        THEN Tensor(p.graph, x.call, p.node, OutPad(p.graph, p.node))
        ELSE Junk

-----------------------------------------------------------------------------
Registers == [in : Blocks, weight : Blocks, out : Blocks, scale : Blocks,
              param : Blocks]

PCs == {"idle", "copyHead", "programHead", "start", "wait", "copyNext",
        "programNext", "copyOut", "advance"}

NoRegs == [in |-> Im, weight |-> Km(0), out |-> Om(0), scale |-> Bs(0),
           param |-> Pm(0)]

\* After nna_init: blocks and registers hold whatever was there.
Init ==
    /\ call = 0
    /\ graph = CHOOSE g \in Graphs : TRUE
    /\ pc = "idle"
    /\ ret = "ok"
    /\ curNode = 0 /\ nextNode = 0 /\ parentNode = 0
    /\ convParam = 0 /\ convNextParam = 0
    /\ flag = 0 /\ outFlag = 0 /\ buffFlag = 0
    /\ mem = [b \in Blocks |-> Junk]
    /\ regs = NoRegs
    /\ ip = [busy |-> FALSE, job |-> NoRegs, torn |-> FALSE]
    /\ oa = [i \in Nodes(graph) |-> Junk]
    /\ late = FALSE

Return(err) == pc' = "idle" /\ ret' = err

\* The ioctl: the mutex is taken and the walk begins with cleared locals.  A
\* run of the IP that outlived its call may have its blocks rewritten under it.
Call(g) ==
    /\ pc = "idle" /\ call < MaxCalls
    /\ call' = call + 1
    /\ graph' = g
    /\ pc' = "copyHead"
    /\ flag' = 0 /\ outFlag' = 0 /\ buffFlag' = 0
    /\ late' = ip.busy
    /\ ip' = [ip EXCEPT !.torn = ip.busy]
    /\ oa' = IF g = graph THEN oa ELSE [i \in Nodes(g) |-> Junk]
    /\ UNCHANGED <<ret, statics, mem, regs>>

\* What the user has for block b of node i.  The input comes framed by the
\* library, which misplaces its rows for a padding of more than one.
Image(i, b) ==
    IF b # Im THEN Setting(b[1], graph, i)
    ELSE IF SoftwareFrames(graph.inPad[i])
         THEN Tensor(graph, call, graph.parent[i], graph.inPad[i])
         ELSE Junk

\* The memory after the first n copies of a list of blocks for node i.
Loaded(order, n, i) ==
    [b \in Blocks |-> IF \E k \in 1 .. n : order[k] = b THEN Image(i, b) ELSE mem[b]]

\* The next copy_from_user failed: its block is overwritten in part.
LoadFailed(order, n, i) == [Loaded(order, n, i) EXCEPT ![order[n + 1]] = Junk]

HeadOrder == <<Bs(0), Im, Km(0), Pm(0)>>

\* 1) Copy input node's param to ddr.
CopyHead ==
    /\ pc = "copyHead"
    /\ convParam' = 1
    /\ mem' = Loaded(HeadOrder, 4, 1)
    /\ pc' = "programHead"
    /\ UNCHANGED <<call, graph, ret, curNode, nextNode, parentNode, convNextParam,
                   banks, regs, ip, oa, late>>

CopyHeadFails ==
    /\ pc = "copyHead"
    /\ \/ UNCHANGED <<convParam, mem>>     \* the copy of the nna_conv_s itself
       \/ \E n \in 0 .. 3 : convParam' = 1 /\ mem' = LoadFailed(HeadOrder, n, 1)
    /\ Return("EFAULT")
    /\ UNCHANGED <<call, graph, curNode, nextNode, parentNode, convNextParam, banks,
                   regs, ip, oa, late>>

\* The head's output always goes to omblk[0], which is zeroed.
HeadOutMutant == OutBlock(graph, 1, 0)
HeadOut == Om(0)

ProgramHead ==
    /\ pc = "programHead"
    /\ regs' = [in |-> Im, weight |-> Km(0), out |-> HeadOut, scale |-> Bs(0),
                param |-> Pm(0)]
    /\ mem' = [mem EXCEPT ![Om(outFlag)] = Zero]
    /\ curNode' = 1
    /\ pc' = "start"
    /\ UNCHANGED <<call, graph, ret, nextNode, parentNode, convParam, convNextParam,
                   banks, ip, oa, late>>

\* 2.1) Writing START while a run is in progress (only after a time-out) is
\* either lost or restarts the IP with the current registers.
Start ==
    /\ pc = "start"
    /\ LET run == [busy |-> TRUE, job |-> regs, torn |-> FALSE]
       IN  ip' \in IF ip.busy THEN {ip, run} ELSE {run}
    /\ pc' = "wait"
    /\ UNCHANGED <<call, graph, ret, statics, banks, mem, regs, oa, late>>

\* The IP finishes: START falls and the result is in the output block.
IpFinish ==
    /\ ip.busy
    /\ ip' = [ip EXCEPT !.busy = FALSE, !.torn = FALSE]
    /\ \E x \in {Result(mem, ip.job)} \cup (IF ip.torn THEN {Junk} ELSE {}) :
          mem' = [mem EXCEPT ![ip.job.out] = x]
    /\ UNCHANGED <<call, graph, pc, ret, statics, banks, regs, oa, late>>

\* The poll of START: the register reads 1 as long as the IP is busy.
StartClearedMutant == TRUE
StartCleared == ~ip.busy

\* 2.2) Wait op to be doned: the poll finds START cleared ...
WaitDone ==
    /\ pc = "wait" /\ StartCleared
    /\ pc' = IF curNode < graph.len THEN "copyNext" ELSE "copyOut"
    /\ UNCHANGED <<call, graph, ret, statics, banks, mem, regs, ip, oa, late>>

\* ... or has found it set NNA_COUNTER times.
WaitTimeoutMutant == FALSE

WaitTimeout ==
    /\ pc = "wait" /\ ~StartCleared
    /\ Return("ETIMEDOUT")
    /\ UNCHANGED <<call, graph, statics, banks, mem, regs, ip, oa, late>>

NextOrder == <<Bs(1 - flag), Km(1 - flag), Pm(1 - flag)>>
NextOut == (outFlag + 1) % 3

\* The next node becomes the current one: !flag and the next of three omblk[].
SwapBanks == flag' = 1 - flag /\ outFlag' = NextOut

\* The three parameter blocks of the next node are in place and the omblk[] it
\* may write is zeroed.
NextLoadedMutant(n) == Loaded(NextOrder, 3, n)
NextLoaded(n) == [Loaded(NextOrder, 3, n) EXCEPT ![Om(NextOut)] = Zero]

CopyNext ==
    /\ pc = "copyNext"
    /\ nextNode' = curNode + 1
    /\ convNextParam' = nextNode'
    /\ mem' = NextLoaded(nextNode')
    /\ parentNode' = IF graph.parent[nextNode'] # 0 THEN graph.parent[nextNode']
                                                    ELSE parentNode
    /\ pc' = "programNext"
    /\ UNCHANGED <<call, graph, ret, curNode, convParam, banks, regs, ip, oa, late>>

CopyNextFails ==
    /\ pc = "copyNext"
    /\ \/ UNCHANGED <<nextNode, convNextParam, mem>>          \* next_
       \/ /\ nextNode' = curNode + 1                          \* its nna_conv_s
          /\ UNCHANGED <<convNextParam, mem>>
       \/ /\ nextNode' = curNode + 1 /\ convNextParam' = nextNode'
          /\ \/ \E n \in 0 .. 2 : mem' = LoadFailed(NextOrder, n, nextNode')
             \/ graph.parent[nextNode'] # 0 /\ mem' = NextLoaded(nextNode')
    /\ Return("EFAULT")
    /\ UNCHANGED <<call, graph, curNode, parentNode, convParam, banks, regs, ip,
                   oa, late>>

\* 2.4) Specify next op's interface address.  A parent with a block of its own
\* is read from it, through a padding buffer when the node wants padding;
\* otherwise the input is what the operation just finished left in omblk[].
ProgramNext ==
    /\ pc = "programNext"
    /\ LET fromParent == graph.parent[nextNode] # 0 /\ Special(graph, parentNode)
           source == Extra(DdrBlock(graph, parentNode))
           pad == graph.inPad[mem[Pm(1 - flag)].node]
           padded == Extra(PadBase + buffFlag)
           framed == fromParent /\ pad # 0
           input == IF framed THEN padded
                    ELSE IF fromParent THEN source ELSE Om(outFlag)
       IN  /\ regs' = [in |-> input, weight |-> Km(1 - flag),
                       out |-> OutBlock(graph, nextNode, NextOut),
                       scale |-> Bs(1 - flag), param |-> Pm(1 - flag)]
           /\ mem' = IF framed
                     THEN [mem EXCEPT ![padded] =
                              AddPad(IF source = padded THEN Zero ELSE mem[source], pad)]
                     ELSE mem
           /\ buffFlag' = IF framed THEN 1 - buffFlag ELSE buffFlag
    /\ pc' = "copyOut"
    /\ UNCHANGED <<call, graph, ret, statics, flag, outFlag, ip, oa, late>>

\* 2.3) if this is an output node, copy output to ddr.
OutputSourceMutant == Om(outFlag)
OutputSource ==
    IF RefCount(graph, curNode) = 0 THEN Om(outFlag) ELSE Extra(DdrBlock(graph, curNode))

CopyOut ==
    /\ pc = "copyOut"
    /\ oa' = IF graph.isOutput[curNode]
             THEN [oa EXCEPT ![convParam] = mem[OutputSource]]
             ELSE oa
    /\ pc' = "advance"
    /\ UNCHANGED <<call, graph, ret, statics, banks, mem, regs, ip, late>>

CopyOutFails ==
    /\ pc = "copyOut" /\ graph.isOutput[curNode]
    /\ oa' = [oa EXCEPT ![convParam] = Junk]
    /\ Return("EFAULT")
    /\ UNCHANGED <<call, graph, statics, banks, mem, regs, ip, late>>

Advance ==
    /\ pc = "advance"
    /\ convParam' = convNextParam
    /\ \/ /\ curNode < graph.len
          /\ curNode' = nextNode
          /\ SwapBanks
          /\ pc' = "start"
          /\ UNCHANGED ret
       \/ /\ curNode = graph.len
          /\ Return("ok")
          /\ UNCHANGED <<curNode, flag, outFlag>>
    /\ UNCHANGED <<call, graph, nextNode, parentNode, convNextParam, buffFlag, mem,
                   regs, ip, oa, late>>

-----------------------------------------------------------------------------
DriverStep ==
    \/ CopyHead \/ CopyHeadFails \/ ProgramHead
    \/ Start \/ WaitDone \/ WaitTimeout
    \/ CopyNext \/ CopyNextFails \/ ProgramNext
    \/ CopyOut \/ CopyOutFails \/ Advance

Next == (\E g \in Graphs : Call(g)) \/ DriverStep \/ IpFinish

Spec == Init /\ [][Next]_vars

\* The caller runs until it returns; the IP may hang for ever.
FairSpec == Spec /\ WF_vars(DriverStep)

-----------------------------------------------------------------------------
(* Properties.                                                             *)

\* Every variable stays in its range; in particular every address written to
\* the registers is one of the driver's blocks.
TypeOK ==
    /\ call \in 0 .. MaxCalls
    /\ graph \in Graphs
    /\ pc \in PCs
    /\ ret \in {"ok", "EFAULT", "ETIMEDOUT"}
    /\ curNode \in Nat /\ nextNode \in Nat /\ parentNode \in Nat
    /\ convParam \in Nat /\ convNextParam \in Nat
    /\ flag \in 0 .. 1 /\ outFlag \in 0 .. 2 /\ buffFlag \in 0 .. 1
    /\ mem \in [Blocks -> Contents]
    /\ regs \in Registers
    /\ ip \in [busy : BOOLEAN, job : Registers, torn : BOOLEAN]
    /\ oa \in [Nodes(graph) -> Contents]
    /\ late \in BOOLEAN

\* The calls the driver answers for: a graph its buffers can carry, and an IP
\* that no earlier call abandoned.
Trusted == Supported(graph) /\ ~late

Right(i) == Tensor(graph, call, i, 0)

\* A call that returns 0 has given the user every output of the graph, each the
\* tensor of its own node for this call's input: no stale tensor of an earlier
\* call, none of another node, none with a dirty or a wrong frame.
OutputsCorrect ==
    pc = "idle" /\ call > 0 /\ ret = "ok" /\ Trusted =>
        \A i \in Outputs(graph) : oa[i] = Right(i)

\* Whatever the call returns in the end, a user buffer is only ever given the
\* right tensor of its node (copyOut's copy_to_user), or is torn by a failing copy.
OnlyRightTensorsDelivered ==
    [][pc # "idle" /\ Trusted =>
          \A i \in Nodes(graph) : oa'[i] # oa[i] => oa'[i] \in {Right(i), Junk}]_vars

\* The output of a node with a block of its own survives in omblk_extra[] until
\* the call returns, whatever the later operations and padding buffers write.
SharedOutputsSurvive ==
    pc \in {"copyNext", "programNext", "copyOut", "advance"} /\ Trusted =>
        \A i \in Specials(graph) :
            i <= curNode => mem[Extra(DdrBlock(graph, i))] = Right(i)

JobBlocks(r) == {r.in, r.weight, r.out, r.scale, r.param}

\* The CPU never rewrites a block the IP is using in a run of the current call.
NoWriteUnderIp ==
    [][ip.busy /\ ip'.busy /\ ~ip.torn /\ ~ip'.torn =>
          \A b \in JobBlocks(ip.job) : mem'[b] = mem[b]]_vars

\* A call leaves the IP running behind it only by a time-out, its own or an
\* earlier one it inherited: the copy failures return with the IP at rest.
NoRunAbandoned ==
    [][pc # "idle" /\ pc' = "idle" /\ ip'.busy => ret' = "ETIMEDOUT" \/ late]_vars

\* Every call returns, even when the IP never clears START.
CallReturns == pc # "idle" ~> pc = "idle"

\* Node i reads omblk[], where its parent's output no longer is, or an input that
\* software has framed wrong.
Misread(g, i) ==
    \/ i # 1 /\ ~Special(g, g.parent[i]) /\ g.parent[i] # i - 1
    \/ Misframed(g, i)

\* The nodes that read their input, and whose ancestors read theirs, from the
\* block it is in and framed as they want it.
WellRead(g) ==
    UNION {S \in SUBSET Nodes(g) :
              \A i \in S : ~Misread(g, i) /\ (i # 1 => g.parent[i] \in S)}

\* What is right in a graph that need not be supported: a call that returns 0
\* has given the user the right tensors of the well-read outputs and of no
\* other, and of none at all if the head has a block of its own.  No error
\* tells the one from the other.
RightExactlyIfWellRead ==
    pc = "idle" /\ call > 0 /\ ret = "ok" /\ ~late =>
        \A i \in Outputs(graph) :
            LET reached == ~Special(graph, 1) /\ i \in WellRead(graph)
            IN  /\ oa[i] = Right(i) => reached
                /\ reached /\ Cardinality(Specials(graph)) <= PadBase => oa[i] = Right(i)

\* What a caller sees of all this: an abstract service that hands over right
\* tensors one by one and returns 0 only when all have been.
Service == INSTANCE SubgraphService WITH
    busy <- pc # "idle",
    given <- IF pc \in {"idle", "copyHead", "programHead"} THEN {}
             ELSE {i \in Outputs(graph) :
                      i < curNode \/ (i = curNode /\ pc = "advance")},
    hung <- pc = "idle" /\ ip.busy

ImplementsService == Service!Spec

-----------------------------------------------------------------------------
(* Statements of the repository's comments, which the code does not keep.  *)

\* graph.h: the nodes referenced more than once are "constricted to no more
\* than 10": with up to ten of them a call delivers its outputs.
TenSharedNodesWork ==
    pc = "idle" /\ call > 0 /\ ret = "ok" /\ ~late
      /\ Cardinality({i \in Nodes(graph) : RefCount(graph, i) > 1}) <= 10
      => \A i \in Outputs(graph) : oa[i] = Right(i)

\* nnadrv.c "Wait op to be doned": past the wait, the current node's run is
\* over, so its output block holds what the current node computed.
WaitIsForCurrentOp ==
    pc \in {"copyNext", "copyOut"} /\ Supported(graph) =>
        LET x == mem[OutBlock(graph, curNode, outFlag)]
        IN  x.kind = "tensor" /\ x.node = curNode /\ x.call = call

=============================================================================
