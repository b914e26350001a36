# Verification of the NNA accelerator stack

The repository runs quantised SSD detection networks on a Cyclone V board.
Paddle-Lite cuts a network into subgraphs of convolutions; for each subgraph an
engine makes a linked list of device nodes; a user-space library hands the list
to a kernel driver; the driver walks it and runs node after node on a
convolution IP in the FPGA. This directory models that path, from the network
being compiled to the last output being copied back, model-checks it with TLC and
proves with TLAPS what the builder, the engine, the library and the driver
guarantee for every program, shape and number of callers.

Paths below are relative to `src/`; "driver" is `nnadrv/src/nnadrv.c`, "bridges"
is `Paddle-Lite/lite/kernels/intel_fpga/bridges/`.

## 1. Inventory

| Component | State it keeps | Operations | Module |
|---|---|---|---|
| Subgraph executor (driver, `nna_conv2d_subgraph`) | static `cur_node`, `next_node`, `parent_node`, `conv_param`, `conv_next_param`; blocks `imblk`, `kmblk`, `bsblk`, `pmblk`, `omblk`, `omblk_extra`; IP registers | one call: load, start, poll, load next, reprogram, copy out | `DeviceGraph`, `SubgraphExec`, `SubgraphService` |
| ioctl interface (driver, `nna_ioctl`) | `pdata->mutex`, `pdata->done`, the same blocks and registers | CONV, CONV_SUBGRAPH, MCPY, POOL, FCON, REGWR; MGET, FREE; INFO, RESET, REGRD | `NnaDriver`; MGET and FREE in `DriverLoad` |
| Loading and unloading (driver, `nna_init`, `nna_exit`) | `objId` and everything in it, the device file | insmod with rollback, rmmod, open, release; the memory lent to applications | `DriverLoad` |
| Device graph builder (bridges `conv_op.cc`, `graph.cc`, `graph.h`) | list, `tensor2node_`, `output_nodes_`, `din_`, `data_buff_`, heap | ConvConverter, BuildDeviceModel, ~Graph | `GraphBuilder` |
| Subgraph engine (`subgraph_compute.cc`, `subgraph_engine_base.cc`) | `origin_idims_`, `device_programs_`, the tensors' memory and dims, what a failed launch leaves | Run, BuildDeviceProgram, LaunchDeviceProgram | `SubgraphEngine` |
| User-space library (`intel_fpga_sdk/lib/intelfpga.cc`) | `nna_fd`, a mutex | intelfpga_open, IntelFpgaConvDepthwise | `IntelFpgaSdk` |
| Data layouts (`intel_fpga_sdk/lib/utils.cc`, `intelfpga.cc`, bridges `conv_op.cc:150-214`, driver `add_pad`) | the buffers an inference goes through: `buff`, `ia`, an output's framed block, the tensors | weight reordering, conv_chw_pad, InputRearrange, OutputRearrange, add_pad | `DataLayout` |
| Subgraph detector and pass (`lite/core/mir/subgraph/`, `ssa_graph.cc`) | marks, links and the union-find structure over the graph's nodes; the statements after fusion | SSAGraph::Build, topological sort, contraction, extraction, fusion | `Network`, `SubgraphDetector` |
| Memory optimisation and program generation (`memory_optimize_pass.cc`, `generate_program_pass.cc`, `optimizer.h`) | lifetimes, the reuse plan, the schedule, the values in memory | CollectLifeCycleByDevice, MakeReusePlan, PerformReusePlan, the generated program's run | `MemoryReuse`, `NetworkCompiler` |
| Older convolution kernels, memory wrapper, demo and benches, vendored Paddle-Lite and OpenCV | see section 8 | | not modelled |

How they meet. The optimizer builds a graph of the network's program, lets the
detector decide which convolutions form one subgraph, shares memory between the
variables that are left and lists the statements again. The engine builds a device
graph for a program the first time an input shape occurs and keeps it. The list holds
raw pointers to tensors and to device-layout buffers. A launch rearranges the input into `ia`, takes the library's mutex, and
makes one ioctl with the root of the list; the driver takes its own mutex, copies
the records from user memory one at a time, and shares blocks and registers with
the IP, which raises no interrupt: the driver polls the START register, at most
`NNA_COUNTER` times.

What is hard here.

- Two actors, the processor and the IP, on the same memory blocks, with a
  time-out that abandons a run without stopping it.
- The walk reuses a few blocks: two parameter banks, three output blocks, two
  padding buffers, and ten blocks for outputs that are read more than once. Which
  block a node reads and writes is decided in three places (builder, reader,
  writer) that must agree, and is tested in none.
- Several processes behind one mutex, with error returns from the middle of every
  command, and one command that works without the mutex.
- Pointers cached across inferences while tensors move.
- A detector that rewires a graph while it searches it, and two later passes that
  rely on an order which depends on the addresses of nodes.
- Byte shuffles whose tails run only for some shapes.
- Thirty resources acquired in sequence, with a rollback label for each.

What makes each correct. Executor: a call that returns 0 delivered the right
tensor of every output. ioctl: it did so whatever other processes did meanwhile,
and the mutex always comes back. Loading: a call inside the driver has all it
uses; what was taken is given back. Builder: the list is the program's graph and
every tensor fits its block. Engine: the operators after the subgraph see this
inference's data and dimensions. Library: every ioctl is made on an open device. Layouts: the IP and the
user each find every byte where they look for it. Compiler: the program that runs
computes what the network's program says, and every subgraph is one the builder
can take.

## 2. The modules and the code

**`DeviceGraph`** is the list in closed form: who reads whom (`parent_`),
reader counts, `ddr_block_idx`, `out_pad`. `Special(g, i)` is a node with a block
of its own in `omblk_extra`; `Supported(g)` are the graphs the driver's buffers
can carry. Nothing in the code tests `Supported` (`DeviceModelValidCheck` returns
true). One of its conditions is about padding. The IP frames its own outputs for any
padding, but the head's input is framed by the library (`conv_chw_pad`) and the input of
a reader of a `Special` node by the driver (`add_pad`), and both skip one row whatever
the padding: `SoftwareFrames(p)` is p <= 1, and a node that wants more of them is
`Misframed`. That one is the limit is not assumed here but shown on the bytes, by
`FramedUnlessOddlyPadded` of `DataLayout`. A graph is a tree with one root, since a convolution has one data input
and a cluster of the detector is connected. Every topological order is considered,
because `SSAGraph::StmtTopologicalOrder` walks a map keyed by node addresses: the
order of branches is the allocator's.

**`SubgraphExec`** is `nna_conv2d_subgraph`. `pc` names the stretches between
the points where the IP can make a difference: `CopyHead` (parameters, input,
weights of the first node), `ProgramHead`, `Start`, `WaitDone` or `WaitTimeout`,
`CopyNext`, `ProgramNext` (choice of the input block, padding included),
`CopyOut`, `Advance` (bank swap). Each `copy_from_user` or `copy_to_user` can fail,
after any number of successful ones before it (`CopyHeadFails`,
`CopyNextFails`, `CopyOutFails`). `IpFinish` is the other actor. Data is a record:
the output of node i for the input of call c in a frame of padding p, the
parameters of a node, zeros, or junk; `Result` gives junk unless all five
registers point at what belongs together, and framing in software (`Image` of the head's
input, `AddPad`) gives junk for a padding above one. A run that outlived its call is
`torn` when a new call begins to overwrite its blocks, and its result is then
arbitrary. Starting a busy IP either restarts it or is lost: both are allowed.

**`SubgraphService`** is the abstract specification: a call hands over outputs
in list order, each right if the graph is supported and the IP was at rest, and
returns 0 only after the last one. `SubgraphExec!Service` instantiates it with a
refinement mapping: a call is being served while `pc` is not idle, an output has
been given once the walk is past its node.

**`NnaDriver`** is `nna_ioctl` for several processes: argument copied in before
the lock, `mutex_lock_interruptible`, the command, one `mutex_unlock`.
`nna_conv2d` is there in full, `nna_dma_copy` with its one completion, REGWR
without the mutex. POOL stands for FCON too: their functions have no body and their
cases are alike. The walk of `SubgraphExec` appears as a sequence of runs that
ends with the call's own data if it was not disturbed, which is what
`OutputsCorrect` shows. That is how the two compose.

**`DriverLoad`** goes through the acquisitions of `nna_init` in order; each may be
refused, and jumps to its label (`FailLabel`, `Rollback`). `UnloadOrder` is
`nna_exit`. Applications open and call the device as soon as `device_create` has
made the file, which is before `nna_init` ends. The kernel's module reference
count is assumed: no unloading while a file is open. An open application may also
MGET a block of memory, use it over several calls, FREE it, or end (the driver frees what
it is told to; applications are assumed to FREE only what they hold): `lent` says who has
each block, `Getting` being the stretch between allocation and the second
`copy_to_user`, and `halfDone` and `orphans` count the two ways of losing one.

**`GraphBuilder`** runs ConvConverter on each convolution, then
BuildDeviceModel, then ~Graph, with every allocation on a heap of named pointers.
It starts from `IsProgram`, which is what the detector guarantees
(`SubgraphsArePrograms` of `NetworkCompiler`). `Refused` has the CHECKs that a program can
fail: a name written twice, scales or weights larger than their block, a kernel wider than
three. Those at lines 41-44 and 80 of `conv_op.cc` cannot fail, as they compare a tensor's
dimensions with themselves and one constant with another. Its property
`ListIsTheGraph` is the bridge to `DeviceGraph`: the list it ends with is the
graph that `SubgraphExec` starts from.

**`SubgraphEngine`** is one engine over several inferences. A tensor has an
address that changes when it grows (`Buffer::ResetLazy`) and may be an address
that was given back before. A launch may fail, which `SubgraphCompute::Run` ignores:
the operators behind the subgraph then read what is there.

**`IntelFpgaSdk`** has threads that race through the unlocked test of `nna_fd`
and then serialise on the library's mutex.

**`DataLayout`** takes one layer through building and several inferences, with
bytes as labels `<<call, tensor, index>>`, so that a byte out of place is a wrong
label. The rearrangements are modelled as the code does them: blocks of 8
pixels by 16 layers transposed by pairs of NEON registers (`vtrn` on bytes, halves
and words), then the scalar tails. The properties compare the outcome with one closed
formula, `Place`. `buff` is one buffer for the padded input and for every output in
turn, as in the library.

**`Network`** is the optimizer's graph of a program: every write of a name is a
variable node of its own, as in `SSAGraph::Build`. **`SubgraphDetector`** marks
supported operators, walks the nodes in any topological order, collects the successors
that can be contracted, contracts them one at a time (`Combine` rewires neighbours as
`UnionFindCombine` does) and fuses each cluster into one
statement. **`MemoryReuse`** has lifetimes, the reuse plan and the renaming as operators
on a schedule. **`NetworkCompiler`** composes them in the order of `optimizer.h`,
then runs the program, one statement at a time, on a memory that holds for each name
the operator whose value is there; `wrong` records a read of another value. The runtime
passes over a fetch (`SkipFetch`, `program.cc:423`); the user reads the outputs when the
program has ended (`Finished`), so what is fetched has to stay in memory until then.
An operator of type `excluded` is one whose variables the memory plan leaves alone: those
on its list (cast, expand, ...) and a reshape in place. The latter also makes
two names share a tensor. As the names are in nobody's plan that is harmless unless the
network itself rewrites one of the two; such networks, and variables that are no tensors,
are not modelled.

`MC*` modules give each its instances, `*_proofs` hold the theorems.

## 3. Runs

Passing runs, with the bounds and why they are enough:

| Run | States | Shows |
|---|---|---|
| `exec_trees` | 480,259 | One call on every tree of up to four nodes with any paddings from 0 to 2 and of five and six with a uniform one, each in every topological order, any subset of inner tensors leaving too. A supported graph gets all its outputs right (`OutputsCorrect`), any other exactly those that are well read (`RightExactlyIfWellRead`): the node and its ancestors each take their input from where it is and framed right, and the head has no block of its own. Two is the first padding software frames wrong, and a larger one is no different. `SharedOutputsSurvive` follows the shared blocks through the walk. Six nodes take each of the three `omblk` twice round, both parameter banks and both padding buffers. |
| `exec_calls` | 88,893 | Two calls over the same blocks and static variables, with every copy failure, time-outs, and a run that outlives its call. Two is enough for anything one call inherits from another: what a call leaves is blocks, statics and a busy IP, and `Call` resets the rest. Refinement of `SubgraphService`, termination of every call. |
| `graph_build` | 60,148 | Trees of up to four convolutions with one to three channel tiles; kernels, square or not, and scales on both sides of what is refused. |
| `driver_everything` | 4.0 million | Two processes, two calls each, all commands, node lists of up to two operations. A second call of each process meets what the first left behind. |
| `driver_release` | 199 thousand | Three processes on the mutex, one call each, under fairness. |
| `driver_load` | 31,253 | Two loads, so that one meets what a failed one left; two applications, two blocks to be lent, so that one application may hold both. |
| `engine_shapes` | 496 thousand | Five inferences over four shapes: two with the same output size, two with the same input size, one largest; two addresses, so that an address is reused; launches that fail. |
| `sdk_threads` | 24 thousand | Three threads, two calls each, opens that fail. |
| `layouts` | 3,648 | 162 layers, two inferences each: channel counts on both sides of one and two tiles, planes on both sides of the 8-pixel step, paddings of 0 to 2 and unequal ones, one and two outputs, depthwise or not. The second inference meets what the first left in the shared buffer, failed or not. |
| `compile_network` | 45,665 | Every network of three operators with one or two inputs and any of them supported; trees of four; four operators with one on the host (clusters around a path that leaves and comes back); five on the host (long enough to share memory), also with variables left alone and an output fetched before others are computed; networks that write a name again. Each in every topological order. |

The type invariant of a module is either proved (section 5) or an invariant of its
run, not both, `GraphBuilder.TypeOK` apart.

Two runs are violations: each checks one sentence of the repository that the
code does not keep. That the head of the list and a node away from its parent read
the wrong block is not among them: `RightExactlyIfWellRead` of `exec_trees` states it,
output by output.

- `exec_nine_shared`: `bridges/graph.h:52` allows ten shared nodes; the ninth's
  block is also a padding buffer (driver, line 446).
- `exec_timeout`: after "Wait op to be doned" (driver, line 377) the operation need
  not be this call's: a run abandoned by an earlier time-out ends the wait.

Invariants state such behaviour exactly where it is settled behaviour and not at
odds with a comment: `LoadedIsUsable` says that insmod reports success although
`class_create` or `device_create` failed (`err` is still 0 at lines 844 and 857);
`LeaksOnlyBlocks` that a refused memory block loses the ones before it;
`ReleasesOnlyHeld` that `release_mem_region` is called for a region never
requested; `CallsHaveTheirResources` that the mutex is initialised after the
device can be opened; `DestructorGoesByReaders` what `~Graph`
deletes of tensors it does not own and leaves of buffers it does, under the
comment "Delete output node's output space"; `DimsRightUnlessOtherBuilt` and
`DataRightUnlessOutgrown` when a cached program is stale; `FailedLaunchShowsTheLastGood`
what the result of a failed launch is; `LentMemoryAccounted` the two ways MGET's memory
is lost; `FramedUnlessOddlyPadded` that of the paddings alike on all
sides only none and one are right (and of the others those with one row above and 2p - 1
below, p on either side), since `conv_chw_pad` and `add_pad` skip one row for any padding
and the left padding sizes every side; `DepthwiseReadsPastTheEnd` which lanes of the last
depthwise tile come from beyond the filter; `ReadsWhatTheNetworkMeans` that a name
written again is safe only where data orders the write after the reads of the old
value. A change of the code that repairs one of these will break the property, which is
then tightened.

`CHECK_DEADLOCK FALSE` is in every cfg, because all these systems may stop:
applications make no further call once `MaxCalls`, `MaxRuns` or `MaxLoads` is
reached, and a graph that was refused or destroyed stays so. That nobody waits for
ever is the subject of the liveness properties instead.

`TLC` is run as `tlc -workers 2 -config <cfg> <MC module>`, with the pairs listed
under "runs" in `PROJECT.json`.

## 4. Fairness

- `SubgraphExec!FairSpec` has weak fairness of the walk only. The poll loop is
  bounded by `NNA_COUNTER`, so the wait ends by itself; nothing is assumed of the
  IP, and `CallReturns` holds when it hangs.
- `NnaDriver!FairSpec` has weak fairness of each process between lock and unlock,
  and of the DMA engine: `wait_for_completion` has no time-out, so without the
  latter the mutex could be held for ever, and the code relies on it. There is none
  on the acquisition of the mutex, whose kernel implementation promises no order.
- `IntelFpgaSdk!FairSpec` has weak fairness of a thread inside the library; that the
  ioctl returns is `CallReturns` one layer down.
- `NetworkCompiler!FairSpec` has weak fairness of the one thread that compiles: under it
  `Compiles` says that the contraction loop, which goes round until nothing is
  contractible, ends.

## 5. What is proved

The proofs hold for every set of graphs, programs, shapes and layers, and every number
of calls, processes, threads and applications. They rest on the named assumptions of
the modules: `ExtraAssumption` (the two padding buffers are the last two of
`omblk_extra`), `GraphsAssumption` (submitted lists are graphs, with no more shared
nodes than `omblk_extra` has blocks), `DriverAssumption` (the names of the commands,
bounds are naturals), `BuilderAssumption` (programs are `IsProgram`; tile and block
sizes are positive), `EngineAssumption` (sizes are positive, equal output
dimensions have equal sizes), `SdkAssumption` and `LoadAssumption` (finitely many threads and lent blocks,
bounds are naturals), `LayoutAssumption` (layers are `IsLayer`), `NetworksAssumption` (programs are `IsNetwork`:
an operator reads what was fed or what an earlier one writes, and never what a fetch does).

`SubgraphExec_proofs`: `TypeCorrect`, `OutputsAreCorrect`, `SharedOutputsAreSafe`,
`RightExactly`, `OnlyRightTensors`, `NoWriteUnderTheIp`, `NoRunIsAbandoned`. `OutputsCorrect` speaks
of a finished call only, so the induction is about the walk:

- `ControlInv`: the static copies of the nodes are the current node, its successor
  and the successor's parent whenever they are read. It holds for every graph,
  supported or not, and gives `TypeOK`, since an address computed from a stale
  node could leave the blocks.
- `DataInv`, for a graph whose shared outputs fit (`Fits`) in a call that found the IP
  at rest, and of its nodes the well-read ones: all of them if it is supported. A
  misframed node is not well read, so the statement is for every padding. At `start`, registers
  and blocks are `Armed` for the current node: its parameters in one bank, its
  input framed as it wants, its output block zeroed. After the wait the output block
  holds what it `Computed`. Blocks of shared nodes are `Kept`; outputs passed are
  `Given`. The step that carries the argument is `ProgramNext`: for a well-read
  node a parent without a block of its own is the node just finished, so `omblk[outFlag]`
  holds its tensor in the frame that `OutPad` chose; a parent with one is `Kept`, and
  by the lemma on `DdrBlock` no other shared node or padding buffer has its index.
- `MisreadInv`, for any graph: that what is not well read is never right. No block and
  no user buffer holds a tensor of this call and of such a node (`SpoiltInv`). A run
  could make one only from its parent's tensor; by `Programmed` and `OwnInv` a tensor of
  this call in the `omblk[]` it reads is that of the node before it in the list, in a
  block framed by software there is one only if the padding is one that software frames
  right, and by `AgeInv` none is left from an earlier call. The only exception is a head
  with a block of its own, whose output lies in `omblk[0]` (`HeadIn`), where no reader looks.
- `IpInv`, for calls of any graph: while the IP runs for the current call the caller
  is polling, and it runs for an earlier one only in a call that began over it. From it follow `NoWriteUnderTheIp` and `NoRunIsAbandoned`.

`DriverImplementsService`, in the same module, is the refinement. The abstract
variables are given by the mapping of `SubgraphExec` (`Serving`, `HandedOver`, `Hung`).
Every action of the driver falls under one of five lemmas: it begins a call, hands over
an output, ends the call well or badly, or stutters. That the output handed over is
the right one, and that 0 is returned only at the end of the list, comes from the
inductive invariant and `IpInv`.

`NnaDriver_proofs`: `DriverTypes`, `MutexIsKept`, `ResultsAreOwn`,
`TransfersAreOwn`, `RunsEnd`. The inductive invariant is `TypeOK`,
`MutexDiscipline`, `CmdInv` (which command can be at which line), `RestInv` (the IP is
at rest except in an undisturbed call's wait or after its time-out), `OwnInv` (at
each line the blocks and registers an undisturbed call relies on carry its tag) and
`DmaInv` (the transfer under way belongs to the process that waits). Each step has
two cases: the process itself, or another one, which by `MutexDiscipline` is not
inside and so cannot touch the device, or is a REGWR, which disturbs.

`GraphBuilder_proofs`: `BuilderTypes`, `TheListIsTheGraph`, `FramesAlwaysFit`,
`UserTensorsAreKept`, `TheDestructorGoesByReaders`. The invariant `BuilderInv` gives the
list, the map, the counters and the heap in closed form at every point: after k
conversions they are `Made(P, k)` and `MakeHeap(k)` (`ConvertInv`), after k nodes of
BuildDeviceModel `BuiltUpTo(P, k)` and `BuildHeap(P, k)` (`BuildInv`), after k nodes of
the destructor `Remains(P, k)` and `Lost(P, k)` (`DeleteInv`). Each step goes from one to
the next. The reader counts need an argument about cardinalities (`RefsGrow`: the next
convolution adds itself to the readers of its parent and to nobody else's), the block
numbers another (`SpecialsBefore`). The theorem about the list closes the gap between
what the builder makes and what `SubgraphExec_proofs` assumes of it.

`SubgraphEngine_proofs`: `EngineTypes`, `DataIsRightUntilOutgrown`,
`DimensionsAreTheLastBuilt`, `FailedLaunchesAreStale`, `EveryLaunchHasAProgram`.
`EngineInv` says of each cached program at which inference it was built, namely the
first of its shape, and that since then either its pointers are still the tensors' or
a larger tensor has come (`Outgrew`); memory only grows, an address in use is held by
one tensor, and whatever was written through an old pointer is not the output's.

`DriverLoad_proofs`: `LoadTypes`, `CallsFindTheirResources`, `WhatIsLoadedIsUsable`,
`OnlyBlocksLeak`, `OnlyHeldIsReleased`, `LentMemoryIsAccounted`. Resources are numbered by
the step that acquires them; what is held is then an interval of numbers while loading,
`Kept(s)` while a rollback is at label s, `Left(s)` while unloading is at step s, and what
is lost is the blocks below the refused one (`Gone`). `LentInv` pairs each counted loss
with a block.

`IntelFpgaSdk_proofs`: `LibraryTypes`, `IoctlsHaveADevice`, `AtMostOneDescriptorEach`. A
thread between its test of `nna_fd` and its store accounts for at most one descriptor.

`DataLayout_proofs`: `LayoutTypes`, `EveryByteHasItsPlace`, `WeightsAreInOrder`,
`DepthwiseWeightsAreAsRead`, `OutputsReachTheirTensors`, `FramedUnlessPaddedOddly`, for any
layers. A place is a number in a mixed base, and `EveryByteHasItsPlace` says that the
formula the layout properties compare the code with is one to one and stays inside
`Extent`. From `Division` and `PlaceDigits` each loop's index gets its digits back:

- `WeightsInv`: after the build, each place of the weights holds what the loop that
  reaches it stored.
- `TransferInv`: what the output buffer, the rearranged block and the tensors hold at each
  point between the ioctl and the copy. `Transposed` follows a byte through the four
  rounds of `vtrn`; `BlockLoaded` and `BlockStored` place the 8-by-16 blocks, and
  `OutputPlaced` joins them with the scalar tails.
- `FrameInv`: the buffer wiped, padded and rearranged at each point before the ioctl, and
  the block that `add_pad` makes for a later reader. That the named paddings suffice is
  the pixel formula (`PaddedPixel`, `FramedPixel`); that no others do exhibits a pixel which
  is misplaced (`RightPaddingNeeded`, `SharedPadding`). The largest output, for which the
  buffer is sized, is found by `LargestOfMany` from the least-number principle
  (`LeastNatural`).

`NetworkCompiler_proofs`: `TypeCorrect`, `LinksAreThoseOfTheClusters`,
`NoClusterFeedsItself`, `SubgraphsAreProgramsAlways`, `InputsAreNeverOverwritten`,
`ReadsAreTheNetworks`, for any network. `DetectorInv` comes first, the others rest on it:

- `DetectorInv`: the union-find trees are a forest with depths (`ForestInv`), so that
  the ancestor a chain of parents ends in is its root; the links are those of the
  network between clusters (`Quotient`); and the contracted graph is `Acyclic`. That a
  node is out of reach is always shown by a set it is not in, closed against the
  direction of the links (`ReachAvoids`), never by paths. The candidates of one round
  are tested before any of them is combined. That the rest may still be combined is part
  of the invariant (`Apart`): if no path but the link joins a node to two candidates,
  none joins it to the second after the first was combined.
- `TreeInv`, for networks with one data input per supported operator: only the root of a
  cluster of marked nodes reads from outside (`Tree`), and a node the walk has left has no
  marked successor. When the walk ends no link leads from one such cluster to another,
  and a cluster's list is a program.
- `CompilerInv` and `RunInv`: the statements partition the operators, a fetch being one of
  its own (`StatementsOK`); no
  statement reads what it or a later one writes (`ScheduledOK`); a lifetime covers every
  statement that uses the name, none of which is a subgraph's, a fetch's or another whose
  variables are left alone (`LivesOK`); names in one
  memory have disjoint lifetimes (`Disjoint`). What memory holds is `MemoryOK`: each
  value already there that a later statement or the user at the end reads. `MidwayOK` is the same between two
  operators of a statement. The step is `Overwriting`: whoever writes to that memory runs
  before the value's producer or after its reader, and nobody runs after the user. For the same name that is
  `WritesOrdered`, for another name in the same memory it follows from the lifetimes.

`ReverseDFS`, `DependsOn`, the topological orders and the folds are recursive functions.
That such a function satisfies its recursion is no instance of a library theorem
here: `RankRecursion` shows it by recursion over a rank, with sets in the place of
predicates in the inductions, and the lemmas on each function (`ReachFacts`,
`DependsOnIs`, `OrdersAreOrders`, `FoldRuns`, `ClustersAreLists`) rest on it.

## 6. What is only model-checked

Liveness (`CallReturns`, `MutexReleased`, `MutexComesBack`, `Compiles`) and everything
with ENABLED are beyond the proof system. All safety
properties the passing runs check are also proved; the two runs that expect a violation
show what a comment promises and the code does not.

Where a model was restated to be reasoned about, it was brought closer to the code:
`Clusters` appends operator by operator as ExtractSubgraphs does, and `Follows` is the
direct adjacency of BuildOperationAdjList.

## 7. Plan

Done: the whole path from the network to the outputs, each component's run, the theorems
of section 5, the refinement among them. Left, in this order:

1. The place-correction pass (`intel_fpga_kernel_place_correct_pass.h`) with the precision
   casts it inserts, and `type_precision_cast_pass.cc` after it. They decide which
   convolutions the teller of `IntelFpgaSubgraphPass` accepts.
2. The detector's clusters for more than one input per supported operator, should the
   bridges ever register one (`paddle_use_bridges.h` has the two convolutions only).

## 8. What is not modelled, and why

- The IP's arithmetic: it is hardware outside the repository. `Result` says only
  which blocks a run reads and writes and whether they belong together.
- mmap maps what MGET gave and changes nothing of the driver's; INFO, RESET and REGRD
  change no state.
- `remove_pad` of the driver has no caller.
- In the optimizer: the passes of other devices, the place-correction pass, and which
  operators are supported (a parameter: any of them may be). The pass needs
  Paddle-Lite's kernel registry and types, and an attribute, `forced_scale`, that only a
  model file sets; what it decides reaches the modelled passes as that set of
  operators.
- The memory plan's device classes other than the host's: subgraph operators are on the
  list of operators whose variables are left alone, so the accelerator's tensors are
  never shared.
- `intelfpga_close` has no caller; `nna_pool2d` and `nna_fullcon` have no body.
- `conv_compute.cc`, `conv_gemmlike.cc`, `conv_intelfpga.cc`, `conv_depthwise.cc` are the
  path from before subgraphs; two of them call a library function that is gone.
- `target_wrapper.cpp` renames malloc, free and memcpy. The demo is one sequential
  main program; the benches time loops.
- Paddle-Lite and OpenCV are vendored and make up nearly all of the half million lines
  of the repository: kernels for other processors, image processing, headers. The
  accelerator's own code is about three thousand lines, and the definitions here map most
  of its control. Of Paddle-Lite, besides the optimizer's passes above, tensor memory
  (`lite/core/memory.h`, `tensor.h`) is in `SubgraphEngine` because the cached pointers
  depend on it.
- Memory ordering between processor and IP: the blocks come from `dma_alloc_coherent`, the
  registers from `ioremap_nocache`, and the driver writes START last, so steps are taken as sequentially consistent.
