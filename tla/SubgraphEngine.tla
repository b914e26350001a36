----------------------------- MODULE SubgraphEngine -----------------------------
(***************************************************************************)
(* The kernel of a subgraph operator on the accelerator, SubgraphCompute   *)
(* (lite/kernels/intel_fpga/subgraph_compute.cc) on top of                 *)
(* SubgraphEngineBase (lite/core/subgraph_engine_base.cc).  Each inference *)
(* the operators before it resize and fill the subgraph's input tensor,    *)
(* the engine runs, and the operators after it read the output tensor: its *)
(* dimensions and its data.                                                *)
(*                                                                         *)
(* The engine keeps one device program per input shape it has met.  A      *)
(* program holds the raw pointers the tensors had when it was built        *)
(* (Graph::BuildDeviceModel), while a tensor that grows moves to a new     *)
(* allocation (Buffer::ResetLazy, lite/core/memory.h).                     *)
(***************************************************************************)
EXTENDS Integers, Sequences

CONSTANTS
    Shapes,     \* the input shapes the application uses
    InSize,     \* bytes the input tensor takes for a shape
    OutDims,    \* dimensions of the output for a shape of the input
    OutSize,    \* bytes the output tensor takes for a shape of the input
    NoShape,    \* origin_idims_ before the first run
    Addresses,  \* where an allocation can be
    Null,       \* no allocation
    MaxRuns     \* bound on the number of inferences

ASSUME EngineAssumption ==
    /\ InSize \in [Shapes -> Nat \ {0}] /\ OutSize \in [Shapes -> Nat \ {0}]
    /\ DOMAIN OutDims = Shapes
    /\ \A s, t \in Shapes : OutDims[s] = OutDims[t] => OutSize[s] = OutSize[t]
    /\ NoShape \notin Shapes /\ Null \notin Addresses
    /\ MaxRuns \in Nat

VARIABLES
    pc,         \* who is running: the operators before, the engine, those after
    run,        \* number of the current inference
    input,      \* the input tensor
    output,     \* the output tensor
    idims,      \* origin_idims_
    programs,   \* device_programs_: for each shape no program or its pointers
    ok,         \* what ExecuteDeviceGraph returned, which Run ignores
    wild,       \* history: a program wrote through a pointer to freed memory
    good,       \* history: the last inference whose launch returned true
    seen        \* history: the shapes of the inferences so far

vars == <<pc, run, input, output, idims, programs, ok, wild, good, seen>>

\* A tensor: dims_, where its buffer is, space_, and whose data it holds: the
\* number of an inference and its shape.
Junk == <<0, NoShape>>
Empty == [dims |-> NoShape, buf |-> Null, space |-> 0, data |-> Junk]

NoProgram == [din |-> Null, oa |-> Null]

\* What Resize(d) and mutable_data can make of a tensor: Buffer::ResetLazy frees
\* and allocates when the space is too small; the new memory can be anywhere, also
\* where memory was given back.
Reallocated(d, size) ==
    {[dims |-> d, buf |-> a, space |-> size, data |-> Junk] : a \in Addresses}

ReshapedMutant(t, d, size) ==
    IF t.space # size THEN Reallocated(d, size) ELSE {[t EXCEPT !.dims = d]}
KeptDimsMutant(t, d, size) ==
    IF t.space < size THEN Reallocated(d, size) ELSE {t}
Reshaped(t, d, size) ==
    IF t.space < size THEN Reallocated(d, size) ELSE {[t EXCEPT !.dims = d]}

Init ==
    /\ pc = "before" /\ run = 0
    /\ input = Empty /\ output = Empty
    /\ idims = NoShape
    /\ programs = [s \in Shapes |-> NoProgram]
    /\ ok = TRUE /\ wild = FALSE /\ good = 0
    /\ seen = <<>>

\* The operators before the subgraph produce its input.
Feed(s) ==
    /\ pc = "before" /\ run < MaxRuns
    /\ run' = run + 1
    /\ \E t \in Reshaped(input, s, InSize[s]) :
          input' = [t EXCEPT !.data = <<run', s>>]
    /\ seen' = Append(seen, s)
    /\ pc' = "run"
    /\ UNCHANGED <<output, idims, programs, ok, wild, good>>

\* SubgraphEngineBase::Run: InputShapeChanged compares and stores the shape.
Run ==
    /\ pc = "run"
    /\ idims' = input.dims
    /\ pc' = IF input.dims # idims THEN "build" ELSE "launch"
    /\ UNCHANGED <<run, input, output, programs, ok, wild, good, seen>>

\* SubgraphEngine::BuildDeviceProgram: for a shape without a program the shapes
\* are inferred, the converters take the tensors' memory, and BuildDeviceModel
\* keeps the pointers.
NewProgram == [din |-> input.buf, oa |-> output'.buf]

Build ==
    /\ pc = "build"
    /\ IF programs[idims] = NoProgram
       THEN /\ output' \in Reshaped(output, OutDims[idims], OutSize[idims])
            /\ programs' = [programs EXCEPT ![idims] = NewProgram]
       ELSE UNCHANGED <<output, programs>>
    /\ pc' = "launch"
    /\ UNCHANGED <<run, input, idims, ok, wild, good, seen>>

\* LaunchDeviceProgram, ExecuteDeviceGraph, IntelFpgaConvDepthwise: the program of
\* the current shape reads its input pointer and writes its output pointer.
LaunchOk ==
    /\ pc = "launch"
    /\ LET p == programs[idims]
           result == IF p.din = input.buf THEN input.data ELSE Junk
           lost == p.oa # output.buf
       IN  /\ output' = IF lost THEN output ELSE [output EXCEPT !.data = result]
           /\ wild' = (wild \/ lost)
    /\ ok' = TRUE /\ good' = run
    /\ pc' = "after"
    /\ UNCHANGED <<run, input, idims, programs, seen>>

\* The device cannot be opened or the ioctl fails: false is returned before any
\* output is written, and SubgraphCompute::Run goes on as if nothing had happened.
LaunchFailsMutant ==
    /\ pc = "launch"
    /\ ok' = FALSE
    /\ output' = [output EXCEPT !.data = input.data]
    /\ pc' = "after"
    /\ UNCHANGED <<run, input, idims, programs, wild, good, seen>>

LaunchFails ==
    /\ pc = "launch"
    /\ ok' = FALSE
    /\ pc' = "after"
    /\ UNCHANGED <<run, input, output, idims, programs, wild, good, seen>>

\* The operators after the subgraph have read its output.
Read ==
    /\ pc = "after"
    /\ pc' = "before"
    /\ UNCHANGED <<run, input, output, idims, programs, ok, wild, good, seen>>

Next ==
    \/ \E s \in Shapes : Feed(s)
    \/ Run \/ Build \/ LaunchOk \/ LaunchFails \/ Read

Spec == Init /\ [][Next]_vars

-----------------------------------------------------------------------------
(* Properties.                                                             *)

Tensors(dims, size) ==
    [dims : dims \cup {NoShape}, buf : Addresses \cup {Null}, space : {0} \cup size,
     data : {Junk} \cup ((1 .. MaxRuns) \X Shapes)]
ValuesOf(f) == {f[s] : s \in Shapes}

TypeOK ==
    /\ pc \in {"before", "run", "build", "launch", "after"}
    /\ run \in 0 .. MaxRuns
    /\ input \in Tensors(Shapes, ValuesOf(InSize))
    /\ output \in Tensors(ValuesOf(OutDims), ValuesOf(OutSize))
    /\ idims \in Shapes \cup {NoShape}
    /\ programs \in [Shapes -> [din : Addresses, oa : Addresses] \cup {NoProgram}]
    /\ ok \in BOOLEAN /\ wild \in BOOLEAN
    /\ good \in 0 .. run
    /\ seen \in Seq(Shapes) /\ Len(seen) = run

\* The first inference with shape s, which builds its program.
First(s) == CHOOSE i \in 1 .. Len(seen) :
                seen[i] = s /\ \A j \in 1 .. (i - 1) : seen[j] # s

IsFirst(i) == \A j \in 1 .. (i - 1) : seen[j] # seen[i]

\* Shape s has been outgrown: after its first inference one came whose input or
\* output was larger than any up to then.
Outgrown(s) ==
    \E j \in (First(s) + 1) .. Len(seen) :
        \/ \A i \in 1 .. First(s) : InSize[seen[i]] < InSize[seen[j]]
        \/ \A i \in 1 .. First(s) : OutSize[seen[i]] < OutSize[seen[j]]

\* The shape a program was built for most recently.
LastBuilt == seen[CHOOSE i \in 1 .. Len(seen) :
                     IsFirst(i) /\ \A j \in (i + 1) .. Len(seen) : ~IsFirst(j)]

\* The engine has run, the device did not fail, and memory is still sound.
Delivered == pc = "after" /\ ok /\ ~wild

\* The operators after the subgraph find this inference's data in the output
\* tensor unless the program's shape has been outgrown since it was built, and memory
\* that was given back is only ever written when some shape has been: caching
\* programs that hold raw pointers is sound until a tensor grows, so always when the
\* largest shape comes first.
DataRightUnlessOutgrown ==
    /\ Delivered => output.data = <<run, idims>> \/ Outgrown(idims)
    /\ wild => \E i \in 1 .. Len(seen) : Outgrown(seen[i])

\* They find the right dimensions exactly if no program has been built since for a
\* shape with other ones: a program taken from the cache does not resize.
DimsRightUnlessOtherBuilt ==
    Delivered => (output.dims = OutDims[idims] <=> OutDims[LastBuilt] = OutDims[idims])

\* After a launch that failed the operators after the subgraph, which are not told,
\* find the result of the last launch that did not fail or memory nobody has written,
\* and never a result of this inference.
FailedLaunchShowsTheLastGood ==
    pc = "after" /\ ~ok /\ ~wild =>
        output.data = Junk \/ (good \in 1 .. run - 1 /\ output.data = <<good, seen[good]>>)

\* A program is only ever launched for the shape it was built for, and there is
\* one: the engine never falls through to the original program on the processor.
LaunchHasProgram ==
    pc = "launch" => idims = input.dims /\ programs[idims] # NoProgram
=============================================================================
