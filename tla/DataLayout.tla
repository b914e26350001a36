------------------------------ MODULE DataLayout ------------------------------
(***************************************************************************)
(* Where every byte goes between a tensor and the accelerator: the weights *)
(* as ConvConverter reorders them (bridges/conv_op.cc), the input padded   *)
(* and rearranged, and the outputs rearranged back, by the user-space      *)
(* library (intel_fpga_sdk/lib/intelfpga.cc, utils.cc), a shared output    *)
(* framed by the driver (add_pad in nnadrv.c).                             *)
(*                                                                         *)
(* The accelerator keeps channels in tiles of 16: tile after tile, in each *)
(* the pixels row by row, and the 16 channels of a pixel side by side.     *)
(* Bytes are labels <<call, tensor, index>>, so a byte in a wrong place is *)
(* a wrong label.  Arrays are functions on 0 .. n-1, like the code's.      *)
(***************************************************************************)
EXTENDS Integers, Sequences

CONSTANTS
    Layers,    \* the convolutions to be run, see IsLayer
    MaxCalls   \* bound on the inferences

Tile == 16     \* INPUT_CHANNEL_TILE, OUTPUT_CHANNEL_TILE, INPUT_EXTEND_SCALE
Lanes == 8     \* bytes of a NEON d register

\* A layer: the shape of the input; the four paddings of the convolution (top,
\* bottom, left, right); whether it is depthwise, its output channels and kernel
\* size; the shapes of the tensors that leave the subgraph; the padding with which
\* a later convolution of the list reads the first of them.
IsShape(s) == {s.c, s.h, s.w} \subseteq Nat \ {0}
IsLayer(l) ==
    /\ IsShape(l.in) /\ l.paddings \in [1 .. 4 -> Nat]
    /\ l.dw \in BOOLEAN /\ {l.outC, l.kernel} \subseteq Nat \ {0}
    /\ l.dw => l.outC = l.in.c
    /\ Len(l.outs) \in Nat \ {0} /\ DOMAIN l.outs = 1 .. Len(l.outs)
    /\ \A j \in DOMAIN l.outs : IsShape(l.outs[j])
    /\ l.readerPad \in Nat

ASSUME LayoutAssumption == MaxCalls \in Nat /\ \A l \in Layers : IsLayer(l)

VARIABLES
    layer,    \* the convolution
    pc,       \* build, idle, pad, rearrange, ioctl, unrearrange, copy
    call,     \* the number of the inference
    out,      \* the output node the library works on
    ka,       \* the reordered weights
    buff,     \* data_buff_: the padded input, later the outputs one by one
    ia, oa,   \* the device-layout buffers of the root and of each output node
    framed,   \* the driver's padding buffer for the reader of the first output
    tensors,  \* the memory of the output tensors
    ok        \* what IntelFpgaConvDepthwise returned

vars == <<layer, pc, call, out, ka, buff, ia, oa, framed, tensors, ok>>

Zero == <<0, 0, 0>>
Beyond == <<0, 0, 1>>     \* a byte that is none of ours: past an array's end,
                          \* or in a lane of a channel that does not exist
Filter(i) == <<0, 1, i>>  \* byte i of the filter tensor
Input(n, i) == <<n, 0, i>>
Output(n, j, i) == <<n, j, i>>

UpRound(a, b) == (a - 1) \div b + 1
Size(s) == s.c * s.h * s.w
Padded(s, p) == [s EXCEPT !.h = @ + 2 * p, !.w = @ + 2 * p]
Extent(s, p) ==
    UpRound(s.c, Tile) * Tile * (s.h + 2 * p) * (s.w + 2 * p)
Array(n) == 0 .. (n - 1)

\* The library and the IP know one padding, the left one.
InPad(l) == l.paddings[3]

\* BuildDeviceModel: as large as the input's and the largest output's extent.
BuffSize(l) ==
    LET exts == {Extent(l.outs[j], 0) : j \in DOMAIN l.outs}
    IN  Extent(l.in, InPad(l)) + (CHOOSE e \in exts : \A f \in exts : f <= e)

Init ==
    /\ layer \in Layers
    /\ pc = "build" /\ call = 0 /\ out = 1 /\ ok = TRUE
    /\ ka = <<>> /\ framed = <<>>
    /\ buff = [i \in Array(BuffSize(layer)) |-> Beyond]
    /\ ia = [i \in Array(Extent(layer.in, InPad(layer))) |-> Beyond]
    /\ oa = [j \in DOMAIN layer.outs |-> <<>>]
    /\ tensors = [j \in DOMAIN layer.outs |-> <<>>]

-----------------------------------------------------------------------------
(* The weights (ConvConverter).                                            *)

KernelSize(l) == l.kernel * l.kernel
InBlocks(l) == IF l.dw THEN 1 ELSE UpRound(l.in.c, Tile)
BlockSize(l) == Tile * KernelSize(l) * Tile

\* weight_int8 has outC times in.c (or 1) times kernel bytes.
FilterByte(l, i) ==
    IF i < l.outC * (IF l.dw THEN 1 ELSE l.in.c) * KernelSize(l) THEN Filter(i) ELSE Beyond

ConvWeightMutant(l, i) ==
    LET b  == i \div BlockSize(l)
        oc == (b % InBlocks(l)) * Tile + (i % Tile)
        ic == (b \div InBlocks(l)) * Tile + (i % BlockSize(l)) \div (KernelSize(l) * Tile)
        k  == (i \div Tile) % KernelSize(l)
    IN  IF oc >= l.outC \/ ic >= l.in.c THEN Zero
        ELSE FilterByte(l, (oc * l.in.c + ic) * KernelSize(l) + k)

\* Byte i of ka: block b, then input lane, kernel position, output lane.
ConvWeight(l, i) ==
    LET b  == i \div BlockSize(l)
        oc == (b \div InBlocks(l)) * Tile + (i % Tile)
        ic == (b % InBlocks(l)) * Tile + (i % BlockSize(l)) \div (KernelSize(l) * Tile)
        k  == (i \div Tile) % KernelSize(l)
    IN  IF oc >= l.outC \/ ic >= l.in.c THEN Zero
        ELSE FilterByte(l, (oc * l.in.c + ic) * KernelSize(l) + k)

DwWeightMutant(l, i) ==
    LET b  == i \div BlockSize(l)
        oc == i % Tile
        ic == (i % BlockSize(l)) \div (KernelSize(l) * Tile)
        k  == (i \div Tile) % KernelSize(l)
    IN  IF ic = oc /\ oc < l.outC THEN FilterByte(l, (b + oc) * KernelSize(l) + k) ELSE Zero

\* Depthwise: only where input and output lane are the same, and only if that lane,
\* counted within its block, is below the number of all channels.
DwWeight(l, i) ==
    LET b  == i \div BlockSize(l)
        oc == i % Tile
        ic == (i % BlockSize(l)) \div (KernelSize(l) * Tile)
        k  == (i \div Tile) % KernelSize(l)
    IN  IF ic = oc /\ oc < l.outC
        THEN FilterByte(l, b * Tile * KernelSize(l) + oc * KernelSize(l) + k)
        ELSE Zero

BuildWeights ==
    /\ pc = "build"
    /\ ka' = [i \in Array(UpRound(layer.outC, Tile) * InBlocks(layer) * BlockSize(layer)) |->
                IF layer.dw THEN DwWeight(layer, i) ELSE ConvWeight(layer, i)]
    /\ pc' = "idle"
    /\ UNCHANGED <<layer, call, out, buff, ia, oa, framed, tensors, ok>>

-----------------------------------------------------------------------------
(* The transposes of utils.cc.  Eight d registers of eight lanes at a      *)
(* time; d20..d27 go through the same network as d0..d7.                   *)

Regs == 0 .. 7

\* vzip and vuzp of elements of s bytes on the registers x and y.
ByteOf(f, x, y, n) == IF n < Lanes THEN f[x][n] ELSE f[y][n - Lanes]
Zip(s, f, x, y) ==       \* byte n of the pair after vzip
    [n \in 0 .. 15 |-> LET e == n \div s
                       IN  f[IF e % 2 = 0 THEN x ELSE y][(e \div 2) * s + (n % s)]]
Unzip(s, f, x, y) ==     \* byte n of the pair after vuzp
    [n \in 0 .. 15 |-> LET e == (n % Lanes) \div s
                       IN  ByteOf(f, x, y, (2 * e + n \div Lanes) * s + (n % s))]

\* One column of instructions: pairs that differ by d, elements of s bytes.
First(r, d) == (r \div d) % 2 = 0
ZipAll(s, d, f) ==
    [r \in Regs |-> [l \in 0 .. 7 |->
        IF First(r, d) THEN Zip(s, f, r, r + d)[l] ELSE Zip(s, f, r - d, r)[l + Lanes]]]
UnzipAll(s, d, f) ==
    [r \in Regs |-> [l \in 0 .. 7 |->
        IF First(r, d) THEN Unzip(s, f, r, r + d)[l] ELSE Unzip(s, f, r - d, r)[l + Lanes]]]

\* Every register lane labelled with where it was loaded: <<register, lane>>.
Loaded == [r \in Regs |-> [l \in 0 .. 7 |-> <<r, l>>]]
Zipped == ZipAll(4, 4, ZipAll(2, 2, ZipAll(1, 1, Loaded)))
Unzipped == UnzipAll(1, 4, UnzipAll(2, 2, UnzipAll(4, 1, Loaded)))

\* The order in which d0..d7 are stored, the same in both routines.
StoreOrder == <<0, 4, 2, 6, 1, 5, 3, 7>>

\* asm_rearrange_16_layers: byte q of the 128 stored in one iteration comes from
\* <<layer, pixel>>; d0..d7 hold layers 0..7, d20..d27 layers 8..15.
StoredFrom(q) ==
    LET slot == q \div Lanes
        z == Zipped[StoreOrder[slot \div 2 + 1]][q % Lanes]
    IN  <<8 * (slot % 2) + z[1], z[2]>>

\* asm_output_rearrange_16_layers: which of 128 bytes is stored at <<layer, pixel>>;
\* d0, d20, d1, d21, ... are loaded in turn.
LoadedFrom(c, px) ==
    LET u == Unzipped[StoreOrder[(c % 8) + 1]][px]
    IN  (2 * u[1] + c \div 8) * Lanes + u[2]

\* InputRearrange on planes of n pixels: byte k of the output is this byte of the
\* input.  Eight pixels at a time, then the rest one by one.
InIndex(n, k) ==
    LET t == k \div (Tile * n)
        j == k % (Tile * n)
        whole == Lanes * (n \div Lanes)
        from == IF j < Tile * whole
                THEN LET s == StoredFrom(j % 128) IN <<s[1], 8 * (j \div 128) + s[2]>>
                ELSE <<(j - Tile * whole) % Tile, whole + (j - Tile * whole) \div Tile>>
    IN  (t * Tile + from[1]) * n + from[2]

OutIndexMutant(n, k) ==
    LET c == k \div n
        px == k % n
        whole == Lanes * (n \div Lanes)
        j == IF px < whole THEN 128 * (px \div Lanes) + LoadedFrom(c % Tile, px % Lanes)
             ELSE Tile * whole + (c % Tile) * (n - whole) + px - whole
    IN  (c \div Tile) * Tile * n + j

\* OutputRearrange: plane byte k of the output is this byte of the input.
OutIndex(n, k) ==
    LET c == k \div n
        px == k % n
        whole == Lanes * (n \div Lanes)
        j == IF px < whole THEN 128 * (px \div Lanes) + LoadedFrom(c % Tile, px % Lanes)
             ELSE Tile * whole + (px - whole) * Tile + (c % Tile)
    IN  (c \div Tile) * Tile * n + j

-----------------------------------------------------------------------------
(* One inference (IntelFpgaConvDepthwise).                                 *)

FillMutant ==
    /\ pc = "idle" /\ call < MaxCalls
    /\ call' = call + 1 /\ out' = 1 /\ pc' = "pad"
    /\ buff' = IF call > 0 THEN buff
               ELSE [i \in DOMAIN buff |->
                        IF i < Extent(layer.in, InPad(layer)) THEN Zero ELSE buff[i]]
    /\ UNCHANGED <<layer, ka, ia, oa, framed, tensors, ok>>

Fill ==
    /\ pc = "idle" /\ call < MaxCalls
    /\ call' = call + 1 /\ out' = 1 /\ pc' = "pad"
    /\ buff' = [i \in DOMAIN buff |->
                  IF /\ i < Extent(layer.in, InPad(layer))
                     /\ InPad(layer) # 0 \/ i >= Size(layer.in)
                  THEN Zero ELSE buff[i]]
    /\ UNCHANGED <<layer, ka, ia, oa, framed, tensors, ok>>

\* conv_chw_pad and add_pad skip one row of the frame, whatever the padding: row r
\* of a plane goes to row r + 1.  The column of a byte x of a framed row, and the
\* row of a byte y of a framed plane, in the plane without the frame.
Row(y, h) == IF y - 1 \in 0 .. h - 1 THEN {y - 1} ELSE {}
Column(x, w, p) == IF x - p \in 0 .. w - 1 THEN {x - p} ELSE {}

\* The pixel of s, in a set, that padding by p puts at pixel i of a framed plane.
Pixels(s, p, i) ==
    {r * s.w + k : r \in Row(i \div (s.w + 2 * p), s.h),
                   k \in Column(i % (s.w + 2 * p), s.w, p)}

\* The input goes into the buffer, with a frame or plane after plane.
PadInput ==
    /\ pc = "pad"
    /\ LET s == layer.in
           p == InPad(layer)
           plane == (s.h + 2 * p) * (s.w + 2 * p)
       IN  buff' = [i \in DOMAIN buff |->
             IF p = 0
             THEN IF i < Size(s) THEN Input(call, i) ELSE buff[i]
             ELSE LET px == Pixels(s, p, i % plane)
                  IN  IF i \div plane < s.c /\ px # {}
                      THEN Input(call, (i \div plane) * s.h * s.w + CHOOSE x \in px : TRUE)
                      ELSE buff[i]]
    /\ pc' = "rearrange"
    /\ UNCHANGED <<layer, call, out, ka, ia, oa, framed, tensors, ok>>

Rearrange ==
    /\ pc = "rearrange"
    /\ LET s == Padded(layer.in, InPad(layer))
       IN  ia' = [k \in DOMAIN ia |-> buff[InIndex(s.h * s.w, k)]]
    /\ pc' = "ioctl"
    /\ UNCHANGED <<layer, call, out, ka, buff, oa, framed, tensors, ok>>

\* What the IP leaves for output j: its pixels in device layout, lanes of channels
\* that do not exist undetermined.
FromIp(n, j, s) ==
    [i \in Array(Extent(s, 0)) |->
        LET t == i \div (Tile * s.h * s.w)
            c == t * Tile + (i % Tile)
            px == (i \div Tile) % (s.h * s.w)
        IN  IF c < s.c THEN Output(n, j, c * s.h * s.w + px) ELSE Beyond]

\* add_pad of a block f for shape s: into a zeroed buffer, 16 channels at a time.
AddPad(f, s, p) ==
    LET plane == (s.h + 2 * p) * (s.w + 2 * p)
    IN  [i \in Array(Extent(s, p)) |->
            LET px == Pixels(s, p, (i \div Tile) % plane)
            IN  IF px = {} THEN Zero
                ELSE f[((i \div (Tile * plane)) * s.h * s.w + CHOOSE x \in px : TRUE) * Tile
                          + (i % Tile)]]

\* The driver: it frames the first output for a later reader, copies the outputs out.
Ioctl ==
    /\ pc = "ioctl"
    /\ oa' = [j \in DOMAIN layer.outs |-> FromIp(call, j, layer.outs[j])]
    /\ framed' = IF layer.readerPad = 0 THEN framed
                 ELSE AddPad(oa'[1], layer.outs[1], layer.readerPad)
    /\ pc' = "unrearrange" /\ ok' = TRUE
    /\ UNCHANGED <<layer, call, out, ka, buff, ia, tensors>>

IoctlFails ==
    /\ pc = "ioctl"
    /\ pc' = "idle" /\ ok' = FALSE
    /\ UNCHANGED <<layer, call, out, ka, buff, ia, oa, framed, tensors>>

\* One output node after the other comes back through the same buffer.
Unrearrange ==
    /\ pc = "unrearrange"
    /\ LET s == layer.outs[out]
       IN  buff' = [k \in DOMAIN buff |->
                      IF k < Extent(s, 0) THEN oa[out][OutIndex(s.h * s.w, k)] ELSE buff[k]]
    /\ pc' = "copy"
    /\ UNCHANGED <<layer, call, out, ka, ia, oa, framed, tensors, ok>>

CopyOutput ==
    /\ pc = "copy"
    /\ tensors' = [tensors EXCEPT ![out] = [i \in Array(Size(layer.outs[out])) |-> buff[i]]]
    /\ IF out + 1 \in DOMAIN layer.outs
       THEN out' = out + 1 /\ pc' = "unrearrange"
       ELSE out' = out /\ pc' = "idle"
    /\ UNCHANGED <<layer, call, ka, buff, ia, oa, framed, ok>>

Next ==
    \/ BuildWeights
    \/ Fill \/ PadInput \/ Rearrange \/ Ioctl \/ IoctlFails \/ Unrearrange \/ CopyOutput

Spec == Init /\ [][Next]_vars

-----------------------------------------------------------------------------
(* Properties.                                                             *)

TypeOK ==
    /\ layer \in Layers /\ call \in 0 .. MaxCalls /\ out \in DOMAIN layer.outs
    /\ pc \in {"build", "idle", "pad", "rearrange", "ioctl", "unrearrange", "copy"}
    /\ DOMAIN buff = Array(BuffSize(layer))
    /\ DOMAIN ia = Array(Extent(layer.in, InPad(layer)))
    /\ ok \in BOOLEAN

\* The one place of channel c, row y and column x of a tensor in the device's layout,
\* for planes of h rows of w pixels.
Place(c, y, x, h, w) == (((c \div Tile) * h + y) * w + x) * Tile + (c % Tile)

\* f holds, framed by top and left, the tensor whose bytes are Byte(i), zeros around it,
\* and zeros in the lanes of channels beyond the last if blank.
IsFramed(f, s, top, left, h, w, Byte(_), blank) ==
    \A c \in 0 .. UpRound(s.c, Tile) * Tile - 1, y \in 0 .. h - 1, x \in 0 .. w - 1 :
        LET inside == y - top \in 0 .. s.h - 1 /\ x - left \in 0 .. s.w - 1
        IN  c < s.c \/ blank =>
              f[Place(c, y, x, h, w)] =
                 IF c < s.c /\ inside THEN Byte((c * s.h + y - top) * s.w + x - left) ELSE Zero

\* The IP receives the input as the network pads it, in the accelerator's layout, the
\* previous inference's outputs wiped from the shared buffer, exactly when the left
\* and right paddings p are equal and either no side is padded or one row lies above
\* and 2p - 1 below: conv_chw_pad skips one row for any padding, and leaves room for
\* the left padding on every side.
InputFramed ==
    pc = "ioctl" =>
        LET s == layer.in
            pads == layer.paddings
            h == s.h + pads[1] + pads[2]
            w == s.w + pads[3] + pads[4]
        IN  (/\ DOMAIN ia = Array(UpRound(s.c, Tile) * Tile * h * w)
             /\ IsFramed(ia, s, pads[1], pads[3], h, w, LAMBDA i : Input(call, i), TRUE))
            <=> /\ pads[4] = pads[3]
                /\ \/ pads[3] = 0 /\ pads[1] = 0 /\ pads[2] = 0
                   \/ pads[3] > 0 /\ pads[1] = 1 /\ pads[2] = 2 * pads[3] - 1

\* A shared output that the driver frames for a later reader has its image in the
\* middle exactly when the padding is one: add_pad, too, skips one row for any padding.
SharedOutputFramed ==
    pc = "unrearrange" /\ layer.readerPad > 0 =>
        LET s == layer.outs[1]
            p == layer.readerPad
        IN  IsFramed(framed, s, p, p, s.h + 2 * p, s.w + 2 * p,
                     LAMBDA i : Output(call, 1, i), FALSE) <=> p = 1

\* Of the paddings that are the same on all sides, only none and one are framed as the
\* network asks, whether the library frames the input or the driver a shared output.
FramedUnlessOddlyPadded == InputFramed /\ SharedOutputFramed

\* After a successful inference every output tensor holds this inference's output,
\* channel by channel, whatever went through the buffer before it; after a failed one
\* no tensor holds anything of it.
OutputsReachTensors ==
    pc = "idle" /\ call > 0 =>
        \A j \in DOMAIN layer.outs :
            IF ok THEN tensors[j] = [i \in Array(Size(layer.outs[j])) |-> Output(call, j, i)]
            ELSE \A i \in DOMAIN tensors[j] : tensors[j][i][1] < call

\* Place of a weight: [out block][in block][in lane][kernel position][out lane].
WeightPlace(l, oc, ic, k) ==
    ((((oc \div Tile) * InBlocks(l) + ic \div Tile) * Tile + (ic % Tile)) * KernelSize(l) + k) * Tile
      + (oc % Tile)

\* The convolution's weights are in the IP's order with zeros for channels that do not
\* exist: a partial tile then adds nothing.
WeightsInOrder ==
    pc # "build" /\ ~layer.dw =>
        \A oc \in 0 .. UpRound(layer.outC, Tile) * Tile - 1,
           ic \in 0 .. InBlocks(layer) * Tile - 1, k \in 0 .. KernelSize(layer) - 1 :
            ka[WeightPlace(layer, oc, ic, k)] =
                IF oc < layer.outC /\ ic < layer.in.c
                THEN Filter((oc * layer.in.c + ic) * KernelSize(layer) + k) ELSE Zero

\* Depthwise weights are on the diagonal of their tile and right for every channel that
\* exists.  The lanes beyond the last channel are zero when there is one tile only;
\* in the last of several tiles they are read from past the end of the filter, because
\* a lane number is compared with the number of all channels.
DepthwiseReadsPastTheEnd ==
    pc # "build" /\ layer.dw =>
        \A c \in 0 .. UpRound(layer.outC, Tile) * Tile - 1, lane \in 0 .. Tile - 1,
           k \in 0 .. KernelSize(layer) - 1 :
            ka[(((c \div Tile) * Tile + lane) * KernelSize(layer) + k) * Tile + (c % Tile)] =
                IF lane # c % Tile THEN Zero
                ELSE IF c < layer.outC THEN Filter(c * KernelSize(layer) + k)
                ELSE IF layer.outC < Tile THEN Zero ELSE Beyond
=============================================================================
