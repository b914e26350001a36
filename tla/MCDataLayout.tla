----------------------------- MODULE MCDataLayout -----------------------------
(* Instances for DataLayout: channels on both sides of a tile boundary, planes *)
(* of less than, exactly and more than the eight pixels of a NEON iteration.   *)
EXTENDS DataLayout

Sh(c, h, w) == [c |-> c, h |-> h, w |-> w]
Around(p) == [i \in 1 .. 4 |-> p]

Layer(in, pads, dw, outC, kernel, outs, rp) ==
    [in |-> in, paddings |-> pads, dw |-> dw, outC |-> outC, kernel |-> kernel,
     outs |-> outs, readerPad |-> rp]

MCLayers ==
    \* inputs
    {Layer(Sh(c, hw[1], hw[2]), pads, FALSE, 2, 1, <<Sh(2, 1, 1)>>, 0) :
        c \in {1, 16, 17}, hw \in {<<1, 1>>, <<2, 3>>, <<2, 4>>, <<3, 3>>, <<4, 5>>},
        pads \in {Around(0), Around(1), Around(2), <<0, 1, 0, 1>>, <<1, 0, 1, 1>>, <<1, 3, 2, 2>>}}
    \* outputs, one and two of different sizes through one buffer
    \cup {Layer(Sh(1, 2, 2), Around(1), FALSE, c, 1, <<Sh(c, hw[1], hw[2]), Sh(3, 2, 2)>>, rp) :
        c \in {1, 15, 33}, hw \in {<<1, 1>>, <<2, 4>>, <<3, 3>>, <<3, 6>>}, rp \in {0, 1, 2}}
    \* weights
    \cup {Layer(Sh(ic, 1, 1), Around(0), FALSE, oc, k, <<Sh(oc, 1, 1)>>, 0) :
        ic \in {3, 16, 17}, oc \in {1, 16, 18}, k \in {1, 2}}
    \cup {Layer(Sh(c, 2, 1), Around(0), TRUE, c, k, <<Sh(c, 2, 1)>>, 0) :
        c \in {1, 15, 16, 17, 32, 33}, k \in {1, 3}}
=============================================================================
