---------------------------- MODULE MCGraphBuilder ----------------------------
(* Instances of GraphBuilder for TLC.                                       *)
EXTENDS GraphBuilder

\* The convolution whose output i reads; 0 is the subgraph's input.
Parents(n) == {p \in [1 .. n -> 0 .. (n - 1)] :
                  p[1] = 0 /\ \A i \in 2 .. n : p[i] \in 1 .. (i - 1)}

\* Tensors are numbered like the convolutions that write them.  Tensors are two by
\* two, with c[t] channels; a kernel of width kw is padded to keep that size.
Program(n, p, c, kh, kw, outs) ==
    [ops |-> [i \in 1 .. n |->
                [in |-> p[i], out |-> i, kh |-> kh[i], kw |-> kw[i], pad |-> (kw[i] - 1) \div 2,
                 dw |-> c[p[i]] = 5 /\ c[i] = 5]],
     outputs |-> outs,
     shape |-> [t \in 0 .. n |-> [c |-> c[t], h |-> 2, w |-> 2]]]

Trees(n, Channels, Widths) ==
    {Program(n, p, c, kw, kw, outs) :
        p \in Parents(n), c \in [0 .. n -> Channels], kw \in [1 .. n -> Widths],
        outs \in SUBSET (1 .. n)}

\* One convolution with a kernel that need not be square and up to seven channels,
\* whose scales are refused.
Single ==
    {Program(1, <<0>>, c, kh, kw, outs) :
        c \in [0 .. 1 -> {3, 5, 7}], kh \in [1 .. 1 -> {1, 3}], kw \in [1 .. 1 -> {1, 3}],
        outs \in SUBSET {1}}

\* One and two convolutions with up to three tiles of channels, some of them
\* refused; three and four in every shape of tree.
Small ==
    {P : P \in Single \cup UNION {Trees(n, {1, 3, 5}, {1, 3, 5}) : n \in 1 .. 2}
               \cup Trees(3, {1, 3}, {1, 3}) \cup Trees(4, {1}, {1, 3})}
=============================================================================
