-------------------------- MODULE MCNetworkCompiler --------------------------
(* Instances for NetworkCompiler.                                            *)
EXTENDS NetworkCompiler

Op(t, ins, out) == [type |-> t, ins |-> ins, out |-> out]
Types == {"supported", "other"}

\* Inputs of one or two variables among the earlier ones.
Inputs(i) == {S \in SUBSET (0 .. i - 1) : Cardinality(S) \in {1, 2}}

\* Every network of three operators with any of them supported, the last one fetched.
Small ==
    {<<Op(t[1], {0}, 1), Op(t[2], b, 2), Op(t[3], c, 3), Op("fetch", {3}, 4)>> :
        t \in [1 .. 3 -> Types], b \in Inputs(2), c \in Inputs(3)}

\* Four operators of one input each: the accelerator's own kind of network.
Trees ==
    {<<Op(t[1], {0}, 1), Op(t[2], {b}, 2), Op(t[3], {c}, 3), Op(t[4], {d}, 4),
       Op("fetch", {4}, 5)>> :
        t \in {f \in [1 .. 4 -> Types] : f[2] = "supported" /\ f[4] = "other"},
        b \in 0 .. 1, c \in 0 .. 2, d \in 1 .. 3}

\* Four operators of one or two inputs, at most one of them left to the host: the
\* detector's clusters around paths that leave and come back.
Wide ==
    {<<Op(t[1], {0}, 1), Op(t[2], b, 2), Op(t[3], c, 3), Op(t[4], d, 4), Op("fetch", {4}, 5)>> :
        t \in {f \in [1 .. 4 -> Types] : Cardinality({i \in 1 .. 4 : f[i] = "other"}) = 1},
        b \in Inputs(2), c \in Inputs(3), d \in {S \in Inputs(4) : 3 \in S}}

\* Operators of the host only, long enough for two variables to share memory.
Host ==
    {<<Op("other", {0}, 1), Op("other", {1}, 2), Op("other", c, 3), Op("other", d, 4),
       Op("other", {4}, 5), Op("fetch", {5}, 6)>> :
        c \in {{1}, {2}, {1, 2}}, d \in {{3}, {1, 3}, {2, 3}}}

\* Variables that keep their memory: an operator's and an output fetched before others
\* are computed.
Kept ==
    {<<Op("other", {0}, 1), Op(t, {1}, 2), Op("other", {2}, 3), Op("fetch", {x}, 4),
       Op("other", {3}, 5), Op("fetch", {5}, 6)>> :
        t \in {"supported", "other", "excluded"}, x \in 1 .. 3}

\* Operators that write a name again, in place or not.
Rewriting ==
    {<<Op(t, {0}, 1), Op("other", {1}, o2), Op("other", {c}, o3), Op("other", {d}, 4),
       Op("fetch", {4}, 5)>> :
        t \in Types, o2 \in {1, 2}, o3 \in {1, 2, 3}, c \in {1}, d \in {1}}

MCNetworks == Small \cup Trees \cup Wide \cup Host \cup Kept \cup Rewriting
=============================================================================
