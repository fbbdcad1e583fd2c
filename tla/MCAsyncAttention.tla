-------------------------- MODULE MCAsyncAttention --------------------------
(***************************************************************************)
(* Model checking AsyncAttention.                                          *)
(***************************************************************************)
EXTENDS AsyncAttention

F == INSTANCE GluonSm80
D == INSTANCE GluonDenseSm90
C == INSTANCE CsrcKernels

Base == [sq |-> 4, sk |-> 6, tm |-> 2, tn |-> 2, pack |-> 1, kind |-> "full", sink |-> 0,
         left |-> 0, right |-> 0, near |-> 0, trunc |-> TRUE, splits |-> 0, tile |-> 0,
         dropped |-> {}, opts |-> {}, kernel |-> "gluon_fwd"]

Full(l)   == [l EXCEPT !.kind = "full"]
Causal(l) == [l EXCEPT !.kind = "causal"]
Window(l, w) == [l EXCEPT !.kind = "local", !.sink = w[1], !.left = w[2], !.right = w[3],
                          !.near = w[4]]
Windows == {<<0, 2, 0, 1>>, <<3, 2, 1, 1>>, <<1, 3, 0, 2>>}

Shapes(kernel, sqs, sks, tiles) ==
    {[Base EXCEPT !.kernel = kernel, !.sq = sq, !.sk = sk, !.tile = tile, !.splits = splits] :
        sq \in sqs, sk \in sks, tile \in tiles, splits \in {0, 2}}
Masked(launches) ==
    {Full(l) : l \in launches} \union {Causal(l) : l \in launches}
      \union {Window(l, w) : l \in launches, w \in Windows}

ByQueries(kernel) == Shapes(kernel, {3, 4}, {5, 6, 8}, {0, 1})
ByKeys(kernel)    == Shapes(kernel, {5, 6, 8}, {3, 4}, {0, 1})

Sparse(launches)  == {[l EXCEPT !.dropped = drop] : l \in launches, drop \in {{}, {0, 1}}}

(* Launches of the C++ extension whose votes come out right and do no harm: *)
(* no tile is voted out but the last one visited, and, with one buffer for *)
(* Q, any; the predicate of the last block of the bias suits the others.   *)
CsrcFwdLaunches ==
    {l \in UNION {{Full(l), Causal(l)} : l \in
                  Shapes("csrc_fwd", {3, 4}, {2, 6, 8}, {0, 1}) \union
                  Shapes("csrc_splitkv", {3, 4}, {6, 8}, {0, 1})} :
        l.kernel = "csrc_fwd" => l.splits = 0}
CsrcBwdLaunches ==
    UNION {{Full(l), Causal(l)} : l \in
        {[l EXCEPT !.opts = opts] : l \in {k \in ByKeys("csrc_bwd") : k.splits = 0},
             opts \in {{}, {"double", "sum"}, {"double", "deterministic"}}}}
LastDropped(launches) == {[l EXCEPT !.dropped = drop] : l \in launches, drop \in {{}, {0}}}
CsrcProblems ==
    CsrcFwdLaunches
      \union {[l EXCEPT !.dropped = {0}] : l \in {k \in CsrcFwdLaunches : C!SplitMax(k, k.tile, 0) > 1}}
      \union LastDropped(CsrcBwdLaunches)
      \union {[l EXCEPT !.dropped = drop] :
                 l \in {k \in CsrcBwdLaunches : k.opts = {}}, drop \in {{1}, {2, 0}}}

Problems == CsrcProblems \union Masked(Sparse(ByQueries("gluon_fwd")) \union ByQueries("gluon_dense")
                       \union Sparse(ByKeys("gluon_bwd")))

(* The SM80 kernels load the first tile of a window or sink into buffers    *)
(* that the zeros of the masked loads before it may still be on their way  *)
(* to; with UnorderedLoads for InOrder, ReadsWhole fails.                  *)
InOrderLoads == {l \in Problems : l.kernel \in {"gluon_fwd", "gluon_bwd"} /\ l.kind = "local"}
UnorderedLoads == {}

Compile(l, split) ==
    CASE l.kernel = "gluon_fwd" -> F!FwdCta(l, split)
      [] l.kernel = "gluon_bwd" -> F!BwdCta(l, split)
      [] l.kernel = "gluon_dense" -> D!DenseCta(l, split)
      [] l.kernel \in {"csrc_fwd", "csrc_splitkv"} -> C!CsrcFwdCta(l, split)
      [] l.kernel = "csrc_bwd" -> C!CsrcBwdCta(l)

Ctas(l) == [i \in 1 .. Most(l.splits, 1) |-> Compile(l, i - 1)]
MCLaunches == {[problem |-> l, ctas |-> Ctas(l)] : l \in Problems}
MCActors   == {"warp0", "warp1", "consumer", "producer"}
=============================================================================
