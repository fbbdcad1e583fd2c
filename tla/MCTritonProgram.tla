---------------------------- MODULE MCTritonProgram ----------------------------
(* Small launches for TritonProgram: tiles of two queries and two keys,      *)
(* lengths that are and are not multiples of them, windows that overlap the  *)
(* sink, the near keys and the ends of the keys, splits that get no block.   *)
EXTENDS TritonProgram

Launch1(kernel, sort, sq, sk, pack, nsplits, kind, window) ==
    [kernel |-> kernel, sort |-> sort, sq |-> sq, sk |-> sk, tn |-> 2, pack |-> pack,
     tm |-> IF kernel = "dec" /\ pack > 1 THEN 4 ELSE 2,    \* one tile for a group of heads
     splits |-> nsplits, trunc |-> TRUE, kind |-> kind, sink |-> window.sink,
     left |-> window.left, right |-> window.right, near |-> window.near,
     gather |-> FALSE, entries |-> 0]

Windows(sinks, lefts, rights, nears) ==
    [sink : sinks, left : lefts, right : rights, near : nears]
NoWindow == [sink |-> 0, left |-> 0, right |-> 0, near |-> 0]
AWindow  == [sink |-> 1, left |-> 3, right |-> 0, near |-> 1]
Gather(l, e) == [l EXCEPT !.gather = TRUE, !.entries = e]

-----------------------------------------------------------------------------
(* Every verdict of the sparse softmax and of the gate. *)
Sorts == {"sparse", "gated"}
Verdicts ==
    {Launch1("fwd", s, sq, sk, 1, 0, k, NoWindow) :
        s \in Sorts, sq \in {2, 3}, sk \in {3, 5, 7}, k \in {"full", "causal"}}
      \union {Launch1("fwd", s, 2, sk, 1, 0, "local", AWindow) : s \in Sorts, sk \in {5, 8}}
      \union {Launch1("fwd", s, 2, 5, 1, 2, k, NoWindow) : s \in Sorts, k \in {"full", "causal"}}
      \union {Launch1("dec", s, 1, sk, 1, n1, "full", NoWindow) :
                s \in Sorts, sk \in {3, 6}, n1 \in {1, 2, 4}}
      \union {Launch1("dec", s, 1, 7, 1, 2, "local", AWindow) : s \in Sorts}
      \union {Gather(Launch1("dec", s, 1, 6, 1, n1, "full", NoWindow), 5) :
                s \in Sorts, n1 \in {1, 2}}
      \union {Launch1("bwd", s, sq, 3, 1, n1, k, NoWindow) :
                s \in Sorts, sq \in {3, 4}, n1 \in {0, 2}, k \in {"full", "causal"}}
      \union {Launch1("bwd", s, 4, 4, 1, 0, "local", AWindow) : s \in Sorts}

(* Every kind of range, of the dense kernels. *)
AllKinds(kernel, sqs, sks, pack, nsplits, windows) ==
    {Launch1(kernel, "dense", sq, sk, pack, n1, kind, NoWindow) :
        sq \in sqs, sk \in sks, n1 \in nsplits, kind \in {"full", "causal"}}
      \union {Launch1(kernel, "dense", sq, sk, pack, n1, "local", w) :
                sq \in sqs, sk \in sks, n1 \in nsplits, w \in windows}

Forward ==
    AllKinds("fwd", {1, 5}, {2, 7}, 1, {0}, Windows({0, 1, 3}, {0, 1, 3}, 0 .. 2, {0, 2}))

(* As many splits as key blocks, and more.  A single query with a gap is    *)
(* left out, see DecodeGaps.                                                *)
SplitForward ==
    AllKinds("fwd", {2, 3}, {5}, 1, {1, 3}, Windows({0, 3}, {1, 3}, {0, 1}, {0, 2}))

(* Packed heads, and windows that follow the near keys without a gap. *)
Decode ==
    AllKinds("dec", {1}, {1, 4, 7, 9}, 3, {1, 3}, Windows({0, 3}, {0, 1, 4}, {0}, 0 .. 3))

Backward ==
    AllKinds("bwd", {3, 5}, {4}, 1, {0, 3}, Windows({0, 3}, {1, 3}, {0, 1}, {0, 2}))

(* Lists of indices, with and without negative ones, that fill their blocks. *)
Lists(lengths) ==
    {Gather(Launch1("dec", "dense", 1, sk, 3, n1, "full", NoWindow), e) :
        sk \in lengths, n1 \in 1 .. 3, e \in {1, 2}}

MCLaunches ==
    Verdicts \union Forward \union SplitForward \union Decode \union Backward
      \union Lists({2, 4, 6})

-----------------------------------------------------------------------------
(* Decode with a gap between the near keys and the window. *)
DecodeGaps ==
    AllKinds("dec", {1}, {4, 7, 9}, 3, {1, 2}, Windows({0, 1}, {0, 1, 3}, 0 .. 2, 0 .. 3))

(* Lists that do not fill their last block. *)
ListTails == Lists({3, 5})
=============================================================================
