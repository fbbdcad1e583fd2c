------------------------------ MODULE TritonLoops ------------------------------
(***************************************************************************)
(* The programs of a launch of a Triton attention kernel, the blocks each  *)
(* is given and the loops in which it visits them: the block schedulers of *)
(* scheduler.py and the loops of the kernels, which the dense, the sparse  *)
(* and the gated kernels share.  A forward or decode program has a query   *)
(* tile and a share of its key blocks (split-KV), a backward program has a *)
(* key block and a share of its query tiles (split-QO).                    *)
(***************************************************************************)
EXTENDS BlockSplits, FiniteSets, Sequences

CONSTANT Launches   \* the launches that are considered

(* A launch is a problem of BlockInfo for a kernel; splits is NUM_SPLITS,  *)
(* 0 if the launch does not split; decode has one query and always splits; *)
(* the backward packs no heads.                                            *)
(* With gather its keys are those that a list of sk indices names, of      *)
(* which the first entries are valid and the others negative.              *)
ASSUME LaunchesAssumption ==
    \A l \in Launches :
        /\ IsProblem(l) /\ l.splits \in Nat /\ l.gather \in BOOLEAN
        /\ l.kernel \in {"fwd", "dec", "bwd"}
        /\ l.kernel = "dec" => l.sq = 1 /\ l.splits > 0
        /\ l.kernel = "bwd" => l.pack = 1
        /\ l.gather => l.kernel = "dec" /\ l.kind = "full" /\ l.entries \in 0 .. l.sk

VARIABLES
    c,          \* the launch
    range,      \* the block ranges of every program
    pending,    \* programs that have not run
    counted     \* how often a pair was accumulated

Kernel == c.kernel
splits == c.splits

-----------------------------------------------------------------------------
(* get_topk_n_block_min_max *)
GatherN(i) ==
    LET min == ShareStart(c, NumN(c), i)
    IN  [RawN(c, 0) EXCEPT !.min = min, !.max = Least(min + ShareSize(c, NumN(c), i), @)]

ProgramN(m, i) ==
    IF c.gather THEN GatherN(i)
    ELSE ClampN(c, IF splits = 0 THEN RawN(c, m) ELSE SplitN(c, m, i))

ProgramM(n, i) == ClampM(c, IF splits = 0 THEN RawM(c, n) ELSE SplitM(c, RawM(c, n), n, i))

-----------------------------------------------------------------------------
(* The loops of a program, in the order it runs them: a loop visits the    *)
(* blocks from .. to - 1 under a mask.                                     *)
Loop(from, to, seqlen, mask) ==
    <<[from |-> from, to |-> to, seqlen |-> seqlen, mask |-> mask]>>

Within(x, from, to) == Most(Least(x, to), from)

(* get_n_block_min_before_local_mask *)
FullFrom(m, min) ==
    Most(min, CeilDiv(c, KeyEnd(c, m) - c.near - c.right - c.left, c.tn))

(* The window, from its right edge to its left edge, and the sink.         *)
WindowLoops(m, r) ==
    LET to   == Within(MaskFrom(c, m, r.wmin, TRUE), r.wmin, r.wmax)
        from == Within(FullFrom(m, r.wmin), r.wmin, to)
    IN  Loop(to, r.wmax, TRUE, "local") \o Loop(from, to, FALSE, "none")
          \o Loop(r.wmin, from, TRUE, "local") \o Loop(0, r.smax, TRUE, "sink")

KeyLoops(m, i) ==
    LET r == range[<<m, i>>]
        diagonal == MaskFrom(c, m, r.min, FALSE)
        nomask == IF IsLocal(c) /\ (splits = 0 \/ LastSplit(c, i)) THEN r.min
                  ELSE IF splits # 0 THEN Least(diagonal, r.max) ELSE diagonal
        \* forward without a causal mask: only the last block is masked
        unmasked == IF Kernel = "fwd" /\ c.kind = "full" THEN r.max - 1 ELSE nomask
        mask   == IF c.kind = "full" THEN "none" ELSE c.kind
    IN  IF c.gather
        THEN Loop(r.max, r.max, TRUE, "gather") \o Loop(r.min, r.max, FALSE, "gather")
        ELSE Loop(unmasked, r.max, TRUE, mask)
               \o (IF IsLocal(c) THEN WindowLoops(m, r)
                   ELSE Loop(r.min, unmasked, FALSE, "none"))

(* is_empty: the program stores an empty result and returns. *)
EmptyN(m, i) ==
    LET r == range[<<m, i>>]
    IN  r.max <= r.min /\ r.wmax <= r.wmin /\ r.smax <= 0

QueryLoops(n, i) ==
    LET r == range[<<n, i>>]
        diagonal == IF c.kind = "full" THEN r.min
                    ELSE Most(r.min, CeilDiv(c, QueryEnd(c, n), c.tm))
        nomask == IF IsLocal(c) THEN r.max
                  ELSE IF splits # 0 THEN Least(diagonal, r.max) ELSE diagonal
        edge   == c.near + c.right
        \* get_m_block_min_causal_local_mask, get_m_block_max_before_local_mask
        right  == Most(r.wmin, CeilDiv(c, QueryEnd(c, n) + edge, c.tm))
        left   == Least(r.wmax, Quot(c, QueryStart(c, n) + edge + c.left, c.tm))
        wfrom  == Within(right, r.wmin, r.wmax)
        wto    == Within(Most(left, right), wfrom, r.wmax)
    IN  Loop(r.min, IF c.kind = "full" THEN r.min ELSE nomask, TRUE, c.kind)
          \o (IF IsLocal(c)
              THEN Loop(r.wmin, wfrom, TRUE, "local") \o Loop(wfrom, wto, FALSE, "none")
                     \o Loop(wto, r.wmax, TRUE, "local")
                     \o Loop(r.smin, r.smax, TRUE, "sink")
              ELSE Loop(nomask, r.max, FALSE, "none"))

-----------------------------------------------------------------------------
(* Rows of the query tiles (query heads of one group are neighbours), and  *)
(* keys: in the forward also those past the end that a block reaches, which *)
(* would enter the softmax; the backward never stores their gradients.     *)
Rows  == 0 .. c.sq * c.pack - 1
Keys  == 0 .. (IF Kernel = "bwd" THEN c.sk ELSE NumN(c) * c.tn) - 1
Pairs == Rows \X Keys

Loops(p) ==
    IF Kernel = "bwd" THEN QueryLoops(p[1], p[2])
    ELSE IF EmptyN(p[1], p[2]) THEN <<>> ELSE KeyLoops(p[1], p[2])

(* What the mask of a loop keeps.  Past the list of a gather launch lie    *)
(* the indices of the next batch, and they are valid.                      *)
KeptBy(loop, row, k) ==
    IF loop.mask = "gather" THEN k < c.entries \/ k >= c.sk
    ELSE Kept(c, loop.seqlen, loop.mask, row \div c.pack, k)

RowTile(row)   == row \div c.tm
KeyBlock(k)    == k \div c.tn
Outer(row, k)  == IF Kernel = "bwd" THEN KeyBlock(k) ELSE RowTile(row)
Inner(row, k)  == IF Kernel = "bwd" THEN RowTile(row) ELSE KeyBlock(k)

(* How often program p accumulates a pair. *)
Times(p, row, k) ==
    LET loops == Loops(p)
    IN  IF p[1] # Outer(row, k) THEN 0
        ELSE Cardinality({j \in DOMAIN loops :
                 /\ Inner(row, k) \in loops[j].from .. loops[j].to - 1
                 /\ KeptBy(loops[j], row, k)})

Allowed(row, k) ==
    IF c.gather THEN k < c.entries ELSE Attends(c, row \div c.pack, k)

-----------------------------------------------------------------------------
Blocks ==
    0 .. (IF Kernel = "bwd" THEN NumN(c) ELSE CeilDiv(c, c.sq * c.pack, c.tm)) - 1
Programs == Blocks \X (0 .. Most(splits, 1) - 1)

InitialRange ==
    [p \in Programs |->
        IF Kernel = "bwd" THEN ProgramM(p[1], p[2]) ELSE ProgramN(p[1], p[2])]

=============================================================================
