----------------------------- MODULE BlockSplits -----------------------------
(***************************************************************************)
(* How the programs of a launch share the blocks of a tile: split-KV in    *)
(* the forward and split-QO in the backward kernels (c.splits programs,    *)
(* NUM_SPLITS; 0 if the launch does not split).                            *)
(***************************************************************************)
EXTENDS BlockInfo

(* Sharing blocks from .. from + total - 1 among the splits: the first     *)
(* splits take one more when it does not divide.                           *)
ShareStart(c, total, i) ==
    LET base == total \div c.splits
        extra == total % c.splits
    IN  IF i < extra THEN i * (base + 1) ELSE extra * (base + 1) + (i - extra) * base
ShareSizeDown(c, total, i) == total \div c.splits                 \* mutant

ShareSize(c, total, i) ==
    total \div c.splits + (IF i < total % c.splits THEN 1 ELSE 0)

LastSplit(c, i) == i >= c.splits - 1

(* get_n_block_min_max with IS_SPLIT_KV: the window is shared, the main    *)
(* range goes to the last split and the sink to the first.                 *)
NearFrom(c, m, min) ==
    IF c.sq = 1 THEN BlocksUpTo(c, Most(KeyStart(c, m) - c.near + 1, 0)) ELSE min

SplitWindow(c, r, i) ==
    LET total == Most(r.wmax - r.wmin, 0)
        wmin  == r.wmin + ShareStart(c, total, i)
    IN  [r EXCEPT !.wmin = wmin,
                  !.wmax = Least(wmin + ShareSize(c, total, i), Most(@, r.wmin)),
                  !.smax = IF i = 0 THEN @ ELSE 0]

(* Split i of the local ranges r, whose window and sink are those of s.    *)
SplitLocalN(c, m, i, r, s) ==
    LET near == Most(NearFrom(c, m, r.min), SinkBlocks(c))
        idle == Most(s.wmax, s.smax)
    IN  IF LastSplit(c, i) THEN [s EXCEPT !.min = Most(near, Most(r.wmax, r.wmin))]
        ELSE [s EXCEPT !.min = idle, !.max = idle]

SplitMainN(c, r, i) ==
    LET total == Most(r.max - r.min, 0)
        min   == r.min + ShareStart(c, total, i)
    IN  [r EXCEPT !.min = min, !.max = Least(min + ShareSize(c, total, i), @)]

SplitRaw(c, m, i, r) ==
    IF IsLocal(c) THEN SplitLocalN(c, m, i, r, SplitWindow(c, r, i))
    ELSE SplitMainN(c, r, i)
SplitN(c, m, i) == SplitRaw(c, m, i, RawN(c, m))

(* get_m_block_min_max with IS_SPLIT_QO *)
SplitM(c, r, n, i) ==
    LET tiles == Most(r.max - r.min, 0)
        min   == r.min + ShareStart(c, tiles, i)
        upper == Most(r.min, CeilDiv(c, QueryEnd(c, n), c.tm))
        wfrom == Most(r.wmin, upper)
        wtotal == Most(r.wmax - wfrom, 0)
        wmin  == wfrom + ShareStart(c, wtotal, i)
    IN  IF IsLocal(c)
        THEN [r EXCEPT !.min  = IF i = 0 THEN @ ELSE r.max,
                       !.wmin = wmin,
                       !.wmax = Least(wmin + ShareSize(c, wtotal, i), @),
                       !.smin = IF i = 0 THEN @ ELSE 0,
                       !.smax = IF i = 0 THEN @ ELSE 0]
        ELSE [r EXCEPT !.min = min,
                       !.max = Least(min + ShareSize(c, tiles, i), @)]
==============================================================================
