----------------------------- MODULE GluonBlocks -----------------------------
(***************************************************************************)
(* The blocks a program of a Gluon kernel visits and in which order:       *)
(* gluon/block_info.py, the block schedulers of gluon/scheduler.py and the *)
(* loops of the kernels.  Other than the Triton kernels these take the     *)
(* last block of all ranges, the only one that may be incomplete, out of   *)
(* its range and start with it.                                            *)
(***************************************************************************)
EXTENDS BlockSplits, AsyncCode

EvenM(c) == c.sq % c.tm = 0
EvenN(c) == c.sk % c.tn = 0

(* A visit: the block, its masks, and whether the next block is loaded     *)
(* ahead.  The first visit of a range names it: nobody has loaded its      *)
(* block ahead.                                                            *)
Visit(block, seqlen, mask, ahead) ==
    [block |-> block, seqlen |-> seqlen, mask |-> mask, ahead |-> ahead, start |-> "no"]
InRange(name, visits) ==
    [i \in DOMAIN visits |-> IF i = 1 THEN [visits[i] EXCEPT !.start = name] ELSE visits[i]]

FirstMask(c) == IF IsLocal(c) THEN "sink" ELSE IF c.kind = "causal" THEN "causal" ELSE "none"
MainMask(c)  == IF c.kind = "full" THEN "none" ELSE c.kind

-----------------------------------------------------------------------------
(* get_n_block_min_max: the ranges, the first block taken off.             *)
NonEmptyUpTo(min, max) == IF min < max THEN max ELSE 0

LastKeyBlock(r) == Most(NonEmptyUpTo(r.min, r.max),
                        Most(NonEmptyUpTo(r.wmin, r.wmax), NonEmptyUpTo(0, r.smax)))

TakeOffInWindow(r, max) ==    \* mutant: the block that is peeled stays in the window
    [r EXCEPT !.max  = max,
              !.min  = IF @ >= max THEN Most(max - 1, 0) ELSE @,
              !.smax = Most(0, Least(@, max - 1))]

TakeOff(r, max) ==
    [r EXCEPT !.max  = max,
              !.min  = IF @ >= max THEN Most(max - 1, 0) ELSE @,
              !.wmax = Most(r.wmin, Least(@, max - 1)),
              !.smax = Most(0, Least(@, max - 1))]

PeelN(c, r) == IF IsLocal(c) THEN TakeOff(r, LastKeyBlock(r)) ELSE r

ProgramN(c, m, i) ==
    PeelN(c, ClampN(c, IF c.splits = 0 THEN RawN(c, m) ELSE SplitN(c, m, i)))

(* get_n_block_max_no_causal_local_mask, get_n_block_min_before_local_mask *)
NoMaskUpTo(c, m, min, max, edge) ==
    LET key == KeyStart(c, m) - (IF IsLocal(c) THEN c.near + edge ELSE 0)
    IN  IF c.kind = "full" THEN max ELSE Least(Most(min, Quot(c, key, c.tn)), max)
NoMaskFrom(c, m, min, max) ==
    Least(Most(min, CeilDiv(c, KeyEnd(c, m) - c.near - c.right - c.left, c.tn)), max)

(* AttnFwdBlockScheduler.is_empty *)
EmptyN(r) == r.max <= r.min /\ r.wmax <= r.wmin /\ r.smax <= 0

(* The blocks from .. to - 1 from the last to the first, within a range    *)
(* that is loaded ahead down to min.                                       *)
Loop(from, to, min, seqlen, mask) ==
    LET blocks == Down(to - 1, from)
    IN  [i \in DOMAIN blocks |-> Visit(blocks[i], seqlen, mask, blocks[i] > min)]

MainLoop(c, r, nomask) ==
    <<Visit(r.max - 1, ~EvenN(c), FirstMask(c), r.max - 1 > r.min)>>
      \o When(c.kind # "full", Loop(nomask, r.max - 1, r.min, FALSE, MainMask(c)))
      \o When(~IsLocal(c), Loop(r.min, nomask, r.min, FALSE, "none"))

WindowLoop(r, from, to) ==
    When(r.wmax > r.wmin, Loop(to, r.wmax, r.wmin, FALSE, "local")
                            \o Loop(from, to, r.wmin, FALSE, "none")
                            \o Loop(r.wmin, from, r.wmin, FALSE, "local"))
WindowLoopTo(c, m, r, to) == WindowLoop(r, NoMaskFrom(c, m, r.wmin, to), to)

SinkLoop(r) == Loop(0, r.smax, 0, FALSE, "sink")

KeyVisitsIn(c, m, r) ==
    When(~EmptyN(r),
         InRange("main", MainLoop(c, r, NoMaskUpTo(c, m, r.min, r.max - 1, 0)))
           \o When(IsLocal(c),
                   InRange("window", WindowLoopTo(c, m, r,
                                         NoMaskUpTo(c, m, r.wmin, r.wmax, c.right)))
                     \o InRange("sink", SinkLoop(r))))
KeyVisits(c, m, i) == KeyVisitsIn(c, m, ProgramN(c, m, i))

-----------------------------------------------------------------------------
(* get_m_block_min_max: of a sink block only the last tile is in the main  *)
(* range, so that it is the one taken off.                                 *)
LastSinkTile(c, n, r) ==
    IF IsLocal(c) /\ n < SinkBlocks(c)
    THEN [r EXCEPT !.smax = NumM(c) - 1, !.min = NumM(c) - 1, !.max = NumM(c),
                   !.wmin = 0, !.wmax = 0]
    ELSE r

TakeOffTile(r, max) == [r EXCEPT !.max = max, !.wmax = Most(r.wmin, Least(@, max - 1))]
PeelM(c, r) ==
    IF IsLocal(c) THEN TakeOffTile(r, Most(r.max, NonEmptyUpTo(r.wmin, r.wmax))) ELSE r

SplitTiles(c, n, i, raw) == IF c.splits = 0 THEN raw ELSE SplitM(c, raw, n, i)
ProgramM(c, n, i) ==
    PeelM(c, ClampM(c, SplitTiles(c, n, i, LastSinkTile(c, n, RawM(c, n)))))

(* get_m_block_min_no_causal_local_mask, get_m_block_max_before_local_mask *)
NoMaskFromTile(c, n, min, max, edge) ==
    LET query == QueryEnd(c, n) + (IF IsLocal(c) THEN c.near + edge ELSE 0)
    IN  IF c.kind = "full" THEN min ELSE Least(Most(min, CeilDiv(c, query, c.tm)), max)
NoMaskUpToTile(c, n, min, max) ==
    Most(Least(Quot(c, QueryStart(c, n) + c.near + c.right + c.left, c.tm), max), min)

EmptyM(r) == r.max <= r.min /\ r.wmax <= r.wmin /\ r.smax <= r.smin

LoopUp(from, to, max, seqlen, mask) ==
    LET tiles == Up(from, to - 1)
    IN  [i \in DOMAIN tiles |-> Visit(tiles[i], seqlen, mask, tiles[i] < max - 1)]

MainTiles(c, r, last, nomask) ==
    When(c.kind # "full", LoopUp(r.min, nomask, IF IsLocal(c) THEN nomask ELSE last,
                                 FALSE, MainMask(c)))
      \o When(~IsLocal(c), LoopUp(nomask, last, last, FALSE, "none"))

WindowTiles(r, from, to) ==
    LoopUp(r.wmin, from, r.wmax, FALSE, "local")
      \o LoopUp(from, to, r.wmax, FALSE, "none")
      \o LoopUp(to, r.wmax, r.wmax, FALSE, "local")
WindowTilesFrom(c, n, r, from) == WindowTiles(r, from, NoMaskUpToTile(c, n, from, r.wmax))

SinkTiles(r) == LoopUp(r.smin, r.smax, r.smax, FALSE, "sink")

TileVisitsIn(c, n, r) ==
    When(~EmptyM(r),
         InRange("first", <<Visit(r.max - 1, ~EvenM(c), FirstMask(c), FALSE)>>)
           \o InRange("main", MainTiles(c, r, r.max - 1,
                                        NoMaskFromTile(c, n, r.min, r.max - 1, 0)))
           \o When(IsLocal(c),
                   InRange("window", WindowTilesFrom(c, n, r,
                                         NoMaskFromTile(c, n, r.wmin, r.wmax, c.right)))
                     \o InRange("sink", SinkTiles(r))))
TileVisits(c, n, i) == TileVisitsIn(c, n, ProgramM(c, n, i))
=============================================================================
