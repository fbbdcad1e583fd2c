----------------------------- MODULE FwdWalkSm90 -----------------------------
(***************************************************************************)
(* The order in which the SM90 sparse forward kernel goes through the key  *)
(* blocks of a query tile.  The producer warp and the MMA warp groups      *)
(* compute that order each for itself, from the same ranges but through    *)
(* loops of their own; nothing in the pipelines between them names a       *)
(* block.  The producer decides what is in a stage, the consumers decide   *)
(* which mask they apply to it.                                            *)
(*                                                                         *)
(* How a stage is handed over is the business of TmaPipeline and           *)
(* SparseFwdSm90: here a pipeline is a queue of bounded length.            *)
(***************************************************************************)
EXTENDS BlockInfo, Sequences, FiniteSets

CONSTANTS
    Kinds, SeqQ, SeqK, TilesM, TilesN, Packs, Sinks, Lefts, Rights, Nears,
    Overlaps,           \* values of intra_wg_overlap
    KStages, VStages    \* stages of pipeline_k and pipeline_v

ASSUME SizesAssumption ==
    /\ UNION {SeqQ, SeqK, TilesM, TilesN, Packs, {KStages, VStages}} \subseteq Nat \ {0}
    /\ UNION {Sinks, Lefts, Rights, Nears} \subseteq Nat
    /\ Kinds \subseteq {"full", "causal", "local"} /\ Overlaps \subseteq BOOLEAN

VARIABLES
    c, m,       \* the problem and the query tile
    overlap,    \* intra_wg_overlap
    loads,      \* what the producer has still to load
    work,       \* what the consumers have still to do
    kq, vq,     \* K and V blocks loaded and not released
    counted     \* how often a pair entered the softmax
vars == <<c, m, overlap, loads, work, kq, vq, counted>>

-----------------------------------------------------------------------------
Down(from, to) == [i \in 1 .. Most(from - to, 0) |-> from - i] \* from - 1, ..., to

(* The ranges, and the block that comes first: when the main range is      *)
(* empty it is taken from the window, or from the sink.                    *)
MainEmpty(r) == IsLocal(c) /\ r.min = r.max
FromWindow(r) == MainEmpty(r) /\ r.wmin < r.wmax
FromSink(r)   == MainEmpty(r) /\ r.wmin >= r.wmax

First(r) == CASE FromWindow(r) -> r.wmax - 1
              [] FromSink(r)   -> r.smax - 1
              [] OTHER         -> r.max - 1
Rest(r) == [r EXCEPT !.wmax = IF FromWindow(r) THEN @ - 1 ELSE @,
                     !.smax = IF FromSink(r) THEN @ - 1 ELSE @]

-----------------------------------------------------------------------------
(* The producer. *)

K(n) == <<"K", n>>
V(n) == <<"V", n>>

(* The loads of a segment: with overlap K runs one block ahead of V. *)
SegmentLoads(blocks) ==
    LET last == 2 * Len(blocks)
    IN  [i \in 1 .. last |->
          IF ~overlap THEN IF i % 2 = 1 THEN K(blocks[(i + 1) \div 2])
                                        ELSE V(blocks[i \div 2])
          ELSE CASE i = 1 -> K(blocks[1])
                 [] i = last -> V(blocks[Len(blocks)])
                 [] OTHER -> IF i % 2 = 0 THEN K(blocks[i \div 2 + 1])
                                          ELSE V(blocks[i \div 2])]

ProducerLoadsAll ==     \* mutant: the first block is not taken out of its range
    LET r == NBlocks(c, m)
    IN  SegmentLoads(<<First(r)>> \o Down(r.max - 1, r.min))
          \o SegmentLoads(Down(r.wmax, r.wmin)) \o SegmentLoads(Down(r.smax, 0))

ProducerLoads ==
    LET r == Rest(NBlocks(c, m))
        first == First(NBlocks(c, m))
    IN  SegmentLoads(<<first>> \o Down(r.max - 1, r.min))
          \o SegmentLoads(Down(r.wmax, r.wmin)) \o SegmentLoads(Down(r.smax, 0))

-----------------------------------------------------------------------------
(* The consumers. *)

Visit(n, seqlen, mask) == [block |-> n, seqlen |-> seqlen, mask |-> mask]
VisitAll(blocks, seqlen, mask) ==
    [i \in DOMAIN blocks |-> Visit(blocks[i], seqlen, mask)]

(* get_n_block_min_before_local_mask *)
FullFrom(min) ==
    LET rows == CeilDiv(c, (m + 1) * c.tm, c.pack)
        key  == rows + c.sk - c.sq - c.near - c.right - c.left
    IN  Most(min, CeilDiv(c, key, c.tn))

Within(x, from, to) == Most(Least(x, to), from)

MainVisits(r, first) ==
    LET masked == IF IsLocal(c) THEN r.min ELSE MaskFrom(c, m, r.min, FALSE)
        max    == Most(r.max - 1, r.min)
        nomask == Least(masked, max)
        mask   == IF c.kind = "full" THEN "none" ELSE c.kind
    IN  <<Visit(first, TRUE, IF IsLocal(c) THEN "sink" ELSE mask)>>
          \o VisitAll(Down(max, nomask), TRUE, mask)
          \o VisitAll(Down(nomask, r.min), FALSE, "none")

WindowVisits(r) ==
    LET to   == Within(MaskFrom(c, m, r.wmin, TRUE), r.wmin, r.wmax)
        from == Within(FullFrom(r.wmin), r.wmin, to)
        \* with overlap the first block has a loop iteration of its own
        max  == IF overlap THEN r.wmax - 1 ELSE r.wmax
        to2  == Least(to, max)
        from2 == Least(from, to2)
    IN  VisitAll(Down(r.wmax, max) \o Down(max, to2), FALSE, "local")
          \o VisitAll(Down(to2, from2), FALSE, "none")
          \o VisitAll(Down(from2, r.wmin), FALSE, "local")

(* What is done for a segment: scores of one block, and P V of the same    *)
(* block or, with overlap, of the block before.                            *)
Nothing == <<>>
SegmentWork(visits) ==
    IF ~overlap THEN [i \in DOMAIN visits |-> [score |-> <<visits[i]>>, pv |-> <<visits[i]>>]]
    ELSE IF visits = <<>> THEN <<>>
    ELSE [i \in 1 .. Len(visits) + 1 |->
            [score |-> IF i <= Len(visits) THEN <<visits[i]>> ELSE Nothing,
             pv    |-> IF i > 1 THEN <<visits[i - 1]>> ELSE Nothing]]

\* (Quantified over singletons so that TLC computes the visits once.)
ConsumersStart ==
    LET r == Rest(NBlocks(c, m))
        first == First(NBlocks(c, m))
    IN  \E main \in {MainVisits(r, first)},
           window \in {IF r.wmax > r.wmin THEN WindowVisits(r) ELSE <<>>},
           sink \in {VisitAll(Down(r.smax, 0), TRUE, "sink")} :
             work = SegmentWork(main) \o SegmentWork(window) \o SegmentWork(sink)

-----------------------------------------------------------------------------
Rows  == {row \in m * c.tm .. (m + 1) * c.tm - 1 : row < c.sq * c.pack}
Keys  == 0 .. NumN(c) * c.tn - 1
Pairs == Rows \X Keys

(* apply_mask takes a negative block for block 0. *)
Times(visit, row, k) ==
    IF /\ k \div c.tn = Most(visit.block, 0)
       /\ Kept(c, visit.seqlen, visit.mask, row \div c.pack, k)
    THEN 1 ELSE 0

Problems ==
    [sq : SeqQ, sk : SeqK, tm : TilesM, tn : TilesN, pack : Packs, trunc : BOOLEAN,
     kind : Kinds, sink : Sinks, left : Lefts, right : Rights, near : Nears]

(* Window sizes mean something to local attention only. *)
Canonical(p) ==
    p.kind # "local" => \A s \in Sinks, l \in Lefts, r \in Rights, w \in Nears :
        p.sink <= s /\ p.left <= l /\ p.right <= r /\ p.near <= w

Init ==
    /\ c \in {p \in Problems : Canonical(p)}
    /\ m \in 0 .. CeilDiv(c, c.sq * c.pack, c.tm) - 1
    /\ overlap \in Overlaps
    /\ loads = ProducerLoads /\ ConsumersStart
    /\ kq = <<>> /\ vq = <<>>
    /\ counted = [x \in Pairs |-> 0]

LoadK ==
    /\ loads # <<>> /\ Head(loads)[1] = "K" /\ Len(kq) < KStages
    /\ kq' = Append(kq, Head(loads)[2])
    /\ loads' = Tail(loads)
    /\ UNCHANGED <<c, m, overlap, work, vq, counted>>

LoadV ==
    /\ loads # <<>> /\ Head(loads)[1] = "V" /\ Len(vq) < VStages
    /\ vq' = Append(vq, Head(loads)[2])
    /\ loads' = Tail(loads)
    /\ UNCHANGED <<c, m, overlap, work, kq, counted>>

(* A half block or mma_one_n_block: K is released before V is waited for,  *)
(* so one step takes K and another V.                                      *)
Score ==
    /\ work # <<>> /\ Head(work).score # Nothing /\ kq # <<>>
    /\ kq' = Tail(kq)
    /\ counted' = [x \in Pairs |->
                     counted[x] + Times(Head(work).score[1], x[1], x[2])]
    /\ work' = IF Head(work).pv = Nothing THEN Tail(work)
               ELSE [work EXCEPT ![1].score = Nothing]
    /\ UNCHANGED <<c, m, overlap, loads, vq>>

Accumulate ==
    /\ work # <<>> /\ Head(work).score = Nothing /\ vq # <<>>
    /\ vq' = Tail(vq)
    /\ work' = Tail(work)
    /\ UNCHANGED <<c, m, overlap, loads, kq, counted>>

TileDone == loads = <<>> /\ work = <<>> /\ kq = <<>> /\ vq = <<>>

(* Only a whole tile may end: TLC finds a deadlock if a load is left in a   *)
(* stage or somebody waits for one that does not come.                     *)
Ended == TileDone /\ UNCHANGED vars

Next == LoadK \/ LoadV \/ Score \/ Accumulate \/ Ended
Spec == Init /\ [][Next]_vars

-----------------------------------------------------------------------------
(* The block in the stage the consumers read is the one they mask and      *)
(* account for, K and V alike, although producer and consumers each run    *)
(* through loops of their own.                                             *)
StagesAgree ==
    work # <<>> =>
      /\ (Head(work).score # Nothing /\ kq # <<>>) => Head(kq) = Head(work).score[1].block
      /\ (Head(work).pv # Nothing /\ vq # <<>>) => Head(vq) = Head(work).pv[1].block

(* No pair enters the softmax that the mask forbids or that lies past the  *)
(* keys, and when the consumers are done every pair of the tile that the   *)
(* mask allows has entered it, once.                                       *)
ExactlyItsPairs ==
    \A x \in Pairs :
        IF Attends(c, x[1] \div c.pack, x[2])
        THEN counted[x] <= 1 /\ (work = <<>> => counted[x] = 1)
        ELSE counted[x] = 0

=============================================================================
