--------------------------- MODULE DetBackwardProofs ---------------------------
(***************************************************************************)
(* Proofs about DetBackwardSm90, for every launch.                         *)
(*                                                                         *)
(* The additions are in order because of two facts.  Of the ranges: a CTA  *)
(* visits a query tile only if the forward of that tile visits its key     *)
(* block (VisitedBack), so that the values the locks are compared with are *)
(* different for the visitors of a tile and grow in the order of Before    *)
(* (LocksInOrder).  Of the steps: while a CTA holds a semaphore, its value *)
(* is the one the CTA waited for (Acquired), and every addition that is    *)
(* done has a smaller one (AddedBefore).  For dK and dV the values are the *)
(* numbers of the query heads in their group, and a semaphore counts       *)
(* exactly the heads that have added (HeadsAdded).                         *)
(***************************************************************************)
EXTENDS DetBackwardSm90, BlockInfoProofs, FiniteSetTheorems

(* The blocks and tiles that the ranges of BlockInfo let meet. *)
VisitsTile(p, n, m) ==
    LET r == MBlocks(p, n)
    IN  m \in (r.min .. r.max - 1) \union (r.wmin .. r.wmax - 1)
                \union (r.smin .. r.smax - 1)
VisitsBlock(p, m, n) ==
    LET r == NBlocks(p, m)
    IN  n \in (r.min .. r.max - 1) \union (r.wmin .. r.wmax - 1) \union (0 .. r.smax - 1)

(* A window that begins right behind the near keys, or less than a key     *)
(* block behind, or has no partial query tile.                             *)
NoPartialGap(p) == IsLocal(p) => p.right <= p.tn \/ p.sq % p.tm = 0

LEMMA UnpackedTile ==
    ASSUME NEW p, IsProblem(p), p.pack = 1, NEW m \in Nat
    PROVE  /\ KeyStart(p, m) = m * p.tm + p.sk - p.sq
           /\ KeyEnd(p, m) = Least((m + 1) * p.tm, p.sq) + p.sk - p.sq
<1>1. p.tm \in Nat \ {0} /\ p.sq \in Nat /\ p.sk \in Nat
  BY DEF IsProblem
<1>2. m * p.tm \in Nat /\ (m + 1) * p.tm \in Nat
  BY <1>1
<1>3. \A x \in Nat : x \div 1 = x /\ CeilDiv(p, x, 1) = x
  BY DEF CeilDiv, Quot
<1>4. QED
  BY <1>1, <1>2, <1>3 DEF KeyStart, KeyEnd, RowStart, RowEnd

(* get_m_block_min_max of the backward is never wider than what            *)
(* get_n_block_min_max of the forward allows: a key block that visits a    *)
(* query tile is one of the blocks from which the tile's locks are         *)
(* computed.                                                               *)
THEOREM VisitedBack ==
    ASSUME NEW p, IsProblem(p), p.pack = 1, NoPartialGap(p),
           NEW n \in Nat, NEW m \in Nat, n < NumN(p), VisitsTile(p, n, m)
    PROVE  VisitsBlock(p, m, n)
<1>1. /\ p.tm \in Nat \ {0} /\ p.tn \in Nat \ {0} /\ p.sq \in Nat /\ p.sk \in Nat
      /\ p.near \in Nat /\ p.left \in Nat /\ p.right \in Nat
  BY DEF IsProblem
<1> DEFINE a == m * p.tm
           b == n * p.tn
<1>2. a \in Nat /\ b \in Nat /\ (m + 1) * p.tm = a + p.tm /\ (n + 1) * p.tn = b + p.tn
  BY <1>1, Multiples
<1>3. /\ KeyStart(p, m) = a + p.sk - p.sq
      /\ KeyEnd(p, m) = Least(a + p.tm, p.sq) + p.sk - p.sq
  BY <1>2, UnpackedTile
<1>4. /\ QueryStart(p, n) = b + p.sq - p.sk
      /\ QueryEnd(p, n) = b + p.tn + p.sq - p.sk
  BY <1>2 DEF QueryStart, QueryEnd
<1>5. b < p.sk /\ (m < NumM(p) <=> a < p.sq) /\ SinkBlocks(p) \in Nat
  BY KeyTypes, QueryTypes
<1>6. p.sq % p.tm = 0 /\ a < p.sq => a + p.tm <= p.sq
  BY <1>1, DividedTiles
<1>7. CASE ~IsLocal(p)
  BY <1>1, <1>2, <1>3, <1>4, <1>5, <1>7, FullAndCausalTiles, FullAndCausalBlocks
  DEF VisitsTile, VisitsBlock, Least
<1>8. CASE IsLocal(p)
  <2> DEFINE r == MBlocks(p, n)
             s == NBlocks(p, m)
  <2>1. CASE r.min <= m /\ m < r.max
    <3>1. /\ a < p.sq /\ n >= SinkBlocks(p)
          /\ b + p.sq - p.sk < a + p.tm
          /\ a < b + p.tn + p.sq - p.sk + p.near
      BY <1>2, <1>4, <1>5, <1>8, <2>1, LocalTiles
    <3>2. b < KeyEnd(p, m) /\ KeyStart(p, m) - p.near < b + p.tn
      BY <1>1, <1>2, <1>3, <1>5, <3>1 DEF Least
    <3>3. s.min <= n /\ n < s.max
      BY <1>2, <1>8, <3>1, <3>2, LocalBlocks
    <3>4. QED
      BY <1>8, <3>3, LocalBlocks DEF VisitsBlock
  <2>2. CASE r.wmin <= m /\ m < r.wmax
    <3>1. /\ a < p.sq /\ n >= SinkBlocks(p)
          /\ b + p.sq - p.sk + p.near + p.right < a + p.tm
          /\ a >= b + p.tn + p.sq - p.sk + p.near
          /\ a < b + p.tn + p.sq - p.sk + p.near + p.right + p.left
      BY <1>2, <1>4, <1>5, <1>8, <2>2, LocalTiles
    <3>2. b < KeyEnd(p, m) - p.near - p.right
      <4>1. CASE p.right <= p.tn
        BY <1>1, <1>2, <1>3, <1>5, <3>1, <4>1 DEF Least
      <4>2. CASE p.sq % p.tm = 0
        BY <1>1, <1>2, <1>3, <1>5, <1>6, <3>1, <4>2 DEF Least
      <4>3. QED
        BY <1>8, <4>1, <4>2 DEF NoPartialGap
    <3>3. s.wmin <= n /\ n < s.wmax
      <4>1. b + p.tn <= KeyStart(p, m) - p.near
            /\ KeyStart(p, m) - p.near - p.right - p.left < b + p.tn
        BY <1>1, <1>2, <1>3, <1>5, <3>1
      <4>2. QED
        BY <1>2, <1>8, <3>1, <3>2, <4>1, LocalBlocks
    <3>4. QED
      BY <1>8, <3>3, LocalBlocks DEF VisitsBlock
  <2>3. CASE r.smin <= m /\ m < r.smax
    <3>1. a < p.sq /\ n < SinkBlocks(p) /\ b + p.sq - p.sk < a + p.tm
      BY <1>2, <1>4, <1>5, <1>8, <2>3, LocalTiles
    <3>2. b < KeyEnd(p, m)
      BY <1>1, <1>2, <1>3, <1>5, <3>1 DEF Least
    <3>3. n < s.smax
      BY <1>2, <1>8, <3>1, <3>2, LocalBlocks
    <3>4. QED
      BY <1>8, <3>3, LocalBlocks DEF VisitsBlock
  <2>4. QED
    BY <1>8, <2>1, <2>2, <2>3, LocalTiles DEF VisitsTile
<1>9. QED
  BY <1>7, <1>8

-----------------------------------------------------------------------------
(* The values of the locks. *)
Before(n1, n2) == IF Spt THEN n1 > n2 ELSE n1 < n2
Later(n, from, to) == Most(to - Most(n + 1, from), 0)

LEMMA LaterOrder ==
    ASSUME NEW n1 \in Nat, NEW n2 \in Nat, n1 < n2, NEW from \in Int, NEW to \in Int
    PROVE  /\ Later(n1, from, to) \in Nat /\ Later(n2, from, to) \in Nat
           /\ Later(n2, from, to) <= Later(n1, from, to)
           /\ from <= n2 /\ n2 < to => Later(n2, from, to) < Later(n1, from, to)
BY DEF Later, Most

LEMMA LaunchFacts ==
    ASSUME c \in Launches
    PROVE  /\ IsProblem(c) /\ c.pack = 1
           /\ NumN(c) \in Nat /\ NumM(c) \in Nat
           /\ NumHeads \in Nat \ {0} /\ Group \in Nat \ {0} /\ L2Minor \in Nat \ {0}
           /\ NumHeads % Group = 0
<1>1. IsProblem(c) /\ c.pack = 1 /\ c.heads % c.group = 0
      /\ c.heads \in Nat \ {0} /\ c.group \in Nat \ {0} /\ c.minor \in Nat \ {0}
  BY LaunchesAssumption
<1>2. QED
  BY <1>1, KeyTypes, QueryTypes, 0 \in Nat DEF NumHeads, Group, L2Minor

(* The locks number the visits of a tile in the order of Before. *)
LEMMA LocksInOrder ==
    ASSUME c \in Launches, NoPartialGap(c),
           NEW n1 \in Blocks, NEW n2 \in Blocks, NEW m \in Tiles,
           VisitsTile(c, n1, m), VisitsTile(c, n2, m),
           LockValue(n1, m) <= LockValue(n2, m)
    PROVE  n1 = n2 \/ (Before(n1, n2) /\ LockValue(n1, m) < LockValue(n2, m))
<1>1. /\ IsProblem(c) /\ c.pack = 1 /\ n1 \in Nat /\ n2 \in Nat /\ m \in Nat
      /\ n1 < NumN(c) /\ n2 < NumN(c)
  BY LaunchFacts DEF Blocks, Tiles
<1>2. CASE ~Spt
  BY <1>1, <1>2 DEF LockValue, Before
<1>3. CASE Spt
  <2> DEFINE r == NBlocks(c, m)
             win(n) == Later(n, r.wmin, Least(r.wmax, r.min))
  <2>1. ASSUME NEW n \in Nat
        PROVE  LockValue(n, m) = Later(n, r.min, r.max)
                 + (IF IsLocal(c) THEN win(n) + Later(n, 0, r.smax) ELSE 0)
    BY <1>3 DEF LockValue, Later
  <2>2. SUFFICES ASSUME NEW i \in Nat, NEW j \in Nat, i < j, VisitsBlock(c, m, j)
                 PROVE  /\ LockValue(i, m) \in Nat /\ LockValue(j, m) \in Nat
                        /\ LockValue(j, m) < LockValue(i, m)
    <3>1. VisitsBlock(c, m, n1) /\ VisitsBlock(c, m, n2)
      BY <1>1, VisitedBack
    <3>2. QED
      BY <1>1, <1>3, <2>2, <3>1 DEF Before
  <2>3. CASE ~IsLocal(c)
    <3>1. r.min \in Int /\ r.max \in Int /\ r.min <= j /\ j < r.max
      BY <1>1, <2>2, <2>3, FullAndCausalBlocks DEF VisitsBlock
    <3>2. LockValue(i, m) = Later(i, r.min, r.max) /\ LockValue(j, m) = Later(j, r.min, r.max)
      <4>1. Later(i, r.min, r.max) \in Nat /\ Later(j, r.min, r.max) \in Nat
        BY <2>2, <3>1, LaterOrder
      <4> HIDE DEF r
      <4>2. QED
        BY <2>1, <2>2, <2>3, <4>1
    <3>3. QED
      BY <2>2, <3>1, <3>2, LaterOrder
  <2>4. CASE IsLocal(c)
    <3>1. {r.min, r.max, r.wmin, r.wmax, r.smax} \subseteq Int
      BY <1>1, <2>4, LocalBlocks
    <3>2. Least(r.wmax, r.min) \in Int
      BY <3>1 DEF Least
    <3>3. /\ Later(i, r.min, r.max) \in Nat /\ Later(j, r.min, r.max) \in Nat
          /\ Later(j, r.min, r.max) <= Later(i, r.min, r.max)
          /\ r.min <= j /\ j < r.max => Later(j, r.min, r.max) < Later(i, r.min, r.max)
      BY <2>2, <3>1, LaterOrder
    <3>4. /\ win(i) \in Nat /\ win(j) \in Nat
          /\ win(j) <= win(i)
          /\ r.wmin <= j /\ j < r.wmax => win(j) < win(i)
      <4>1. r.wmin <= j /\ j < r.wmax => j < Least(r.wmax, r.min)
        BY <2>2, <2>4, <1>1, <3>1, LocalBlocks DEF Least
      <4>2. QED
        BY <2>2, <3>1, <3>2, <4>1, LaterOrder
    <3>5. /\ Later(i, 0, r.smax) \in Nat /\ Later(j, 0, r.smax) \in Nat
          /\ Later(j, 0, r.smax) <= Later(i, 0, r.smax)
          /\ j < r.smax => Later(j, 0, r.smax) < Later(i, 0, r.smax)
      BY <2>2, <3>1, LaterOrder, 0 \in Int, 0 <= j
    <3>6. \/ r.min <= j /\ j < r.max
          \/ r.wmin <= j /\ j < r.wmax
          \/ j < r.smax
      BY <2>2, <3>1 DEF VisitsBlock
    <3>7. QED
      <4> HIDE DEF r, win
      <4>1. QED
        BY <2>1, <2>2, <2>4, <3>3, <3>4, <3>5, <3>6
  <2>5. QED
    BY <2>3, <2>4
<1>4. QED
  BY <1>2, <1>3

LEMMA LockTypes ==
    ASSUME c \in Launches, NEW n \in Blocks, NEW m \in Tiles
    PROVE  LockValue(n, m) \in Int
<1> DEFINE r == NBlocks(c, m)
<1>1. IsProblem(c) /\ n \in Nat /\ m \in Nat
  BY LaunchFacts DEF Blocks, Tiles
<1>2. r.min \in Int /\ r.max \in Int /\ r.wmin \in Int /\ r.wmax \in Int /\ r.smax \in Int
  BY <1>1, LocalBlocks, FullAndCausalBlocks, 0 \in Nat
<1> HIDE DEF r
<1>3. QED
  BY <1>1, <1>2 DEF LockValue, r, Most, Least

-----------------------------------------------------------------------------
(* The grid.  CTAs are numbered by section of heads, block and head.       *)
LEMMA CtaInGrid ==
    ASSUME c \in Launches, NEW i \in Nat, i < NumN(c) * NumHeads
    PROVE  Cta(i) \in Ctas
<1> DEFINE L == L2Minor
           N == NumN(c)
           H == NumHeads
           width == L * N
           section == i \div width
           mod == i % width
           full == H \div L
           rest == H % L
           minor == IF section < full THEN L ELSE Most(rest, 1)
           block == mod \div minor
           head  == section * L + (mod % minor)
<1>1. N \in Nat /\ H \in Nat \ {0} /\ L \in Nat \ {0}
  BY LaunchFacts
<1>2. N # 0
  BY <1>1
<1>3. width \in Nat \ {0}
  BY <1>1, <1>2
<1>4. section \in Int /\ mod \in 0 .. width - 1 /\ i = section * width + mod
  <2> HIDE DEF width
  <2>1. QED
    BY <1>3, Division
<1>5. full \in Int /\ rest \in 0 .. L - 1 /\ H = full * L + rest
  BY <1>1, Division
<1>6. section \in Nat
  <2> HIDE DEF width
  <2>1. QED
    BY <1>3, DivAbove, 0 * width <= i
<1>7. full \in Nat
  BY <1>1, DivAbove, 0 * L <= H
<1>8. H * N = full * width + rest * N
  <2> HIDE DEF full, rest, H, L, N
  <2>1. (full * L + rest) * N = full * (L * N) + rest * N
    BY <1>1, <1>5
  <2>2. QED
    BY <1>5, <2>1
<1>9. minor \in Nat \ {0} /\ section * L + minor <= H /\ mod < minor * N
  <2>1. CASE section < full
    <3>1. section + 1 <= full /\ section * L + L <= full * L
      BY <1>1, <1>6, <1>7, <2>1
    <3>2. QED
      BY <1>1, <1>4, <1>5, <2>1, <3>1
  <2>2. CASE section >= full
    <3> HIDE DEF section, mod, full, rest
    <3>1. section * width >= full * width
      BY <1>3, <1>6, <1>7, <2>2
    <3>2. section * width + mod < full * width + rest * N
      BY <1>1, <1>4, <1>8
    <3>3. rest * N > 0 /\ rest >= 1
      <4>1. section * width \in Nat /\ full * width \in Nat /\ mod \in Nat
        BY <1>3, <1>4, <1>6, <1>7
      <4>2. rest \in Nat /\ rest * N \in Nat
        BY <1>1, <1>5
      <4>3. rest * N > 0
        <5> HIDE DEF width, N
        <5>1. QED
          BY <3>1, <3>2, <4>1, <4>2
      <4>4. rest # 0
        BY <1>1, <4>3
      <4>5. QED
        BY <4>2, <4>3, <4>4
    <3>4. section = full
      <4>1. SUFFICES ASSUME section > full PROVE FALSE
        BY <1>6, <1>7, <2>2
      <4>2. section * width >= full * width + width
        <5>1. section >= full + 1
          BY <1>6, <1>7, <4>1
        <5>2. section * width >= (full + 1) * width
          BY <1>3, <1>6, <1>7, <5>1
        <5>3. QED
          BY <1>3, <1>6, <1>7, <5>2
      <4>3. rest * N <= width
        BY <1>1, <1>5
      <4>4. section * width \in Nat /\ full * width \in Nat /\ rest * N \in Nat
        BY <1>1, <1>3, <1>5, <1>6, <1>7
      <4>5. QED
        <5> HIDE DEF width, N
        <5>1. QED
          BY <1>3, <1>4, <3>2, <4>2, <4>3, <4>4
    <3>5. minor = rest
      BY <1>5, <3>3, <3>4, <1>7 DEF Most
    <3>6. mod < rest * N
      <4>1. section * width = full * width /\ full * width \in Nat /\ rest * N \in Nat
        BY <1>1, <1>3, <1>5, <1>7, <3>4
      <4>2. QED
        <5> HIDE DEF width, N
        <5>1. QED
          BY <1>4, <3>2, <4>1
    <3>7. QED
      <4> HIDE DEF minor
      <4>1. QED
        BY <1>5, <3>3, <3>4, <3>5, <3>6
  <2>3. QED
    BY <1>6, <1>7, <2>1, <2>2
<1>10. block \in Int /\ mod % minor \in 0 .. minor - 1 /\ 0 <= block /\ block < N
  <2> HIDE DEF mod, minor
  <2>1. mod \in Nat
    BY <1>3, <1>4
  <2>2. block \in Int /\ mod % minor \in 0 .. minor - 1
    BY <1>9, <2>1, Division
  <2>3. 0 <= block
    BY <1>9, <2>1, DivAbove, 0 * minor <= mod
  <2>4. block <= N - 1
    <3>1. mod < ((N - 1) + 1) * minor
      BY <1>1, <1>9
    <3> HIDE DEF N
    <3>2. QED
      BY <1>1, <1>9, <2>1, <3>1, DivBelow
  <2>5. QED
    BY <1>1, <2>2, <2>3, <2>4
<1>11. head \in 0 .. H - 1
  <2>1. section * L \in Nat
    BY <1>1, <1>6
  <2> HIDE DEF section, mod, minor, H
  <2>2. QED
    BY <1>1, <1>9, <1>10, <2>1
<1>12. Cta(i) = <<IF Spt THEN N - 1 - block ELSE block, head>>
  BY DEF Cta
<1>13. QED
  <2> HIDE DEF block, head, H, N
  <2>1. (IF Spt THEN N - 1 - block ELSE block) \in 0 .. N - 1
    BY <1>1, <1>10
  <2>2. QED
    BY <1>11, <1>12, <2>1 DEF Ctas, Blocks, Heads, H, N

(* What a CTA visits are query tiles that its key block meets.             *)
LEMMA UpElements ==
    ASSUME NEW from \in Int, NEW to \in Int, NEW T, from .. to - 1 \subseteq T
    PROVE  Up(from, to) \in Seq(T)
<1>1. Most(to - from, 0) \in Nat
  BY DEF Most
<1>2. Up(from, to) \in [1 .. Most(to - from, 0) -> T]
  <2>1. ASSUME NEW i \in 1 .. Most(to - from, 0)
        PROVE  from + i - 1 \in from .. to - 1
    BY DEF Most
  <2>2. QED
    BY <2>1 DEF Up
<1>3. QED
  BY <1>1, <1>2

LEMMA TilesVisited ==
    ASSUME c \in Launches, NEW n \in Blocks
    PROVE  /\ Visited(n) \in Seq(Tiles)
           /\ \A i \in 1 .. Len(Visited(n)) : VisitsTile(c, n, Visited(n)[i])
<1> DEFINE r == MBlocks(c, n)
           T == {m \in Tiles : VisitsTile(c, n, m)}
<1>1. IsProblem(c) /\ n \in Nat /\ NumM(c) \in Nat
  BY LaunchFacts DEF Blocks
<1>2. {r.min, r.max, r.wmin, r.wmax, r.smin, r.smax} \subseteq Int
  BY <1>1, LocalTiles, FullAndCausalTiles, 0 \in Nat
<1>3. /\ r.min .. r.max - 1 \subseteq T
      /\ r.wmin .. r.wmax - 1 \subseteq T
      /\ r.smin .. r.smax - 1 \subseteq T
  <2>1. SUFFICES ASSUME NEW m \in Int, VisitsTile(c, n, m) PROVE m \in 0 .. NumM(c) - 1
    BY <1>2 DEF VisitsTile, Tiles
  <2>2. m >= 0
    BY <1>1, <1>2, <2>1, TilesNotNegative DEF VisitsTile
  <2>3. m < NumM(c)
    BY <1>1, <1>2, <2>1, <2>2, LocalTiles, FullAndCausalTiles DEF VisitsTile
  <2>4. QED
    BY <1>1, <2>2, <2>3
<1>4. /\ Up(r.min, r.max) \in Seq(T) /\ Up(r.wmin, r.wmax) \in Seq(T)
      /\ Up(r.smin, r.smax) \in Seq(T)
  <2> HIDE DEF T, r
  <2>1. QED
    BY <1>2, <1>3, UpElements
<1>5. Visited(n) \in Seq(T)
  <2> HIDE DEF T
  <2>1. QED
    BY <1>4 DEF Visited
<1>6. QED
  <2> HIDE DEF r
  <2>1. QED
    BY <1>5

-----------------------------------------------------------------------------
(* The inductive invariant: the types; the tables of the launch; and a     *)
(* semaphore that a CTA has acquired keeps, until the CTA has added, the   *)
(* value that the CTA waited for, while everybody who has added waited for *)
(* a smaller one.                                                          *)
MmaPlaces == {"dQ", "lock K", "add K", "lock V", "add V", "done"}

Typed ==
    /\ launched \in 0 .. NumN(c) * NumHeads
    /\ store \in [Ctas -> [at : Nat \ {0}, pc : {"lock", "full", "add"}]]
    /\ mma \in [Ctas -> [at : Nat \ {0}, pc : MmaPlaces]]
    /\ buffer \in [Ctas -> {"empty", "full", "skip"}]
    /\ semQ \in [Tiles \X Heads -> Nat]
    /\ semK \in [Blocks \X KVHeads -> Nat] /\ semV \in [Blocks \X KVHeads -> Nat]
    /\ addsQ \in [Tiles \X Heads -> Seq(Blocks)]
    /\ addsK \in [Blocks \X KVHeads -> Seq(Nat)]
    /\ addsV \in [Blocks \X KVHeads -> Seq(Nat)]

Tables ==
    /\ c \in Launches
    /\ visited = [n \in Blocks |-> Visited(n)]
    /\ lock = [x \in Blocks \X Tiles |-> LockValue(x[1], x[2])]

(* dQ *)
Busy == \A t \in Ctas : store[t].pc # "lock" => ~Stored(t)

Acquired ==
    \A t \in Ctas :
        store[t].pc # "lock" => semQ[Tile(t)] = LockValue(t[1], Tile(t)[1])

AddedBefore ==
    \A x \in Tiles \X Heads :
        /\ \A i \in 1 .. Len(addsQ[x]) :
               /\ VisitsTile(c, addsQ[x][i], x[1])
               /\ LockValue(addsQ[x][i], x[1]) < semQ[x]
        /\ \A i \in 2 .. Len(addsQ[x]) : Before(addsQ[x][i - 1], addsQ[x][i])

(* dK and dV *)
HeadsAcquired ==
    \A t \in Ctas :
        /\ mma[t].pc = "add K" => semK[KVTile(t)] = t[2] % Group
        /\ mma[t].pc = "add V" => semV[KVTile(t)] = t[2] % Group

HeadsAdded ==
    \A x \in Blocks \X KVHeads :
        /\ addsK[x] = [i \in 1 .. semK[x] |-> x[2] * Group + i - 1]
        /\ addsV[x] = [i \in 1 .. semV[x] |-> x[2] * Group + i - 1]

Inv == Tables /\ Typed /\ Busy /\ HeadsAcquired /\ HeadsAdded

InOrderInv == Acquired /\ AddedBefore

LEMMA HeadOfGroup ==
    ASSUME c \in Launches, NEW h \in Heads
    PROVE  /\ h \in Nat /\ h \div Group \in KVHeads /\ h % Group \in Nat
           /\ h = (h \div Group) * Group + (h % Group)
<1>1. /\ NumHeads \in Nat /\ Group \in Nat \ {0} /\ h \in Nat /\ h < NumHeads
      /\ NumHeads % Group = 0
  BY LaunchFacts DEF Heads
<1> DEFINE H == NumHeads
           G == Group
           groups == H \div G
<1> HIDE DEF H, G
<1>2. groups \in Int /\ H = groups * G /\ H \in Nat /\ G \in Nat \ {0} /\ h < H
  BY <1>1, Division DEF H, G
<1>3. /\ h \div G \in Int /\ h % G \in 0 .. G - 1
      /\ h = (h \div G) * G + (h % G)
  BY <1>1, <1>2, Division
<1>4. 0 <= h \div G
  BY <1>1, <1>2, DivAbove, 0 * G <= h
<1> HIDE DEF groups
<1>5. h \div G <= groups - 1
  BY <1>1, <1>2, h < ((groups - 1) + 1) * G, DivBelow
<1>6. QED
  BY <1>1, <1>2, <1>3, <1>4, <1>5 DEF KVHeads, H, G, groups

LEMMA CtaTypes ==
    ASSUME c \in Launches, NEW t \in Ctas
    PROVE  /\ t = <<t[1], t[2]>> /\ t[1] \in Blocks /\ t[2] \in Heads
           /\ t[2] \in Nat /\ t[2] % Group \in Nat /\ KVTile(t) \in Blocks \X KVHeads
           /\ t[2] = KVTile(t)[2] * Group + (t[2] % Group)
<1>1. t = <<t[1], t[2]>> /\ t[1] \in Blocks /\ t[2] \in Heads
  BY DEF Ctas
<1>2. QED
  BY <1>1, HeadOfGroup DEF KVTile

LEMMA TileTypes ==
    ASSUME Tables, Typed, NEW t \in Ctas, ~Stored(t)
    PROVE  /\ Tile(t) \in Tiles \X Heads /\ Tile(t)[2] = t[2]
           /\ VisitsTile(c, t[1], Tile(t)[1])
<1>1. c \in Launches /\ t[1] \in Blocks /\ t[2] \in Heads
  BY CtaTypes DEF Tables
<1>2. visited[t[1]] = Visited(t[1]) /\ Visited(t[1]) \in Seq(Tiles)
  BY <1>1, TilesVisited DEF Tables
<1>3. store[t].at \in 1 .. Len(Visited(t[1]))
  BY <1>2 DEF Typed, Stored
<1>4. Visited(t[1])[store[t].at] \in Tiles
      /\ VisitsTile(c, t[1], Visited(t[1])[store[t].at])
  BY <1>1, <1>2, <1>3, TilesVisited
<1>5. QED
  BY <1>1, <1>2, <1>4 DEF Tile

LEMMA LaunchedInGrid ==
    ASSUME Tables, Typed
    PROVE  Launched \subseteq Ctas
<1>1. c \in Launches /\ NumN(c) \in Nat /\ NumHeads \in Nat
  BY LaunchFacts DEF Tables
<1>2. ASSUME NEW i \in 0 .. launched - 1
      PROVE  i \in Nat /\ i < NumN(c) * NumHeads
  <2>1. NumN(c) * NumHeads \in Nat
    BY <1>1
  <2>2. QED
    BY <2>1 DEF Typed
<1>3. QED
  BY <1>1, <1>2, CtaInGrid DEF Launched

LEMMA InvInit == Init => Inv /\ InOrderInv
<1> SUFFICES ASSUME Init PROVE Inv /\ InOrderInv
  OBVIOUS
<1>1. c \in Launches /\ NumN(c) \in Nat /\ NumHeads \in Nat
  BY LaunchFacts DEF Init
<1>2. Tables
  BY DEF Init, Tables
<1>3. NumN(c) * NumHeads \in Nat
  BY <1>1
<1>4. Typed
  BY <1>3 DEF Init, Typed, MmaPlaces
<1>5. Busy /\ Acquired /\ HeadsAcquired
  BY DEF Init, Busy, Acquired, HeadsAcquired
<1>6. HeadsAdded
  BY DEF Init, HeadsAdded
<1>7. AddedBefore
  <2>1. \A x \in Tiles \X Heads : addsQ[x] = <<>> /\ Len(addsQ[x]) = 0
    BY DEF Init
  <2>2. QED
    BY <2>1 DEF AddedBefore
<1>8. QED
  BY <1>2, <1>4, <1>5, <1>6, <1>7 DEF Inv, InOrderInv

-----------------------------------------------------------------------------
(* Steps. *)
LEMMA LaunchKept ==
    ASSUME UNCHANGED fixed
    PROVE  /\ Blocks' = Blocks /\ Tiles' = Tiles /\ Heads' = Heads
           /\ KVHeads' = KVHeads /\ Ctas' = Ctas /\ Group' = Group
           /\ NumHeads' = NumHeads
           /\ Tables => Tables'
<1>1. c' = c /\ visited' = visited /\ lock' = lock
  BY DEF fixed
<1>2. /\ Blocks' = Blocks /\ Tiles' = Tiles /\ Heads' = Heads /\ Group' = Group
      /\ NumHeads' = NumHeads
  BY <1>1 DEF Blocks, Tiles, Heads, Group, NumHeads
<1>3. KVHeads' = KVHeads /\ Ctas' = Ctas
  BY <1>2 DEF KVHeads, Ctas
<1>4. \A n : Visited(n)' = Visited(n)
  BY <1>1 DEF Visited
<1>5. \A n, m : LockValue(n, m)' = LockValue(n, m)
  BY <1>1 DEF LockValue, Spt
<1>6. Tables => Tables'
  BY <1>1, <1>2, <1>4, <1>5 DEF Tables
<1>7. QED
  BY <1>2, <1>3, <1>6

LEMMA PartsKept ==
    ASSUME UNCHANGED fixed
    PROVE  /\ UNCHANGED store /\ Busy => Busy'
           /\ UNCHANGED <<store, semQ>> /\ Acquired => Acquired'
           /\ UNCHANGED <<semQ, addsQ>> /\ AddedBefore => AddedBefore'
           /\ UNCHANGED <<mma, semK, semV>> /\ HeadsAcquired => HeadsAcquired'
           /\ UNCHANGED kv /\ HeadsAdded => HeadsAdded'
<1>1. c' = c /\ visited' = visited
  BY DEF fixed
<1>2. \A n, m : LockValue(n, m)' = LockValue(n, m)
  BY <1>1 DEF LockValue, Spt
<1>3. /\ UNCHANGED store /\ Busy => Busy'
      /\ UNCHANGED <<store, semQ>> /\ Acquired => Acquired'
  BY <1>1, <1>2, LaunchKept DEF Busy, Acquired, Stored, Tile
<1>4. UNCHANGED <<semQ, addsQ>> /\ AddedBefore => AddedBefore'
  BY <1>1, <1>2, LaunchKept DEF AddedBefore, Before, Spt
<1>5. UNCHANGED <<mma, semK, semV>> /\ HeadsAcquired => HeadsAcquired'
  BY <1>1, LaunchKept DEF HeadsAcquired, KVTile
<1>6. UNCHANGED kv /\ HeadsAdded => HeadsAdded'
  BY <1>1, LaunchKept DEF HeadsAdded, kv
<1>7. QED
  BY <1>3, <1>4, <1>5, <1>6

(* A warp stays at its tile until it has added.                            *)
LEMMA StoreMoves ==
    ASSUME Inv, NEW t \in Ctas, UNCHANGED <<fixed, semQ>>, ~Stored(t),
           NEW pc \in {"full", "add"}, store' = [store EXCEPT ![t].pc = pc]
    PROVE  /\ Busy' /\ store' \in [Ctas -> [at : Nat \ {0}, pc : {"lock", "full", "add"}]]
           /\ semQ[Tile(t)] = LockValue(t[1], Tile(t)[1]) /\ Acquired => Acquired'
<1>1. c' = c /\ visited' = visited /\ semQ' = semQ /\ Ctas' = Ctas
  BY LaunchKept DEF fixed
<1>2. \A n, m : LockValue(n, m)' = LockValue(n, m)
  BY <1>1 DEF LockValue, Spt
<1>3. ASSUME NEW u \in Ctas
      PROVE  /\ store'[u].at = store[u].at /\ (u # t => store'[u] = store[u])
             /\ store'[u] \in [at : Nat \ {0}, pc : {"lock", "full", "add"}]
  BY DEF Inv, Typed
<1>4. ASSUME NEW u \in Ctas
      PROVE  Stored(u)' = Stored(u) /\ Tile(u)' = Tile(u)
  BY <1>1, <1>3 DEF Stored, Tile
<1>5. Busy'
  BY <1>1, <1>3, <1>4 DEF Inv, Busy
<1>6. semQ[Tile(t)] = LockValue(t[1], Tile(t)[1]) /\ Acquired => Acquired'
  BY <1>1, <1>2, <1>3, <1>4 DEF Acquired
<1>7. store' \in [Ctas -> [at : Nat \ {0}, pc : {"lock", "full", "add"}]]
  BY <1>3 DEF Inv, Typed
<1>8. QED
  BY <1>5, <1>6, <1>7

(* The warp that adds dQ. *)
LEMMA AcquireTileStep ==
    ASSUME Inv, NEW t \in Ctas, AcquireTile(t)
    PROVE  Inv' /\ (InOrderInv => InOrderInv')
<1> USE DEF Inv
<1>1. /\ UNCHANGED <<fixed, launched, mma, buffer, semQ, addsQ, kv>>
      /\ store' = [store EXCEPT ![t].pc = "full"] /\ ~Stored(t)
      /\ semQ[Tile(t)] = lock[<<t[1], Tile(t)[1]>>]
  BY DEF AcquireTile
<1>2. Tables' /\ HeadsAcquired' /\ HeadsAdded' /\ (AddedBefore => AddedBefore')
  BY <1>1, LaunchKept, PartsKept DEF kv
<1>3. semQ[Tile(t)] = LockValue(t[1], Tile(t)[1])
  BY <1>1, CtaTypes, TileTypes DEF Tables
<1>4. Busy' /\ (Acquired => Acquired')
  BY <1>1, <1>3, StoreMoves
<1>5. Typed'
  BY <1>1, StoreMoves, LaunchKept DEF Typed, fixed, kv
<1>6. QED
  BY <1>2, <1>4, <1>5 DEF InOrderInv

LEMMA StartAddStep ==
    ASSUME Inv, NEW t \in Ctas, StartAdd(t)
    PROVE  Inv' /\ (InOrderInv => InOrderInv')
<1> USE DEF Inv
<1>1. /\ UNCHANGED <<fixed, launched, mma, buffer, semQ, addsQ, kv>>
      /\ store' = [store EXCEPT ![t].pc = "add"] /\ ~Stored(t) /\ store[t].pc = "full"
  BY DEF StartAdd, Busy
<1>2. Tables' /\ HeadsAcquired' /\ HeadsAdded' /\ (AddedBefore => AddedBefore')
  BY <1>1, LaunchKept, PartsKept DEF kv
<1>3. Acquired => semQ[Tile(t)] = LockValue(t[1], Tile(t)[1])
  BY <1>1 DEF Acquired
<1>4. Busy' /\ (Acquired => Acquired')
  BY <1>1, <1>3, StoreMoves
<1>5. Typed'
  BY <1>1, StoreMoves, LaunchKept DEF Typed, fixed, kv
<1>6. QED
  BY <1>2, <1>4, <1>5 DEF InOrderInv

(* Two CTAs never have the same tile: they would have waited for the same  *)
(* value.                                                                  *)
LEMMA TileOfOne ==
    ASSUME Inv, Acquired, NoPartialGap(c), NEW t \in Ctas, NEW u \in Ctas,
           store[t].pc # "lock", store[u].pc # "lock", Tile(t) = Tile(u)
    PROVE  t = u
<1>1. /\ ~Stored(t) /\ ~Stored(u)
      /\ LockValue(t[1], Tile(t)[1]) = LockValue(u[1], Tile(t)[1])
  BY DEF Inv, Busy, Acquired
<1>2. /\ Tile(t) \in Tiles \X Heads /\ Tile(t)[2] = t[2] /\ Tile(u)[2] = u[2]
      /\ VisitsTile(c, t[1], Tile(t)[1]) /\ VisitsTile(c, u[1], Tile(t)[1])
  BY <1>1, TileTypes DEF Inv
<1>3. semQ[Tile(t)] = LockValue(t[1], Tile(t)[1]) /\ semQ[Tile(t)] \in Nat
  BY <1>2 DEF Inv, Acquired, Typed
<1>4. t[1] \in Blocks /\ u[1] \in Blocks /\ t = <<t[1], t[2]>> /\ u = <<u[1], u[2]>>
  BY CtaTypes DEF Inv, Tables
<1>5. t[1] = u[1]
  BY <1>1, <1>2, <1>3, <1>4, LocksInOrder DEF Inv, Tables
<1>6. QED
  BY <1>2, <1>4, <1>5

LEMMA FinishAddInv ==
    ASSUME Inv, NEW t \in Ctas, FinishAdd(t)
    PROVE  Inv'
<1> USE DEF Inv
<1>1. /\ UNCHANGED <<fixed, launched, mma, kv>> /\ store[t].pc = "add"
      /\ addsQ' = IF buffer[t] = "skip" THEN addsQ
                  ELSE [addsQ EXCEPT ![Tile(t)] = Append(@, t[1])]
      /\ semQ' = [semQ EXCEPT ![Tile(t)] = @ + 1]
      /\ buffer' = [buffer EXCEPT ![t] = "empty"]
      /\ store' = [store EXCEPT ![t] = [at |-> @.at + 1, pc |-> "lock"]]
  BY DEF FinishAdd
<1>2. Tables' /\ HeadsAcquired' /\ HeadsAdded'
  BY <1>1, LaunchKept, PartsKept DEF kv
<1>3. ~Stored(t) /\ Tile(t) \in Tiles \X Heads /\ t[1] \in Blocks
  BY <1>1, TileTypes, CtaTypes DEF Busy, Tables
<1>4. Typed'
  <2>1. /\ store' \in [Ctas -> [at : Nat \ {0}, pc : {"lock", "full", "add"}]]
        /\ buffer' \in [Ctas -> {"empty", "full", "skip"}]
    BY <1>1 DEF Typed
  <2>2. semQ' \in [Tiles \X Heads -> Nat]
    BY <1>1, <1>3 DEF Typed
  <2>3. addsQ' \in [Tiles \X Heads -> Seq(Blocks)]
    BY <1>1, <1>3 DEF Typed
  <2>4. UNCHANGED <<c, launched, mma, semK, semV, addsK, addsV>>
    BY <1>1 DEF fixed, kv
  <2>5. QED
    BY <1>1, <2>1, <2>2, <2>3, <2>4, LaunchKept DEF Typed
<1>5. Busy'
  <2>1. visited' = visited /\ Ctas' = Ctas
    BY <1>1, LaunchKept DEF fixed
  <2>2. ASSUME NEW u \in Ctas, store'[u].pc # "lock"
        PROVE  store'[u] = store[u] /\ store[u].pc # "lock"
    BY <1>1, <2>2 DEF Typed
  <2>3. QED
    BY <2>1, <2>2 DEF Busy, Stored
<1>6. QED
  BY <1>2, <1>4, <1>5

LEMMA FinishAddAcquired ==
    ASSUME Inv, Acquired, NoPartialGap(c), NEW t \in Ctas, FinishAdd(t)
    PROVE  Acquired'
<1>1. /\ c' = c /\ visited' = visited /\ store[t].pc = "add"
      /\ semQ' = [semQ EXCEPT ![Tile(t)] = @ + 1]
      /\ store' = [store EXCEPT ![t] = [at |-> @.at + 1, pc |-> "lock"]]
      /\ Ctas' = Ctas
  BY LaunchKept DEF FinishAdd, fixed
<1>2. SUFFICES ASSUME NEW u \in Ctas, store'[u].pc # "lock"
               PROVE  semQ'[Tile(u)'] = LockValue(u[1], Tile(u)[1])'
  BY <1>1 DEF Acquired
<1>3. u # t /\ store'[u] = store[u]
  BY <1>1, <1>2 DEF Inv, Typed
<1>4. Tile(u)' = Tile(u)
  BY <1>1, <1>3 DEF Tile
<1>5. ~Stored(u) /\ semQ[Tile(u)] = LockValue(u[1], Tile(u)[1])
  BY <1>2, <1>3 DEF Inv, Busy, Acquired
<1>6. Tile(u) # Tile(t) /\ Tile(u) \in Tiles \X Heads
  BY <1>1, <1>2, <1>3, <1>5, TileOfOne, TileTypes DEF Inv
<1>7. semQ'[Tile(u)] = semQ[Tile(u)]
  BY <1>1, <1>6 DEF Inv, Typed
<1>8. LockValue(u[1], Tile(u)[1])' = LockValue(u[1], Tile(u)[1])
  <2>1. \A n, m : LockValue(n, m)' = LockValue(n, m)
    BY <1>1 DEF LockValue, Spt
  <2>2. QED
    BY <1>4, <2>1
<1>9. QED
  BY <1>4, <1>5, <1>7, <1>8

LEMMA FinishAddOrder ==
    ASSUME Inv, InOrderInv, NoPartialGap(c), NEW t \in Ctas, FinishAdd(t)
    PROVE  AddedBefore'
<1> DEFINE x == Tile(t)
<1>1. /\ c' = c /\ store[t].pc = "add"
      /\ addsQ' = IF buffer[t] = "skip" THEN addsQ
                  ELSE [addsQ EXCEPT ![x] = Append(@, t[1])]
      /\ semQ' = [semQ EXCEPT ![x] = @ + 1]
      /\ Tiles' = Tiles /\ Heads' = Heads
  BY LaunchKept DEF FinishAdd, fixed
<1>2. /\ x \in Tiles \X Heads /\ VisitsTile(c, t[1], x[1])
      /\ semQ[x] = LockValue(t[1], x[1]) /\ semQ[x] \in Nat /\ t[1] \in Blocks
  BY <1>1, TileTypes, CtaTypes DEF Inv, InOrderInv, Busy, Acquired, Typed, Tables
<1>3. /\ \A n, m : LockValue(n, m)' = LockValue(n, m)
      /\ \A n, m : VisitsTile(c, n, m)' = VisitsTile(c, n, m)
      /\ \A n, m : Before(n, m)' = Before(n, m)
  BY <1>1 DEF LockValue, Spt, VisitsTile, Before
<1>4. ASSUME NEW y \in Tiles \X Heads
      PROVE  /\ addsQ[y] \in Seq(Blocks) /\ semQ[y] \in Nat
             /\ \A i \in 1 .. Len(addsQ[y]) :
                  /\ VisitsTile(c, addsQ[y][i], y[1])
                  /\ LockValue(addsQ[y][i], y[1]) < semQ[y]
             /\ \A i \in 2 .. Len(addsQ[y]) : Before(addsQ[y][i - 1], addsQ[y][i])
  BY DEF InOrderInv, AddedBefore, Inv, Typed
<1>5. SUFFICES ASSUME NEW y \in Tiles \X Heads
      PROVE  /\ \A i \in 1 .. Len(addsQ'[y]) :
                  /\ VisitsTile(c, addsQ'[y][i], y[1])
                  /\ LockValue(addsQ'[y][i], y[1]) < semQ'[y]
             /\ \A i \in 2 .. Len(addsQ'[y]) : Before(addsQ'[y][i - 1], addsQ'[y][i])
  BY <1>1, <1>3 DEF AddedBefore
<1>6. CASE y # x
  <2>1. addsQ'[y] = addsQ[y] /\ semQ'[y] = semQ[y]
    BY <1>1, <1>2, <1>6 DEF Inv, Typed
  <2>2. QED
    BY <1>4, <2>1
<1>7. ASSUME y = x, NEW i \in 1 .. Len(addsQ[y])
      PROVE  /\ addsQ[y][i] \in Blocks /\ VisitsTile(c, addsQ[y][i], y[1])
             /\ LockValue(addsQ[y][i], y[1]) \in Int
             /\ LockValue(addsQ[y][i], y[1]) < semQ[y]
             /\ LockValue(addsQ[y][i], y[1]) < semQ[y] + 1
             /\ Before(addsQ[y][i], t[1])
  <2>1. /\ addsQ[y][i] \in Blocks /\ VisitsTile(c, addsQ[y][i], y[1])
        /\ LockValue(addsQ[y][i], y[1]) < semQ[y] /\ semQ[y] \in Nat /\ y[1] \in Tiles
    BY <1>4, <1>7
  <2>2. LockValue(addsQ[y][i], y[1]) \in Int
    BY <2>1, LockTypes DEF Inv, Tables
  <2>3. Before(addsQ[y][i], t[1])
    BY <1>2, <1>7, <2>1, <2>2, LocksInOrder DEF Inv, Tables
  <2>4. QED
    BY <2>1, <2>2, <2>3
<1>8. CASE y = x /\ buffer[t] = "skip"
  <2>1. addsQ'[y] = addsQ[y] /\ semQ'[y] = semQ[y] + 1
    BY <1>1, <1>2, <1>8 DEF Inv, Typed
  <2>2. QED
    BY <1>4, <1>7, <1>8, <2>1
<1>9. CASE y = x /\ buffer[t] # "skip"
  <2> DEFINE s == addsQ[y]
  <2>1. addsQ'[y] = Append(s, t[1]) /\ semQ'[y] = semQ[y] + 1
    BY <1>1, <1>2, <1>9 DEF Inv, Typed
  <2>2. /\ s \in Seq(Blocks) /\ Len(addsQ'[y]) = Len(s) + 1 /\ Len(s) \in Nat
        /\ \A i \in 1 .. Len(s) : addsQ'[y][i] = s[i]
        /\ addsQ'[y][Len(s) + 1] = t[1]
    BY <1>2, <1>4, <2>1
  <2>3. LockValue(t[1], y[1]) < semQ[y] + 1
    BY <1>2, <1>9
  <2>4. ASSUME NEW i \in 1 .. Len(addsQ'[y])
        PROVE  /\ VisitsTile(c, addsQ'[y][i], y[1])
               /\ LockValue(addsQ'[y][i], y[1]) < semQ'[y]
    <3>1. CASE i \in 1 .. Len(s)
      BY <1>7, <1>9, <2>1, <2>2, <3>1
    <3>2. CASE i = Len(s) + 1
      BY <1>2, <1>9, <2>1, <2>2, <2>3, <3>2
    <3>3. QED
      BY <2>2, <3>1, <3>2
  <2>5. ASSUME NEW i \in 2 .. Len(addsQ'[y])
        PROVE  Before(addsQ'[y][i - 1], addsQ'[y][i])
    <3>1. CASE i \in 2 .. Len(s)
      BY <1>4, <2>2, <3>1
    <3>2. CASE i = Len(s) + 1
      BY <1>7, <1>9, <2>2, <3>2
    <3>3. QED
      BY <2>2, <3>1, <3>2
  <2>6. QED
    BY <2>4, <2>5
<1>10. QED
  BY <1>6, <1>8, <1>9

LEMMA FinishAddStep ==
    ASSUME Inv, NEW t \in Ctas, FinishAdd(t)
    PROVE  Inv' /\ (InOrderInv /\ NoPartialGap(c) => InOrderInv')
BY FinishAddInv, FinishAddAcquired, FinishAddOrder DEF InOrderInv

(* The MMA warps. *)
LEMMA HeadsWaiting ==
    ASSUME Inv, UNCHANGED fixed,
           \A u \in Ctas :
               /\ mma'[u].pc = "add K" => semK'[KVTile(u)] = u[2] % Group
               /\ mma'[u].pc = "add V" => semV'[KVTile(u)] = u[2] % Group
    PROVE  HeadsAcquired'
<1>1. Ctas' = Ctas /\ Group' = Group
  BY LaunchKept
<1>2. \A u : KVTile(u)' = KVTile(u) /\ (u[2] % Group)' = u[2] % Group
  BY <1>1 DEF KVTile
<1>3. QED
  BY <1>1, <1>2 DEF HeadsAcquired

LEMMA ComputeTileStep ==
    ASSUME Inv, NEW t \in Ctas, ComputeTile(t)
    PROVE  Inv' /\ (InOrderInv => InOrderInv')
<1> USE DEF Inv
<1>1. /\ UNCHANGED <<fixed, launched, store, semQ, addsQ, kv>>
      /\ mma[t].pc = "dQ"
      /\ \E b \in {"full", "skip"} : buffer' = [buffer EXCEPT ![t] = b]
      /\ mma' = [mma EXCEPT ![t].at = @ + 1]
  BY DEF ComputeTile
<1>2. Tables' /\ Busy' /\ HeadsAdded' /\ (InOrderInv => InOrderInv')
  BY <1>1, LaunchKept, PartsKept DEF InOrderInv
<1>3. mma' \in [Ctas -> [at : Nat \ {0}, pc : MmaPlaces]]
      /\ \A u \in Ctas : mma'[u].pc = mma[u].pc
  <2>1. mma \in [Ctas -> [at : Nat \ {0}, pc : MmaPlaces]]
    BY DEF Typed
  <2>2. mma[t].at + 1 \in Nat \ {0}
    BY <2>1
  <2>3. QED
    BY <1>1, <2>1, <2>2
<1>4. Typed'
  BY <1>1, <1>3, LaunchKept DEF Typed, fixed, kv
<1>5. HeadsAcquired'
  <2>1. semK' = semK /\ semV' = semV
    BY <1>1 DEF kv
  <2>2. QED
    BY <1>1, <1>3, <2>1, HeadsWaiting DEF HeadsAcquired
<1>6. QED
  BY <1>2, <1>4, <1>5

LEMMA GotoStep ==
    ASSUME Inv, NEW t \in Ctas, NEW pc \in MmaPlaces, Goto(t, pc)
    PROVE  /\ Tables' /\ Busy' /\ (InOrderInv => InOrderInv')
           /\ launched' = launched /\ store' = store /\ buffer' = buffer
           /\ semQ' = semQ /\ addsQ' = addsQ
           /\ mma' \in [Ctas -> [at : Nat \ {0}, pc : MmaPlaces]]
           /\ mma'[t].pc = pc /\ \A u \in Ctas : u # t => mma'[u] = mma[u]
           /\ \A u : KVTile(u)' = KVTile(u)
<1>1. /\ UNCHANGED <<fixed, launched, store, buffer, semQ, addsQ>>
      /\ mma' = [mma EXCEPT ![t].pc = pc]
  BY DEF Goto
<1>2. Tables' /\ Busy' /\ (InOrderInv => InOrderInv')
  BY <1>1, LaunchKept, PartsKept DEF Inv, InOrderInv
<1>3. /\ mma' \in [Ctas -> [at : Nat \ {0}, pc : MmaPlaces]]
      /\ mma'[t].pc = pc /\ \A u \in Ctas : u # t => mma'[u] = mma[u]
  BY <1>1 DEF Inv, Typed
<1>4. \A u : KVTile(u)' = KVTile(u)
  BY <1>1, LaunchKept DEF KVTile
<1>5. QED
  BY <1>1, <1>2, <1>3, <1>4

LEMMA WaitStep ==
    ASSUME Inv, NEW t \in Ctas, NEW pc \in MmaPlaces, Goto(t, pc), UNCHANGED kv,
           pc = "add K" => semK[KVTile(t)] = t[2] % Group,
           pc = "add V" => semV[KVTile(t)] = t[2] % Group
    PROVE  Inv' /\ (InOrderInv => InOrderInv')
<1>1. UNCHANGED fixed
  BY DEF Goto
<1>2. HeadsAdded'
  BY <1>1, PartsKept DEF Inv
<1>3. HeadsAcquired'
  <2>1. /\ semK' = semK /\ semV' = semV /\ mma'[t].pc = pc
        /\ \A u \in Ctas : u # t => mma'[u] = mma[u]
    BY GotoStep DEF kv
  <2>2. QED
    BY <1>1, <2>1, HeadsWaiting DEF Inv, HeadsAcquired
<1>4. Typed'
  BY <1>1, GotoStep, LaunchKept DEF Inv, Typed, kv, fixed
<1>5. QED
  BY <1>2, <1>3, <1>4, GotoStep DEF Inv

(* Only one query head can have the semaphore of a key head. *)
LEMMA HeadOfOne ==
    ASSUME Inv, NEW t \in Ctas, NEW u \in Ctas, KVTile(t) = KVTile(u),
           t[2] % Group = u[2] % Group
    PROVE  t = u
<1>1. /\ t = <<t[1], t[2]>> /\ u = <<u[1], u[2]>>
      /\ t[2] = KVTile(t)[2] * Group + (t[2] % Group)
      /\ u[2] = KVTile(u)[2] * Group + (u[2] % Group)
  BY CtaTypes DEF Inv, Tables
<1>2. t[1] = u[1]
  BY DEF KVTile
<1>3. QED
  BY <1>1, <1>2

LEMMA HeadAppended ==
    ASSUME NEW base \in Nat, NEW n \in Nat, NEW s, s = [i \in 1 .. n |-> base + i - 1],
           NEW h, h = base + n
    PROVE  Append(s, h) = [i \in 1 .. n + 1 |-> base + i - 1]
<1>1. s \in Seq(Nat) /\ Len(s) = n
  OBVIOUS
<1>2. QED
  BY <1>1

(* The query heads that have added to a key head are its first ones.       *)
Counted(sem, adds) ==
    /\ sem \in [Blocks \X KVHeads -> Nat] /\ adds \in [Blocks \X KVHeads -> Seq(Nat)]
    /\ \A y \in Blocks \X KVHeads :
          adds[y] = [i \in 1 .. sem[y] |-> y[2] * Group + i - 1]

LEMMA OneMoreHead ==
    ASSUME c \in Launches, NEW t \in Ctas, NEW sem, NEW adds, Counted(sem, adds),
           sem[KVTile(t)] = t[2] % Group
    PROVE  Counted([sem EXCEPT ![KVTile(t)] = @ + 1],
                   [adds EXCEPT ![KVTile(t)] = Append(@, t[2])])
<1> DEFINE x == KVTile(t)
           base == x[2] * Group
           sem2 == [sem EXCEPT ![x] = @ + 1]
           adds2 == [adds EXCEPT ![x] = Append(@, t[2])]
<1>0. /\ sem \in [Blocks \X KVHeads -> Nat] /\ adds \in [Blocks \X KVHeads -> Seq(Nat)]
      /\ \A y \in Blocks \X KVHeads :
            adds[y] = [i \in 1 .. sem[y] |-> y[2] * Group + i - 1]
  BY DEF Counted
<1>1. x \in Blocks \X KVHeads /\ t[2] \in Nat /\ t[2] = base + sem[x]
  BY CtaTypes
<1>2. base \in Nat
  <2>1. x[2] \in Nat /\ Group \in Nat
    BY <1>1, LaunchFacts DEF KVHeads
  <2> HIDE DEF x
  <2>2. QED
    BY <2>1
<1>3. sem[x] \in Nat /\ adds[x] \in Seq(Nat) /\ adds[x] = [i \in 1 .. sem[x] |-> base + i - 1]
  BY <1>0, <1>1
<1> HIDE DEF x, base
<1>4. Append(adds[x], t[2]) = [i \in 1 .. sem[x] + 1 |-> base + i - 1]
  BY <1>1, <1>2, <1>3, HeadAppended
<1>5. Append(adds[x], t[2]) \in Seq(Nat) /\ sem[x] + 1 \in Nat
  BY <1>1, <1>3
<1>6. sem2 \in [Blocks \X KVHeads -> Nat]
  BY <1>0, <1>1, <1>5
<1>7. adds2 \in [Blocks \X KVHeads -> Seq(Nat)]
  <2> DEFINE S == Seq(Nat)
             new == Append(adds[x], t[2])
  <2>1. adds \in [Blocks \X KVHeads -> S] /\ new \in S /\ adds2 = [adds EXCEPT ![x] = new]
    BY <1>0, <1>5
  <2> HIDE DEF S, new, adds2
  <2>2. adds2 \in [Blocks \X KVHeads -> S]
    BY <1>1, <2>1
  <2>3. QED
    BY <2>2 DEF S
<1>8. ASSUME NEW y \in Blocks \X KVHeads
      PROVE  adds2[y] = [i \in 1 .. sem2[y] |-> y[2] * Group + i - 1]
  <2>1. CASE y = x
    <3>1. adds2[y] = Append(adds[x], t[2]) /\ sem2[y] = sem[x] + 1
      BY <1>0, <1>1, <2>1
    <3>2. base = y[2] * Group
      BY <2>1 DEF base
    <3> HIDE DEF sem2, adds2
    <3>3. QED
      BY <1>4, <2>1, <3>1, <3>2
  <2>2. CASE y # x
    <3>1. adds2[y] = adds[y] /\ sem2[y] = sem[y]
      BY <1>0, <2>2
    <3> HIDE DEF sem2, adds2
    <3>2. QED
      BY <1>0, <3>1
  <2>3. QED
    BY <2>1, <2>2
<1>9. QED
  BY <1>6, <1>7, <1>8 DEF Counted, x

LEMMA FinishKStep ==
    ASSUME Inv, NEW t \in Ctas, FinishK(t)
    PROVE  Inv' /\ (InOrderInv => InOrderInv')
<1> DEFINE x == KVTile(t)
<1>1. /\ mma[t].pc = "add K" /\ Goto(t, "lock V") /\ UNCHANGED fixed
      /\ addsK' = [addsK EXCEPT ![x] = Append(@, t[2])]
      /\ semK' = [semK EXCEPT ![x] = @ + 1]
      /\ semV' = semV /\ addsV' = addsV
  BY DEF FinishK, Goto
<1>2. "lock V" \in MmaPlaces
  BY DEF MmaPlaces
<1>3. Counted(semK', addsK')
  <2>1. c \in Launches /\ semK[x] = t[2] % Group /\ Counted(semK, addsK)
    BY <1>1 DEF Inv, Tables, Typed, HeadsAcquired, HeadsAdded, Counted
  <2>2. QED
    BY <1>1, <2>1, OneMoreHead
<1>9. /\ semK' \in [Blocks \X KVHeads -> Nat] /\ addsK' \in [Blocks \X KVHeads -> Seq(Nat)]
       /\ \A y \in Blocks \X KVHeads :
             /\ addsK'[y] = [i \in 1 .. semK'[y] |-> y[2] * Group + i - 1]
             /\ y # x => semK'[y] = semK[y]
  <2>1. \A y \in Blocks \X KVHeads : y # x => semK'[y] = semK[y]
    BY <1>1 DEF Inv, Typed
  <2>2. QED
    BY <1>3, <2>1 DEF Counted
<1>4. HeadsAcquired'
  <2>1. SUFFICES ASSUME NEW u \in Ctas
                 PROVE  /\ mma'[u].pc = "add K" => semK'[KVTile(u)] = u[2] % Group
                        /\ mma'[u].pc = "add V" => semV'[KVTile(u)] = u[2] % Group
    BY <1>1, HeadsWaiting
  <2>2. CASE u = t
    BY <1>1, <1>2, <2>2, GotoStep
  <2>3. CASE u # t
    <3>1. mma'[u] = mma[u]
      BY <1>1, <1>2, <2>3, GotoStep
    <3>2. mma[u].pc = "add K" => KVTile(u) # x
      BY <1>1, <2>3, HeadOfOne DEF Inv, HeadsAcquired
    <3>3. KVTile(u) \in Blocks \X KVHeads
      BY CtaTypes DEF Inv, Tables
    <3>4. QED
      BY <1>1, <1>9, <3>1, <3>2, <3>3 DEF Inv, HeadsAcquired
  <2>4. QED
    BY <2>2, <2>3
<1>5. Blocks' = Blocks /\ KVHeads' = KVHeads /\ Group' = Group
  BY <1>1, LaunchKept
<1>6. HeadsAdded'
  <2>1. SUFFICES ASSUME NEW y \in Blocks \X KVHeads
                 PROVE  /\ addsK'[y] = [i \in 1 .. semK'[y] |-> y[2] * Group + i - 1]
                        /\ addsV'[y] = [i \in 1 .. semV'[y] |-> y[2] * Group + i - 1]
    BY <1>5 DEF HeadsAdded
  <2>2. addsV'[y] = [i \in 1 .. semV'[y] |-> y[2] * Group + i - 1]
    BY <1>1 DEF Inv, HeadsAdded
  <2>3. QED
    BY <1>9, <2>2
<1>7. Typed'
  <2>1. /\ Ctas' = Ctas /\ Tiles' = Tiles /\ Heads' = Heads /\ c' = c
        /\ NumHeads' = NumHeads
    BY <1>1, LaunchKept DEF fixed
  <2>2. QED
    BY <1>1, <1>2, <1>9, <1>5, <2>1, GotoStep DEF Inv, Typed
<1>8. QED
  BY <1>1, <1>2, <1>4, <1>6, <1>7, GotoStep DEF Inv

LEMMA FinishVStep ==
    ASSUME Inv, NEW t \in Ctas, FinishV(t)
    PROVE  Inv' /\ (InOrderInv => InOrderInv')
<1> DEFINE x == KVTile(t)
<1>1. /\ mma[t].pc = "add V" /\ Goto(t, "done") /\ UNCHANGED fixed
      /\ addsV' = [addsV EXCEPT ![x] = Append(@, t[2])]
      /\ semV' = [semV EXCEPT ![x] = @ + 1]
      /\ semK' = semK /\ addsK' = addsK
  BY DEF FinishV, Goto
<1>2. "done" \in MmaPlaces
  BY DEF MmaPlaces
<1>3. Counted(semV', addsV')
  <2>1. c \in Launches /\ semV[x] = t[2] % Group /\ Counted(semV, addsV)
    BY <1>1 DEF Inv, Tables, Typed, HeadsAcquired, HeadsAdded, Counted
  <2>2. QED
    BY <1>1, <2>1, OneMoreHead
<1>9. /\ semV' \in [Blocks \X KVHeads -> Nat] /\ addsV' \in [Blocks \X KVHeads -> Seq(Nat)]
       /\ \A y \in Blocks \X KVHeads :
             /\ addsV'[y] = [i \in 1 .. semV'[y] |-> y[2] * Group + i - 1]
             /\ y # x => semV'[y] = semV[y]
  <2>1. \A y \in Blocks \X KVHeads : y # x => semV'[y] = semV[y]
    BY <1>1 DEF Inv, Typed
  <2>2. QED
    BY <1>3, <2>1 DEF Counted
<1>4. HeadsAcquired'
  <2>1. SUFFICES ASSUME NEW u \in Ctas
                 PROVE  /\ mma'[u].pc = "add K" => semK'[KVTile(u)] = u[2] % Group
                        /\ mma'[u].pc = "add V" => semV'[KVTile(u)] = u[2] % Group
    BY <1>1, HeadsWaiting
  <2>2. CASE u = t
    BY <1>1, <1>2, <2>2, GotoStep
  <2>3. CASE u # t
    <3>1. mma'[u] = mma[u]
      BY <1>1, <1>2, <2>3, GotoStep
    <3>2. mma[u].pc = "add V" => KVTile(u) # x
      BY <1>1, <2>3, HeadOfOne DEF Inv, HeadsAcquired
    <3>3. KVTile(u) \in Blocks \X KVHeads
      BY CtaTypes DEF Inv, Tables
    <3>4. QED
      BY <1>1, <1>9, <3>1, <3>2, <3>3 DEF Inv, HeadsAcquired
  <2>4. QED
    BY <2>2, <2>3
<1>5. Blocks' = Blocks /\ KVHeads' = KVHeads /\ Group' = Group
  BY <1>1, LaunchKept
<1>6. HeadsAdded'
  <2>1. SUFFICES ASSUME NEW y \in Blocks \X KVHeads
                 PROVE  /\ addsK'[y] = [i \in 1 .. semK'[y] |-> y[2] * Group + i - 1]
                        /\ addsV'[y] = [i \in 1 .. semV'[y] |-> y[2] * Group + i - 1]
    BY <1>5 DEF HeadsAdded
  <2>2. addsK'[y] = [i \in 1 .. semK'[y] |-> y[2] * Group + i - 1]
    BY <1>1 DEF Inv, HeadsAdded
  <2>3. QED
    BY <1>9, <2>2
<1>7. Typed'
  <2>1. /\ Ctas' = Ctas /\ Tiles' = Tiles /\ Heads' = Heads /\ c' = c
        /\ NumHeads' = NumHeads
    BY <1>1, LaunchKept DEF fixed
  <2>2. QED
    BY <1>1, <1>2, <1>9, <1>5, <2>1, GotoStep DEF Inv, Typed
<1>8. QED
  BY <1>1, <1>2, <1>4, <1>6, <1>7, GotoStep DEF Inv

-----------------------------------------------------------------------------
(* The invariant is kept by every step; the order of the additions to dQ   *)
(* by every step of a launch without a partial gap.                        *)
LEMMA StoreStepInv ==
    ASSUME Inv, NEW t \in Ctas, StoreStep(t)
    PROVE  Inv' /\ (InOrderInv /\ NoPartialGap(c) => InOrderInv')
BY AcquireTileStep, StartAddStep, FinishAddStep DEF StoreStep

LEMMA MmaStepInv ==
    ASSUME Inv, NEW t \in Ctas, MmaStep(t)
    PROVE  Inv' /\ (InOrderInv => InOrderInv')
<1>1. CASE Epilogue(t)
  BY <1>1, WaitStep DEF Epilogue, MmaPlaces
<1>2. CASE AcquireK(t)
  BY <1>2, WaitStep DEF AcquireK, MmaPlaces
<1>3. CASE AcquireV(t)
  BY <1>3, WaitStep DEF AcquireV, MmaPlaces
<1>4. QED
  BY <1>1, <1>2, <1>3, ComputeTileStep, FinishKStep, FinishVStep DEF MmaStep

LEMMA LaunchStep ==
    ASSUME Inv, Launch
    PROVE  Inv' /\ (InOrderInv => InOrderInv')
<1>1. /\ UNCHANGED <<fixed, store, mma, buffer, semQ, addsQ, kv>>
      /\ launched < NumN(c) * NumHeads /\ launched' = launched + 1
  BY DEF Launch
<1>2. /\ Tables' /\ Busy' /\ HeadsAcquired' /\ HeadsAdded'
      /\ InOrderInv => InOrderInv'
  BY <1>1, LaunchKept, PartsKept DEF Inv, InOrderInv, kv
<1>3. Typed'
  <2>1. NumN(c) * NumHeads \in Nat
    BY LaunchFacts DEF Inv, Tables
  <2>2. launched' \in 0 .. NumN(c) * NumHeads
    BY <1>1, <2>1 DEF Inv, Typed
  <2>3. QED
    BY <1>1, <2>2, LaunchKept DEF Inv, Typed, fixed, kv
<1>4. QED
  BY <1>2, <1>3 DEF Inv

LEMMA InvNext ==
    ASSUME Inv, [Next]_vars
    PROVE  Inv' /\ (InOrderInv /\ NoPartialGap(c) => InOrderInv')
<1>1. CASE Launch
  BY <1>1, LaunchStep
<1>2. ASSUME NEW t \in Launched, StoreStep(t) \/ MmaStep(t)
      PROVE  Inv' /\ (InOrderInv /\ NoPartialGap(c) => InOrderInv')
  <2>1. t \in Ctas
    BY LaunchedInGrid DEF Inv
  <2>2. QED
    BY <1>2, <2>1, StoreStepInv, MmaStepInv
<1>3. CASE UNCHANGED vars
  <2>1. UNCHANGED <<fixed, launched, store, mma, buffer, semQ, addsQ, kv>>
    BY <1>3 DEF vars
  <2>2. /\ Tables' /\ Busy' /\ HeadsAcquired' /\ HeadsAdded'
        /\ InOrderInv => InOrderInv'
    BY <2>1, LaunchKept, PartsKept DEF Inv, InOrderInv, kv
  <2>3. Typed'
    BY <2>1, LaunchKept DEF Inv, Typed, fixed, kv
  <2>4. QED
    BY <2>2, <2>3 DEF Inv
<1>4. QED
  BY <1>1, <1>2, <1>3 DEF Next

(* For every launch and however the CTAs interleave: the tables stay those *)
(* of the launch, a semaphore that a CTA has acquired keeps the value it   *)
(* was acquired with until the CTA itself releases it, and the semaphore   *)
(* of a key head counts its additions.                                     *)
THEOREM SemaphoresHeld == Spec => []Inv
<1>1. Init => Inv
  BY InvInit
<1>2. Inv /\ [Next]_vars => Inv'
  BY InvNext
<1>3. QED
  BY <1>1, <1>2, PTL DEF Spec

LEMMA AtMostOne ==
    ASSUME NEW S, \A a, b \in S : a = b
    PROVE  Cardinality(S) <= 1
<1>1. CASE S = {}
  BY <1>1, FS_EmptySet
<1>2. ASSUME NEW a \in S PROVE Cardinality(S) <= 1
  <2>1. S = {a}
    OBVIOUS
  <2>2. QED
    BY <2>1, FS_Singleton
<1>3. QED
  BY <1>1, <1>2

LEMMA AppendedInOrder ==
    ASSUME NEW base \in Nat, NEW n \in Nat, NEW s, s = [i \in 1 .. n |-> base + i - 1],
           NEW h, h = base + n
    PROVE  \A i \in 2 .. Len(Append(s, h)) : Append(s, h)[i - 1] < Append(s, h)[i]
<1>1. Append(s, h) = [i \in 1 .. n + 1 |-> base + i - 1]
  BY HeadAppended
<1>2. Len(Append(s, h)) = n + 1
  <2>1. s \in Seq(Nat) /\ Len(s) = n
    OBVIOUS
  <2>2. QED
    BY <2>1
<1>3. QED
  BY <1>1, <1>2

LEMMA InvHeadsInOrder ==
    ASSUME Inv
    PROVE  HeadsInOrder
<1> SUFFICES ASSUME NEW x \in Blocks \X KVHeads
             PROVE  LET before(h1, h2) == h1 < h2
                        busy(pc) == {t \in Ctas : KVTile(t) = x /\ mma[t].pc = pc}
                    IN  /\ Cardinality(busy("add K")) <= 1
                        /\ Cardinality(busy("add V")) <= 1
                        /\ \A t \in busy("add K") : InOrder(Append(addsK[x], t[2]), before)
                        /\ \A t \in busy("add V") : InOrder(Append(addsV[x], t[2]), before)
  BY DEF HeadsInOrder
<1> DEFINE busy(pc) == {t \in Ctas : KVTile(t) = x /\ mma[t].pc = pc}
<1>1. \A pc \in {"add K", "add V"} : \A t, u \in busy(pc) : t = u
  BY HeadOfOne DEF Inv, HeadsAcquired
<1>2. Cardinality(busy("add K")) <= 1 /\ Cardinality(busy("add V")) <= 1
  <2> HIDE DEF busy
  <2>1. QED
    BY <1>1, AtMostOne
<1>3. ASSUME NEW t \in Ctas, KVTile(t) = x
      PROVE  /\ x[2] * Group \in Nat /\ semK[x] \in Nat /\ semV[x] \in Nat
             /\ t[2] = x[2] * Group + (t[2] % Group)
             /\ addsK[x] = [i \in 1 .. semK[x] |-> x[2] * Group + i - 1]
             /\ addsV[x] = [i \in 1 .. semV[x] |-> x[2] * Group + i - 1]
  <2>1. t[2] = x[2] * Group + (t[2] % Group) /\ x[2] \in Nat /\ Group \in Nat
    BY <1>3, CtaTypes, LaunchFacts DEF Inv, Tables, KVHeads
  <2>2. x[2] * Group \in Nat
    BY <2>1
  <2>3. QED
    BY <2>1, <2>2 DEF Inv, Typed, HeadsAdded
<1>4. ASSUME NEW t \in busy("add K")
      PROVE  \A i \in 2 .. Len(Append(addsK[x], t[2])) :
                 Append(addsK[x], t[2])[i - 1] < Append(addsK[x], t[2])[i]
  <2> DEFINE base == x[2] * Group
  <2>1. t \in Ctas /\ KVTile(t) = x /\ semK[x] = t[2] % Group
    BY <1>4 DEF Inv, HeadsAcquired
  <2>2. /\ base \in Nat /\ semK[x] \in Nat /\ t[2] = base + semK[x]
        /\ addsK[x] = [i \in 1 .. semK[x] |-> base + i - 1]
    BY <1>3, <2>1
  <2> HIDE DEF base, busy
  <2>3. QED
    BY <2>2, AppendedInOrder
<1>5. ASSUME NEW t \in busy("add V")
      PROVE  \A i \in 2 .. Len(Append(addsV[x], t[2])) :
                 Append(addsV[x], t[2])[i - 1] < Append(addsV[x], t[2])[i]
  <2> DEFINE base == x[2] * Group
  <2>1. t \in Ctas /\ KVTile(t) = x /\ semV[x] = t[2] % Group
    BY <1>5 DEF Inv, HeadsAcquired
  <2>2. /\ base \in Nat /\ semV[x] \in Nat /\ t[2] = base + semV[x]
        /\ addsV[x] = [i \in 1 .. semV[x] |-> base + i - 1]
    BY <1>3, <2>1
  <2> HIDE DEF base, busy
  <2>3. QED
    BY <2>2, AppendedInOrder
<1>6. QED
  BY <1>2, <1>4, <1>5 DEF InOrder

(* The query heads of a key head add their dK and dV one at a time and in  *)
(* the order of their numbers, for every launch.                           *)
THEOREM HeadsAddInOrder == Spec => []HeadsInOrder
<1>1. Inv => HeadsInOrder
  BY InvHeadsInOrder
<1>2. QED
  BY <1>1, SemaphoresHeld, PTL

LEMMA InvAddsInOrder ==
    ASSUME Inv, InOrderInv, NoPartialGap(c)
    PROVE  AddsInOrder
<1> SUFFICES ASSUME NEW x \in Tiles \X Heads
             PROVE  LET before(n1, n2) == IF Spt THEN n1 > n2 ELSE n1 < n2
                    IN  /\ Cardinality(Adding(x)) <= 1
                        /\ \A t \in Adding(x) : InOrder(Append(addsQ[x], t[1]), before)
  BY DEF AddsInOrder
<1>1. Adding(x) \subseteq Ctas
  BY LaunchedInGrid DEF Inv, Adding
<1>2. \A t, u \in Adding(x) : t = u
  BY <1>1, TileOfOne DEF InOrderInv, Adding
<1>3. Cardinality(Adding(x)) <= 1
  BY <1>2, AtMostOne
<1>4. ASSUME NEW t \in Adding(x), NEW i \in 2 .. Len(Append(addsQ[x], t[1]))
      PROVE  Before(Append(addsQ[x], t[1])[i - 1], Append(addsQ[x], t[1])[i])
  <2> DEFINE s == addsQ[x]
  <2>1. /\ t \in Ctas /\ ~Stored(t) /\ store[t].pc = "add" /\ Tile(t) = x
    BY <1>1 DEF Adding
  <2>2. /\ VisitsTile(c, t[1], x[1]) /\ semQ[x] = LockValue(t[1], x[1])
        /\ t[1] \in Blocks /\ s \in Seq(Blocks) /\ x[1] \in Tiles /\ c \in Launches
    BY <2>1, TileTypes, CtaTypes DEF Inv, InOrderInv, Acquired, Typed, Tables
  <2>3. /\ Len(Append(s, t[1])) = Len(s) + 1 /\ Len(s) \in Nat
        /\ \A j \in 1 .. Len(s) : Append(s, t[1])[j] = s[j] /\ s[j] \in Blocks
        /\ Append(s, t[1])[Len(s) + 1] = t[1]
    BY <2>2
  <2>4. CASE i \in 2 .. Len(s)
    BY <2>3, <2>4 DEF InOrderInv, AddedBefore
  <2>5. CASE i = Len(s) + 1
    <3>1. /\ Len(s) \in 1 .. Len(s) /\ s[Len(s)] \in Blocks
          /\ VisitsTile(c, s[Len(s)], x[1]) /\ LockValue(s[Len(s)], x[1]) < semQ[x]
      BY <2>3, <2>5 DEF InOrderInv, AddedBefore
    <3>2. LockValue(s[Len(s)], x[1]) \in Int /\ LockValue(t[1], x[1]) \in Int
      BY <2>2, <3>1, LockTypes
    <3>3. Before(s[Len(s)], t[1])
      BY <2>2, <3>1, <3>2, LocksInOrder
    <3>4. QED
      BY <2>3, <2>5, <3>1, <3>3
  <2>6. QED
    BY <2>3, <2>4, <2>5
<1>5. QED
  BY <1>3, <1>4 DEF InOrder, Before

(* The additions to a dQ tile come one at a time and in the order of the   *)
(* key blocks, whatever the timing, in launches without a partial gap.     *)
THEOREM TilesAddInOrder ==
    ASSUME \A l \in Launches : NoPartialGap(l)
    PROVE  Spec => []AddsInOrder
<1>1. Init => Inv /\ InOrderInv
  BY InvInit
<1>2. Inv /\ InOrderInv /\ [Next]_vars => (Inv /\ InOrderInv)'
  BY InvNext DEF Inv, Tables
<1>3. Inv /\ InOrderInv => AddsInOrder
  BY InvAddsInOrder DEF Inv, Tables
<1>4. QED
  BY <1>1, <1>2, <1>3, PTL DEF Spec
================================================================================
