---------------------------- MODULE BlockInfoProofs ----------------------------
(***************************************************************************)
(* Facts about the block ranges of BlockInfo and the shares of BlockSplits *)
(* for every problem, number of splits and tile size.                      *)
(***************************************************************************)
EXTENDS BlockSplits, TLAPS

(* Quotients as bounds. *)
LEMMA Division ==
    ASSUME NEW a \in Int, NEW d \in Nat \ {0}
    PROVE  /\ a \div d \in Int
           /\ a = (a \div d) * d + (a % d)
           /\ a % d \in 0 .. d - 1
OBVIOUS

LEMMA Multiples ==
    ASSUME NEW m \in Nat, NEW d \in Nat \ {0}
    PROVE  m * d \in Nat /\ (m + 1) * d = m * d + d
OBVIOUS

LEMMA DivBelow ==
    ASSUME NEW a \in Int, NEW d \in Nat \ {0}, NEW q \in Int
    PROVE  a \div d <= q <=> a < (q + 1) * d
OBVIOUS

LEMMA DivAbove ==
    ASSUME NEW a \in Int, NEW d \in Nat \ {0}, NEW q \in Int
    PROVE  q <= a \div d <=> q * d <= a
OBVIOUS

LEMMA CeilAbove ==
    ASSUME NEW a \in Int, NEW d \in Nat \ {0}, NEW q \in Int
    PROVE  q < (a + d - 1) \div d <=> q * d < a
OBVIOUS

(* Tiles up to a bound that they divide. *)
LEMMA DividedTiles ==
    ASSUME NEW s \in Nat, NEW d \in Nat \ {0}, s % d = 0, NEW m \in Nat, m * d < s
    PROVE  m * d + d <= s
<1>1. s \div d \in Int /\ s = (s \div d) * d
  BY Division
<1>2. m < s \div d
  <2>1. SUFFICES ASSUME s \div d <= m PROVE FALSE
    BY <1>1
  <2>2. (s \div d) * d <= m * d
    BY <1>1, <2>1
  <2>3. QED
    BY <1>1, <2>2
<1>3. (m + 1) * d <= (s \div d) * d
  BY <1>1, <1>2
<1>4. QED
  BY <1>1, <1>3, Multiples

(* Whichever way the compiler rounds negative quotients, a bound that is   *)
(* not negative does not depend on it.                                     *)
LEMMA QuotBound ==
    ASSUME NEW c, c.trunc \in BOOLEAN,
           NEW a \in Int, NEW d \in Nat \ {0}, NEW q \in Nat
    PROVE  /\ Quot(c, a, d) \in Int
           /\ Most(Quot(c, a, d), 0) <= q <=> a < (q + 1) * d
           /\ q + 1 <= Quot(c, a, d) <=> (q + 1) * d <= a
<1>1. CASE c.trunc /\ a < 0
  <2>1. -a \in Int /\ (-a) \div d \in Int /\ (-a) \div d >= 0
    BY <1>1, DivAbove, 0 * d <= -a
  <2>2. (q + 1) * d \in Int /\ (q + 1) * d > 0
    OBVIOUS
  <2>3. Quot(c, a, d) = -((-a) \div d)
    BY <1>1 DEF Quot
  <2>4. Quot(c, a, d) \in Int /\ Quot(c, a, d) <= 0
    BY <2>1, <2>3
  <2>5. QED
    BY <1>1, <2>2, <2>4 DEF Most
<1>2. CASE ~ (c.trunc /\ a < 0)
  <2>1. Quot(c, a, d) = a \div d /\ a \div d \in Int
    BY <1>2, Division DEF Quot
  <2>2. a \div d <= q <=> a < (q + 1) * d
    BY DivBelow
  <2>3. q + 1 <= a \div d <=> (q + 1) * d <= a
    BY DivAbove
  <2>4. QED
    BY <2>1, <2>2, <2>3 DEF Most
<1>3. QED
  BY <1>1, <1>2

LEMMA CeilDivBound ==
    ASSUME NEW c, c.trunc \in BOOLEAN,
           NEW a \in Int, NEW d \in Nat \ {0}, NEW q \in Nat
    PROVE  /\ CeilDiv(c, a, d) \in Int
           /\ q < CeilDiv(c, a, d) <=> q * d < a
<1>1. CASE c.trunc /\ a + d - 1 < 0
  <2>1. -(a + d - 1) \in Int /\ (-(a + d - 1)) \div d >= 0
    BY <1>1, DivAbove, 0 * d <= -(a + d - 1)
  <2>2. q * d >= 0
    OBVIOUS
  <2>3. QED
    BY <1>1, <2>1, <2>2, Division DEF Quot, CeilDiv
<1>2. CASE ~ (c.trunc /\ a + d - 1 < 0)
  <2>1. CeilDiv(c, a, d) = (a + d - 1) \div d /\ (a + d - 1) \div d \in Int
    BY <1>2, Division, a + d - 1 \in Int DEF Quot, CeilDiv
  <2>2. QED
    BY <2>1, CeilAbove
<1>3. QED
  BY <1>1, <1>2

LEMMA CeilNotNegative ==
    ASSUME NEW c, NEW a \in Nat, NEW d \in Nat \ {0}
    PROVE  CeilDiv(c, a, d) \in Nat
BY DEF CeilDiv, Quot

-----------------------------------------------------------------------------
(* The ranges of a query tile in terms of keys.                            *)
LEMMA KeyTypes ==
    ASSUME NEW c, IsProblem(c), NEW m \in Nat
    PROVE  /\ KeyStart(c, m) \in Int /\ KeyEnd(c, m) \in Int
           /\ NumN(c) \in Nat /\ SinkBlocks(c) \in Nat
           /\ \A n \in Nat : n < NumN(c) <=> n * c.tn < c.sk
           /\ \A n \in Nat : n < SinkBlocks(c) <=> n * c.tn < c.sink
<1>1. c.sk \in Nat /\ c.sq \in Nat /\ c.sink \in Nat
      /\ c.tm \in Nat \ {0} /\ c.tn \in Nat \ {0} /\ c.pack \in Nat \ {0}
      /\ c.trunc \in BOOLEAN
  BY DEF IsProblem
<1>2. (m + 1) * c.tm \in Int /\ m * c.tm \in Int
  BY <1>1
<1>3. CeilDiv(c, (m + 1) * c.tm, c.pack) \in Int /\ (m * c.tm) \div c.pack \in Int
  <2> DEFINE first == m * c.tm
             last == (m + 1) * c.tm
  <2>1. first \in Int /\ last \in Int
    BY <1>2
  <2> HIDE DEF first, last
  <2>2. CeilDiv(c, last, c.pack) \in Int
    BY <1>1, <2>1, CeilDivBound, 0 \in Nat
  <2>3. first \div c.pack \in Int
    BY <1>1, <2>1, Division
  <2>4. QED
    BY <2>2, <2>3 DEF first, last
<1>4. KeyStart(c, m) \in Int /\ KeyEnd(c, m) \in Int
  BY <1>1, <1>3 DEF KeyStart, KeyEnd, RowStart, RowEnd, Least
<1>5. NumN(c) \in Int /\ \A n \in Nat : n < NumN(c) <=> n * c.tn < c.sk
  BY <1>1, CeilDivBound, 0 \in Nat DEF NumN
<1>6. SinkBlocks(c) \in Int /\ \A n \in Nat : n < SinkBlocks(c) <=> n * c.tn < c.sink
  BY <1>1, CeilDivBound, 0 \in Nat DEF SinkBlocks
<1>7. NumN(c) >= 0 /\ SinkBlocks(c) >= 0
  BY <1>1, CeilNotNegative DEF NumN, SinkBlocks
<1>8. QED
  BY <1>4, <1>5, <1>6, <1>7

LEMMA FullAndCausalBlocks ==
    ASSUME NEW c, IsProblem(c), ~IsLocal(c), NEW m \in Nat, NEW n \in Nat
    PROVE  LET r == NBlocks(c, m)
           IN  /\ r.min \in Int /\ r.max \in Int
               /\ r.min <= r.max /\ r.max <= NumN(c) /\ r.wmin = 0 /\ r.wmax = 0 /\ r.smax = 0
               /\ r.min <= n /\ n < r.max <=>
                    n < NumN(c) /\ (c.kind = "causal" => n * c.tn < KeyEnd(c, m))
<1>1. c.kind \in {"full", "causal"} /\ c.tn \in Nat \ {0} /\ c.trunc \in BOOLEAN
  BY DEF IsProblem, IsLocal
<1>2. /\ CeilDiv(c, KeyEnd(c, m), c.tn) \in Int
      /\ n < CeilDiv(c, KeyEnd(c, m), c.tn) <=> n * c.tn < KeyEnd(c, m)
  BY <1>1, KeyTypes, CeilDivBound
<1>3. NumN(c) \in Nat
  BY KeyTypes
<1>4. QED
  BY <1>1, <1>2, <1>3 DEF NBlocks, RawN, ClampN, IsLocal, Least

LEMMA AfterSinkBound ==
    ASSUME NEW c, IsProblem(c), NEW key \in Int, NEW n \in Nat
    PROVE  /\ AfterSink(c, key) \in Int /\ AfterSink(c, key) >= SinkBlocks(c)
           /\ AfterSink(c, key) <= n <=> n >= SinkBlocks(c) /\ key < (n + 1) * c.tn
           /\ n < AfterSink(c, key) <=> n < SinkBlocks(c) \/ (n + 1) * c.tn <= key
<1>1. c.tn \in Nat \ {0} /\ c.trunc \in BOOLEAN /\ SinkBlocks(c) \in Nat
  BY KeyTypes, 0 \in Nat DEF IsProblem
<1>2. QED
  BY <1>1, QuotBound DEF AfterSink, Most

LEMMA BlocksUpToBound ==
    ASSUME NEW c, IsProblem(c), NEW key \in Int, NEW n \in Nat
    PROVE  /\ BlocksUpTo(c, key) \in Nat
           /\ n < BlocksUpTo(c, key) <=> n * c.tn < key
<1>1. c.tn \in Nat \ {0} /\ c.trunc \in BOOLEAN
  BY DEF IsProblem
<1>2. QED
  BY <1>1, CeilDivBound DEF BlocksUpTo, Most

LEMMA LocalBlocks ==
    ASSUME NEW c, IsProblem(c), IsLocal(c), NEW m \in Nat, NEW n \in Nat
    PROVE  LET r == NBlocks(c, m)
           IN  /\ {r.min, r.max, r.wmin, r.wmax, r.smax} \subseteq Int
               /\ r.min <= r.max /\ 0 <= r.wmin /\ r.wmin <= r.wmax /\ 0 <= r.smax
               /\ r.wmin < r.wmax => r.wmax <= r.min
               /\ r.min <= n /\ n < r.max <=>
                    /\ n < NumN(c) /\ n >= SinkBlocks(c) /\ n * c.tn < KeyEnd(c, m)
                    /\ KeyStart(c, m) - c.near < (n + 1) * c.tn
               /\ r.wmin <= n /\ n < r.wmax <=>
                    /\ n < NumN(c) /\ n >= SinkBlocks(c)
                    /\ n * c.tn < KeyEnd(c, m) - c.near - c.right
                    /\ (n + 1) * c.tn <= KeyStart(c, m) - c.near
                    /\ KeyStart(c, m) - c.near - c.right - c.left < (n + 1) * c.tn
               /\ n < r.smax <=> n < SinkBlocks(c) /\ n * c.tn < KeyEnd(c, m)
<1> DEFINE start == AfterSink(c, KeyStart(c, m) - c.near)
           wstart == AfterSink(c, KeyStart(c, m) - c.near - c.right - c.left)
           end  == CeilDiv(c, KeyEnd(c, m), c.tn)
           wend == BlocksUpTo(c, KeyEnd(c, m) - c.near - c.right)
           send == BlocksUpTo(c, KeyEnd(c, m))
<1>1. /\ c.kind = "local" /\ c.tn \in Nat \ {0} /\ c.trunc \in BOOLEAN
      /\ c.near \in Nat /\ c.right \in Nat /\ c.left \in Nat
  BY DEF IsProblem, IsLocal
<1>2. /\ KeyStart(c, m) \in Int /\ KeyEnd(c, m) \in Int
      /\ NumN(c) \in Nat /\ SinkBlocks(c) \in Nat
  BY KeyTypes
<1>3. /\ start \in Int
      /\ start <= n <=> n >= SinkBlocks(c) /\ KeyStart(c, m) - c.near < (n + 1) * c.tn
  BY <1>1, <1>2, AfterSinkBound, KeyStart(c, m) - c.near \in Int
<1>4. /\ wstart \in Int /\ wstart >= SinkBlocks(c)
      /\ wstart <= n <=>
           /\ n >= SinkBlocks(c)
           /\ KeyStart(c, m) - c.near - c.right - c.left < (n + 1) * c.tn
  BY <1>1, <1>2, AfterSinkBound, KeyStart(c, m) - c.near - c.right - c.left \in Int
<1>5. end \in Int /\ (n < end <=> n * c.tn < KeyEnd(c, m))
  BY <1>1, <1>2, CeilDivBound
<1>6. wend \in Nat /\ (n < wend <=> n * c.tn < KeyEnd(c, m) - c.near - c.right)
  BY <1>1, <1>2, BlocksUpToBound, KeyEnd(c, m) - c.near - c.right \in Int
<1>7. send \in Nat /\ (n < send <=> n * c.tn < KeyEnd(c, m))
  BY <1>1, <1>2, BlocksUpToBound
<1>8. NBlocks(c, m) =
        [min |-> Least(start, Least(NumN(c), end)), max |-> Least(NumN(c), end),
         wmin |-> wstart,
         wmax |-> Most(Least(Least(NumN(c), wend),
                             Least(start, Least(NumN(c), end))), wstart),
         smax |-> Most(Least(SinkBlocks(c), send), 0)]
  BY <1>1 DEF NBlocks, RawN, ClampN, IsLocal
<1>9. (n + 1) * c.tn \in Int /\ n * c.tn \in Int /\ (n + 1) * c.tn = n * c.tn + c.tn
  BY <1>1
<1> HIDE DEF start, wstart, end, wend, send
<1>10. QED
  BY <1>1, <1>2, <1>3, <1>4, <1>5, <1>6, <1>7, <1>8, <1>9 DEF Least, Most

-----------------------------------------------------------------------------
(* The ranges of a key block in terms of queries.                          *)
LEMMA QueryTypes ==
    ASSUME NEW c, IsProblem(c), NEW n \in Nat
    PROVE  /\ QueryStart(c, n) \in Int /\ QueryEnd(c, n) \in Int
           /\ QueryEnd(c, n) = QueryStart(c, n) + c.tn
           /\ NumM(c) \in Nat
           /\ \A m \in Nat : m < NumM(c) <=> m * c.tm < c.sq
<1>1. c.sk \in Nat /\ c.sq \in Nat /\ c.tm \in Nat \ {0} /\ c.tn \in Nat \ {0}
      /\ c.trunc \in BOOLEAN
  BY DEF IsProblem
<1>2. /\ QueryStart(c, n) \in Int /\ QueryEnd(c, n) \in Int
      /\ QueryEnd(c, n) = QueryStart(c, n) + c.tn
  BY <1>1 DEF QueryStart, QueryEnd
<1>3. NumM(c) \in Nat
  BY <1>1, CeilNotNegative DEF NumM
<1>4. \A m \in Nat : m < NumM(c) <=> m * c.tm < c.sq
  BY <1>1, CeilDivBound DEF NumM
<1>5. QED
  BY <1>2, <1>3, <1>4

TileFrom(c, query) == Most(Quot(c, query, c.tm), 0)
TileUpTo(c, query) == Least(NumM(c), CeilDiv(c, query, c.tm))

LEMMA TileBounds ==
    ASSUME NEW c, IsProblem(c), NEW query \in Int, NEW m \in Nat
    PROVE  /\ TileFrom(c, query) \in Nat
           /\ TileFrom(c, query) <= m <=> query < (m + 1) * c.tm
           /\ TileUpTo(c, query) \in Int
           /\ m < TileUpTo(c, query) <=> m < NumM(c) /\ m * c.tm < query
<1>1. c.tm \in Nat \ {0} /\ c.trunc \in BOOLEAN
  BY DEF IsProblem
<1>2. NumM(c) \in Nat
  BY QueryTypes, 0 \in Nat
<1>3. QED
  BY <1>1, <1>2, QuotBound, CeilDivBound DEF TileFrom, TileUpTo, Most, Least

LEMMA FullAndCausalTiles ==
    ASSUME NEW c, IsProblem(c), ~IsLocal(c), NEW n \in Nat, NEW m \in Nat
    PROVE  LET r == MBlocks(c, n)
           IN  /\ r.min \in Nat /\ r.max = NumM(c) /\ r.min <= r.max
               /\ r.wmin = 0 /\ r.wmax = 0 /\ r.smin = 0 /\ r.smax = 0
               /\ r.min <= m /\ m < r.max <=>
                    m < NumM(c) /\ (c.kind = "causal" => QueryStart(c, n) < (m + 1) * c.tm)
<1>1. c.kind \in {"full", "causal"}
  BY DEF IsProblem, IsLocal
<1>2. QueryStart(c, n) \in Int /\ NumM(c) \in Nat
  BY QueryTypes
<1>3. /\ TileFrom(c, QueryStart(c, n)) \in Nat
      /\ TileFrom(c, QueryStart(c, n)) <= m <=> QueryStart(c, n) < (m + 1) * c.tm
  BY <1>2, TileBounds
<1>4. QED
  BY <1>1, <1>2, <1>3 DEF MBlocks, RawM, ClampM, IsLocal, Least, TileFrom

LEMMA ClampLocalTiles ==
    ASSUME NEW c, IsLocal(c),
           NEW min, NEW max, NEW wmin, NEW wmax, NEW smin, NEW smax
    PROVE  ClampM(c, [min |-> min, max |-> max, wmin |-> wmin, wmax |-> wmax,
                      smin |-> smin, smax |-> smax])
             = [min |-> Least(min, max), max |-> max,
                wmin |-> Least(Most(wmin, max), wmax), wmax |-> wmax,
                smin |-> Least(smin, smax), smax |-> smax]
BY DEF ClampM

LEMMA SinkTileRanges ==
    ASSUME NEW c, IsProblem(c), IsLocal(c), NEW n \in Nat, n < SinkBlocks(c)
    PROVE  MBlocks(c, n) =
             [min |-> 0, max |-> 0, wmin |-> 0, wmax |-> 0,
              smin |-> Least(TileFrom(c, QueryStart(c, n)), NumM(c)), smax |-> NumM(c)]
<1>1. ~(n >= SinkBlocks(c)) /\ c.kind = "local"
  BY KeyTypes DEF IsLocal
<1>2. RawM(c, n) = [min |-> 0, max |-> 0, wmin |-> 0, wmax |-> 0,
                    smin |-> TileFrom(c, QueryStart(c, n)), smax |-> NumM(c)]
  BY <1>1, Zenon DEF RawM, IsLocal, TileFrom
<1>3. Least(0, 0) = 0 /\ Most(0, 0) = 0
  BY DEF Least, Most
<1>4. QED
  BY <1>2, <1>3, ClampLocalTiles DEF MBlocks

LEMMA WindowTileRanges ==
    ASSUME NEW c, IsProblem(c), IsLocal(c), NEW n \in Nat, n >= SinkBlocks(c)
    PROVE  LET max  == TileUpTo(c, QueryEnd(c, n) + c.near)
               wmax == TileUpTo(c, QueryEnd(c, n) + c.near + c.right + c.left)
           IN  MBlocks(c, n) =
                 [min |-> Least(TileFrom(c, QueryStart(c, n)), max), max |-> max,
                  wmin |-> Least(Most(TileFrom(c, QueryStart(c, n) + c.near + c.right),
                                      max), wmax),
                  wmax |-> wmax, smin |-> 0, smax |-> 0]
<1>1. ~(n < SinkBlocks(c)) /\ c.kind = "local"
  BY KeyTypes DEF IsLocal
<1>2. RawM(c, n) =
        [min |-> TileFrom(c, QueryStart(c, n)),
         max |-> TileUpTo(c, QueryEnd(c, n) + c.near),
         wmin |-> TileFrom(c, QueryStart(c, n) + c.near + c.right),
         wmax |-> TileUpTo(c, QueryEnd(c, n) + c.near + c.right + c.left),
         smin |-> 0, smax |-> 0]
  BY <1>1, Zenon DEF RawM, IsLocal, TileFrom, TileUpTo
<1>3. Least(0, 0) = 0
  BY DEF Least
<1>4. QED
  BY <1>2, <1>3, ClampLocalTiles DEF MBlocks

LEMMA LocalTiles ==
    ASSUME NEW c, IsProblem(c), IsLocal(c), NEW n \in Nat, NEW m \in Nat
    PROVE  LET r == MBlocks(c, n)
           IN  /\ {r.min, r.max, r.wmin, r.wmax, r.smin, r.smax} \subseteq Int
               /\ r.min <= r.max /\ r.wmin <= r.wmax /\ r.smin <= r.smax
               /\ r.min <= m /\ m < r.max <=>
                    /\ m < NumM(c) /\ n >= SinkBlocks(c)
                    /\ QueryStart(c, n) < (m + 1) * c.tm
                    /\ m * c.tm < QueryEnd(c, n) + c.near
               /\ r.wmin <= m /\ m < r.wmax <=>
                    /\ m < NumM(c) /\ n >= SinkBlocks(c)
                    /\ QueryStart(c, n) + c.near + c.right < (m + 1) * c.tm
                    /\ m * c.tm >= QueryEnd(c, n) + c.near
                    /\ m * c.tm < QueryEnd(c, n) + c.near + c.right + c.left
               /\ r.smin <= m /\ m < r.smax <=>
                    /\ m < NumM(c) /\ n < SinkBlocks(c)
                    /\ QueryStart(c, n) < (m + 1) * c.tm
<1> DEFINE start  == TileFrom(c, QueryStart(c, n))
           wstart == TileFrom(c, QueryStart(c, n) + c.near + c.right)
           max  == TileUpTo(c, QueryEnd(c, n) + c.near)
           wmax == TileUpTo(c, QueryEnd(c, n) + c.near + c.right + c.left)
<1>1. c.near \in Nat /\ c.right \in Nat /\ c.left \in Nat
  BY DEF IsProblem
<1>2. /\ QueryStart(c, n) \in Int /\ QueryEnd(c, n) \in Int /\ NumM(c) \in Nat
      /\ SinkBlocks(c) \in Nat
  BY QueryTypes, KeyTypes
<1>3. start \in Nat /\ (start <= m <=> QueryStart(c, n) < (m + 1) * c.tm)
  BY <1>2, TileBounds
<1>4. /\ wstart \in Nat
      /\ wstart <= m <=> QueryStart(c, n) + c.near + c.right < (m + 1) * c.tm
  BY <1>1, <1>2, TileBounds, QueryStart(c, n) + c.near + c.right \in Int
<1>5. max \in Int /\ (m < max <=> m < NumM(c) /\ m * c.tm < QueryEnd(c, n) + c.near)
  BY <1>1, <1>2, TileBounds, QueryEnd(c, n) + c.near \in Int
<1>6. /\ wmax \in Int
      /\ m < wmax <=>
           m < NumM(c) /\ m * c.tm < QueryEnd(c, n) + c.near + c.right + c.left
  BY <1>1, <1>2, TileBounds, QueryEnd(c, n) + c.near + c.right + c.left \in Int
<1>7. (m + 1) * c.tm \in Int /\ m * c.tm \in Int
  BY DEF IsProblem
<1>8. CASE n < SinkBlocks(c)
  <2>1. MBlocks(c, n) =
          [min |-> 0, max |-> 0, wmin |-> 0, wmax |-> 0,
           smin |-> Least(start, NumM(c)), smax |-> NumM(c)]
    BY <1>8, SinkTileRanges
  <2> HIDE DEF start, wstart, max, wmax
  <2>2. QED
    BY <1>2, <1>3, <1>7, <1>8, <2>1 DEF Least
<1>9. CASE n >= SinkBlocks(c)
  <2>1. MBlocks(c, n) =
          [min |-> Least(start, max), max |-> max,
           wmin |-> Least(Most(wstart, max), wmax), wmax |-> wmax,
           smin |-> 0, smax |-> 0]
    BY <1>9, WindowTileRanges
  <2> HIDE DEF start, wstart, max, wmax
  <2>2. QED
    BY <1>1, <1>2, <1>3, <1>4, <1>5, <1>6, <1>7, <1>9, <2>1 DEF Least, Most
<1>10. QED
  BY <1>2, <1>8, <1>9

(* No range reaches below tile 0. *)
LEMMA TilesNotNegative ==
    ASSUME NEW c, IsProblem(c), NEW n \in Nat
    PROVE  LET r == MBlocks(c, n)
           IN  /\ r.min < r.max => r.min >= 0
               /\ r.wmin < r.wmax => r.wmin >= 0
               /\ r.smin < r.smax => r.smin >= 0
<1>1. /\ QueryStart(c, n) \in Int /\ QueryEnd(c, n) \in Int /\ NumM(c) \in Nat
      /\ SinkBlocks(c) \in Nat /\ c.near \in Nat /\ c.right \in Nat /\ c.left \in Nat
  BY QueryTypes, KeyTypes, 0 \in Nat DEF IsProblem
<1>2. CASE ~IsLocal(c)
  BY <1>2, FullAndCausalTiles, 0 \in Nat
<1>3. CASE IsLocal(c) /\ n < SinkBlocks(c)
  <2>1. TileFrom(c, QueryStart(c, n)) \in Nat
    BY <1>1, TileBounds, 0 \in Nat
  <2>2. QED
    BY <1>1, <1>3, <2>1, SinkTileRanges DEF Least
<1>4. CASE IsLocal(c) /\ n >= SinkBlocks(c)
  <2>1. /\ TileFrom(c, QueryStart(c, n)) \in Nat
        /\ TileFrom(c, QueryStart(c, n) + c.near + c.right) \in Nat
        /\ TileUpTo(c, QueryEnd(c, n) + c.near) \in Int
        /\ TileUpTo(c, QueryEnd(c, n) + c.near + c.right + c.left) \in Int
    BY <1>1, TileBounds, 0 \in Nat, QueryStart(c, n) + c.near + c.right \in Int,
       QueryEnd(c, n) + c.near \in Int, QueryEnd(c, n) + c.near + c.right + c.left \in Int
  <2>2. QED
    BY <1>1, <1>4, <2>1, WindowTileRanges DEF Least, Most
<1>5. QED
  BY <1>1, <1>2, <1>3, <1>4

-----------------------------------------------------------------------------
(* The shares of the splits.                                               *)
LEMMA EvenShares ==
    ASSUME NEW total \in Nat, NEW n \in Nat \ {0}
    PROVE  \E base, extra \in Nat :
             /\ base = total \div n /\ extra = total % n
             /\ total = n * base + extra /\ extra < n
<1>1. total \div n \in Int /\ total = (total \div n) * n + (total % n)
      /\ total % n \in 0 .. n - 1
  BY Division
<1>2. total \div n >= 0
  BY DivAbove, 0 * n <= total
<1>3. (total \div n) * n = n * (total \div n)
  BY <1>1
<1>4. QED
  BY <1>1, <1>2, <1>3

LEMMA StartOfShare ==
    ASSUME NEW base \in Nat, NEW extra \in Nat, NEW i \in Nat
    PROVE  (IF i < extra THEN i * (base + 1) ELSE extra * (base + 1) + (i - extra) * base)
             = i * base + Least(i, extra)
<1>1. i * (base + 1) = i * base + i
  OBVIOUS
<1>2. extra * (base + 1) = extra * base + extra
  OBVIOUS
<1>3. (i - extra) * base = i * base - extra * base
  OBVIOUS
<1>4. extra * base \in Nat /\ i * base \in Nat
  OBVIOUS
<1>5. QED
  BY <1>1, <1>2, <1>3, <1>4 DEF Least

LEMMA Shares ==
    ASSUME NEW c, c.splits \in Nat \ {0}, NEW total \in Nat
    PROVE  \E base, extra \in Nat :
             /\ total = c.splits * base + extra /\ extra < c.splits
             /\ \A i \in Nat :
                  /\ ShareStart(c, total, i) = i * base + Least(i, extra)
                  /\ ShareSize(c, total, i) = base + (IF i < extra THEN 1 ELSE 0)
<1>1. PICK base, extra \in Nat :
        /\ base = total \div c.splits /\ extra = total % c.splits
        /\ total = c.splits * base + extra /\ extra < c.splits
  BY EvenShares
<1>2. ASSUME NEW i \in Nat
      PROVE  /\ ShareStart(c, total, i) = i * base + Least(i, extra)
             /\ ShareSize(c, total, i) = base + (IF i < extra THEN 1 ELSE 0)
  <2>1. /\ ShareStart(c, total, i) =
             IF i < extra THEN i * (base + 1) ELSE extra * (base + 1) + (i - extra) * base
        /\ ShareSize(c, total, i) = base + (IF i < extra THEN 1 ELSE 0)
    BY <1>1, Zenon DEF ShareStart, ShareSize
  <2>2. QED
    BY <2>1, StartOfShare
<1>3. QED
  BY <1>1, <1>2

LEMMA ShareTypes ==
    ASSUME NEW c, c.splits \in Nat \ {0}, NEW total \in Nat, NEW i \in Nat
    PROVE  ShareStart(c, total, i) \in Nat /\ ShareSize(c, total, i) \in Nat
<1>1. PICK base, extra \in Nat :
        /\ total = c.splits * base + extra /\ extra < c.splits
        /\ \A h \in Nat :
             /\ ShareStart(c, total, h) = h * base + Least(h, extra)
             /\ ShareSize(c, total, h) = base + (IF h < extra THEN 1 ELSE 0)
  BY Shares
<1>2. i * base \in Nat
  OBVIOUS
<1>3. QED
  BY <1>1, <1>2 DEF Least

LEMMA Quotient ==
    ASSUME NEW a \in Nat, NEW d \in Nat \ {0}
    PROVE  \E q \in Nat : /\ q = a \div d /\ q * d <= a /\ a < q * d + d
                          /\ \A e \in Nat : a < e * d => q < e
<1>1. a \div d \in Int /\ a = (a \div d) * d + (a % d) /\ a % d \in 0 .. d - 1
  BY Division
<1>2. a \div d >= 0
  BY DivAbove, 0 * d <= a
<1>3. ASSUME NEW e \in Nat, a < e * d
      PROVE  a \div d < e
  BY <1>1, <1>3, DivBelow, (e - 1) + 1 = e
<1>4. QED
  BY <1>1, <1>2, <1>3

(* The shares are disjoint and one behind the other ... *)
LEMMA SharesApart ==
    ASSUME NEW c, c.splits \in Nat \ {0}, NEW total \in Nat,
           NEW i \in 0 .. c.splits - 1, NEW j \in 0 .. c.splits - 1
    PROVE  /\ ShareStart(c, total, i) \in Nat /\ ShareSize(c, total, i) \in Nat
           /\ ShareStart(c, total, i) + ShareSize(c, total, i) <= total
           /\ i < j => ShareStart(c, total, i) + ShareSize(c, total, i)
                         <= ShareStart(c, total, j)
<1>1. PICK base, extra \in Nat :
        /\ total = c.splits * base + extra /\ extra < c.splits
        /\ \A h \in Nat :
             /\ ShareStart(c, total, h) = h * base + Least(h, extra)
             /\ ShareSize(c, total, h) = base + (IF h < extra THEN 1 ELSE 0)
  BY Shares
<1>2. i * base \in Nat /\ i * base + base <= c.splits * base
  <2>1. i + 1 <= c.splits /\ i \in Nat
    OBVIOUS
  <2>2. (i + 1) * base <= c.splits * base /\ (i + 1) * base = i * base + base
    BY <2>1
  <2>3. QED
    BY <2>1, <2>2
<1>3. i < j => i * base + base <= j * base
  <2> SUFFICES ASSUME i < j PROVE i * base + base <= j * base
    OBVIOUS
  <2>1. i + 1 <= j /\ i \in Nat /\ j \in Nat
    OBVIOUS
  <2>2. (i + 1) * base <= j * base /\ (i + 1) * base = i * base + base
    BY <2>1
  <2>3. QED
    BY <2>2
<1>4. j * base \in Nat /\ c.splits * base \in Nat
  OBVIOUS
<1>5. /\ ShareStart(c, total, i) = i * base + Least(i, extra)
      /\ ShareSize(c, total, i) = base + (IF i < extra THEN 1 ELSE 0)
      /\ ShareStart(c, total, j) = j * base + Least(j, extra)
  BY <1>1
<1> DEFINE ib == i * base
           jb == j * base
           nb == c.splits * base
<1>6. /\ ib \in Nat /\ jb \in Nat /\ nb \in Nat /\ total = nb + extra
      /\ ib + base <= nb /\ (i < j => ib + base <= jb)
      /\ ShareStart(c, total, i) = ib + Least(i, extra)
      /\ ShareStart(c, total, j) = jb + Least(j, extra)
  BY <1>1, <1>2, <1>3, <1>4, <1>5
<1> HIDE DEF ib, jb, nb
<1>7. QED
  BY <1>1, <1>5, <1>6 DEF Least

(* ... and together they are everything. *)
LEMMA SharesCover ==
    ASSUME NEW c, c.splits \in Nat \ {0}, NEW total \in Nat, NEW b \in 0 .. total - 1
    PROVE  \E i \in 0 .. c.splits - 1 :
             /\ ShareStart(c, total, i) <= b
             /\ b < ShareStart(c, total, i) + ShareSize(c, total, i)
<1>1. PICK base, extra \in Nat :
        /\ total = c.splits * base + extra /\ extra < c.splits
        /\ \A h \in Nat :
             /\ ShareStart(c, total, h) = h * base + Least(h, extra)
             /\ ShareSize(c, total, h) = base + (IF h < extra THEN 1 ELSE 0)
  BY Shares
<1>2. extra * (base + 1) = extra * base + extra /\ extra * base \in Nat
  OBVIOUS
<1>3. CASE b < extra * (base + 1)
  <2>1. PICK i \in Nat : i * (base + 1) <= b /\ b < i * (base + 1) + (base + 1) /\ i < extra
    <3> DEFINE d == base + 1
    <3>1. b \in Nat /\ d \in Nat \ {0} /\ b < extra * d
      BY <1>3
    <3> HIDE DEF d
    <3>2. PICK i \in Nat : i * d <= b /\ b < i * d + d /\ i < extra
      BY <3>1, Quotient
    <3>3. QED
      BY <3>2 DEF d
  <2>2. i * (base + 1) = i * base + i /\ i * base \in Nat
    OBVIOUS
  <2>3. /\ i \in 0 .. c.splits - 1
        /\ ShareStart(c, total, i) = i * base + i /\ ShareSize(c, total, i) = base + 1
    BY <1>1, <2>1 DEF Least
  <2>4. QED
    BY <2>1, <2>2, <2>3
<1>4. CASE b >= extra * (base + 1)
  <2> DEFINE d == b - (extra * base + extra)
  <2>1. d \in Nat /\ d < c.splits * base - extra * base
    BY <1>1, <1>2, <1>4
  <2>2. base \in Nat \ {0} /\ d < (c.splits - extra) * base /\ c.splits - extra \in Nat
    BY <1>1, <2>1
  <2>3. b = d + extra * base + extra
    BY <1>2 DEF d
  <2> HIDE DEF d
  <2>4. PICK j \in Nat : j * base <= d /\ d < j * base + base /\ j < c.splits - extra
    BY <2>1, <2>2, Quotient
  <2>5. (extra + j) * base = extra * base + j * base /\ j * base \in Nat
    OBVIOUS
  <2>6. extra + j \in 0 .. c.splits - 1 /\ extra + j \in Nat
    BY <1>1, <2>4
  <2>7. /\ ShareStart(c, total, extra + j) = (extra + j) * base + Least(extra + j, extra)
        /\ ShareSize(c, total, extra + j) = base + (IF extra + j < extra THEN 1 ELSE 0)
    BY <1>1, <2>6
  <2>8. Least(extra + j, extra) = extra /\ ~(extra + j < extra)
    BY DEF Least
  <2> DEFINE jb == j * base
             eb == extra * base
  <2>9. /\ jb \in Nat /\ eb \in Nat /\ b = d + eb + extra /\ jb <= d /\ d < jb + base
        /\ ShareStart(c, total, extra + j) = eb + jb + extra
        /\ ShareSize(c, total, extra + j) = base
    BY <1>2, <2>1, <2>3, <2>4, <2>5, <2>7, <2>8
  <2> HIDE DEF jb, eb
  <2>10. /\ ShareStart(c, total, extra + j) <= b
         /\ b < ShareStart(c, total, extra + j) + ShareSize(c, total, extra + j)
    BY <2>1, <2>9
  <2>11. QED
    BY <2>6, <2>10
<1>5. QED
  BY <1>2, <1>3, <1>4
================================================================================
