----------------------------- MODULE TritonProofs -----------------------------
(***************************************************************************)
(* Proofs about TritonProgram, for every launch, tile size, window, number *)
(* of splits and every verdict of the softmax and of the gate.             *)
(***************************************************************************)
EXTENDS TritonProgram, BlockInfoProofs, FiniteSetTheorems, SequenceTheorems

(* The types of the ranges and loops. *)
KeyRange  == [min : Int, max : Int, wmin : Int, wmax : Int, smax : Int]
TileRange == [min : Int, max : Int, wmin : Int, wmax : Int, smin : Int, smax : Int]
Masks     == {"none", "full", "causal", "local", "sink", "gather"}
LoopSet   == [from : Int, to : Int, seqlen : BOOLEAN, mask : Masks]

LEMMA Bounds ==
    ASSUME NEW p, IsProblem(p), NEW a \in Int
    PROVE  /\ Quot(p, a, p.tm) \in Int /\ Quot(p, a, p.tn) \in Int
           /\ CeilDiv(p, a, p.tm) \in Int /\ CeilDiv(p, a, p.tn) \in Int
<1>1. p.tm \in Nat \ {0} /\ p.tn \in Nat \ {0} /\ p.trunc \in BOOLEAN
  BY DEF IsProblem
<1>2. QED
  BY <1>1, QuotBound, CeilDivBound, 0 \in Nat

LEMMA LeastMost ==
    ASSUME NEW a \in Int, NEW b \in Int
    PROVE  Least(a, b) \in Int /\ Most(a, b) \in Int
BY DEF Least, Most

LEMMA LaunchFacts ==
    ASSUME c \in Launches
    PROVE  /\ IsProblem(c) /\ splits \in Nat /\ c.gather \in BOOLEAN
           /\ Kernel \in {"fwd", "dec", "bwd"}
           /\ Kernel = "dec" => c.sq = 1 /\ splits > 0
           /\ Kernel = "bwd" => c.pack = 1
           /\ c.gather => Kernel = "dec" /\ c.kind = "full" /\ c.entries \in 0 .. c.sk
           /\ {c.sq, c.sk, c.sink, c.left, c.right, c.near} \subseteq Nat
           /\ {c.tm, c.tn, c.pack} \subseteq Nat \ {0}
           /\ c.kind \in {"full", "causal", "local"} /\ c.trunc \in BOOLEAN
BY LaunchesAssumption DEF splits, Kernel, IsProblem

(* The ranges of get_n_block_min_max before they are made disjoint. *)
LEMMA RawKeyForms ==
    ASSUME NEW m
    PROVE  /\ c.kind = "full" =>
                RawN(c, m) = [min |-> 0, max |-> NumN(c), wmin |-> 0, wmax |-> 0, smax |-> 0]
           /\ c.kind = "causal" =>
                RawN(c, m) = [min |-> 0, max |-> Least(NumN(c), CeilDiv(c, KeyEnd(c, m), c.tn)),
                              wmin |-> 0, wmax |-> 0, smax |-> 0]
           /\ c.kind = "local" =>
                RawN(c, m) =
                  [min |-> AfterSink(c, KeyStart(c, m) - c.near),
                   max |-> Least(NumN(c), CeilDiv(c, KeyEnd(c, m), c.tn)),
                   wmin |-> AfterSink(c, KeyStart(c, m) - c.near - c.right - c.left),
                   wmax |-> Least(NumN(c), BlocksUpTo(c, KeyEnd(c, m) - c.near - c.right)),
                   smax |-> Least(SinkBlocks(c), BlocksUpTo(c, KeyEnd(c, m)))]
BY DEF RawN

LEMMA KeyRangeOf ==
    ASSUME NEW a \in Int, NEW b \in Int, NEW w \in Int, NEW x \in Int, NEW y \in Int
    PROVE  [min |-> a, max |-> b, wmin |-> w, wmax |-> x, smax |-> y] \in KeyRange
BY DEF KeyRange

LEMMA RawKeyTypes ==
    ASSUME c \in Launches, NEW m \in Nat
    PROVE  RawN(c, m) \in KeyRange
<1>1. /\ IsProblem(c) /\ c.near \in Nat /\ c.right \in Nat /\ c.left \in Nat
      /\ KeyStart(c, m) \in Int /\ KeyEnd(c, m) \in Int
      /\ NumN(c) \in Int /\ SinkBlocks(c) \in Int
  BY LaunchFacts, KeyTypes
<1>2. /\ AfterSink(c, KeyStart(c, m) - c.near) \in Int
      /\ AfterSink(c, KeyStart(c, m) - c.near - c.right - c.left) \in Int
  BY <1>1, AfterSinkBound, 0 \in Nat, KeyStart(c, m) - c.near \in Int,
     KeyStart(c, m) - c.near - c.right - c.left \in Int
<1>3. /\ Least(NumN(c), CeilDiv(c, KeyEnd(c, m), c.tn)) \in Int
      /\ Least(NumN(c), BlocksUpTo(c, KeyEnd(c, m) - c.near - c.right)) \in Int
      /\ Least(SinkBlocks(c), BlocksUpTo(c, KeyEnd(c, m))) \in Int
  <2>1. KeyEnd(c, m) - c.near - c.right \in Int
    BY <1>1
  <2>2. /\ CeilDiv(c, KeyEnd(c, m), c.tn) \in Int
        /\ BlocksUpTo(c, KeyEnd(c, m) - c.near - c.right) \in Int
        /\ BlocksUpTo(c, KeyEnd(c, m)) \in Int
    BY <1>1, <2>1, Bounds, BlocksUpToBound, 0 \in Nat
  <2>3. QED
    BY <1>1, <2>2, LeastMost
<1>4. c.kind \in {"full", "causal", "local"} /\ 0 \in Int
  BY LaunchFacts
<1>5. QED
  BY <1>1, <1>2, <1>3, <1>4, RawKeyForms, KeyRangeOf

LEMMA ShareIntegers ==
    ASSUME c \in Launches, splits # 0, NEW total \in Int, NEW i \in Nat
    PROVE  /\ ShareStart(c, Most(total, 0), i) \in Int
           /\ ShareSize(c, Most(total, 0), i) \in Int
<1> DEFINE some == Most(total, 0)
<1>1. c.splits \in Nat \ {0} /\ some \in Nat
  BY LaunchFacts DEF splits, Most
<1> HIDE DEF some
<1>2. ShareStart(c, some, i) \in Nat /\ ShareSize(c, some, i) \in Nat
  BY <1>1, ShareTypes
<1>3. QED
  BY <1>2 DEF some

LEMMA ClampedKeyTypes ==
    ASSUME NEW r \in KeyRange
    PROVE  ClampN(c, r) \in KeyRange
<1> DEFINE min  == Least(r.min, r.max)
           wmax == Most(Least(r.wmax, min), r.wmin)
           smax == Most(r.smax, 0)
<1>1. min \in Int /\ wmax \in Int /\ smax \in Int
  BY DEF KeyRange, Least, Most
<1>2. ClampN(c, r) = IF IsLocal(c) THEN [r EXCEPT !.min = min, !.wmax = wmax, !.smax = smax]
                     ELSE [r EXCEPT !.min = min]
  BY DEF ClampN
<1> HIDE DEF min, wmax, smax
<1>3. QED
  BY <1>1, <1>2 DEF KeyRange

LEMMA SplitWindowTypes ==
    ASSUME c \in Launches, splits # 0, NEW i \in Nat, NEW r \in KeyRange
    PROVE  SplitWindow(c, r, i) \in KeyRange
<1> DEFINE total == Most(r.wmax - r.wmin, 0)
           wmin  == r.wmin + ShareStart(c, total, i)
           wmax  == Least(wmin + ShareSize(c, total, i), Most(r.wmax, r.wmin))
           smax  == IF i = 0 THEN r.smax ELSE 0
<1>1. r.wmin \in Int /\ r.wmax \in Int /\ r.smax \in Int
  BY DEF KeyRange
<1>2. ShareStart(c, total, i) \in Int /\ ShareSize(c, total, i) \in Int
  BY <1>1, ShareIntegers, r.wmax - r.wmin \in Int
<1>3. SplitWindow(c, r, i) = [r EXCEPT !.wmin = wmin, !.wmax = wmax, !.smax = smax]
  BY DEF SplitWindow
<1>4. wmin \in Int /\ wmax \in Int /\ smax \in Int
  BY <1>1, <1>2 DEF Least, Most
<1> HIDE DEF wmin, wmax, smax
<1>5. QED
  BY <1>3, <1>4 DEF KeyRange

LEMMA SplitKeyTypes ==
    ASSUME c \in Launches, splits # 0, NEW m \in Nat, NEW i \in Nat
    PROVE  SplitN(c, m, i) \in KeyRange
<1> DEFINE r == RawN(c, m)
           s == SplitWindow(c, r, i)
<1>1. r \in KeyRange /\ s \in KeyRange
  BY RawKeyTypes, SplitWindowTypes
<1>2. CASE IsLocal(c)
  <2>1. SplitN(c, m, i) = SplitLocalN(c, m, i, r, s)
    BY <1>2 DEF SplitN, SplitRaw
  <2>2. Most(NearFrom(c, m, r.min), SinkBlocks(c)) \in Int
    <3>1. /\ SinkBlocks(c) \in Int /\ r.min \in Int /\ IsProblem(c)
          /\ Most(KeyStart(c, m) - c.near + 1, 0) \in Int
      BY <1>1, LaunchFacts, KeyTypes DEF KeyRange, Most
    <3>2. NearFrom(c, m, r.min) \in Int
      BY <3>1, BlocksUpToBound, 0 \in Nat DEF NearFrom
    <3>3. QED
      BY <3>1, <3>2, LeastMost
  <2> HIDE DEF r, s
  <2>3. QED
    BY <1>1, <2>1, <2>2 DEF SplitLocalN, KeyRange, Most
<1>3. CASE ~IsLocal(c)
  <2> DEFINE min == r.min + ShareStart(c, Most(r.max - r.min, 0), i)
             max == Least(min + ShareSize(c, Most(r.max - r.min, 0), i), r.max)
  <2>1. SplitN(c, m, i) = [r EXCEPT !.min = min, !.max = max]
    BY <1>3 DEF SplitN, SplitRaw, SplitMainN
  <2>2. r.max - r.min \in Int /\ r.min \in Int /\ r.max \in Int
    BY <1>1 DEF KeyRange
  <2>3. min \in Int /\ max \in Int
    <3>1. /\ ShareStart(c, Most(r.max - r.min, 0), i) \in Int
          /\ ShareSize(c, Most(r.max - r.min, 0), i) \in Int
      BY <2>2, ShareIntegers
    <3>2. QED
      BY <2>2, <3>1 DEF Least
  <2> HIDE DEF r, s, min, max
  <2>4. QED
    BY <1>1, <2>1, <2>3 DEF KeyRange
<1>4. QED
  BY <1>2, <1>3

(* The ranges of get_m_block_min_max before they are made disjoint. *)
LEMMA RawTileForms ==
    ASSUME c \in Launches, NEW b \in Nat
    PROVE  /\ c.kind = "full" =>
                RawM(c, b) = [min |-> 0, max |-> NumM(c), wmin |-> 0, wmax |-> 0,
                              smin |-> 0, smax |-> 0]
           /\ c.kind = "causal" =>
                RawM(c, b) = [min |-> TileFrom(c, QueryStart(c, b)), max |-> NumM(c),
                              wmin |-> 0, wmax |-> 0, smin |-> 0, smax |-> 0]
           /\ c.kind = "local" /\ b < SinkBlocks(c) =>
                RawM(c, b) = [min |-> 0, max |-> 0, wmin |-> 0, wmax |-> 0,
                              smin |-> TileFrom(c, QueryStart(c, b)), smax |-> NumM(c)]
           /\ c.kind = "local" /\ b >= SinkBlocks(c) =>
                RawM(c, b) =
                  [min |-> TileFrom(c, QueryStart(c, b)),
                   max |-> TileUpTo(c, QueryEnd(c, b) + c.near),
                   wmin |-> TileFrom(c, QueryStart(c, b) + c.near + c.right),
                   wmax |-> TileUpTo(c, QueryEnd(c, b) + c.near + c.right + c.left),
                   smin |-> 0, smax |-> 0]
<1>1. IsProblem(c) /\ SinkBlocks(c) \in Nat
  BY LaunchFacts, KeyTypes, 0 \in Nat
<1>2. c.kind = "full" => /\ c.kind # "causal" /\ c.kind # "local"
  OBVIOUS
<1>3. c.kind = "causal" => /\ c.kind # "full" /\ c.kind # "local"
  OBVIOUS
<1>4. c.kind = "local" => /\ c.kind # "full" /\ c.kind # "causal"
  OBVIOUS
<1>5. ~(b < SinkBlocks(c) /\ b >= SinkBlocks(c))
  BY <1>1
<1>6. QED
  BY <1>2, <1>3, <1>4, <1>5, Zenon DEF RawM, IsLocal, TileFrom, TileUpTo

LEMMA TileRangeOf ==
    ASSUME NEW a \in Int, NEW b \in Int, NEW w \in Int, NEW x \in Int,
           NEW y \in Int, NEW z \in Int
    PROVE  [min |-> a, max |-> b, wmin |-> w, wmax |-> x, smin |-> y, smax |-> z] \in TileRange
BY DEF TileRange

LEMMA RawTileTypes ==
    ASSUME c \in Launches, NEW b \in Nat
    PROVE  RawM(c, b) \in TileRange
<1>1. /\ IsProblem(c) /\ c.near \in Nat /\ c.right \in Nat /\ c.left \in Nat
      /\ QueryStart(c, b) \in Int /\ QueryEnd(c, b) \in Int
      /\ NumM(c) \in Int /\ SinkBlocks(c) \in Int
  BY LaunchFacts, KeyTypes, QueryTypes
<1>2. /\ TileFrom(c, QueryStart(c, b)) \in Int
      /\ TileFrom(c, QueryStart(c, b) + c.near + c.right) \in Int
      /\ TileUpTo(c, QueryEnd(c, b) + c.near) \in Int
      /\ TileUpTo(c, QueryEnd(c, b) + c.near + c.right + c.left) \in Int
  <2>1. /\ QueryStart(c, b) + c.near + c.right \in Int /\ QueryEnd(c, b) + c.near \in Int
        /\ QueryEnd(c, b) + c.near + c.right + c.left \in Int
    BY <1>1
  <2>2. QED
    BY <1>1, <2>1, TileBounds, 0 \in Nat
<1>3. c.kind \in {"full", "causal", "local"} /\ 0 \in Int
  BY LaunchFacts
<1>4. b < SinkBlocks(c) \/ b >= SinkBlocks(c)
  BY <1>1
<1>5. CASE c.kind = "full"
  BY <1>1, <1>3, <1>5, RawTileForms, TileRangeOf
<1>6. CASE c.kind = "causal"
  BY <1>1, <1>2, <1>3, <1>6, RawTileForms, TileRangeOf
<1>7. CASE c.kind = "local" /\ b < SinkBlocks(c)
  <2>1. RawM(c, b) = [min |-> 0, max |-> 0, wmin |-> 0, wmax |-> 0,
                      smin |-> TileFrom(c, QueryStart(c, b)), smax |-> NumM(c)]
    BY <1>7, RawTileForms
  <2>2. QED
    BY <1>1, <1>2, <2>1 DEF TileRange
<1>8. CASE c.kind = "local" /\ b >= SinkBlocks(c)
  <2>1. RawM(c, b) =
          [min |-> TileFrom(c, QueryStart(c, b)),
           max |-> TileUpTo(c, QueryEnd(c, b) + c.near),
           wmin |-> TileFrom(c, QueryStart(c, b) + c.near + c.right),
           wmax |-> TileUpTo(c, QueryEnd(c, b) + c.near + c.right + c.left),
           smin |-> 0, smax |-> 0]
    BY <1>8, RawTileForms
  <2>2. QED
    BY <1>2, <1>3, <2>1, TileRangeOf
<1>9. QED
  BY <1>3, <1>4, <1>5, <1>6, <1>7, <1>8

LEMMA ClampedTileTypes ==
    ASSUME NEW r \in TileRange
    PROVE  ClampM(c, r) \in TileRange
<1> DEFINE min  == Least(r.min, r.max)
           wmin == Least(Most(r.wmin, r.max), r.wmax)
           smin == Least(r.smin, r.smax)
<1>1. min \in Int /\ wmin \in Int /\ smin \in Int
  BY DEF TileRange, Least, Most
<1>2. ClampM(c, r) = IF IsLocal(c) THEN [r EXCEPT !.min = min, !.wmin = wmin, !.smin = smin]
                     ELSE [r EXCEPT !.min = min]
  BY DEF ClampM
<1> HIDE DEF min, wmin, smin
<1>3. QED
  BY <1>1, <1>2 DEF TileRange

LEMMA SplitTileTypes ==
    ASSUME c \in Launches, splits # 0, NEW b \in Nat, NEW i \in Nat, NEW r \in TileRange
    PROVE  SplitM(c, r, b, i) \in TileRange
<1> DEFINE tiles == Most(r.max - r.min, 0)
           min   == r.min + ShareStart(c, tiles, i)
           max   == Least(min + ShareSize(c, tiles, i), r.max)
           upper == Most(r.min, CeilDiv(c, QueryEnd(c, b), c.tm))
           wfrom == Most(r.wmin, upper)
           wtotal == Most(r.wmax - wfrom, 0)
           wmin  == wfrom + ShareStart(c, wtotal, i)
           wmax  == Least(wmin + ShareSize(c, wtotal, i), r.wmax)
<1>1. /\ r.min \in Int /\ r.max \in Int /\ r.wmin \in Int /\ r.wmax \in Int
      /\ r.smin \in Int /\ r.smax \in Int
  BY DEF TileRange
<1>2. wfrom \in Int
  <2>1. IsProblem(c) /\ QueryEnd(c, b) \in Int
    BY LaunchFacts, QueryTypes
  <2>2. CeilDiv(c, QueryEnd(c, b), c.tm) \in Int
    BY <2>1, Bounds
  <2>3. QED
    BY <1>1, <2>2, LeastMost
<1> HIDE DEF wfrom
<1>3. min \in Int /\ max \in Int
  <2>1. /\ ShareStart(c, tiles, i) \in Int /\ ShareSize(c, tiles, i) \in Int
    BY <1>1, ShareIntegers, r.max - r.min \in Int
  <2>2. QED
    BY <1>1, <2>1 DEF Least
<1>4. wmin \in Int /\ wmax \in Int
  <2>1. /\ ShareStart(c, wtotal, i) \in Int /\ ShareSize(c, wtotal, i) \in Int
    BY <1>1, <1>2, ShareIntegers, r.wmax - wfrom \in Int
  <2>2. QED
    BY <1>1, <1>2, <2>1 DEF Least
<1>5. SplitM(c, r, b, i) =
        IF IsLocal(c)
        THEN [r EXCEPT !.min = IF i = 0 THEN @ ELSE r.max, !.wmin = wmin, !.wmax = wmax,
                       !.smin = IF i = 0 THEN @ ELSE 0, !.smax = IF i = 0 THEN @ ELSE 0]
        ELSE [r EXCEPT !.min = min, !.max = max]
  BY DEF SplitM, wfrom
<1> DEFINE first == IF i = 0 THEN r.min ELSE r.max
           smin  == IF i = 0 THEN r.smin ELSE 0
           smax  == IF i = 0 THEN r.smax ELSE 0
<1>6. first \in Int /\ smin \in Int /\ smax \in Int
  BY <1>1
<1>7. SplitM(c, r, b, i) =
        IF IsLocal(c)
        THEN [r EXCEPT !.min = first, !.wmin = wmin, !.wmax = wmax,
                       !.smin = smin, !.smax = smax]
        ELSE [r EXCEPT !.min = min, !.max = max]
  BY <1>5
<1> HIDE DEF min, max, wmin, wmax, first, smin, smax
<1>8. QED
  BY <1>1, <1>3, <1>4, <1>6, <1>7 DEF TileRange

-----------------------------------------------------------------------------
(* The loops of every program are sequences of LoopSet. *)
LEMMA ProgramTypes ==
    ASSUME c \in Launches, NEW p \in Programs
    PROVE  p[1] \in Nat /\ p[2] \in Nat /\ p = <<p[1], p[2]>>
<1>1. p[1] \in Blocks /\ p[2] \in 0 .. Most(splits, 1) - 1 /\ p = <<p[1], p[2]>>
  BY DEF Programs
<1>2. QED
  BY <1>1 DEF Blocks

LEMMA RangeTypes ==
    ASSUME c \in Launches, range = InitialRange, NEW p \in Programs
    PROVE  IF Kernel = "bwd" THEN range[p] \in TileRange ELSE range[p] \in KeyRange
<1>1. p[1] \in Nat /\ p[2] \in Nat
  BY ProgramTypes
<1>2. CASE Kernel = "bwd"
  <2>1. range[p] = ProgramM(p[1], p[2])
    BY <1>2 DEF InitialRange
  <2>2. QED
    BY <1>1, <1>2, <2>1, RawTileTypes, SplitTileTypes, ClampedTileTypes DEF ProgramM
<1>3. CASE Kernel # "bwd"
  <2>1. range[p] = ProgramN(p[1], p[2])
    BY <1>3 DEF InitialRange
  <2>2. CASE ~c.gather
    BY <1>1, <1>3, <2>1, <2>2, RawKeyTypes, SplitKeyTypes, ClampedKeyTypes DEF ProgramN
  <2>3. CASE c.gather
    <3> DEFINE total == NumN(c)
               min == ShareStart(c, total, p[2])
               max == Least(min + ShareSize(c, total, p[2]), RawN(c, 0).max)
    <3>1. range[p] = [RawN(c, 0) EXCEPT !.min = min, !.max = max]
      BY <2>1, <2>3 DEF ProgramN, GatherN
    <3>2. RawN(c, 0) \in KeyRange
      BY RawKeyTypes, 0 \in Nat
    <3>3. c.splits \in Nat \ {0} /\ total \in Nat
      BY <2>3, LaunchFacts, KeyTypes, 0 \in Nat DEF splits
    <3> HIDE DEF total
    <3>4. ShareStart(c, total, p[2]) \in Nat /\ ShareSize(c, total, p[2]) \in Nat
      BY <1>1, <3>3, ShareTypes
    <3>5. min \in Int /\ max \in Int
      BY <3>2, <3>4 DEF Least, KeyRange
    <3> HIDE DEF min, max
    <3>6. QED
      BY <1>3, <3>1, <3>2, <3>5 DEF KeyRange
  <2>4. QED
    BY <2>2, <2>3
<1>4. QED
  BY <1>2, <1>3

LoopOf(from, to, seqlen, mask) ==
    [from |-> from, to |-> to, seqlen |-> seqlen, mask |-> mask]

(* Sequences that are put together loop by loop. *)
One(x)     == <<x>>
Then(s, x) == s \o <<x>>

LEMMA OneLoop ==
    ASSUME NEW S, NEW x \in S
    PROVE  One(x) \in Seq(S) /\ Len(One(x)) = 1 /\ One(x)[1] = x
BY DEF One

(* t is s with the element x appended. *)
Appended(S, s, x, t) ==
    /\ t \in Seq(S) /\ Len(t) = Len(s) + 1 /\ t[Len(s) + 1] = x
    /\ \A i \in 1 .. Len(s) : t[i] = s[i]

LEMMA OneMore ==
    ASSUME NEW S, NEW s \in Seq(S), NEW x \in S
    PROVE  Appended(S, s, x, Then(s, x))
<1>1. <<x>> \in Seq(S) /\ Len(<<x>>) = 1 /\ <<x>>[1] = x
  OBVIOUS
<1>2. Len(s) \in Nat
  OBVIOUS
<1>3. QED
  BY <1>1, <1>2, ConcatProperties DEF Then, Appended

LEMMA TwoLoops ==
    ASSUME NEW S, NEW x \in S, NEW y \in S
    PROVE  LET s == Then(One(x), y)
           IN  s \in Seq(S) /\ Len(s) = 2 /\ s[1] = x /\ s[2] = y
<1> DEFINE a == One(x)
           s == Then(a, y)
<1>1. a \in Seq(S) /\ Len(a) = 1 /\ a[1] = x
  BY OneLoop
<1> HIDE DEF a
<1>2. s \in Seq(S) /\ Len(s) = 2 /\ s[1] = x /\ s[2] = y
  <2>1. a \in Seq(S)
    BY <1>1
  <2>2. Appended(S, a, y, s)
    BY <2>1, OneMore, Zenon
  <2>3. 1 \in 1 .. Len(a) /\ Len(a) + 1 = 2
    BY <1>1
  <2>4. QED
    BY <1>1, <2>2, <2>3 DEF Appended
<1>3. QED
  BY <1>2 DEF a

LEMMA FourLoops ==
    ASSUME NEW S, NEW x \in S, NEW y \in S, NEW z \in S, NEW u \in S
    PROVE  LET s == Then(Then(Then(One(x), y), z), u)
           IN  s \in Seq(S) /\ Len(s) = 4 /\ s[1] = x /\ s[2] = y /\ s[3] = z /\ s[4] = u
<1> DEFINE a == Then(One(x), y)
           b == Then(a, z)
           s == Then(b, u)
<1>1. a \in Seq(S) /\ Len(a) = 2 /\ a[1] = x /\ a[2] = y
  BY TwoLoops
<1> HIDE DEF a
<1>2. b \in Seq(S) /\ Len(b) = 3 /\ b[1] = x /\ b[2] = y /\ b[3] = z
  <2>1. a \in Seq(S)
    BY <1>1
  <2>2. Appended(S, a, z, b)
    BY <2>1, OneMore, Zenon
  <2>3. 1 \in 1 .. Len(a) /\ 2 \in 1 .. Len(a) /\ Len(a) + 1 = 3
    BY <1>1
  <2>4. QED
    BY <1>1, <2>2, <2>3 DEF Appended
<1> HIDE DEF b
<1>3. s \in Seq(S) /\ Len(s) = 4 /\ s[1] = x /\ s[2] = y /\ s[3] = z /\ s[4] = u
  <2>1. b \in Seq(S)
    BY <1>2
  <2>2. Appended(S, b, u, s)
    BY <2>1, OneMore, Zenon
  <2>3. 1 \in 1 .. Len(b) /\ 2 \in 1 .. Len(b) /\ 3 \in 1 .. Len(b) /\ Len(b) + 1 = 4
    BY <1>2
  <2>4. QED
    BY <1>2, <2>2, <2>3 DEF Appended
<1>4. QED
  BY <1>3 DEF a, b

Five(x, y, z, u, v) == <<x>> \o (<<y>> \o <<z>> \o <<u>> \o <<v>>)

LEMMA FiveLoops ==
    ASSUME NEW S, NEW x \in S, NEW y \in S, NEW z \in S, NEW u \in S, NEW v \in S
    PROVE  /\ Five(x, y, z, u, v) \in Seq(S) /\ Len(Five(x, y, z, u, v)) = 5
           /\ Five(x, y, z, u, v)[1] = x /\ Five(x, y, z, u, v)[2] = y
           /\ Five(x, y, z, u, v)[3] = z /\ Five(x, y, z, u, v)[4] = u
           /\ Five(x, y, z, u, v)[5] = v
<1> DEFINE d == Then(Then(Then(One(y), z), u), v)
           a == One(x)
           s == a \o d
<1>1. d \in Seq(S) /\ Len(d) = 4 /\ d[1] = y /\ d[2] = z /\ d[3] = u /\ d[4] = v
  BY FourLoops
<1>2. a \in Seq(S) /\ Len(a) = 1 /\ a[1] = x
  BY OneLoop
<1>3. Five(x, y, z, u, v) = s
  BY DEF Five, Then, One
<1> HIDE DEF d, a
<1>4. /\ s \in Seq(S) /\ Len(s) = Len(a) + Len(d)
      /\ \A i \in 1 .. Len(a) + Len(d) : s[i] = IF i <= Len(a) THEN a[i] ELSE d[i - Len(a)]
  BY <1>1, <1>2, ConcatProperties
<1> HIDE DEF s
<1>5. /\ Len(s) = 5
      /\ s[1] = a[1] /\ s[2] = d[1] /\ s[3] = d[2] /\ s[4] = d[3] /\ s[5] = d[4]
  BY <1>1, <1>2, <1>4
<1>6. QED
  BY <1>1, <1>2, <1>3, <1>4, <1>5

LEMMA LoopTypes ==
    ASSUME NEW from \in Int, NEW to \in Int, NEW seqlen \in BOOLEAN, NEW mask \in Masks
    PROVE  LoopOf(from, to, seqlen, mask) \in LoopSet
BY DEF LoopOf, LoopSet

(* A program has two loops, a local one five. *)
LEMMA PairOfLoops ==
    ASSUME NEW x \in LoopSet, NEW y \in LoopSet
    PROVE  <<x>> \o <<y>> \in Seq(LoopSet) /\ Len(<<x>> \o <<y>>) = 2
<1>1. <<x>> \o <<y>> = Then(One(x), y)
  BY DEF Then, One
<1>2. QED
  BY <1>1, TwoLoops

LEMMA FiveOfLoops ==
    ASSUME NEW x, NEW y, NEW z, NEW u, NEW v, {x, y, z, u, v} \subseteq LoopSet
    PROVE  Five(x, y, z, u, v) \in Seq(LoopSet)
BY FiveLoops

LEMMA WithinTypes ==
    ASSUME NEW x \in Int, NEW from \in Int, NEW to \in Int
    PROVE  Within(x, from, to) \in Int /\ Within(x, from, to) >= from
BY DEF Within, Least, Most

LEMMA MaskTypes ==
    ASSUME c \in Launches, NEW m \in Nat, NEW min \in Int, NEW local1 \in BOOLEAN
    PROVE  MaskFrom(c, m, min, local1) \in Int /\ FullFrom(m, min) \in Int
<1>1. /\ IsProblem(c) /\ {c.near, c.right, c.left} \subseteq Nat
      /\ KeyStart(c, m) \in Int /\ KeyEnd(c, m) \in Int
  BY LaunchFacts, KeyTypes
<1> DEFINE key == KeyStart(c, m) - (IF local1 THEN c.near + c.right ELSE 0)
           end == KeyEnd(c, m) - c.near - c.right - c.left
<1>2. key \in Int /\ end \in Int
  BY <1>1
<1> HIDE DEF key, end
<1>3. Quot(c, key, c.tn) \in Int /\ CeilDiv(c, end, c.tn) \in Int
  BY <1>1, <1>2, Bounds
<1>4. QED
  BY <1>3, LeastMost DEF MaskFrom, FullFrom, key, end

LEMMA KeyLoopTypes ==
    ASSUME c \in Launches, NEW m \in Nat, NEW i \in Nat, range[<<m, i>>] \in KeyRange,
           Kernel # "bwd"
    PROVE  KeyLoops(m, i) \in Seq(LoopSet)
<1> DEFINE r == range[<<m, i>>]
           diagonal == MaskFrom(c, m, r.min, FALSE)
           nomask == IF IsLocal(c) /\ (splits = 0 \/ LastSplit(c, i)) THEN r.min
                     ELSE IF splits # 0 THEN Least(diagonal, r.max) ELSE diagonal
           unmasked == IF Kernel = "fwd" /\ c.kind = "full" THEN r.max - 1 ELSE nomask
           mask == IF c.kind = "full" THEN "none" ELSE c.kind
           to   == Within(MaskFrom(c, m, r.wmin, TRUE), r.wmin, r.wmax)
           from == Within(FullFrom(m, r.wmin), r.wmin, to)
<1>1. /\ r.min \in Int /\ r.max \in Int /\ r.wmin \in Int /\ r.wmax \in Int /\ r.smax \in Int
  BY DEF KeyRange
<1>2. mask \in Masks
  BY LaunchFacts DEF Masks
<1>3. diagonal \in Int
  BY <1>1, MaskTypes
<1>4. unmasked \in Int
  <2> HIDE DEF diagonal
  <2>1. nomask \in Int
    BY <1>1, <1>3, LeastMost
  <2>2. QED
    BY <1>1, <2>1
<1>5. to \in Int /\ from \in Int
  BY <1>1, MaskTypes, WithinTypes
<1>6. KeyLoops(m, i) =
        IF c.gather
        THEN <<LoopOf(r.max, r.max, TRUE, "gather")>> \o <<LoopOf(r.min, r.max, FALSE, "gather")>>
        ELSE IF IsLocal(c)
             THEN Five(LoopOf(unmasked, r.max, TRUE, mask), LoopOf(to, r.wmax, TRUE, "local"),
                       LoopOf(from, to, FALSE, "none"), LoopOf(r.wmin, from, TRUE, "local"),
                       LoopOf(0, r.smax, TRUE, "sink"))
             ELSE <<LoopOf(unmasked, r.max, TRUE, mask)>>
                    \o <<LoopOf(r.min, unmasked, FALSE, "none")>>
  BY DEF KeyLoops, WindowLoops, Loop, LoopOf, Five
<1> HIDE DEF r, diagonal, nomask, unmasked, mask, to, from
<1>7. CASE c.gather
  <2>1. /\ LoopOf(r.max, r.max, TRUE, "gather") \in LoopSet
        /\ LoopOf(r.min, r.max, FALSE, "gather") \in LoopSet
    BY <1>1 DEF LoopOf, LoopSet, Masks
  <2>2. QED
    BY <1>6, <1>7, <2>1, PairOfLoops
<1>8. CASE ~c.gather /\ ~IsLocal(c)
  <2>1. /\ LoopOf(unmasked, r.max, TRUE, mask) \in LoopSet
        /\ LoopOf(r.min, unmasked, FALSE, "none") \in LoopSet
    BY <1>1, <1>2, <1>4 DEF LoopOf, LoopSet, Masks
  <2>2. QED
    BY <1>6, <1>8, <2>1, PairOfLoops
<1>9. CASE ~c.gather /\ IsLocal(c)
  <2>1. /\ LoopOf(unmasked, r.max, TRUE, mask) \in LoopSet
        /\ LoopOf(to, r.wmax, TRUE, "local") \in LoopSet
        /\ LoopOf(from, to, FALSE, "none") \in LoopSet
        /\ LoopOf(r.wmin, from, TRUE, "local") \in LoopSet
        /\ LoopOf(0, r.smax, TRUE, "sink") \in LoopSet
    BY <1>1, <1>2, <1>4, <1>5 DEF LoopOf, LoopSet, Masks
  <2>2. KeyLoops(m, i) =
          Five(LoopOf(unmasked, r.max, TRUE, mask), LoopOf(to, r.wmax, TRUE, "local"),
               LoopOf(from, to, FALSE, "none"), LoopOf(r.wmin, from, TRUE, "local"),
               LoopOf(0, r.smax, TRUE, "sink"))
    BY <1>6, <1>9
  <2>3. QED
    BY <2>1, <2>2, FiveOfLoops
<1>10. QED
  BY <1>7, <1>8, <1>9

LEMMA QueryLoopTypes ==
    ASSUME c \in Launches, NEW b \in Nat, NEW i \in Nat, range[<<b, i>>] \in TileRange
    PROVE  QueryLoops(b, i) \in Seq(LoopSet)
<1> DEFINE r == range[<<b, i>>]
           diagonal == IF c.kind = "full" THEN r.min
                       ELSE Most(r.min, CeilDiv(c, QueryEnd(c, b), c.tm))
           nomask == IF IsLocal(c) THEN r.max
                     ELSE IF splits # 0 THEN Least(diagonal, r.max) ELSE diagonal
           edge   == c.near + c.right
           right  == Most(r.wmin, CeilDiv(c, QueryEnd(c, b) + edge, c.tm))
           left1  == Least(r.wmax, Quot(c, QueryStart(c, b) + edge + c.left, c.tm))
           wfrom  == Within(right, r.wmin, r.wmax)
           wto    == Within(Most(left1, right), wfrom, r.wmax)
           masked == IF c.kind = "full" THEN r.min ELSE nomask
<1>1. /\ r.min \in Int /\ r.max \in Int /\ r.wmin \in Int /\ r.wmax \in Int
      /\ r.smin \in Int /\ r.smax \in Int
  BY DEF TileRange
<1>2. c.kind \in Masks
  BY LaunchFacts DEF Masks
<1>3. CeilDiv(c, QueryEnd(c, b), c.tm) \in Int /\ right \in Int /\ left1 \in Int
  <2>1. /\ IsProblem(c) /\ {c.near, c.right, c.left} \subseteq Nat
        /\ QueryStart(c, b) \in Int /\ QueryEnd(c, b) \in Int
    BY LaunchFacts, QueryTypes
  <2>2. QueryEnd(c, b) + edge \in Int /\ QueryStart(c, b) + edge + c.left \in Int
    BY <2>1
  <2> HIDE DEF edge
  <2>3. /\ CeilDiv(c, QueryEnd(c, b), c.tm) \in Int
        /\ CeilDiv(c, QueryEnd(c, b) + edge, c.tm) \in Int
        /\ Quot(c, QueryStart(c, b) + edge + c.left, c.tm) \in Int
    BY <2>1, <2>2, Bounds
  <2>4. QED
    BY <1>1, <2>3, LeastMost
<1>4. diagonal \in Int
  BY <1>1, <1>3, LeastMost
<1>5. nomask \in Int /\ masked \in Int
  <2> HIDE DEF diagonal
  <2>1. QED
    BY <1>1, <1>4, LeastMost
<1>6. wfrom \in Int /\ wto \in Int
  <2> HIDE DEF right, left1
  <2>1. Most(left1, right) \in Int
    BY <1>3, LeastMost
  <2>2. QED
    BY <1>1, <1>3, <2>1, WithinTypes
<1>7. QueryLoops(b, i) =
        IF IsLocal(c)
        THEN Five(LoopOf(r.min, masked, TRUE, c.kind), LoopOf(r.wmin, wfrom, TRUE, "local"),
                  LoopOf(wfrom, wto, FALSE, "none"), LoopOf(wto, r.wmax, TRUE, "local"),
                  LoopOf(r.smin, r.smax, TRUE, "sink"))
        ELSE <<LoopOf(r.min, masked, TRUE, c.kind)>>
               \o <<LoopOf(nomask, r.max, FALSE, "none")>>
  BY DEF QueryLoops, Loop, LoopOf, Five
<1> HIDE DEF r, diagonal, nomask, masked, right, left1, wfrom, wto
<1>8. CASE ~IsLocal(c)
  <2>1. /\ LoopOf(r.min, masked, TRUE, c.kind) \in LoopSet
        /\ LoopOf(nomask, r.max, FALSE, "none") \in LoopSet
    BY <1>1, <1>2, <1>5 DEF LoopOf, LoopSet, Masks
  <2>2. QED
    BY <1>7, <1>8, <2>1, PairOfLoops
<1>9. CASE IsLocal(c)
  <2>1. /\ LoopOf(r.min, masked, TRUE, c.kind) \in LoopSet
        /\ LoopOf(r.wmin, wfrom, TRUE, "local") \in LoopSet
        /\ LoopOf(wfrom, wto, FALSE, "none") \in LoopSet
        /\ LoopOf(wto, r.wmax, TRUE, "local") \in LoopSet
        /\ LoopOf(r.smin, r.smax, TRUE, "sink") \in LoopSet
    BY <1>1, <1>2, <1>5, <1>6 DEF LoopOf, LoopSet, Masks
  <2>2. QED
    BY <1>7, <1>9, <2>1, FiveOfLoops
<1>10. QED
  BY <1>8, <1>9

LEMMA ProgramLoops ==
    ASSUME c \in Launches, range = InitialRange, NEW p \in Programs
    PROVE  /\ Loops(p) \in Seq(LoopSet) /\ Len(Loops(p)) \in Nat
           /\ DOMAIN Loops(p) = 1 .. Len(Loops(p))
           /\ \A j \in 1 .. Len(Loops(p)) :
                Loops(p)[j].from \in Int /\ Loops(p)[j].to \in Int
<1>1. p[1] \in Nat /\ p[2] \in Nat /\ p = <<p[1], p[2]>>
  BY ProgramTypes
<1>2. Loops(p) \in Seq(LoopSet)
  <2>1. CASE Kernel = "bwd"
    <3>1. range[<<p[1], p[2]>>] \in TileRange
      BY <1>1, <2>1, RangeTypes
    <3>2. QED
      BY <1>1, <2>1, <3>1, QueryLoopTypes DEF Loops
  <2>2. CASE Kernel # "bwd"
    <3>1. range[<<p[1], p[2]>>] \in KeyRange
      BY <1>1, <2>2, RangeTypes
    <3>2. KeyLoops(p[1], p[2]) \in Seq(LoopSet) /\ <<>> \in Seq(LoopSet)
      BY <1>1, <2>2, <3>1, KeyLoopTypes
    <3>3. QED
      BY <2>2, <3>2 DEF Loops
  <2>3. QED
    BY <2>1, <2>2
<1>3. \A j \in 1 .. Len(Loops(p)) : Loops(p)[j] \in LoopSet
  BY <1>2
<1>4. QED
  BY <1>2, <1>3 DEF LoopSet

-----------------------------------------------------------------------------
(* The steps of the kernels, whatever they are called.                     *)
VisitsBlock ==
    /\ InLoop /\ Stays
    /\ \/ kept' = kept \union {<<at, n>>} /\ left' = left
       \/ left' = left \union {<<at, n>>} /\ kept' = kept
    /\ n' = IF Kernel = "bwd" THEN n + 1 ELSE n - 1
    /\ Kernel = "bwd" \/ Prefetch \/ ScoreNext

EntersLoop == LeavesLoop /\ \E verdicts \in SUBSET BOOLEAN : EnterLoop(at + 1, verdicts)

LEMMA Steps ==
    ASSUME [Next]_vars
    PROVE  \/ VisitsBlock
           \/ \E p \in pending : StoreEmpty(p) \/ Begin(p)
           \/ EntersLoop \/ Store \/ Merge
           \/ UNCHANGED vars
<1>1. CASE Around
  <2>1. NextLoop => EntersLoop
    BY DEF NextLoop, EntersLoop
  <2>2. NextGatedLoop => EntersLoop
    BY DEF NextGatedLoop, EntersLoop
  <2>3. QED
    BY <1>1, <2>1, <2>2 DEF Around
<1>2. ASSUME NEW w, Accumulate(w)
      PROVE  kept' = kept \union {<<at, n>>} /\ left' = left
  BY <1>2 DEF Accumulate
<1>3. ASSUME Drop
      PROVE  left' = left \union {<<at, n>>} /\ kept' = kept
  BY <1>3 DEF Drop
<1>4. ASSUME SparseSoftmax
      PROVE  \/ kept' = kept \union {<<at, n>>} /\ left' = left
             \/ left' = left \union {<<at, n>>} /\ kept' = kept
  BY <1>2, <1>3, <1>4 DEF SparseSoftmax, DropNegligible
<1>5. ASSUME InLoop, Stays, Kernel # "bwd", Prefetch \/ ScoreNext,
             \/ kept' = kept \union {<<at, n>>} /\ left' = left
             \/ left' = left \union {<<at, n>>} /\ kept' = kept
      PROVE  VisitsBlock
  BY <1>5 DEF VisitsBlock, Prefetch, ScoreNext
<1>6. CASE Kernel # "bwd" /\ (FwdInnerDense \/ DecInnerDense)
  BY <1>2, <1>5, <1>6 DEF FwdInnerDense, DecInnerDense
<1>7. CASE Kernel # "bwd" /\ (FwdInnerSparse \/ DecInnerSparse)
  BY <1>4, <1>5, <1>7 DEF FwdInnerSparse, DecInnerSparse
<1>8. CASE Kernel # "bwd" /\ (FwdInnerGated \/ DecInnerGated)
  BY <1>3, <1>4, <1>5, <1>8 DEF FwdInnerGated, DecInnerGated
<1>9. CASE Kernel = "bwd" /\ (BwdInnerDense \/ BwdInnerSparse \/ BwdInnerGated)
  BY <1>3, <1>9 DEF BwdInnerDense, BwdInnerSparse, BwdInnerGated, BwdVisit, VisitsBlock
<1>10. CASE UNCHANGED vars
  BY <1>10
<1>11. QED
  BY <1>1, <1>6, <1>7, <1>8, <1>9, <1>10
  DEF Next, Is, FwdDense, FwdSparse, FwdGated, DecDense, DecSparse, DecGated,
      BwdDense, BwdSparse, BwdGated, Finished

(* What is a function of the launch and of its ranges stays what it is. *)
LEMMA LaunchStays ==
    ASSUME c' = c, range' = range
    PROVE  /\ \A p : Loops(p)' = Loops(p)
           /\ \A loop, row, k : KeptBy(loop, row, k)' = KeptBy(loop, row, k)
           /\ \A row, k : Outer(row, k)' = Outer(row, k) /\ Inner(row, k)' = Inner(row, k)
           /\ Programs' = Programs /\ Pairs' = Pairs /\ Kernel' = Kernel
           /\ InitialRange' = InitialRange
<1>1. \A p : Loops(p)' = Loops(p)
  BY DEF Loops, EmptyN, KeyLoops, QueryLoops, WindowLoops, FullFrom, Kernel, splits
<1>2. \A loop, row, k : KeptBy(loop, row, k)' = KeptBy(loop, row, k)
  BY DEF KeptBy
<1>3. \A row, k : Outer(row, k)' = Outer(row, k) /\ Inner(row, k)' = Inner(row, k)
  BY DEF Outer, Inner, RowTile, KeyBlock, Kernel
<1>4. Programs' = Programs /\ Pairs' = Pairs /\ Kernel' = Kernel
  BY DEF Programs, Blocks, Pairs, Rows, Keys, Kernel, splits
<1>5. InitialRange' = InitialRange
  BY <1>4 DEF InitialRange, ProgramM, ProgramN, GatherN, splits, Kernel
<1>6. QED
  BY <1>1, <1>2, <1>3, <1>4, <1>5

-----------------------------------------------------------------------------
(* The invariant: the running program has accumulated or dropped exactly   *)
(* the blocks of its loops that lie behind it.                             *)
BlocksOf(p) ==
    {v \in (1 .. Len(Loops(p))) \X Int : v[2] \in Loops(p)[v[1]].from .. Loops(p)[v[1]].to - 1}
IsBehind(v) == v[1] < at \/ (v[1] = at /\ IF Kernel = "bwd" THEN v[2] < n ELSE v[2] > n)

Fixed    == c \in Launches /\ range = InitialRange
Counters ==
    counted \in [Pairs -> Nat] /\ uncounted \in [Pairs -> Nat] /\ pending \subseteq Programs
Place    == Running =>
    /\ prog \in pending /\ at \in 1 .. Len(Loops(prog)) + 1 /\ n \in Int
    /\ at <= Len(Loops(prog)) => IF Kernel = "bwd" THEN n >= cur.from ELSE n <= cur.to - 1
Progress == Running =>
    /\ kept \cap left = {}
    /\ kept \union left = {v \in BlocksOf(prog) : IsBehind(v)}

Inv == Fixed /\ Counters /\ Place /\ Progress /\ OwnTile

LEMMA InvInit ==
    ASSUME Init
    PROVE  Inv
<1>1. ~Running /\ Fixed
  BY DEF Init, Running, Fixed
<1>2. Counters
  BY DEF Init, Counters
<1>3. QED
  BY <1>1, <1>2 DEF Inv, Place, Progress, OwnTile, InLoop

(* A program is not the empty sequence that stands for none. *)
LEMMA ProgramRuns ==
    ASSUME NEW p \in Programs
    PROVE  p # <<>>
BY DEF Programs

LEMMA FixedStays ==
    ASSUME Inv, [Next]_vars
    PROVE  Fixed' /\ c' = c /\ range' = range
<1>1. c' = c /\ range' = range
  BY Steps DEF VisitsBlock, Stays, StoreEmpty, Begin, EntersLoop, EnterLoop, Store, Merge, vars
<1>2. QED
  BY <1>1, LaunchStays DEF Inv, Fixed

LEMMA VisitKeepsInv ==
    ASSUME Inv, VisitsBlock
    PROVE  Inv'
<1> DEFINE L == Loops(prog)
           x == <<at, n>>
<1>1. c' = c /\ range' = range /\ prog' = prog /\ at' = at /\ pending' = pending
      /\ counted' = counted /\ uncounted' = uncounted /\ Running' /\ Running
  BY DEF VisitsBlock, Stays, output, Running, InLoop
<1>2. /\ L' = L /\ BlocksOf(prog)' = BlocksOf(prog) /\ Kernel' = Kernel /\ cur' = cur
      /\ Pairs' = Pairs /\ Programs' = Programs /\ Fixed'
  BY <1>1, LaunchStays DEF BlocksOf, cur, Inv, Fixed
<1>3. Counters'
  BY <1>1, <1>2 DEF Inv, Counters
<1>4. /\ prog \in Programs /\ DOMAIN L = 1 .. Len(L) /\ Len(L) \in Nat
      /\ at \in 1 .. Len(L) /\ n \in Int /\ n \in cur.from .. cur.to - 1 /\ cur = L[at]
      /\ cur.from \in Int /\ cur.to \in Int
  <2>1. prog \in Programs /\ c \in Launches /\ range = InitialRange
    BY <1>1 DEF Inv, Fixed, Counters, Place
  <2>2. /\ at \in 1 .. Len(L) + 1 /\ at <= Len(L) /\ n \in Int
        /\ n \in cur.from .. cur.to - 1 /\ cur = L[at]
    BY <1>1 DEF Inv, Place, VisitsBlock, InLoop, cur
  <2>3. /\ DOMAIN L = 1 .. Len(L) /\ Len(L) \in Nat
        /\ \A j \in 1 .. Len(L) : L[j].from \in Int /\ L[j].to \in Int
    BY <2>1, ProgramLoops
  <2> HIDE DEF L
  <2>4. QED
    BY <2>1, <2>2, <2>3
<1>5. n' = IF Kernel = "bwd" THEN n + 1 ELSE n - 1
  BY DEF VisitsBlock
<1>6. Place'
  <2>1. IF Kernel = "bwd" THEN n' >= cur.from ELSE n' <= cur.to - 1
    BY <1>4, <1>5
  <2>2. n' \in Int
    BY <1>4, <1>5
  <2> HIDE DEF L
  <2>3. QED
    BY <1>1, <1>2, <1>4, <2>1, <2>2 DEF Place, Inv, L
<1>12. BlocksOf(prog) = {v \in (1 .. Len(L)) \X Int : v[2] \in L[v[1]].from .. L[v[1]].to - 1}
  BY DEF BlocksOf
<1>13. n \in L[at].from .. L[at].to - 1 /\ Len(L) \in Nat
  BY <1>4
<1> HIDE DEF L
<1>7. x \in BlocksOf(prog) /\ ~IsBehind(x)
  <2>1. x \in (1 .. Len(L)) \X Int /\ x[1] = at /\ x[2] = n
    BY <1>4
  <2>2. ~IsBehind(x)
    BY <1>4, <2>1 DEF IsBehind
  <2>3. QED
    BY <1>12, <1>13, <2>1, <2>2
<1>8. \A v \in BlocksOf(prog) : IsBehind(v)' <=> IsBehind(v) \/ v = x
  <2> SUFFICES ASSUME NEW v \in BlocksOf(prog)
               PROVE  IsBehind(v)' <=> IsBehind(v) \/ v = x
    OBVIOUS
  <2>1. v[1] \in Nat /\ v[2] \in Int /\ v = <<v[1], v[2]>>
    BY <1>12, <1>13
  <2>2. v = x <=> v[1] = at /\ v[2] = n
    BY <2>1
  <2>3. QED
    BY <1>1, <1>2, <1>4, <1>5, <2>1, <2>2 DEF IsBehind
<1>9. Progress'
  <2>1. /\ kept \cap left = {}
        /\ kept \union left = {v \in BlocksOf(prog) : IsBehind(v)}
    BY <1>1 DEF Inv, Progress
  <2>2. x \notin kept \union left
    BY <1>7, <2>1
  <2>3. kept' \cap left' = {} /\ kept' \union left' = kept \union left \union {x}
    BY <2>1, <2>2 DEF VisitsBlock
  <2>4. kept' \union left' = {v \in BlocksOf(prog) : IsBehind(v)'}
    BY <1>7, <1>8, <2>1, <2>3
  <2>5. QED
    BY <1>1, <1>2, <2>3, <2>4 DEF Progress
<1>10. OwnTile'
  <2>1. CASE Kernel = "bwd"
    BY <1>2, <2>1 DEF OwnTile
  <2>5. InLoop' => n' \in cur.from .. cur.to - 1
    BY <1>2 DEF InLoop
  <2>6. InLoop' /\ n' = n - 1 => n > cur.from
    BY <1>4, <2>5
  <2>2. CASE Prefetch /\ Kernel # "bwd"
    BY <2>2, <2>6 DEF OwnTile, Prefetch
  <2>3. CASE ScoreNext /\ Kernel # "bwd"
    BY <2>3, <2>6 DEF OwnTile, ScoreNext
  <2>4. QED
    BY <2>1, <2>2, <2>3 DEF VisitsBlock
<1>11. QED
  BY <1>2, <1>3, <1>6, <1>9, <1>10 DEF Inv

LEMMA BeginKeepsInv ==
    ASSUME Inv, NEW p \in pending, Begin(p)
    PROVE  Inv'
<1> DEFINE L == Loops(p)
<1>1. /\ c' = c /\ range' = range /\ prog' = p /\ at' = 1 /\ pending' = pending
      /\ counted' = counted /\ uncounted' = uncounted /\ kept' = {} /\ left' = {}
      /\ n' = FirstBlock(L[1]) /\ tile' = n' /\ L # <<>>
  BY DEF Begin, output
<1>2. /\ L' = L /\ BlocksOf(p)' = BlocksOf(p) /\ Kernel' = Kernel
      /\ Pairs' = Pairs /\ Programs' = Programs /\ Fixed' /\ p \in Programs
  BY <1>1, LaunchStays DEF BlocksOf, Inv, Fixed, Counters
<1>3. Counters'
  BY <1>1, <1>2 DEF Inv, Counters
<1>4. /\ DOMAIN L = 1 .. Len(L) /\ Len(L) \in Nat \ {0} /\ cur' = L[1]
      /\ \A j \in 1 .. Len(L) : L[j].from \in Int /\ L[j].to \in Int
  <2>1. L \in Seq(LoopSet) /\ DOMAIN L = 1 .. Len(L) /\ Len(L) \in Nat
    BY <1>2, ProgramLoops DEF Inv, Fixed
  <2>2. \A j \in 1 .. Len(L) : L[j].from \in Int /\ L[j].to \in Int
    BY <1>2, ProgramLoops DEF Inv, Fixed
  <2>3. cur' = L[1]
    BY <1>1, <1>2 DEF cur
  <2> HIDE DEF L
  <2>4. Len(L) # 0
    BY <1>1, <2>1
  <2>5. QED
    BY <2>1, <2>2, <2>3, <2>4
<1>5. BlocksOf(p) = {v \in (1 .. Len(L)) \X Int : v[2] \in L[v[1]].from .. L[v[1]].to - 1}
  BY DEF BlocksOf
<1>6. Running' /\ Loops(prog)' = L /\ BlocksOf(prog)' = BlocksOf(p)
  BY <1>1, <1>2, ProgramRuns DEF Running
<1> HIDE DEF L
<1>7. L[1].from \in Int /\ L[1].to \in Int
  BY <1>4
<1>8. Place'
  BY <1>1, <1>2, <1>4, <1>6, <1>7 DEF Place, FirstBlock, Kernel
<1>9. Progress'
  <2>1. \A v \in BlocksOf(p) : ~IsBehind(v)'
    <3> SUFFICES ASSUME NEW v \in BlocksOf(p)
                 PROVE  ~IsBehind(v)'
      OBVIOUS
    <3>1. v[1] \in 1 .. Len(L) /\ v[2] \in Int /\ v[2] \in L[v[1]].from .. L[v[1]].to - 1
      BY <1>5
    <3>2. v[1] = 1 => IF Kernel = "bwd" THEN v[2] >= L[1].from ELSE v[2] <= L[1].to - 1
      BY <1>7, <3>1
    <3>3. n' = IF Kernel = "bwd" THEN L[1].from ELSE L[1].to - 1
      BY <1>1 DEF FirstBlock
    <3>4. QED
      BY <1>1, <1>2, <1>4, <1>7, <3>1, <3>2, <3>3 DEF IsBehind
  <2>2. QED
    BY <1>1, <1>6, <2>1 DEF Progress
<1>10. OwnTile'
  BY <1>1 DEF OwnTile
<1>11. QED
  BY <1>2, <1>3, <1>8, <1>9, <1>10 DEF Inv

LEMMA EnterKeepsInv ==
    ASSUME Inv, EntersLoop
    PROVE  Inv'
<1> DEFINE L == Loops(prog)
<1>1. /\ c' = c /\ range' = range /\ prog' = prog /\ at' = at + 1 /\ pending' = pending
      /\ counted' = counted /\ uncounted' = uncounted /\ kept' = kept /\ left' = left
      /\ Running /\ Running' /\ at <= Len(L) /\ ~InLoop
      /\ at + 1 <= Len(L) => n' = FirstBlock(L[at + 1])
      /\ at + 1 > Len(L) => n' = n
      /\ at + 1 <= Len(L) /\ L[at + 1].to > L[at + 1].from => tile' = n'
  BY DEF EntersLoop, EnterLoop, LeavesLoop, output, Running
<1>2. /\ L' = L /\ BlocksOf(prog)' = BlocksOf(prog) /\ Kernel' = Kernel
      /\ Pairs' = Pairs /\ Programs' = Programs /\ Fixed' /\ prog \in Programs /\ prog \in pending
  BY <1>1, LaunchStays DEF BlocksOf, Inv, Fixed, Counters, Place
<1>3. Counters'
  BY <1>1, <1>2 DEF Inv, Counters
<1>4. /\ Len(L) \in Nat /\ \A j \in 1 .. Len(L) : L[j].from \in Int /\ L[j].to \in Int
  BY <1>2, ProgramLoops DEF Inv, Fixed
<1>5. BlocksOf(prog) = {v \in (1 .. Len(L)) \X Int : v[2] \in L[v[1]].from .. L[v[1]].to - 1}
  BY DEF BlocksOf
<1>6. /\ at \in 1 .. Len(L) + 1 /\ n \in Int
      /\ IF Kernel = "bwd" THEN n >= L[at].from ELSE n <= L[at].to - 1
      /\ ~(n \in L[at].from .. L[at].to - 1)
      /\ cur' = L[at + 1]
  BY <1>1, <1>2 DEF Inv, Place, cur, InLoop
<1>7. FirstBlock(L[at + 1]) = IF Kernel = "bwd" THEN L[at + 1].from ELSE L[at + 1].to - 1
  BY DEF FirstBlock
<1>8. OwnTile'
  <2> SUFFICES ASSUME InLoop', ~gated'
               PROVE  tile' = n'
    BY DEF OwnTile
  <2>1. at + 1 <= Len(L) /\ n' \in L[at + 1].from .. L[at + 1].to - 1
    BY <1>1, <1>2, <1>6 DEF InLoop
  <2> HIDE DEF L
  <2>2. L[at + 1].to > L[at + 1].from
    BY <1>4, <1>6, <2>1
  <2>3. QED
    BY <1>1, <2>1, <2>2
<1> HIDE DEF L
<1>9. L[at].from \in Int /\ L[at].to \in Int /\ at \in Int
  BY <1>1, <1>4, <1>6
<1>10. at + 1 <= Len(L) => L[at + 1].from \in Int /\ L[at + 1].to \in Int
  BY <1>4, <1>6
<1>11. Place'
  <2>1. at + 1 \in 1 .. Len(L) + 1
    BY <1>1, <1>4, <1>6
  <2>2. n' \in Int /\ (at + 1 <= Len(L) =>
                         IF Kernel = "bwd" THEN n' >= L[at + 1].from ELSE n' <= L[at + 1].to - 1)
    BY <1>1, <1>4, <1>6, <1>7, <1>10
  <2>3. QED
    BY <1>1, <1>2, <1>6, <2>1, <2>2 DEF Place, L
<1>12. \A v \in BlocksOf(prog) : IsBehind(v)' <=> IsBehind(v)
  <2> SUFFICES ASSUME NEW v \in BlocksOf(prog)
               PROVE  IsBehind(v)' <=> IsBehind(v)
    OBVIOUS
  <2>1. v[1] \in 1 .. Len(L) /\ v[2] \in Int /\ v[2] \in L[v[1]].from .. L[v[1]].to - 1
    BY <1>5
  <2>2. CASE v[1] = at
    <3>1. IF Kernel = "bwd" THEN v[2] < n ELSE v[2] > n
      BY <1>6, <1>9, <2>1, <2>2
    <3>2. QED
      BY <1>1, <1>9, <2>2, <3>1 DEF IsBehind
  <2>3. CASE v[1] = at + 1
    <3>1. at + 1 <= Len(L)
      BY <1>4, <2>1, <2>3
    <3>2. ~(IF Kernel = "bwd" THEN v[2] < n' ELSE v[2] > n')
      BY <1>1, <1>7, <1>10, <2>1, <2>3, <3>1
    <3>3. QED
      BY <1>1, <1>2, <1>9, <2>3, <3>2 DEF IsBehind
  <2>4. CASE v[1] # at /\ v[1] # at + 1
    BY <1>1, <1>4, <1>9, <2>1, <2>4 DEF IsBehind
  <2>5. QED
    BY <2>2, <2>3, <2>4
<1>13. Progress'
  BY <1>1, <1>2, <1>12 DEF Progress, Inv
<1>14. QED
  BY <1>2, <1>3, <1>8, <1>11, <1>13 DEF Inv

-----------------------------------------------------------------------------
(* What a program stores: each of its pairs as often as its loops reach it. *)
Labels(T, y) == {<<j, y>> : j \in T}

LEMMA Labelled ==
    ASSUME NEW T, IsFiniteSet(T), NEW y
    PROVE  IsFiniteSet(Labels(T, y)) /\ Cardinality(Labels(T, y)) = Cardinality(T)
<1> DEFINE U == Labels(T, y)
           f == [j \in T |-> <<j, y>>]
<1>1. f \in [T -> U]
  BY DEF Labels
<1>2. \A j \in T, i \in T : f[j] = f[i] => j = i
  OBVIOUS
<1>3. \A t \in U : \E j \in T : f[j] = t
  BY DEF Labels
<1>4. DOMAIN f = T
  OBVIOUS
<1> HIDE DEF f, U
<1>5. f \in Bijection(T, U)
  BY <1>1, <1>2, <1>3, <1>4 DEF Bijection, Injection, Surjection, IsInjective
<1>6. ExistsBijection(T, U)
  BY <1>5 DEF ExistsBijection
<1>7. QED
  BY <1>6, FS_Bijection DEF U

LEMMA StoredTimes ==
    ASSUME Inv, Running, at > Len(Loops(prog)), NEW row, NEW k
    PROVE  /\ Covered(kept, row, k) \in Nat /\ Covered(left, row, k) \in Nat
           /\ Covered(kept, row, k) + Covered(left, row, k) = Times(prog, row, k)
<1> DEFINE L == Loops(prog)
           y == Inner(row, k)
           OfPair(vs) == {v \in vs : v[2] = y /\ KeptBy(L[v[1]], row, k)}
           T == {j \in DOMAIN L : y \in L[j].from .. L[j].to - 1 /\ KeptBy(L[j], row, k)}
<1>1. prog \in Programs /\ at = Len(L) + 1 /\ Len(L) \in Nat /\ DOMAIN L = 1 .. Len(L)
  <2>1. prog \in Programs /\ c \in Launches /\ range = InitialRange
    BY DEF Inv, Fixed, Counters, Place
  <2>2. Len(L) \in Nat /\ DOMAIN L = 1 .. Len(L)
    BY <2>1, ProgramLoops
  <2>3. at \in 1 .. Len(L) + 1
    BY DEF Inv, Place
  <2> HIDE DEF L
  <2>4. QED
    BY <2>1, <2>2, <2>3 DEF L
<1>2. \A j \in 1 .. Len(L) : L[j].from \in Int /\ L[j].to \in Int
  BY <1>1, ProgramLoops DEF Inv, Fixed
<1>3. BlocksOf(prog) = {v \in (1 .. Len(L)) \X Int : v[2] \in L[v[1]].from .. L[v[1]].to - 1}
  BY DEF BlocksOf
<1>4. kept \cap left = {} /\ kept \union left = {v \in BlocksOf(prog) : IsBehind(v)}
  BY DEF Inv, Progress
<1>5. /\ Covered(kept, row, k) = IF prog[1] # Outer(row, k) THEN 0 ELSE Cardinality(OfPair(kept))
      /\ Covered(left, row, k) = IF prog[1] # Outer(row, k) THEN 0 ELSE Cardinality(OfPair(left))
      /\ Times(prog, row, k) = IF prog[1] # Outer(row, k) THEN 0 ELSE Cardinality(T)
  BY DEF Covered, Times
<1> HIDE DEF L, y
<1>6. kept \union left = BlocksOf(prog)
  BY <1>1, <1>3, <1>4 DEF IsBehind
<1>7. OfPair(kept) \union OfPair(left) = Labels(T, y)
  <2>1. OfPair(BlocksOf(prog)) = Labels(T, y)
    <3>1. ASSUME NEW v \in OfPair(BlocksOf(prog))
          PROVE  v \in Labels(T, y)
      <4>1. v = <<v[1], y>> /\ v[1] \in T
        BY <1>1, <1>3
      <4>2. QED
        BY <4>1 DEF Labels
    <3>2. ASSUME NEW j \in T
          PROVE  <<j, y>> \in OfPair(BlocksOf(prog))
      <4>1. j \in 1 .. Len(L) /\ y \in L[j].from .. L[j].to - 1 /\ y \in Int
        BY <1>1, <1>2
      <4>2. <<j, y>> \in BlocksOf(prog)
        BY <1>3, <4>1
      <4>3. QED
        BY <4>2
    <3>3. QED
      BY <3>1, <3>2 DEF Labels
  <2>2. QED
    BY <1>6, <2>1
<1>8. IsFiniteSet(T)
  <2>1. IsFiniteSet(1 .. Len(L))
    BY <1>1, FS_Interval
  <2>2. QED
    BY <1>1, <2>1, FS_Subset
<1> HIDE DEF T
<1>9. /\ IsFiniteSet(OfPair(kept) \union OfPair(left))
      /\ Cardinality(OfPair(kept) \union OfPair(left)) = Cardinality(T)
  <2> HIDE DEF OfPair
  <2>1. QED
    BY <1>7, <1>8, Labelled
<1>10. OfPair(kept) \cap OfPair(left) = {}
  BY <1>4
<1> HIDE DEF OfPair
<1>11. IsFiniteSet(OfPair(kept)) /\ IsFiniteSet(OfPair(left))
  BY <1>9, FS_Subset
<1>12. /\ Cardinality(OfPair(kept)) \in Nat /\ Cardinality(OfPair(left)) \in Nat
       /\ Cardinality(OfPair(kept)) + Cardinality(OfPair(left)) = Cardinality(T)
  <2>1. /\ Cardinality(OfPair(kept)) \in Nat /\ Cardinality(OfPair(left)) \in Nat
        /\ Cardinality({}) = 0
    BY <1>11, FS_EmptySet, FS_CardinalityType
  <2>2. Cardinality(OfPair(kept) \union OfPair(left)) =
          Cardinality(OfPair(kept)) + Cardinality(OfPair(left))
            - Cardinality(OfPair(kept) \cap OfPair(left))
    BY <1>11, FS_Union
  <2>3. Cardinality(OfPair(kept) \cap OfPair(left)) = 0
    BY <1>10, <2>1
  <2> DEFINE a == Cardinality(OfPair(kept))
             b == Cardinality(OfPair(left))
  <2>4. Cardinality(T) = a + b - 0
    BY <1>9, <2>2, <2>3
  <2>5. QED
    <3>1. a \in Nat /\ b \in Nat
      BY <2>1
    <3> HIDE DEF a, b
    <3>2. a + b = Cardinality(T)
      BY <2>4, <3>1
    <3>3. QED
      BY <3>1, <3>2 DEF a, b
<1>13. QED
  BY <1>5, <1>12

LEMMA StoreKeepsInv ==
    ASSUME Inv, Store
    PROVE  Inv'
<1>1. /\ c' = c /\ range' = range /\ ~Running' /\ Running /\ at > Len(Loops(prog))
      /\ pending' = pending \ {prog}
      /\ counted' = [x \in Pairs |-> counted[x] + Covered(kept, x[1], x[2])]
      /\ uncounted' = [x \in Pairs |-> uncounted[x] + Covered(left, x[1], x[2])]
  BY DEF Store, Running
<1>2. Pairs' = Pairs /\ Programs' = Programs /\ Fixed'
  BY <1>1, LaunchStays DEF Inv, Fixed
<1>3. \A x \in Pairs : Covered(kept, x[1], x[2]) \in Nat /\ Covered(left, x[1], x[2]) \in Nat
  BY <1>1, StoredTimes
<1>4. counted \in [Pairs -> Nat] /\ uncounted \in [Pairs -> Nat] /\ pending \subseteq Programs
  BY DEF Inv, Counters
<1>5. counted' \in [Pairs -> Nat] /\ uncounted' \in [Pairs -> Nat]
  <2>1. \A x \in Pairs : counted[x] + Covered(kept, x[1], x[2]) \in Nat
    BY <1>3, <1>4
  <2>2. \A x \in Pairs : uncounted[x] + Covered(left, x[1], x[2]) \in Nat
    BY <1>3, <1>4
  <2>3. QED
    BY <1>1, <2>1, <2>2
<1>6. Counters'
  BY <1>1, <1>2, <1>4, <1>5 DEF Counters
<1>7. QED
  BY <1>1, <1>2, <1>6 DEF Inv, Place, Progress, OwnTile, InLoop

LEMMA RestKeepsInv ==
    ASSUME Inv, ~Running, c' = c, range' = range, UNCHANGED local, pending' \subseteq pending,
           UNCHANGED <<counted, uncounted>>
    PROVE  Inv'
<1>1. Pairs' = Pairs /\ Programs' = Programs /\ Fixed' /\ ~Running'
  BY LaunchStays DEF Inv, Fixed, Running, local
<1>2. Counters'
  BY <1>1 DEF Counters, Inv
<1>3. QED
  BY <1>1, <1>2 DEF Inv, Place, Progress, OwnTile, InLoop

LEMMA StutterKeepsInv ==
    ASSUME Inv, UNCHANGED vars
    PROVE  Inv'
<1>1. c' = c /\ range' = range /\ UNCHANGED local /\ UNCHANGED output
  BY DEF vars
<1>2. UNCHANGED <<prog, at, n, tile, gated, kept, left, counted, uncounted, pending>>
  BY <1>1 DEF local, output
<1>3. /\ Pairs' = Pairs /\ Programs' = Programs /\ Fixed' /\ Kernel' = Kernel
      /\ Loops(prog)' = Loops(prog)
  BY <1>1, <1>2, LaunchStays DEF Inv, Fixed
<1>4. cur' = cur /\ Running' = Running /\ InLoop' = InLoop /\ BlocksOf(prog)' = BlocksOf(prog)
  BY <1>2, <1>3 DEF cur, Running, InLoop, BlocksOf
<1>5. Counters'
  BY <1>2, <1>3 DEF Inv, Counters
<1>6. Place'
  BY <1>2, <1>3, <1>4 DEF Inv, Place
<1>7. \A v : IsBehind(v)' = IsBehind(v)
  BY <1>2, <1>3 DEF IsBehind
<1>8. Progress'
  BY <1>2, <1>4, <1>7 DEF Inv, Progress
<1>9. OwnTile'
  BY <1>2, <1>3, <1>4 DEF Inv, OwnTile
<1>10. QED
  BY <1>3, <1>5, <1>6, <1>8, <1>9 DEF Inv

LEMMA InvNext ==
    ASSUME Inv, [Next]_vars
    PROVE  Inv'
<1>1. CASE VisitsBlock
  BY <1>1, VisitKeepsInv
<1>2. ASSUME NEW p \in pending, StoreEmpty(p)
      PROVE  Inv'
  BY <1>2, RestKeepsInv DEF StoreEmpty, Idle
<1>3. ASSUME NEW p \in pending, Begin(p)
      PROVE  Inv'
  BY <1>3, BeginKeepsInv
<1>4. CASE EntersLoop
  BY <1>4, EnterKeepsInv
<1>5. CASE Store
  BY <1>5, StoreKeepsInv
<1>6. CASE Merge
  BY <1>6, RestKeepsInv DEF Merge, Idle
<1>7. CASE UNCHANGED vars
  BY <1>7, StutterKeepsInv
<1>8. QED
  BY <1>1, <1>2, <1>3, <1>4, <1>5, <1>6, <1>7, Steps

(* The scores that a program accumulates are those of the block it visits, *)
(* however many loops and splits there are and whatever the gate drops:    *)
(* the software pipelines of the forward and decode kernels.               *)
THEOREM ScoresOwnTile == Spec => []OwnTile
<1>1. Init => Inv
  BY InvInit
<1>2. Inv /\ [Next]_vars => Inv'
  BY InvNext
<1>3. Inv => OwnTile
  BY DEF Inv
<1>4. QED
  BY <1>1, <1>2, <1>3, PTL DEF Spec

-----------------------------------------------------------------------------
(* TritonAttn's definitions of the ranges, the loops and the pairs, which   *)
(* Launch instantiates with the launch and the ranges, are this module's.   *)
LEMMA SameRawN ==
    ASSUME NEW x, NEW m
    PROVE  Launch!RawN(x, m) = RawN(x, m)
BY DEF Launch!RawN, RawN, Launch!Least, Least, Launch!Most, Most, Launch!Quot, Quot,
    Launch!CeilDiv, CeilDiv, Launch!IsLocal, IsLocal, Launch!NumN, NumN,
    Launch!SinkBlocks, SinkBlocks, Launch!RowEnd, RowEnd, Launch!RowStart, RowStart,
    Launch!KeyStart, KeyStart, Launch!KeyEnd, KeyEnd, Launch!AfterSink, AfterSink,
    Launch!BlocksUpTo, BlocksUpTo

LEMMA SameClampN ==
    ASSUME NEW x, NEW r
    PROVE  Launch!ClampN(x, r) = ClampN(x, r)
BY DEF Launch!ClampN, ClampN, Launch!Least, Least, Launch!Most, Most, Launch!Quot, Quot,
    Launch!CeilDiv, CeilDiv, Launch!IsLocal, IsLocal

LEMMA SameRawM ==
    ASSUME NEW x, NEW m
    PROVE  Launch!RawM(x, m) = RawM(x, m)
BY DEF Launch!RawM, RawM, Launch!Least, Least, Launch!Most, Most, Launch!Quot, Quot,
    Launch!CeilDiv, CeilDiv, Launch!IsLocal, IsLocal, Launch!NumM, NumM,
    Launch!SinkBlocks, SinkBlocks, Launch!QueryStart, QueryStart, Launch!QueryEnd,
    QueryEnd

LEMMA SameClampM ==
    ASSUME NEW x, NEW r
    PROVE  Launch!ClampM(x, r) = ClampM(x, r)
BY DEF Launch!ClampM, ClampM, Launch!Least, Least, Launch!Most, Most, Launch!Quot, Quot,
    Launch!CeilDiv, CeilDiv, Launch!IsLocal, IsLocal

LEMMA SameSplitWindow ==
    ASSUME NEW x, NEW r, NEW i
    PROVE  Launch!SplitWindow(x, r, i) = SplitWindow(x, r, i)
BY DEF Launch!Least, Least, Launch!Most, Most, Launch!ShareStart, ShareStart,
    Launch!ShareSize, ShareSize, Launch!SplitWindow, SplitWindow

LEMMA SameSplitMainN ==
    ASSUME NEW x, NEW r, NEW i
    PROVE  Launch!SplitMainN(x, r, i) = SplitMainN(x, r, i)
BY DEF Launch!Least, Least, Launch!Most, Most, Launch!ShareStart, ShareStart,
    Launch!ShareSize, ShareSize, Launch!SplitMainN, SplitMainN

LEMMA SameSplitLocalN ==
    ASSUME NEW x, NEW m, NEW i, NEW r, NEW s
    PROVE  Launch!SplitLocalN(x, m, i, r, s) = SplitLocalN(x, m, i, r, s)
BY DEF Launch!SplitLocalN, SplitLocalN, Launch!LastSplit, LastSplit, Launch!NearFrom,
    NearFrom, Launch!SinkBlocks, SinkBlocks, Launch!KeyStart, KeyStart, Launch!RowStart,
    RowStart, Launch!BlocksUpTo, BlocksUpTo, Launch!Least, Least, Launch!Most, Most,
    Launch!Quot, Quot, Launch!CeilDiv, CeilDiv

LEMMA SameSplitN ==
    ASSUME NEW x, NEW m, NEW i
    PROVE  Launch!SplitN(x, m, i) = SplitN(x, m, i)
BY SameRawN, SameSplitWindow, SameSplitMainN, SameSplitLocalN DEF Launch!SplitN, SplitN,
    Launch!SplitRaw, SplitRaw, Launch!IsLocal, IsLocal

LEMMA SameSplitM ==
    ASSUME NEW x, NEW r, NEW n1, NEW i
    PROVE  Launch!SplitM(x, r, n1, i) = SplitM(x, r, n1, i)
BY DEF Launch!SplitM, SplitM, Launch!ShareStart, ShareStart, Launch!ShareSize,
    ShareSize, Launch!QueryEnd, QueryEnd, Launch!Least, Least, Launch!Most, Most,
    Launch!Quot, Quot, Launch!CeilDiv, CeilDiv, Launch!IsLocal, IsLocal

LEMMA SameProgramN ==
    ASSUME NEW m, NEW i
    PROVE  Launch!ProgramN(m, i) = ProgramN(m, i)
BY SameRawN, SameClampN, SameSplitN DEF Launch!ProgramN, ProgramN, Launch!GatherN,
    GatherN, Launch!ShareStart, ShareStart, Launch!ShareSize, ShareSize, Launch!NumN,
    NumN, Launch!Least, Least, Launch!Quot, Quot, Launch!CeilDiv, CeilDiv,
    Launch!splits, splits

LEMMA SameProgramM ==
    ASSUME NEW m, NEW i
    PROVE  Launch!ProgramM(m, i) = ProgramM(m, i)
BY SameRawM, SameClampM, SameSplitM DEF Launch!ProgramM, ProgramM, Launch!splits, splits

LEMMA SamePrograms ==
    Launch!Programs = Programs /\ Launch!Pairs = Pairs /\ Launch!Kernel = Kernel
BY DEF Launch!Programs, Programs, Launch!Blocks, Blocks, Launch!Pairs, Pairs,
    Launch!Rows, Rows, Launch!Keys, Keys, Launch!Kernel, Kernel, Launch!splits, splits,
    Launch!NumN, NumN, Launch!Most, Most, Launch!Quot, Quot, Launch!CeilDiv, CeilDiv

LEMMA SameRange ==
    Launch!InitialRange = InitialRange
BY SamePrograms, SameProgramN, SameProgramM DEF Launch!InitialRange, InitialRange

LEMMA SameWindowLoops ==
    ASSUME NEW m, NEW r
    PROVE  Launch!WindowLoops(m, r) = WindowLoops(m, r)
BY DEF Launch!WindowLoops, WindowLoops, Launch!Loop, Loop, Launch!Within, Within,
    Launch!FullFrom, FullFrom, Launch!MaskFrom, MaskFrom, Launch!KeyStart, KeyStart,
    Launch!KeyEnd, KeyEnd, Launch!RowStart, RowStart, Launch!RowEnd, RowEnd,
    Launch!Least, Least, Launch!Most, Most, Launch!Quot, Quot, Launch!CeilDiv, CeilDiv,
    Launch!IsLocal, IsLocal

LEMMA SameKeyLoops ==
    ASSUME NEW m, NEW i
    PROVE  Launch!KeyLoops(m, i) = KeyLoops(m, i)
BY SameWindowLoops DEF Launch!KeyLoops, KeyLoops, Launch!Loop, Loop, Launch!LastSplit,
    LastSplit, Launch!MaskFrom, MaskFrom, Launch!KeyStart, KeyStart, Launch!RowStart,
    RowStart, Launch!splits, splits, Launch!Kernel, Kernel, Launch!Least, Least,
    Launch!Most, Most, Launch!Quot, Quot, Launch!CeilDiv, CeilDiv, Launch!IsLocal,
    IsLocal

LEMMA SameQueryLoops ==
    ASSUME NEW m, NEW i
    PROVE  Launch!QueryLoops(m, i) = QueryLoops(m, i)
BY DEF Launch!QueryLoops, QueryLoops, Launch!Loop, Loop, Launch!Within, Within,
    Launch!QueryStart, QueryStart, Launch!QueryEnd, QueryEnd, Launch!splits, splits,
    Launch!Least, Least, Launch!Most, Most, Launch!Quot, Quot, Launch!CeilDiv, CeilDiv,
    Launch!IsLocal, IsLocal

LEMMA SameLoops ==
    ASSUME NEW p
    PROVE  Launch!Loops(p) = Loops(p)
BY SameKeyLoops, SameQueryLoops DEF Launch!Loops, Loops, Launch!EmptyN, EmptyN,
    Launch!Kernel, Kernel

LEMMA SameKept ==
    ASSUME NEW loop, NEW row, NEW k
    PROVE  Launch!KeptBy(loop, row, k) = KeptBy(loop, row, k)
BY DEF Launch!KeptBy, KeptBy, Launch!Kept, Kept, Launch!Dist, Dist, Launch!InNear,
    InNear, Launch!InWindow, InWindow, Launch!InSink, InSink

LEMMA SameTimes ==
    ASSUME NEW p, NEW row, NEW k
    PROVE  Launch!Times(p, row, k) = Times(p, row, k)
<1> DEFINE T == {j \in DOMAIN Loops(p) :
                   /\ Inner(row, k) \in Loops(p)[j].from .. Loops(p)[j].to - 1
                   /\ KeptBy(Loops(p)[j], row, k)}
           U == {j \in DOMAIN Launch!Loops(p) :
                   /\ Launch!Inner(row, k) \in Launch!Loops(p)[j].from .. Launch!Loops(p)[j].to - 1
                   /\ Launch!KeptBy(Launch!Loops(p)[j], row, k)}
<1>1. Launch!Inner(row, k) = Inner(row, k) /\ Launch!Outer(row, k) = Outer(row, k)
  BY DEF Launch!Outer, Outer, Launch!Inner, Inner, Launch!RowTile, RowTile,
         Launch!KeyBlock, KeyBlock, Launch!Kernel, Kernel
<1>2. U = T
  BY <1>1, SameLoops, SameKept
<1>3. Launch!Cardinality(U) = Cardinality(U)
  BY Zenon DEF Launch!Cardinality, Cardinality
<1>4. Launch!Times(p, row, k) = IF p[1] # Outer(row, k) THEN 0 ELSE Cardinality(U)
  BY <1>1, <1>3 DEF Launch!Times
<1>5. Times(p, row, k) = IF p[1] # Outer(row, k) THEN 0 ELSE Cardinality(T)
  BY DEF Times
<1>6. QED
  BY <1>2, <1>4, <1>5

-----------------------------------------------------------------------------
(* The refinement.  Only storing a result is a step of the launch.         *)
Both == [x \in Pairs |-> counted[x] + uncounted[x]]

LEMMA LaunchForms ==
    /\ Launch!Init <=> /\ c \in Launches /\ range = InitialRange
                       /\ pending = Programs /\ Both = [x \in Pairs |-> 0]
    /\ Launch!vars = <<c, range, pending, Both>>
<1>1. Launch!vars = <<c, range, pending, Both>>
  BY DEF Launch!vars, Both
<1>2. Launch!Init <=> /\ c \in Launches /\ range = InitialRange
                      /\ pending = Programs /\ Both = [x \in Pairs |-> 0]
  BY SamePrograms, SameRange DEF Launch!Init, Both
<1>3. QED
  BY <1>1, <1>2

LEMMA RunForm ==
    ASSUME NEW p \in Programs, p \in pending, pending' = pending \ {p},
           Both' = [x \in Pairs |-> Both[x] + Times(p, x[1], x[2])],
           c' = c, range' = range
    PROVE  Launch!Next
<1>1. [x \in Pairs |-> Both[x] + Times(p, x[1], x[2])] =
        [x \in Launch!Pairs |-> Both[x] + Launch!Times(p, x[1], x[2])]
  BY SamePrograms, SameTimes
<1>2. Launch!RunProgram(p)
  BY <1>1 DEF Launch!RunProgram, Both
<1>3. QED
  BY <1>2, SamePrograms DEF Launch!Next

LEMMA NoLoopsNoTimes ==
    ASSUME NEW p, Loops(p) = <<>>, NEW row, NEW k
    PROVE  Times(p, row, k) = 0
<1>1. DOMAIN Loops(p) = {}
  OBVIOUS
<1>2. {j \in DOMAIN Loops(p) : Inner(row, k) \in Loops(p)[j].from .. Loops(p)[j].to - 1
                               /\ KeptBy(Loops(p)[j], row, k)} = {}
  BY <1>1
<1>3. QED
  BY <1>2, FS_EmptySet DEF Times

LEMMA LaunchStep ==
    ASSUME Inv, Inv', [Next]_vars
    PROVE  Launch!Next \/ UNCHANGED Launch!vars
<1>1. c' = c /\ range' = range
  BY FixedStays
<1>2. Pairs' = Pairs /\ Programs' = Programs
  BY <1>1, LaunchStays
<1>3. counted \in [Pairs -> Nat] /\ uncounted \in [Pairs -> Nat] /\ pending \subseteq Programs
  BY DEF Inv, Counters
<1>4. Both' = [x \in Pairs |-> counted'[x] + uncounted'[x]]
  BY <1>2 DEF Both
<1>5. ASSUME UNCHANGED <<pending, counted, uncounted>>
      PROVE  UNCHANGED Launch!vars
  <2>1. Both' = Both
    BY <1>4, <1>5 DEF Both
  <2>2. QED
    BY <1>1, <1>5, <2>1 DEF Launch!vars, Both
<1>6. ASSUME NEW p \in pending, StoreEmpty(p)
      PROVE  Launch!Next
  <2>1. /\ p \in Programs /\ pending' = pending \ {p} /\ Loops(p) = <<>>
        /\ counted' = counted /\ uncounted' = uncounted
    BY <1>3, <1>6 DEF StoreEmpty
  <2>2. \A x \in Pairs : Times(p, x[1], x[2]) = 0
    BY <2>1, NoLoopsNoTimes
  <2>3. Both = [x \in Pairs |-> Both[x] + Times(p, x[1], x[2])]
    BY <1>3, <2>2 DEF Both
  <2>4. Both' = Both
    BY <1>4, <2>1 DEF Both
  <2>5. QED
    BY <1>1, <2>1, <2>3, <2>4, RunForm
<1>7. CASE Store
  <2>1. /\ prog \in Programs /\ prog \in pending /\ pending' = pending \ {prog} /\ Running
        /\ at > Len(Loops(prog))
        /\ counted' = [x \in Pairs |-> counted[x] + Covered(kept, x[1], x[2])]
        /\ uncounted' = [x \in Pairs |-> uncounted[x] + Covered(left, x[1], x[2])]
    BY <1>3, <1>7 DEF Store, Inv, Place
  <2>2. ASSUME NEW x \in Pairs
        PROVE  counted'[x] + uncounted'[x] = Both[x] + Times(prog, x[1], x[2])
    <3>1. /\ Covered(kept, x[1], x[2]) \in Nat /\ Covered(left, x[1], x[2]) \in Nat
          /\ Covered(kept, x[1], x[2]) + Covered(left, x[1], x[2]) = Times(prog, x[1], x[2])
      BY <2>1, StoredTimes
    <3>2. /\ counted'[x] = counted[x] + Covered(kept, x[1], x[2])
          /\ uncounted'[x] = uncounted[x] + Covered(left, x[1], x[2])
          /\ Both[x] = counted[x] + uncounted[x] /\ counted[x] \in Nat /\ uncounted[x] \in Nat
      BY <1>3, <2>1 DEF Both
    <3>3. QED
      BY <3>1, <3>2
  <2>3. Both' = [x \in Pairs |-> Both[x] + Times(prog, x[1], x[2])]
    BY <1>4, <2>2
  <2>4. QED
    BY <1>1, <2>1, <2>3, RunForm
<1>8. CASE VisitsBlock
  BY <1>5, <1>8 DEF VisitsBlock, Stays, output
<1>9. ASSUME NEW p \in pending, Begin(p)
      PROVE  UNCHANGED Launch!vars
  BY <1>5, <1>9 DEF Begin, output
<1>10. CASE EntersLoop
  BY <1>5, <1>10 DEF EntersLoop, EnterLoop, output
<1>11. CASE Merge
  BY <1>5, <1>11 DEF Merge
<1>12. CASE UNCHANGED vars
  BY <1>5, <1>12 DEF vars, output
<1>13. QED
  BY <1>6, <1>7, <1>8, <1>9, <1>10, <1>11, <1>12, Steps

(* Whatever the softmax and the gate decide, and in whatever order the     *)
(* programs run, a launch accumulates or drops the pairs that its programs *)
(* are given, each program as often as its loops reach them: it implements *)
(* the launch of TritonAttn.                                               *)
THEOREM LaunchImplemented == Spec => ImplementsLaunch
<1>1. Init => Inv
  BY InvInit
<1>2. Inv /\ [Next]_vars => Inv'
  BY InvNext
<1>3. Init => Launch!Init
  <2>1. Init => Both = [x \in Pairs |-> 0]
    BY DEF Init, Both
  <2>2. QED
    BY <2>1, LaunchForms DEF Init
<1>4. Inv /\ Inv' /\ [Next]_vars => [Launch!Next]_(Launch!vars)
  BY LaunchStep
<1>5. QED
  BY <1>1, <1>2, <1>3, <1>4, PTL DEF Spec, ImplementsLaunch, Launch!Spec

-----------------------------------------------------------------------------
(* A pair in terms of its tile and its block.                              *)
LEMMA InOwnBlock ==
    ASSUME NEW a \in Nat, NEW d \in Nat \ {0}
    PROVE  /\ a \div d \in Nat
           /\ (a \div d) * d <= a /\ a < (a \div d) * d + d /\ (a \div d) * d \in Nat
BY Quotient, Multiples

LEMMA KeyPair ==
    ASSUME c \in Launches, Kernel # "bwd", NEW row \in Rows, NEW k \in Keys
    PROVE  LET m == RowTile(row)
               q == row \div c.pack
               b == KeyBlock(k)
           IN  /\ m \in Nat /\ q \in Nat /\ b \in Nat /\ k \in Nat
               /\ q < c.sq /\ RowStart(c, m) \in Int /\ RowStart(c, m) <= q /\ q < RowEnd(c, m)
               /\ b * c.tn \in Nat /\ b * c.tn <= k /\ k < b * c.tn + c.tn
               /\ (b + 1) * c.tn = b * c.tn + c.tn
               /\ b < NumN(c)
<1> DEFINE m == row \div c.tm
           q == row \div c.pack
           b == k \div c.tn
<1>1. /\ IsProblem(c) /\ c.tm \in Nat \ {0} /\ c.tn \in Nat \ {0} /\ c.pack \in Nat \ {0}
      /\ c.sq \in Nat /\ c.sk \in Nat /\ c.trunc \in BOOLEAN
  BY LaunchFacts
<1>2. /\ row \in Nat /\ row < c.sq * c.pack /\ k \in Nat /\ k < NumN(c) * c.tn
  <2>1. NumN(c) \in Nat
    BY <1>1, KeyTypes, 0 \in Nat
  <2>2. NumN(c) * c.tn \in Nat /\ c.sq * c.pack \in Nat
    BY <1>1, <2>1, Multiples
  <2> DEFINE keys == NumN(c) * c.tn
             rows == c.sq * c.pack
  <2>3. row \in 0 .. rows - 1 /\ k \in 0 .. keys - 1
    BY DEF Rows, Keys
  <2> HIDE DEF keys, rows
  <2>4. QED
    BY <2>2, <2>3 DEF keys, rows
<1>3. /\ m \in Nat /\ m * c.tm \in Nat /\ m * c.tm <= row /\ row < m * c.tm + c.tm
      /\ (m + 1) * c.tm = m * c.tm + c.tm
  BY <1>1, <1>2, InOwnBlock, Multiples
<1>4. /\ q \in Nat /\ q * c.pack \in Nat /\ q * c.pack <= row
  BY <1>1, <1>2, InOwnBlock
<1>5. /\ b \in Nat /\ b * c.tn \in Nat /\ b * c.tn <= k /\ k < b * c.tn + c.tn
      /\ (b + 1) * c.tn = b * c.tn + c.tn
  BY <1>1, <1>2, InOwnBlock, Multiples
<1>6. q < c.sq /\ b < NumN(c)
  <2>1. \A e \in Nat : row < e * c.pack => q < e
    BY <1>1, <1>2, Quotient
  <2>2. \A e \in Nat : k < e * c.tn => b < e
    BY <1>1, <1>2, Quotient
  <2>3. NumN(c) \in Nat
    BY <1>1, KeyTypes, 0 \in Nat
  <2>4. QED
    BY <1>1, <1>2, <2>1, <2>2, <2>3
<1>7. RowStart(c, m) \in Int /\ RowStart(c, m) <= q
  <2> DEFINE first == m * c.tm
  <2>1. first \in Nat /\ first <= row
    BY <1>3
  <2>3. (row \div c.pack <= q <=> row < (q + 1) * c.pack) /\ q <= q
    BY <1>1, <1>2, <1>4, DivBelow
  <2> HIDE DEF first, q
  <2>2. first \div c.pack \in Int /\ (first \div c.pack <= q <=> first < (q + 1) * c.pack)
    <3>1. first \in Int /\ q \in Int
      BY <1>4, <2>1
    <3>2. QED
      BY <1>1, <3>1, DivBelow, Division
  <2> DEFINE next == (q + 1) * c.pack
  <2>4. next \in Nat
    BY <1>1, <1>4, Multiples
  <2> HIDE DEF next
  <2>5. row < next
    BY <2>3 DEF next, q
  <2>6. first < next
    BY <1>2, <2>1, <2>4, <2>5
  <2>7. QED
    BY <2>2, <2>6 DEF RowStart, first, next
<1>8. q < RowEnd(c, m)
  <2> DEFINE last == (m + 1) * c.tm
             here == q * c.pack
  <2>1. last \in Nat /\ here < last
    BY <1>1, <1>2, <1>3, <1>4
  <2> HIDE DEF last
  <2>2. q < CeilDiv(c, last, c.pack) /\ CeilDiv(c, last, c.pack) \in Int
    BY <1>1, <1>4, <2>1, CeilDivBound
  <2>3. QED
    BY <1>1, <1>4, <1>6, <2>2 DEF RowEnd, Least, last
<1>9. QED
  BY <1>2, <1>3, <1>4, <1>5, <1>6, <1>7, <1>8 DEF RowTile, KeyBlock

LEMMA TilePair ==
    ASSUME c \in Launches, Kernel = "bwd", NEW row \in Rows, NEW k \in Keys
    PROVE  LET b == RowTile(row)
               h == KeyBlock(k)
           IN  /\ b \in Nat /\ h \in Nat /\ k \in Nat /\ row \in Nat
               /\ row \div c.pack = row /\ row < c.sq /\ k < c.sk
               /\ b * c.tm \in Nat /\ b * c.tm <= row /\ row < b * c.tm + c.tm
               /\ (b + 1) * c.tm = b * c.tm + c.tm
               /\ h * c.tn \in Nat /\ h * c.tn <= k /\ k < h * c.tn + c.tn
               /\ (h + 1) * c.tn = h * c.tn + c.tn
               /\ b < NumM(c) /\ h < NumN(c)
<1> DEFINE b == row \div c.tm
           h == k \div c.tn
<1>1. /\ IsProblem(c) /\ c.tm \in Nat \ {0} /\ c.tn \in Nat \ {0} /\ c.pack = 1
      /\ c.sq \in Nat /\ c.sk \in Nat
  BY LaunchFacts
<1>2. row \in Nat /\ row < c.sq /\ k \in Nat /\ k < c.sk
  BY <1>1 DEF Rows, Keys
<1>3. row \div c.pack = row
  BY <1>1, <1>2
<1>4. /\ b \in Nat /\ b * c.tm \in Nat /\ b * c.tm <= row /\ row < b * c.tm + c.tm
      /\ (b + 1) * c.tm = b * c.tm + c.tm
  BY <1>1, <1>2, InOwnBlock, Multiples
<1>5. /\ h \in Nat /\ h * c.tn \in Nat /\ h * c.tn <= k /\ k < h * c.tn + c.tn
      /\ (h + 1) * c.tn = h * c.tn + c.tn
  BY <1>1, <1>2, InOwnBlock, Multiples
<1>6. b < NumM(c) /\ h < NumN(c)
  <2>1. (b < NumM(c) <=> b * c.tm < c.sq) /\ (h < NumN(c) <=> h * c.tn < c.sk)
    BY <1>1, <1>4, <1>5, QueryTypes, KeyTypes
  <2> DEFINE x == b * c.tm
             y == h * c.tn
  <2>2. x \in Nat /\ x <= row /\ y \in Nat /\ y <= k
    BY <1>4, <1>5
  <2> HIDE DEF x, y
  <2>3. x < c.sq /\ y < c.sk
    BY <1>1, <1>2, <2>2
  <2>4. QED
    BY <2>1, <2>3 DEF x, y
<1>7. QED
  BY <1>2, <1>3, <1>4, <1>5, <1>6 DEF RowTile, KeyBlock

-----------------------------------------------------------------------------
(* The ranges of a local tile before they are made disjoint, and before    *)
(* they are shared by the splits.                                          *)
LEMMA RawLocal ==
    ASSUME c \in Launches, IsLocal(c), NEW m \in Nat, NEW b \in Nat
    PROVE  LET r == RawN(c, m)
           IN  /\ r.min \in Int /\ r.max \in Int
               /\ r.wmin \in Nat /\ r.wmax \in Nat /\ r.smax \in Nat
               /\ r.min >= SinkBlocks(c) /\ r.wmin >= SinkBlocks(c)
               /\ r.min <= b <=> b >= SinkBlocks(c) /\ KeyStart(c, m) - c.near < (b + 1) * c.tn
               /\ b < r.max <=> b < NumN(c) /\ b * c.tn < KeyEnd(c, m)
               /\ r.wmin <= b <=> /\ b >= SinkBlocks(c)
                                  /\ KeyStart(c, m) - c.near - c.right - c.left < (b + 1) * c.tn
               /\ b < r.wmax <=> b < NumN(c) /\ b * c.tn < KeyEnd(c, m) - c.near - c.right
               /\ b < r.smax <=> b < SinkBlocks(c) /\ b * c.tn < KeyEnd(c, m)
<1> DEFINE r == RawN(c, m)
           near == KeyStart(c, m) - c.near
           far  == KeyStart(c, m) - c.near - c.right - c.left
           edge == KeyEnd(c, m) - c.near - c.right
           end  == KeyEnd(c, m)
<1>1. /\ IsProblem(c) /\ c.near \in Nat /\ c.right \in Nat /\ c.left \in Nat
      /\ KeyStart(c, m) \in Int /\ KeyEnd(c, m) \in Int
      /\ NumN(c) \in Nat /\ SinkBlocks(c) \in Nat
      /\ c.tn \in Nat \ {0} /\ c.trunc \in BOOLEAN
  BY LaunchFacts, KeyTypes
<1>2. near \in Int /\ far \in Int /\ edge \in Int /\ end \in Int
  BY <1>1
<1>3. r = [min |-> AfterSink(c, near), max |-> Least(NumN(c), CeilDiv(c, end, c.tn)),
           wmin |-> AfterSink(c, far), wmax |-> Least(NumN(c), BlocksUpTo(c, edge)),
           smax |-> Least(SinkBlocks(c), BlocksUpTo(c, end))]
  BY RawKeyForms DEF IsLocal
<1> HIDE DEF near, far, edge, end, r
<1>4. /\ AfterSink(c, near) \in Int /\ AfterSink(c, near) >= SinkBlocks(c)
      /\ AfterSink(c, near) <= b <=> b >= SinkBlocks(c) /\ near < (b + 1) * c.tn
  BY <1>1, <1>2, AfterSinkBound
<1>5. /\ AfterSink(c, far) \in Int /\ AfterSink(c, far) >= SinkBlocks(c)
      /\ AfterSink(c, far) <= b <=> b >= SinkBlocks(c) /\ far < (b + 1) * c.tn
  BY <1>1, <1>2, AfterSinkBound
<1>6. /\ CeilDiv(c, end, c.tn) \in Int
      /\ b < CeilDiv(c, end, c.tn) <=> b * c.tn < end
  BY <1>1, <1>2, CeilDivBound
<1>7. /\ BlocksUpTo(c, edge) \in Nat /\ (b < BlocksUpTo(c, edge) <=> b * c.tn < edge)
      /\ BlocksUpTo(c, end) \in Nat /\ (b < BlocksUpTo(c, end) <=> b * c.tn < end)
  BY <1>1, <1>2, BlocksUpToBound
<1>8. /\ r.min = AfterSink(c, near) /\ r.max = Least(NumN(c), CeilDiv(c, end, c.tn))
      /\ r.wmin = AfterSink(c, far) /\ r.wmax = Least(NumN(c), BlocksUpTo(c, edge))
      /\ r.smax = Least(SinkBlocks(c), BlocksUpTo(c, end))
  BY <1>3
<1>9. /\ r.min \in Int /\ r.max \in Int /\ r.wmin \in Nat /\ r.wmax \in Nat /\ r.smax \in Nat
      /\ r.min >= SinkBlocks(c) /\ r.wmin >= SinkBlocks(c)
  BY <1>1, <1>4, <1>5, <1>6, <1>7, <1>8 DEF Least
<1>10. /\ r.min <= b <=> b >= SinkBlocks(c) /\ near < (b + 1) * c.tn
       /\ r.wmin <= b <=> b >= SinkBlocks(c) /\ far < (b + 1) * c.tn
  BY <1>4, <1>5, <1>8
<1>11. /\ b < r.max <=> b < NumN(c) /\ b * c.tn < end
       /\ b < r.wmax <=> b < NumN(c) /\ b * c.tn < edge
       /\ b < r.smax <=> b < SinkBlocks(c) /\ b * c.tn < end
  BY <1>1, <1>6, <1>7, <1>8 DEF Least
<1>12. QED
  BY <1>9, <1>10, <1>11 DEF near, far, edge, end, r

(* What ClampN does, and the ranges that a split of a local tile is given. *)
LEMMA ClampForm ==
    ASSUME IsLocal(c), NEW min, NEW max, NEW wmin, NEW wmax, NEW smax
    PROVE  ClampN(c, [min |-> min, max |-> max, wmin |-> wmin, wmax |-> wmax, smax |-> smax])
             = [min |-> Least(min, max), max |-> max, wmin |-> wmin,
                wmax |-> Most(Least(wmax, Least(min, max)), wmin), smax |-> Most(smax, 0)]
BY DEF ClampN

LEMMA SameFields ==
    ASSUME NEW r \in KeyRange, NEW s \in KeyRange, r.min = s.min, r.max = s.max,
           r.wmin = s.wmin, r.wmax = s.wmax, r.smax = s.smax
    PROVE  r = s
BY DEF KeyRange

LEMMA SplitFields ==
    ASSUME NEW r \in KeyRange, NEW wmin \in Int, NEW wmax \in Int, NEW smax \in Int
    PROVE  [r EXCEPT !.wmin = wmin, !.wmax = wmax, !.smax = smax] =
             [min |-> r.min, max |-> r.max, wmin |-> wmin, wmax |-> wmax, smax |-> smax]
<1> DEFINE s == [r EXCEPT !.wmin = wmin, !.wmax = wmax, !.smax = smax]
           t == [min |-> r.min, max |-> r.max, wmin |-> wmin, wmax |-> wmax, smax |-> smax]
<1>1. /\ s \in KeyRange /\ s.min = r.min /\ s.max = r.max
      /\ s.wmin = wmin /\ s.wmax = wmax /\ s.smax = smax
  BY DEF KeyRange
<1>2. t \in KeyRange
  BY DEF KeyRange
<1>3. /\ t.min = r.min /\ t.max = r.max /\ t.wmin = wmin /\ t.wmax = wmax /\ t.smax = smax
  OBVIOUS
<1> HIDE DEF s, t
<1>4. s = t
  BY <1>1, <1>2, <1>3, SameFields
<1>5. QED
  BY <1>4 DEF s, t

MainFrom(m, r) ==
    Most(Most(NearFrom(c, m, r.min), SinkBlocks(c)), Most(r.wmax, r.wmin))

LEMMA SplitLocalForm ==
    ASSUME c \in Launches, IsLocal(c), ~c.gather, splits # 0, NEW m \in Nat, NEW i \in Nat
    PROVE  LET r     == RawN(c, m)
               total == Most(r.wmax - r.wmin, 0)
               wmin  == r.wmin + ShareStart(c, total, i)
               wmax  == Least(wmin + ShareSize(c, total, i), Most(r.wmax, r.wmin))
               smax  == IF i = 0 THEN r.smax ELSE 0
               min   == IF LastSplit(c, i) THEN MainFrom(m, r) ELSE Most(wmax, smax)
               max   == IF LastSplit(c, i) THEN r.max ELSE Most(wmax, smax)
           IN  ProgramN(m, i) =
                 [min |-> Least(min, max), max |-> max, wmin |-> wmin,
                  wmax |-> Most(Least(wmax, Least(min, max)), wmin), smax |-> Most(smax, 0)]
<1> DEFINE r     == RawN(c, m)
           total == Most(r.wmax - r.wmin, 0)
           wmin  == r.wmin + ShareStart(c, total, i)
           wmax  == Least(wmin + ShareSize(c, total, i), Most(r.wmax, r.wmin))
           smax  == IF i = 0 THEN r.smax ELSE 0
           min   == IF LastSplit(c, i) THEN MainFrom(m, r) ELSE Most(wmax, smax)
           max   == IF LastSplit(c, i) THEN r.max ELSE Most(wmax, smax)
           s     == [r EXCEPT !.wmin = wmin, !.wmax = wmax, !.smax = smax]
<1>1. r \in KeyRange
  BY RawKeyTypes
<1>2. SplitWindow(c, r, i) = s
  BY DEF SplitWindow
<1>3. SplitN(c, m, i) = SplitLocalN(c, m, i, r, s)
  BY <1>2 DEF SplitN, SplitRaw
<1>4. ProgramN(m, i) = ClampN(c, SplitN(c, m, i))
  BY DEF ProgramN
<1>9. wmin \in Int /\ wmax \in Int /\ smax \in Int
  <2> HIDE DEF r
  <2>1. r.wmin \in Int /\ r.wmax \in Int /\ r.smax \in Int
    BY <1>1 DEF KeyRange
  <2>2. ShareStart(c, total, i) \in Int /\ ShareSize(c, total, i) \in Int
    BY <2>1, ShareIntegers, r.wmax - r.wmin \in Int
  <2>3. QED
    BY <2>1, <2>2 DEF Least, Most
<1> HIDE DEF wmin, wmax, smax
<1>5. s = [min |-> r.min, max |-> r.max, wmin |-> wmin, wmax |-> wmax, smax |-> smax]
  <2> HIDE DEF r
  <2>1. QED
    BY <1>1, <1>9, SplitFields
<1>6. SplitLocalN(c, m, i, r, s) =
        [min |-> min, max |-> max, wmin |-> wmin, wmax |-> wmax, smax |-> smax]
  <2> HIDE DEF r, s
  <2>1. CASE LastSplit(c, i)
    BY <1>5, <2>1 DEF SplitLocalN, MainFrom
  <2>2. CASE ~LastSplit(c, i)
    BY <1>5, <2>2 DEF SplitLocalN
  <2>3. QED
    BY <2>1, <2>2
<1> HIDE DEF r, s, min, max
<1>7. ProgramN(m, i) =
        [min |-> Least(min, max), max |-> max, wmin |-> wmin,
         wmax |-> Most(Least(wmax, Least(min, max)), wmin), smax |-> Most(smax, 0)]
  BY <1>3, <1>4, <1>6, ClampForm
<1>8. QED
  BY <1>7 DEF r, wmin, wmax, smax, min, max

(* Its share of the window is not cut off by the main range. *)
LEMMA SplitLocalRanges ==
    ASSUME c \in Launches, IsLocal(c), ~c.gather, splits # 0,
           NEW m \in Nat, NEW i \in 0 .. splits - 1
    PROVE  LET r     == RawN(c, m)
               g     == ProgramN(m, i)
               total == Most(r.wmax - r.wmin, 0)
               start == ShareStart(c, total, i)
               size  == ShareSize(c, total, i)
           IN  /\ {g.min, g.max, g.wmin, g.wmax, g.smax} \subseteq Int
               /\ total \in Nat /\ start \in Nat /\ size \in Nat /\ start + size <= total
               /\ MainFrom(m, r) \in Int
               /\ g.wmin = r.wmin + start /\ g.wmax = r.wmin + start + size
               /\ g.smax = IF i = 0 THEN r.smax ELSE 0
               /\ g.min <= g.max
               /\ i = splits - 1 => /\ g.min = Least(MainFrom(m, r), r.max)
                                    /\ g.max = r.max
               /\ i # splits - 1 => g.min = g.max
<1> DEFINE r     == RawN(c, m)
           g     == ProgramN(m, i)
           total == Most(r.wmax - r.wmin, 0)
           start == ShareStart(c, total, i)
           size  == ShareSize(c, total, i)
           wmin  == r.wmin + start
           wmax  == Least(wmin + size, Most(r.wmax, r.wmin))
           smax  == IF i = 0 THEN r.smax ELSE 0
           from  == MainFrom(m, r)
           min   == IF LastSplit(c, i) THEN from ELSE Most(wmax, smax)
           max   == IF LastSplit(c, i) THEN r.max ELSE Most(wmax, smax)
<1>1. g = [min |-> Least(min, max), max |-> max, wmin |-> wmin,
           wmax |-> Most(Least(wmax, Least(min, max)), wmin), smax |-> Most(smax, 0)]
  BY SplitLocalForm
<1>2. /\ r.min \in Int /\ r.max \in Int /\ r.wmin \in Nat /\ r.wmax \in Nat /\ r.smax \in Nat
  BY RawLocal, 0 \in Nat
<1>3. r.wmin < r.wmax => r.wmax <= r.max
  <2> SUFFICES ASSUME r.wmin < r.wmax
               PROVE  r.wmax <= r.max
    OBVIOUS
  <2> DEFINE b == r.wmax - 1
  <2> HIDE DEF r
  <2>1. b \in Nat /\ b < r.wmax
    BY <1>2
  <2> DEFINE x == b * c.tn
  <2>2. x < KeyEnd(c, m) - c.near - c.right /\ b < NumN(c)
    BY <2>1, RawLocal DEF r
  <2>3. x < KeyEnd(c, m) /\ b < NumN(c)
    <3>1. /\ x \in Nat /\ KeyEnd(c, m) \in Int /\ c.near \in Nat /\ c.right \in Nat
      BY <2>1, LaunchFacts, KeyTypes, Multiples
    <3> HIDE DEF x
    <3>2. QED
      BY <2>2, <3>1
  <2>4. b < r.max
    BY <2>1, <2>3, RawLocal DEF r
  <2>5. QED
    BY <1>2, <2>1, <2>4
<1>4. total \in Nat /\ c.splits \in Nat \ {0} /\ i \in 0 .. c.splits - 1
  <2> HIDE DEF r
  <2>1. QED
    BY <1>2, LaunchFacts DEF splits, Most
<1>5. start \in Nat /\ size \in Nat /\ start + size <= total
  <2> HIDE DEF total
  <2>1. QED
    BY <1>4, SharesApart
<1>6. total = IF r.wmin <= r.wmax THEN r.wmax - r.wmin ELSE 0
  <2> HIDE DEF r
  <2>1. QED
    BY <1>2 DEF Most
<1>7. LastSplit(c, i) <=> i = splits - 1
  BY <1>4 DEF LastSplit, splits
<1>8. from \in Int /\ from >= Most(r.wmax, r.wmin)
  <2>1. IsProblem(c) /\ KeyStart(c, m) \in Int /\ c.near \in Nat /\ SinkBlocks(c) \in Nat
    BY LaunchFacts, KeyTypes
  <2>2. Most(KeyStart(c, m) - c.near + 1, 0) \in Int
    BY <2>1 DEF Most
  <2>3. NearFrom(c, m, r.min) \in Int
    BY <1>2, <2>1, <2>2, BlocksUpToBound, 0 \in Nat DEF NearFrom
  <2> HIDE DEF r
  <2>4. QED
    BY <1>2, <2>1, <2>3 DEF MainFrom, Most
<1> HIDE DEF r, total, start, size, from, g
<1>9. wmin = r.wmin + start /\ wmax = r.wmin + start + size
  BY <1>2, <1>4, <1>5, <1>6 DEF Least, Most
<1>10. wmin \in Nat /\ wmax \in Nat /\ wmin <= wmax /\ wmax <= Most(r.wmax, r.wmin)
  BY <1>2, <1>4, <1>5, <1>6, <1>9 DEF Most
<1>11. smax \in Nat
  BY <1>2
<1>12. wmin < wmax => wmax <= r.max
  <2>1. wmin >= r.wmin
    BY <1>2, <1>5, <1>9
  <2> HIDE DEF wmin, wmax
  <2>2. QED
    BY <1>2, <1>3, <1>10, <2>1 DEF Most
<1> HIDE DEF wmin, wmax, smax
<1>13. min \in Int /\ max \in Int
  BY <1>2, <1>8, <1>10, <1>11 DEF Most
<1>14. Most(Least(wmax, Least(min, max)), wmin) = wmax
  <2>1. CASE LastSplit(c, i)
    BY <1>2, <1>8, <1>10, <1>12, <2>1 DEF Least, Most
  <2>2. CASE ~LastSplit(c, i)
    BY <1>10, <1>11, <2>2 DEF Least, Most
  <2>3. QED
    BY <2>1, <2>2
<1>15. Most(smax, 0) = smax
  BY <1>11 DEF Most
<1>16. /\ g.min = Least(min, max) /\ g.max = max /\ g.wmin = wmin /\ g.wmax = wmax /\ g.smax = smax
  BY <1>1, <1>14, <1>15
<1>17. /\ {g.min, g.max, g.wmin, g.wmax, g.smax} \subseteq Int /\ g.min <= g.max
       /\ i = splits - 1 => g.min = Least(from, r.max) /\ g.max = r.max
       /\ i # splits - 1 => g.min = g.max
  BY <1>7, <1>10, <1>11, <1>13, <1>16 DEF Least
<1>18. g.smax = IF i = 0 THEN r.smax ELSE 0
  BY <1>16 DEF smax
<1>19. QED
  BY <1>4, <1>5, <1>8, <1>9, <1>16, <1>17, <1>18 DEF r, total, start, size, from, g

-----------------------------------------------------------------------------
(* A block of keys that a row attends to is visited by one split.          *)
KeyVisited(g, b) ==
    (g.min <= b /\ b < g.max) \/ (g.wmin <= b /\ b < g.wmax) \/ b < g.smax

(* Dist of the key that the query of row sees on the diagonal. *)
Diagonal(q) == q + c.sk - c.sq

LEMMA DiagonalFacts ==
    ASSUME c \in Launches, Kernel # "bwd", NEW row \in Rows, NEW k \in Keys
    PROVE  LET m == RowTile(row)
               q == row \div c.pack
               z == Diagonal(q)
           IN  /\ z \in Int /\ z < c.sk /\ Dist(c, q, k) = z - k
               /\ KeyStart(c, m) \in Int /\ KeyEnd(c, m) \in Int
               /\ KeyStart(c, m) <= z /\ z < KeyEnd(c, m)
               /\ c.sq = 1 => KeyEnd(c, m) <= z + 1
<1> DEFINE m == RowTile(row)
           q == row \div c.pack
<1>1. /\ m \in Nat /\ q \in Nat /\ k \in Nat /\ q < c.sq
      /\ RowStart(c, m) \in Int /\ RowStart(c, m) <= q /\ q < RowEnd(c, m)
  BY KeyPair
<1>2. /\ IsProblem(c) /\ c.sq \in Nat /\ c.sk \in Nat
      /\ c.tm \in Nat \ {0} /\ c.pack \in Nat \ {0} /\ c.trunc \in BOOLEAN
  BY LaunchFacts
<1>3. KeyStart(c, m) \in Int /\ KeyEnd(c, m) \in Int
  BY <1>1, <1>2, KeyTypes
<1>4. RowEnd(c, m) \in Int /\ RowEnd(c, m) <= c.sq
  <2> DEFINE last == (m + 1) * c.tm
  <2>1. last \in Nat
    BY <1>1, <1>2
  <2> HIDE DEF last
  <2>2. CeilDiv(c, last, c.pack) \in Int
    BY <1>2, <2>1, CeilDivBound, 0 \in Nat
  <2>3. QED
    BY <1>2, <2>2 DEF RowEnd, Least, last
<1> HIDE DEF m, q
<1>5. QED
  BY <1>1, <1>2, <1>3, <1>4 DEF Diagonal, Dist, KeyStart, KeyEnd, m, q

(* What a local row attends to lies in one of the ranges of its tile. *)
LEMMA AttendedRaw ==
    ASSUME c \in Launches, Kernel # "bwd", IsLocal(c), NEW row \in Rows, NEW k \in Keys,
           Attends(c, row \div c.pack, k)
    PROVE  LET r == RawN(c, RowTile(row))
               b == KeyBlock(k)
           IN  \/ b < SinkBlocks(c) /\ b < r.smax
               \/ b >= SinkBlocks(c) /\ r.min <= b /\ b < r.max
               \/ b >= SinkBlocks(c) /\ r.wmin <= b /\ b < r.wmax
<1> DEFINE m == RowTile(row)
           b == KeyBlock(k)
           r == RawN(c, m)
           z == Diagonal(row \div c.pack)
           x == b * c.tn
<1>1. /\ m \in Nat /\ b \in Nat /\ k \in Nat /\ x \in Nat /\ x <= k /\ k < x + c.tn
      /\ (b + 1) * c.tn = x + c.tn /\ b < NumN(c)
  BY KeyPair
<1>2. /\ IsProblem(c) /\ {c.near, c.right, c.left, c.sink} \subseteq Nat
      /\ c.tn \in Nat \ {0} /\ NumN(c) \in Nat /\ SinkBlocks(c) \in Nat
      /\ b < SinkBlocks(c) <=> x < c.sink
  <2>1. IsProblem(c) /\ {c.near, c.right, c.left, c.sink} \subseteq Nat /\ c.tn \in Nat \ {0}
    BY LaunchFacts
  <2>2. QED
    BY <1>1, <2>1, KeyTypes
<1>3. /\ z \in Int /\ KeyStart(c, m) \in Int /\ KeyEnd(c, m) \in Int
      /\ KeyStart(c, m) <= z /\ z < KeyEnd(c, m)
      /\ Dist(c, row \div c.pack, k) = z - k
  BY DiagonalFacts
<1>4. \/ z - k \in 0 .. c.near - 1
      \/ z - k \in c.near + c.right .. c.near + c.right + c.left - 1
      \/ k < c.sink /\ z - k >= 0
  BY <1>3 DEF Attends, IsLocal, InNear, InWindow, InSink
<1>5. /\ r.min <= b <=> b >= SinkBlocks(c) /\ KeyStart(c, m) - c.near < x + c.tn
      /\ b < r.max <=> b < NumN(c) /\ x < KeyEnd(c, m)
      /\ r.wmin <= b <=> /\ b >= SinkBlocks(c)
                         /\ KeyStart(c, m) - c.near - c.right - c.left < x + c.tn
      /\ b < r.wmax <=> b < NumN(c) /\ x < KeyEnd(c, m) - c.near - c.right
      /\ b < r.smax <=> b < SinkBlocks(c) /\ x < KeyEnd(c, m)
  BY <1>1, RawLocal
<1> HIDE DEF m, b, r, z, x
<1>6. QED
  <2>1. CASE b < SinkBlocks(c)
    BY <1>1, <1>2, <1>3, <1>4, <1>5, <2>1 DEF m, b, r
  <2>2. CASE b >= SinkBlocks(c) /\ z - k \in 0 .. c.near - 1
    BY <1>1, <1>2, <1>3, <1>5, <2>2 DEF m, b, r
  <2>3. CASE /\ b >= SinkBlocks(c)
             /\ z - k \in c.near + c.right .. c.near + c.right + c.left - 1
    BY <1>1, <1>2, <1>3, <1>5, <2>3 DEF m, b, r
  <2>4. CASE b >= SinkBlocks(c) /\ k < c.sink
    BY <1>1, <1>2, <2>4
  <2>5. QED
    BY <1>1, <1>2, <1>4, <2>1, <2>2, <2>3, <2>4

LEMMA WholeLocalOwner ==
    ASSUME c \in Launches, Kernel # "bwd", IsLocal(c), splits = 0,
           NEW row \in Rows, NEW k \in Keys, Attends(c, row \div c.pack, k)
    PROVE  KeyVisited(ProgramN(RowTile(row), 0), KeyBlock(k))
<1> DEFINE m == RowTile(row)
           b == KeyBlock(k)
           r == RawN(c, m)
           g == NBlocks(c, m)
           x == b * c.tn
<1>1. /\ m \in Nat /\ b \in Nat /\ k \in Nat /\ x \in Nat /\ x <= k /\ k < x + c.tn
      /\ (b + 1) * c.tn = x + c.tn /\ b < NumN(c)
  BY KeyPair
<1>2. /\ IsProblem(c) /\ {c.near, c.right, c.left, c.sink} \subseteq Nat
      /\ c.tn \in Nat \ {0} /\ NumN(c) \in Nat /\ SinkBlocks(c) \in Nat
      /\ KeyStart(c, m) \in Int /\ KeyEnd(c, m) \in Int
  BY <1>1, LaunchFacts, KeyTypes
<1>3. ProgramN(m, 0) = g
  <2>1. ~c.gather
    BY LaunchFacts
  <2>2. QED
    BY <2>1 DEF ProgramN, NBlocks
<1>4. /\ r.min <= b <=> b >= SinkBlocks(c) /\ KeyStart(c, m) - c.near < x + c.tn
      /\ b < r.max <=> b < NumN(c) /\ x < KeyEnd(c, m)
      /\ r.wmin <= b <=> /\ b >= SinkBlocks(c)
                         /\ KeyStart(c, m) - c.near - c.right - c.left < x + c.tn
      /\ b < r.wmax <=> b < NumN(c) /\ x < KeyEnd(c, m) - c.near - c.right
      /\ b < r.smax <=> b < SinkBlocks(c) /\ x < KeyEnd(c, m)
  BY <1>1, RawLocal
<1>5. /\ g.min <= b /\ b < g.max <=>
           /\ b < NumN(c) /\ b >= SinkBlocks(c) /\ x < KeyEnd(c, m)
           /\ KeyStart(c, m) - c.near < x + c.tn
      /\ g.wmin <= b /\ b < g.wmax <=>
           /\ b < NumN(c) /\ b >= SinkBlocks(c)
           /\ x < KeyEnd(c, m) - c.near - c.right
           /\ x + c.tn <= KeyStart(c, m) - c.near
           /\ KeyStart(c, m) - c.near - c.right - c.left < x + c.tn
      /\ b < g.smax <=> b < SinkBlocks(c) /\ x < KeyEnd(c, m)
  BY <1>1, <1>2, LocalBlocks
<1>6. \/ b < SinkBlocks(c) /\ b < r.smax
      \/ b >= SinkBlocks(c) /\ r.min <= b /\ b < r.max
      \/ b >= SinkBlocks(c) /\ r.wmin <= b /\ b < r.wmax
  BY AttendedRaw
<1> HIDE DEF m, b, r, g, x
<1>7. KeyVisited(g, b)
  BY <1>1, <1>2, <1>4, <1>5, <1>6 DEF KeyVisited
<1>8. QED
  BY <1>3, <1>7 DEF m, b

(* The main range of the last split starts where the window ends, or where *)
(* the near keys of a row start: with a single query this leaves no block  *)
(* out if the window follows the near keys without a gap.                  *)
LEMMA MainBehindWindow ==
    ASSUME c \in Launches, Kernel # "bwd", IsLocal(c), c.sq = 1 => c.right = 0,
           NEW row \in Rows, NEW k \in Keys,
           LET r == RawN(c, RowTile(row))
               b == KeyBlock(k)
           IN  /\ b >= SinkBlocks(c) /\ r.min <= b /\ b < r.max
               /\ ~(r.wmin <= b /\ b < r.wmax)
    PROVE  MainFrom(RowTile(row), RawN(c, RowTile(row))) <= KeyBlock(k)
<1> DEFINE m == RowTile(row)
           b == KeyBlock(k)
           r == RawN(c, m)
           z == Diagonal(row \div c.pack)
           x == b * c.tn
           first == Most(KeyStart(c, m) - c.near + 1, 0)
<1>1. /\ m \in Nat /\ b \in Nat /\ x \in Nat
      /\ (b + 1) * c.tn = x + c.tn /\ b < NumN(c)
  BY KeyPair
<1>2. /\ IsProblem(c) /\ {c.near, c.right, c.left, c.sink} \subseteq Nat
      /\ c.tn \in Nat \ {0} /\ NumN(c) \in Nat /\ SinkBlocks(c) \in Nat
  BY LaunchFacts, KeyTypes, 0 \in Nat
<1>3. /\ z \in Int /\ KeyStart(c, m) \in Int /\ KeyEnd(c, m) \in Int
      /\ KeyStart(c, m) <= z /\ z < KeyEnd(c, m)
  BY DiagonalFacts
<1>4. /\ r.min \in Int /\ r.wmin \in Nat /\ r.wmax \in Nat
      /\ r.min <= b <=> b >= SinkBlocks(c) /\ KeyStart(c, m) - c.near < x + c.tn
      /\ r.wmin <= b <=> /\ b >= SinkBlocks(c)
                         /\ KeyStart(c, m) - c.near - c.right - c.left < x + c.tn
      /\ b < r.wmax <=> b < NumN(c) /\ x < KeyEnd(c, m) - c.near - c.right
  BY <1>1, RawLocal
<1>5. b >= SinkBlocks(c) /\ r.min <= b /\ ~(r.wmin <= b /\ b < r.wmax)
  OBVIOUS
<1>6. first \in Int /\ (first > x => KeyStart(c, m) - c.near + 1 > x)
  <2> HIDE DEF x
  <2>1. QED
    BY <1>1, <1>2, <1>3 DEF Most
<1> HIDE DEF first
<1>7. BlocksUpTo(c, first) \in Nat /\ (b < BlocksUpTo(c, first) <=> x < first)
  BY <1>1, <1>2, <1>6, BlocksUpToBound
<1>8. NearFrom(c, m, r.min) = IF c.sq = 1 THEN BlocksUpTo(c, first) ELSE r.min
  BY DEF NearFrom, first
<1> HIDE DEF m, b, r, z, x
<1>9. r.wmin <= b /\ r.wmax <= b
  BY <1>1, <1>2, <1>3, <1>4, <1>5
<1>10. NearFrom(c, m, r.min) \in Int /\ NearFrom(c, m, r.min) <= b
  <2>1. CASE c.sq = 1
    <3>1. c.right = 0 /\ x >= KeyEnd(c, m) - c.near - c.right
      BY <1>1, <1>2, <1>3, <1>4, <1>9, <2>1
    <3>2. x >= KeyStart(c, m) - c.near + 1
      BY <1>1, <1>2, <1>3, <3>1
    <3>3. QED
      BY <1>1, <1>2, <1>3, <1>6, <1>7, <1>8, <2>1, <3>2
  <2>2. CASE c.sq # 1
    BY <1>4, <1>5, <1>8, <2>2
  <2>3. QED
    BY <2>1, <2>2
<1>11. MainFrom(m, r) <= b
  BY <1>1, <1>2, <1>4, <1>5, <1>9, <1>10 DEF MainFrom, Most
<1>12. QED
  BY <1>11 DEF m, b, r

LEMMA SplitLocalVisits ==
    ASSUME c \in Launches, IsLocal(c), ~c.gather, splits # 0,
           NEW m \in Nat, NEW i \in 0 .. splits - 1, NEW b \in Nat
    PROVE  LET r     == RawN(c, m)
               g     == ProgramN(m, i)
               total == Most(r.wmax - r.wmin, 0)
               start == ShareStart(c, total, i)
               size  == ShareSize(c, total, i)
           IN  /\ g.min <= b /\ b < g.max <=>
                    i = splits - 1 /\ MainFrom(m, r) <= b /\ b < r.max
               /\ g.wmin <= b /\ b < g.wmax <=>
                    r.wmin + start <= b /\ b < r.wmin + start + size
               /\ g.wmin <= b /\ b < g.wmax => r.wmin <= b /\ b < r.wmax
               /\ b < g.smax <=> i = 0 /\ b < r.smax
               /\ MainFrom(m, r) \in Int /\ MainFrom(m, r) >= SinkBlocks(c)
               /\ MainFrom(m, r) >= r.wmax
<1> DEFINE r     == RawN(c, m)
           g     == ProgramN(m, i)
           total == Most(r.wmax - r.wmin, 0)
           start == ShareStart(c, total, i)
           size  == ShareSize(c, total, i)
           from  == MainFrom(m, r)
<1>1. /\ {g.min, g.max, g.wmin, g.wmax, g.smax} \subseteq Int
      /\ total \in Nat /\ start \in Nat /\ size \in Nat /\ start + size <= total
      /\ from \in Int
      /\ g.wmin = r.wmin + start /\ g.wmax = r.wmin + start + size
      /\ g.smax = IF i = 0 THEN r.smax ELSE 0
      /\ g.min <= g.max
      /\ i = splits - 1 => g.min = Least(from, r.max) /\ g.max = r.max
      /\ i # splits - 1 => g.min = g.max
  BY SplitLocalRanges
<1>2. /\ r.min \in Int /\ r.max \in Int /\ r.wmin \in Nat /\ r.wmax \in Nat /\ r.smax \in Nat
      /\ SinkBlocks(c) \in Nat
  BY RawLocal, LaunchFacts, KeyTypes, 0 \in Nat
<1>3. total = IF r.wmin <= r.wmax THEN r.wmax - r.wmin ELSE 0
  <2> HIDE DEF r
  <2>1. QED
    BY <1>2 DEF Most
<1>4. from >= SinkBlocks(c) /\ from >= r.wmax
  <2>1. NearFrom(c, m, r.min) \in Int
    <3>1. IsProblem(c) /\ KeyStart(c, m) \in Int /\ c.near \in Nat
      BY LaunchFacts, KeyTypes
    <3>2. Most(KeyStart(c, m) - c.near + 1, 0) \in Int
      BY <3>1 DEF Most
    <3>3. QED
      BY <1>2, <3>1, <3>2, BlocksUpToBound, 0 \in Nat DEF NearFrom
  <2> HIDE DEF r
  <2>2. QED
    BY <1>2, <2>1 DEF MainFrom, Most
<1> HIDE DEF r, g, total, start, size, from
<1>5. g.min <= b /\ b < g.max <=> i = splits - 1 /\ from <= b /\ b < r.max
  BY <1>1, <1>2 DEF Least
<1>6. /\ g.wmin <= b /\ b < g.wmax <=> r.wmin + start <= b /\ b < r.wmin + start + size
      /\ g.wmin <= b /\ b < g.wmax => r.wmin <= b /\ b < r.wmax
  BY <1>1, <1>2, <1>3
<1>7. b < g.smax <=> i = 0 /\ b < r.smax
  BY <1>1, <1>2
<1>8. QED
  BY <1>1, <1>4, <1>5, <1>6, <1>7 DEF r, g, total, start, size, from

LEMMA SplitLocalOwner ==
    ASSUME c \in Launches, Kernel # "bwd", IsLocal(c), splits # 0, ~c.gather,
           c.sq = 1 => c.right = 0,
           NEW row \in Rows, NEW k \in Keys, Attends(c, row \div c.pack, k)
    PROVE  \E i \in 0 .. splits - 1 :
             /\ KeyVisited(ProgramN(RowTile(row), i), KeyBlock(k))
             /\ \A j \in 0 .. splits - 1 :
                  j # i => ~KeyVisited(ProgramN(RowTile(row), j), KeyBlock(k))
<1> DEFINE m == RowTile(row)
           b == KeyBlock(k)
           r == RawN(c, m)
           total == Most(r.wmax - r.wmin, 0)
           Start(i) == ShareStart(c, total, i)
           Size(i)  == ShareSize(c, total, i)
           from == MainFrom(m, r)
           Main(i) == LET g == ProgramN(m, i) IN g.min <= b /\ b < g.max
           Wind(i) == LET g == ProgramN(m, i) IN g.wmin <= b /\ b < g.wmax
           Sunk(i) == b < ProgramN(m, i).smax
<1>1. m \in Nat /\ b \in Nat /\ b < NumN(c)
  BY KeyPair
<1>2. /\ r.min \in Int /\ r.max \in Int /\ r.wmin \in Nat /\ r.wmax \in Nat /\ r.smax \in Nat
      /\ r.min >= SinkBlocks(c) /\ r.wmin >= SinkBlocks(c)
      /\ b < r.smax => b < SinkBlocks(c)
      /\ SinkBlocks(c) \in Nat
  BY <1>1, RawLocal, LaunchFacts, KeyTypes
<1>3. splits \in Nat \ {0} /\ c.splits = splits
  BY LaunchFacts DEF splits
<1>4. \A i \in 0 .. splits - 1 :
        /\ Main(i) <=> i = splits - 1 /\ from <= b /\ b < r.max
        /\ Wind(i) <=> r.wmin + Start(i) <= b /\ b < r.wmin + Start(i) + Size(i)
        /\ Wind(i) => r.wmin <= b /\ b < r.wmax
        /\ Sunk(i) <=> i = 0 /\ b < r.smax
  BY <1>1, SplitLocalVisits
<1>5. from \in Int /\ from >= SinkBlocks(c) /\ from >= r.wmax
  BY <1>1, <1>3, SplitLocalVisits, 0 \in 0 .. splits - 1
<1>6. \A i : KeyVisited(ProgramN(m, i), b) <=> Main(i) \/ Wind(i) \/ Sunk(i)
  BY DEF KeyVisited
<1>7. \/ b < SinkBlocks(c) /\ b < r.smax
      \/ b >= SinkBlocks(c) /\ r.min <= b /\ b < r.max
      \/ b >= SinkBlocks(c) /\ r.wmin <= b /\ b < r.wmax
  BY AttendedRaw
<1>8. b >= SinkBlocks(c) /\ r.min <= b /\ b < r.max /\ ~(r.wmin <= b /\ b < r.wmax) => from <= b
  BY MainBehindWindow
<1>9. /\ total \in Nat
      /\ r.wmin <= b /\ b < r.wmax => b - r.wmin \in 0 .. total - 1
  <2> HIDE DEF r, b
  <2>1. QED
    BY <1>1, <1>2 DEF Most
<1> HIDE DEF m, b, r, total, from, Main, Wind, Sunk
<1>10. SUFFICES \E i \in 0 .. splits - 1 :
                  /\ Main(i) \/ Wind(i) \/ Sunk(i)
                  /\ \A j \in 0 .. splits - 1 : j # i => ~(Main(j) \/ Wind(j) \/ Sunk(j))
  BY <1>6 DEF m, b
<1>11. CASE b < SinkBlocks(c)
  <2>0. b < r.smax /\ 0 \in 0 .. splits - 1
    BY <1>1, <1>2, <1>3, <1>7, <1>11
  <2>1. 0 \in 0 .. splits - 1 /\ Sunk(0)
    BY <1>4, <2>0
  <2>2. \A j \in 0 .. splits - 1 : j # 0 => ~(Main(j) \/ Wind(j) \/ Sunk(j))
    BY <1>1, <1>2, <1>4, <1>5, <1>11
  <2>3. QED
    BY <2>1, <2>2
<1>12. CASE b >= SinkBlocks(c) /\ r.wmin <= b /\ b < r.wmax
  <2>1. PICK i \in 0 .. splits - 1 : Start(i) <= b - r.wmin /\ b - r.wmin < Start(i) + Size(i)
    BY <1>3, <1>9, <1>12, SharesCover
  <2>2. \A j \in 0 .. splits - 1 :
          /\ Start(j) \in Nat /\ Size(j) \in Nat
          /\ i < j => Start(i) + Size(i) <= Start(j)
          /\ j < i => Start(j) + Size(j) <= Start(i)
    BY <1>3, <1>9, SharesApart
  <2> HIDE DEF Start, Size
  <2>3. Wind(i)
    BY <1>1, <1>2, <1>4, <2>1, <2>2
  <2>4. ASSUME NEW j \in 0 .. splits - 1, j # i
        PROVE  ~(Main(j) \/ Wind(j) \/ Sunk(j))
    <3>1. ~Main(j) /\ ~Sunk(j)
      BY <1>1, <1>2, <1>4, <1>5, <1>12
    <3>2. ~Wind(j)
      <4>1. Start(j) \in Nat /\ Size(j) \in Nat /\ Start(i) \in Nat /\ Size(i) \in Nat
        BY <2>2
      <4>2. Start(i) + Size(i) <= Start(j) \/ Start(j) + Size(j) <= Start(i)
        BY <1>3, <2>2, <2>4
      <4>3. ~(r.wmin + Start(j) <= b /\ b < r.wmin + Start(j) + Size(j))
        BY <1>1, <1>2, <2>1, <4>1, <4>2
      <4>4. QED
        BY <1>4, <4>3
    <3>3. QED
      BY <3>1, <3>2
  <2>5. QED
    BY <2>3, <2>4
<1>13. CASE b >= SinkBlocks(c) /\ ~(r.wmin <= b /\ b < r.wmax)
  <2>1. splits - 1 \in 0 .. splits - 1 /\ Main(splits - 1)
    BY <1>1, <1>2, <1>3, <1>4, <1>7, <1>8, <1>13
  <2>2. \A j \in 0 .. splits - 1 : j # splits - 1 => ~(Main(j) \/ Wind(j) \/ Sunk(j))
    BY <1>1, <1>2, <1>4, <1>13
  <2>3. QED
    BY <2>1, <2>2
<1>14. QED
  BY <1>1, <1>2, <1>11, <1>12, <1>13

-----------------------------------------------------------------------------
(* The same for launches without windows, whose splits share all blocks.   *)
LEMMA RawPlain ==
    ASSUME c \in Launches, ~IsLocal(c), NEW m \in Nat, NEW b \in Nat
    PROVE  \E top \in Int :
             /\ RawN(c, m) = [min |-> 0, max |-> top, wmin |-> 0, wmax |-> 0, smax |-> 0]
             /\ top <= NumN(c) /\ (c.kind = "full" => top = NumN(c))
             /\ b < top <=> b < NumN(c) /\ (c.kind = "causal" => b * c.tn < KeyEnd(c, m))
<1>1. /\ IsProblem(c) /\ KeyEnd(c, m) \in Int /\ NumN(c) \in Nat
      /\ c.tn \in Nat \ {0} /\ c.trunc \in BOOLEAN
      /\ c.kind = "full" \/ c.kind = "causal"
  BY LaunchFacts, KeyTypes DEF IsLocal
<1>2. /\ CeilDiv(c, KeyEnd(c, m), c.tn) \in Int
      /\ b < CeilDiv(c, KeyEnd(c, m), c.tn) <=> b * c.tn < KeyEnd(c, m)
  BY <1>1, CeilDivBound
<1>3. CASE c.kind = "full"
  BY <1>1, <1>3, RawKeyForms
<1>4. CASE c.kind = "causal"
  <2> DEFINE top == Least(NumN(c), CeilDiv(c, KeyEnd(c, m), c.tn))
  <2>1. /\ top \in Int /\ top <= NumN(c)
        /\ b < top <=> b < NumN(c) /\ b * c.tn < KeyEnd(c, m)
    BY <1>1, <1>2 DEF Least
  <2>2. RawN(c, m) = [min |-> 0, max |-> top, wmin |-> 0, wmax |-> 0, smax |-> 0]
    BY <1>4, RawKeyForms
  <2> HIDE DEF top
  <2>3. QED
    BY <1>4, <2>1, <2>2
<1>5. QED
  BY <1>1, <1>3, <1>4

LEMMA SplitMainForm ==
    ASSUME ~IsLocal(c), NEW top, NEW i
    PROVE  LET start == ShareStart(c, Most(top - 0, 0), i)
               size  == ShareSize(c, Most(top - 0, 0), i)
               max   == Least(0 + start + size, top)
           IN  ClampN(c, SplitMainN(c, [min |-> 0, max |-> top, wmin |-> 0,
                                        wmax |-> 0, smax |-> 0], i))
                 = [min |-> Least(0 + start, max), max |-> max, wmin |-> 0, wmax |-> 0,
                    smax |-> 0]
BY DEF ClampN, SplitMainN

LEMMA GatherForm ==
    ASSUME NEW top \in Int, NEW i,
           ShareStart(c, NumN(c), i) \in Int, ShareSize(c, NumN(c), i) \in Int,
           RawN(c, 0) = [min |-> 0, max |-> top, wmin |-> 0, wmax |-> 0, smax |-> 0]
    PROVE  GatherN(i) =
             [min |-> ShareStart(c, NumN(c), i),
              max |-> Least(ShareStart(c, NumN(c), i) + ShareSize(c, NumN(c), i), top),
              wmin |-> 0, wmax |-> 0, smax |-> 0]
<1> DEFINE min == ShareStart(c, NumN(c), i)
           max == Least(min + ShareSize(c, NumN(c), i), top)
           r   == RawN(c, 0)
           s   == [r EXCEPT !.min = min, !.max = max]
           t   == [min |-> min, max |-> max, wmin |-> 0, wmax |-> 0, smax |-> 0]
<1>1. min \in Int /\ max \in Int
  BY DEF Least
<1>2. /\ r \in KeyRange /\ r.max = top /\ r.wmin = 0 /\ r.wmax = 0 /\ r.smax = 0
  BY KeyRangeOf
<1>3. GatherN(i) = s
  BY <1>2 DEF GatherN
<1> HIDE DEF min, max, r
<1>4. /\ s \in KeyRange /\ s.min = min /\ s.max = max
      /\ s.wmin = 0 /\ s.wmax = 0 /\ s.smax = 0
  BY <1>1, <1>2 DEF KeyRange
<1>5. /\ t \in KeyRange /\ t.min = min /\ t.max = max
      /\ t.wmin = 0 /\ t.wmax = 0 /\ t.smax = 0
  BY <1>1 DEF KeyRange
<1> HIDE DEF s, t
<1>6. s = t
  BY <1>4, <1>5, SameFields
<1>7. QED
  BY <1>3, <1>6 DEF t, min, max

LEMMA WholePlain ==
    ASSUME c \in Launches, Kernel # "bwd", ~IsLocal(c), splits = 0, NEW m \in Nat, NEW b \in Nat
    PROVE  LET g == ProgramN(m, 0)
           IN  /\ g.min \in Int /\ g.max \in Int /\ g.min <= g.max /\ g.max <= NumN(c)
               /\ g.wmin = 0 /\ g.wmax = 0 /\ g.smax = 0
               /\ g.min <= b /\ b < g.max <=>
                    b < NumN(c) /\ (c.kind = "causal" => b * c.tn < KeyEnd(c, m))
<1>1. ProgramN(m, 0) = NBlocks(c, m)
  <2>1. ~c.gather
    BY LaunchFacts
  <2>2. QED
    BY <2>1 DEF ProgramN, NBlocks
<1>2. QED
  BY <1>1, LaunchFacts, FullAndCausalBlocks

(* The blocks that the splits of a tile share. *)
Shared(m) == Most(RawN(c, IF c.gather THEN 0 ELSE m).max, 0)

LEMMA SplitPlain ==
    ASSUME c \in Launches, Kernel # "bwd", ~IsLocal(c), splits # 0,
           NEW m \in Nat, NEW i \in 0 .. splits - 1, NEW b \in Nat
    PROVE  LET g     == ProgramN(m, i)
               total == Shared(m)
           IN  /\ g.min \in Int /\ g.max \in Int /\ g.min <= g.max /\ g.max <= NumN(c)
               /\ g.wmin = 0 /\ g.wmax = 0 /\ g.smax = 0
               /\ total \in Nat
               /\ g.min <= b /\ b < g.max <=>
                    /\ ShareStart(c, total, i) <= b
                    /\ b < ShareStart(c, total, i) + ShareSize(c, total, i)
               /\ b < total <=> b < NumN(c) /\ (c.kind = "causal" => b * c.tn < KeyEnd(c, m))
<1>1. /\ c.splits \in Nat \ {0} /\ i \in 0 .. c.splits - 1 /\ NumN(c) \in Nat
      /\ c.gather => c.kind = "full"
  BY LaunchFacts, KeyTypes, 0 \in Nat DEF splits
<1> DEFINE h == IF c.gather THEN 0 ELSE m
<1>2. h \in Nat
  OBVIOUS
<1>3. PICK top \in Int :
        /\ RawN(c, h) = [min |-> 0, max |-> top, wmin |-> 0, wmax |-> 0, smax |-> 0]
        /\ top <= NumN(c) /\ (c.kind = "full" => top = NumN(c))
        /\ b < top <=> b < NumN(c) /\ (c.kind = "causal" => b * c.tn < KeyEnd(c, h))
  <2> HIDE DEF h
  <2>1. QED
    BY <1>2, RawPlain
<1>4. b < top <=> b < NumN(c) /\ (c.kind = "causal" => b * c.tn < KeyEnd(c, m))
  BY <1>1, <1>3
<1> DEFINE total == Most(top, 0)
           start == ShareStart(c, total, i)
           size  == ShareSize(c, total, i)
           max   == Least(start + size, top)
<1>5. total \in Nat
  BY DEF Most
<1>6. start \in Nat /\ size \in Nat /\ start + size <= total
  <2> HIDE DEF total
  <2>1. QED
    BY <1>1, <1>5, SharesApart
<1>7. max \in Int /\ max <= NumN(c)
  <2> HIDE DEF total, start, size
  <2>1. QED
    BY <1>1, <1>3, <1>6 DEF Least
<1>8. ProgramN(m, i) = [min |-> Least(start, max), max |-> max, wmin |-> 0, wmax |-> 0, smax |-> 0]
  <2>1. CASE c.gather
    <3>1. top = NumN(c) /\ total = NumN(c)
      BY <1>1, <1>3, <2>1 DEF Most
    <3>2. ProgramN(m, i) = GatherN(i)
      BY <2>1 DEF ProgramN
    <3>3. GatherN(i) = [min |-> start, max |-> max, wmin |-> 0, wmax |-> 0, smax |-> 0]
      <4>1. RawN(c, 0) = [min |-> 0, max |-> top, wmin |-> 0, wmax |-> 0, smax |-> 0]
        BY <1>3, <2>1
      <4>2. start \in Int /\ size \in Int
        BY <1>6
      <4>3. /\ ShareStart(c, NumN(c), i) = start /\ ShareSize(c, NumN(c), i) = size
        BY <3>1
      <4> HIDE DEF start, size
      <4>4. QED
        BY <4>1, <4>2, <4>3, GatherForm
    <3>4. Least(start, max) = start
      <4> HIDE DEF total, start, size
      <4>1. QED
        BY <1>1, <1>6, <3>1 DEF Least
    <3>5. QED
      BY <3>2, <3>3, <3>4
  <2>2. CASE ~c.gather
    <3>1. RawN(c, m) = [min |-> 0, max |-> top, wmin |-> 0, wmax |-> 0, smax |-> 0]
      BY <1>3, <2>2
    <3>2. ProgramN(m, i) = ClampN(c, SplitMainN(c, [min |-> 0, max |-> top, wmin |-> 0,
                                                    wmax |-> 0, smax |-> 0], i))
      BY <2>2, <3>1 DEF ProgramN, SplitN, SplitRaw
    <3>3. top - 0 = top
      OBVIOUS
    <3>4. 0 + start = start
      <4> HIDE DEF start
      <4>1. QED
        BY <1>6
    <3>5. QED
      BY <3>2, <3>3, <3>4, SplitMainForm
  <2>3. QED
    BY <2>1, <2>2
<1> DEFINE g == ProgramN(m, i)
<1>9. /\ g.min = Least(start, max) /\ g.max = max /\ g.wmin = 0 /\ g.wmax = 0 /\ g.smax = 0
  BY <1>8
<1>10. total = IF top >= 0 THEN top ELSE 0
  BY DEF Most
<1> HIDE DEF total, start, size, g
<1>11. /\ g.min \in Int /\ g.max \in Int /\ g.min <= g.max /\ g.max <= NumN(c)
       /\ g.min <= b /\ b < g.max <=> start <= b /\ b < start + size
  BY <1>5, <1>6, <1>7, <1>9, <1>10 DEF Least
<1>12. total = Shared(m)
  BY <1>3 DEF Shared, total
<1>13. b < total <=> b < top
  BY <1>10
<1>14. QED
  BY <1>4, <1>5, <1>9, <1>11, <1>12, <1>13 DEF start, size, g

(* The blocks that a tile's mask reaches. *)
LEMMA PlainOwner ==
    ASSUME c \in Launches, Kernel # "bwd", ~IsLocal(c), NEW row \in Rows, NEW k \in Keys,
           Allowed(row, k)
    PROVE  \E i \in 0 .. Most(splits, 1) - 1 :
             /\ KeyVisited(ProgramN(RowTile(row), i), KeyBlock(k))
             /\ \A j \in 0 .. Most(splits, 1) - 1 :
                  j # i => ~KeyVisited(ProgramN(RowTile(row), j), KeyBlock(k))
<1> DEFINE m == RowTile(row)
           b == KeyBlock(k)
           q == row \div c.pack
           Seen == b < NumN(c) /\ (c.kind = "causal" => b * c.tn < KeyEnd(c, m))
<1>1. /\ m \in Nat /\ b \in Nat /\ k \in Nat /\ b < NumN(c)
      /\ b * c.tn \in Nat /\ b * c.tn <= k
  BY KeyPair
<1>2. Seen
  <2>1. CASE c.kind = "causal"
    <3>1. ~c.gather
      BY <2>1, LaunchFacts
    <3>2. Dist(c, q, k) >= 0
      BY <2>1, <3>1 DEF Allowed, Attends
    <3>3. /\ Diagonal(q) \in Int /\ Dist(c, q, k) = Diagonal(q) - k
          /\ KeyEnd(c, m) \in Int /\ Diagonal(q) < KeyEnd(c, m)
      BY DiagonalFacts
    <3> HIDE DEF m, b, q
    <3>4. QED
      BY <1>1, <3>2, <3>3
  <2>2. QED
    BY <1>1, <2>1
<1>3. CASE splits = 0
  <2>1. Most(splits, 1) - 1 = 0
    BY <1>3 DEF Most
  <2> DEFINE g == ProgramN(m, 0)
  <2>2. g.min <= b /\ b < g.max
    BY <1>1, <1>2, <1>3, WholePlain
  <2>3. KeyVisited(g, b)
    BY <2>2 DEF KeyVisited
  <2>4. QED
    BY <2>1, <2>3
<1>4. CASE splits # 0
  <2>1. splits \in Nat \ {0} /\ c.splits = splits /\ Most(splits, 1) = splits
    BY <1>4, LaunchFacts DEF splits, Most
  <2> DEFINE total == Shared(m)
             Start(i) == ShareStart(c, total, i)
             Size(i)  == ShareSize(c, total, i)
             V(i) == KeyVisited(ProgramN(m, i), b)
  <2>2. \A i \in 0 .. splits - 1 :
          /\ total \in Nat /\ b < total
          /\ V(i) <=> Start(i) <= b /\ b < Start(i) + Size(i)
    <3> TAKE i \in 0 .. splits - 1
    <3> DEFINE g == ProgramN(m, i)
    <3>1. /\ g.wmin = 0 /\ g.wmax = 0 /\ g.smax = 0 /\ total \in Nat /\ b < total
          /\ g.min <= b /\ b < g.max <=> Start(i) <= b /\ b < Start(i) + Size(i)
      BY <1>1, <1>2, <1>4, SplitPlain
    <3>2. V(i) <=> g.min <= b /\ b < g.max
      <4> HIDE DEF g, b
      <4>1. KeyVisited(g, b) <=> g.min <= b /\ b < g.max
        BY <1>1, <3>1 DEF KeyVisited
      <4>2. QED
        BY <4>1 DEF g
    <3>3. QED
      BY <3>1, <3>2
  <2>3. total \in Nat /\ b \in 0 .. total - 1
    <3>1. 0 \in 0 .. splits - 1
      BY <2>1
    <3> HIDE DEF total, b
    <3>2. QED
      BY <1>1, <2>2, <3>1
  <2> HIDE DEF total, m, b
  <2>4. PICK i \in 0 .. splits - 1 : Start(i) <= b /\ b < Start(i) + Size(i)
    BY <2>1, <2>3, SharesCover
  <2>5. \A j \in 0 .. splits - 1 :
          /\ Start(j) \in Nat /\ Size(j) \in Nat
          /\ i < j => Start(i) + Size(i) <= Start(j)
          /\ j < i => Start(j) + Size(j) <= Start(i)
    BY <2>1, <2>3, SharesApart
  <2> HIDE DEF Start, Size, V
  <2>6. \A j \in 0 .. splits - 1 : j # i => ~V(j)
    <3> TAKE j \in 0 .. splits - 1
    <3>1. Start(j) \in Nat /\ Size(j) \in Nat /\ Start(i) \in Nat /\ Size(i) \in Nat
      BY <2>5
    <3>2. HAVE j # i
    <3>3. Start(i) + Size(i) <= Start(j) \/ Start(j) + Size(j) <= Start(i)
      BY <2>1, <2>5, <3>2
    <3>4. QED
      BY <1>1, <2>2, <2>4, <3>1, <3>3
  <2>7. V(i)
    BY <2>2, <2>4
  <2>8. QED
    BY <2>1, <2>6, <2>7 DEF V, m, b
<1>5. QED
  BY <1>3, <1>4

LEMMA KeyOwner ==
    ASSUME c \in Launches, Kernel # "bwd", NEW row \in Rows, NEW k \in Keys,
           splits # 0 /\ IsLocal(c) /\ c.sq = 1 => c.right = 0,
           Allowed(row, k)
    PROVE  \E i \in 0 .. Most(splits, 1) - 1 :
             /\ KeyVisited(ProgramN(RowTile(row), i), KeyBlock(k))
             /\ \A j \in 0 .. Most(splits, 1) - 1 :
                  j # i => ~KeyVisited(ProgramN(RowTile(row), j), KeyBlock(k))
<1>1. CASE ~IsLocal(c)
  BY <1>1, PlainOwner
<1>2. CASE IsLocal(c)
  <2>1. ~c.gather
    BY <1>2, LaunchFacts DEF IsLocal
  <2>2. Attends(c, row \div c.pack, k)
    BY <2>1 DEF Allowed
  <2>3. CASE splits = 0
    <3>1. 0 .. Most(splits, 1) - 1 = {0}
      BY <2>3 DEF Most
    <3>2. KeyVisited(ProgramN(RowTile(row), 0), KeyBlock(k))
      BY <1>2, <2>2, <2>3, WholeLocalOwner
    <3>3. QED
      BY <3>1, <3>2
  <2>4. CASE splits # 0
    <3>1. Most(splits, 1) = splits
      BY <2>4, LaunchFacts DEF Most
    <3>2. QED
      BY <1>2, <2>1, <2>2, <2>4, <3>1, SplitLocalOwner
  <2>5. QED
    BY <2>3, <2>4
<1>3. QED
  BY <1>1, <1>2

-----------------------------------------------------------------------------
(* How often a program accumulates a pair, from the loops that reach it.   *)
Hits(loop, row, k) ==
    Inner(row, k) \in loop.from .. loop.to - 1 /\ KeptBy(loop, row, k)

LEMMA AtMostOne ==
    ASSUME NEW T, \A x, y \in T : x = y
    PROVE  Cardinality(T) = IF T = {} THEN 0 ELSE 1
<1>1. CASE T = {}
  BY <1>1, FS_EmptySet
<1>2. CASE T # {}
  <2>1. PICK x \in T : TRUE
    BY <1>2
  <2>2. T = {x}
    BY <2>1
  <2>3. QED
    BY <1>2, <2>2, FS_Singleton
<1>3. QED
  BY <1>1, <1>2

LEMMA TimesOf ==
    ASSUME NEW p, NEW row, NEW k, p[1] = Outer(row, k), NEW n1 \in Nat,
           DOMAIN Loops(p) = 1 .. n1,
           \A i, j \in 1 .. n1 :
             Hits(Loops(p)[i], row, k) /\ Hits(Loops(p)[j], row, k) => i = j
    PROVE  Times(p, row, k) = IF \E j \in 1 .. n1 : Hits(Loops(p)[j], row, k) THEN 1 ELSE 0
<1> DEFINE T == {j \in DOMAIN Loops(p) : /\ Inner(row, k) \in Loops(p)[j].from .. Loops(p)[j].to - 1
                                         /\ KeptBy(Loops(p)[j], row, k)}
<1>1. Times(p, row, k) = Cardinality(T)
  BY DEF Times
<1>2. T = {j \in 1 .. n1 : Hits(Loops(p)[j], row, k)}
  BY DEF Hits
<1> HIDE DEF T
<1>3. Cardinality(T) = IF T = {} THEN 0 ELSE 1
  BY <1>2, AtMostOne
<1>4. T = {} <=> ~ \E j \in 1 .. n1 : Hits(Loops(p)[j], row, k)
  BY <1>2
<1>5. QED
  BY <1>1, <1>3, <1>4

LEMMA TimesOfTwo ==
    ASSUME NEW p, NEW row, NEW k, p[1] = Outer(row, k), NEW x \in LoopSet, NEW y \in LoopSet,
           Loops(p) = <<x>> \o <<y>>, ~(Hits(x, row, k) /\ Hits(y, row, k))
    PROVE  Times(p, row, k) = IF Hits(x, row, k) \/ Hits(y, row, k) THEN 1 ELSE 0
<1> DEFINE L == Loops(p)
<1>1. L \in Seq(LoopSet) /\ Len(L) = 2 /\ L[1] = x /\ L[2] = y
  <2>1. L = Then(One(x), y)
    BY DEF Then, One
  <2> HIDE DEF L
  <2>2. QED
    BY <2>1, TwoLoops
<1> HIDE DEF L
<1>2. DOMAIN L = 1 .. 2
  BY <1>1
<1>3. \A i \in 1 .. 2 : i = 1 \/ i = 2
  OBVIOUS
<1>4. \A i, j \in 1 .. 2 : Hits(L[i], row, k) /\ Hits(L[j], row, k) => i = j
  BY <1>1, <1>3
<1>5. (\E j \in 1 .. 2 : Hits(L[j], row, k)) <=> Hits(x, row, k) \/ Hits(y, row, k)
  BY <1>1, <1>3
<1>6. QED
  BY <1>2, <1>4, <1>5, TimesOf DEF L

LEMMA TimesOfFive ==
    ASSUME NEW p, NEW row, NEW k, p[1] = Outer(row, k), NEW x \in LoopSet, NEW y \in LoopSet,
           NEW z \in LoopSet, NEW u \in LoopSet, NEW v \in LoopSet,
           Loops(p) = Five(x, y, z, u, v),
           ~(Hits(x, row, k) /\ (Hits(y, row, k) \/ Hits(z, row, k) \/ Hits(u, row, k)
                                   \/ Hits(v, row, k))),
           ~(Hits(y, row, k) /\ (Hits(z, row, k) \/ Hits(u, row, k) \/ Hits(v, row, k))),
           ~(Hits(z, row, k) /\ (Hits(u, row, k) \/ Hits(v, row, k))),
           ~(Hits(u, row, k) /\ Hits(v, row, k))
    PROVE  Times(p, row, k) = IF Hits(x, row, k) \/ Hits(y, row, k) \/ Hits(z, row, k)
                                   \/ Hits(u, row, k) \/ Hits(v, row, k) THEN 1 ELSE 0
<1> DEFINE L == Loops(p)
<1>1. /\ L \in Seq(LoopSet) /\ Len(L) = 5
      /\ L[1] = x /\ L[2] = y /\ L[3] = z /\ L[4] = u /\ L[5] = v
  BY FiveLoops
<1> HIDE DEF L
<1>2. DOMAIN L = 1 .. 5
  BY <1>1
<1>3. \A i \in 1 .. 5 : i = 1 \/ i = 2 \/ i = 3 \/ i = 4 \/ i = 5
  OBVIOUS
<1> DEFINE H(i) == Hits(L[i], row, k)
<1>4. /\ H(1) <=> Hits(x, row, k)
      /\ H(2) <=> Hits(y, row, k)
      /\ H(3) <=> Hits(z, row, k)
      /\ H(4) <=> Hits(u, row, k)
      /\ H(5) <=> Hits(v, row, k)
  BY <1>1
<1>5. \A i, j \in 1 .. 5 : H(i) /\ H(j) => i = j
  <2> HIDE DEF H
  <2>1. QED
    BY <1>3, <1>4
<1>6. (\E j \in 1 .. 5 : H(j)) <=> \/ Hits(x, row, k) \/ Hits(y, row, k) \/ Hits(z, row, k)
                                   \/ Hits(u, row, k) \/ Hits(v, row, k)
  <2> HIDE DEF H
  <2>1. 1 \in 1 .. 5 /\ 2 \in 1 .. 5 /\ 3 \in 1 .. 5 /\ 4 \in 1 .. 5 /\ 5 \in 1 .. 5
    OBVIOUS
  <2>2. QED
    BY <1>3, <1>4, <2>1
<1>7. QED
  BY <1>2, <1>5, <1>6, TimesOf DEF L

(* The ranges of a local program do not overlap, and only the sink range   *)
(* has sink blocks.                                                        *)
LEMMA LocalApart ==
    ASSUME c \in Launches, IsLocal(c), NEW m \in Nat, NEW i \in 0 .. Most(splits, 1) - 1,
           NEW b \in Nat
    PROVE  LET g == ProgramN(m, i)
           IN  /\ {g.min, g.max, g.wmin, g.wmax, g.smax} \subseteq Int
               /\ g.min <= g.max /\ g.wmin <= g.wmax
               /\ g.min <= b /\ b < g.max => b >= SinkBlocks(c) /\ ~(g.wmin <= b /\ b < g.wmax)
               /\ g.wmin <= b /\ b < g.wmax => b >= SinkBlocks(c)
               /\ b < g.smax => b < SinkBlocks(c)
<1>0. /\ IsProblem(c) /\ ~c.gather
  BY LaunchFacts DEF IsLocal
<1> DEFINE g == ProgramN(m, i)
<1>1. CASE splits = 0
  <2>1. g = NBlocks(c, m)
    BY <1>0, <1>1 DEF ProgramN, NBlocks
  <2>2. /\ {g.min, g.max, g.wmin, g.wmax, g.smax} \subseteq Int
        /\ g.min <= g.max /\ g.wmin <= g.wmax
        /\ g.wmin < g.wmax => g.wmax <= g.min
        /\ g.min <= b /\ b < g.max => b >= SinkBlocks(c)
        /\ g.wmin <= b /\ b < g.wmax => b >= SinkBlocks(c)
        /\ b < g.smax => b < SinkBlocks(c)
    BY <1>0, <2>1, LocalBlocks
  <2> HIDE DEF g
  <2>3. {g.min, g.max, g.wmin, g.wmax, g.smax} \subseteq Int
    BY <2>2
  <2>4. g.min \in Int /\ g.max \in Int /\ g.wmin \in Int /\ g.wmax \in Int
    BY <2>3
  <2>5. QED
    BY <2>2, <2>3, <2>4 DEF g
<1>2. CASE splits # 0
  <2>1. i \in 0 .. splits - 1 /\ 0 \in 0 .. splits - 1
    BY <1>2, LaunchFacts DEF Most
  <2> DEFINE r == RawN(c, m)
  <2>2. /\ {g.min, g.max, g.wmin, g.wmax, g.smax} \subseteq Int
        /\ g.min <= g.max
        /\ g.wmin <= g.wmax
    <3> DEFINE total == Most(r.wmax - r.wmin, 0)
               start == ShareStart(c, total, i)
               size  == ShareSize(c, total, i)
    <3>1. /\ {g.min, g.max, g.wmin, g.wmax, g.smax} \subseteq Int /\ g.min <= g.max
          /\ start \in Nat /\ size \in Nat
          /\ g.wmin = r.wmin + start /\ g.wmax = r.wmin + start + size
      BY <1>0, <1>2, <2>1, SplitLocalRanges
    <3>2. r.wmin \in Nat
      BY RawLocal
    <3> HIDE DEF start, size, g, r
    <3>3. QED
      BY <3>1, <3>2
  <2>3. /\ g.min <= b /\ b < g.max => MainFrom(m, r) <= b
        /\ g.wmin <= b /\ b < g.wmax => r.wmin <= b /\ b < r.wmax
        /\ b < g.smax => b < r.smax
        /\ MainFrom(m, r) \in Int /\ MainFrom(m, r) >= SinkBlocks(c)
        /\ MainFrom(m, r) >= r.wmax
    BY <1>0, <1>2, <2>1, SplitLocalVisits
  <2>4. /\ r.wmin \in Nat /\ r.wmax \in Nat /\ r.smax \in Nat
        /\ r.wmin >= SinkBlocks(c) /\ (b < r.smax => b < SinkBlocks(c))
        /\ SinkBlocks(c) \in Nat
    BY <1>0, RawLocal, KeyTypes
  <2> HIDE DEF g, r
  <2>5. QED
    BY <2>2, <2>3, <2>4 DEF g
<1>3. QED
  BY <1>1, <1>2

(* What the masks of the loops keep. *)
LEMMA HitsForms ==
    ASSUME NEW from, NEW to, NEW row, NEW k
    PROVE  LET q  == row \div c.pack
               In == Inner(row, k) \in from .. to - 1
           IN  /\ Hits(LoopOf(from, to, TRUE, "none"), row, k) <=> In /\ k < c.sk
               /\ Hits(LoopOf(from, to, TRUE, "full"), row, k) => In
               /\ Hits(LoopOf(from, to, TRUE, "causal"), row, k) <=>
                    In /\ k < c.sk /\ Dist(c, q, k) >= 0
               /\ Hits(LoopOf(from, to, TRUE, "local"), row, k) <=>
                    In /\ k < c.sk /\ (InNear(c, q, k) \/ InWindow(c, q, k))
               /\ Hits(LoopOf(from, to, TRUE, "sink"), row, k) <=>
                    In /\ k < c.sk /\ (InNear(c, q, k) \/ InWindow(c, q, k) \/ InSink(c, q, k))
               /\ Hits(LoopOf(from, to, FALSE, "none"), row, k) <=> In
               /\ Hits(LoopOf(from, to, TRUE, "gather"), row, k) <=>
                    In /\ (k < c.entries \/ k >= c.sk)
               /\ Hits(LoopOf(from, to, FALSE, "gather"), row, k) <=>
                    In /\ (k < c.entries \/ k >= c.sk)
<1> DEFINE q == row \div c.pack
           L(s, mask) == LoopOf(from, to, s, mask)
<1>1. \A s, mask : /\ L(s, mask).from = from /\ L(s, mask).to = to
                   /\ L(s, mask).seqlen = s /\ L(s, mask).mask = mask
  BY DEF LoopOf
<1> HIDE DEF L
<1>2. \A s, mask : Hits(L(s, mask), row, k) <=>
        Inner(row, k) \in from .. to - 1 /\ KeptBy(L(s, mask), row, k)
  BY <1>1 DEF Hits
<1>3. \A s, mask : mask # "gather" => (KeptBy(L(s, mask), row, k) <=> Kept(c, s, mask, q, k))
  BY <1>1 DEF KeptBy
<1>4. \A s : KeptBy(L(s, "gather"), row, k) <=> k < c.entries \/ k >= c.sk
  BY <1>1 DEF KeptBy
<1> HIDE DEF q
<1>5. /\ Kept(c, TRUE, "none", q, k) <=> k < c.sk
      /\ Kept(c, FALSE, "none", q, k)
      /\ Kept(c, TRUE, "causal", q, k) <=> k < c.sk /\ Dist(c, q, k) >= 0
      /\ Kept(c, TRUE, "local", q, k) <=> k < c.sk /\ (InNear(c, q, k) \/ InWindow(c, q, k))
      /\ Kept(c, TRUE, "sink", q, k) <=>
           k < c.sk /\ (InNear(c, q, k) \/ InWindow(c, q, k) \/ InSink(c, q, k))
  BY DEF Kept
<1>6. QED
  BY <1>2, <1>3, <1>4, <1>5 DEF L, q

LEMMA WithinFacts ==
    ASSUME NEW x \in Int, NEW from \in Int, NEW to \in Int, from <= to, NEW b \in Int
    PROVE  LET w == Within(x, from, to)
           IN  /\ w \in Int /\ from <= w /\ w <= to
               /\ from <= b /\ b < w => b < x
               /\ w <= b /\ b < to => x <= b
BY DEF Within, Least, Most

LEMMA LocalTimes ==
    ASSUME c \in Launches, Kernel # "bwd", IsLocal(c), NEW row \in Rows, NEW k \in Keys,
           NEW i \in 0 .. Most(splits, 1) - 1,
           range[<<RowTile(row), i>>] = ProgramN(RowTile(row), i)
    PROVE  Times(<<RowTile(row), i>>, row, k) =
             IF KeyVisited(ProgramN(RowTile(row), i), KeyBlock(k)) /\ Allowed(row, k)
             THEN 1 ELSE 0
<1> DEFINE m == RowTile(row)
           b == KeyBlock(k)
           q == row \div c.pack
           p == <<m, i>>
           g == ProgramN(m, i)
           r == range[p]
           unmasked == IF splits = 0 \/ LastSplit(c, i) THEN r.min
                       ELSE Least(MaskFrom(c, m, r.min, FALSE), r.max)
           to   == Within(MaskFrom(c, m, r.wmin, TRUE), r.wmin, r.wmax)
           from == Within(FullFrom(m, r.wmin), r.wmin, to)
           x == LoopOf(unmasked, r.max, TRUE, "local")
           y == LoopOf(to, r.wmax, TRUE, "local")
           z == LoopOf(from, to, FALSE, "none")
           u == LoopOf(r.wmin, from, TRUE, "local")
           v == LoopOf(0, r.smax, TRUE, "sink")
           Main == r.min <= b /\ b < r.max
           Wind == r.wmin <= b /\ b < r.wmax
           Sunk == b < r.smax
           Local == InNear(c, q, k) \/ InWindow(c, q, k)
<1>1. /\ m \in Nat /\ b \in Nat /\ k \in Nat /\ q \in Nat /\ q < c.sq
      /\ b * c.tn \in Nat /\ b * c.tn <= k /\ k < b * c.tn + c.tn
      /\ (b + 1) * c.tn = b * c.tn + c.tn
      /\ RowStart(c, m) \in Int /\ RowStart(c, m) <= q /\ q < RowEnd(c, m)
  BY KeyPair
<1>2. /\ IsProblem(c) /\ ~c.gather /\ c.kind = "local"
      /\ {c.sq, c.sk, c.sink, c.left, c.right, c.near} \subseteq Nat
      /\ c.tn \in Nat \ {0} /\ c.trunc \in BOOLEAN
      /\ SinkBlocks(c) \in Nat /\ (b < SinkBlocks(c) <=> b * c.tn < c.sink)
      /\ KeyStart(c, m) \in Int /\ KeyEnd(c, m) \in Int
  BY <1>1, LaunchFacts, KeyTypes DEF IsLocal
<1>3. /\ {r.min, r.max, r.wmin, r.wmax, r.smax} \subseteq Int
      /\ r.min <= r.max /\ r.wmin <= r.wmax
      /\ Main => b >= SinkBlocks(c) /\ ~Wind
      /\ Wind => b >= SinkBlocks(c)
      /\ Sunk => b < SinkBlocks(c)
  <2>1. r = g
    OBVIOUS
  <2>2. /\ {g.min, g.max, g.wmin, g.wmax, g.smax} \subseteq Int
        /\ g.min <= g.max /\ g.wmin <= g.wmax
        /\ g.min <= b /\ b < g.max => b >= SinkBlocks(c) /\ ~(g.wmin <= b /\ b < g.wmax)
        /\ g.wmin <= b /\ b < g.wmax => b >= SinkBlocks(c)
        /\ b < g.smax => b < SinkBlocks(c)
    <3> HIDE DEF b, m
    <3>1. QED
      BY <1>1, LocalApart
  <2> HIDE DEF r, g
  <2>3. QED
    BY <2>1, <2>2
<1>a. /\ r.min \in Int /\ r.max \in Int /\ r.wmin \in Int /\ r.wmax \in Int /\ r.smax \in Int
      /\ b \in Int /\ k \in Int /\ q \in Int
  BY <1>1, <1>3
<1>4. KeyVisited(r, b) <=> Main \/ Wind \/ Sunk
  BY DEF KeyVisited
<1>5. /\ MaskFrom(c, m, r.min, FALSE) \in Int /\ MaskFrom(c, m, r.min, FALSE) >= r.min
      /\ MaskFrom(c, m, r.wmin, TRUE) \in Int
      /\ b < MaskFrom(c, m, r.wmin, TRUE) => b < r.wmin \/ (b + 1) * c.tn <= KeyStart(c, m) - (c.near + c.right)
      /\ FullFrom(m, r.wmin) \in Int
      /\ FullFrom(m, r.wmin) <= b => KeyEnd(c, m) - c.near - c.right - c.left <= b * c.tn
  <2>1. /\ r.min \in Int /\ r.wmin \in Int
        /\ KeyStart(c, m) - 0 \in Int /\ KeyStart(c, m) - (c.near + c.right) \in Int
        /\ KeyEnd(c, m) - c.near - c.right - c.left \in Int
    BY <1>2, <1>3
  <2> DEFINE s0 == KeyStart(c, m) - 0
             s1 == KeyStart(c, m) - (c.near + c.right)
             e1 == KeyEnd(c, m) - c.near - c.right - c.left
  <2>2. s0 \in Int /\ s1 \in Int /\ e1 \in Int
    BY <2>1
  <2>3. /\ MaskFrom(c, m, r.min, FALSE) = Most(r.min, Quot(c, s0, c.tn))
        /\ MaskFrom(c, m, r.wmin, TRUE) = Most(r.wmin, Quot(c, s1, c.tn))
        /\ FullFrom(m, r.wmin) = Most(r.wmin, CeilDiv(c, e1, c.tn))
    BY DEF MaskFrom, FullFrom
  <2> HIDE DEF s0, s1, e1, b, m, r
  <2>4. /\ Quot(c, s0, c.tn) \in Int /\ Quot(c, s1, c.tn) \in Int
        /\ b + 1 <= Quot(c, s1, c.tn) <=> (b + 1) * c.tn <= s1
        /\ CeilDiv(c, e1, c.tn) \in Int
        /\ b < CeilDiv(c, e1, c.tn) <=> b * c.tn < e1
    BY <1>1, <1>2, <2>2, QuotBound, CeilDivBound
  <2>5. b * c.tn \in Int
    BY <1>1
  <2> DEFINE bt == b * c.tn
             bu == (b + 1) * c.tn
             d0 == Quot(c, s0, c.tn)
             d1 == Quot(c, s1, c.tn)
             d2 == CeilDiv(c, e1, c.tn)
  <2>6. /\ d0 \in Int /\ d1 \in Int /\ d2 \in Int /\ bt \in Int
        /\ b < d1 => bu <= s1
        /\ d2 <= b => e1 <= bt
    <3>1. (b < d1 => b + 1 <= d1) /\ (d2 <= b => ~(b < d2))
      BY <1>1, <2>4
    <3>2. QED
      BY <2>2, <2>4, <2>5, <3>1
  <2> HIDE DEF bt, bu, d0, d1, d2
  <2>7. /\ Most(r.min, d0) \in Int /\ Most(r.min, d0) >= r.min
        /\ Most(r.wmin, d1) \in Int
        /\ b < Most(r.wmin, d1) => b < r.wmin \/ bu <= s1
        /\ Most(r.wmin, d2) \in Int
        /\ Most(r.wmin, d2) <= b => e1 <= bt
    BY <1>1, <2>1, <2>6 DEF Most
  <2>8. QED
    BY <2>3, <2>7 DEF s1, e1, bt, bu, d0, d1, d2
<1>6. unmasked \in Int /\ (unmasked <= b /\ b < r.max <=> Main)
  <2>1. CASE splits = 0 \/ LastSplit(c, i)
    BY <1>3, <2>1
  <2>2. CASE ~(splits = 0 \/ LastSplit(c, i))
    <3>1. splits # 0 /\ i \in 0 .. splits - 1 /\ i # splits - 1
      BY <2>2, LaunchFacts DEF LastSplit, Most, splits
    <3>2. r.min = r.max
      <4>1. g.min = g.max
        BY <1>1, <1>2, <3>1, SplitLocalRanges
      <4>2. QED
        BY <4>1
    <3> DEFINE d == MaskFrom(c, m, r.min, FALSE)
    <3>3. d \in Int /\ d >= r.min /\ unmasked = Least(d, r.max)
      BY <1>5, <2>2
    <3> HIDE DEF r, d, b, unmasked
    <3>4. unmasked = r.max
      BY <1>a, <3>2, <3>3 DEF Least
    <3>5. QED
      BY <1>a, <3>2, <3>4
  <2>3. QED
    BY <2>1, <2>2
<1>7. /\ to \in Int /\ from \in Int
      /\ r.wmin <= from /\ from <= to /\ to <= r.wmax
      /\ r.wmin <= b /\ b < to => b < MaskFrom(c, m, r.wmin, TRUE)
      /\ from <= b /\ b < to => FullFrom(m, r.wmin) <= b
  <2>0. r.wmin <= r.wmax
    BY <1>3
  <2> DEFINE s1 == MaskFrom(c, m, r.wmin, TRUE)
             f1 == FullFrom(m, r.wmin)
  <2>1. s1 \in Int /\ f1 \in Int
    BY <1>5
  <2> HIDE DEF r, b, s1, f1
  <2>2. /\ to \in Int /\ r.wmin <= to /\ to <= r.wmax
        /\ r.wmin <= b /\ b < to => b < s1
    BY <1>a, <2>0, <2>1, WithinFacts DEF s1
  <2> HIDE DEF to
  <2>3. /\ from \in Int /\ r.wmin <= from /\ from <= to
        /\ from <= b /\ b < to => f1 <= b
    BY <1>a, <2>1, <2>2, WithinFacts DEF f1
  <2>4. QED
    BY <2>2, <2>3 DEF s1, f1
<1>8. from <= b /\ b < to => k < c.sk /\ InWindow(c, q, k)
  <2>1. SUFFICES ASSUME from <= b, b < to
                 PROVE  k < c.sk /\ InWindow(c, q, k)
    OBVIOUS
  <2>2. /\ KeyEnd(c, m) - c.near - c.right - c.left <= b * c.tn
        /\ b * c.tn + c.tn <= KeyStart(c, m) - (c.near + c.right)
    <3> HIDE DEF r, b, to, from
    <3>1. r.wmin <= b /\ b < r.wmax
      BY <1>a, <1>7, <2>1
    <3>2. ~(b < r.wmin)
      BY <1>a, <3>1
    <3>3. QED
      BY <1>1, <1>5, <1>7, <2>1, <3>1, <3>2
  <2>3. /\ Diagonal(q) \in Int /\ Dist(c, q, k) = Diagonal(q) - k /\ Diagonal(q) < c.sk
        /\ KeyStart(c, m) <= Diagonal(q) /\ Diagonal(q) < KeyEnd(c, m)
    BY DiagonalFacts
  <2> DEFINE bt == b * c.tn
  <2> HIDE DEF r, b, to, from, q, m, bt
  <2>4. /\ {c.near, c.right, c.left, c.sk} \subseteq Int /\ bt \in Int /\ k \in Int
        /\ c.near >= 0 /\ c.right >= 0 /\ c.tn \in Int
        /\ bt <= k /\ k < bt + c.tn
        /\ KeyEnd(c, m) - c.near - c.right - c.left <= bt
        /\ bt + c.tn <= KeyStart(c, m) - (c.near + c.right)
    BY <1>1, <1>2, <2>2 DEF bt, b, q, m
  <2>5. k < c.sk /\ Dist(c, q, k) \in c.near + c.right .. c.near + c.right + c.left - 1
    BY <1>2, <2>3, <2>4
  <2>6. QED
    BY <2>5 DEF InWindow
<1>9. b >= SinkBlocks(c) => ~InSink(c, q, k)
  <2> DEFINE bt == b * c.tn
  <2>1. /\ bt \in Int /\ bt <= k /\ k \in Int /\ c.sink \in Int
        /\ b < SinkBlocks(c) <=> bt < c.sink
        /\ b \in Int /\ SinkBlocks(c) \in Int
    BY <1>1, <1>2
  <2> HIDE DEF bt, b
  <2>2. QED
    BY <2>1 DEF InSink
<1>10. Allowed(row, k) <=> k < c.sk /\ (Local \/ InSink(c, q, k))
  BY <1>1, <1>2 DEF Allowed, Attends, IsLocal
<1>11. Inner(row, k) = b /\ p[1] = Outer(row, k)
  BY DEF Inner, Outer
<1>12. /\ Hits(x, row, k) <=> Main /\ k < c.sk /\ Local
       /\ Hits(y, row, k) <=> to <= b /\ b < r.wmax /\ k < c.sk /\ Local
       /\ Hits(z, row, k) <=> from <= b /\ b < to
       /\ Hits(u, row, k) <=> r.wmin <= b /\ b < from /\ k < c.sk /\ Local
       /\ Hits(v, row, k) <=> Sunk /\ k < c.sk /\ (Local \/ InSink(c, q, k))
  <2>1. /\ Hits(x, row, k) <=> b \in unmasked .. r.max - 1 /\ k < c.sk /\ Local
        /\ Hits(y, row, k) <=> b \in to .. r.wmax - 1 /\ k < c.sk /\ Local
        /\ Hits(z, row, k) <=> b \in from .. to - 1
        /\ Hits(u, row, k) <=> b \in r.wmin .. from - 1 /\ k < c.sk /\ Local
        /\ Hits(v, row, k) <=> b \in 0 .. r.smax - 1 /\ k < c.sk /\ (Local \/ InSink(c, q, k))
    <3> HIDE DEF r, b, to, from, unmasked
    <3>1. QED
      BY <1>11, HitsForms
  <2> DEFINE I(f, t) == f <= b /\ b < t
  <2>2. \A f, t \in Int : b \in f .. t - 1 <=> I(f, t)
    BY <1>1
  <2>3. /\ r.min \in Int /\ r.max \in Int /\ r.wmin \in Int /\ r.wmax \in Int /\ r.smax \in Int
    BY <1>3
  <2>4. /\ b \in unmasked .. r.max - 1 <=> Main
        /\ b \in to .. r.wmax - 1 <=> to <= b /\ b < r.wmax
        /\ b \in from .. to - 1 <=> from <= b /\ b < to
        /\ b \in r.wmin .. from - 1 <=> r.wmin <= b /\ b < from
        /\ b \in 0 .. r.smax - 1 <=> Sunk
    <3> HIDE DEF r, b, to, from, unmasked
    <3>1. QED
      BY <1>1, <1>6, <1>7, <2>3
  <2> HIDE DEF r, b, to, from, unmasked, x, y, z, u, v, Local, q
  <2>5. QED
    BY <2>1, <2>4
<1>13. CASE EmptyN(m, i)
  <2>1. Loops(p) = <<>>
    BY <1>13 DEF Loops
  <2>2. Times(p, row, k) = 0
    BY <2>1, NoLoopsNoTimes
  <2>3. ~(Main \/ Wind \/ Sunk)
    <3>1. r.max <= r.min /\ r.wmax <= r.wmin /\ r.smax <= 0
      BY <1>13 DEF EmptyN
    <3> HIDE DEF r, b
    <3>2. QED
      BY <1>1, <1>3, <3>1
  <2>4. QED
    BY <1>4, <2>2, <2>3
<1>14. CASE ~EmptyN(m, i)
  <2>1. Loops(p) = Five(x, y, z, u, v)
    BY <1>2, <1>14 DEF Loops, KeyLoops, WindowLoops, Loop, LoopOf, Five, IsLocal
  <2>2. /\ x \in LoopSet /\ y \in LoopSet /\ z \in LoopSet /\ u \in LoopSet /\ v \in LoopSet
    <3>1. /\ r.min \in Int /\ r.max \in Int /\ r.wmin \in Int /\ r.wmax \in Int /\ r.smax \in Int
      BY <1>3
    <3>2. /\ "local" \in Masks /\ "none" \in Masks /\ "sink" \in Masks
          /\ TRUE \in BOOLEAN /\ FALSE \in BOOLEAN
      BY DEF Masks
    <3>3. to \in Int /\ from \in Int /\ unmasked \in Int
      BY <1>6, <1>7
    <3> HIDE DEF r, to, from, unmasked
    <3>4. x \in LoopSet /\ y \in LoopSet /\ z \in LoopSet
      BY <3>1, <3>2, <3>3, LoopTypes
    <3>5. u \in LoopSet
      BY <3>1, <3>2, <3>3, LoopTypes
    <3>6. v \in LoopSet
      BY <3>1, <3>2, LoopTypes, 0 \in Int
    <3>7. QED
      BY <3>4, <3>5, <3>6
  <2> HIDE DEF x, y, z, u, v
  <2>3. /\ ~(Hits(x, row, k) /\ (Hits(y, row, k) \/ Hits(z, row, k) \/ Hits(u, row, k)
                                   \/ Hits(v, row, k)))
        /\ ~(Hits(y, row, k) /\ (Hits(z, row, k) \/ Hits(u, row, k) \/ Hits(v, row, k)))
        /\ ~(Hits(z, row, k) /\ (Hits(u, row, k) \/ Hits(v, row, k)))
        /\ ~(Hits(u, row, k) /\ Hits(v, row, k))
    <3> HIDE DEF r, b, to, from, unmasked, Local, q
    <3>1. r.wmin \in Int /\ r.wmax \in Int
      BY <1>3
    <3>2. QED
      BY <1>1, <1>2, <1>3, <1>7, <1>12, <3>1
  <2>4. \/ Hits(x, row, k) \/ Hits(y, row, k) \/ Hits(z, row, k) \/ Hits(u, row, k)
        \/ Hits(v, row, k)
        <=> (Main \/ Wind \/ Sunk) /\ Allowed(row, k)
    <3> HIDE DEF r, b, to, from, unmasked, q, Local
    <3>1. r.wmin \in Int /\ r.wmax \in Int
      BY <1>3
    <3>2. Wind <=> (to <= b /\ b < r.wmax) \/ (from <= b /\ b < to) \/ (r.wmin <= b /\ b < from)
      BY <1>1, <1>7, <3>1
    <3>3. InWindow(c, q, k) => Local
      BY DEF Local
    <3>4. (Main \/ Wind) => ~InSink(c, q, k)
      BY <1>3, <1>9
    <3>5. QED
      BY <1>8, <1>10, <1>12, <3>2, <3>3, <3>4
  <2>5. Times(p, row, k) = IF Hits(x, row, k) \/ Hits(y, row, k) \/ Hits(z, row, k)
                                \/ Hits(u, row, k) \/ Hits(v, row, k) THEN 1 ELSE 0
    <3> HIDE DEF p
    <3>1. QED
      BY <1>11, <2>1, <2>2, <2>3, TimesOfFive
  <2>6. QED
    BY <1>4, <2>4, <2>5
<1>15. QED
  BY <1>13, <1>14

LEMMA PlainRange ==
    ASSUME c \in Launches, Kernel # "bwd", ~IsLocal(c), NEW m \in Nat,
           NEW i \in 0 .. Most(splits, 1) - 1, NEW b \in Nat
    PROVE  LET g == ProgramN(m, i)
           IN  /\ g.min \in Int /\ g.max \in Int /\ g.min <= g.max /\ g.max <= NumN(c)
               /\ g.wmin = 0 /\ g.wmax = 0 /\ g.smax = 0
               /\ splits = 0 => (g.min <= b /\ b < g.max <=>
                                   b < NumN(c) /\ (c.kind = "causal" => b * c.tn < KeyEnd(c, m)))
<1>1. CASE splits = 0
  <2>1. i = 0
    BY <1>1 DEF Most
  <2>2. QED
    BY <1>1, <2>1, WholePlain
<1>2. CASE splits # 0
  <2>1. i \in 0 .. splits - 1
    BY <1>2, LaunchFacts DEF Most
  <2>2. QED
    BY <1>2, <2>1, SplitPlain
<1>3. QED
  BY <1>1, <1>2

LEMMA PlainTimes ==
    ASSUME c \in Launches, Kernel # "bwd", ~IsLocal(c), ~c.gather, NEW row \in Rows, NEW k \in Keys,
           NEW i \in 0 .. Most(splits, 1) - 1,
           range[<<RowTile(row), i>>] = ProgramN(RowTile(row), i)
    PROVE  Times(<<RowTile(row), i>>, row, k) =
             IF KeyVisited(ProgramN(RowTile(row), i), KeyBlock(k)) /\ Allowed(row, k)
             THEN 1 ELSE 0
<1> DEFINE m == RowTile(row)
           b == KeyBlock(k)
           q == row \div c.pack
           p == <<m, i>>
           r == range[p]
           d == MaskFrom(c, m, r.min, FALSE)
           nomask == IF splits # 0 THEN Least(d, r.max) ELSE d
           unmasked == IF Kernel = "fwd" /\ c.kind = "full" THEN r.max - 1 ELSE nomask
           mask == IF c.kind = "full" THEN "none" ELSE c.kind
           x == LoopOf(unmasked, r.max, TRUE, mask)
           z == LoopOf(r.min, unmasked, FALSE, "none")
           Main == r.min <= b /\ b < r.max
<1>1. /\ m \in Nat /\ b \in Nat /\ k \in Nat /\ q \in Nat /\ q < c.sq /\ b < NumN(c)
      /\ b * c.tn \in Nat /\ b * c.tn <= k /\ k < b * c.tn + c.tn
      /\ (b + 1) * c.tn = b * c.tn + c.tn
  BY KeyPair
<1>2. /\ IsProblem(c) /\ c.kind \in {"full", "causal"} /\ c.sk \in Nat
      /\ c.tn \in Nat \ {0} /\ c.trunc \in BOOLEAN /\ splits \in Nat
      /\ Kernel \in {"fwd", "dec"} /\ (Kernel = "dec" => splits # 0)
      /\ NumN(c) \in Nat /\ (b + 1 < NumN(c) => (b + 1) * c.tn < c.sk)
      /\ KeyStart(c, m) \in Int /\ KeyEnd(c, m) \in Int
  <2>1. b + 1 \in Nat /\ m \in Nat
    BY <1>1
  <2>2. QED
    BY <2>1, LaunchFacts, KeyTypes DEF IsLocal
<1>3. /\ r.min \in Int /\ r.max \in Int /\ r.min <= r.max /\ r.max <= NumN(c)
      /\ r.wmin = 0 /\ r.wmax = 0 /\ r.smax = 0
      /\ splits = 0 => (Main <=> b < NumN(c) /\ (c.kind = "causal" => b * c.tn < KeyEnd(c, m)))
  BY <1>1, PlainRange
<1>4. KeyVisited(r, b) <=> Main
  <2> HIDE DEF r, b
  <2>1. QED
    BY <1>1, <1>3 DEF KeyVisited
<1>5. /\ Diagonal(q) \in Int /\ Dist(c, q, k) = Diagonal(q) - k /\ Diagonal(q) < c.sk
      /\ KeyStart(c, m) <= Diagonal(q) /\ Diagonal(q) < KeyEnd(c, m)
  BY DiagonalFacts
<1>6. d \in Int /\ d >= r.min /\ (b < d => b < r.min \/ b * c.tn + c.tn <= KeyStart(c, m))
  <2>1. KeyStart(c, m) - 0 = KeyStart(c, m)
    BY <1>2
  <2> DEFINE s0 == KeyStart(c, m)
             bt == b * c.tn + c.tn
             d0 == Quot(c, s0, c.tn)
  <2>2. d = Most(r.min, d0)
    BY <2>1 DEF MaskFrom
  <2>3. s0 \in Int /\ bt \in Int /\ (b + 1) * c.tn = bt
    BY <1>1, <1>2
  <2> HIDE DEF s0, bt, b, m, r, d
  <2>4. d0 \in Int /\ (b < d0 => bt <= s0)
    <3>1. d0 \in Int /\ (b + 1 <= d0 <=> bt <= s0)
      BY <1>1, <1>2, <2>3, QuotBound
    <3> HIDE DEF d0
    <3>2. QED
      BY <1>1, <3>1
  <2> HIDE DEF d0
  <2>5. d \in Int /\ d >= r.min /\ (b < d => b < r.min \/ bt <= s0)
    BY <1>1, <1>3, <2>2, <2>4 DEF Most
  <2>6. QED
    BY <2>5 DEF s0, bt
<1>7. b < d /\ r.min <= b => k < c.sk /\ Dist(c, q, k) >= 0 /\ (splits = 0 => Main)
  <2>1. SUFFICES ASSUME b < d, r.min <= b
                 PROVE  k < c.sk /\ Dist(c, q, k) >= 0 /\ (splits = 0 => Main)
    OBVIOUS
  <2> DEFINE bt == b * c.tn
  <2>2. bt + c.tn <= KeyStart(c, m) /\ bt \in Int /\ k < bt + c.tn /\ k \in Int
    <3>1. ~(b < r.min)
      <4> HIDE DEF b, r
      <4>1. QED
        BY <1>1, <1>3, <2>1
    <3>2. QED
      BY <1>1, <1>6, <2>1, <3>1
  <2>3. splits = 0 => (Main <=> b < NumN(c) /\ (c.kind = "causal" => bt < KeyEnd(c, m)))
    BY <1>3
  <2> HIDE DEF bt, b, r, d, q, m, Main
  <2>4. QED
    BY <1>1, <1>2, <1>5, <2>2, <2>3
<1>8. Allowed(row, k) <=> k < c.sk /\ (c.kind = "causal" => Dist(c, q, k) >= 0)
  BY <1>1 DEF Allowed, Attends
<1>9. Inner(row, k) = b /\ p[1] = Outer(row, k)
  BY DEF Inner, Outer
<1>10. CASE EmptyN(m, i)
  <2>1. Loops(p) = <<>>
    BY <1>10 DEF Loops
  <2>2. Times(p, row, k) = 0
    BY <2>1, NoLoopsNoTimes
  <2>3. ~Main
    <3>1. r.max <= r.min
      BY <1>10 DEF EmptyN
    <3> HIDE DEF r, b
    <3>2. QED
      BY <1>1, <1>3, <3>1
  <2>4. QED
    BY <1>4, <2>2, <2>3
<1>11. CASE ~EmptyN(m, i)
  <2>1. r.min < r.max
    <3>1. ~(r.max <= r.min /\ r.wmax <= r.wmin /\ r.smax <= 0)
      BY <1>11 DEF EmptyN
    <3> HIDE DEF r
    <3>2. QED
      BY <1>3, <3>1
  <2>2. /\ unmasked \in Int /\ r.min <= unmasked
        /\ r.min <= b /\ b < unmasked =>
             Main /\ k < c.sk /\ (c.kind = "causal" => Dist(c, q, k) >= 0)
    <3>1. CASE Kernel = "fwd" /\ c.kind = "full"
      <4>1. unmasked = r.max - 1
        BY <3>1
      <4> DEFINE bt == b * c.tn + c.tn
      <4>2. bt \in Int /\ k < bt /\ (b + 1 < NumN(c) => bt < c.sk)
        BY <1>1, <1>2
      <4> HIDE DEF r, b, unmasked, bt, q
      <4>3. QED
        BY <1>1, <1>2, <1>3, <2>1, <3>1, <4>1, <4>2
    <3>2. CASE ~(Kernel = "fwd" /\ c.kind = "full")
      <4>1. unmasked = IF splits # 0 THEN Least(d, r.max) ELSE d
        BY <3>2
      <4> HIDE DEF r, b, unmasked, d, q
      <4>2. QED
        BY <1>1, <1>3, <1>6, <1>7, <4>1 DEF Least
    <3>3. QED
      BY <3>1, <3>2
  <2>3. Loops(p) = <<x>> \o <<z>>
    <3>1. Loops(p) = KeyLoops(m, i)
      BY <1>11 DEF Loops
    <3>2. KeyLoops(m, i) = <<x>> \o <<z>>
      BY DEF KeyLoops, Loop, LoopOf
    <3>3. QED
      BY <3>1, <3>2
  <2>4. x \in LoopSet /\ z \in LoopSet
    <3>1. mask \in Masks /\ "none" \in Masks /\ TRUE \in BOOLEAN /\ FALSE \in BOOLEAN
      BY <1>2 DEF Masks
    <3> HIDE DEF r, unmasked, mask
    <3>2. x \in LoopSet
      BY <1>3, <2>2, <3>1, LoopTypes
    <3>3. z \in LoopSet
      BY <1>3, <2>2, <3>1, LoopTypes
    <3>4. QED
      BY <3>2, <3>3
  <2>5. /\ Hits(x, row, k) <=>
             b \in unmasked .. r.max - 1 /\ k < c.sk /\ (c.kind = "causal" => Dist(c, q, k) >= 0)
        /\ Hits(z, row, k) <=> b \in r.min .. unmasked - 1
    <3>1. (c.kind = "full" /\ mask = "none") \/ (c.kind = "causal" /\ mask = "causal")
      BY <1>2
    <3> HIDE DEF r, b, unmasked, mask
    <3>2. CASE c.kind = "full"
      BY <1>9, <3>1, <3>2, HitsForms
    <3>3. CASE c.kind = "causal"
      BY <1>9, <3>1, <3>3, HitsForms
    <3>4. QED
      BY <1>2, <3>2, <3>3
  <2>6. /\ b \in unmasked .. r.max - 1 <=> unmasked <= b /\ b < r.max
        /\ b \in r.min .. unmasked - 1 <=> r.min <= b /\ b < unmasked
        /\ Main => (unmasked <= b /\ b < r.max) \/ (r.min <= b /\ b < unmasked)
        /\ unmasked <= b /\ b < r.max => Main
        /\ ~((unmasked <= b /\ b < r.max) /\ (r.min <= b /\ b < unmasked))
    <3> HIDE DEF r, b, unmasked
    <3>1. QED
      BY <1>1, <1>3, <2>2
  <2> HIDE DEF x, z, p, r, b, unmasked, q, m
  <2>7. Times(p, row, k) = IF Hits(x, row, k) \/ Hits(z, row, k) THEN 1 ELSE 0
    <3>1. ~(Hits(x, row, k) /\ Hits(z, row, k))
      BY <2>5, <2>6
    <3>2. QED
      BY <1>9, <2>3, <2>4, <3>1, TimesOfTwo
  <2>8. Hits(x, row, k) \/ Hits(z, row, k) <=> Main /\ Allowed(row, k)
    BY <1>8, <2>2, <2>5, <2>6
  <2>9. QED
    BY <1>4, <2>7, <2>8 DEF p, m, r, b
<1>12. QED
  BY <1>10, <1>11

LEMMA GatherTimes ==
    ASSUME c \in Launches, Kernel # "bwd", c.gather, c.sk % c.tn = 0,
           NEW row \in Rows, NEW k \in Keys,
           NEW i \in 0 .. Most(splits, 1) - 1,
           range[<<RowTile(row), i>>] = ProgramN(RowTile(row), i)
    PROVE  Times(<<RowTile(row), i>>, row, k) =
             IF KeyVisited(ProgramN(RowTile(row), i), KeyBlock(k)) /\ Allowed(row, k)
             THEN 1 ELSE 0
<1> DEFINE m == RowTile(row)
           b == KeyBlock(k)
           p == <<m, i>>
           r == range[p]
           x == LoopOf(r.max, r.max, TRUE, "gather")
           z == LoopOf(r.min, r.max, FALSE, "gather")
           Main == r.min <= b /\ b < r.max
<1>1. /\ m \in Nat /\ b \in Nat /\ k \in Nat /\ b < NumN(c)
      /\ b * c.tn \in Nat /\ b * c.tn <= k /\ k < b * c.tn + c.tn
  BY KeyPair
<1>2. /\ IsProblem(c) /\ ~IsLocal(c) /\ c.sk \in Nat /\ c.tn \in Nat \ {0}
      /\ (b < NumN(c) => b * c.tn < c.sk)
  BY <1>1, LaunchFacts, KeyTypes DEF IsLocal
<1>3. k < c.sk
  <2> DEFINE bt == b * c.tn
  <2>1. bt + c.tn <= c.sk
    BY <1>1, <1>2, DividedTiles
  <2>2. bt \in Int /\ k < bt + c.tn
    BY <1>1
  <2> HIDE DEF bt
  <2>3. QED
    BY <1>1, <1>2, <2>1, <2>2
<1>4. /\ r.min \in Int /\ r.max \in Int /\ r.min <= r.max
      /\ r.wmin = 0 /\ r.wmax = 0 /\ r.smax = 0
  BY <1>1, <1>2, PlainRange
<1>5. KeyVisited(r, b) <=> Main
  <2> HIDE DEF r, b
  <2>1. QED
    BY <1>1, <1>4 DEF KeyVisited
<1>6. Allowed(row, k) <=> k < c.entries
  BY DEF Allowed
<1>7. Inner(row, k) = b /\ p[1] = Outer(row, k)
  BY DEF Inner, Outer
<1>8. CASE EmptyN(m, i)
  <2>1. Loops(p) = <<>>
    BY <1>8 DEF Loops
  <2>2. Times(p, row, k) = 0
    BY <2>1, NoLoopsNoTimes
  <2>3. ~Main
    <3>1. r.max <= r.min
      BY <1>8 DEF EmptyN
    <3> HIDE DEF r, b
    <3>2. QED
      BY <1>1, <1>4, <3>1
  <2>4. QED
    BY <1>5, <2>2, <2>3
<1>9. CASE ~EmptyN(m, i)
  <2>1. Loops(p) = <<x>> \o <<z>>
    <3>1. Loops(p) = KeyLoops(m, i)
      BY <1>9 DEF Loops
    <3>2. KeyLoops(m, i) = <<x>> \o <<z>>
      BY DEF KeyLoops, Loop, LoopOf
    <3>3. QED
      BY <3>1, <3>2
  <2>2. x \in LoopSet /\ z \in LoopSet
    <3>1. "gather" \in Masks /\ TRUE \in BOOLEAN /\ FALSE \in BOOLEAN
      BY DEF Masks
    <3> HIDE DEF r
    <3>2. QED
      BY <1>4, <3>1, LoopTypes
  <2>3. /\ Hits(x, row, k) => b \in r.max .. r.max - 1
        /\ Hits(z, row, k) <=> b \in r.min .. r.max - 1 /\ (k < c.entries \/ k >= c.sk)
    <3> HIDE DEF r, b
    <3>1. QED
      BY <1>7, HitsForms
  <2>4. ~(b \in r.max .. r.max - 1) /\ (b \in r.min .. r.max - 1 <=> Main)
    <3> HIDE DEF r, b
    <3>1. QED
      BY <1>1, <1>4
  <2>5. ~(k >= c.sk)
    BY <1>1, <1>2, <1>3
  <2> HIDE DEF x, z, p, r, b, m
  <2>6. Times(p, row, k) = IF Hits(x, row, k) \/ Hits(z, row, k) THEN 1 ELSE 0
    BY <1>7, <2>1, <2>2, <2>3, <2>4, TimesOfTwo
  <2>7. QED
    BY <1>5, <1>6, <2>3, <2>4, <2>5, <2>6 DEF p, m, r, b
<1>10. QED
  BY <1>8, <1>9

LEMMA KeyTimes ==
    ASSUME c \in Launches, Kernel # "bwd", c.gather => c.sk % c.tn = 0,
           NEW row \in Rows, NEW k \in Keys, NEW i \in 0 .. Most(splits, 1) - 1,
           range[<<RowTile(row), i>>] = ProgramN(RowTile(row), i)
    PROVE  Times(<<RowTile(row), i>>, row, k) =
             IF KeyVisited(ProgramN(RowTile(row), i), KeyBlock(k)) /\ Allowed(row, k)
             THEN 1 ELSE 0
BY LocalTimes, PlainTimes, GatherTimes

-----------------------------------------------------------------------------
(* The query tiles of a key block, whole and in splits.                    *)
TileVisited(g, b) ==
    (g.min <= b /\ b < g.max) \/ (g.wmin <= b /\ b < g.wmax) \/ (g.smin <= b /\ b < g.smax)

LEMMA RawPlainTiles ==
    ASSUME c \in Launches, ~IsLocal(c), NEW h \in Nat, NEW b \in Nat
    PROVE  \E min \in Nat :
             /\ RawM(c, h) = [min |-> min, max |-> NumM(c), wmin |-> 0, wmax |-> 0,
                              smin |-> 0, smax |-> 0]
             /\ NumM(c) \in Nat /\ (c.kind = "full" => min = 0)
             /\ min <= b <=> (c.kind = "causal" => QueryStart(c, h) < (b + 1) * c.tm)
<1>1. /\ IsProblem(c) /\ QueryStart(c, h) \in Int /\ NumM(c) \in Nat
      /\ c.kind = "full" \/ c.kind = "causal"
  BY LaunchFacts, QueryTypes DEF IsLocal
<1>2. CASE c.kind = "full"
  BY <1>1, <1>2, RawTileForms
<1>3. CASE c.kind = "causal"
  <2> DEFINE min == TileFrom(c, QueryStart(c, h))
  <2>1. min \in Nat /\ (min <= b <=> QueryStart(c, h) < (b + 1) * c.tm)
    BY <1>1, TileBounds
  <2>2. RawM(c, h) = [min |-> min, max |-> NumM(c), wmin |-> 0, wmax |-> 0,
                      smin |-> 0, smax |-> 0]
    BY <1>3, RawTileForms
  <2> HIDE DEF min
  <2>3. QED
    BY <1>1, <1>3, <2>1, <2>2
<1>4. QED
  BY <1>1, <1>2, <1>3

LEMMA SplitPlainTiles ==
    ASSUME c \in Launches, ~IsLocal(c), splits # 0,
           NEW h \in Nat, NEW i \in 0 .. splits - 1, NEW b \in Nat
    PROVE  LET r == RawM(c, h)
               g == ProgramM(h, i)
               tiles == Most(r.max - r.min, 0)
               start == ShareStart(c, tiles, i)
               size  == ShareSize(c, tiles, i)
           IN  /\ g.min \in Int /\ g.max \in Int /\ g.min <= g.max
               /\ g.wmin = 0 /\ g.wmax = 0 /\ g.smin = 0 /\ g.smax = 0
               /\ r.min \in Nat /\ tiles \in Nat
               /\ g.min <= b /\ b < g.max <=> r.min + start <= b /\ b < r.min + start + size
               /\ b - r.min \in 0 .. tiles - 1 <=>
                    b < NumM(c) /\ (c.kind = "causal" => QueryStart(c, h) < (b + 1) * c.tm)
<1> DEFINE r == RawM(c, h)
           tiles == Most(r.max - r.min, 0)
           start == ShareStart(c, tiles, i)
           size  == ShareSize(c, tiles, i)
           g == ProgramM(h, i)
<1>1. PICK min \in Nat :
        /\ r = [min |-> min, max |-> NumM(c), wmin |-> 0, wmax |-> 0, smin |-> 0, smax |-> 0]
        /\ NumM(c) \in Nat
        /\ min <= b <=> (c.kind = "causal" => QueryStart(c, h) < (b + 1) * c.tm)
  BY RawPlainTiles
<1>2. r.min = min /\ r.max = NumM(c)
  BY <1>1
<1>3. tiles = Most(NumM(c) - min, 0) /\ tiles \in Nat
  <2>1. tiles = Most(NumM(c) - min, 0)
    BY <1>2
  <2> HIDE DEF tiles
  <2>2. QED
    BY <1>1, <2>1 DEF Most
<1>4. /\ start \in Nat /\ size \in Nat /\ start + size <= tiles
  <2> HIDE DEF tiles
  <2>1. c.splits \in Nat \ {0} /\ i \in 0 .. c.splits - 1
    BY LaunchFacts DEF splits
  <2>2. QED
    BY <1>3, <2>1, SharesApart
<1>5. g = [min |-> Least(min + start, Least(min + start + size, NumM(c))),
           max |-> Least(min + start + size, NumM(c)),
           wmin |-> 0, wmax |-> 0, smin |-> 0, smax |-> 0]
  <2>1. g = ClampM(c, SplitM(c, r, h, i))
    BY DEF ProgramM
  <2>2. start = ShareStart(c, Most(NumM(c) - min, 0), i)
    BY <1>3
  <2>3. size = ShareSize(c, Most(NumM(c) - min, 0), i)
    BY <1>3
  <2> DEFINE x == [min |-> min, max |-> NumM(c), wmin |-> 0, wmax |-> 0, smin |-> 0, smax |-> 0]
  <2>4. ClampM(c, SplitM(c, x, h, i)) =
          [min |-> Least(min + start, Least(min + start + size, NumM(c))),
           max |-> Least(min + start + size, NumM(c)),
           wmin |-> 0, wmax |-> 0, smin |-> 0, smax |-> 0]
    <3> HIDE DEF start, size
    <3> DEFINE max == NumM(c)
    <3> HIDE DEF max
    <3>1. /\ start = ShareStart(c, Most(max - min, 0), i)
          /\ size = ShareSize(c, Most(max - min, 0), i)
      BY <2>2, <2>3 DEF max
    <3>2. ClampM(c, SplitM(c, [min |-> min, max |-> max, wmin |-> 0, wmax |-> 0,
                               smin |-> 0, smax |-> 0], h, i)) =
            [min |-> Least(min + start, Least(min + start + size, max)),
             max |-> Least(min + start + size, max),
             wmin |-> 0, wmax |-> 0, smin |-> 0, smax |-> 0]
      BY <3>1 DEF ClampM, SplitM
    <3>3. QED
      BY <3>2 DEF max
  <2>5. r = x
    BY <1>1
  <2> HIDE DEF x, g, start, size, r
  <2>6. QED
    BY <2>1, <2>4, <2>5, Zenon
<1>6. /\ g.min = Least(min + start, Least(min + start + size, NumM(c)))
      /\ g.max = Least(min + start + size, NumM(c))
      /\ g.wmin = 0 /\ g.wmax = 0 /\ g.smin = 0 /\ g.smax = 0
  BY <1>5
<1> HIDE DEF r, tiles, start, size, g
<1>7. tiles = IF NumM(c) >= min THEN NumM(c) - min ELSE 0
  BY <1>1, <1>3 DEF Most
<1>8. /\ g.min \in Int /\ g.max \in Int /\ g.min <= g.max
      /\ g.min <= b /\ b < g.max <=> min + start <= b /\ b < min + start + size
  BY <1>1, <1>4, <1>6, <1>7 DEF Least
<1>9. b - min \in 0 .. tiles - 1 <=> min <= b /\ b < NumM(c)
  BY <1>1, <1>7
<1>10. QED
  BY <1>1, <1>2, <1>3, <1>6, <1>8, <1>9 DEF r, tiles, start, size, g

LEMMA PlainTileRange ==
    ASSUME c \in Launches, ~IsLocal(c), NEW h \in Nat, NEW i \in 0 .. Most(splits, 1) - 1,
           NEW b \in Nat
    PROVE  LET g == ProgramM(h, i)
           IN  /\ g.min \in Int /\ g.max \in Int /\ g.min <= g.max
               /\ g.wmin = 0 /\ g.wmax = 0 /\ g.smin = 0 /\ g.smax = 0
               /\ splits = 0 =>
                    /\ g.max = NumM(c)
                    /\ g.min <= b /\ b < g.max <=>
                         b < NumM(c) /\ (c.kind = "causal" => QueryStart(c, h) < (b + 1) * c.tm)
<1>1. CASE splits = 0
  <2>1. ProgramM(h, i) = MBlocks(c, h) /\ NumM(c) \in Nat
    BY <1>1, LaunchFacts, QueryTypes DEF ProgramM, MBlocks
  <2>2. QED
    BY <2>1, LaunchFacts, FullAndCausalTiles
<1>2. CASE splits # 0
  <2>1. i \in 0 .. splits - 1
    BY <1>2, LaunchFacts DEF Most
  <2>2. QED
    BY <1>2, <2>1, SplitPlainTiles
<1>3. QED
  BY <1>1, <1>2

(* What the tiles of a local key block are before they are shared. *)
RawTiles(h, b, min, max, wmin, wmax, smin, smax) ==
    /\ RawM(c, h) = [min |-> min, max |-> max, wmin |-> wmin, wmax |-> wmax,
                     smin |-> smin, smax |-> smax]
    /\ h < SinkBlocks(c) =>
         /\ min = 0 /\ max = 0 /\ wmin = 0 /\ wmax = 0
         /\ smax = NumM(c) /\ (smin <= b <=> QueryStart(c, h) < (b + 1) * c.tm)
    /\ h >= SinkBlocks(c) =>
         /\ smin = 0 /\ smax = 0
         /\ min <= b <=> QueryStart(c, h) < (b + 1) * c.tm
         /\ b < max <=> b < NumM(c) /\ b * c.tm < QueryEnd(c, h) + c.near
         /\ wmin <= b <=> QueryStart(c, h) + c.near + c.right < (b + 1) * c.tm
         /\ b < wmax <=> b < NumM(c) /\ b * c.tm < QueryEnd(c, h) + c.near + c.right + c.left

LEMMA RawLocalTiles ==
    ASSUME c \in Launches, IsLocal(c), NEW h \in Nat, NEW b \in Nat
    PROVE  \E min, max, wmin, wmax, smin, smax \in Int :
             RawTiles(h, b, min, max, wmin, wmax, smin, smax)
<1>1. /\ IsProblem(c) /\ c.near \in Nat /\ c.right \in Nat /\ c.left \in Nat
      /\ QueryStart(c, h) \in Int /\ QueryEnd(c, h) \in Int
      /\ NumM(c) \in Int /\ SinkBlocks(c) \in Int /\ c.kind = "local"
  BY LaunchFacts, KeyTypes, QueryTypes DEF IsLocal
<1> DEFINE s0 == QueryStart(c, h)
           s1 == QueryStart(c, h) + c.near + c.right
           e0 == QueryEnd(c, h) + c.near
           e1 == QueryEnd(c, h) + c.near + c.right + c.left
<1>2. s0 \in Int /\ s1 \in Int /\ e0 \in Int /\ e1 \in Int
  BY <1>1
<1> HIDE DEF s0, s1, e0, e1
<1>3. /\ TileFrom(c, s0) \in Nat /\ TileFrom(c, s1) \in Nat
      /\ TileUpTo(c, e0) \in Int /\ TileUpTo(c, e1) \in Int
      /\ TileFrom(c, s0) <= b <=> s0 < (b + 1) * c.tm
      /\ TileFrom(c, s1) <= b <=> s1 < (b + 1) * c.tm
      /\ b < TileUpTo(c, e0) <=> b < NumM(c) /\ b * c.tm < e0
      /\ b < TileUpTo(c, e1) <=> b < NumM(c) /\ b * c.tm < e1
  BY <1>1, <1>2, TileBounds
<1>4. CASE h < SinkBlocks(c)
  <2>1. RawM(c, h) = [min |-> 0, max |-> 0, wmin |-> 0, wmax |-> 0,
                      smin |-> TileFrom(c, s0), smax |-> NumM(c)]
    BY <1>1, <1>4, RawTileForms DEF s0
  <2>2. ~(h >= SinkBlocks(c))
    BY <1>1, <1>4
  <2>3. TileFrom(c, s0) \in Int /\ NumM(c) \in Int /\ 0 \in Int
    BY <1>1, <1>3
  <2>4. RawTiles(h, b, 0, 0, 0, 0, TileFrom(c, s0), NumM(c))
    BY <1>3, <2>1, <2>2 DEF RawTiles, s0
  <2>5. QED
    BY <2>3, <2>4
<1>5. CASE h >= SinkBlocks(c)
  <2>1. RawM(c, h) = [min |-> TileFrom(c, s0), max |-> TileUpTo(c, e0),
                      wmin |-> TileFrom(c, s1), wmax |-> TileUpTo(c, e1),
                      smin |-> 0, smax |-> 0]
    BY <1>1, <1>5, RawTileForms DEF s0, s1, e0, e1
  <2>2. ~(h < SinkBlocks(c))
    BY <1>1, <1>5
  <2>3. /\ TileFrom(c, s0) \in Int /\ TileFrom(c, s1) \in Int /\ 0 \in Int
        /\ TileUpTo(c, e0) \in Int /\ TileUpTo(c, e1) \in Int
    BY <1>3
  <2>4. RawTiles(h, b, TileFrom(c, s0), TileUpTo(c, e0), TileFrom(c, s1), TileUpTo(c, e1), 0, 0)
    BY <1>3, <2>1, <2>2 DEF RawTiles, s0, s1, e0, e1
  <2>5. QED
    BY <2>3, <2>4
<1>6. QED
  BY <1>1, <1>4, <1>5

WindowFrom(h, r) == Most(r.wmin, Most(r.min, CeilDiv(c, QueryEnd(c, h), c.tm)))

LEMMA SplitLocalTiles ==
    ASSUME c \in Launches, IsLocal(c), splits # 0,
           NEW h \in Nat, NEW i \in 0 .. splits - 1, NEW b \in Nat
    PROVE  LET r == RawM(c, h)
               g == ProgramM(h, i)
               wtotal == Most(r.wmax - WindowFrom(h, r), 0)
               start  == ShareStart(c, wtotal, i)
               size   == ShareSize(c, wtotal, i)
           IN  /\ {g.min, g.max, g.wmin, g.wmax, g.smin, g.smax} \subseteq Int
               /\ {r.min, r.max, r.wmin, r.wmax, r.smin, r.smax} \subseteq Int
               /\ WindowFrom(h, r) \in Int /\ wtotal \in Nat
               /\ g.min <= g.max /\ g.wmin <= g.wmax /\ g.smin <= g.smax
               /\ h < SinkBlocks(c) => ~(g.min <= b /\ b < g.max) /\ ~(g.wmin <= b /\ b < g.wmax)
               /\ h >= SinkBlocks(c) => ~(g.smin <= b /\ b < g.smax)
               /\ g.min <= b /\ b < g.max <=> i = 0 /\ r.min <= b /\ b < r.max
               /\ g.wmin <= b /\ b < g.wmax <=>
                    /\ r.max <= b /\ b < r.wmax
                    /\ WindowFrom(h, r) + start <= b /\ b < WindowFrom(h, r) + start + size
               /\ g.smin <= b /\ b < g.smax <=> i = 0 /\ r.smin <= b /\ b < r.smax
<1> DEFINE r == RawM(c, h)
           wfrom == WindowFrom(h, r)
           wtotal == Most(r.wmax - wfrom, 0)
           start  == ShareStart(c, wtotal, i)
           size   == ShareSize(c, wtotal, i)
           g == ProgramM(h, i)
<1>0. PICK min, max, wmin, wmax, smin, smax \in Int :
        RawTiles(h, b, min, max, wmin, wmax, smin, smax)
  BY RawLocalTiles
<1>1. /\ r = [min |-> min, max |-> max, wmin |-> wmin, wmax |-> wmax,
              smin |-> smin, smax |-> smax]
      /\ h < SinkBlocks(c) => min = 0 /\ max = 0 /\ wmin = 0 /\ wmax = 0
      /\ h >= SinkBlocks(c) => smin = 0 /\ smax = 0
      /\ min \in Int /\ max \in Int /\ wmin \in Int /\ wmax \in Int
      /\ smin \in Int /\ smax \in Int
  BY <1>0 DEF RawTiles
<1>2. /\ r.min = min /\ r.max = max /\ r.wmin = wmin /\ r.wmax = wmax
      /\ r.smin = smin /\ r.smax = smax
  BY <1>1
<1>3. CeilDiv(c, QueryEnd(c, h), c.tm) \in Int
  <2>1. IsProblem(c) /\ QueryEnd(c, h) \in Int
    BY LaunchFacts, QueryTypes
  <2>2. QED
    BY <2>1, Bounds
<1>4. wfrom = Most(wmin, Most(min, CeilDiv(c, QueryEnd(c, h), c.tm))) /\ wfrom \in Int
  <2>1. wfrom = Most(wmin, Most(min, CeilDiv(c, QueryEnd(c, h), c.tm)))
    BY <1>2 DEF WindowFrom
  <2> HIDE DEF wfrom
  <2>2. QED
    BY <1>3, <2>1, LeastMost
<1>5. wtotal = Most(wmax - wfrom, 0) /\ wtotal \in Nat
  <2>1. wtotal = Most(wmax - wfrom, 0)
    BY <1>2
  <2> HIDE DEF wtotal, wfrom
  <2>2. QED
    BY <1>4, <2>1 DEF Most
<1>6. /\ start \in Nat /\ size \in Nat /\ start + size <= wtotal
  <2> HIDE DEF wtotal
  <2>1. c.splits \in Nat \ {0} /\ i \in 0 .. c.splits - 1
    BY LaunchFacts DEF splits
  <2>2. QED
    BY <1>5, <2>1, SharesApart
<1> DEFINE x == [min |-> min, max |-> max, wmin |-> wmin, wmax |-> wmax,
                 smin |-> smin, smax |-> smax]
           wstart == wfrom + start
           wend   == Least(wstart + size, wmax)
<1>7. g = ClampM(c, SplitM(c, x, h, i))
  BY <1>1 DEF ProgramM
<1>8. /\ wfrom = Most(wmin, Most(min, CeilDiv(c, QueryEnd(c, h), c.tm)))
      /\ start = ShareStart(c, Most(wmax - wfrom, 0), i)
      /\ size = ShareSize(c, Most(wmax - wfrom, 0), i)
  BY <1>4, <1>5
<1>9. i = 0 => g.min = Least(min, max) /\ g.smin = Least(smin, smax) /\ g.smax = smax
  <2> HIDE DEF r, g, wfrom, wtotal, start, size
  <2>1. QED
    BY <1>7 DEF ClampM, SplitM
<1>10. i # 0 => g.min = Least(max, max) /\ g.smin = Least(0, 0) /\ g.smax = 0
  <2> HIDE DEF r, g, wfrom, wtotal, start, size
  <2>1. QED
    BY <1>7 DEF ClampM, SplitM
<1>11. g.max = max /\ g.wmin = Least(Most(wstart, max), wend) /\ g.wmax = wend
  <2> HIDE DEF r, g, wfrom, wtotal, start, size
  <2>1. QED
    BY <1>7, <1>8 DEF ClampM, SplitM
<1> HIDE DEF r, g, wfrom, wtotal, start, size, x
<1>12. /\ wstart \in Int /\ wend \in Int
       /\ wend = IF wstart + size <= wmax THEN wstart + size ELSE wmax
       /\ g.wmin = IF wstart >= max THEN (IF wstart <= wend THEN wstart ELSE wend)
                   ELSE IF max <= wend THEN max ELSE wend
  BY <1>1, <1>4, <1>6, <1>11 DEF Least, Most
<1> HIDE DEF wstart, wend
<1>13. /\ g.min \in Int /\ g.max \in Int /\ g.wmin \in Int /\ g.wmax \in Int
       /\ g.smin \in Int /\ g.smax \in Int
       /\ g.min <= g.max /\ g.smin <= g.smax
       /\ g.min <= b /\ b < g.max <=> i = 0 /\ min <= b /\ b < max
       /\ g.smin <= b /\ b < g.smax <=> i = 0 /\ smin <= b /\ b < smax
  BY <1>1, <1>9, <1>10, <1>11, <1>12 DEF Least
<1>14. /\ g.wmin <= g.wmax
       /\ g.wmin <= b /\ b < g.wmax <=>
            max <= b /\ b < wmax /\ wfrom + start <= b /\ b < wfrom + start + size
  <2>1. wstart = wfrom + start
    BY DEF wstart
  <2>2. QED
    BY <1>1, <1>4, <1>6, <1>11, <1>12, <2>1
<1>15. h < SinkBlocks(c) => ~(g.min <= b /\ b < g.max) /\ ~(g.wmin <= b /\ b < g.wmax)
  BY <1>1, <1>13, <1>14
<1>16. h >= SinkBlocks(c) => ~(g.smin <= b /\ b < g.smax)
  BY <1>1, <1>13
<1>17. QED
  BY <1>1, <1>2, <1>4, <1>5, <1>13, <1>14, <1>15, <1>16 DEF r, g, wfrom, wtotal, start, size

(* The query that sees key k of block h on the diagonal. *)
LEMMA TileFacts ==
    ASSUME c \in Launches, Kernel = "bwd", NEW row \in Rows, NEW k \in Keys
    PROVE  LET h == KeyBlock(k)
               e == k + c.sq - c.sk
           IN  /\ QueryStart(c, h) \in Int /\ QueryEnd(c, h) \in Int /\ e \in Int
               /\ QueryStart(c, h) <= e /\ e < QueryEnd(c, h)
               /\ Dist(c, row, k) = row - e
               /\ SinkBlocks(c) \in Nat /\ (h < SinkBlocks(c) <=> h * c.tn < c.sink)
               /\ h >= SinkBlocks(c) => ~InSink(c, row, k)
<1> DEFINE h == KeyBlock(k)
           ht == h * c.tn
<1>1. /\ h \in Nat /\ k \in Nat /\ row \in Nat /\ ht \in Nat /\ ht <= k /\ k < ht + c.tn
      /\ (h + 1) * c.tn = ht + c.tn
  BY TilePair
<1>2. /\ IsProblem(c) /\ c.sq \in Nat /\ c.sk \in Nat /\ c.sink \in Nat /\ c.tn \in Nat \ {0}
      /\ SinkBlocks(c) \in Nat /\ (h < SinkBlocks(c) <=> ht < c.sink)
  BY <1>1, LaunchFacts, KeyTypes
<1>3. QueryStart(c, h) = ht + c.sq - c.sk /\ QueryEnd(c, h) = ht + c.tn + c.sq - c.sk
  BY <1>1 DEF QueryStart, QueryEnd
<1>4. Dist(c, row, k) = row + c.sk - c.sq - k
  BY DEF Dist
<1> DEFINE qs == QueryStart(c, h)
           qe == QueryEnd(c, h)
<1> HIDE DEF ht, h, qs, qe
<1>5. qs = ht + c.sq - c.sk /\ qe = ht + c.tn + c.sq - c.sk
  BY <1>3 DEF qs, qe
<1>6. /\ qs \in Int /\ qe \in Int /\ k + c.sq - c.sk \in Int
      /\ qs <= k + c.sq - c.sk /\ k + c.sq - c.sk < qe
      /\ Dist(c, row, k) = row - (k + c.sq - c.sk)
  BY <1>1, <1>2, <1>4, <1>5
<1>7. h >= SinkBlocks(c) => ~InSink(c, row, k)
  BY <1>1, <1>2 DEF InSink
<1>8. QED
  BY <1>2, <1>6, <1>7 DEF qs, qe, ht, h

LEMMA PlainTileOwner ==
    ASSUME c \in Launches, Kernel = "bwd", ~IsLocal(c), NEW row \in Rows, NEW k \in Keys,
           Attends(c, row, k)
    PROVE  \E i \in 0 .. Most(splits, 1) - 1 :
             /\ TileVisited(ProgramM(KeyBlock(k), i), RowTile(row))
             /\ \A j \in 0 .. Most(splits, 1) - 1 :
                  j # i => ~TileVisited(ProgramM(KeyBlock(k), j), RowTile(row))
<1> DEFINE h == KeyBlock(k)
           b == RowTile(row)
           Seen == b < NumM(c) /\ (c.kind = "causal" => QueryStart(c, h) < (b + 1) * c.tm)
           V(i) == TileVisited(ProgramM(h, i), b)
<1>1. /\ h \in Nat /\ b \in Nat /\ b < NumM(c) /\ row \in Nat
      /\ b * c.tm \in Nat /\ row < b * c.tm + c.tm /\ (b + 1) * c.tm = b * c.tm + c.tm
      /\ c.tm \in Nat
  BY TilePair, LaunchFacts
<1>2. Seen
  <2>1. c.kind = "causal" => Dist(c, row, k) >= 0
    BY DEF Attends
  <2>2. /\ QueryStart(c, h) \in Int /\ k + c.sq - c.sk \in Int
        /\ QueryStart(c, h) <= k + c.sq - c.sk
        /\ Dist(c, row, k) = row - (k + c.sq - c.sk)
    BY TileFacts
  <2> DEFINE e == k + c.sq - c.sk
             bt == b * c.tm
  <2> HIDE DEF h, b, e, bt
  <2>3. /\ QueryStart(c, h) \in Int /\ e \in Int /\ QueryStart(c, h) <= e
        /\ Dist(c, row, k) = row - e /\ bt \in Nat /\ row < bt + c.tm /\ (b + 1) * c.tm = bt + c.tm
    BY <1>1, <2>2 DEF e, bt
  <2>4. c.kind = "causal" => QueryStart(c, h) < bt + c.tm
    BY <1>1, <2>1, <2>3
  <2>5. QED
    BY <1>1, <2>3, <2>4
<1>3. \A i \in 0 .. Most(splits, 1) - 1 :
        LET g == ProgramM(h, i) IN V(i) <=> g.min <= b /\ b < g.max
  <2> TAKE i \in 0 .. Most(splits, 1) - 1
  <2> DEFINE g == ProgramM(h, i)
  <2>1. g.wmin = 0 /\ g.wmax = 0 /\ g.smin = 0 /\ g.smax = 0
    BY <1>1, PlainTileRange
  <2> HIDE DEF g, b
  <2>2. TileVisited(g, b) <=> g.min <= b /\ b < g.max
    BY <1>1, <2>1 DEF TileVisited
  <2>3. QED
    BY <2>2 DEF g
<1>4. CASE splits = 0
  <2>1. 0 .. Most(splits, 1) - 1 = {0}
    BY <1>4 DEF Most
  <2>2. LET g == ProgramM(h, 0) IN g.min <= b /\ b < g.max
    <3>1. 0 \in 0 .. Most(splits, 1) - 1
      BY <2>1
    <3> HIDE DEF h, b
    <3>2. QED
      BY <1>1, <1>2, <1>4, <3>1, PlainTileRange
  <2>3. V(0)
    BY <1>3, <2>1, <2>2
  <2>4. QED
    BY <2>1, <2>3
<1>5. CASE splits # 0
  <2>1. splits \in Nat \ {0} /\ c.splits = splits /\ Most(splits, 1) = splits
    BY <1>5, LaunchFacts DEF splits, Most
  <2> DEFINE r == RawM(c, h)
             tiles == Most(r.max - r.min, 0)
             Start(i) == ShareStart(c, tiles, i)
             Size(i)  == ShareSize(c, tiles, i)
  <2>2. \A i \in 0 .. splits - 1 :
          /\ r.min \in Nat /\ tiles \in Nat /\ b - r.min \in 0 .. tiles - 1
          /\ V(i) <=> r.min + Start(i) <= b /\ b < r.min + Start(i) + Size(i)
    <3> TAKE i \in 0 .. splits - 1
    <3> DEFINE g == ProgramM(h, i)
    <3>1. V(i) <=> g.min <= b /\ b < g.max
      BY <1>3, <2>1
    <3>2. /\ r.min \in Nat /\ tiles \in Nat
          /\ g.min <= b /\ b < g.max <=> r.min + Start(i) <= b /\ b < r.min + Start(i) + Size(i)
          /\ b - r.min \in 0 .. tiles - 1 <=> Seen
      <4> HIDE DEF h, b
      <4>1. QED
        BY <1>1, <1>5, SplitPlainTiles
    <3>3. QED
      BY <1>2, <3>1, <3>2
  <2>3. r.min \in Nat /\ tiles \in Nat /\ b - r.min \in 0 .. tiles - 1
    <3>1. 0 \in 0 .. splits - 1
      BY <2>1
    <3> HIDE DEF tiles, b, r, V
    <3>2. QED
      BY <2>2, <3>1
  <2> DEFINE w == b - r.min
  <2> HIDE DEF tiles, r, h, b
  <2>4. PICK i \in 0 .. splits - 1 : Start(i) <= w /\ w < Start(i) + Size(i)
    <3> HIDE DEF w
    <3>1. w \in 0 .. tiles - 1
      BY <2>3 DEF w
    <3>2. QED
      BY <2>1, <2>3, <3>1, SharesCover
  <2>5. \A j \in 0 .. splits - 1 :
          /\ Start(j) \in Nat /\ Size(j) \in Nat
          /\ i < j => Start(i) + Size(i) <= Start(j)
          /\ j < i => Start(j) + Size(j) <= Start(i)
    BY <2>1, <2>3, SharesApart
  <2> HIDE DEF Start, Size, V
  <2>6. \A j \in 0 .. splits - 1 : j # i => ~V(j)
    <3> TAKE j \in 0 .. splits - 1
    <3>1. Start(j) \in Nat /\ Size(j) \in Nat /\ Start(i) \in Nat /\ Size(i) \in Nat
      BY <2>5
    <3>2. HAVE j # i
    <3>3. Start(i) + Size(i) <= Start(j) \/ Start(j) + Size(j) <= Start(i)
      BY <2>1, <2>5, <3>2
    <3>4. QED
      BY <1>1, <2>2, <2>3, <2>4, <3>1, <3>3
  <2>7. V(i)
    <3>1. Start(i) \in Nat /\ Size(i) \in Nat
      BY <2>5
    <3>2. QED
      BY <1>1, <2>2, <2>3, <2>4, <3>1
  <2>8. QED
    BY <2>1, <2>6, <2>7 DEF V, h, b
<1>6. QED
  BY <1>4, <1>5

(* Each block of a range belongs to one share. *)
LEMMA OneShare ==
    ASSUME c \in Launches, splits # 0, NEW total \in Nat, NEW w \in 0 .. total - 1
    PROVE  \E i \in 0 .. splits - 1 : \A j \in 0 .. splits - 1 :
             /\ ShareStart(c, total, j) \in Nat /\ ShareSize(c, total, j) \in Nat
             /\ j = i <=> /\ ShareStart(c, total, j) <= w
                          /\ w < ShareStart(c, total, j) + ShareSize(c, total, j)
<1>1. splits \in Nat \ {0} /\ c.splits = splits
  BY LaunchFacts DEF splits
<1> DEFINE Start(i) == ShareStart(c, total, i)
           Size(i)  == ShareSize(c, total, i)
<1>2. PICK i \in 0 .. splits - 1 : Start(i) <= w /\ w < Start(i) + Size(i)
  BY <1>1, SharesCover
<1>3. \A j \in 0 .. splits - 1 :
        /\ Start(j) \in Nat /\ Size(j) \in Nat
        /\ i < j => Start(i) + Size(i) <= Start(j)
        /\ j < i => Start(j) + Size(j) <= Start(i)
  BY <1>1, SharesApart
<1> HIDE DEF Start, Size
<1>4. ASSUME NEW j \in 0 .. splits - 1
      PROVE  j = i <=> Start(j) <= w /\ w < Start(j) + Size(j)
  <2>1. Start(j) \in Nat /\ Size(j) \in Nat /\ Start(i) \in Nat /\ Size(i) \in Nat
    BY <1>3
  <2>2. j # i => Start(i) + Size(i) <= Start(j) \/ Start(j) + Size(j) <= Start(i)
    BY <1>1, <1>3
  <2>3. QED
    BY <1>2, <2>1, <2>2
<1>5. QED
  BY <1>3, <1>4 DEF Start, Size

(* A query tile that some query of a local launch attends from. *)
LEMMA AttendedTiles ==
    ASSUME c \in Launches, Kernel = "bwd", IsLocal(c), NEW row \in Rows, NEW k \in Keys,
           Attends(c, row, k)
    PROVE  LET h == KeyBlock(k)
               b == RowTile(row)
           IN  /\ h \in Nat /\ b \in Nat /\ b < NumM(c) /\ SinkBlocks(c) \in Nat
               /\ QueryStart(c, h) < (b + 1) * c.tm
               /\ h >= SinkBlocks(c) /\ ~(b * c.tm < QueryEnd(c, h) + c.near) =>
                    /\ QueryStart(c, h) + c.near + c.right < (b + 1) * c.tm
                    /\ b * c.tm < QueryEnd(c, h) + c.near + c.right + c.left
                    /\ QueryEnd(c, h) <= b * c.tm
<1> DEFINE h == KeyBlock(k)
           b == RowTile(row)
           e == k + c.sq - c.sk
           bt == b * c.tm
           qs == QueryStart(c, h)
           qe == QueryEnd(c, h)
<1>1. /\ h \in Nat /\ b \in Nat /\ b < NumM(c) /\ row \in Nat
      /\ bt \in Nat /\ bt <= row /\ row < bt + c.tm /\ (b + 1) * c.tm = bt + c.tm
      /\ c.tm \in Nat /\ {c.near, c.right, c.left} \subseteq Nat
  BY TilePair, LaunchFacts
<1>2. /\ qs \in Int /\ qe \in Int /\ e \in Int /\ qs <= e /\ e < qe
      /\ Dist(c, row, k) = row - e
      /\ SinkBlocks(c) \in Nat
      /\ h >= SinkBlocks(c) => ~InSink(c, row, k)
  BY TileFacts
<1>3. InNear(c, row, k) \/ InWindow(c, row, k) \/ InSink(c, row, k)
  BY DEF Attends, IsLocal
<1>4. /\ c.near \in Nat /\ c.right \in Nat /\ c.left \in Nat
  BY <1>1
<1> HIDE DEF h, b, e, bt, qs, qe
<1>5. Dist(c, row, k) >= 0 /\ Dist(c, row, k) \in Int
  BY <1>1, <1>2, <1>3, <1>4 DEF InNear, InWindow, InSink
<1>6. qs < bt + c.tm
  BY <1>1, <1>2, <1>5
<1>7. ASSUME h >= SinkBlocks(c), ~(bt < qe + c.near)
      PROVE  qs + c.near + c.right < bt + c.tm /\ bt < qe + c.near + c.right + c.left /\ qe <= bt
  <2>1. ~InNear(c, row, k)
    BY <1>1, <1>2, <1>4, <1>7 DEF InNear
  <2>2. row - e >= c.near + c.right /\ row - e < c.near + c.right + c.left
    BY <1>1, <1>2, <1>3, <1>4, <1>7, <2>1 DEF InWindow
  <2>3. QED
    BY <1>1, <1>2, <1>4, <1>7, <2>2
<1>8. QED
  BY <1>1, <1>2, <1>6, <1>7 DEF h, b, bt, qs, qe

LEMMA LocalTileOwner ==
    ASSUME c \in Launches, Kernel = "bwd", IsLocal(c), NEW row \in Rows, NEW k \in Keys,
           Attends(c, row, k)
    PROVE  \E i \in 0 .. Most(splits, 1) - 1 :
             /\ TileVisited(ProgramM(KeyBlock(k), i), RowTile(row))
             /\ \A j \in 0 .. Most(splits, 1) - 1 :
                  j # i => ~TileVisited(ProgramM(KeyBlock(k), j), RowTile(row))
<1> DEFINE h == KeyBlock(k)
           b == RowTile(row)
           V(i) == TileVisited(ProgramM(h, i), b)
<1>1. /\ h \in Nat /\ b \in Nat /\ b < NumM(c) /\ SinkBlocks(c) \in Nat
      /\ QueryStart(c, h) < (b + 1) * c.tm
      /\ h >= SinkBlocks(c) /\ ~(b * c.tm < QueryEnd(c, h) + c.near) =>
           /\ QueryStart(c, h) + c.near + c.right < (b + 1) * c.tm
           /\ b * c.tm < QueryEnd(c, h) + c.near + c.right + c.left
           /\ QueryEnd(c, h) <= b * c.tm
  BY AttendedTiles
<1>2. h < SinkBlocks(c) \/ h >= SinkBlocks(c)
  BY <1>1
<1> HIDE DEF h, b
<1>3. CASE splits = 0
  <2>1. 0 .. Most(splits, 1) - 1 = {0}
    BY <1>3 DEF Most
  <2> DEFINE g == ProgramM(h, 0)
  <2>2. g = MBlocks(c, h)
    BY <1>3 DEF ProgramM, MBlocks
  <2>3. /\ {c.near, c.right, c.left} \subseteq Nat /\ QueryEnd(c, h) \in Int /\ b * c.tm \in Int
    BY <1>1, LaunchFacts, QueryTypes
  <2>4. /\ g.min <= b /\ b < g.max <=>
             /\ b < NumM(c) /\ h >= SinkBlocks(c) /\ QueryStart(c, h) < (b + 1) * c.tm
             /\ b * c.tm < QueryEnd(c, h) + c.near
        /\ g.wmin <= b /\ b < g.wmax <=>
             /\ b < NumM(c) /\ h >= SinkBlocks(c)
             /\ QueryStart(c, h) + c.near + c.right < (b + 1) * c.tm
             /\ b * c.tm >= QueryEnd(c, h) + c.near
             /\ b * c.tm < QueryEnd(c, h) + c.near + c.right + c.left
        /\ g.smin <= b /\ b < g.smax <=>
             /\ b < NumM(c) /\ h < SinkBlocks(c) /\ QueryStart(c, h) < (b + 1) * c.tm
    BY <1>1, <2>2, LaunchFacts, LocalTiles
  <2>5. b * c.tm < QueryEnd(c, h) + c.near \/ b * c.tm >= QueryEnd(c, h) + c.near
    <3> DEFINE bt == b * c.tm
    <3> HIDE DEF bt
    <3>1. bt \in Int /\ QueryEnd(c, h) + c.near \in Int
      BY <2>3 DEF bt
    <3>2. bt < QueryEnd(c, h) + c.near \/ bt >= QueryEnd(c, h) + c.near
      BY <3>1
    <3>3. QED
      BY <3>2 DEF bt
  <2> HIDE DEF g
  <2>6. TileVisited(g, b)
    BY <1>1, <1>2, <2>4, <2>5 DEF TileVisited
  <2>7. QED
    BY <2>1, <2>6 DEF g, h, b
<1>4. CASE splits # 0
  <2>1. splits \in Nat \ {0} /\ Most(splits, 1) = splits
    BY <1>4, LaunchFacts DEF Most
  <2> DEFINE r == RawM(c, h)
             wfrom  == WindowFrom(h, r)
             wtotal == Most(r.wmax - wfrom, 0)
             Start(i) == ShareStart(c, wtotal, i)
             Size(i)  == ShareSize(c, wtotal, i)
             Main(i) == LET g == ProgramM(h, i) IN g.min <= b /\ b < g.max
             Wind(i) == LET g == ProgramM(h, i) IN g.wmin <= b /\ b < g.wmax
             Sunk(i) == LET g == ProgramM(h, i) IN g.smin <= b /\ b < g.smax
  <2>2. \A i \in 0 .. splits - 1 :
          /\ wfrom \in Int /\ wtotal \in Nat
          /\ {r.min, r.max, r.wmin, r.wmax, r.smin, r.smax} \subseteq Int
          /\ h < SinkBlocks(c) => ~Main(i) /\ ~Wind(i)
          /\ h >= SinkBlocks(c) => ~Sunk(i)
          /\ Main(i) <=> i = 0 /\ r.min <= b /\ b < r.max
          /\ Wind(i) <=> /\ r.max <= b /\ b < r.wmax
                         /\ wfrom + Start(i) <= b /\ b < wfrom + Start(i) + Size(i)
          /\ Sunk(i) <=> i = 0 /\ r.smin <= b /\ b < r.smax
    BY <1>1, <1>4, SplitLocalTiles
  <2>3. 0 \in 0 .. splits - 1
    BY <2>1
  <2>4. /\ wfrom \in Int /\ wtotal \in Nat
        /\ r.min \in Int /\ r.max \in Int /\ r.wmin \in Int /\ r.wmax \in Int
    <3>1. /\ {r.min, r.max, r.wmin, r.wmax, r.smin, r.smax} \subseteq Int
          /\ wfrom \in Int /\ wtotal \in Nat
      BY <2>2, <2>3
    <3>2. QED
      BY <3>1
  <2>5. \A i : V(i) <=> Main(i) \/ Wind(i) \/ Sunk(i)
    BY DEF TileVisited
  <2>6. PICK min, max, wmin, wmax, smin, smax \in Int :
          RawTiles(h, b, min, max, wmin, wmax, smin, smax)
    BY <1>1, RawLocalTiles
  <2>7. /\ r.min = min /\ r.max = max /\ r.wmin = wmin /\ r.wmax = wmax
        /\ r.smin = smin /\ r.smax = smax
    BY <2>6 DEF RawTiles
  <2> HIDE DEF r, wfrom, wtotal, Main, Wind, Sunk, V
  <2>8. CASE h < SinkBlocks(c)
    <3>1. r.smin <= b /\ b < r.smax
      BY <1>1, <2>6, <2>7, <2>8 DEF RawTiles
    <3>2. V(0)
      BY <2>2, <2>3, <2>5, <3>1
    <3>3. \A j \in 0 .. splits - 1 : j # 0 => ~V(j)
      BY <2>2, <2>5, <2>8
    <3>4. QED
      BY <2>1, <2>3, <3>2, <3>3 DEF V, h, b
  <2>9. CASE h >= SinkBlocks(c) /\ b * c.tm < QueryEnd(c, h) + c.near
    <3>1. r.min <= b /\ b < r.max
      BY <1>1, <2>6, <2>7, <2>9 DEF RawTiles
    <3>2. V(0)
      BY <2>2, <2>3, <2>5, <3>1
    <3>3. ~(r.max <= b)
      BY <1>1, <2>4, <3>1
    <3>4. \A j \in 0 .. splits - 1 : j # 0 => ~V(j)
      BY <2>2, <2>5, <2>9, <3>3
    <3>5. QED
      BY <2>1, <2>3, <3>2, <3>4 DEF V, h, b
  <2>10. CASE h >= SinkBlocks(c) /\ ~(b * c.tm < QueryEnd(c, h) + c.near)
    <3>1. /\ r.min <= b /\ ~(b < r.max) /\ r.wmin <= b /\ b < r.wmax
          /\ QueryEnd(c, h) <= b * c.tm
      BY <1>1, <2>6, <2>7, <2>10 DEF RawTiles
    <3>2. /\ CeilDiv(c, QueryEnd(c, h), c.tm) \in Int
          /\ ~(b < CeilDiv(c, QueryEnd(c, h), c.tm))
      <4>1. /\ IsProblem(c) /\ QueryEnd(c, h) \in Int /\ c.tm \in Nat \ {0} /\ c.trunc \in BOOLEAN
        BY <1>1, LaunchFacts, QueryTypes
      <4>2. b * c.tm \in Int
        BY <1>1, <4>1
      <4> DEFINE bt == b * c.tm
      <4>3. /\ CeilDiv(c, QueryEnd(c, h), c.tm) \in Int
            /\ b < CeilDiv(c, QueryEnd(c, h), c.tm) <=> bt < QueryEnd(c, h)
        BY <1>1, <4>1, CeilDivBound
      <4>4. bt \in Int /\ QueryEnd(c, h) <= bt
        BY <3>1, <4>2
      <4> HIDE DEF bt
      <4>5. QED
        BY <4>1, <4>3, <4>4
    <3>3. wfrom <= b
      BY <1>1, <2>4, <3>1, <3>2 DEF wfrom, WindowFrom, Most
    <3> DEFINE w == b - wfrom
    <3>4. w \in 0 .. wtotal - 1
      BY <1>1, <2>4, <3>1, <3>3 DEF wtotal, Most
    <3>5. w \in Int /\ r.max <= b
      BY <1>1, <2>4, <3>1
    <3> HIDE DEF w
    <3>6. PICK i \in 0 .. splits - 1 : \A j \in 0 .. splits - 1 :
            /\ Start(j) \in Nat /\ Size(j) \in Nat
            /\ j = i <=> Start(j) <= w /\ w < Start(j) + Size(j)
      BY <1>4, <2>4, <3>4, OneShare
    <3> HIDE DEF Start, Size
    <3>7. \A j \in 0 .. splits - 1 : Wind(j) <=> j = i
      <4> TAKE j \in 0 .. splits - 1
      <4>1. Start(j) \in Nat /\ Size(j) \in Nat
        BY <3>6
      <4>2. wfrom + Start(j) <= b /\ b < wfrom + Start(j) + Size(j)
              <=> Start(j) <= w /\ w < Start(j) + Size(j)
        BY <1>1, <2>4, <4>1 DEF w
      <4>3. QED
        BY <2>2, <3>1, <3>5, <3>6, <4>2
    <3>8. \A j \in 0 .. splits - 1 : V(j) <=> j = i
      BY <2>2, <2>5, <2>10, <3>1, <3>7
    <3>9. QED
      BY <2>1, <3>8 DEF V, h, b
  <2>11. QED
    BY <1>2, <2>8, <2>9, <2>10
<1>5. QED
  BY <1>3, <1>4

LEMMA TileOwner ==
    ASSUME c \in Launches, Kernel = "bwd", NEW row \in Rows, NEW k \in Keys, Attends(c, row, k)
    PROVE  \E i \in 0 .. Most(splits, 1) - 1 :
             /\ TileVisited(ProgramM(KeyBlock(k), i), RowTile(row))
             /\ \A j \in 0 .. Most(splits, 1) - 1 :
                  j # i => ~TileVisited(ProgramM(KeyBlock(k), j), RowTile(row))
BY PlainTileOwner, LocalTileOwner

(* The ranges of a local key block do not overlap. *)
LEMMA LocalTilesApart ==
    ASSUME c \in Launches, IsLocal(c), NEW h \in Nat, NEW i \in 0 .. Most(splits, 1) - 1,
           NEW b \in Nat
    PROVE  LET g == ProgramM(h, i)
           IN  /\ {g.min, g.max, g.wmin, g.wmax, g.smin, g.smax} \subseteq Int
               /\ g.min <= g.max /\ g.wmin <= g.wmax /\ g.smin <= g.smax
               /\ g.min <= b /\ b < g.max => h >= SinkBlocks(c) /\ ~(g.wmin <= b /\ b < g.wmax)
               /\ g.wmin <= b /\ b < g.wmax => h >= SinkBlocks(c)
               /\ g.smin <= b /\ b < g.smax => h < SinkBlocks(c)
<1> DEFINE g == ProgramM(h, i)
<1>0. IsProblem(c) /\ SinkBlocks(c) \in Nat
  BY LaunchFacts, KeyTypes
<1>1. CASE splits = 0
  <2>1. g = MBlocks(c, h)
    BY <1>1 DEF ProgramM, MBlocks
  <2> DEFINE bt == b * c.tm
             e == QueryEnd(c, h) + c.near
  <2>2. /\ {g.min, g.max, g.wmin, g.wmax, g.smin, g.smax} \subseteq Int
        /\ g.min <= g.max /\ g.wmin <= g.wmax /\ g.smin <= g.smax
        /\ g.min <= b /\ b < g.max => h >= SinkBlocks(c) /\ bt < e
        /\ g.wmin <= b /\ b < g.wmax => h >= SinkBlocks(c) /\ bt >= e
        /\ g.smin <= b /\ b < g.smax => h < SinkBlocks(c)
    BY <1>0, <2>1, LocalTiles
  <2>3. bt \in Int /\ e \in Int
    BY LaunchFacts, QueryTypes
  <2> HIDE DEF g, bt, e
  <2>4. ~(bt < e /\ bt >= e)
    BY <2>3
  <2>5. QED
    BY <2>2, <2>4 DEF g
<1>2. CASE splits # 0
  <2>1. i \in 0 .. splits - 1
    BY <1>2, LaunchFacts DEF Most
  <2> DEFINE r == RawM(c, h)
             wfrom  == WindowFrom(h, r)
             wtotal == Most(r.wmax - wfrom, 0)
             start == ShareStart(c, wtotal, i)
             size  == ShareSize(c, wtotal, i)
  <2>2. /\ {g.min, g.max, g.wmin, g.wmax, g.smin, g.smax} \subseteq Int
        /\ {r.min, r.max, r.wmin, r.wmax, r.smin, r.smax} \subseteq Int
        /\ g.min <= g.max /\ g.wmin <= g.wmax /\ g.smin <= g.smax
        /\ h < SinkBlocks(c) => ~(g.min <= b /\ b < g.max) /\ ~(g.wmin <= b /\ b < g.wmax)
        /\ h >= SinkBlocks(c) => ~(g.smin <= b /\ b < g.smax)
        /\ g.min <= b /\ b < g.max <=> i = 0 /\ r.min <= b /\ b < r.max
        /\ g.wmin <= b /\ b < g.wmax <=>
             /\ r.max <= b /\ b < r.wmax
             /\ wfrom + start <= b /\ b < wfrom + start + size
    BY <1>2, <2>1, SplitLocalTiles
  <2>3. r.max \in Int
    BY <2>2
  <2> HIDE DEF g, r, wfrom, start, size
  <2>4. ~(b < r.max /\ r.max <= b) /\ (h < SinkBlocks(c) \/ h >= SinkBlocks(c))
    BY <1>0, <2>3
  <2>5. QED
    BY <2>2, <2>4 DEF g
<1>3. QED
  BY <1>1, <1>2

LEMMA LocalTileTimes ==
    ASSUME c \in Launches, Kernel = "bwd", IsLocal(c), NEW row \in Rows, NEW k \in Keys,
           NEW i \in 0 .. Most(splits, 1) - 1,
           range[<<KeyBlock(k), i>>] = ProgramM(KeyBlock(k), i)
    PROVE  Times(<<KeyBlock(k), i>>, row, k) =
             IF TileVisited(ProgramM(KeyBlock(k), i), RowTile(row)) /\ Allowed(row, k)
             THEN 1 ELSE 0
<1> DEFINE h == KeyBlock(k)
           b == RowTile(row)
           p == <<h, i>>
           g == ProgramM(h, i)
           r == range[p]
           edge  == c.near + c.right
           right == Most(r.wmin, CeilDiv(c, QueryEnd(c, h) + edge, c.tm))
           left1 == Least(r.wmax, Quot(c, QueryStart(c, h) + edge + c.left, c.tm))
           wfrom == Within(right, r.wmin, r.wmax)
           wto   == Within(Most(left1, right), wfrom, r.wmax)
           x == LoopOf(r.min, r.max, TRUE, "local")
           y == LoopOf(r.wmin, wfrom, TRUE, "local")
           z == LoopOf(wfrom, wto, FALSE, "none")
           u == LoopOf(wto, r.wmax, TRUE, "local")
           v == LoopOf(r.smin, r.smax, TRUE, "sink")
           Main == r.min <= b /\ b < r.max
           Wind == r.wmin <= b /\ b < r.wmax
           Sunk == r.smin <= b /\ b < r.smax
           Local == InNear(c, row, k) \/ InWindow(c, row, k)
           bt == b * c.tm
           qs == QueryStart(c, h)
           qe == QueryEnd(c, h)
           e == k + c.sq - c.sk
<1>1. /\ h \in Nat /\ b \in Nat /\ k \in Nat /\ row \in Nat /\ k < c.sk /\ row < c.sq
      /\ row \div c.pack = row
      /\ bt \in Nat /\ bt <= row /\ row < bt + c.tm /\ (b + 1) * c.tm = bt + c.tm
  BY TilePair
<1>2. /\ IsProblem(c) /\ ~c.gather /\ c.kind = "local"
      /\ c.near \in Nat /\ c.right \in Nat /\ c.left \in Nat /\ edge \in Nat
      /\ c.tm \in Nat \ {0} /\ c.trunc \in BOOLEAN
  BY LaunchFacts DEF IsLocal
<1>3. /\ qs \in Int /\ qe \in Int /\ e \in Int /\ qs <= e /\ e < qe
      /\ Dist(c, row, k) = row - e
      /\ h >= SinkBlocks(c) => ~InSink(c, row, k)
      /\ SinkBlocks(c) \in Nat
  BY TileFacts
<1>4. /\ {r.min, r.max, r.wmin, r.wmax, r.smin, r.smax} \subseteq Int
      /\ r.min <= r.max /\ r.wmin <= r.wmax /\ r.smin <= r.smax
      /\ Main => h >= SinkBlocks(c) /\ ~Wind
      /\ Wind => h >= SinkBlocks(c)
      /\ Sunk => h < SinkBlocks(c)
  <2>1. r = g
    OBVIOUS
  <2>2. /\ {g.min, g.max, g.wmin, g.wmax, g.smin, g.smax} \subseteq Int
        /\ g.min <= g.max /\ g.wmin <= g.wmax /\ g.smin <= g.smax
        /\ g.min <= b /\ b < g.max => h >= SinkBlocks(c) /\ ~(g.wmin <= b /\ b < g.wmax)
        /\ g.wmin <= b /\ b < g.wmax => h >= SinkBlocks(c)
        /\ g.smin <= b /\ b < g.smax => h < SinkBlocks(c)
    <3> HIDE DEF b, h
    <3>1. QED
      BY <1>1, LocalTilesApart
  <2> HIDE DEF r, g
  <2>3. QED
    BY <2>1, <2>2
<1>a. /\ r.min \in Int /\ r.max \in Int /\ r.wmin \in Int /\ r.wmax \in Int
      /\ r.smin \in Int /\ r.smax \in Int /\ b \in Int
  BY <1>1, <1>4
<1>5. TileVisited(r, b) <=> Main \/ Wind \/ Sunk
  BY DEF TileVisited
<1>6. /\ right \in Int /\ left1 \in Int /\ right >= r.wmin
      /\ right <= b => qe + edge <= bt
      /\ b < left1 => bt + c.tm <= qs + edge + c.left
  <2> DEFINE e1 == qe + edge
             s1 == qs + edge + c.left
             d1 == CeilDiv(c, e1, c.tm)
             d2 == Quot(c, s1, c.tm)
             bu == bt + c.tm
  <2>1. right = Most(r.wmin, d1) /\ left1 = Least(r.wmax, d2)
    OBVIOUS
  <2>2. e1 \in Int /\ s1 \in Int /\ bu \in Int /\ (b + 1) * c.tm = bu /\ b * c.tm = bt
    BY <1>1, <1>2, <1>3
  <2> HIDE DEF e1, s1, r, b, bt, bu, qs, qe, edge, right, left1
  <2>3. /\ d1 \in Int /\ (b < d1 <=> bt < e1)
        /\ d2 \in Int /\ (b + 1 <= d2 <=> bu <= s1)
    BY <1>1, <1>2, <2>2, QuotBound, CeilDivBound
  <2> HIDE DEF d1, d2
  <2>4. /\ d1 \in Int /\ d2 \in Int /\ (d1 <= b => e1 <= bt) /\ (b < d2 => bu <= s1)
    BY <1>1, <2>2, <2>3
  <2>5. /\ right \in Int /\ right >= r.wmin /\ (right <= b => e1 <= bt)
        /\ left1 \in Int /\ (b < left1 => bu <= s1)
    BY <1>a, <2>1, <2>4 DEF Least, Most
  <2>6. QED
    BY <2>5 DEF e1, s1, bu
<1>7. /\ wfrom \in Int /\ wto \in Int /\ r.wmin <= wfrom /\ wfrom <= wto /\ wto <= r.wmax
      /\ wfrom <= b /\ b < wto => right <= b /\ b < left1
  <2>1. r.wmin <= r.wmax
    BY <1>4
  <2> HIDE DEF r, b, right, left1
  <2>2. /\ wfrom \in Int /\ r.wmin <= wfrom /\ wfrom <= r.wmax
        /\ wfrom <= b /\ b < r.wmax => right <= b
    BY <1>a, <1>6, <2>1, WithinFacts
  <2> DEFINE top == Most(left1, right)
  <2>3. top \in Int /\ (b < top => b < left1 \/ b < right)
    BY <1>a, <1>6 DEF Most
  <2> HIDE DEF wfrom, top
  <2>4. /\ wto \in Int /\ wfrom <= wto /\ wto <= r.wmax
        /\ wfrom <= b /\ b < wto => b < top
    BY <1>a, <2>2, <2>3, WithinFacts DEF top
  <2> HIDE DEF wto
  <2>5. QED
    BY <1>a, <1>6, <2>2, <2>3, <2>4
<1>8. wfrom <= b /\ b < wto => InWindow(c, row, k)
  <2>1. SUFFICES ASSUME wfrom <= b, b < wto
                 PROVE  InWindow(c, row, k)
    OBVIOUS
  <2>2. qe + edge <= bt /\ bt + c.tm <= qs + edge + c.left
    BY <1>6, <1>7, <2>1
  <2>3. edge = c.near + c.right
    OBVIOUS
  <2> HIDE DEF r, b, bt, qs, qe, edge, wfrom, wto, e, h
  <2>4. row - e >= edge /\ row - e < edge + c.left /\ row - e \in Int
    BY <1>1, <1>2, <1>3, <2>2
  <2>5. row - e \in c.near + c.right .. c.near + c.right + c.left - 1
    BY <1>2, <2>3, <2>4
  <2>6. QED
    BY <1>3, <2>5 DEF InWindow
<1>9. Allowed(row, k) <=> Local \/ InSink(c, row, k)
  BY <1>1, <1>2 DEF Allowed, Attends, IsLocal
<1>10. Inner(row, k) = b /\ p[1] = Outer(row, k)
  BY DEF Inner, Outer
<1>11. /\ Hits(x, row, k) <=> Main /\ Local
       /\ Hits(y, row, k) <=> r.wmin <= b /\ b < wfrom /\ Local
       /\ Hits(z, row, k) <=> wfrom <= b /\ b < wto
       /\ Hits(u, row, k) <=> wto <= b /\ b < r.wmax /\ Local
       /\ Hits(v, row, k) <=> Sunk /\ (Local \/ InSink(c, row, k))
  <2>1. /\ Hits(x, row, k) <=> b \in r.min .. r.max - 1 /\ k < c.sk /\ Local
        /\ Hits(y, row, k) <=> b \in r.wmin .. wfrom - 1 /\ k < c.sk /\ Local
        /\ Hits(z, row, k) <=> b \in wfrom .. wto - 1
        /\ Hits(u, row, k) <=> b \in wto .. r.wmax - 1 /\ k < c.sk /\ Local
        /\ Hits(v, row, k) <=> b \in r.smin .. r.smax - 1 /\ k < c.sk /\ (Local \/ InSink(c, row, k))
    <3> DEFINE q == row \div c.pack
               LocalOf == InNear(c, q, k) \/ InWindow(c, q, k)
    <3> HIDE DEF r, b, wfrom, wto
    <3>1. /\ Hits(x, row, k) <=> b \in r.min .. r.max - 1 /\ k < c.sk /\ LocalOf
          /\ Hits(y, row, k) <=> b \in r.wmin .. wfrom - 1 /\ k < c.sk /\ LocalOf
          /\ Hits(z, row, k) <=> b \in wfrom .. wto - 1
          /\ Hits(u, row, k) <=> b \in wto .. r.wmax - 1 /\ k < c.sk /\ LocalOf
          /\ Hits(v, row, k) <=> b \in r.smin .. r.smax - 1 /\ k < c.sk
                                 /\ (LocalOf \/ InSink(c, q, k))
      BY <1>10, HitsForms
    <3>2. q = row
      BY <1>1
    <3> HIDE DEF q, x, y, z, u, v
    <3>3. QED
      BY <3>1, <3>2
  <2>2. /\ b \in r.min .. r.max - 1 <=> Main
        /\ b \in r.wmin .. wfrom - 1 <=> r.wmin <= b /\ b < wfrom
        /\ b \in wfrom .. wto - 1 <=> wfrom <= b /\ b < wto
        /\ b \in wto .. r.wmax - 1 <=> wto <= b /\ b < r.wmax
        /\ b \in r.smin .. r.smax - 1 <=> Sunk
    <3> HIDE DEF r, b, wfrom, wto
    <3>1. QED
      BY <1>a, <1>7
  <2> HIDE DEF r, b, wfrom, wto, x, y, z, u, v, Local
  <2>3. QED
    BY <1>1, <2>1, <2>2
<1>12. Loops(p) = Five(x, y, z, u, v)
  <2>1. Loops(p) = QueryLoops(h, i)
    BY DEF Loops
  <2>2. QueryLoops(h, i) = Five(x, y, z, u, v)
    BY <1>2 DEF QueryLoops, Loop, LoopOf, Five, IsLocal
  <2>3. QED
    BY <2>1, <2>2
<1>13. /\ x \in LoopSet /\ y \in LoopSet /\ z \in LoopSet /\ u \in LoopSet /\ v \in LoopSet
  <2>1. /\ "local" \in Masks /\ "none" \in Masks /\ "sink" \in Masks
        /\ TRUE \in BOOLEAN /\ FALSE \in BOOLEAN
    BY DEF Masks
  <2>2. wfrom \in Int /\ wto \in Int
    BY <1>7
  <2> HIDE DEF r, wfrom, wto
  <2>3. x \in LoopSet /\ y \in LoopSet /\ z \in LoopSet
    BY <1>a, <2>1, <2>2, LoopTypes
  <2>4. u \in LoopSet /\ v \in LoopSet
    BY <1>a, <2>1, <2>2, LoopTypes
  <2>5. QED
    BY <2>3, <2>4
<1> HIDE DEF x, y, z, u, v
<1>14. /\ ~(Hits(x, row, k) /\ (Hits(y, row, k) \/ Hits(z, row, k) \/ Hits(u, row, k)
                                   \/ Hits(v, row, k)))
       /\ ~(Hits(y, row, k) /\ (Hits(z, row, k) \/ Hits(u, row, k) \/ Hits(v, row, k)))
       /\ ~(Hits(z, row, k) /\ (Hits(u, row, k) \/ Hits(v, row, k)))
       /\ ~(Hits(u, row, k) /\ Hits(v, row, k))
  <2>1. ~(Wind /\ Sunk) /\ ~(Main /\ Sunk) /\ ~(Main /\ Wind)
    <3> DEFINE sb == SinkBlocks(c)
    <3> HIDE DEF h, sb, Main, Wind, Sunk
    <3>1. ~(h < sb /\ h >= sb)
      BY <1>1, <1>3 DEF sb
    <3>2. QED
      BY <1>4, <3>1 DEF sb
  <2>2. /\ r.wmin <= b /\ b < wfrom => Wind /\ ~(wfrom <= b) /\ ~(wto <= b)
        /\ wfrom <= b /\ b < wto => Wind /\ ~(wto <= b)
        /\ wto <= b /\ b < r.wmax => Wind
    <3> HIDE DEF r, b, wfrom, wto
    <3>1. QED
      BY <1>a, <1>7
  <2> HIDE DEF r, b, wfrom, wto, Local, Main, Wind, Sunk
  <2>3. QED
    BY <1>11, <2>1, <2>2
<1>15. \/ Hits(x, row, k) \/ Hits(y, row, k) \/ Hits(z, row, k) \/ Hits(u, row, k)
       \/ Hits(v, row, k)
       <=> (Main \/ Wind \/ Sunk) /\ Allowed(row, k)
  <2>1. Wind <=> (r.wmin <= b /\ b < wfrom) \/ (wfrom <= b /\ b < wto) \/ (wto <= b /\ b < r.wmax)
    <3> HIDE DEF r, b, wfrom, wto
    <3>1. QED
      BY <1>a, <1>7
  <2>2. InWindow(c, row, k) => Local
    BY DEF Local
  <2>3. (Main \/ Wind) => ~InSink(c, row, k)
    BY <1>3, <1>4
  <2> HIDE DEF r, b, wfrom, wto, Local, Main, Wind, Sunk
  <2>4. QED
    BY <1>8, <1>9, <1>11, <2>1, <2>2, <2>3
<1>16. Times(p, row, k) = IF Hits(x, row, k) \/ Hits(y, row, k) \/ Hits(z, row, k)
                               \/ Hits(u, row, k) \/ Hits(v, row, k) THEN 1 ELSE 0
  <2> HIDE DEF p
  <2>1. QED
    BY <1>10, <1>12, <1>13, <1>14, TimesOfFive
<1>17. QED
  BY <1>5, <1>15, <1>16

LEMMA PlainTileTimes ==
    ASSUME c \in Launches, Kernel = "bwd", ~IsLocal(c), NEW row \in Rows, NEW k \in Keys,
           NEW i \in 0 .. Most(splits, 1) - 1,
           range[<<KeyBlock(k), i>>] = ProgramM(KeyBlock(k), i)
    PROVE  Times(<<KeyBlock(k), i>>, row, k) =
             IF TileVisited(ProgramM(KeyBlock(k), i), RowTile(row)) /\ Allowed(row, k)
             THEN 1 ELSE 0
<1> DEFINE h == KeyBlock(k)
           b == RowTile(row)
           p == <<h, i>>
           r == range[p]
           diagonal == IF c.kind = "full" THEN r.min
                       ELSE Most(r.min, CeilDiv(c, QueryEnd(c, h), c.tm))
           nomask == IF splits # 0 THEN Least(diagonal, r.max) ELSE diagonal
           masked == IF c.kind = "full" THEN r.min ELSE nomask
           x == LoopOf(r.min, masked, TRUE, c.kind)
           z == LoopOf(nomask, r.max, FALSE, "none")
           Main == r.min <= b /\ b < r.max
           bt == b * c.tm
           qe == QueryEnd(c, h)
           e == k + c.sq - c.sk
<1>1. /\ h \in Nat /\ b \in Nat /\ k \in Nat /\ row \in Nat /\ k < c.sk /\ row < c.sq
      /\ row \div c.pack = row /\ b < NumM(c)
      /\ bt \in Nat /\ bt <= row
  BY TilePair
<1>2. /\ IsProblem(c) /\ ~c.gather /\ c.kind \in {"full", "causal"}
      /\ c.tm \in Nat \ {0} /\ c.trunc \in BOOLEAN /\ splits \in Nat /\ NumM(c) \in Nat
  BY <1>1, LaunchFacts, QueryTypes DEF IsLocal
<1>3. qe \in Int /\ e \in Int /\ e < qe /\ Dist(c, row, k) = row - e
  BY TileFacts
<1>4. /\ r.min \in Int /\ r.max \in Int /\ r.min <= r.max
      /\ r.wmin = 0 /\ r.wmax = 0 /\ r.smin = 0 /\ r.smax = 0
      /\ splits = 0 => r.max = NumM(c)
  BY <1>1, PlainTileRange
<1>5. TileVisited(r, b) <=> Main
  <2> HIDE DEF r, b
  <2>1. QED
    BY <1>1, <1>4 DEF TileVisited
<1>6. /\ diagonal \in Int /\ r.min <= diagonal
      /\ c.kind = "causal" /\ diagonal <= b => qe <= bt
  <2> DEFINE d == CeilDiv(c, qe, c.tm)
  <2>1. diagonal = IF c.kind = "full" THEN r.min ELSE Most(r.min, d)
    OBVIOUS
  <2>2. b * c.tm = bt
    OBVIOUS
  <2> HIDE DEF r, b, bt, qe, diagonal
  <2>3. d \in Int /\ (b < d <=> bt < qe)
    BY <1>1, <1>2, <1>3, <2>2, CeilDivBound
  <2> HIDE DEF d
  <2>4. Most(r.min, d) \in Int /\ Most(r.min, d) >= r.min /\ (Most(r.min, d) <= b => qe <= bt)
    BY <1>1, <1>3, <1>4, <2>3 DEF Most
  <2>5. QED
    BY <1>4, <2>1, <2>4
<1>7. /\ nomask \in Int /\ r.min <= nomask
      /\ c.kind = "full" => nomask = r.min
      /\ r.min <= b /\ b < nomask => Main
      /\ c.kind = "causal" /\ nomask <= b /\ b < r.max => Dist(c, row, k) >= 0
  <2> HIDE DEF r, b, bt, qe, e
  <2>1. c.kind = "full" => diagonal = r.min
    OBVIOUS
  <2>2. nomask = IF splits # 0 THEN Least(diagonal, r.max) ELSE diagonal
    OBVIOUS
  <2> HIDE DEF diagonal, nomask
  <2>3. CASE splits = 0
    BY <1>1, <1>2, <1>3, <1>4, <1>6, <2>1, <2>2, <2>3
  <2>4. CASE splits # 0
    BY <1>1, <1>2, <1>3, <1>4, <1>6, <2>1, <2>2, <2>4 DEF Least
  <2>5. QED
    BY <2>3, <2>4
<1>8. Allowed(row, k) <=> (c.kind = "causal" => Dist(c, row, k) >= 0)
  BY <1>1, <1>2 DEF Allowed, Attends, IsLocal
<1>9. Inner(row, k) = b /\ p[1] = Outer(row, k)
  BY DEF Inner, Outer
<1>10. Loops(p) = <<x>> \o <<z>>
  <2>1. Loops(p) = QueryLoops(h, i)
    BY DEF Loops
  <2>2. QueryLoops(h, i) = <<x>> \o <<z>>
    BY DEF QueryLoops, Loop, LoopOf
  <2>3. QED
    BY <2>1, <2>2
<1>11. masked \in Int /\ (c.kind = "full" => masked = r.min) /\ (c.kind = "causal" => masked = nomask)
  <2>1. c.kind = "causal" => c.kind # "full"
    OBVIOUS
  <2> HIDE DEF nomask, r
  <2>2. QED
    BY <1>4, <1>7, <2>1
<1>12. x \in LoopSet /\ z \in LoopSet
  <2>1. c.kind \in Masks /\ "none" \in Masks /\ TRUE \in BOOLEAN /\ FALSE \in BOOLEAN
    BY <1>2 DEF Masks
  <2> HIDE DEF r, nomask, masked
  <2>2. x \in LoopSet
    BY <1>4, <1>11, <2>1, LoopTypes
  <2>3. z \in LoopSet
    BY <1>4, <1>7, <2>1, LoopTypes
  <2>4. QED
    BY <2>2, <2>3
<1>13. /\ c.kind = "full" => ~Hits(x, row, k)
       /\ c.kind = "causal" =>
            (Hits(x, row, k) <=> r.min <= b /\ b < nomask /\ Dist(c, row, k) >= 0)
       /\ Hits(z, row, k) <=> nomask <= b /\ b < r.max
  <2> DEFINE q == row \div c.pack
  <2>1. /\ c.kind = "full" => (Hits(x, row, k) => b \in r.min .. masked - 1)
        /\ c.kind = "causal" =>
             (Hits(x, row, k) <=> b \in r.min .. masked - 1 /\ k < c.sk /\ Dist(c, q, k) >= 0)
        /\ Hits(z, row, k) <=> b \in nomask .. r.max - 1
    <3> HIDE DEF r, b, nomask, masked
    <3>1. CASE c.kind = "full"
      BY <1>9, <3>1, HitsForms
    <3>2. CASE c.kind = "causal"
      BY <1>9, <3>2, HitsForms
    <3>3. QED
      BY <1>2, <3>1, <3>2
  <2>2. q = row
    BY <1>1
  <2> HIDE DEF r, b, nomask, masked, q, x, z
  <2>3. /\ c.kind = "full" => ~(b \in r.min .. masked - 1)
        /\ c.kind = "causal" => (b \in r.min .. masked - 1 <=> r.min <= b /\ b < nomask)
        /\ b \in nomask .. r.max - 1 <=> nomask <= b /\ b < r.max
    BY <1>1, <1>4, <1>7, <1>11
  <2>4. QED
    BY <1>1, <2>1, <2>2, <2>3
<1>14. /\ Main => (r.min <= b /\ b < nomask) \/ (nomask <= b /\ b < r.max)
       /\ nomask <= b /\ b < r.max => Main /\ ~(b < nomask)
  <2> HIDE DEF r, b, nomask
  <2>1. QED
    BY <1>1, <1>4, <1>7
<1> HIDE DEF x, z, r, b, nomask, masked, p, h
<1>15. ~(Hits(x, row, k) /\ Hits(z, row, k))
  BY <1>2, <1>13, <1>14
<1>16. c.kind = "full" => (Main => nomask <= b /\ b < r.max)
  BY <1>1, <1>4, <1>7
<1>17. Hits(x, row, k) \/ Hits(z, row, k) <=> Main /\ Allowed(row, k)
  <2>1. CASE c.kind = "full"
    BY <1>8, <1>13, <1>14, <1>16, <2>1
  <2>2. CASE c.kind = "causal"
    BY <1>7, <1>8, <1>13, <1>14, <2>2
  <2>3. QED
    BY <1>2, <2>1, <2>2
<1>18. Times(p, row, k) = IF Hits(x, row, k) \/ Hits(z, row, k) THEN 1 ELSE 0
  BY <1>9, <1>10, <1>12, <1>15, TimesOfTwo
<1>19. QED
  BY <1>5, <1>17, <1>18 DEF p, h, r, b

LEMMA TileTimes ==
    ASSUME c \in Launches, Kernel = "bwd", NEW row \in Rows, NEW k \in Keys,
           NEW i \in 0 .. Most(splits, 1) - 1,
           range[<<KeyBlock(k), i>>] = ProgramM(KeyBlock(k), i)
    PROVE  Times(<<KeyBlock(k), i>>, row, k) =
             IF TileVisited(ProgramM(KeyBlock(k), i), RowTile(row)) /\ Allowed(row, k)
             THEN 1 ELSE 0
BY LocalTileTimes, PlainTileTimes

-----------------------------------------------------------------------------
(* Each pair that the mask allows is counted once.                         *)
LEMMA OuterBlock ==
    ASSUME c \in Launches, NEW row \in Rows, NEW k \in Keys
    PROVE  Outer(row, k) \in Blocks
<1>1. CASE Kernel = "bwd"
  <2>1. KeyBlock(k) \in Nat /\ KeyBlock(k) < NumN(c)
    BY <1>1, TilePair
  <2>2. NumN(c) \in Nat
    BY LaunchFacts, KeyTypes, 0 \in Nat
  <2> DEFINE h == KeyBlock(k)
             top == NumN(c)
  <2>3. Outer(row, k) = h /\ Blocks = 0 .. top - 1 /\ h \in Nat /\ h < top /\ top \in Nat
    BY <1>1, <2>1, <2>2 DEF Outer, Blocks
  <2> HIDE DEF h, top
  <2>4. QED
    BY <2>3
<1>2. CASE Kernel # "bwd"
  <2> DEFINE rows == c.sq * c.pack
             top == CeilDiv(c, rows, c.tm)
             m == row \div c.tm
  <2>1. /\ IsProblem(c) /\ c.tm \in Nat \ {0} /\ c.pack \in Nat \ {0} /\ c.sq \in Nat
        /\ c.trunc \in BOOLEAN
    BY LaunchFacts
  <2>2. rows \in Nat /\ row \in 0 .. rows - 1
    BY <2>1, Multiples DEF Rows
  <2>3. Outer(row, k) = m /\ Blocks = 0 .. top - 1
    BY <1>2 DEF Outer, Blocks, RowTile
  <2> HIDE DEF rows
  <2>4. row \in Nat /\ row < rows
    BY <2>2
  <2>5. m \in Nat /\ m * c.tm <= row /\ m * c.tm \in Nat
    BY <2>1, <2>4, InOwnBlock
  <2>6. top \in Int /\ (m < top <=> m * c.tm < rows)
    BY <2>1, <2>2, <2>5, CeilDivBound
  <2> DEFINE first == m * c.tm
  <2>7. first \in Nat /\ first <= row /\ (m < top <=> first < rows)
    BY <2>5, <2>6
  <2> HIDE DEF m, top, first
  <2>8. QED
    BY <2>2, <2>3, <2>4, <2>5, <2>6, <2>7
<1>3. QED
  BY <1>1, <1>2

(* The hypotheses under which the blocks of a launch are dealt out well: a *)
(* gathered list ends with a block, and a split launch with one query      *)
(* allows no key past the diagonal. *)
WellDealt(l) ==
    /\ l.gather => l.sk % l.tn = 0
    /\ l.kernel # "bwd" /\ l.splits # 0 /\ l.kind = "local" /\ l.sq = 1 => l.right = 0

(* Program o counts the pair if the mask allows it, and no other does.     *)
Owns(o, row, k) ==
    /\ o \in Programs
    /\ Times(o, row, k) = IF Allowed(row, k) THEN 1 ELSE 0
    /\ \A p \in Programs : p # o => Times(p, row, k) = 0

LEMMA PairOwner ==
    ASSUME c \in Launches, WellDealt(c), range = InitialRange, NEW row \in Rows, NEW k \in Keys
    PROVE  \E o \in Programs : Owns(o, row, k)
<1> DEFINE b == Outer(row, k)
           I == 0 .. Most(splits, 1) - 1
           Visits(i) == IF Kernel = "bwd" THEN TileVisited(ProgramM(b, i), RowTile(row))
                        ELSE KeyVisited(ProgramN(b, i), KeyBlock(k))
<1>1. b \in Blocks /\ Programs = Blocks \X I /\ 0 \in I
  <2>1. splits \in Nat
    BY LaunchFacts
  <2>2. QED
    BY <2>1, OuterBlock DEF Programs, Most
<1>2. ASSUME NEW i \in I
      PROVE  Times(<<b, i>>, row, k) = IF Visits(i) /\ Allowed(row, k) THEN 1 ELSE 0
  <2>1. range[<<b, i>>] = IF Kernel = "bwd" THEN ProgramM(b, i) ELSE ProgramN(b, i)
    BY <1>1 DEF InitialRange
  <2>2. CASE Kernel = "bwd"
    BY <2>1, <2>2, TileTimes DEF Outer
  <2>3. CASE Kernel # "bwd"
    BY <2>1, <2>3, KeyTimes DEF Outer, WellDealt
  <2>4. QED
    BY <2>2, <2>3
<1>3. Allowed(row, k) => \E i \in I : Visits(i) /\ \A j \in I : j # i => ~Visits(j)
  <2>1. CASE Kernel = "bwd"
    <3>1. row \div c.pack = row
      BY <2>1, TilePair
    <3>2. ~c.gather
      BY <2>1, LaunchFacts
    <3>3. Allowed(row, k) => Attends(c, row, k)
      BY <3>1, <3>2 DEF Allowed
    <3>4. QED
      BY <2>1, <3>3, TileOwner DEF Outer
  <2>2. CASE Kernel # "bwd"
    <3>1. splits # 0 /\ IsLocal(c) /\ c.sq = 1 => c.right = 0
      BY <2>2 DEF WellDealt, IsLocal, Kernel, splits
    <3>2. QED
      BY <2>2, <3>1, KeyOwner DEF Outer
  <2>3. QED
    BY <2>1, <2>2
<1>4. ASSUME NEW p \in Programs, p[1] # b
      PROVE  Times(p, row, k) = 0
  BY <1>4 DEF Times
<1> HIDE DEF Visits
<1>5. PICK i \in I : /\ Allowed(row, k) => Visits(i)
                     /\ \A j \in I : j # i => ~(Visits(j) /\ Allowed(row, k))
  BY <1>1, <1>3
<1>6. <<b, i>> \in Programs
  BY <1>1, <1>5
<1>7. ASSUME NEW p \in Programs, p # <<b, i>>
      PROVE  Times(p, row, k) = 0
  <2>1. p = <<p[1], p[2]>> /\ p[2] \in I
    BY <1>1
  <2>2. CASE p[1] # b
    BY <1>4, <2>2
  <2>3. CASE p[1] = b
    <3>1. p = <<b, p[2]>> /\ p[2] # i
      BY <1>7, <2>1, <2>3
    <3>2. QED
      BY <1>2, <1>5, <2>1, <3>1
  <2>4. QED
    BY <2>2, <2>3
<1>8. Times(<<b, i>>, row, k) = IF Allowed(row, k) THEN 1 ELSE 0
  BY <1>2, <1>5
<1>9. QED
  BY <1>6, <1>7, <1>8 DEF Owns

(* Until the owner of a pair has run, the pair is not counted; then it is  *)
(* counted as the mask says.                                               *)
Attributed ==
    \A x \in Pairs, o \in Programs : Owns(o, x[1], x[2]) =>
        Both[x] = IF o \notin pending /\ Allowed(x[1], x[2]) THEN 1 ELSE 0

LEMMA AttributedInit ==
    ASSUME Init
    PROVE  Attributed
<1>1. \A x \in Pairs : Both[x] = 0
  BY DEF Init, Both
<1>2. pending = Programs
  BY DEF Init
<1>3. QED
  BY <1>1, <1>2 DEF Attributed

LEMMA OwnsStays ==
    ASSUME c' = c, range' = range
    PROVE  /\ \A o, row, k : Owns(o, row, k)' <=> Owns(o, row, k)
           /\ \A row, k : Allowed(row, k)' <=> Allowed(row, k)
<1>1. /\ \A p : Loops(p)' = Loops(p)
      /\ \A loop, row, k : KeptBy(loop, row, k)' = KeptBy(loop, row, k)
      /\ \A row, k : Outer(row, k)' = Outer(row, k) /\ Inner(row, k)' = Inner(row, k)
      /\ Programs' = Programs
  BY LaunchStays
<1>2. ASSUME NEW p, NEW row, NEW k
      PROVE  Times(p, row, k)' = Times(p, row, k)
  BY <1>1 DEF Times
<1>3. \A row, k : Allowed(row, k)' <=> Allowed(row, k)
  BY DEF Allowed
<1>4. QED
  BY <1>1, <1>2, <1>3 DEF Owns

LEMMA AttributedNext ==
    ASSUME Inv, Inv', Attributed, [Next]_vars
    PROVE  Attributed'
<1>1. c' = c /\ range' = range
  BY FixedStays
<1>2. Pairs' = Pairs /\ Programs' = Programs /\ Launch!Pairs = Pairs
  BY <1>1, LaunchStays, SamePrograms
<1>3. counted \in [Pairs -> Nat] /\ uncounted \in [Pairs -> Nat] /\ pending \subseteq Programs
  BY DEF Inv, Counters
<1>4. Both \in [Pairs -> Nat]
  BY <1>3 DEF Both
<1>5. /\ \A o, row, k : Owns(o, row, k)' <=> Owns(o, row, k)
      /\ \A row, k : Allowed(row, k)' <=> Allowed(row, k)
  BY <1>1, OwnsStays
<1>6. ASSUME NEW p \in pending, pending' = pending \ {p},
             Both' = [x \in Pairs |-> Both[x] + Times(p, x[1], x[2])]
      PROVE  Attributed'
  <2>1. SUFFICES ASSUME NEW x \in Pairs, NEW o \in Programs, Owns(o, x[1], x[2])
                 PROVE  Both'[x] = IF o \notin pending' /\ Allowed(x[1], x[2]) THEN 1 ELSE 0
    BY <1>2, <1>5 DEF Attributed
  <2>2. Both[x] = IF o \notin pending /\ Allowed(x[1], x[2]) THEN 1 ELSE 0
    BY <2>1 DEF Attributed
  <2>3. Both'[x] = Both[x] + Times(p, x[1], x[2])
    BY <1>6
  <2>4. CASE p = o
    <3>1. Times(p, x[1], x[2]) = IF Allowed(x[1], x[2]) THEN 1 ELSE 0
      BY <2>1, <2>4 DEF Owns
    <3>2. o \in pending /\ o \notin pending'
      BY <1>6, <2>4
    <3>3. QED
      BY <2>2, <2>3, <3>1, <3>2
  <2>5. CASE p # o
    <3>1. Times(p, x[1], x[2]) = 0
      BY <1>3, <2>1, <2>5 DEF Owns
    <3>2. o \in pending' <=> o \in pending
      BY <1>6, <2>5
    <3>3. QED
      BY <2>2, <2>3, <3>1, <3>2
  <2>6. QED
    BY <2>4, <2>5
<1>7. ASSUME UNCHANGED <<pending, Both>>
      PROVE  Attributed'
  BY <1>2, <1>5, <1>7 DEF Attributed
<1>8. CASE Launch!Next
  <2>1. CASE Launch!Done
    <3>1. UNCHANGED Launch!vars
      BY <2>1 DEF Launch!Done
    <3>2. QED
      BY <1>7, <3>1, LaunchForms DEF Launch!vars, Both
  <2>2. ASSUME NEW p \in Launch!Programs, Launch!RunProgram(p)
        PROVE  Attributed'
    <3>1. p \in pending /\ pending' = pending \ {p}
      BY <2>2 DEF Launch!RunProgram
    <3>2. Both' = [x \in Pairs |-> Both[x] + Times(p, x[1], x[2])]
      BY <1>2, <2>2, SamePrograms, SameTimes DEF Launch!RunProgram, Both
    <3>3. QED
      BY <1>6, <3>1, <3>2
  <2>3. QED
    BY <1>8, <2>1, <2>2 DEF Launch!Next
<1>9. CASE UNCHANGED Launch!vars
  BY <1>7, <1>9 DEF Launch!vars, Both
<1>10. QED
  BY <1>8, <1>9, LaunchStep

(* For every launch whose blocks are well dealt (WellDealt, above): when   *)
(* all programs have run, in whatever order, every query of every row has  *)
(* met each key the mask allows once, and no other key.  No block falls    *)
(* between two loops or two splits of a program, or into both.             *)
THEOREM PairsCountedOnce ==
    ASSUME \A l \in Launches : WellDealt(l)
    PROVE  Spec => []EachPairOnce
<1>1. Init => Inv /\ Attributed
  BY InvInit, AttributedInit
<1>2. Inv /\ Attributed /\ [Next]_vars => (Inv /\ Attributed)'
  BY InvNext, AttributedNext
<1>3. Inv /\ Attributed => EachPairOnce
  <2>1. SUFFICES ASSUME Inv, Attributed, pending = {}, NEW x \in Pairs
                 PROVE  counted[x] + uncounted[x] = IF Allowed(x[1], x[2]) THEN 1 ELSE 0
    BY DEF EachPairOnce
  <2>2. x[1] \in Rows /\ x[2] \in Keys
    BY DEF Pairs
  <2>3. c \in Launches /\ range = InitialRange
    BY <2>1 DEF Inv, Fixed
  <2>4. WellDealt(c)
    BY <2>3
  <2>5. PICK o \in Programs : Owns(o, x[1], x[2])
    BY <2>2, <2>3, <2>4, PairOwner
  <2>6. Both[x] = counted[x] + uncounted[x]
    BY DEF Both
  <2>7. QED
    BY <2>1, <2>5, <2>6 DEF Attributed
<1>4. QED
  BY <1>1, <1>2, <1>3, PTL DEF Spec
===============================================================================
