--------------------------- MODULE FwdWalkProofs ---------------------------
(***************************************************************************)
(* Proofs about FwdWalkSm90, for every problem, query tile and depth of    *)
(* the two pipelines: producer and consumers agree on the block in every   *)
(* stage, and a query tile accounts for exactly the pairs its mask allows. *)
(*                                                                         *)
(* What producer and consumers do is laid out before they start.  The      *)
(* argument counts along both layouts: how many K and V blocks the first i *)
(* loads bring, how many scores and products the first j jobs take.  Both  *)
(* follow one sequence of blocks, so that what is in a pipeline is the     *)
(* part of that sequence between the two counts.                           *)
(***************************************************************************)
EXTENDS FwdWalkSm90, BlockInfoProofs, SequenceTheorems

Loads  == {"K", "V"} \X Int
Visits == [block : Int, seqlen : BOOLEAN, mask : {"none", "causal", "local", "sink"}]
Jobs   == [score : Seq(Visits), pv : Seq(Visits)]

-----------------------------------------------------------------------------
(* Descending sequences of blocks.                                         *)
LEMMA DownSeq ==
    ASSUME NEW from \in Int, NEW to \in Int
    PROVE  /\ Down(from, to) \in Seq(Int)
           /\ Len(Down(from, to)) = Most(from - to, 0)
           /\ \A i \in 1 .. Most(from - to, 0) : Down(from, to)[i] = from - i
<1>1. Most(from - to, 0) \in Nat
  BY DEF Most
<1> DEFINE n == Most(from - to, 0)
<1> HIDE DEF n
<1>2. [i \in 1 .. n |-> from - i] \in Seq(Int)
  BY <1>1 DEF n
<1>3. QED
  BY <1>1, <1>2 DEF Down, n

LEMMA DownJoined ==
    ASSUME NEW from \in Int, NEW mid \in Int, NEW to \in Int, to <= mid, mid <= from
    PROVE  Down(from, mid) \o Down(mid, to) = Down(from, to)
<1>1. /\ Down(from, mid) \in Seq(Int) /\ Len(Down(from, mid)) = from - mid
      /\ \A i \in 1 .. from - mid : Down(from, mid)[i] = from - i
  BY DownSeq DEF Most
<1>2. /\ Down(mid, to) \in Seq(Int) /\ Len(Down(mid, to)) = mid - to
      /\ \A i \in 1 .. mid - to : Down(mid, to)[i] = mid - i
  BY DownSeq DEF Most
<1>3. /\ Down(from, to) \in Seq(Int) /\ Len(Down(from, to)) = from - to
      /\ \A i \in 1 .. from - to : Down(from, to)[i] = from - i
  BY DownSeq DEF Most
<1> DEFINE n1 == from - mid
           n2 == mid - to
           joined == Down(from, mid) \o Down(mid, to)
<1>4. /\ joined \in Seq(Int) /\ Len(joined) = n1 + n2
      /\ \A i \in 1 .. n1 + n2 :
           joined[i] = IF i <= n1 THEN Down(from, mid)[i] ELSE Down(mid, to)[i - n1]
  <2> DEFINE d1 == Down(from, mid)
             d2 == Down(mid, to)
  <2>1. d1 \in Seq(Int) /\ d2 \in Seq(Int) /\ Len(d1) = n1 /\ Len(d2) = n2
    BY <1>1, <1>2
  <2> HIDE DEF d1, d2, n1, n2
  <2>2. /\ d1 \o d2 \in Seq(Int) /\ Len(d1 \o d2) = n1 + n2
        /\ \A i \in 1 .. n1 + n2 : (d1 \o d2)[i] = IF i <= n1 THEN d1[i] ELSE d2[i - n1]
    BY <2>1, ConcatProperties
  <2>3. QED
    BY <2>2 DEF d1, d2
<1> HIDE DEF joined
<1>5. \A i \in 1 .. from - to : joined[i] = Down(from, to)[i]
  <2> SUFFICES ASSUME NEW i \in 1 .. from - to PROVE joined[i] = Down(from, to)[i]
    OBVIOUS
  <2>1. CASE i <= from - mid
    BY <2>1, <1>1, <1>3, <1>4
  <2>2. CASE i > from - mid
    <3>1. i - n1 \in 1 .. mid - to /\ mid - (i - n1) = from - i
      BY <2>2
    <3>2. Down(mid, to)[i - n1] = from - i
      BY <3>1, <1>2
    <3>3. QED
      BY <3>2, <2>2, <1>3, <1>4
  <2>3. QED
    BY <2>1, <2>2
<1>6. Len(joined) = from - to
  BY <1>4
<1>7. joined = Down(from, to)
  BY <1>3, <1>4, <1>5, <1>6, SeqEqual
<1>8. QED
  BY <1>7 DEF joined

LEMMA DownEmpty ==
    ASSUME NEW from \in Int, NEW to \in Int, from <= to
    PROVE  Down(from, to) = <<>>
BY DEF Down, Most

-----------------------------------------------------------------------------
(* Counts along a layout, and along two, one behind the other.             *)
Counts(f, size, total) ==
    f \in [0 .. size -> 0 .. total] /\ f[0] = 0 /\ f[size] = total
Behind(f1, m1, n1, f2, m2) ==
    [i \in 0 .. m1 + m2 |-> IF i <= m1 THEN f1[i] ELSE n1 + f2[i - m1]]

GoesOn(f, f1, m1, n1, f2, m2, n2) ==
    /\ Counts(f, m1 + m2, n1 + n2)
    /\ \A i \in 0 .. m1 : f[i] = f1[i]
    /\ \A i \in 0 .. m2 : f[m1 + i] = n1 + f2[i]

LEMMA CountsBehind ==
    ASSUME NEW m1 \in Nat, NEW n1 \in Nat, NEW f1, Counts(f1, m1, n1),
           NEW m2 \in Nat, NEW n2 \in Nat, NEW f2, Counts(f2, m2, n2)
    PROVE  GoesOn(Behind(f1, m1, n1, f2, m2), f1, m1, n1, f2, m2, n2)
<1> DEFINE f == Behind(f1, m1, n1, f2, m2)
<1>1. /\ f1 \in [0 .. m1 -> 0 .. n1] /\ f1[0] = 0 /\ f1[m1] = n1
      /\ f2 \in [0 .. m2 -> 0 .. n2] /\ f2[0] = 0 /\ f2[m2] = n2
  BY DEF Counts
<1>2. ASSUME NEW i \in 0 .. m1 PROVE f[i] = f1[i]
  BY DEF Behind
<1>3. ASSUME NEW i \in 0 .. m2 PROVE f[m1 + i] = n1 + f2[i]
  <2>1. CASE i = 0
    BY <1>1, <1>2, <2>1
  <2>2. CASE i # 0
    BY <2>2, m1 + i - m1 = i, ~(m1 + i <= m1) DEF Behind
  <2>3. QED
    BY <2>1, <2>2
<1>4. ASSUME NEW i \in 0 .. m1 + m2 PROVE f[i] \in 0 .. n1 + n2
  <2> HIDE DEF f
  <2>1. CASE i <= m1
    <3>1. f[i] = f1[i] /\ f1[i] \in 0 .. n1
      BY <1>1, <1>2, <2>1
    <3>2. QED
      BY <3>1
  <2>2. CASE i > m1
    <3>1. i - m1 \in 0 .. m2 /\ m1 + (i - m1) = i
      BY <2>2
    <3>2. f[i] = n1 + f2[i - m1] /\ f2[i - m1] \in 0 .. n2
      BY <3>1, <1>1, <1>3
    <3>3. QED
      BY <3>2
  <2>3. QED
    BY <2>1, <2>2
<1>5. f = [i \in 0 .. m1 + m2 |-> f[i]]
  BY DEF Behind
<1>6. 0 \in 0 .. m1 /\ m2 \in 0 .. m2
  OBVIOUS
<1> HIDE DEF f
<1>7. f[0] = 0 /\ f[m1 + m2] = n1 + n2
  BY <1>1, <1>2, <1>3, <1>6
<1>8. Counts(f, m1 + m2, n1 + n2)
  BY <1>4, <1>5, <1>7 DEF Counts
<1>9. QED
  BY <1>2, <1>3, <1>8 DEF f, GoesOn

-----------------------------------------------------------------------------
(* k[i] of the first i loads are K blocks; both kinds go through blocks.   *)
Serves(ls, blocks, k) ==
    /\ ls \in Seq(Loads) /\ blocks \in Seq(Int)
    /\ Len(ls) = 2 * Len(blocks)
    /\ Counts(k, Len(ls), Len(blocks))
    /\ \A i \in 0 .. Len(ls) - 1 :
         \/ /\ k[i] < Len(blocks) /\ k[i + 1] = k[i] + 1
            /\ ls[i + 1] = K(blocks[k[i] + 1])
         \/ /\ i - k[i] \in 0 .. Len(blocks) - 1 /\ k[i + 1] = k[i]
            /\ ls[i + 1] = V(blocks[i - k[i] + 1])

LEMMA SegmentServes ==
    ASSUME NEW blocks \in Seq(Int), overlap \in BOOLEAN
    PROVE  \E k : Serves(SegmentLoads(blocks), blocks, k)
<1> DEFINE n == Len(blocks)
           ls == SegmentLoads(blocks)
           k  == [i \in 0 .. 2 * n |->
                    IF ~overlap THEN (i + 1) \div 2
                    ELSE IF i = 0 THEN 0 ELSE IF i = 2 * n THEN n ELSE i \div 2 + 1]
<1>1. n \in Nat /\ \A i \in 1 .. n : blocks[i] \in Int
  BY LenProperties, ElementOfSeq
<1>2. \A b \in Int : K(b) \in Loads /\ V(b) \in Loads
  BY DEF K, V, Loads
<1>3. \A i \in 1 .. 2 * n :
        /\ (i + 1) \div 2 \in 1 .. n
        /\ i % 2 = 0 => i \div 2 \in 1 .. n
        /\ i % 2 # 0 => (i - 1) \div 2 \in 0 .. n - 1
  BY <1>1
<1>4. CASE ~overlap
  <2>1. ls = [i \in 1 .. 2 * n |-> IF i % 2 = 1 THEN K(blocks[(i + 1) \div 2])
                                                  ELSE V(blocks[i \div 2])]
    BY <1>4 DEF SegmentLoads
  <2>2. \A i \in 1 .. 2 * n :
          (IF i % 2 = 1 THEN K(blocks[(i + 1) \div 2]) ELSE V(blocks[i \div 2])) \in Loads
    BY <1>1, <1>2, <1>3
  <2>3. ls \in Seq(Loads) /\ Len(ls) = 2 * n
    <3> HIDE DEF n
    <3>1. 2 * n \in Nat
      BY <1>1
    <3>2. QED
      BY <2>1, <2>2, <3>1
  <2>4. \A i \in 0 .. 2 * n : k[i] = (i + 1) \div 2
    BY <1>4
  <2>5. k \in [0 .. 2 * n -> 0 .. n] /\ k[0] = 0 /\ k[2 * n] = n
    BY <1>1, <1>4, <2>4
  <2> HIDE DEF n, ls, k
  <2>6. ASSUME NEW i \in 0 .. 2 * n - 1
        PROVE  \/ /\ k[i] < n /\ k[i + 1] = k[i] + 1
                  /\ ls[i + 1] = K(blocks[k[i] + 1])
               \/ /\ i - k[i] \in 0 .. n - 1 /\ k[i + 1] = k[i]
                  /\ ls[i + 1] = V(blocks[i - k[i] + 1])
    <3>1. k[i] = (i + 1) \div 2 /\ k[i + 1] = (i + 2) \div 2
      <4>1. i \in 0 .. 2 * n /\ i + 1 \in 0 .. 2 * n /\ (i + 1) + 1 = i + 2
        BY <1>1
      <4>2. k[i] = (i + 1) \div 2 /\ k[i + 1] = ((i + 1) + 1) \div 2
        BY <2>4, <4>1
      <4>3. QED
        BY <4>1, <4>2
    <3>2. CASE i % 2 = 0
      <4>1. (i + 1) % 2 = 1 /\ (i + 2) \div 2 = (i + 1) \div 2 + 1 /\ (i + 1) \div 2 < n
        BY <3>2, <1>1
      <4>2. ls[i + 1] = K(blocks[(i + 2) \div 2])
        BY <2>1, <4>1, <1>1, i + 1 \in 1 .. 2 * n, (i + 1) + 1 = i + 2
      <4>3. QED
        BY <3>1, <4>1, <4>2
    <3>3. CASE i % 2 # 0
      <4>1. /\ (i + 1) % 2 # 1 /\ (i + 2) \div 2 = (i + 1) \div 2
            /\ i - (i + 1) \div 2 + 1 = (i + 1) \div 2 /\ i - (i + 1) \div 2 \in 0 .. n - 1
        BY <3>3, <1>1
      <4>2. ls[i + 1] = V(blocks[(i + 1) \div 2])
        BY <2>1, <4>1, <1>1, i + 1 \in 1 .. 2 * n
      <4>3. QED
        BY <3>1, <4>1, <4>2
    <3>4. QED
      BY <3>2, <3>3
  <2>7. Serves(ls, blocks, k)
    BY <2>3, <2>5, <2>6 DEF Serves, Counts, n
  <2>8. QED
    BY <2>7 DEF ls
<1>5. CASE overlap
  <2>1. ls = [i \in 1 .. 2 * n |->
                CASE i = 1 -> K(blocks[1])
                  [] i = 2 * n -> V(blocks[n])
                  [] OTHER -> IF i % 2 = 0 THEN K(blocks[i \div 2 + 1])
                                           ELSE V(blocks[i \div 2])]
    BY <1>5 DEF SegmentLoads
  <2>2. \A i \in 1 .. 2 * n :
          /\ i = 1 => ls[i] = K(blocks[1])
          /\ i = 2 * n => ls[i] = V(blocks[n])
          /\ i # 1 /\ i # 2 * n /\ i % 2 = 0 => ls[i] = K(blocks[i \div 2 + 1])
          /\ i # 1 /\ i # 2 * n /\ i % 2 # 0 => ls[i] = V(blocks[i \div 2])
    BY <2>1, <1>1
  <2>3. \A i \in 1 .. 2 * n : ls[i] \in Loads
    <3> SUFFICES ASSUME NEW i \in 1 .. 2 * n PROVE ls[i] \in Loads
      OBVIOUS
    <3>1. CASE i = 1
      BY <3>1, <2>2, <1>1, <1>2
    <3>2. CASE i = 2 * n
      BY <3>2, <2>2, <1>1, <1>2
    <3>3. CASE i # 1 /\ i # 2 * n /\ i % 2 = 0
      <4>1. i \div 2 + 1 \in 1 .. n
        BY <3>3, <1>1
      <4>2. QED
        BY <3>3, <4>1, <2>2, <1>1, <1>2
    <3>4. CASE i # 1 /\ i # 2 * n /\ i % 2 # 0
      <4>1. i \div 2 \in 1 .. n
        BY <3>4, <1>1
      <4>2. QED
        BY <3>4, <4>1, <2>2, <1>1, <1>2
    <3>5. QED
      BY <3>1, <3>2, <3>3, <3>4
  <2>4. ls \in Seq(Loads) /\ Len(ls) = 2 * n
    <3>1. 2 * n \in Nat /\ DOMAIN ls = 1 .. 2 * n
      BY <1>1, <2>1
    <3>2. ls = [i \in 1 .. 2 * n |-> ls[i]]
      BY <2>1
    <3> HIDE DEF n, ls
    <3>3. QED
      BY <2>3, <3>1, <3>2
  <2>5. \A i \in 0 .. 2 * n :
          k[i] = IF i = 0 THEN 0 ELSE IF i = 2 * n THEN n ELSE i \div 2 + 1
    BY <1>5
  <2>6. k \in [0 .. 2 * n -> 0 .. n] /\ k[0] = 0 /\ k[2 * n] = n
    <3>1. ASSUME NEW i \in 0 .. 2 * n PROVE k[i] \in 0 .. n
      <4>1. i # 0 /\ i # 2 * n => i \div 2 + 1 \in 0 .. n
        BY <1>1
      <4>2. k[i] = IF i = 0 THEN 0 ELSE IF i = 2 * n THEN n ELSE i \div 2 + 1
        BY <2>5
      <4>3. 0 \in 0 .. n /\ n \in 0 .. n
        BY <1>1
      <4> HIDE DEF k, n
      <4>4. QED
        BY <4>1, <4>2, <4>3
    <3>2. k = [i \in 0 .. 2 * n |-> k[i]]
      OBVIOUS
    <3>3. 0 \in 0 .. 2 * n /\ 2 * n \in 0 .. 2 * n /\ (2 * n = 0 => n = 0)
      BY <1>1
    <3> HIDE DEF k, n
    <3>4. QED
      BY <2>5, <3>1, <3>2, <3>3
  <2> HIDE DEF n, ls, k
  <2>7. ASSUME NEW i \in 0 .. 2 * n - 1
        PROVE  \/ /\ k[i] < n /\ k[i + 1] = k[i] + 1
                  /\ ls[i + 1] = K(blocks[k[i] + 1])
               \/ /\ i - k[i] \in 0 .. n - 1 /\ k[i + 1] = k[i]
                  /\ ls[i + 1] = V(blocks[i - k[i] + 1])
    <3>1. CASE i = 0
      <4>1. k[0] = 0 /\ k[1] = 1 /\ n > 0
        BY <3>1, <2>5, <1>1
      <4>2. ls[1] = K(blocks[1])
        BY <2>2, <4>1, <1>1
      <4>3. QED
        BY <3>1, <4>1, <4>2
    <3>2. CASE i = 2 * n - 1 /\ i # 0
      <4>1. k[i] = n /\ k[i + 1] = n /\ i - n + 1 = n /\ i - n \in 0 .. n - 1
        <5>1. /\ n > 0 /\ i \in 0 .. 2 * n /\ i # 2 * n /\ i + 1 = 2 * n /\ i \div 2 + 1 = n
              /\ 2 * n \in 0 .. 2 * n /\ 2 * n # 0
              /\ i - n + 1 = n /\ i - n \in 0 .. n - 1
          BY <3>2, <1>1
        <5>2. k[i] = i \div 2 + 1 /\ k[2 * n] = n
          BY <5>1, <3>2, <2>5
        <5>3. QED
          BY <5>1, <5>2
      <4>2. ls[i + 1] = V(blocks[n])
        BY <2>2, <3>2, <1>1
      <4>3. QED
        BY <4>1, <4>2
    <3>3. CASE i # 0 /\ i # 2 * n - 1 /\ i % 2 # 0
      <4>1. /\ (i + 1) % 2 = 0 /\ (i + 1) \div 2 = i \div 2 + 1 /\ i + 1 \in 1 .. 2 * n
            /\ i + 1 # 1 /\ i + 1 # 2 * n /\ i # 2 * n /\ i \div 2 + 1 < n
        BY <3>3, <1>1
      <4>2. k[i] = i \div 2 + 1 /\ k[i + 1] = i \div 2 + 2
        <5>1. i \in 0 .. 2 * n /\ i + 1 \in 0 .. 2 * n /\ i + 1 # 0 /\ i \div 2 \in Int
          BY <4>1, <1>1
        <5>2. k[i] = i \div 2 + 1 /\ k[i + 1] = (i + 1) \div 2 + 1
          BY <5>1, <4>1, <3>3, <2>5
        <5>3. QED
          BY <5>1, <5>2, <4>1
      <4>3. ls[i + 1] = K(blocks[(i + 1) \div 2 + 1])
        BY <2>2, <4>1
      <4>4. QED
        BY <4>1, <4>2, <4>3
    <3>4. CASE i # 0 /\ i # 2 * n - 1 /\ i % 2 = 0
      <4>1. /\ (i + 1) % 2 # 0 /\ (i + 1) \div 2 = i \div 2 /\ i + 1 \in 1 .. 2 * n
            /\ i + 1 # 1 /\ i + 1 # 2 * n /\ i # 2 * n
            /\ i - (i \div 2 + 1) + 1 = i \div 2 /\ i - (i \div 2 + 1) \in 0 .. n - 1
        BY <3>4, <1>1
      <4>2. k[i] = i \div 2 + 1 /\ k[i + 1] = i \div 2 + 1
        <5>1. i \in 0 .. 2 * n /\ i + 1 \in 0 .. 2 * n /\ i + 1 # 0
          BY <4>1, <1>1
        <5>2. k[i] = i \div 2 + 1 /\ k[i + 1] = (i + 1) \div 2 + 1
          BY <5>1, <4>1, <3>4, <2>5
        <5>3. QED
          BY <5>2, <4>1
      <4>3. ls[i + 1] = V(blocks[(i + 1) \div 2])
        BY <2>2, <4>1
      <4>4. QED
        BY <4>1, <4>2, <4>3
    <3>5. QED
      BY <3>1, <3>2, <3>3, <3>4
  <2>8. Serves(ls, blocks, k)
    BY <2>4, <2>6, <2>7 DEF Serves, Counts, n
  <2>9. QED
    BY <2>8 DEF ls
<1>6. QED
  BY <1>4, <1>5

LEMMA ServesJoined ==
    ASSUME NEW ls1, NEW b1, NEW k1, Serves(ls1, b1, k1),
           NEW ls2, NEW b2, NEW k2, Serves(ls2, b2, k2)
    PROVE  \E k : Serves(ls1 \o ls2, b1 \o b2, k)
<1> DEFINE m1 == Len(ls1)
           m2 == Len(ls2)
           n1 == Len(b1)
           n2 == Len(b2)
           ls == ls1 \o ls2
           bs == b1 \o b2
           k  == Behind(k1, m1, n1, k2, m2)
<1>1. /\ m1 \in Nat /\ m2 \in Nat /\ n1 \in Nat /\ n2 \in Nat
      /\ m1 = 2 * n1 /\ m2 = 2 * n2
      /\ ls1 \in Seq(Loads) /\ ls2 \in Seq(Loads) /\ b1 \in Seq(Int) /\ b2 \in Seq(Int)
  BY LenProperties DEF Serves
<1>2. /\ k1 \in [0 .. m1 -> 0 .. n1] /\ k1[0] = 0 /\ k1[m1] = n1
      /\ k2 \in [0 .. m2 -> 0 .. n2] /\ k2[0] = 0 /\ k2[m2] = n2
  BY DEF Serves, Counts
<1>3. /\ ls \in Seq(Loads) /\ Len(ls) = m1 + m2
      /\ \A i \in 1 .. m1 + m2 : ls[i] = IF i <= m1 THEN ls1[i] ELSE ls2[i - m1]
  BY <1>1, ConcatProperties
<1>4. /\ bs \in Seq(Int) /\ Len(bs) = n1 + n2
      /\ \A i \in 1 .. n1 + n2 : bs[i] = IF i <= n1 THEN b1[i] ELSE b2[i - n1]
  BY <1>1, ConcatProperties
<1>5. /\ Counts(k, m1 + m2, n1 + n2)
      /\ \A i \in 0 .. m1 : k[i] = k1[i]
      /\ \A i \in 0 .. m2 : k[m1 + i] = n1 + k2[i]
  <2>1. Counts(k1, m1, n1) /\ Counts(k2, m2, n2)
    BY DEF Serves
  <2> HIDE DEF m1, m2, n1, n2, k
  <2>2. GoesOn(k, k1, m1, n1, k2, m2, n2)
    BY <1>1, <2>1, CountsBehind, Zenon DEF k
  <2>3. QED
    BY <2>2 DEF GoesOn
<1>7. ASSUME NEW i \in 0 .. m1 + m2 - 1
      PROVE  \/ /\ k[i] < n1 + n2 /\ k[i + 1] = k[i] + 1
                /\ ls[i + 1] = K(bs[k[i] + 1])
             \/ /\ i - k[i] \in 0 .. n1 + n2 - 1 /\ k[i + 1] = k[i]
                /\ ls[i + 1] = V(bs[i - k[i] + 1])
  <2>1. CASE i < m1
    <3>1. i \in 0 .. m1 - 1 /\ i + 1 \in 0 .. m1 /\ i \in 0 .. m1
      BY <2>1, <1>1
    <3>2. k[i] = k1[i] /\ k[i + 1] = k1[i + 1] /\ ls[i + 1] = ls1[i + 1]
      BY <3>1, <1>1, <1>3, <1>5
    <3>3. \/ /\ k1[i] < n1 /\ k1[i + 1] = k1[i] + 1
             /\ ls1[i + 1] = K(b1[k1[i] + 1])
          \/ /\ i - k1[i] \in 0 .. n1 - 1 /\ k1[i + 1] = k1[i]
             /\ ls1[i + 1] = V(b1[i - k1[i] + 1])
      BY <3>1 DEF Serves
    <3>4. k1[i] \in 0 .. n1
      BY <3>1, <1>2
    <3>5. \A j \in 1 .. n1 : bs[j] = b1[j]
      BY <1>1, <1>4
    <3> HIDE DEF k, ls, bs, m1, m2, n1, n2
    <3>6. CASE k1[i] < n1 /\ k1[i + 1] = k1[i] + 1 /\ ls1[i + 1] = K(b1[k1[i] + 1])
      <4>1. PICK a \in 0 .. n1 : a = k1[i]
        BY <3>4
      <4>a. a < n1
        BY <3>6, <4>1
      <4>2. a + 1 \in 1 .. n1 /\ a < n1 + n2
        BY <1>1, <4>a
      <4>3. bs[a + 1] = b1[a + 1]
        BY <3>5, <4>2
      <4>4. k[i] < n1 + n2 /\ k[i + 1] = k[i] + 1
        BY <3>2, <3>6, <4>1, <4>2
      <4>5. ls[i + 1] = K(bs[k[i] + 1])
        BY <3>2, <3>6, <4>1, <4>3
      <4>6. QED
        BY <4>4, <4>5
    <3>7. CASE /\ i - k1[i] \in 0 .. n1 - 1 /\ k1[i + 1] = k1[i]
               /\ ls1[i + 1] = V(b1[i - k1[i] + 1])
      <4>1. PICK a \in 0 .. n1 - 1 : a = i - k1[i]
        BY <3>7
      <4>2. a + 1 \in 1 .. n1 /\ a \in 0 .. n1 + n2 - 1
        BY <1>1
      <4>3. bs[a + 1] = b1[a + 1]
        BY <3>5, <4>2
      <4>4. i - k[i] = a /\ k[i + 1] = k[i]
        BY <3>2, <3>7, <4>1
      <4>5. ls[i + 1] = V(bs[i - k[i] + 1])
        BY <3>2, <3>7, <4>1, <4>3, <4>4
      <4>6. QED
        BY <4>2, <4>4, <4>5
    <3>8. QED
      BY <3>3, <3>6, <3>7
  <2>2. CASE i >= m1
    <3> DEFINE j == i - m1
    <3>1. j \in 0 .. m2 - 1 /\ j + 1 \in 0 .. m2 /\ j \in 0 .. m2 /\ i = m1 + j
          /\ i + 1 = m1 + (j + 1)
      BY <2>2, <1>1
    <3>2. k[i] = n1 + k2[j] /\ k[i + 1] = n1 + k2[j + 1]
      BY <3>1, <1>5
    <3>3. ls[i + 1] = ls2[j + 1]
      BY <3>1, <1>1, <1>3
    <3>4. \/ /\ k2[j] < n2 /\ k2[j + 1] = k2[j] + 1
             /\ ls2[j + 1] = K(b2[k2[j] + 1])
          \/ /\ j - k2[j] \in 0 .. n2 - 1 /\ k2[j + 1] = k2[j]
             /\ ls2[j + 1] = V(b2[j - k2[j] + 1])
      BY <3>1 DEF Serves
    <3>5. k2[j] \in 0 .. n2
      BY <3>1, <1>2
    <3>6. \A h \in 1 .. n2 : bs[n1 + h] = b2[h]
      BY <1>1, <1>4
    <3> HIDE DEF k, ls, bs, m1, m2, n1, n2, j
    <3>7. CASE k2[j] < n2 /\ k2[j + 1] = k2[j] + 1 /\ ls2[j + 1] = K(b2[k2[j] + 1])
      <4>1. bs[n1 + k2[j] + 1] = b2[k2[j] + 1]
        <5>1. PICK h \in 0 .. n2 : h = k2[j]
          BY <3>5
        <5>2. h < n2
          BY <5>1, <3>7
        <5>3. h + 1 \in 1 .. n2 /\ n1 + (h + 1) = n1 + h + 1
          BY <5>2, <1>1
        <5>4. QED
          BY <5>1, <5>3, <3>6
      <4>2. k[i] < n1 + n2 /\ k[i + 1] = k[i] + 1
        <5>1. PICK h \in 0 .. n2 : h = k2[j]
          BY <3>5
        <5>2. k[i] = n1 + h /\ k[i + 1] = n1 + (h + 1) /\ h < n2
          BY <5>1, <3>2, <3>7
        <5>3. n1 + (h + 1) = n1 + h + 1 /\ n1 + h < n1 + n2
          BY <5>2, <1>1
        <5>4. QED
          BY <5>2, <5>3
      <4>3. ls[i + 1] = K(bs[k[i] + 1])
        BY <4>1, <3>2, <3>3, <3>7
      <4>4. QED
        BY <4>2, <4>3
    <3>8. CASE /\ j - k2[j] \in 0 .. n2 - 1 /\ k2[j + 1] = k2[j]
               /\ ls2[j + 1] = V(b2[j - k2[j] + 1])
      <4>1. PICK h \in 0 .. n2 - 1 : h = j - k2[j]
        BY <3>8
      <4>2. m1 = n1 + n1 /\ i - k[i] = n1 + h
        <5>1. PICK a \in 0 .. n2 : a = k2[j]
          BY <3>5
        <5>2. h = j - a /\ i = m1 + j /\ k[i] = n1 + a /\ j \in Int
          BY <5>1, <4>1, <3>1, <3>2
        <5>3. QED
          BY <5>2, <1>1
      <4>3. i - k[i] \in 0 .. n1 + n2 - 1 /\ bs[i - k[i] + 1] = b2[h + 1]
        <5>1. h + 1 \in 1 .. n2 /\ n1 + (h + 1) = n1 + h + 1 /\ n1 + h \in 0 .. n1 + n2 - 1
          BY <1>1
        <5>2. QED
          BY <5>1, <4>2, <3>6
      <4>4. k[i + 1] = k[i] /\ ls[i + 1] = V(b2[h + 1])
        BY <4>1, <3>2, <3>3, <3>8
      <4>5. /\ i - k[i] \in 0 .. n1 + n2 - 1 /\ k[i + 1] = k[i]
            /\ ls[i + 1] = V(bs[i - k[i] + 1])
        BY <4>3, <4>4
      <4>6. QED
        BY <4>5
    <3>9. QED
      BY <3>4, <3>7, <3>8
  <2>3. i < m1 \/ i >= m1
    BY <1>1
  <2> HIDE DEF k, ls, bs, m1, m2, n1, n2
  <2>4. QED
    BY <2>1, <2>2, <2>3
<1> HIDE DEF k, ls, bs
<1>8. Serves(ls, bs, k)
  <2>1. Len(ls) = 2 * Len(bs)
    BY <1>1, <1>3, <1>4
  <2>2. Counts(k, Len(ls), Len(bs))
    BY <1>3, <1>4, <1>5
  <2>3. QED
    BY <2>1, <2>2, <1>3, <1>4, <1>7, SMTT(40) DEF Serves
<1>9. QED
  BY <1>8 DEF ls, bs

-----------------------------------------------------------------------------
(* The first j jobs score s[j] visits and multiply p[j] of them.           *)
PlaysJob(jobs, visits, s, p, j) ==
    /\ \/ /\ s[j] < Len(visits) /\ s[j + 1] = s[j] + 1
          /\ jobs[j + 1].score = <<visits[s[j] + 1]>>
       \/ s[j + 1] = s[j] /\ jobs[j + 1].score = Nothing
    /\ \/ /\ p[j] < Len(visits) /\ p[j + 1] = p[j] + 1
          /\ jobs[j + 1].pv = <<visits[p[j] + 1]>>
       \/ p[j + 1] = p[j] /\ jobs[j + 1].pv = Nothing
    /\ jobs[j + 1].score # Nothing \/ jobs[j + 1].pv # Nothing
Plays(jobs, visits, s, p) ==
    /\ jobs \in Seq(Jobs) /\ visits \in Seq(Visits)
    /\ Counts(s, Len(jobs), Len(visits)) /\ Counts(p, Len(jobs), Len(visits))
    /\ \A j \in 0 .. Len(jobs) - 1 : PlaysJob(jobs, visits, s, p, j)

LEMMA JobOf ==
    ASSUME NEW score \in Seq(Visits), NEW pv \in Seq(Visits)
    PROVE  /\ [score |-> score, pv |-> pv] \in Jobs
           /\ [score |-> score, pv |-> pv].score = score
           /\ [score |-> score, pv |-> pv].pv = pv
BY DEF Jobs

LEMMA SegmentPlays ==
    ASSUME NEW visits \in Seq(Visits), overlap \in BOOLEAN
    PROVE  \E s, p : Plays(SegmentWork(visits), visits, s, p)
<1> DEFINE n == Len(visits)
           jobs == SegmentWork(visits)
<1>1. n \in Nat /\ DOMAIN visits = 1 .. n /\ \A i \in 1 .. n : visits[i] \in Visits
  BY LenProperties, ElementOfSeq
<1>2. /\ Nothing \in Seq(Visits)
      /\ \A v \in Visits : <<v>> \in Seq(Visits) /\ <<v>> # Nothing
  BY DEF Nothing
<1>3. CASE ~overlap
  <2> DEFINE s == [i \in 0 .. n |-> i]
  <2>1. jobs = [i \in 1 .. n |-> [score |-> <<visits[i]>>, pv |-> <<visits[i]>>]]
    BY <1>1, <1>3 DEF SegmentWork
  <2>2. ASSUME NEW i \in 1 .. n
        PROVE  /\ jobs[i] \in Jobs
               /\ jobs[i].score = <<visits[i]>> /\ jobs[i].pv = <<visits[i]>>
    <3>1. jobs[i] = [score |-> <<visits[i]>>, pv |-> <<visits[i]>>]
      BY <2>1
    <3>2. <<visits[i]>> \in Seq(Visits)
      BY <1>1, <1>2
    <3> HIDE DEF jobs, n
    <3>3. /\ [score |-> <<visits[i]>>, pv |-> <<visits[i]>>] \in Jobs
          /\ [score |-> <<visits[i]>>, pv |-> <<visits[i]>>].score = <<visits[i]>>
          /\ [score |-> <<visits[i]>>, pv |-> <<visits[i]>>].pv = <<visits[i]>>
      BY <3>2, JobOf, Zenon
    <3>4. QED
      BY <3>1, <3>3, Zenon
  <2>3. jobs \in Seq(Jobs) /\ Len(jobs) = n
    <3>1. jobs = [i \in 1 .. n |-> jobs[i]]
      BY <2>1
    <3> HIDE DEF n, jobs
    <3>2. QED
      BY <1>1, <2>2, <3>1
  <2>4. /\ s \in [0 .. n -> 0 .. n] /\ s[0] = 0 /\ s[n] = n
        /\ \A j \in 0 .. n - 1 : s[j] = j /\ s[j + 1] = j + 1
    BY <1>1
  <2> HIDE DEF s, jobs, n
  <2>5. ASSUME NEW j \in 0 .. n - 1
        PROVE  /\ s[j] < n /\ s[j + 1] = s[j] + 1
               /\ jobs[j + 1].score = <<visits[s[j] + 1]>>
               /\ jobs[j + 1].pv = <<visits[s[j] + 1]>>
               /\ jobs[j + 1].score # Nothing
    <3>1. j + 1 \in 1 .. n /\ s[j] = j /\ s[j + 1] = j + 1 /\ j < n
      BY <1>1, <2>4
    <3>2. QED
      BY <1>1, <1>2, <2>2, <3>1
  <2>6. Plays(jobs, visits, s, s)
    BY <2>3, <2>4, <2>5 DEF Plays, PlaysJob, Counts, n
  <2>7. QED
    BY <2>6 DEF jobs
<1>4. CASE overlap /\ n = 0
  <2> DEFINE s == [i \in 0 .. 0 |-> 0]
  <2>1. visits = <<>>
    BY <1>4, EmptySeq
  <2>2. jobs = <<>>
    BY <1>4, <2>1 DEF SegmentWork
  <2>3. jobs \in Seq(Jobs) /\ Len(jobs) = 0
    BY <2>2
  <2>4. s \in [0 .. 0 -> 0 .. 0] /\ s[0] = 0
    OBVIOUS
  <2> HIDE DEF s, jobs
  <2>5. Plays(jobs, visits, s, s)
    BY <1>4, <2>3, <2>4 DEF Plays, PlaysJob, Counts
  <2>6. QED
    BY <2>5 DEF jobs
<1>5. CASE overlap /\ n > 0
  <2> DEFINE s == [i \in 0 .. n + 1 |-> IF i <= n THEN i ELSE n]
             p == [i \in 0 .. n + 1 |-> IF i > 0 THEN i - 1 ELSE 0]
  <2>1. visits # <<>>
    BY <1>5, EmptySeq
  <2>2. jobs = [i \in 1 .. n + 1 |->
                  [score |-> IF i <= n THEN <<visits[i]>> ELSE Nothing,
                   pv    |-> IF i > 1 THEN <<visits[i - 1]>> ELSE Nothing]]
    BY <1>5, <2>1 DEF SegmentWork
  <2>3. ASSUME NEW i \in 1 .. n + 1
        PROVE  /\ jobs[i] \in Jobs
               /\ i <= n => jobs[i].score = <<visits[i]>>
               /\ ~(i <= n) => jobs[i].score = Nothing
               /\ i > 1 => jobs[i].pv = <<visits[i - 1]>>
               /\ ~(i > 1) => jobs[i].pv = Nothing
    <3> DEFINE score == IF i <= n THEN <<visits[i]>> ELSE Nothing
               pv    == IF i > 1 THEN <<visits[i - 1]>> ELSE Nothing
    <3>1. score \in Seq(Visits)
      <4>1. i <= n => <<visits[i]>> \in Seq(Visits)
        BY <1>1, <1>2
      <4>2. QED
        BY <4>1, <1>2, Zenon
    <3>2. pv \in Seq(Visits)
      <4>1. i > 1 => i - 1 \in 1 .. n
        BY <1>1
      <4>2. i > 1 => <<visits[i - 1]>> \in Seq(Visits)
        BY <4>1, <1>1, <1>2
      <4>3. QED
        BY <4>2, <1>2, Zenon
    <3>3. jobs[i] = [score |-> score, pv |-> pv]
      BY <2>2, Zenon
    <3>4. /\ i <= n => score = <<visits[i]>>
          /\ ~(i <= n) => score = Nothing
          /\ i > 1 => pv = <<visits[i - 1]>>
          /\ ~(i > 1) => pv = Nothing
      BY Zenon
    <3> HIDE DEF score, pv, jobs, n
    <3>5. jobs[i] \in Jobs /\ jobs[i].score = score /\ jobs[i].pv = pv
      BY <3>1, <3>2, <3>3, JobOf
    <3>6. QED
      BY <3>4, <3>5, Zenon
  <2>4. jobs \in Seq(Jobs) /\ Len(jobs) = n + 1
    <3>1. jobs = [i \in 1 .. n + 1 |-> jobs[i]]
      BY <2>2, Zenon
    <3>2. n + 1 \in Nat
      BY <1>1
    <3> DEFINE n1 == n + 1
    <3> HIDE DEF n, jobs, n1
    <3>3. \A i \in 1 .. n1 : jobs[i] \in Jobs
      BY <2>3 DEF n1
    <3>4. jobs = [i \in 1 .. n1 |-> jobs[i]] /\ n1 \in Nat
      BY <3>1, <3>2 DEF n1
    <3>5. jobs \in Seq(Jobs) /\ Len(jobs) = n1
      BY <3>3, <3>4
    <3>6. QED
      BY <3>5 DEF n1
  <2>5. /\ \A i \in 0 .. n : s[i] = i
        /\ s[n + 1] = n /\ p[0] = 0 /\ p[n + 1] = n
        /\ \A i \in 1 .. n + 1 : p[i] = i - 1
    <3>1. \A i \in 0 .. n : s[i] = i
      BY <1>1
    <3>2. s[n + 1] = n
      <4>1. n + 1 \in 0 .. n + 1 /\ ~(n + 1 <= n)
        BY <1>1
      <4>2. QED
        BY <4>1, Zenon
    <3>3. p[0] = 0
      <4>1. 0 \in 0 .. n + 1 /\ ~(0 > 0)
        BY <1>1
      <4>2. QED
        BY <4>1, Zenon
    <3>4. \A i \in 1 .. n + 1 : p[i] = i - 1
      BY <1>1
    <3>5. p[n + 1] = n
      <4>1. n + 1 \in 0 .. n + 1 /\ n + 1 > 0 /\ n + 1 - 1 = n
        BY <1>1
      <4>2. p[n + 1] = n + 1 - 1
        BY <4>1
      <4>3. QED
        BY <4>1, <4>2
    <3>6. QED
      BY <3>1, <3>2, <3>3, <3>4, <3>5
  <2>a. s = [i \in 0 .. n + 1 |-> s[i]] /\ p = [i \in 0 .. n + 1 |-> p[i]]
    BY Zenon
  <2> HIDE DEF s, p, jobs, n
  <2>6. /\ s \in [0 .. n + 1 -> 0 .. n] /\ s[0] = 0 /\ s[n + 1] = n
        /\ p \in [0 .. n + 1 -> 0 .. n] /\ p[0] = 0 /\ p[n + 1] = n
    <3>1. \A i \in 0 .. n + 1 : s[i] \in 0 .. n
      <4>1. \A i \in 0 .. n + 1 : i \in 0 .. n \/ i = n + 1
        BY <1>1
      <4>2. n \in 0 .. n
        BY <1>1
      <4>3. QED
        BY <4>1, <4>2, <2>5
    <3>2. \A i \in 0 .. n + 1 : p[i] \in 0 .. n
      <4>1. \A i \in 0 .. n + 1 : i = 0 \/ (i \in 1 .. n + 1 /\ i - 1 \in 0 .. n)
        BY <1>1
      <4>2. 0 \in 0 .. n
        BY <1>1
      <4>3. QED
        BY <4>1, <4>2, <2>5
    <3>3. s[0] = 0
      <4>1. 0 \in 0 .. n
        BY <1>1
      <4>2. QED
        BY <4>1, <2>5
    <3>4. QED
      BY <2>5, <2>a, <3>1, <3>2, <3>3
  <2>7. ASSUME NEW j \in 0 .. n
        PROVE  /\ \/ /\ s[j] < n /\ s[j + 1] = s[j] + 1
                     /\ jobs[j + 1].score = <<visits[s[j] + 1]>>
                  \/ s[j + 1] = s[j] /\ jobs[j + 1].score = Nothing
               /\ \/ /\ p[j] < n /\ p[j + 1] = p[j] + 1
                     /\ jobs[j + 1].pv = <<visits[p[j] + 1]>>
                  \/ p[j + 1] = p[j] /\ jobs[j + 1].pv = Nothing
               /\ jobs[j + 1].score # Nothing \/ jobs[j + 1].pv # Nothing
    <3>1. /\ j + 1 \in 1 .. n + 1 /\ j \in Nat /\ n \in Nat /\ j <= n
          /\ (j < n => j + 1 \in 0 .. n /\ j + 1 \in 1 .. n /\ j + 1 <= n)
          /\ (j = n => ~(j + 1 <= n))
          /\ (j > 0 => j \in 1 .. n + 1 /\ j + 1 > 1 /\ j - 1 < n /\ j - 1 + 1 = j)
          /\ (j = 0 => ~(j + 1 > 1))
          /\ j + 1 - 1 = j
      BY <1>1
    <3>2. s[j] = j /\ p[j + 1] = j
      <4>1. s[j] = j
        BY <2>5
      <4>2. p[j + 1] = j + 1 - 1
        BY <2>5, <3>1
      <4>3. QED
        BY <3>1, <4>1, <4>2
    <3>3. /\ j < n => s[j + 1] = j + 1 /\ jobs[j + 1].score = <<visits[j + 1]>>
          /\ j = n => s[j + 1] = j /\ jobs[j + 1].score = Nothing
      BY <2>3, <2>5, <3>1
    <3>4. /\ j > 0 => p[j] = j - 1 /\ jobs[j + 1].pv = <<visits[j]>>
          /\ j = 0 => p[j] = 0 /\ jobs[j + 1].pv = Nothing
      <4>1. /\ j > 0 => p[j] = j - 1
            /\ j = 0 => p[j] = 0
        BY <2>5, <3>1
      <4>2. /\ j > 0 => jobs[j + 1].pv = <<visits[j]>>
            /\ j = 0 => jobs[j + 1].pv = Nothing
        <5>1. /\ j > 0 => jobs[j + 1].pv = <<visits[j + 1 - 1]>>
              /\ j = 0 => jobs[j + 1].pv = Nothing
          BY <2>3, <3>1
        <5>2. QED
          BY <5>1, <3>1
      <4>3. QED
        BY <4>1, <4>2
    <3>5. \/ /\ s[j] < n /\ s[j + 1] = s[j] + 1
             /\ jobs[j + 1].score = <<visits[s[j] + 1]>>
          \/ s[j + 1] = s[j] /\ jobs[j + 1].score = Nothing
      BY <3>1, <3>2, <3>3
    <3>6. \/ /\ p[j] < n /\ p[j + 1] = p[j] + 1
             /\ jobs[j + 1].pv = <<visits[p[j] + 1]>>
          \/ p[j + 1] = p[j] /\ jobs[j + 1].pv = Nothing
      BY <3>1, <3>2, <3>4
    <3>7. jobs[j + 1].score # Nothing \/ jobs[j + 1].pv # Nothing
      <4>1. j < n => <<visits[j + 1]>> # Nothing
        BY <3>1, <1>1, <1>2
      <4>2. j = n => j > 0 /\ j \in 1 .. n
        BY <3>1, <1>5
      <4>3. j = n => <<visits[j]>> # Nothing
        BY <4>2, <1>1, <1>2
      <4>4. CASE j < n
        BY <4>4, <3>3, <4>1
      <4>5. CASE j = n
        BY <4>5, <3>4, <4>2, <4>3
      <4>6. QED
        BY <3>1, <4>4, <4>5
    <3>8. QED
      BY <3>5, <3>6, <3>7
  <2>8. Plays(jobs, visits, s, p)
    <3>1. n + 1 - 1 = n
      BY <1>1
    <3>2. QED
      BY <2>4, <2>6, <2>7, <3>1 DEF Plays, PlaysJob, Counts, n
  <2>9. QED
    BY <2>8 DEF jobs
<1>6. QED
  BY <1>1, <1>3, <1>4, <1>5

LEMMA PlaysJoined ==
    ASSUME NEW w1, NEW v1, NEW s1, NEW p1, Plays(w1, v1, s1, p1),
           NEW w2, NEW v2, NEW s2, NEW p2, Plays(w2, v2, s2, p2)
    PROVE  \E s, p : Plays(w1 \o w2, v1 \o v2, s, p)
<1> DEFINE m1 == Len(w1)
           m2 == Len(w2)
           n1 == Len(v1)
           n2 == Len(v2)
           w == w1 \o w2
           v == v1 \o v2
           s == Behind(s1, m1, n1, s2, m2)
           p == Behind(p1, m1, n1, p2, m2)
<1>1. /\ m1 \in Nat /\ m2 \in Nat /\ n1 \in Nat /\ n2 \in Nat
      /\ w1 \in Seq(Jobs) /\ w2 \in Seq(Jobs) /\ v1 \in Seq(Visits) /\ v2 \in Seq(Visits)
  BY LenProperties DEF Plays
<1>2. /\ Counts(s1, m1, n1) /\ Counts(s2, m2, n2)
      /\ Counts(p1, m1, n1) /\ Counts(p2, m2, n2)
  BY DEF Plays
<1>3. /\ w \in Seq(Jobs) /\ Len(w) = m1 + m2
      /\ \A i \in 1 .. m1 + m2 : w[i] = IF i <= m1 THEN w1[i] ELSE w2[i - m1]
  BY <1>1, ConcatProperties
<1>4. /\ v \in Seq(Visits) /\ Len(v) = n1 + n2
      /\ \A i \in 1 .. n1 + n2 : v[i] = IF i <= n1 THEN v1[i] ELSE v2[i - n1]
  BY <1>1, ConcatProperties
<1>5. ASSUME NEW j \in 0 .. m1 - 1
      PROVE  /\ \/ /\ s1[j] < n1 /\ s1[j + 1] = s1[j] + 1
                   /\ w1[j + 1].score = <<v1[s1[j] + 1]>>
                \/ s1[j + 1] = s1[j] /\ w1[j + 1].score = Nothing
             /\ \/ /\ p1[j] < n1 /\ p1[j + 1] = p1[j] + 1
                   /\ w1[j + 1].pv = <<v1[p1[j] + 1]>>
                \/ p1[j + 1] = p1[j] /\ w1[j + 1].pv = Nothing
             /\ w1[j + 1].score # Nothing \/ w1[j + 1].pv # Nothing
  BY DEF Plays, PlaysJob
<1>6. ASSUME NEW j \in 0 .. m2 - 1
      PROVE  /\ \/ /\ s2[j] < n2 /\ s2[j + 1] = s2[j] + 1
                   /\ w2[j + 1].score = <<v2[s2[j] + 1]>>
                \/ s2[j + 1] = s2[j] /\ w2[j + 1].score = Nothing
             /\ \/ /\ p2[j] < n2 /\ p2[j + 1] = p2[j] + 1
                   /\ w2[j + 1].pv = <<v2[p2[j] + 1]>>
                \/ p2[j + 1] = p2[j] /\ w2[j + 1].pv = Nothing
             /\ w2[j + 1].score # Nothing \/ w2[j + 1].pv # Nothing
  BY DEF Plays, PlaysJob
<1> HIDE DEF m1, m2, n1, n2, w, v, s, p
<1>7. GoesOn(s, s1, m1, n1, s2, m2, n2)
  BY <1>1, <1>2, CountsBehind, Zenon DEF s
<1>8. GoesOn(p, p1, m1, n1, p2, m2, n2)
  BY <1>1, <1>2, CountsBehind, Zenon DEF p
<1>9. /\ \A i \in 1 .. n1 : v[i] = v1[i]
      /\ \A i \in 1 .. n2 : v[n1 + i] = v2[i]
  BY <1>1, <1>4
<1>10. /\ \A i \in 1 .. m1 : w[i] = w1[i]
       /\ \A i \in 1 .. m2 : w[m1 + i] = w2[i]
  BY <1>1, <1>3
<1>11. ASSUME NEW j \in 0 .. m1 + m2 - 1
       PROVE  /\ \/ /\ s[j] < n1 + n2 /\ s[j + 1] = s[j] + 1
                    /\ w[j + 1].score = <<v[s[j] + 1]>>
                 \/ s[j + 1] = s[j] /\ w[j + 1].score = Nothing
              /\ \/ /\ p[j] < n1 + n2 /\ p[j + 1] = p[j] + 1
                    /\ w[j + 1].pv = <<v[p[j] + 1]>>
                 \/ p[j + 1] = p[j] /\ w[j + 1].pv = Nothing
              /\ w[j + 1].score # Nothing \/ w[j + 1].pv # Nothing
  <2>1. CASE j < m1
    <3>1. j \in 0 .. m1 - 1 /\ j \in 0 .. m1 /\ j + 1 \in 0 .. m1 /\ j + 1 \in 1 .. m1
      BY <2>1, <1>1
    <3>2. /\ s[j] = s1[j] /\ s[j + 1] = s1[j + 1] /\ p[j] = p1[j] /\ p[j + 1] = p1[j + 1]
          /\ w[j + 1] = w1[j + 1]
      BY <3>1, <1>7, <1>8, <1>10 DEF GoesOn
    <3>3. s1[j] \in 0 .. n1 /\ p1[j] \in 0 .. n1
      BY <3>1, <1>2 DEF Counts
    <3>4. \A x \in 0 .. n1 : x < n1 => x < n1 + n2 /\ v[x + 1] = v1[x + 1]
      BY <1>1, <1>9
    <3>5. \/ /\ s[j] < n1 + n2 /\ s[j + 1] = s[j] + 1
             /\ w[j + 1].score = <<v[s[j] + 1]>>
          \/ s[j + 1] = s[j] /\ w[j + 1].score = Nothing
      BY <1>5, <3>1, <3>2, <3>3, <3>4
    <3>6. \/ /\ p[j] < n1 + n2 /\ p[j + 1] = p[j] + 1
             /\ w[j + 1].pv = <<v[p[j] + 1]>>
          \/ p[j + 1] = p[j] /\ w[j + 1].pv = Nothing
      BY <1>5, <3>1, <3>2, <3>3, <3>4
    <3>7. QED
      BY <1>5, <3>1, <3>2, <3>5, <3>6
  <2>2. CASE j >= m1
    <3>1. PICK h \in 0 .. m2 - 1 : j = m1 + h
      BY <2>2, <1>1, j - m1 \in 0 .. m2 - 1, j = m1 + (j - m1)
    <3>2. /\ h \in 0 .. m2 /\ h + 1 \in 0 .. m2 /\ h + 1 \in 1 .. m2
          /\ m1 + (h + 1) = j + 1
      BY <3>1, <1>1
    <3>3. /\ s[j] = n1 + s2[h] /\ s[j + 1] = n1 + s2[h + 1]
          /\ p[j] = n1 + p2[h] /\ p[j + 1] = n1 + p2[h + 1]
          /\ w[j + 1] = w2[h + 1]
      BY <3>1, <3>2, <1>7, <1>8, <1>10 DEF GoesOn
    <3>4. PICK x \in 0 .. n2 : x = s2[h]
      BY <3>2, <1>2 DEF Counts
    <3>5. PICK y \in 0 .. n2 : y = p2[h]
      BY <3>2, <1>2 DEF Counts
    <3>6. \A z \in 0 .. n2 : /\ z < n2 => /\ n1 + z < n1 + n2 /\ n1 + (z + 1) = n1 + z + 1
                                          /\ v[n1 + z + 1] = v2[z + 1]
      <4> SUFFICES ASSUME NEW z \in 0 .. n2, z < n2
                   PROVE  /\ n1 + z < n1 + n2 /\ n1 + (z + 1) = n1 + z + 1
                          /\ v[n1 + z + 1] = v2[z + 1]
        OBVIOUS
      <4>1. n1 + z < n1 + n2 /\ n1 + (z + 1) = n1 + z + 1 /\ z + 1 \in 1 .. n2
        BY <1>1
      <4>2. v[n1 + (z + 1)] = v2[z + 1]
        BY <4>1, <1>9
      <4>3. QED
        BY <4>1, <4>2
    <3>7. \/ /\ s[j] < n1 + n2 /\ s[j + 1] = s[j] + 1
             /\ w[j + 1].score = <<v[s[j] + 1]>>
          \/ s[j + 1] = s[j] /\ w[j + 1].score = Nothing
      <4>1. \/ /\ x < n2 /\ s2[h + 1] = x + 1
               /\ w2[h + 1].score = <<v2[x + 1]>>
            \/ s2[h + 1] = x /\ w2[h + 1].score = Nothing
        BY <1>6, <3>4
      <4>2. QED
        BY <4>1, <3>3, <3>4, <3>6, <1>1
    <3>8. \/ /\ p[j] < n1 + n2 /\ p[j + 1] = p[j] + 1
             /\ w[j + 1].pv = <<v[p[j] + 1]>>
          \/ p[j + 1] = p[j] /\ w[j + 1].pv = Nothing
      <4>1. \/ /\ y < n2 /\ p2[h + 1] = y + 1
               /\ w2[h + 1].pv = <<v2[y + 1]>>
            \/ p2[h + 1] = y /\ w2[h + 1].pv = Nothing
        BY <1>6, <3>5
      <4>2. QED
        BY <4>1, <3>3, <3>5, <3>6, <1>1
    <3>9. QED
      BY <1>6, <3>3, <3>7, <3>8
  <2>3. QED
    BY <2>1, <2>2, <1>1
<1>12. Plays(w, v, s, p)
  <2>1. Len(w) = m1 + m2 /\ Len(v) = n1 + n2 /\ w \in Seq(Jobs) /\ v \in Seq(Visits)
    BY <1>3, <1>4
  <2>2. Counts(s, Len(w), Len(v)) /\ Counts(p, Len(w), Len(v))
    BY <1>7, <1>8, <2>1 DEF GoesOn
  <2>3. \A j \in 0 .. Len(w) - 1 : PlaysJob(w, v, s, p, j)
    <3> SUFFICES ASSUME NEW j \in 0 .. Len(w) - 1 PROVE PlaysJob(w, v, s, p, j)
      OBVIOUS
    <3>1. j \in 0 .. m1 + m2 - 1
      BY <1>1, <2>1
    <3>2. /\ \/ /\ s[j] < Len(v) /\ s[j + 1] = s[j] + 1
                /\ w[j + 1].score = <<v[s[j] + 1]>>
             \/ s[j + 1] = s[j] /\ w[j + 1].score = Nothing
          /\ \/ /\ p[j] < Len(v) /\ p[j + 1] = p[j] + 1
                /\ w[j + 1].pv = <<v[p[j] + 1]>>
             \/ p[j + 1] = p[j] /\ w[j + 1].pv = Nothing
          /\ w[j + 1].score # Nothing \/ w[j + 1].pv # Nothing
      BY <1>11, <2>1, <3>1
    <3>3. QED
      BY <3>2, Zenon DEF PlaysJob
  <2>4. QED
    BY <2>1, <2>2, <2>3 DEF Plays
<1>13. QED
  BY <1>12 DEF w, v

-----------------------------------------------------------------------------
(* The queries of the tile, and the keys of a block.                       *)
TileOK ==
    /\ IsProblem(c) /\ m \in Nat /\ m * c.tm < c.sq * c.pack
    /\ overlap \in BOOLEAN

OfTile(q) ==
    /\ q \in Nat /\ q < c.sq
    /\ RowStart(c, m) <= q /\ q < CeilDiv(c, (m + 1) * c.tm, c.pack)
OfBlock(k, b) == k \in Nat /\ b * c.tn <= k /\ k < (b + 1) * c.tn

LEMMA Sizes ==
    ASSUME TileOK
    PROVE  /\ c.sq \in Nat /\ c.sk \in Nat /\ c.sink \in Nat
           /\ c.left \in Nat /\ c.right \in Nat /\ c.near \in Nat
           /\ c.tm \in Nat \ {0} /\ c.tn \in Nat \ {0} /\ c.pack \in Nat \ {0}
           /\ c.kind \in {"full", "causal", "local"} /\ c.trunc \in BOOLEAN /\ m \in Nat
BY DEF TileOK, IsProblem

LEMMA RowTypes ==
    ASSUME TileOK
    PROVE  /\ RowStart(c, m) \in Int /\ RowStart(c, m) < c.sq
           /\ CeilDiv(c, (m + 1) * c.tm, c.pack) \in Int
           /\ RowEnd(c, m) = Least(CeilDiv(c, (m + 1) * c.tm, c.pack), c.sq)
           /\ RowEnd(c, m) \in Int
<1> DEFINE first == m * c.tm
           last  == (m + 1) * c.tm
<1>1. first \in Nat /\ last \in Nat /\ first < c.sq * c.pack /\ last = first + c.tm
  BY Sizes, Multiples DEF TileOK
<1>2. RowStart(c, m) = first \div c.pack /\ CeilDiv(c, (m + 1) * c.tm, c.pack) = CeilDiv(c, last, c.pack)
  BY DEF RowStart
<1> HIDE DEF first, last
<1>3. first \div c.pack \in Int /\ CeilDiv(c, last, c.pack) \in Int
  <2>1. first \div c.pack \in Int
    <3>1. first \in Int /\ c.pack \in Nat \ {0}
      BY <1>1, Sizes
    <3>2. QED
      BY <3>1, Division
  <2>2. CeilDiv(c, last, c.pack) \in Int
    BY <1>1, Sizes, CeilDivBound, 0 \in Nat
  <2>3. QED
    BY <2>1, <2>2
<1>4. first \div c.pack < c.sq
  <2>1. (c.sq - 1) + 1 = c.sq /\ c.sq - 1 \in Int
    BY Sizes
  <2>2. first \div c.pack <= c.sq - 1
    BY <1>1, <2>1, Sizes, DivBelow
  <2>3. QED
    BY <1>3, <2>1, <2>2, Sizes
<1>5. RowEnd(c, m) = Least(CeilDiv(c, (m + 1) * c.tm, c.pack), c.sq)
  BY DEF RowEnd
<1>6. QED
  BY <1>2, <1>3, <1>4, <1>5, Sizes DEF Least

LEMMA QueryOfRow ==
    ASSUME TileOK, NEW row \in Rows
    PROVE  OfTile(row \div c.pack)
<1> DEFINE first == m * c.tm
           last  == (m + 1) * c.tm
<1>1. /\ first \in Nat /\ last \in Nat
      /\ row \in Int /\ first <= row /\ row <= last - 1 /\ row < c.sq * c.pack
  BY Sizes, Multiples DEF Rows
<1>2. RowStart(c, m) = first \div c.pack
  BY DEF RowStart
<1>3. CeilDiv(c, (m + 1) * c.tm, c.pack) = CeilDiv(c, last, c.pack)
  OBVIOUS
<1> HIDE DEF first, last
<1>4. PICK q \in Nat : q = row \div c.pack /\ q * c.pack <= row /\ row < q * c.pack + c.pack
  BY <1>1, Sizes, Quotient, row \in Nat
<1>5. q < c.sq
  <2>1. row < ((c.sq - 1) + 1) * c.pack /\ c.sq - 1 \in Int
    BY <1>1, Sizes
  <2>2. row \div c.pack <= c.sq - 1
    BY <1>1, <2>1, Sizes, DivBelow
  <2>3. QED
    BY <1>4, <2>2, Sizes
<1>6. first \div c.pack <= q
  <2>1. (q + 1) * c.pack = q * c.pack + c.pack
    BY Sizes, Multiples
  <2>2. first < (q + 1) * c.pack
    BY <1>1, <1>4, <2>1, Sizes
  <2>3. first \in Int /\ q \in Int /\ c.pack \in Nat \ {0}
    BY <1>1, Sizes
  <2>4. QED
    BY <2>2, <2>3, DivBelow
<1>7. q < CeilDiv(c, last, c.pack)
  <2>1. q * c.pack < last
    BY <1>1, <1>4, Sizes
  <2>2. QED
    BY <1>1, <2>1, Sizes, CeilDivBound
<1>8. QED
  BY <1>2, <1>3, <1>4, <1>5, <1>6, <1>7 DEF OfTile

LEMMA BlockOfKey ==
    ASSUME TileOK, NEW k \in Nat
    PROVE  k \div c.tn \in Nat /\ OfBlock(k, k \div c.tn)
<1>1. PICK b \in Nat : b = k \div c.tn /\ b * c.tn <= k /\ k < b * c.tn + c.tn
  BY Sizes, Quotient
<1>2. QED
  BY <1>1, Sizes, Multiples DEF OfBlock

LEMMA KeyBounds ==
    ASSUME TileOK
    PROVE  /\ KeyStart(c, m) \in Int /\ KeyStart(c, m) = RowStart(c, m) + c.sk - c.sq
           /\ KeyEnd(c, m) \in Int
           /\ KeyEnd(c, m) = RowEnd(c, m) + c.sk - c.sq
           /\ KeyStart(c, m) < c.sk
           /\ \A q : OfTile(q) => /\ KeyStart(c, m) <= q + c.sk - c.sq
                                  /\ q + c.sk - c.sq < KeyEnd(c, m)
<1>1. /\ RowStart(c, m) \in Int /\ RowStart(c, m) < c.sq /\ RowEnd(c, m) \in Int
      /\ c.sk \in Int /\ c.sq \in Int
  BY RowTypes, Sizes
<1>2. /\ KeyStart(c, m) = RowStart(c, m) + c.sk - c.sq
      /\ KeyEnd(c, m) = RowEnd(c, m) + c.sk - c.sq
  BY DEF KeyStart, KeyEnd
<1>3. ASSUME NEW q, OfTile(q) PROVE q \in Int /\ RowStart(c, m) <= q /\ q < RowEnd(c, m)
  <2>1. /\ q \in Nat /\ q < c.sq /\ RowStart(c, m) <= q
        /\ q < CeilDiv(c, (m + 1) * c.tm, c.pack)
    BY <1>3 DEF OfTile
  <2>2. RowEnd(c, m) = CeilDiv(c, (m + 1) * c.tm, c.pack) \/ RowEnd(c, m) = c.sq
    BY RowTypes DEF Least
  <2>3. QED
    BY <2>1, <2>2
<1>4. KeyStart(c, m) \in Int /\ KeyEnd(c, m) \in Int /\ KeyStart(c, m) < c.sk
  BY <1>1, <1>2
<1>5. ASSUME NEW q, OfTile(q)
      PROVE  KeyStart(c, m) <= q + c.sk - c.sq /\ q + c.sk - c.sq < KeyEnd(c, m)
  BY <1>1, <1>2, <1>3, <1>5
<1>6. QED
  BY <1>2, <1>4, <1>5

-----------------------------------------------------------------------------
(* The masks.                                                              *)
Exact(v) == \A q, k : OfTile(q) /\ OfBlock(k, Most(v.block, 0)) =>
                        (Kept(c, v.seqlen, v.mask, q, k) <=> Attends(c, q, k))

FullMask == IF IsLocal(c) THEN "sink" ELSE IF c.kind = "full" THEN "none" ELSE c.kind

LEMMA MaskedExact ==
    ASSUME TileOK, NEW b \in Int
    PROVE  Exact(Visit(b, TRUE, FullMask))
<1>1. Visit(b, TRUE, FullMask).seqlen = TRUE /\ Visit(b, TRUE, FullMask).mask = FullMask
  BY DEF Visit
<1>2. ASSUME NEW q, NEW k, OfTile(q)
      PROVE  Kept(c, TRUE, FullMask, q, k) <=> Attends(c, q, k)
  <2>1. q < c.sq
    BY <1>2 DEF OfTile
  <2>2. CASE c.kind = "full"
    <3>1. FullMask = "none"
      BY <2>2 DEF FullMask, IsLocal
    <3>2. QED
      BY <2>1, <2>2, <3>1 DEF Kept, Attends, IsLocal
  <2>3. CASE c.kind = "causal"
    <3>1. FullMask = "causal"
      BY <2>3 DEF FullMask, IsLocal
    <3>2. QED
      BY <2>1, <2>3, <3>1 DEF Kept, Attends, IsLocal
  <2>4. CASE c.kind = "local"
    <3>1. FullMask = "sink"
      BY <2>4 DEF FullMask, IsLocal
    <3>2. QED
      BY <2>1, <2>4, <3>1 DEF Kept, Attends, IsLocal
  <2>5. QED
    BY <2>2, <2>3, <2>4, Sizes
<1>3. QED
  BY <1>1, <1>2 DEF Exact

LEMMA QuotBelow ==
    ASSUME c.trunc \in BOOLEAN, NEW a \in Int, NEW d \in Nat \ {0}, NEW b \in Nat,
           b < Quot(c, a, d)
    PROVE  (b + 1) * d <= a
<1>1. Quot(c, a, d) \in Int /\ (b + 1 <= Quot(c, a, d) <=> (b + 1) * d <= a)
  BY QuotBound
<1>2. b + 1 <= Quot(c, a, d)
  BY <1>1
<1>3. QED
  BY <1>1, <1>2

(* Below the diagonal no mask is needed ... *)
LEMMA BelowDiagonalExact ==
    ASSUME TileOK, ~IsLocal(c), NEW b \in Nat, b < Quot(c, KeyStart(c, m), c.tn)
    PROVE  Exact(Visit(b, FALSE, "none"))
<1>1. (b + 1) * c.tn <= KeyStart(c, m)
  <2>1. KeyStart(c, m) \in Int /\ c.tn \in Nat \ {0} /\ c.trunc \in BOOLEAN
    BY KeyBounds, Sizes
  <2>2. QED
    BY <2>1, QuotBelow
<1>2. Most(b, 0) = b /\ (b + 1) * c.tn \in Int
  BY Sizes DEF Most
<1>3. ASSUME NEW q, NEW k, OfTile(q), OfBlock(k, b)
      PROVE  Attends(c, q, k)
  <2>1. q \in Nat /\ q < c.sq /\ k \in Nat /\ k < (b + 1) * c.tn
    BY <1>3 DEF OfTile, OfBlock
  <2>2. k < KeyStart(c, m)
    BY <1>1, <1>2, <2>1, KeyBounds
  <2>3. KeyStart(c, m) <= q + c.sk - c.sq
    BY <1>3, KeyBounds
  <2>4. QED
    BY <2>1, <2>2, <2>3, KeyBounds, Sizes DEF Attends, Dist, IsLocal
<1>4. QED
  BY <1>2, <1>3 DEF Exact, Visit, Kept

(* ... in the window the blocks need the window's mask only ... *)
InRange(lo, b, hi) == lo <= b /\ b < hi

LEMMA WindowExact ==
    ASSUME TileOK, IsLocal(c), NEW b \in Nat,
           InRange(NBlocks(c, m).wmin, b, NBlocks(c, m).wmax)
    PROVE  Exact(Visit(b, FALSE, "local"))
<1>1. b >= SinkBlocks(c) /\ (b + 1) * c.tn <= KeyStart(c, m) - c.near
  BY LocalBlocks, Sizes DEF TileOK, InRange
<1>2. Most(b, 0) = b /\ (b + 1) * c.tn \in Int /\ b * c.tn \in Int
  BY Sizes DEF Most
<1>3. c.sink <= b * c.tn
  <2>1. SinkBlocks(c) \in Nat /\ (b < SinkBlocks(c) <=> b * c.tn < c.sink)
    BY KeyTypes, Sizes DEF TileOK
  <2>2. QED
    BY <1>1, <1>2, <2>1, Sizes
<1>4. ASSUME NEW q, NEW k, OfTile(q), OfBlock(k, b)
      PROVE  q < c.sq /\ k < c.sk /\ ~InSink(c, q, k)
  <2>1. q \in Nat /\ q < c.sq /\ k \in Nat /\ b * c.tn <= k /\ k < (b + 1) * c.tn
    BY <1>4 DEF OfTile, OfBlock
  <2>2. k < c.sk
    BY <1>1, <1>2, <2>1, KeyBounds, Sizes
  <2>3. ~(k < c.sink)
    BY <1>2, <1>3, <2>1, Sizes
  <2>4. QED
    BY <2>1, <2>2, <2>3 DEF InSink
<1>5. QED
  BY <1>2, <1>4, Zenon DEF Exact, Visit, Kept, Attends, IsLocal

(* ... and in its middle none. *)
LEMMA MiddleExact ==
    ASSUME TileOK, IsLocal(c), NEW b \in Nat,
           InRange(NBlocks(c, m).wmin, b, NBlocks(c, m).wmax),
           NEW min \in Int, FullFrom(min) <= b,
           b < Quot(c, KeyStart(c, m) - (c.near + c.right), c.tn)
    PROVE  Exact(Visit(b, FALSE, "none"))
<1> DEFINE rows == CeilDiv(c, (m + 1) * c.tm, c.pack)
           key  == rows + c.sk - c.sq - c.near - c.right - c.left
<1>1. rows \in Int /\ key \in Int
  BY RowTypes, Sizes
<1>2. FullFrom(min) = Most(min, CeilDiv(c, key, c.tn))
  BY DEF FullFrom
<1>3. \A q : OfTile(q) => q \in Nat /\ q < rows /\ RowStart(c, m) <= q
  BY DEF OfTile
<1> HIDE DEF rows
<1>4. CeilDiv(c, key, c.tn) \in Int /\ (b < CeilDiv(c, key, c.tn) <=> b * c.tn < key)
  <2> HIDE DEF key
  <2>1. QED
    BY <1>1, Sizes, CeilDivBound
<1>5. (b + 1) * c.tn \in Int /\ b * c.tn \in Int /\ Most(b, 0) = b
  BY Sizes DEF Most
<1>6. key <= b * c.tn
  BY <1>1, <1>2, <1>4, <1>5 DEF Most
<1>7. (b + 1) * c.tn <= KeyStart(c, m) - (c.near + c.right)
  <2> DEFINE last == KeyStart(c, m) - (c.near + c.right)
  <2>1. last \in Int /\ c.tn \in Nat \ {0} /\ c.trunc \in BOOLEAN
    BY KeyBounds, Sizes
  <2>2. b < Quot(c, last, c.tn)
    OBVIOUS
  <2> HIDE DEF last
  <2>3. (b + 1) * c.tn <= last
    BY <2>1, <2>2, QuotBelow
  <2>4. QED
    BY <2>3 DEF last
<1>8. ASSUME NEW q, NEW k, OfTile(q), OfBlock(k, b)
      PROVE  InWindow(c, q, k) /\ q < c.sq /\ k < c.sk
  <2>1. q \in Nat /\ q < c.sq /\ q < rows /\ RowStart(c, m) <= q
    BY <1>3, <1>8 DEF OfTile
  <2>2. k \in Nat /\ b * c.tn <= k /\ k < (b + 1) * c.tn
    BY <1>8 DEF OfBlock
  <2>3. KeyStart(c, m) \in Int /\ KeyStart(c, m) <= q + c.sk - c.sq /\ KeyStart(c, m) < c.sk
    BY <1>8, KeyBounds
  <2>4. key <= k /\ k < KeyStart(c, m) - (c.near + c.right)
    BY <1>1, <1>5, <1>6, <1>7, <2>2, <2>3, Sizes
  <2>5. /\ q + c.sk - c.sq - k >= c.near + c.right
        /\ q + c.sk - c.sq - k <= c.near + c.right + c.left - 1
        /\ k < c.sk
    BY <1>1, <2>1, <2>2, <2>3, <2>4, Sizes
  <2>6. QED
    BY <2>1, <2>2, <2>5, Sizes DEF InWindow, Dist
<1>9. QED
  BY <1>5, <1>8 DEF Exact, Visit, Kept, Attends, IsLocal

-----------------------------------------------------------------------------
(* The blocks of a tile: the first one, and those left of the three ranges.*)
FirstOf == First(NBlocks(c, m))
RestOf  == Rest(NBlocks(c, m))
Left(b) ==
    \/ InRange(RestOf.min, b, RestOf.max - 1)
    \/ InRange(RestOf.wmin, b, RestOf.wmax)
    \/ InRange(0, b, RestOf.smax)

LEMMA RestFields ==
    ASSUME TileOK
    PROVE  LET r == NBlocks(c, m)
           IN  /\ RestOf.min = r.min /\ RestOf.max = r.max /\ RestOf.wmin = r.wmin
               /\ RestOf.wmax = IF FromWindow(r) THEN r.wmax - 1 ELSE r.wmax
               /\ RestOf.smax = IF FromSink(r) THEN r.smax - 1 ELSE r.smax
               /\ FromWindow(r) => FirstOf = r.wmax - 1
               /\ FromSink(r) => FirstOf = r.smax - 1
               /\ ~FromWindow(r) /\ ~FromSink(r) => FirstOf = r.max - 1
<1> DEFINE r == NBlocks(c, m)
<1>1. \E min, max, wmin, wmax, smax :
        r = [min |-> min, max |-> max, wmin |-> wmin, wmax |-> wmax, smax |-> smax]
  <2>1. CASE c.kind = "full"
    BY <2>1, ZenonT(40) DEF NBlocks, RawN, ClampN, IsLocal
  <2>2. CASE c.kind = "causal"
    BY <2>2, ZenonT(40) DEF NBlocks, RawN, ClampN, IsLocal
  <2>3. CASE c.kind = "local"
    <3> DEFINE start  == AfterSink(c, KeyStart(c, m) - c.near)
               wstart == AfterSink(c, KeyStart(c, m) - c.near - c.right - c.left)
               end  == Least(NumN(c), CeilDiv(c, KeyEnd(c, m), c.tn))
               wend == Least(NumN(c), BlocksUpTo(c, KeyEnd(c, m) - c.near - c.right))
               send == Least(SinkBlocks(c), BlocksUpTo(c, KeyEnd(c, m)))
    <3>1. r = [min |-> Least(start, end), max |-> end, wmin |-> wstart,
               wmax |-> Most(Least(wend, Least(start, end)), wstart),
               smax |-> Most(send, 0)]
      BY <2>3, ZenonT(60) DEF NBlocks, RawN, ClampN, IsLocal
    <3> HIDE DEF r, start, wstart, end, wend, send
    <3>2. QED
      BY <3>1, Zenon
  <2>4. QED
    BY <2>1, <2>2, <2>3, Sizes
<1> HIDE DEF r
<1>2. PICK min, max, wmin, wmax, smax :
        r = [min |-> min, max |-> max, wmin |-> wmin, wmax |-> wmax, smax |-> smax]
  BY <1>1
<1>3. /\ Rest(r).min = r.min /\ Rest(r).max = r.max /\ Rest(r).wmin = r.wmin
      /\ Rest(r).wmax = IF FromWindow(r) THEN r.wmax - 1 ELSE r.wmax
      /\ Rest(r).smax = IF FromSink(r) THEN r.smax - 1 ELSE r.smax
  BY <1>2 DEF Rest
<1>4. r.wmin \in Int /\ r.wmax \in Int
  BY FullAndCausalBlocks, LocalBlocks, 0 \in Nat DEF TileOK, r
<1>5. r.wmin < r.wmax => ~(r.wmin >= r.wmax)
  BY <1>4
<1>6. ~FromWindow(r) \/ ~FromSink(r)
  BY <1>5, Zenon DEF FromWindow, FromSink
<1>7. /\ FromWindow(r) => First(r) = r.wmax - 1
      /\ FromSink(r) => First(r) = r.smax - 1
      /\ ~FromWindow(r) /\ ~FromSink(r) => First(r) = r.max - 1
  BY <1>6 DEF First
<1>8. QED
  BY <1>3, <1>7, Zenon DEF RestOf, FirstOf, r

LEMMA FullAndCausalRest ==
    ASSUME TileOK, ~IsLocal(c)
    PROVE  /\ {RestOf.min, RestOf.max, FirstOf} \subseteq Int
           /\ RestOf.wmin = 0 /\ RestOf.wmax = 0 /\ RestOf.smax = 0
           /\ RestOf.min <= RestOf.max
           /\ RestOf.min < RestOf.max => RestOf.min = 0
           /\ FirstOf = RestOf.max - 1
           /\ \A q, k : OfTile(q) /\ k \in Nat /\ Attends(c, q, k)
                          => InRange(RestOf.min, k \div c.tn, RestOf.max)
<1> DEFINE r == NBlocks(c, m)
<1>1. ~FromWindow(r) /\ ~FromSink(r)
  BY DEF FromWindow, FromSink, MainEmpty
<1>2. /\ r.min \in Int /\ r.max \in Int /\ r.min <= r.max
      /\ r.wmin = 0 /\ r.wmax = 0 /\ r.smax = 0
      /\ \A n \in Nat : r.min <= n /\ n < r.max <=>
            n < NumN(c) /\ (c.kind = "causal" => n * c.tn < KeyEnd(c, m))
  BY FullAndCausalBlocks, 0 \in Nat DEF TileOK
<1>3. r.min < r.max => r.min = 0
  <2>1. c.kind \in {"full", "causal"}
    BY Sizes DEF IsLocal
  <2>2. RawN(c, m).min = 0
    BY <2>1 DEF RawN
  <2>3. r.min = Least(0, r.max)
    <3>1. CASE c.kind = "full"
      BY <3>1 DEF NBlocks, RawN, ClampN, IsLocal
    <3>2. CASE c.kind = "causal"
      BY <3>2 DEF NBlocks, RawN, ClampN, IsLocal
    <3>3. QED
      BY <2>1, <3>1, <3>2
  <2>4. QED
    BY <1>2, <2>3 DEF Least
<1>4. ASSUME NEW q, NEW k, OfTile(q), k \in Nat, Attends(c, q, k)
      PROVE  InRange(r.min, k \div c.tn, r.max)
  <2> DEFINE n == k \div c.tn
  <2>1. n \in Nat /\ n * c.tn <= k
    BY <1>4, BlockOfKey DEF OfBlock
  <2> HIDE DEF n
  <2>2. q < c.sq /\ k < c.sk /\ (c.kind = "causal" => k <= q + c.sk - c.sq) /\ q \in Nat
    BY <1>4, Sizes DEF Attends, Dist, OfTile
  <2>3. n * c.tn < c.sk /\ (c.kind = "causal" => n * c.tn < KeyEnd(c, m))
    <3>1. n * c.tn \in Int
      BY <2>1, Sizes
    <3>2. KeyEnd(c, m) \in Int /\ q + c.sk - c.sq < KeyEnd(c, m)
      BY <1>4, KeyBounds
    <3>3. QED
      BY <1>4, <2>1, <2>2, <3>1, <3>2, Sizes
  <2>4. n < NumN(c)
    BY <2>1, <2>3, KeyTypes DEF TileOK
  <2>5. QED
    BY <1>2, <2>1, <2>3, <2>4 DEF InRange, n
<1> HIDE DEF r
<1>5. /\ RestOf.min = r.min /\ RestOf.max = r.max /\ RestOf.wmin = r.wmin
      /\ RestOf.wmax = r.wmax /\ RestOf.smax = r.smax /\ FirstOf = r.max - 1
  BY <1>1, RestFields DEF r
<1>6. QED
  BY <1>2, <1>3, <1>4, <1>5

LEMMA LocalRest ==
    ASSUME TileOK, IsLocal(c)
    PROVE  LET r == NBlocks(c, m)
               start == KeyStart(c, m) - c.near
           IN  /\ {r.min, r.max, r.wmin, r.wmax, r.smax} \subseteq Int
               /\ r.min <= r.max
               /\ r.min < r.max => r.min >= 0
               /\ 0 <= r.wmin /\ r.wmin <= r.wmax /\ 0 <= r.smax
               /\ \A n \in Nat :
                    /\ InRange(r.min, n, r.max) =>
                         n >= SinkBlocks(c) /\ start < (n + 1) * c.tn
                    /\ InRange(r.wmin, n, r.wmax) =>
                         n >= SinkBlocks(c) /\ (n + 1) * c.tn <= start
                    /\ InRange(0, n, r.smax) => n < SinkBlocks(c)
               /\ \A q, k : OfTile(q) /\ k \in Nat /\ Attends(c, q, k) =>
                    \/ InRange(r.min, k \div c.tn, r.max)
                    \/ InRange(r.wmin, k \div c.tn, r.wmax)
                    \/ InRange(0, k \div c.tn, r.smax)
<1> DEFINE r == NBlocks(c, m)
           start == KeyStart(c, m) - c.near
<1>1. \A n \in Nat :
        /\ {r.min, r.max, r.wmin, r.wmax, r.smax} \subseteq Int
        /\ r.min <= r.max /\ 0 <= r.wmin /\ r.wmin <= r.wmax /\ 0 <= r.smax
        /\ r.min <= n /\ n < r.max <=>
             /\ n < NumN(c) /\ n >= SinkBlocks(c) /\ n * c.tn < KeyEnd(c, m)
             /\ KeyStart(c, m) - c.near < (n + 1) * c.tn
        /\ r.wmin <= n /\ n < r.wmax <=>
             /\ n < NumN(c) /\ n >= SinkBlocks(c)
             /\ n * c.tn < KeyEnd(c, m) - c.near - c.right
             /\ (n + 1) * c.tn <= KeyStart(c, m) - c.near
             /\ KeyStart(c, m) - c.near - c.right - c.left < (n + 1) * c.tn
        /\ n < r.smax <=> n < SinkBlocks(c) /\ n * c.tn < KeyEnd(c, m)
  BY LocalBlocks, Zenon DEF TileOK
<1>2. /\ {r.min, r.max, r.wmin, r.wmax, r.smax} \subseteq Int
      /\ r.min <= r.max /\ 0 <= r.wmin /\ r.wmin <= r.wmax /\ 0 <= r.smax
  BY <1>1, 0 \in Nat
<1>3. r.min < r.max => r.min >= 0
  <2>1. AfterSink(c, start) \in Int /\ AfterSink(c, start) >= SinkBlocks(c)
    BY AfterSinkBound, KeyBounds, Sizes, start \in Int, 0 \in Nat DEF TileOK
  <2>2. SinkBlocks(c) \in Nat
    BY KeyTypes, Sizes DEF TileOK
  <2>3. RawN(c, m).min = AfterSink(c, start)
    BY DEF RawN, IsLocal
  <2>4. r.min = Least(RawN(c, m).min, RawN(c, m).max) /\ r.max = RawN(c, m).max
    BY DEF NBlocks, ClampN, RawN, IsLocal
  <2>5. QED
    BY <1>2, <2>1, <2>2, <2>3, <2>4 DEF Least
<1>4. ASSUME NEW n \in Nat
      PROVE  /\ InRange(r.min, n, r.max) =>
                  n >= SinkBlocks(c) /\ start < (n + 1) * c.tn
             /\ InRange(r.wmin, n, r.wmax) =>
                  n >= SinkBlocks(c) /\ (n + 1) * c.tn <= start
             /\ InRange(0, n, r.smax) => n < SinkBlocks(c)
  BY <1>1, Zenon DEF InRange
<1>5. ASSUME NEW q, NEW k, OfTile(q), k \in Nat, Attends(c, q, k)
      PROVE  \/ InRange(r.min, k \div c.tn, r.max)
             \/ InRange(r.wmin, k \div c.tn, r.wmax)
             \/ InRange(0, k \div c.tn, r.smax)
  <2> DEFINE n == k \div c.tn
  <2>1. n \in Nat /\ n * c.tn <= k /\ k < (n + 1) * c.tn
    BY <1>5, BlockOfKey DEF OfBlock
  <2> HIDE DEF n, r
  <2>2. /\ q \in Nat /\ q < c.sq /\ k < c.sk
        /\ \/ q + c.sk - c.sq - k \in 0 .. c.near - 1
           \/ q + c.sk - c.sq - k \in c.near + c.right .. c.near + c.right + c.left - 1
           \/ k < c.sink /\ q + c.sk - c.sq - k >= 0
    BY <1>5 DEF Attends, Dist, OfTile, InNear, InWindow, InSink
  <2>3. /\ KeyStart(c, m) \in Int /\ KeyEnd(c, m) \in Int
        /\ KeyStart(c, m) <= q + c.sk - c.sq /\ q + c.sk - c.sq < KeyEnd(c, m)
    BY <1>5, KeyBounds
  <2>4. n * c.tn \in Int /\ (n + 1) * c.tn \in Int
    BY <2>1, Sizes
  <2>5. SinkBlocks(c) \in Nat /\ (n < SinkBlocks(c) <=> n * c.tn < c.sink)
        /\ NumN(c) \in Nat /\ (n < NumN(c) <=> n * c.tn < c.sk)
    BY <2>1, KeyTypes, Sizes DEF TileOK
  <2>6. n < NumN(c) /\ n * c.tn < KeyEnd(c, m)
    BY <1>5, <2>1, <2>2, <2>3, <2>4, <2>5, Sizes
  <2>7. CASE n < SinkBlocks(c)
    BY <1>1, <2>1, <2>6, <2>7 DEF InRange, n
  <2>8. CASE n >= SinkBlocks(c) /\ start < (n + 1) * c.tn
    BY <1>1, <2>1, <2>6, <2>8 DEF InRange, n
  <2>9. CASE n >= SinkBlocks(c) /\ ~(start < (n + 1) * c.tn)
    <3>1. ~(k < c.sink)
      BY <1>5, <2>1, <2>4, <2>5, <2>9, Sizes
    <3>2. (n + 1) * c.tn <= start /\ start \in Int
      BY <2>3, <2>4, <2>9, Sizes
    <3>3. ~(q + c.sk - c.sq - k \in 0 .. c.near - 1)
      BY <1>5, <2>1, <2>2, <2>3, <2>4, <3>2, Sizes
    <3>4. q + c.sk - c.sq - k \in c.near + c.right .. c.near + c.right + c.left - 1
      BY <2>2, <3>1, <3>3
    <3>5. /\ n * c.tn < KeyEnd(c, m) - c.near - c.right
          /\ KeyStart(c, m) - c.near - c.right - c.left < (n + 1) * c.tn
      BY <1>5, <2>1, <2>2, <2>3, <2>4, <3>4, Sizes
    <3>6. r.wmin <= n /\ n < r.wmax
      BY <1>1, <2>1, <2>6, <2>9, <3>2, <3>5
    <3>7. QED
      BY <3>6 DEF InRange, n
  <2>10. QED
    BY <2>1, <2>5, <2>7, <2>8, <2>9
<1>6. QED
  BY <1>2, <1>3, <1>4, <1>5

(* What is left has no block twice and not the first one, no block below   *)
(* block 0, and with the first block everything the tile attends to.       *)
LEMMA TileBlocks ==
    ASSUME TileOK
    PROVE  /\ {RestOf.min, RestOf.max, RestOf.wmin, RestOf.wmax, RestOf.smax, FirstOf}
                \subseteq Int
           /\ RestOf.min <= RestOf.max
           /\ \A b \in Int : Left(b) => b \in Nat /\ b # Most(FirstOf, 0)
           /\ \A b \in Nat :
                /\ ~(InRange(RestOf.min, b, RestOf.max - 1)
                       /\ InRange(RestOf.wmin, b, RestOf.wmax))
                /\ ~(InRange(RestOf.min, b, RestOf.max - 1) /\ InRange(0, b, RestOf.smax))
                /\ ~(InRange(RestOf.wmin, b, RestOf.wmax) /\ InRange(0, b, RestOf.smax))
           /\ \A b \in Int : InRange(RestOf.wmin, b, RestOf.wmax)
                => IsLocal(c) /\ InRange(NBlocks(c, m).wmin, b, NBlocks(c, m).wmax)
           /\ \A q, k : OfTile(q) /\ k \in Nat /\ Attends(c, q, k)
                => k \div c.tn = Most(FirstOf, 0) \/ Left(k \div c.tn)
<1>1. CASE ~IsLocal(c)
  <2>1. /\ {RestOf.min, RestOf.max, FirstOf} \subseteq Int
        /\ RestOf.wmin = 0 /\ RestOf.wmax = 0 /\ RestOf.smax = 0
        /\ RestOf.min <= RestOf.max
        /\ RestOf.min < RestOf.max => RestOf.min = 0
        /\ FirstOf = RestOf.max - 1
        /\ \A q, k : OfTile(q) /\ k \in Nat /\ Attends(c, q, k)
                       => InRange(RestOf.min, k \div c.tn, RestOf.max)
    BY <1>1, FullAndCausalRest
  <2>2. ASSUME NEW q, NEW k, OfTile(q) /\ k \in Nat /\ Attends(c, q, k)
        PROVE  k \div c.tn = Most(FirstOf, 0) \/ Left(k \div c.tn)
    <3>1. k \div c.tn \in Nat
      BY <2>2, BlockOfKey
    <3>2. InRange(RestOf.min, k \div c.tn, RestOf.max)
      BY <2>1, <2>2
    <3>3. QED
      BY <2>1, <3>1, <3>2 DEF InRange, Left, Most
  <2>3. \A b \in Int : Left(b) => b \in Nat /\ b # Most(FirstOf, 0)
    BY <2>1 DEF InRange, Left, Most
  <2>4. \A b \in Int : ~InRange(RestOf.wmin, b, RestOf.wmax) /\ ~InRange(0, b, RestOf.smax)
    BY <2>1 DEF InRange
  <2>5. QED
    BY <2>1, <2>2, <2>3, <2>4
<1>2. CASE IsLocal(c)
  <2> DEFINE r == NBlocks(c, m)
             start == KeyStart(c, m) - c.near
  <2>1. /\ {r.min, r.max, r.wmin, r.wmax, r.smax} \subseteq Int
        /\ r.min <= r.max
        /\ r.min < r.max => r.min >= 0
        /\ 0 <= r.wmin /\ r.wmin <= r.wmax /\ 0 <= r.smax
    BY <1>2, LocalRest
  <2>2. ASSUME NEW n \in Nat
        PROVE  /\ InRange(r.min, n, r.max) =>
                    n >= SinkBlocks(c) /\ start < (n + 1) * c.tn
               /\ InRange(r.wmin, n, r.wmax) =>
                    n >= SinkBlocks(c) /\ (n + 1) * c.tn <= start
               /\ InRange(0, n, r.smax) => n < SinkBlocks(c)
    BY <1>2, LocalRest
  <2>3. \A q, k : OfTile(q) /\ k \in Nat /\ Attends(c, q, k) =>
           \/ InRange(r.min, k \div c.tn, r.max)
           \/ InRange(r.wmin, k \div c.tn, r.wmax)
           \/ InRange(0, k \div c.tn, r.smax)
    BY <1>2, LocalRest
  <2>4. start \in Int /\ SinkBlocks(c) \in Nat /\ \A n \in Nat : (n + 1) * c.tn \in Int
    BY KeyBounds, KeyTypes, Sizes DEF TileOK
  <2>5. /\ RestOf.min = r.min /\ RestOf.max = r.max /\ RestOf.wmin = r.wmin
        /\ FromWindow(r) => FirstOf = r.wmax - 1 /\ RestOf.wmax = r.wmax - 1
        /\ ~FromWindow(r) => RestOf.wmax = r.wmax
        /\ FromSink(r) => FirstOf = r.smax - 1 /\ RestOf.smax = r.smax - 1
        /\ ~FromSink(r) => RestOf.smax = r.smax
        /\ ~FromWindow(r) /\ ~FromSink(r) => FirstOf = r.max - 1
    BY RestFields
  <2>6. /\ FromWindow(r) <=> r.min = r.max /\ r.wmin < r.wmax
        /\ FromSink(r) <=> r.min = r.max /\ r.wmin >= r.wmax
    BY <1>2 DEF FromWindow, FromSink, MainEmpty
  <2> HIDE DEF r, start
  <2>7. ASSUME NEW n \in Nat
        PROVE  /\ ~(InRange(r.min, n, r.max) /\ InRange(r.wmin, n, r.wmax))
               /\ ~(InRange(r.min, n, r.max) /\ InRange(0, n, r.smax))
               /\ ~(InRange(r.wmin, n, r.wmax) /\ InRange(0, n, r.smax))
    BY <2>2, <2>4
  <2> HIDE DEF start
  <2>8. /\ {RestOf.min, RestOf.max, RestOf.wmin, RestOf.wmax, RestOf.smax, FirstOf}
             \subseteq Int
        /\ RestOf.min <= RestOf.max
        /\ \A b \in Int : InRange(RestOf.wmin, b, RestOf.wmax) => InRange(r.wmin, b, r.wmax)
        /\ \A b \in Int : InRange(0, b, RestOf.smax) => InRange(0, b, r.smax)
        /\ \A b \in Int : InRange(RestOf.min, b, RestOf.max - 1) => InRange(r.min, b, r.max)
    <3>0. r.min \in Int /\ r.max \in Int /\ r.wmin \in Int /\ r.min <= r.max
      BY <2>1
    <3>1. /\ RestOf.min \in Int /\ RestOf.max \in Int /\ RestOf.wmin \in Int
          /\ RestOf.min <= RestOf.max
      BY <2>5, <3>0
    <3>2. RestOf.wmax \in Int /\ RestOf.wmax <= r.wmax
      BY <2>1, <2>5
    <3>3. RestOf.smax \in Int /\ RestOf.smax <= r.smax
      BY <2>1, <2>5
    <3>4. FirstOf \in Int
      BY <2>1, <2>5
    <3>5. /\ \A b \in Int : InRange(RestOf.wmin, b, RestOf.wmax) => InRange(r.wmin, b, r.wmax)
          /\ \A b \in Int : InRange(0, b, RestOf.smax) => InRange(0, b, r.smax)
          /\ \A b \in Int : InRange(RestOf.min, b, RestOf.max - 1) => InRange(r.min, b, r.max)
      BY <2>1, <2>5, <3>1, <3>2, <3>3 DEF InRange
    <3>6. QED
      BY <3>1, <3>2, <3>3, <3>4, <3>5
  <2>9. ASSUME NEW b \in Int, Left(b)
        PROVE  b \in Nat /\ b # Most(FirstOf, 0)
    <3>1. b \in Nat
      BY <2>1, <2>5, <2>8, <2>9 DEF Left, InRange
    <3>2. CASE FromWindow(r)
      <4>1. FirstOf = r.wmax - 1 /\ RestOf.wmax = r.wmax - 1 /\ r.min = r.max /\ r.wmin < r.wmax
        BY <2>5, <2>6, <3>2
      <4>2. FirstOf \in Nat /\ Most(FirstOf, 0) = FirstOf /\ InRange(r.wmin, FirstOf, r.wmax)
        BY <2>1, <4>1 DEF InRange, Most
      <4>3. ~InRange(RestOf.min, b, RestOf.max - 1) /\ ~InRange(RestOf.wmin, FirstOf, RestOf.wmax)
        BY <2>1, <2>5, <4>1 DEF InRange
      <4>4. ~InRange(0, FirstOf, RestOf.smax)
        BY <2>7, <2>8, <4>2
      <4>5. QED
        BY <2>9, <3>1, <4>2, <4>3, <4>4 DEF Left
    <3>3. CASE FromSink(r)
      BY <2>1, <2>5, <2>6, <2>9, <3>1, <3>3 DEF Left, InRange, Most
    <3>4. CASE ~FromWindow(r) /\ ~FromSink(r)
      <4>1. FirstOf = r.max - 1 /\ r.min < r.max
        BY <2>1, <2>5, <2>6, <3>4
      <4>2. FirstOf \in Nat /\ Most(FirstOf, 0) = FirstOf /\ InRange(r.min, FirstOf, r.max)
        BY <2>1, <4>1 DEF InRange, Most
      <4>3. ~InRange(RestOf.min, FirstOf, RestOf.max - 1)
        BY <2>1, <2>5, <4>1 DEF InRange
      <4>4. ~InRange(0, FirstOf, RestOf.smax) /\ ~InRange(RestOf.wmin, FirstOf, RestOf.wmax)
        BY <2>7, <2>8, <4>2
      <4>5. QED
        BY <2>9, <3>1, <4>2, <4>3, <4>4 DEF Left
    <3>5. QED
      BY <3>1, <3>2, <3>3, <3>4
  <2>10. ASSUME NEW q, NEW k, OfTile(q) /\ k \in Nat /\ Attends(c, q, k)
         PROVE  k \div c.tn = Most(FirstOf, 0) \/ Left(k \div c.tn)
    <3>1. PICK n \in Nat : n = k \div c.tn
      BY <2>10, BlockOfKey
    <3>2. InRange(r.min, n, r.max) \/ InRange(r.wmin, n, r.wmax) \/ InRange(0, n, r.smax)
      BY <2>3, <2>10, <3>1
    <3>3. n = Most(FirstOf, 0) \/ Left(n)
      BY <2>1, <2>5, <2>6, <3>2 DEF Left, InRange, Most
    <3>4. QED
      BY <3>1, <3>3
  <2>11. QED
    <3>1. \A b \in Nat :
            /\ ~(InRange(RestOf.min, b, RestOf.max - 1)
                   /\ InRange(RestOf.wmin, b, RestOf.wmax))
            /\ ~(InRange(RestOf.min, b, RestOf.max - 1) /\ InRange(0, b, RestOf.smax))
            /\ ~(InRange(RestOf.wmin, b, RestOf.wmax) /\ InRange(0, b, RestOf.smax))
      BY <2>7, <2>8
    <3>2. QED
      BY <1>2, <2>8, <2>9, <2>10, <3>1 DEF r
<1>3. QED
  BY <1>1, <1>2

-----------------------------------------------------------------------------
(* The blocks in the order producer and consumers go through them.         *)
(* apply_mask takes a negative block for block 0.                          *)
Lists(blocks, set) ==
    /\ blocks \in Seq(Int)
    /\ \A i \in 1 .. Len(blocks) : Most(blocks[i], 0) \in set
    /\ \A b \in set : \E i \in 1 .. Len(blocks) : Most(blocks[i], 0) = b
    /\ \A i, j \in 1 .. Len(blocks) : Most(blocks[i], 0) = Most(blocks[j], 0) => i = j

LEMMA ListsJoined ==
    ASSUME NEW b1, NEW set1, Lists(b1, set1), NEW b2, NEW set2, Lists(b2, set2),
           set1 \cap set2 = {}
    PROVE  Lists(b1 \o b2, set1 \union set2)
<1> DEFINE n1 == Len(b1)
           n2 == Len(b2)
           bs == b1 \o b2
<1>1. n1 \in Nat /\ n2 \in Nat /\ b1 \in Seq(Int) /\ b2 \in Seq(Int)
  BY LenProperties DEF Lists
<1>2. /\ bs \in Seq(Int) /\ Len(bs) = n1 + n2
      /\ \A i \in 1 .. n1 + n2 : bs[i] = IF i <= n1 THEN b1[i] ELSE b2[i - n1]
  BY <1>1, ConcatProperties
<1>3. /\ \A i \in 1 .. n1 : Most(b1[i], 0) \in set1
      /\ \A b \in set1 : \E i \in 1 .. n1 : Most(b1[i], 0) = b
      /\ \A i, j \in 1 .. n1 : Most(b1[i], 0) = Most(b1[j], 0) => i = j
  BY DEF Lists
<1>4. /\ \A i \in 1 .. n2 : Most(b2[i], 0) \in set2
      /\ \A b \in set2 : \E i \in 1 .. n2 : Most(b2[i], 0) = b
      /\ \A i, j \in 1 .. n2 : Most(b2[i], 0) = Most(b2[j], 0) => i = j
  BY DEF Lists
<1> HIDE DEF n1, n2, bs
<1>5. /\ \A i \in 1 .. n1 : i \in 1 .. n1 + n2 /\ bs[i] = b1[i]
      /\ \A i \in 1 .. n2 : n1 + i \in 1 .. n1 + n2 /\ bs[n1 + i] = b2[i]
      /\ \A i \in 1 .. n1 + n2 : i \in 1 .. n1 \/ \E h \in 1 .. n2 : i = n1 + h
  <2>1. \A i \in 1 .. n1 : i \in 1 .. n1 + n2 /\ bs[i] = b1[i]
    BY <1>1, <1>2
  <2>2. \A i \in 1 .. n2 : n1 + i \in 1 .. n1 + n2 /\ bs[n1 + i] = b2[i]
    BY <1>1, <1>2
  <2>3. ASSUME NEW i \in 1 .. n1 + n2
        PROVE  i \in 1 .. n1 \/ \E h \in 1 .. n2 : i = n1 + h
    <3>1. CASE i > n1
      <4>1. i - n1 \in 1 .. n2 /\ i = n1 + (i - n1)
        BY <3>1, <1>1
      <4>2. QED
        BY <4>1
    <3>2. QED
      BY <3>1, <1>1
  <2>4. QED
    BY <2>1, <2>2, <2>3
<1>6. \A i \in 1 .. n1 + n2 : Most(bs[i], 0) \in set1 \union set2
  BY <1>3, <1>4, <1>5
<1>7. \A b \in set1 \union set2 : \E i \in 1 .. n1 + n2 : Most(bs[i], 0) = b
  <2> SUFFICES ASSUME NEW b \in set1 \union set2
               PROVE  \E i \in 1 .. n1 + n2 : Most(bs[i], 0) = b
    OBVIOUS
  <2>1. CASE b \in set1
    BY <2>1, <1>3, <1>5
  <2>2. CASE b \in set2
    <3>1. PICK h \in 1 .. n2 : Most(b2[h], 0) = b
      BY <2>2, <1>4
    <3>2. QED
      BY <3>1, <1>5
  <2>3. QED
    BY <2>1, <2>2
<1>8. ASSUME NEW i \in 1 .. n1 + n2, NEW j \in 1 .. n1 + n2, Most(bs[i], 0) = Most(bs[j], 0)
      PROVE  i = j
  <2>1. CASE i \in 1 .. n1 /\ j \in 1 .. n1
    BY <2>1, <1>3, <1>5, <1>8
  <2>2. CASE i \in 1 .. n1 /\ \E h \in 1 .. n2 : j = n1 + h
    <3>1. Most(bs[i], 0) \in set1 /\ Most(bs[j], 0) \in set2
      BY <2>2, <1>3, <1>4, <1>5
    <3>2. QED
      BY <3>1, <1>8
  <2>3. CASE j \in 1 .. n1 /\ \E h \in 1 .. n2 : i = n1 + h
    <3>1. Most(bs[j], 0) \in set1 /\ Most(bs[i], 0) \in set2
      BY <2>3, <1>3, <1>4, <1>5
    <3>2. QED
      BY <3>1, <1>8
  <2>4. CASE (\E h \in 1 .. n2 : i = n1 + h) /\ (\E h \in 1 .. n2 : j = n1 + h)
    BY <2>4, <1>4, <1>5, <1>8
  <2>5. QED
    BY <2>1, <2>2, <2>3, <2>4, <1>5
<1>9. Lists(bs, set1 \union set2)
  BY <1>2, <1>6, <1>7, <1>8 DEF Lists
<1>10. QED
  BY <1>9 DEF bs

LEMMA DownLists ==
    ASSUME NEW from \in Int, NEW to \in Int,
           \A b \in Int : InRange(to, b, from) => b \in Nat
    PROVE  Lists(Down(from, to), {b \in Nat : InRange(to, b, from)})
<1> DEFINE n == Most(from - to, 0)
           bs == Down(from, to)
<1>1. /\ bs \in Seq(Int) /\ Len(bs) = n /\ n \in Nat
      /\ \A i \in 1 .. n : bs[i] = from - i
  BY DownSeq DEF Most
<1>2. n > 0 => n = from - to
  BY DEF Most
<1>3. from - to > 0 => n = from - to
  BY DEF Most
<1> HIDE DEF n, bs
<1>4. ASSUME NEW i \in 1 .. n
      PROVE  /\ from - i \in Nat /\ InRange(to, from - i, from)
             /\ Most(bs[i], 0) = from - i
  <2>1. from - i \in Int /\ InRange(to, from - i, from)
    BY <1>1, <1>2 DEF InRange
  <2>2. from - i \in Nat
    BY <2>1
  <2>3. bs[i] = from - i
    BY <1>1
  <2>4. QED
    BY <2>1, <2>2, <2>3 DEF Most
<1>5. ASSUME NEW b \in Nat, InRange(to, b, from)
      PROVE  \E i \in 1 .. n : Most(bs[i], 0) = b
  <2>1. from - b \in 1 .. n /\ from - (from - b) = b
    BY <1>3, <1>5 DEF InRange
  <2>2. QED
    BY <2>1, <1>4
<1>6. Lists(bs, {b \in Nat : InRange(to, b, from)})
  <2>1. \A i \in 1 .. n : Most(bs[i], 0) \in {b \in Nat : InRange(to, b, from)}
    BY <1>4
  <2>2. \A b \in {x \in Nat : InRange(to, x, from)} :
          \E i \in 1 .. n : Most(bs[i], 0) = b
    BY <1>5
  <2>3. \A i, j \in 1 .. n : Most(bs[i], 0) = Most(bs[j], 0) => i = j
    BY <1>1, <1>4
  <2>4. QED
    BY <1>1, <2>1, <2>2, <2>3 DEF Lists
<1>7. QED
  BY <1>6 DEF bs

MainBlocks   == <<FirstOf>> \o Down(RestOf.max - 1, RestOf.min)
WindowBlocks == Down(RestOf.wmax, RestOf.wmin)
LastBlocks    == Down(RestOf.smax, 0)
TheBlocks    == MainBlocks \o WindowBlocks \o LastBlocks

(* Every block that has a pair of the tile comes up, and none twice.       *)
LEMMA BlocksOnce ==
    ASSUME TileOK
    PROVE  Lists(TheBlocks, {Most(FirstOf, 0)} \union {b \in Nat : Left(b)})
<1> DEFINE main   == {b \in Nat : InRange(RestOf.min, b, RestOf.max - 1)}
           window == {b \in Nat : InRange(RestOf.wmin, b, RestOf.wmax)}
           sink   == {b \in Nat : InRange(0, b, RestOf.smax)}
<1>1. /\ RestOf.min \in Int /\ RestOf.max \in Int /\ RestOf.wmin \in Int
      /\ RestOf.wmax \in Int /\ RestOf.smax \in Int /\ FirstOf \in Int
  BY TileBlocks
<1>2. \A b \in Int : Left(b) => b \in Nat /\ b # Most(FirstOf, 0)
  BY TileBlocks
<1>3. \A b \in Nat :
        /\ ~(InRange(RestOf.min, b, RestOf.max - 1) /\ InRange(RestOf.wmin, b, RestOf.wmax))
        /\ ~(InRange(RestOf.min, b, RestOf.max - 1) /\ InRange(0, b, RestOf.smax))
        /\ ~(InRange(RestOf.wmin, b, RestOf.wmax) /\ InRange(0, b, RestOf.smax))
  BY TileBlocks
<1>4. Lists(<<FirstOf>>, {Most(FirstOf, 0)})
  <2>1. <<FirstOf>> \in Seq(Int) /\ Len(<<FirstOf>>) = 1 /\ <<FirstOf>>[1] = FirstOf
    BY <1>1
  <2>2. QED
    BY <2>1 DEF Lists
<1>5. Lists(Down(RestOf.max - 1, RestOf.min), main)
  BY <1>1, <1>2, DownLists, RestOf.max - 1 \in Int DEF Left
<1>6. Lists(WindowBlocks, window)
  BY <1>1, <1>2, DownLists DEF Left, WindowBlocks
<1>7. Lists(LastBlocks, sink)
  BY <1>1, <1>2, DownLists DEF Left, LastBlocks
<1>8. /\ {Most(FirstOf, 0)} \cap main = {}
      /\ ({Most(FirstOf, 0)} \union main) \cap window = {}
      /\ ({Most(FirstOf, 0)} \union main \union window) \cap sink = {}
  BY <1>2, <1>3 DEF Left
<1>9. {Most(FirstOf, 0)} \union {b \in Nat : Left(b)}
        = {Most(FirstOf, 0)} \union main \union window \union sink
  BY DEF Left
<1> HIDE DEF main, window, sink
<1>10. Lists(MainBlocks, {Most(FirstOf, 0)} \union main)
  BY <1>4, <1>5, <1>8, ListsJoined DEF MainBlocks
<1>11. Lists(MainBlocks \o WindowBlocks, {Most(FirstOf, 0)} \union main \union window)
  BY <1>6, <1>8, <1>10, ListsJoined
<1>12. Lists(TheBlocks, {Most(FirstOf, 0)} \union main \union window \union sink)
  BY <1>7, <1>8, <1>11, ListsJoined DEF TheBlocks
<1>13. QED
  BY <1>9, <1>12

-----------------------------------------------------------------------------
(* What the consumers do with the blocks.                                  *)
Follows(visits, blocks) ==
    /\ visits \in Seq(Visits) /\ blocks \in Seq(Int)
    /\ Len(visits) = Len(blocks)
    /\ \A i \in 1 .. Len(blocks) : visits[i].block = blocks[i] /\ Exact(visits[i])

LEMMA FollowsJoined ==
    ASSUME NEW v1, NEW b1, Follows(v1, b1), NEW v2, NEW b2, Follows(v2, b2)
    PROVE  Follows(v1 \o v2, b1 \o b2)
<1> DEFINE n1 == Len(b1)
           n2 == Len(b2)
           vs == v1 \o v2
           bs == b1 \o b2
<1>1. /\ n1 \in Nat /\ n2 \in Nat /\ Len(v1) = n1 /\ Len(v2) = n2
      /\ v1 \in Seq(Visits) /\ v2 \in Seq(Visits) /\ b1 \in Seq(Int) /\ b2 \in Seq(Int)
  BY LenProperties DEF Follows
<1>2. /\ \A i \in 1 .. n1 : v1[i].block = b1[i] /\ Exact(v1[i])
      /\ \A i \in 1 .. n2 : v2[i].block = b2[i] /\ Exact(v2[i])
  BY DEF Follows
<1>3. /\ bs \in Seq(Int) /\ Len(bs) = n1 + n2
      /\ \A i \in 1 .. n1 + n2 : bs[i] = IF i <= n1 THEN b1[i] ELSE b2[i - n1]
  BY <1>1, ConcatProperties
<1>4. /\ vs \in Seq(Visits) /\ Len(vs) = n1 + n2
      /\ \A i \in 1 .. n1 + n2 : vs[i] = IF i <= n1 THEN v1[i] ELSE v2[i - n1]
  <2> HIDE DEF n1, n2
  <2>1. /\ vs \in Seq(Visits) /\ Len(vs) = Len(v1) + Len(v2)
        /\ \A i \in 1 .. Len(v1) + Len(v2) :
             vs[i] = IF i <= Len(v1) THEN v1[i] ELSE v2[i - Len(v1)]
    BY <1>1, ConcatProperties
  <2>2. QED
    BY <1>1, <2>1
<1> HIDE DEF n1, n2, vs, bs
<1>5. ASSUME NEW i \in 1 .. n1 + n2
      PROVE  vs[i].block = bs[i] /\ Exact(vs[i])
  <2>1. CASE i <= n1
    <3>1. i \in 1 .. n1
      BY <2>1, <1>1
    <3>2. vs[i] = v1[i] /\ bs[i] = b1[i]
      BY <2>1, <1>3, <1>4
    <3>3. QED
      BY <3>1, <3>2, <1>2
  <2>2. CASE i > n1
    <3>1. i - n1 \in 1 .. n2 /\ vs[i] = v2[i - n1] /\ bs[i] = b2[i - n1]
      BY <2>2, <1>1, <1>3, <1>4
    <3>2. QED
      BY <3>1, <1>2
  <2>3. QED
    BY <2>1, <2>2, <1>1
<1>6. Follows(vs, bs)
  BY <1>3, <1>4, <1>5 DEF Follows
<1>7. QED
  BY <1>6 DEF vs, bs

LEMMA VisitAllFollows ==
    ASSUME NEW from \in Int, NEW to \in Int,
           NEW seqlen \in BOOLEAN, NEW mask \in {"none", "causal", "local", "sink"},
           \A b \in Int : InRange(to, b, from) => Exact(Visit(b, seqlen, mask))
    PROVE  Follows(VisitAll(Down(from, to), seqlen, mask), Down(from, to))
<1> DEFINE n == Most(from - to, 0)
           bs == Down(from, to)
           vs == VisitAll(bs, seqlen, mask)
<1>1. /\ bs \in Seq(Int) /\ Len(bs) = n /\ n \in Nat /\ DOMAIN bs = 1 .. n
      /\ \A i \in 1 .. n : bs[i] = from - i
  BY DownSeq, LenProperties DEF Most
<1>2. n > 0 => n = from - to
  BY DEF Most
<1> HIDE DEF n, bs
<1>3. vs = [i \in 1 .. n |-> Visit(bs[i], seqlen, mask)]
  BY <1>1 DEF VisitAll
<1>4. ASSUME NEW i \in 1 .. n
      PROVE  /\ bs[i] \in Int /\ Visit(bs[i], seqlen, mask) \in Visits
             /\ Visit(bs[i], seqlen, mask).block = bs[i]
             /\ Exact(Visit(bs[i], seqlen, mask))
  <2>1. bs[i] \in Int /\ InRange(to, bs[i], from)
    BY <1>1, <1>2 DEF InRange
  <2>2. QED
    BY <2>1 DEF Visit, Visits
<1>5. vs \in Seq(Visits) /\ Len(vs) = n
  BY <1>1, <1>3, <1>4
<1>6. \A i \in 1 .. n : vs[i].block = bs[i] /\ Exact(vs[i])
  BY <1>3, <1>4
<1> HIDE DEF vs
<1>7. Follows(vs, bs)
  BY <1>1, <1>5, <1>6 DEF Follows
<1>8. QED
  BY <1>7 DEF vs, bs

LEMMA FullMaskOK == TileOK => FullMask \in {"none", "causal", "local", "sink"}
BY Sizes DEF FullMask, IsLocal

(* Behind the sinks the mask of the window is all there is. *)
LEMMA BehindSinksExact ==
    ASSUME TileOK, IsLocal(c), NEW b \in Int, InRange(RestOf.min, b, RestOf.max - 1)
    PROVE  Exact(Visit(b, TRUE, "local"))
<1>1. b \in Nat
  BY TileBlocks DEF Left
<1>2. InRange(NBlocks(c, m).min, b, NBlocks(c, m).max)
  <2>1. RestOf.min = NBlocks(c, m).min /\ RestOf.max = NBlocks(c, m).max
    BY RestFields
  <2>2. RestOf.min \in Int /\ RestOf.max \in Int
    BY TileBlocks
  <2>3. QED
    BY <2>1, <2>2 DEF InRange
<1>3. b >= SinkBlocks(c)
  BY <1>1, <1>2, LocalRest
<1>4. c.sink <= b * c.tn /\ b * c.tn \in Int /\ Most(b, 0) = b
  <2>1. SinkBlocks(c) \in Nat /\ (b < SinkBlocks(c) <=> b * c.tn < c.sink)
    BY <1>1, KeyTypes, Sizes DEF TileOK
  <2>2. QED
    BY <1>1, <1>3, <2>1, Sizes DEF Most
<1>5. ASSUME NEW q, NEW k, OfTile(q), OfBlock(k, b)
      PROVE  q < c.sq /\ ~InSink(c, q, k)
  <2>1. q < c.sq /\ k \in Nat /\ b * c.tn <= k
    BY <1>5 DEF OfTile, OfBlock
  <2>2. ~(k < c.sink)
    BY <1>4, <2>1, Sizes
  <2>3. QED
    BY <2>1, <2>2 DEF InSink
<1>6. QED
  BY <1>4, <1>5, Zenon DEF Exact, Visit, Kept, Attends, IsLocal

LEMMA MainFollows ==
    ASSUME TileOK
    PROVE  Follows(MainVisits(RestOf, FirstOf), MainBlocks)
<1> DEFINE masked == IF IsLocal(c) THEN RestOf.min ELSE MaskFrom(c, m, RestOf.min, FALSE)
           max    == Most(RestOf.max - 1, RestOf.min)
           nomask == Least(masked, max)
           mask   == IF c.kind = "full" THEN "none" ELSE c.kind
           first  == <<Visit(FirstOf, TRUE, FullMask)>>
           second == VisitAll(Down(max, nomask), TRUE, mask)
           third  == VisitAll(Down(nomask, RestOf.min), FALSE, "none")
<1>1. RestOf.min \in Int /\ RestOf.max \in Int /\ FirstOf \in Int /\ RestOf.min <= RestOf.max
  BY TileBlocks
<1>2. MainVisits(RestOf, FirstOf) = first \o second \o third
  <2>1. FullMask = IF IsLocal(c) THEN "sink" ELSE mask
    BY DEF FullMask
  <2>2. QED
    BY <2>1, Zenon DEF MainVisits
<1>3. max \in Int /\ RestOf.min <= max /\ (RestOf.min < max => max = RestOf.max - 1)
  BY <1>1 DEF Most
<1>4. MaskFrom(c, m, RestOf.min, FALSE) = Most(RestOf.min, Quot(c, KeyStart(c, m), c.tn))
      /\ Quot(c, KeyStart(c, m), c.tn) \in Int
  <2>1. KeyStart(c, m) - 0 = KeyStart(c, m) /\ KeyStart(c, m) \in Int
    BY KeyBounds
  <2>2. QED
    BY <2>1, Sizes, QuotBound, 0 \in Nat DEF MaskFrom
<1>5. /\ IsLocal(c) => masked = RestOf.min
      /\ ~IsLocal(c) => masked = Most(RestOf.min, Quot(c, KeyStart(c, m), c.tn))
  BY <1>4
<1>6. masked \in Int /\ RestOf.min <= masked
  <2> HIDE DEF masked
  <2>1. QED
    BY <1>1, <1>4, <1>5 DEF Most
<1>7. Down(RestOf.max - 1, RestOf.min) = Down(max, RestOf.min)
  <2>1. CASE RestOf.min < max
    BY <2>1, <1>3
  <2>2. CASE RestOf.min = max
    <3>1. RestOf.max - 1 <= RestOf.min
      BY <1>1, <2>2 DEF Most
    <3>2. Down(RestOf.max - 1, RestOf.min) = <<>> /\ Down(max, RestOf.min) = <<>>
      BY <1>1, <2>2, <3>1, DownEmpty, RestOf.max - 1 \in Int
    <3>3. QED
      BY <3>2
  <2> HIDE DEF max
  <2>3. QED
    BY <1>1, <1>3, <2>1, <2>2
<1> HIDE DEF masked, max
<1>8. nomask \in Int /\ RestOf.min <= nomask /\ nomask <= max /\ nomask <= masked
  BY <1>1, <1>3, <1>6 DEF Least
<1> HIDE DEF nomask
<1>9. ASSUME NEW b \in Int, InRange(RestOf.min, b, max)
      PROVE  b \in Nat /\ InRange(RestOf.min, b, RestOf.max - 1)
  <2>1. InRange(RestOf.min, b, RestOf.max - 1)
    BY <1>1, <1>3, <1>9 DEF InRange
  <2>2. QED
    BY <2>1, TileBlocks DEF Left
<1>10. Follows(first, <<FirstOf>>)
  <2> DEFINE v == Visit(FirstOf, TRUE, FullMask)
  <2>1. v \in Visits /\ v.block = FirstOf
    BY <1>1, FullMaskOK DEF Visit, Visits
  <2>2. Exact(v)
    BY <1>1, MaskedExact
  <2> HIDE DEF v
  <2>3. /\ <<v>> \in Seq(Visits) /\ <<FirstOf>> \in Seq(Int)
        /\ Len(<<v>>) = 1 /\ Len(<<FirstOf>>) = 1 /\ <<v>>[1] = v /\ <<FirstOf>>[1] = FirstOf
    BY <1>1, <2>1
  <2>4. Follows(<<v>>, <<FirstOf>>)
    BY <2>1, <2>2, <2>3 DEF Follows
  <2>5. QED
    BY <2>4 DEF v
<1>11. Follows(second, Down(max, nomask))
  <2>1. mask \in {"none", "causal", "local", "sink"}
    BY Sizes
  <2>2. mask = IF IsLocal(c) THEN "local" ELSE FullMask
    BY Zenon DEF FullMask, IsLocal
  <2> HIDE DEF mask
  <2>3. ASSUME NEW b \in Int, InRange(nomask, b, max)
        PROVE  Exact(Visit(b, TRUE, mask))
    <3>1. InRange(RestOf.min, b, max)
      BY <1>1, <1>3, <1>8, <2>3 DEF InRange
    <3>2. InRange(RestOf.min, b, RestOf.max - 1)
      BY <1>9, <3>1
    <3>3. CASE IsLocal(c)
      BY <2>2, <3>2, <3>3, BehindSinksExact
    <3>4. CASE ~IsLocal(c)
      BY <2>2, <3>4, MaskedExact
    <3>5. QED
      BY <3>3, <3>4
  <2>4. QED
    BY <1>3, <1>8, <2>1, <2>3, VisitAllFollows
<1>12. Follows(third, Down(nomask, RestOf.min))
  <2>1. ASSUME NEW b \in Int, InRange(RestOf.min, b, nomask)
        PROVE  Exact(Visit(b, FALSE, "none"))
    <3>1. b < masked /\ RestOf.min <= b
      BY <1>1, <1>6, <1>8, <2>1 DEF InRange
    <3>2. ~IsLocal(c)
      BY <1>1, <1>5, <3>1
    <3>3. InRange(RestOf.min, b, max)
      BY <1>1, <1>3, <1>8, <2>1 DEF InRange
    <3>4. b \in Nat
      BY <1>9, <3>3
    <3>5. b < Quot(c, KeyStart(c, m), c.tn)
      BY <1>1, <1>4, <1>5, <3>1, <3>2 DEF Most
    <3>6. QED
      BY <3>2, <3>4, <3>5, BelowDiagonalExact
  <2>2. QED
    BY <1>1, <1>8, <2>1, VisitAllFollows
<1> HIDE DEF mask, first, second, third
<1>13. Follows(first \o second, <<FirstOf>> \o Down(max, nomask))
  BY <1>10, <1>11, FollowsJoined
<1>14. Follows(first \o second \o third,
               (<<FirstOf>> \o Down(max, nomask)) \o Down(nomask, RestOf.min))
  BY <1>12, <1>13, FollowsJoined
<1>15. (<<FirstOf>> \o Down(max, nomask)) \o Down(nomask, RestOf.min) = MainBlocks
  <2>1. <<FirstOf>> \in Seq(Int)
    BY <1>1
  <2>2. Down(max, nomask) \in Seq(Int) /\ Down(nomask, RestOf.min) \in Seq(Int)
    BY <1>1, <1>3, <1>8, DownSeq
  <2>3. (<<FirstOf>> \o Down(max, nomask)) \o Down(nomask, RestOf.min)
          = <<FirstOf>> \o (Down(max, nomask) \o Down(nomask, RestOf.min))
    BY <2>1, <2>2, ConcatAssociative
  <2>4. Down(max, nomask) \o Down(nomask, RestOf.min) = Down(max, RestOf.min)
    BY <1>1, <1>3, <1>8, DownJoined
  <2>5. QED
    BY <1>7, <2>3, <2>4 DEF MainBlocks
<1>16. QED
  BY <1>2, <1>14, <1>15

LEMMA WindowFollows ==
    ASSUME TileOK, RestOf.wmax > RestOf.wmin
    PROVE  Follows(WindowVisits(RestOf), WindowBlocks)
<1> DEFINE wmin  == RestOf.wmin
           wmax  == RestOf.wmax
           masked == MaskFrom(c, m, wmin, TRUE)
           full   == FullFrom(wmin)
           to    == Within(masked, wmin, wmax)
           from  == Within(full, wmin, to)
           max   == IF overlap THEN wmax - 1 ELSE wmax
           to2   == Least(to, max)
           from2 == Least(from, to2)
           first  == VisitAll(Down(wmax, max) \o Down(max, to2), FALSE, "local")
           second == VisitAll(Down(to2, from2), FALSE, "none")
           third  == VisitAll(Down(from2, wmin), FALSE, "local")
<1>1. WindowVisits(RestOf) = first \o second \o third
  BY Zenon DEF WindowVisits
<1>2. wmin \in Int /\ wmax \in Int /\ wmin < wmax
  BY TileBlocks
<1>3. /\ Quot(c, KeyStart(c, m) - (c.near + c.right), c.tn) \in Int
      /\ masked = Most(wmin, Quot(c, KeyStart(c, m) - (c.near + c.right), c.tn))
  <2>1. KeyStart(c, m) - (c.near + c.right) \in Int
    BY KeyBounds, Sizes
  <2>2. QED
    BY <2>1, Sizes, QuotBound, 0 \in Nat DEF MaskFrom
<1>4. full \in Int
  <2> DEFINE rows == CeilDiv(c, (m + 1) * c.tm, c.pack)
             key  == rows + c.sk - c.sq - c.near - c.right - c.left
  <2>1. rows \in Int
    BY RowTypes
  <2> HIDE DEF rows
  <2>2. key \in Int
    BY <2>1, Sizes
  <2>3. FullFrom(wmin) = Most(wmin, CeilDiv(c, key, c.tn))
    BY DEF FullFrom, rows
  <2> HIDE DEF key
  <2>4. CeilDiv(c, key, c.tn) \in Int
    BY <2>2, Sizes, CeilDivBound, 0 \in Nat
  <2> HIDE DEF wmin
  <2>5. QED
    BY <1>2, <2>3, <2>4 DEF Most
<1>5. max \in Int /\ wmin <= max /\ max <= wmax
  BY <1>2
<1> HIDE DEF wmin, wmax, masked, full, max
<1>6. masked \in Int
  BY <1>2, <1>3 DEF Most
<1>7. /\ to \in Int /\ wmin <= to /\ to <= wmax
      /\ \A b \in Int : wmin <= b /\ b < to => b < masked
  BY <1>2, <1>6 DEF Within, Most, Least
<1> HIDE DEF to
<1>8. /\ from \in Int /\ wmin <= from /\ from <= to
      /\ \A b \in Int : from <= b /\ b < to => full <= b
  BY <1>2, <1>4, <1>7 DEF Within, Most, Least
<1> HIDE DEF from
<1>9. to2 \in Int /\ wmin <= to2 /\ to2 <= max /\ to2 <= to
  BY <1>2, <1>5, <1>7 DEF Least
<1> HIDE DEF to2
<1>10. /\ from2 \in Int /\ wmin <= from2 /\ from2 <= to2
       /\ \A b \in Int : from2 <= b /\ b < to2 => from <= b
  BY <1>2, <1>8, <1>9 DEF Least
<1> HIDE DEF from2
<1>11. ASSUME NEW b \in Int, wmin <= b, b < wmax
       PROVE  /\ IsLocal(c) /\ b \in Nat
              /\ InRange(NBlocks(c, m).wmin, b, NBlocks(c, m).wmax)
  <2>1. InRange(RestOf.wmin, b, RestOf.wmax)
    BY <1>11 DEF InRange, wmin, wmax
  <2>2. QED
    BY <2>1, TileBlocks DEF Left
<1>12. \A b \in Int : wmin <= b /\ b < wmax => Exact(Visit(b, FALSE, "local"))
  BY <1>11, WindowExact
<1>13. Down(wmax, max) \o Down(max, to2) = Down(wmax, to2)
  BY <1>2, <1>5, <1>9, DownJoined
<1>14. Follows(first, Down(wmax, to2))
  <2>1. ASSUME NEW b \in Int, InRange(to2, b, wmax)
        PROVE  Exact(Visit(b, FALSE, "local"))
    <3>1. wmin <= b /\ b < wmax
      BY <1>2, <1>9, <2>1 DEF InRange
    <3>2. QED
      BY <3>1, <1>12
  <2>2. Follows(VisitAll(Down(wmax, to2), FALSE, "local"), Down(wmax, to2))
    BY <1>2, <1>9, <2>1, VisitAllFollows
  <2>3. QED
    BY <1>13, <2>2
<1>15. Follows(second, Down(to2, from2))
  <2>1. ASSUME NEW b \in Int, InRange(from2, b, to2)
        PROVE  Exact(Visit(b, FALSE, "none"))
    <3>0. from2 <= b /\ b < to2
      BY <2>1 DEF InRange
    <3>1. wmin <= b /\ b < wmax /\ from2 <= b /\ b < to2 /\ b < to
      <4>1. from2 \in Int /\ wmin <= from2
        BY <1>10
      <4>2. QED
        BY <4>1, <1>2, <1>5, <1>7, <1>9, <3>0
    <3>2. b < Quot(c, KeyStart(c, m) - (c.near + c.right), c.tn)
      <4>1. b < masked
        BY <1>7, <3>1
      <4>2. QED
        BY <1>2, <1>3, <3>1, <4>1 DEF Most
    <3>3. full <= b
      BY <1>8, <1>10, <3>1
    <3>4. QED
      BY <1>2, <1>11, <3>1, <3>2, <3>3, MiddleExact DEF full
  <2>2. QED
    BY <1>9, <1>10, <2>1, VisitAllFollows
<1>16. Follows(third, Down(from2, wmin))
  <2>1. ASSUME NEW b \in Int, InRange(wmin, b, from2)
        PROVE  Exact(Visit(b, FALSE, "local"))
    <3>0. wmin <= b /\ b < from2
      BY <2>1 DEF InRange
    <3>1. b < wmax
      <4>1. from2 \in Int /\ from2 <= to2
        BY <1>10
      <4>2. QED
        BY <4>1, <1>2, <1>5, <1>9, <3>0
    <3>2. QED
      BY <3>0, <3>1, <1>12
  <2>2. QED
    BY <1>2, <1>10, <2>1, VisitAllFollows
<1> HIDE DEF first, second, third
<1>17. Follows(first \o second \o third, (Down(wmax, to2) \o Down(to2, from2)) \o Down(from2, wmin))
  BY <1>14, <1>15, <1>16, FollowsJoined
<1>18. (Down(wmax, to2) \o Down(to2, from2)) \o Down(from2, wmin) = WindowBlocks
  <2>1. Down(wmax, to2) \o Down(to2, from2) = Down(wmax, from2)
    <3>1. from2 \in Int /\ from2 <= to2
      BY <1>10
    <3>2. to2 <= wmax
      BY <1>2, <1>5, <1>9
    <3>3. QED
      BY <1>2, <1>9, <3>1, <3>2, DownJoined
  <2>2. Down(wmax, from2) \o Down(from2, wmin) = Down(wmax, wmin)
    <3>1. from2 \in Int /\ wmin <= from2 /\ from2 <= to2
      BY <1>10
    <3>2. from2 <= wmax
      BY <1>2, <1>5, <1>9, <3>1
    <3>3. QED
      BY <1>2, <3>1, <3>2, DownJoined
  <2>3. QED
    BY <2>1, <2>2 DEF WindowBlocks, wmin, wmax
<1>19. QED
  BY <1>1, <1>17, <1>18

LEMMA WindowOrNothingFollows ==
    ASSUME TileOK
    PROVE  Follows(IF RestOf.wmax > RestOf.wmin THEN WindowVisits(RestOf) ELSE <<>>, WindowBlocks)
<1>1. CASE RestOf.wmax > RestOf.wmin
  BY <1>1, WindowFollows
<1>2. CASE ~(RestOf.wmax > RestOf.wmin)
  <2>1. WindowBlocks = <<>>
    BY <1>2, TileBlocks, DownEmpty DEF WindowBlocks
  <2>2. Follows(<<>>, <<>>)
    BY DEF Follows
  <2>3. QED
    BY <1>2, <2>1, <2>2
<1>3. QED
  BY <1>1, <1>2

LEMMA SinkFollows ==
    ASSUME TileOK
    PROVE  Follows(VisitAll(Down(RestOf.smax, 0), TRUE, "sink"), LastBlocks)
<1>1. RestOf.smax \in Int /\ 0 \in Int /\ TRUE \in BOOLEAN
  BY TileBlocks
<1>2. ASSUME NEW b \in Int, InRange(0, b, RestOf.smax)
      PROVE  Exact(Visit(b, TRUE, "sink"))
  <2>1. CASE IsLocal(c)
    <3>1. FullMask = "sink"
      BY <2>1 DEF FullMask
    <3>2. Exact(Visit(b, TRUE, FullMask))
      BY MaskedExact
    <3>3. QED
      BY <3>1, <3>2
  <2>2. CASE ~IsLocal(c)
    <3>1. RestOf.smax = 0
      BY <2>2, FullAndCausalRest
    <3>2. QED
      BY <1>2, <3>1 DEF InRange
  <2>3. QED
    BY <2>1, <2>2
<1> DEFINE smax == RestOf.smax
<1> HIDE DEF smax
<1>3. "sink" \in {"none", "causal", "local", "sink"}
  OBVIOUS
<1>4. \A b \in Int : InRange(0, b, smax) => Exact(Visit(b, TRUE, "sink"))
  BY <1>2 DEF smax
<1>5. smax \in Int
  BY <1>1 DEF smax
<1>6. Follows(VisitAll(Down(smax, 0), TRUE, "sink"), Down(smax, 0))
  BY <1>1, <1>3, <1>4, <1>5, VisitAllFollows
<1>7. QED
  BY <1>6 DEF LastBlocks, smax

-----------------------------------------------------------------------------
(* What is laid out for a tile: ls the loads, ws the jobs, bs the blocks   *)
(* both go through, vs how the consumers take them.                        *)
TileSet == {Most(FirstOf, 0)} \union {b \in Nat : Left(b)}

Laid(ls, ws, bs, vs, k, s, p) ==
    /\ Serves(ls, bs, k) /\ Plays(ws, vs, s, p) /\ Follows(vs, bs)
    /\ Lists(bs, TileSet)

LEMMA LoadsServe ==
    ASSUME TileOK
    PROVE  \E k : Serves(ProducerLoads, TheBlocks, k)
<1>1. MainBlocks \in Seq(Int) /\ WindowBlocks \in Seq(Int) /\ LastBlocks \in Seq(Int)
  BY MainFollows, WindowOrNothingFollows, SinkFollows DEF Follows
<1>2. overlap \in BOOLEAN
  BY DEF TileOK
<1>3. PICK k1 : Serves(SegmentLoads(MainBlocks), MainBlocks, k1)
  BY <1>1, <1>2, SegmentServes
<1>4. PICK k2 : Serves(SegmentLoads(WindowBlocks), WindowBlocks, k2)
  BY <1>1, <1>2, SegmentServes
<1>5. PICK k3 : Serves(SegmentLoads(LastBlocks), LastBlocks, k3)
  BY <1>1, <1>2, SegmentServes
<1>6. PICK k4 : Serves(SegmentLoads(MainBlocks) \o SegmentLoads(WindowBlocks),
                       MainBlocks \o WindowBlocks, k4)
  BY <1>3, <1>4, ServesJoined, Zenon
<1>7. \E k : Serves((SegmentLoads(MainBlocks) \o SegmentLoads(WindowBlocks))
                      \o SegmentLoads(LastBlocks),
                    (MainBlocks \o WindowBlocks) \o LastBlocks, k)
  BY <1>5, <1>6, ServesJoined, Zenon
<1>8. ProducerLoads = (SegmentLoads(MainBlocks) \o SegmentLoads(WindowBlocks))
                        \o SegmentLoads(LastBlocks)
  BY DEF ProducerLoads, MainBlocks, WindowBlocks, LastBlocks, FirstOf, RestOf
<1>9. QED
  BY <1>7, <1>8, Zenon DEF TheBlocks

LEMMA WorkPlays ==
    ASSUME TileOK, ConsumersStart
    PROVE  \E vs, s, p : Plays(work, vs, s, p) /\ Follows(vs, TheBlocks)
<1> DEFINE main   == MainVisits(RestOf, FirstOf)
           window == IF RestOf.wmax > RestOf.wmin THEN WindowVisits(RestOf) ELSE <<>>
           sink   == VisitAll(Down(RestOf.smax, 0), TRUE, "sink")
<1>1. Follows(main, MainBlocks) /\ Follows(window, WindowBlocks) /\ Follows(sink, LastBlocks)
  BY MainFollows, WindowOrNothingFollows, SinkFollows
<1>2. work = SegmentWork(main) \o SegmentWork(window) \o SegmentWork(sink)
  BY Zenon DEF ConsumersStart, FirstOf, RestOf
<1>3. overlap \in BOOLEAN
  BY DEF TileOK
<1> HIDE DEF main, window, sink
<1>4. main \in Seq(Visits) /\ window \in Seq(Visits) /\ sink \in Seq(Visits)
  BY <1>1 DEF Follows
<1>5. PICK s1, p1 : Plays(SegmentWork(main), main, s1, p1)
  BY <1>3, <1>4, SegmentPlays
<1>6. PICK s2, p2 : Plays(SegmentWork(window), window, s2, p2)
  BY <1>3, <1>4, SegmentPlays
<1>7. PICK s3, p3 : Plays(SegmentWork(sink), sink, s3, p3)
  BY <1>3, <1>4, SegmentPlays
<1>8. PICK s4, p4 : Plays(SegmentWork(main) \o SegmentWork(window), main \o window, s4, p4)
  BY <1>5, <1>6, PlaysJoined, Zenon
<1>9. PICK s, p : Plays((SegmentWork(main) \o SegmentWork(window)) \o SegmentWork(sink),
                        (main \o window) \o sink, s, p)
  BY <1>7, <1>8, PlaysJoined, Zenon
<1>10. Follows(main \o window, MainBlocks \o WindowBlocks)
  BY <1>1, FollowsJoined, Zenon
<1>11. Follows((main \o window) \o sink, (MainBlocks \o WindowBlocks) \o LastBlocks)
  BY <1>1, <1>10, FollowsJoined, Zenon
<1>12. QED
  BY <1>2, <1>9, <1>11, Zenon DEF TheBlocks

LEMMA TileStart ==
    ASSUME Init
    PROVE  TileOK /\ \E bs, vs, k, s, p : Laid(loads, work, bs, vs, k, s, p)
<1>1. c \in Problems /\ m \in 0 .. CeilDiv(c, c.sq * c.pack, c.tm) - 1 /\ overlap \in Overlaps
      /\ loads = ProducerLoads /\ ConsumersStart
  BY DEF Init
<1>2. /\ c.sq \in SeqQ /\ c.sk \in SeqK /\ c.tm \in TilesM /\ c.tn \in TilesN
      /\ c.pack \in Packs /\ c.trunc \in BOOLEAN /\ c.kind \in Kinds
      /\ c.sink \in Sinks /\ c.left \in Lefts /\ c.right \in Rights /\ c.near \in Nears
  BY <1>1 DEF Problems
<1>3. IsProblem(c)
  BY <1>2, SizesAssumption DEF IsProblem
<1>4. c.sq \in Nat /\ c.pack \in Nat \ {0} /\ c.tm \in Nat \ {0} /\ c.trunc \in BOOLEAN
  BY <1>3 DEF IsProblem
<1>5. m \in Nat /\ m * c.tm < c.sq * c.pack
  <2> DEFINE size == c.sq * c.pack
  <2>1. size \in Int
    BY <1>4
  <2> HIDE DEF size
  <2>2. \A q \in Nat : CeilDiv(c, size, c.tm) \in Int /\ (q < CeilDiv(c, size, c.tm) <=> q * c.tm < size)
    BY <1>4, <2>1, CeilDivBound
  <2>3. m \in 0 .. CeilDiv(c, size, c.tm) - 1
    BY <1>1 DEF size
  <2>4. m \in Nat /\ m < CeilDiv(c, size, c.tm)
    BY <2>2, <2>3, 0 \in Nat
  <2>5. QED
    BY <2>2, <2>4 DEF size
<1>6. TileOK
  BY <1>1, <1>3, <1>5, SizesAssumption DEF TileOK
<1>7. PICK k : Serves(loads, TheBlocks, k)
  BY <1>1, <1>6, LoadsServe
<1>8. PICK vs, s, p : Plays(work, vs, s, p) /\ Follows(vs, TheBlocks)
  BY <1>1, <1>6, WorkPlays
<1>9. Lists(TheBlocks, TileSet)
  BY <1>6, BlocksOnce DEF TileSet
<1>10. Laid(loads, work, TheBlocks, vs, k, s, p)
  BY <1>7, <1>8, <1>9 DEF Laid
<1>11. QED
  BY <1>6, <1>10, Zenon

(* A step leaves the tile and all that is laid out for it as it was. *)
LEMMA SameTile ==
    ASSUME UNCHANGED <<c, m, overlap>>
    PROVE  /\ TileOK' <=> TileOK
           /\ Pairs' = Pairs
           /\ \A visit, row, x : Times(visit, row, x)' = Times(visit, row, x)
           /\ \A ls, ws, bs, vs, k, s, p :
                Laid(ls, ws, bs, vs, k, s, p) => Laid(ls, ws, bs, vs, k, s, p)'
<1>1. c' = c /\ m' = m /\ overlap' = overlap
  OBVIOUS
<1>2. TileOK' <=> TileOK
  BY <1>1 DEF TileOK
<1>3. Pairs' = Pairs
  BY <1>1 DEF Pairs, Rows, Keys
<1>4. \A visit, row, x : Times(visit, row, x)' = Times(visit, row, x)
  BY <1>1 DEF Times
<1>5. FirstOf' = FirstOf /\ RestOf' = RestOf
  BY <1>1 DEF FirstOf, RestOf, First, Rest, FromWindow, FromSink, MainEmpty
<1>6. \A b : Left(b)' <=> Left(b)
  BY <1>5 DEF Left
<1>7. TileSet' = TileSet
  BY <1>5, <1>6 DEF TileSet
<1>8. \A v : Exact(v)' <=> Exact(v)
  BY <1>1 DEF Exact, OfTile, OfBlock
<1>9. ASSUME NEW ls, NEW ws, NEW bs, NEW vs, NEW k, NEW s, NEW p, Laid(ls, ws, bs, vs, k, s, p)
      PROVE  Laid(ls, ws, bs, vs, k, s, p)'
  <2>1. Follows(vs, bs)'
    BY <1>8, <1>9 DEF Laid, Follows
  <2>2. Lists(bs, TileSet)'
    BY <1>7, <1>9 DEF Laid, Lists
  <2>3. QED
    BY <1>9, <2>1, <2>2 DEF Laid
<1>10. QED
  BY <1>2, <1>3, <1>4, <1>9

-----------------------------------------------------------------------------
(* Queues that hold a part of a sequence.                                  *)
Part(T, q, seq, lo, hi) ==
    /\ q \in Seq(T) /\ lo \in Nat /\ hi \in Nat /\ lo <= hi
    /\ Len(q) = hi - lo
    /\ \A n \in 1 .. hi - lo : q[n] = seq[lo + n]

LEMMA PartTaken ==
    ASSUME NEW T, NEW q, NEW seq, NEW lo, NEW hi, Part(T, q, seq, lo, hi), q # <<>>
    PROVE  /\ lo < hi /\ Head(q) = seq[lo + 1] /\ Head(q) \in T
           /\ Part(T, Tail(q), seq, lo + 1, hi)
<1>1. /\ q \in Seq(T) /\ lo \in Nat /\ hi \in Nat /\ lo <= hi /\ Len(q) = hi - lo
      /\ \A n \in 1 .. hi - lo : q[n] = seq[lo + n]
  BY DEF Part
<1>2. Len(q) > 0 /\ Head(q) = q[1] /\ Head(q) \in T
  BY <1>1, EmptySeq, LenProperties, HeadTailProperties
<1>3. lo < hi /\ 1 \in 1 .. hi - lo /\ lo + 1 \in Nat /\ lo + 1 <= hi
  BY <1>1, <1>2
<1>4. /\ Tail(q) \in Seq(T) /\ Len(Tail(q)) = hi - (lo + 1)
      /\ \A n \in 1 .. Len(Tail(q)) : Tail(q)[n] = q[n + 1]
  BY <1>1, HeadTailProperties
<1>5. ASSUME NEW n \in 1 .. hi - (lo + 1) PROVE Tail(q)[n] = seq[lo + 1 + n]
  <2>1. n \in 1 .. Len(Tail(q)) /\ n + 1 \in 1 .. hi - lo /\ lo + (n + 1) = lo + 1 + n
    BY <1>1, <1>4
  <2>2. QED
    BY <2>1, <1>1, <1>4
<1>6. QED
  BY <1>1, <1>2, <1>3, <1>4, <1>5 DEF Part

LEMMA PartAdded ==
    ASSUME NEW T, NEW q, NEW seq, NEW lo, NEW hi, Part(T, q, seq, lo, hi),
           NEW e \in T, e = seq[hi + 1]
    PROVE  Part(T, Append(q, e), seq, lo, hi + 1)
<1>1. /\ q \in Seq(T) /\ lo \in Nat /\ hi \in Nat /\ lo <= hi /\ Len(q) = hi - lo
      /\ \A n \in 1 .. hi - lo : q[n] = seq[lo + n]
  BY DEF Part
<1>2. /\ Append(q, e) \in Seq(T) /\ Len(Append(q, e)) = hi + 1 - lo
      /\ \A n \in 1 .. Len(q) : Append(q, e)[n] = q[n]
      /\ Append(q, e)[Len(q) + 1] = e
  BY <1>1, AppendProperties
<1>3. ASSUME NEW n \in 1 .. hi + 1 - lo PROVE Append(q, e)[n] = seq[lo + n]
  <2>1. CASE n <= hi - lo
    BY <2>1, <1>1, <1>2
  <2>2. CASE n > hi - lo
    <3>1. n = Len(q) + 1 /\ lo + n = hi + 1
      BY <2>2, <1>1
    <3>2. QED
      BY <3>1, <1>2
  <2>3. QED
    BY <2>1, <2>2, <1>1
<1>4. QED
  BY <1>1, <1>2, <1>3 DEF Part

-----------------------------------------------------------------------------
(* Where a walk along the layout is: i loads issued, j jobs done, and h    *)
(* scores of the job at hand.                                              *)
Ahead(ws, j, h) ==
    /\ work \in Seq(Jobs)
    /\ h = 0 => Part(Jobs, work, ws, j, Len(ws))
    /\ h = 1 => /\ work # <<>> /\ Part(Jobs, Tail(work), ws, j + 1, Len(ws))
                /\ Head(work).score = Nothing /\ Head(work).pv = ws[j + 1].pv
                /\ ws[j + 1].score # Nothing /\ ws[j + 1].pv # Nothing

CountedTo(vs, n) ==
    counted = [x \in Pairs |-> IF \E a \in 1 .. n : Times(vs[a], x[1], x[2]) = 1
                               THEN 1 ELSE 0]

At(ls, ws, bs, vs, k, s, p, i, j, h) ==
    /\ i \in 0 .. Len(ls) /\ j \in 0 .. Len(ws) /\ h \in 0 .. 1
    /\ h = 1 => j < Len(ws)
    /\ Part(Loads, loads, ls, i, Len(ls))
    /\ Ahead(ws, j, h)
    /\ Part(Int, kq, bs, s[j] + h, k[i])
    /\ Part(Int, vq, bs, p[j], i - k[i])
    /\ CountedTo(vs, s[j] + h)

WalkInv ==
    /\ TileOK
    /\ \E ls, ws, bs, vs, k, s, p :
         /\ Laid(ls, ws, bs, vs, k, s, p)
         /\ \E i, j, h : At(ls, ws, bs, vs, k, s, p, i, j, h)

LEMMA LaidTypes ==
    ASSUME NEW ls, NEW ws, NEW bs, NEW vs, NEW k, NEW s, NEW p,
           Laid(ls, ws, bs, vs, k, s, p)
    PROVE  /\ ls \in Seq(Loads) /\ ws \in Seq(Jobs) /\ bs \in Seq(Int) /\ vs \in Seq(Visits)
           /\ Len(ls) \in Nat /\ Len(ws) \in Nat /\ Len(bs) \in Nat
           /\ Len(ls) = 2 * Len(bs) /\ Len(vs) = Len(bs)
           /\ k \in [0 .. Len(ls) -> 0 .. Len(bs)] /\ k[0] = 0 /\ k[Len(ls)] = Len(bs)
           /\ s \in [0 .. Len(ws) -> 0 .. Len(bs)] /\ s[0] = 0 /\ s[Len(ws)] = Len(bs)
           /\ p \in [0 .. Len(ws) -> 0 .. Len(bs)] /\ p[0] = 0 /\ p[Len(ws)] = Len(bs)
<1>1. Serves(ls, bs, k) /\ Plays(ws, vs, s, p) /\ Follows(vs, bs)
  BY DEF Laid
<1>2. Len(vs) = Len(bs)
  BY <1>1 DEF Follows
<1>3. QED
  BY <1>1, <1>2, LenProperties DEF Serves, Plays, Counts

(* The block a visit is of comes up once, so a pair does. *)
NoneTwice(bs, vs) ==
    \A row, key : \A a, b \in 1 .. Len(bs) :
        Times(vs[a], row, key) = 1 /\ Times(vs[b], row, key) = 1 => a = b

LEMMA TakenOnce ==
    ASSUME NEW ls, NEW ws, NEW bs, NEW vs, NEW k, NEW s, NEW p,
           Laid(ls, ws, bs, vs, k, s, p)
    PROVE  NoneTwice(bs, vs)
<1> SUFFICES ASSUME NEW row, NEW key, NEW a \in 1 .. Len(bs), NEW b \in 1 .. Len(bs),
                    Times(vs[a], row, key) = 1, Times(vs[b], row, key) = 1
             PROVE  a = b
  BY DEF NoneTwice
<1>1. key \div c.tn = Most(vs[a].block, 0) /\ key \div c.tn = Most(vs[b].block, 0)
  BY DEF Times
<1>2. vs[a].block = bs[a] /\ vs[b].block = bs[b]
  BY DEF Laid, Follows
<1>3. Most(bs[a], 0) = Most(bs[b], 0)
  BY <1>1, <1>2
<1>4. QED
  BY <1>3 DEF Laid, Lists

LEMMA LoadKStep ==
    ASSUME NEW ls, NEW ws, NEW bs, NEW vs, NEW k, NEW s, NEW p,
           Laid(ls, ws, bs, vs, k, s, p),
           NEW i, NEW j, NEW h, At(ls, ws, bs, vs, k, s, p, i, j, h), LoadK
    PROVE  At(ls, ws, bs, vs, k, s, p, i + 1, j, h)'
<1>1. /\ loads # <<>> /\ Head(loads)[1] = "K"
      /\ kq' = Append(kq, Head(loads)[2]) /\ loads' = Tail(loads)
      /\ work' = work /\ vq' = vq /\ counted' = counted /\ UNCHANGED <<c, m, overlap>>
  BY DEF LoadK
<1>2. /\ i \in 0 .. Len(ls) /\ j \in 0 .. Len(ws) /\ h \in 0 .. 1
      /\ h = 1 => j < Len(ws)
      /\ Part(Loads, loads, ls, i, Len(ls)) /\ Ahead(ws, j, h)
      /\ Part(Int, kq, bs, s[j] + h, k[i]) /\ Part(Int, vq, bs, p[j], i - k[i])
      /\ CountedTo(vs, s[j] + h)
  BY DEF At
<1>3. /\ i < Len(ls) /\ Head(loads) = ls[i + 1] /\ Head(loads) \in Loads
      /\ Part(Loads, Tail(loads), ls, i + 1, Len(ls))
  BY <1>1, <1>2, PartTaken
<1>4. /\ Len(ls) \in Nat /\ bs \in Seq(Int) /\ Len(bs) \in Nat
      /\ k \in [0 .. Len(ls) -> 0 .. Len(bs)]
  BY LaidTypes
<1>5. i \in 0 .. Len(ls) - 1 /\ i + 1 \in 0 .. Len(ls) /\ i \in Int
  BY <1>2, <1>3, <1>4
<1>6. /\ k[i] < Len(bs) /\ k[i + 1] = k[i] + 1
      /\ ls[i + 1] = K(bs[k[i] + 1])
  <2>1. ~(ls[i + 1] = V(bs[i - k[i] + 1]))
    BY <1>1, <1>3 DEF V
  <2>2. Serves(ls, bs, k)
    BY DEF Laid
  <2>3. \/ /\ k[i] < Len(bs) /\ k[i + 1] = k[i] + 1
           /\ ls[i + 1] = K(bs[k[i] + 1])
        \/ /\ i - k[i] \in 0 .. Len(bs) - 1 /\ k[i + 1] = k[i]
           /\ ls[i + 1] = V(bs[i - k[i] + 1])
    BY <1>5, <2>2, Zenon DEF Serves
  <2>4. QED
    BY <2>1, <2>3, Zenon
<1>7. Head(loads)[2] = bs[k[i] + 1] /\ bs[k[i] + 1] \in Int
  <2>1. k[i] + 1 \in 1 .. Len(bs)
    <3>1. k[i] \in 0 .. Len(bs)
      BY <1>2, <1>4
    <3>2. QED
      BY <3>1, <1>4, <1>6
  <2>2. bs[k[i] + 1] \in Int
    BY <1>4, <2>1, ElementOfSeq
  <2>3. QED
    BY <1>3, <1>6, <2>2 DEF K
<1>8. Part(Int, kq', bs, s[j] + h, k[i + 1])
  <2>1. Part(Int, Append(kq, bs[k[i] + 1]), bs, s[j] + h, k[i] + 1)
    BY <1>2, <1>7, PartAdded
  <2>2. QED
    BY <1>1, <1>6, <1>7, <2>1
<1>9. (i + 1) - k[i + 1] = i - k[i]
  <2>1. k[i] \in 0 .. Len(bs)
    BY <1>2, <1>4
  <2>2. QED
    BY <1>4, <1>5, <1>6, <2>1
<1>10. Ahead(ws, j, h)'
  BY <1>1, <1>2 DEF Ahead
<1>11. CountedTo(vs, s[j] + h)'
  BY <1>1, <1>2, SameTile DEF CountedTo
<1>12. Part(Loads, loads', ls, i + 1, Len(ls)) /\ Part(Int, vq', bs, p[j], (i + 1) - k[i + 1])
  BY <1>1, <1>2, <1>3, <1>9
<1>13. QED
  BY <1>2, <1>5, <1>8, <1>10, <1>11, <1>12 DEF At

LEMMA LoadVStep ==
    ASSUME NEW ls, NEW ws, NEW bs, NEW vs, NEW k, NEW s, NEW p,
           Laid(ls, ws, bs, vs, k, s, p),
           NEW i, NEW j, NEW h, At(ls, ws, bs, vs, k, s, p, i, j, h), LoadV
    PROVE  At(ls, ws, bs, vs, k, s, p, i + 1, j, h)'
<1>1. /\ loads # <<>> /\ Head(loads)[1] = "V"
      /\ vq' = Append(vq, Head(loads)[2]) /\ loads' = Tail(loads)
      /\ work' = work /\ kq' = kq /\ counted' = counted /\ UNCHANGED <<c, m, overlap>>
  BY DEF LoadV
<1>2. /\ i \in 0 .. Len(ls) /\ j \in 0 .. Len(ws) /\ h \in 0 .. 1
      /\ h = 1 => j < Len(ws)
      /\ Part(Loads, loads, ls, i, Len(ls)) /\ Ahead(ws, j, h)
      /\ Part(Int, kq, bs, s[j] + h, k[i]) /\ Part(Int, vq, bs, p[j], i - k[i])
      /\ CountedTo(vs, s[j] + h)
  BY DEF At
<1>3. /\ i < Len(ls) /\ Head(loads) = ls[i + 1] /\ Head(loads) \in Loads
      /\ Part(Loads, Tail(loads), ls, i + 1, Len(ls))
  BY <1>1, <1>2, PartTaken
<1>4. /\ Len(ls) \in Nat /\ bs \in Seq(Int) /\ Len(bs) \in Nat
      /\ k \in [0 .. Len(ls) -> 0 .. Len(bs)]
  BY LaidTypes
<1>5. i \in 0 .. Len(ls) - 1 /\ i + 1 \in 0 .. Len(ls) /\ i \in Int
  BY <1>2, <1>3, <1>4
<1>6. /\ i - k[i] \in 0 .. Len(bs) - 1 /\ k[i + 1] = k[i]
      /\ ls[i + 1] = V(bs[i - k[i] + 1])
  <2>1. ~(ls[i + 1] = K(bs[k[i] + 1]))
    BY <1>1, <1>3 DEF K
  <2>2. Serves(ls, bs, k)
    BY DEF Laid
  <2>3. \/ /\ k[i] < Len(bs) /\ k[i + 1] = k[i] + 1
           /\ ls[i + 1] = K(bs[k[i] + 1])
        \/ /\ i - k[i] \in 0 .. Len(bs) - 1 /\ k[i + 1] = k[i]
           /\ ls[i + 1] = V(bs[i - k[i] + 1])
    BY <1>5, <2>2, Zenon DEF Serves
  <2>4. QED
    BY <2>1, <2>3, Zenon
<1>7. Head(loads)[2] = bs[i - k[i] + 1] /\ bs[i - k[i] + 1] \in Int
  <2>1. i - k[i] + 1 \in 1 .. Len(bs)
    <3>1. PICK a \in 0 .. Len(bs) - 1 : a = i - k[i]
      BY <1>6
    <3>2. a + 1 \in 1 .. Len(bs)
      BY <1>4
    <3>3. QED
      BY <3>1, <3>2
  <2>2. bs[i - k[i] + 1] \in Int
    BY <1>4, <2>1, ElementOfSeq
  <2>3. QED
    BY <1>3, <1>6, <2>2 DEF V
<1>8. (i + 1) - k[i + 1] = i - k[i] + 1
  <2>1. k[i] \in 0 .. Len(bs)
    BY <1>2, <1>4
  <2>2. PICK a \in 0 .. Len(bs) : a = k[i]
    BY <2>1
  <2>3. k[i + 1] = a /\ i \in Int /\ a \in Int
    BY <1>4, <1>5, <1>6, <2>2
  <2>4. QED
    BY <2>2, <2>3
<1>9. Part(Int, vq', bs, p[j], (i + 1) - k[i + 1])
  <2>1. Part(Int, Append(vq, bs[i - k[i] + 1]), bs, p[j], i - k[i] + 1)
    BY <1>2, <1>7, PartAdded
  <2>2. QED
    BY <1>1, <1>7, <1>8, <2>1
<1>10. Ahead(ws, j, h)'
  BY <1>1, <1>2 DEF Ahead
<1>11. CountedTo(vs, s[j] + h)'
  BY <1>1, <1>2, SameTile DEF CountedTo
<1>12. Part(Loads, loads', ls, i + 1, Len(ls)) /\ Part(Int, kq', bs, s[j] + h, k[i + 1])
  BY <1>1, <1>2, <1>3, <1>6
<1>13. QED
  BY <1>2, <1>5, <1>9, <1>10, <1>11, <1>12 DEF At

(* One more block has been scored. *)
LEMMA CountedOneMore ==
    ASSUME NEW ls, NEW ws, NEW bs, NEW vs, NEW k, NEW s, NEW p,
           Laid(ls, ws, bs, vs, k, s, p),
           NEW n \in 0 .. Len(bs) - 1, CountedTo(vs, n), UNCHANGED <<c, m, overlap>>,
           counted' = [x \in Pairs |-> counted[x] + Times(vs[n + 1], x[1], x[2])]
    PROVE  CountedTo(vs, n + 1)'
<1>0. NoneTwice(bs, vs)
  BY TakenOnce, Zenon
<1>1. Len(bs) \in Nat
  BY LaidTypes
<1>2. ASSUME NEW x \in Pairs
      PROVE  counted[x] + Times(vs[n + 1], x[1], x[2])
               = IF \E a \in 1 .. n + 1 : Times(vs[a], x[1], x[2]) = 1 THEN 1 ELSE 0
  <2> DEFINE t(a) == Times(vs[a], x[1], x[2])
  <2>1. counted[x] = IF \E a \in 1 .. n : t(a) = 1 THEN 1 ELSE 0
    BY DEF CountedTo
  <2>2. \A a : t(a) = 0 \/ t(a) = 1
    BY DEF Times
  <2>3. \A a, b \in 1 .. Len(bs) : t(a) = 1 /\ t(b) = 1 => a = b
    <3> SUFFICES ASSUME NEW a \in 1 .. Len(bs), NEW b \in 1 .. Len(bs), t(a) = 1, t(b) = 1
                 PROVE  a = b
      OBVIOUS
    <3>1. Times(vs[a], x[1], x[2]) = 1 /\ Times(vs[b], x[1], x[2]) = 1
      OBVIOUS
    <3>2. QED
      BY <1>0, <3>1, Zenon DEF NoneTwice
  <2>4. n + 1 \in 1 .. Len(bs) /\ \A a \in 1 .. n : a \in 1 .. Len(bs) /\ a # n + 1
    BY <1>1
  <2>5. \A a \in 1 .. n + 1 : a \in 1 .. n \/ a = n + 1
    OBVIOUS
  <2>6. \A a \in 1 .. n : a \in 1 .. n + 1
    OBVIOUS
  <2>7. n + 1 \in 1 .. n + 1
    OBVIOUS
  <2> HIDE DEF t
  <2>8. CASE t(n + 1) = 1
    <3>1. ~\E a \in 1 .. n : t(a) = 1
      BY <2>3, <2>4, <2>8
    <3>2. counted[x] = 0
      BY <2>1, <3>1
    <3>3. \E a \in 1 .. n + 1 : t(a) = 1
      BY <2>7, <2>8
    <3>4. counted[x] + t(n + 1) = IF \E a \in 1 .. n + 1 : t(a) = 1 THEN 1 ELSE 0
      BY <2>8, <3>2, <3>3
    <3>5. QED
      BY <3>4 DEF t
  <2>9. CASE t(n + 1) = 0
    <3>1. (\E a \in 1 .. n : t(a) = 1) <=> (\E a \in 1 .. n + 1 : t(a) = 1)
      BY <2>5, <2>6, <2>9
    <3>2. counted[x] + t(n + 1) = IF \E a \in 1 .. n + 1 : t(a) = 1 THEN 1 ELSE 0
      BY <2>1, <2>9, <3>1
    <3>3. QED
      BY <3>2 DEF t
  <2>10. QED
    BY <2>2, <2>8, <2>9
<1>3. counted' = [x \in Pairs |-> IF \E a \in 1 .. n + 1 : Times(vs[a], x[1], x[2]) = 1
                                  THEN 1 ELSE 0]
  BY <1>2
<1>4. QED
  BY <1>3, SameTile DEF CountedTo

LEMMA ScoreStep ==
    ASSUME NEW ls, NEW ws, NEW bs, NEW vs, NEW k, NEW s, NEW p,
           Laid(ls, ws, bs, vs, k, s, p),
           NEW i, NEW j, NEW h, At(ls, ws, bs, vs, k, s, p, i, j, h), Score
    PROVE  \E j2, h2 : At(ls, ws, bs, vs, k, s, p, i, j2, h2)'
<1>1. /\ work # <<>> /\ Head(work).score # Nothing /\ kq # <<>>
      /\ kq' = Tail(kq)
      /\ counted' = [x \in Pairs |->
                       counted[x] + Times(Head(work).score[1], x[1], x[2])]
      /\ work' = IF Head(work).pv = Nothing THEN Tail(work)
                 ELSE [work EXCEPT ![1].score = Nothing]
      /\ loads' = loads /\ vq' = vq /\ UNCHANGED <<c, m, overlap>>
  BY DEF Score
<1>2. /\ i \in 0 .. Len(ls) /\ j \in 0 .. Len(ws) /\ h \in 0 .. 1
      /\ Part(Loads, loads, ls, i, Len(ls)) /\ Ahead(ws, j, h)
      /\ Part(Int, kq, bs, s[j] + h, k[i]) /\ Part(Int, vq, bs, p[j], i - k[i])
      /\ CountedTo(vs, s[j] + h)
  BY DEF At
<1>3. /\ Len(ls) \in Nat /\ Len(ws) \in Nat /\ Len(bs) \in Nat
      /\ k \in [0 .. Len(ls) -> 0 .. Len(bs)]
      /\ s \in [0 .. Len(ws) -> 0 .. Len(bs)]
      /\ p \in [0 .. Len(ws) -> 0 .. Len(bs)]
  BY LaidTypes
<1>4. h = 0 /\ Part(Jobs, work, ws, j, Len(ws)) /\ work \in Seq(Jobs)
  <2>1. h # 1
    BY <1>1, <1>2 DEF Ahead
  <2>2. h = 0
    BY <1>2, <2>1
  <2>3. QED
    BY <1>2, <2>2 DEF Ahead
<1>5. /\ j < Len(ws) /\ Head(work) = ws[j + 1] /\ Head(work) \in Jobs
      /\ Part(Jobs, Tail(work), ws, j + 1, Len(ws))
  BY <1>1, <1>4, PartTaken
<1>6. j \in 0 .. Len(ws) - 1 /\ j + 1 \in 0 .. Len(ws) /\ j \in Nat
  BY <1>2, <1>3, <1>5
<1>7. PlaysJob(ws, vs, s, p, j)
  BY <1>6 DEF Laid, Plays
<1>8. /\ s[j] \in 0 .. Len(bs) /\ s[j] < Len(bs) /\ s[j + 1] = s[j] + 1
      /\ ws[j + 1].score = <<vs[s[j] + 1]>>
  <2>1. Len(vs) = Len(bs)
    BY LaidTypes
  <2>2. s[j] \in 0 .. Len(bs)
    BY <1>2, <1>3
  <2>3. QED
    BY <1>1, <1>5, <1>7, <2>1, <2>2 DEF PlaysJob
<1>9. s[j] + h = s[j] /\ s[j] \in 0 .. Len(bs) - 1
  BY <1>3, <1>4, <1>8
<1>10. Part(Int, kq', bs, s[j] + 1, k[i])
  <2>1. Part(Int, kq, bs, s[j], k[i])
    BY <1>2, <1>9
  <2>2. QED
    BY <1>1, <2>1, PartTaken
<1>11. CountedTo(vs, s[j] + 1)'
  <2>1. Head(work).score[1] = vs[s[j] + 1]
    BY <1>5, <1>8
  <2>2. counted' = [x \in Pairs |-> counted[x] + Times(vs[s[j] + 1], x[1], x[2])]
    BY <1>1, <2>1
  <2>3. CountedTo(vs, s[j])
    BY <1>2, <1>9
  <2>4. UNCHANGED <<c, m, overlap>>
    BY <1>1
  <2>5. PICK n \in 0 .. Len(bs) - 1 : n = s[j]
    BY <1>9
  <2>6. CountedTo(vs, n + 1)'
    BY <2>2, <2>3, <2>4, <2>5, CountedOneMore
  <2>7. QED
    BY <2>5, <2>6
<1>12. CASE Head(work).pv = Nothing
  <2>1. p[j + 1] = p[j]
    BY <1>5, <1>7, <1>12 DEF PlaysJob, Nothing
  <2>2. Ahead(ws, j + 1, 0)'
    <3>1. work' = Tail(work) /\ Tail(work) \in Seq(Jobs)
      BY <1>1, <1>5, <1>12 DEF Part
    <3>2. QED
      BY <1>5, <3>1 DEF Ahead
  <2>3. s[j + 1] + 0 = s[j] + 1
    BY <1>8
  <2>4. At(ls, ws, bs, vs, k, s, p, i, j + 1, 0)'
    BY <1>1, <1>2, <1>6, <1>10, <1>11, <2>1, <2>2, <2>3 DEF At
  <2>5. QED
    BY <2>4
<1>13. CASE Head(work).pv # Nothing
  <2>1. work' = [work EXCEPT ![1].score = Nothing]
    BY <1>1, <1>13
  <2>2. /\ work' \in Seq(Jobs) /\ work' # <<>> /\ Tail(work') = Tail(work)
        /\ Head(work').score = Nothing /\ Head(work').pv = Head(work).pv
    <3>1. Len(work) \in Nat /\ Len(work) > 0 /\ Head(work) = work[1] /\ DOMAIN work = 1 .. Len(work)
      BY <1>1, <1>4, EmptySeq, LenProperties
    <3>2. PICK job \in Jobs : job = work[1]
      BY <1>5, <3>1
    <3>3. [job EXCEPT !.score = Nothing] = [score |-> Nothing, pv |-> job.pv]
      BY DEF Jobs
    <3>4. [score |-> Nothing, pv |-> job.pv] \in Jobs
      BY DEF Jobs, Nothing
    <3>5. work' = [n \in 1 .. Len(work) |->
                     IF n = 1 THEN [score |-> Nothing, pv |-> job.pv] ELSE work[n]]
      BY <2>1, <3>1, <3>2, <3>3
    <3>6. \A n \in 1 .. Len(work) : work[n] \in Jobs
      BY <1>4, ElementOfSeq
    <3>7. work' \in Seq(Jobs) /\ Len(work') = Len(work)
      BY <3>1, <3>4, <3>5, <3>6
    <3>8. work'[1] = [score |-> Nothing, pv |-> job.pv] /\ work' # <<>>
      BY <3>1, <3>5, <3>7
    <3>9. Head(work') = [score |-> Nothing, pv |-> job.pv]
      BY <3>7, <3>8
    <3>10. Tail(work') = Tail(work)
      <4>1. /\ Tail(work') \in Seq(Jobs) /\ Len(Tail(work')) = Len(work) - 1
            /\ \A n \in 1 .. Len(Tail(work')) : Tail(work')[n] = work'[n + 1]
        BY <3>7, <3>8, HeadTailProperties
      <4>2. /\ Tail(work) \in Seq(Jobs) /\ Len(Tail(work)) = Len(work) - 1
            /\ \A n \in 1 .. Len(Tail(work)) : Tail(work)[n] = work[n + 1]
        BY <1>1, <1>4, HeadTailProperties
      <4>3. \A n \in 1 .. Len(work) - 1 : work'[n + 1] = work[n + 1]
        BY <3>1, <3>5
      <4>4. \A n \in 1 .. Len(Tail(work')) : Tail(work')[n] = Tail(work)[n]
        BY <4>1, <4>2, <4>3
      <4>5. QED
        BY <4>1, <4>2, <4>4, SeqEqual
    <3>11. QED
      BY <3>1, <3>2, <3>7, <3>8, <3>9, <3>10
  <2>3. Ahead(ws, j, 1)'
    <3>1. Part(Jobs, Tail(work'), ws, j + 1, Len(ws))
      BY <1>5, <2>2
    <3>2. ws[j + 1].score # Nothing /\ ws[j + 1].pv # Nothing /\ Head(work').pv = ws[j + 1].pv
      BY <1>1, <1>5, <1>13, <2>2
    <3>3. 1 # 0
      OBVIOUS
    <3>4. QED
      BY <2>2, <3>1, <3>2, <3>3, Zenon DEF Ahead
  <2>4. At(ls, ws, bs, vs, k, s, p, i, j, 1)'
    BY <1>1, <1>2, <1>5, <1>10, <1>11, <2>3 DEF At
  <2>5. QED
    BY <2>4
<1>14. QED
  BY <1>12, <1>13

LEMMA AccumulateStep ==
    ASSUME NEW ls, NEW ws, NEW bs, NEW vs, NEW k, NEW s, NEW p,
           Laid(ls, ws, bs, vs, k, s, p),
           NEW i, NEW j, NEW h, At(ls, ws, bs, vs, k, s, p, i, j, h), Accumulate
    PROVE  At(ls, ws, bs, vs, k, s, p, i, j + 1, 0)'
<1>1. /\ work # <<>> /\ Head(work).score = Nothing /\ vq # <<>>
      /\ vq' = Tail(vq) /\ work' = Tail(work)
      /\ loads' = loads /\ kq' = kq /\ counted' = counted /\ UNCHANGED <<c, m, overlap>>
  BY DEF Accumulate
<1>2. /\ i \in 0 .. Len(ls) /\ j \in 0 .. Len(ws) /\ h \in 0 .. 1
      /\ h = 1 => j < Len(ws)
      /\ Part(Loads, loads, ls, i, Len(ls)) /\ Ahead(ws, j, h)
      /\ Part(Int, kq, bs, s[j] + h, k[i]) /\ Part(Int, vq, bs, p[j], i - k[i])
      /\ CountedTo(vs, s[j] + h)
  BY DEF At
<1>3. /\ Len(ws) \in Nat /\ Len(bs) \in Nat
      /\ s \in [0 .. Len(ws) -> 0 .. Len(bs)] /\ p \in [0 .. Len(ws) -> 0 .. Len(bs)]
  BY LaidTypes
<1>4. j < Len(ws) /\ Part(Jobs, Tail(work), ws, j + 1, Len(ws)) /\ Head(work).pv = ws[j + 1].pv
      /\ (h = 0 => ws[j + 1].score = Nothing) /\ (h = 1 => ws[j + 1].score # Nothing)
  <2>1. CASE h = 0
    <3>1. Part(Jobs, work, ws, j, Len(ws))
      BY <1>2, <2>1 DEF Ahead
    <3>2. j < Len(ws) /\ Part(Jobs, Tail(work), ws, j + 1, Len(ws)) /\ Head(work) = ws[j + 1]
      BY <1>1, <3>1, PartTaken
    <3>3. h # 1
      BY <2>1
    <3>4. QED
      BY <1>1, <3>2, <3>3, Zenon
  <2>2. CASE h = 1
    BY <1>2, <2>2 DEF Ahead
  <2>3. QED
    BY <1>2, <2>1, <2>2
<1>5. j \in 0 .. Len(ws) - 1 /\ j + 1 \in 0 .. Len(ws) /\ j \in Nat
  BY <1>2, <1>3, <1>4
<1>6. PlaysJob(ws, vs, s, p, j)
  BY <1>5 DEF Laid, Plays
<1>7. s[j] \in 0 .. Len(bs) /\ p[j] \in 0 .. Len(bs)
  BY <1>2, <1>3
<1>8. s[j + 1] + 0 = s[j] + h
  <2>1. h = 0 => s[j + 1] = s[j]
    <3>1. <<vs[s[j] + 1]>> # Nothing
      BY DEF Nothing
    <3>2. QED
      BY <1>4, <1>6, <3>1, Zenon DEF PlaysJob
  <2>2. h = 1 => s[j + 1] = s[j] + 1
    BY <1>4, <1>6, Zenon DEF PlaysJob
  <2>3. QED
    BY <1>2, <1>7, <2>1, <2>2
<1>9. p[j + 1] = p[j] + 1
  <2>1. ws[j + 1].pv # Nothing
    <3>1. CASE h = 0
      BY <1>4, <1>6, <3>1 DEF PlaysJob
    <3>2. CASE h = 1
      BY <1>2, <3>2 DEF Ahead
    <3>3. QED
      BY <1>2, <3>1, <3>2
  <2>2. QED
    BY <1>6, <1>7, <2>1 DEF PlaysJob
<1>10. Part(Int, vq', bs, p[j + 1], i - k[i])
  <2>1. Part(Int, Tail(vq), bs, p[j] + 1, i - k[i])
    BY <1>1, <1>2, PartTaken
  <2>2. QED
    BY <1>1, <1>9, <2>1
<1>11. Ahead(ws, j + 1, 0)'
  <2>1. Tail(work) \in Seq(Jobs)
    BY <1>4 DEF Part
  <2>2. QED
    BY <1>1, <1>4, <2>1 DEF Ahead
<1>12. CountedTo(vs, s[j + 1] + 0)'
  <2>1. CountedTo(vs, s[j] + h)'
    BY <1>1, <1>2, SameTile DEF CountedTo
  <2>2. QED
    BY <1>8, <2>1
<1>13. Part(Int, kq', bs, s[j + 1] + 0, k[i]) /\ Part(Loads, loads', ls, i, Len(ls))
  BY <1>1, <1>2, <1>8
<1>14. QED
  BY <1>2, <1>5, <1>10, <1>11, <1>12, <1>13 DEF At

-----------------------------------------------------------------------------
LEMMA WalkInvInit == Init => WalkInv
<1> SUFFICES ASSUME Init PROVE WalkInv
  OBVIOUS
<1>1. PICK bs, vs, k, s, p : Laid(loads, work, bs, vs, k, s, p)
  BY TileStart
<1>2. TileOK
  BY TileStart
<1>3. kq = <<>> /\ vq = <<>> /\ counted = [x \in Pairs |-> 0]
  BY DEF Init
<1>4. /\ loads \in Seq(Loads) /\ work \in Seq(Jobs) /\ Len(loads) \in Nat /\ Len(work) \in Nat
      /\ k[0] = 0 /\ s[0] = 0 /\ p[0] = 0
  BY <1>1, LaidTypes
<1>5. Part(Loads, loads, loads, 0, Len(loads)) /\ Part(Jobs, work, work, 0, Len(work))
  BY <1>4 DEF Part
<1>6. Ahead(work, 0, 0)
  BY <1>4, <1>5 DEF Ahead
<1>7. Part(Int, <<>>, bs, 0, 0)
  BY DEF Part
<1>8. s[0] + 0 = 0 /\ 0 - k[0] = 0
  BY <1>4
<1>9. CountedTo(vs, 0)
  BY <1>3 DEF CountedTo
<1>10. At(loads, work, bs, vs, k, s, p, 0, 0, 0)
  BY <1>3, <1>4, <1>5, <1>6, <1>7, <1>8, <1>9 DEF At
<1>11. QED
  BY <1>1, <1>2, <1>10, Zenon DEF WalkInv

LEMMA WalkInvNext == WalkInv /\ [Next]_vars => WalkInv'
<1> SUFFICES ASSUME WalkInv, [Next]_vars PROVE WalkInv'
  OBVIOUS
<1>1. PICK ls, ws, bs, vs, k, s, p :
        /\ Laid(ls, ws, bs, vs, k, s, p)
        /\ \E i, j, h : At(ls, ws, bs, vs, k, s, p, i, j, h)
  BY Zenon DEF WalkInv
<1>2. PICK i, j, h : At(ls, ws, bs, vs, k, s, p, i, j, h)
  BY <1>1, Zenon
<1>3. UNCHANGED <<c, m, overlap>>
  BY DEF Next, LoadK, LoadV, Score, Accumulate, Ended, vars
<1>4. TileOK'
  BY <1>3, SameTile DEF WalkInv
<1>5. Laid(ls, ws, bs, vs, k, s, p)'
  BY <1>1, <1>3, SameTile
<1>6. \E i2, j2, h2 : At(ls, ws, bs, vs, k, s, p, i2, j2, h2)'
  <2>1. CASE LoadK
    BY <1>1, <1>2, <2>1, LoadKStep, Zenon
  <2>2. CASE LoadV
    BY <1>1, <1>2, <2>2, LoadVStep, Zenon
  <2>3. CASE Score
    BY <1>1, <1>2, <2>3, ScoreStep, Zenon
  <2>4. CASE Accumulate
    BY <1>1, <1>2, <2>4, AccumulateStep, Zenon
  <2>5. CASE UNCHANGED vars
    <3>1. UNCHANGED <<loads, work, kq, vq, counted>>
      BY <2>5 DEF vars
    <3>2. Ahead(ws, j, h)' <=> Ahead(ws, j, h)
      BY <3>1 DEF Ahead
    <3>3. CountedTo(vs, s[j] + h)' <=> CountedTo(vs, s[j] + h)
      BY <3>1, <1>3, SameTile DEF CountedTo
    <3>4. At(ls, ws, bs, vs, k, s, p, i, j, h)'
      BY <1>2, <3>1, <3>2, <3>3 DEF At
    <3>5. QED
      BY <3>4
  <2>6. QED
    BY <2>1, <2>2, <2>3, <2>4, <2>5 DEF Next, Ended
<1>7. QED
  BY <1>4, <1>5, <1>6, Zenon DEF WalkInv

(* What the stages hold is the part of the blocks between the two counts,  *)
(* and so begins with the block of the visit at hand.                      *)
LEMMA WalkAgrees == WalkInv => StagesAgree
<1> SUFFICES ASSUME WalkInv, work # <<>>
             PROVE  /\ Head(work).score # Nothing /\ kq # <<>>
                         => Head(kq) = Head(work).score[1].block
                    /\ Head(work).pv # Nothing /\ vq # <<>>
                         => Head(vq) = Head(work).pv[1].block
  BY DEF StagesAgree
<1>1. PICK ls, ws, bs, vs, k, s, p :
        /\ Laid(ls, ws, bs, vs, k, s, p)
        /\ \E i, j, h : At(ls, ws, bs, vs, k, s, p, i, j, h)
  BY Zenon DEF WalkInv
<1>2. PICK i, j, h : At(ls, ws, bs, vs, k, s, p, i, j, h)
  BY <1>1, Zenon
<1>3. /\ j \in 0 .. Len(ws) /\ h \in 0 .. 1 /\ Ahead(ws, j, h) /\ (h = 1 => j < Len(ws))
      /\ Part(Int, kq, bs, s[j] + h, k[i]) /\ Part(Int, vq, bs, p[j], i - k[i])
  BY <1>2 DEF At
<1>4. /\ Len(ws) \in Nat /\ Len(bs) \in Nat /\ Len(vs) = Len(bs)
      /\ s \in [0 .. Len(ws) -> 0 .. Len(bs)] /\ p \in [0 .. Len(ws) -> 0 .. Len(bs)]
  BY <1>1, LaidTypes
<1>5. \A n \in 1 .. Len(bs) : vs[n].block = bs[n]
  BY <1>1 DEF Laid, Follows
<1>6. j < Len(ws) /\ Head(work).pv = ws[j + 1].pv
      /\ (Head(work).score # Nothing => h = 0 /\ Head(work).score = ws[j + 1].score)
  <2>1. CASE h = 0
    <3>1. Part(Jobs, work, ws, j, Len(ws))
      BY <1>3, <2>1 DEF Ahead
    <3>2. j < Len(ws) /\ Head(work) = ws[j + 1] /\ Part(Jobs, Tail(work), ws, j + 1, Len(ws))
      BY <3>1, PartTaken
    <3>3. QED
      BY <2>1, <3>2
  <2>2. CASE h = 1
    BY <1>3, <2>2 DEF Ahead
  <2>3. QED
    BY <1>3, <2>1, <2>2
<1>7. PlaysJob(ws, vs, s, p, j)
  BY <1>1, <1>3, <1>4, <1>6, j \in 0 .. Len(ws) - 1 DEF Laid, Plays
<1>8. s[j] \in 0 .. Len(bs) /\ p[j] \in 0 .. Len(bs)
  BY <1>3, <1>4
<1>9. ASSUME Head(work).score # Nothing, kq # <<>>
      PROVE  Head(kq) = Head(work).score[1].block
  <2>1. ws[j + 1].score # Nothing /\ Head(work).score = ws[j + 1].score /\ h = 0
    BY <1>6, <1>9
  <2>2. s[j] < Len(bs) /\ ws[j + 1].score = <<vs[s[j] + 1]>>
    BY <1>4, <1>7, <2>1 DEF PlaysJob
  <2>3. s[j] + 1 \in 1 .. Len(bs) /\ s[j] + h = s[j]
    BY <1>4, <1>8, <2>1, <2>2
  <2>4. Head(kq) = bs[s[j] + 1]
    <3>1. Part(Int, kq, bs, s[j], k[i])
      BY <1>3, <2>3
    <3>2. /\ s[j] < k[i] /\ Head(kq) = bs[s[j] + 1] /\ Head(kq) \in Int
          /\ Part(Int, Tail(kq), bs, s[j] + 1, k[i])
      BY <1>9, <3>1, PartTaken, Zenon
    <3>3. QED
      BY <3>2
  <2>5. vs[s[j] + 1].block = bs[s[j] + 1]
    BY <1>5, <2>3
  <2>6. QED
    BY <2>1, <2>2, <2>4, <2>5
<1>10. ASSUME Head(work).pv # Nothing, vq # <<>>
       PROVE  Head(vq) = Head(work).pv[1].block
  <2>1. ws[j + 1].pv # Nothing /\ Head(work).pv = ws[j + 1].pv
    BY <1>6, <1>10
  <2>2. p[j] < Len(bs) /\ ws[j + 1].pv = <<vs[p[j] + 1]>>
    BY <1>4, <1>7, <2>1 DEF PlaysJob
  <2>3. p[j] + 1 \in 1 .. Len(bs)
    BY <1>4, <1>8, <2>2
  <2>4. Head(vq) = bs[p[j] + 1]
    <3>0. Part(Int, vq, bs, p[j], i - k[i])
      BY <1>3
    <3>1. /\ p[j] < i - k[i] /\ Head(vq) = bs[p[j] + 1] /\ Head(vq) \in Int
          /\ Part(Int, Tail(vq), bs, p[j] + 1, i - k[i])
      BY <1>10, <3>0, PartTaken, Zenon
    <3>2. QED
      BY <3>1
  <2>5. vs[p[j] + 1].block = bs[p[j] + 1]
    BY <1>5, <2>3
  <2>6. QED
    BY <2>1, <2>2, <2>4, <2>5
<1>11. QED
  BY <1>9, <1>10

(* A visit's mask is exact in its block; the blocks cover what the tile    *)
(* may attend to.                                                          *)
LEMMA WalkExact == WalkInv => ExactlyItsPairs
<1> SUFFICES ASSUME WalkInv, NEW x \in Pairs
             PROVE  IF Attends(c, x[1] \div c.pack, x[2])
                    THEN counted[x] <= 1 /\ (work = <<>> => counted[x] = 1)
                    ELSE counted[x] = 0
  BY DEF ExactlyItsPairs
<1>1. PICK ls, ws, bs, vs, k, s, p :
        /\ Laid(ls, ws, bs, vs, k, s, p)
        /\ \E i, j, h : At(ls, ws, bs, vs, k, s, p, i, j, h)
  BY Zenon DEF WalkInv
<1>2. PICK i, j, h : At(ls, ws, bs, vs, k, s, p, i, j, h)
  BY <1>1, Zenon
<1>3. /\ j \in 0 .. Len(ws) /\ h \in 0 .. 1 /\ Ahead(ws, j, h)
      /\ CountedTo(vs, s[j] + h) /\ Part(Int, kq, bs, s[j] + h, k[i]) /\ i \in 0 .. Len(ls)
  BY <1>2 DEF At
<1>4. /\ Len(ls) \in Nat /\ Len(ws) \in Nat /\ Len(bs) \in Nat /\ Len(vs) = Len(bs)
      /\ k \in [0 .. Len(ls) -> 0 .. Len(bs)] /\ s[Len(ws)] = Len(bs)
  BY <1>1, LaidTypes
<1>5. TileOK
  BY DEF WalkInv
<1> DEFINE row == x[1]
           key == x[2]
           q   == row \div c.pack
<1>6. row \in Rows /\ key \in Nat
  <2>1. NumN(c) * c.tn \in Nat
    BY <1>5, Sizes, KeyTypes DEF TileOK
  <2>2. row \in Rows /\ key \in Keys
    BY DEF Pairs
  <2>3. QED
    BY <2>1, <2>2 DEF Keys
<1> HIDE DEF row, key
<1>7. OfTile(q) /\ key \div c.tn \in Nat /\ OfBlock(key, key \div c.tn)
  BY <1>5, <1>6, QueryOfRow, BlockOfKey
<1>8. counted[x] = IF \E a \in 1 .. s[j] + h : Times(vs[a], row, key) = 1 THEN 1 ELSE 0
  BY <1>3 DEF CountedTo, row, key
<1>9. \A a \in 1 .. s[j] + h : a \in 1 .. Len(bs)
  <2>1. k[i] \in 0 .. Len(bs) /\ s[j] + h \in Nat /\ s[j] + h <= k[i]
    BY <1>3, <1>4 DEF Part
  <2>2. QED
    BY <2>1, <1>4
<1>10. ASSUME NEW a \in 1 .. Len(bs)
       PROVE  Times(vs[a], row, key) = 1
                <=> key \div c.tn = Most(bs[a], 0) /\ Attends(c, q, key)
  <2>1. vs[a].block = bs[a] /\ Exact(vs[a])
    BY <1>1 DEF Laid, Follows
  <2>2. CASE key \div c.tn = Most(bs[a], 0)
    <3>1. Kept(c, vs[a].seqlen, vs[a].mask, q, key) <=> Attends(c, q, key)
      BY <1>7, <2>1, <2>2 DEF Exact
    <3>2. QED
      BY <2>1, <2>2, <3>1 DEF Times
  <2>3. CASE key \div c.tn # Most(bs[a], 0)
    BY <2>1, <2>3 DEF Times
  <2>4. QED
    BY <2>2, <2>3
<1>11. CASE ~Attends(c, q, key)
  <2>1. ~\E a \in 1 .. s[j] + h : Times(vs[a], row, key) = 1
    BY <1>9, <1>10, <1>11
  <2>2. counted[x] = 0
    BY <1>8, <2>1
  <2>3. QED
    BY <1>11, <2>2 DEF row, key
<1>12. CASE Attends(c, q, key)
  <2>1. counted[x] <= 1
    BY <1>8
  <2>2. ASSUME work = <<>> PROVE counted[x] = 1
    <3>1. s[j] + h = Len(bs)
      <4>1. h # 1
        BY <1>3, <2>2 DEF Ahead
      <4>2. h = 0
        BY <1>3, <4>1
      <4>3. Part(Jobs, work, ws, j, Len(ws))
        BY <1>3, <4>2 DEF Ahead
      <4>4. j = Len(ws)
        BY <1>3, <1>4, <2>2, <4>3 DEF Part
      <4>5. QED
        BY <1>4, <4>2, <4>4
    <3>2. key \div c.tn \in TileSet
      BY <1>5, <1>6, <1>7, <1>12, TileBlocks DEF TileSet
    <3>3. PICK a \in 1 .. Len(bs) : Most(bs[a], 0) = key \div c.tn
      BY <1>1, <3>2 DEF Laid, Lists
    <3>4. Times(vs[a], row, key) = 1
      BY <1>10, <1>12, <3>3
    <3>5. \E b \in 1 .. s[j] + h : Times(vs[b], row, key) = 1
      BY <3>1, <3>4
    <3>6. QED
      BY <1>8, <3>5
  <2>3. QED
    BY <1>12, <2>1, <2>2 DEF row, key
<1>13. QED
  BY <1>11, <1>12

(* The invariant both theorems rest on: the queues, what is left to load   *)
(* and to do, and what has been accounted for are parts of one layout.     *)
THEOREM WalkInductive == Spec => []WalkInv
<1>1. QED
  BY WalkInvInit, WalkInvNext, PTL DEF Spec

(* Producer and consumers are at the same block in every stage, K and V,   *)
(* with and without overlap, for every problem and depth of the pipelines. *)
THEOREM WalkStagesAgree == Spec => []StagesAgree
<1>1. QED
  BY WalkInductive, WalkAgrees, PTL

(* A query tile accounts for every pair its mask allows once, and for no   *)
(* other pair, whichever of the kernel's masks each block was taken with.  *)
THEOREM WalkExactlyItsPairs == Spec => []ExactlyItsPairs
<1>1. QED
  BY WalkInductive, WalkExact, PTL
=============================================================================
