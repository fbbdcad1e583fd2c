---------------------------- MODULE LaunchMemory ----------------------------
(***************************************************************************)
(* The memory a call of the interface works on: the tensors it is given or *)
(* allocates, where the kernels find the row of a sequence and a head in   *)
(* them, and what is in each cell.                                         *)
(*                                                                         *)
(* A row (head_dim numbers) is one cell.  A cell holds the set of things   *)
(* that entered its value: of an input the row of the sequence it belongs  *)
(* to, of a result the pairs of a query row and a key row that contribute. *)
(* torch.empty holds Garbage, and a value made of cells that do not belong *)
(* together, or that counts something twice, is Garbage, too.              *)
(*                                                                         *)
(* A call is a record: backend, pass ("fwd", "bwd" or "dec"), family,      *)
(* varlen, the lengths of the sequences as allocated (qlens, klens) and as *)
(* used (usedq, usedk; <<>> if all of them is), the heads hq and hkv,      *)
(* whether the rows of a group of heads share a tile (packed), the splits  *)
(* (0: none), the tiles tm, tn and, of the small kernels, tc, the kind of  *)
(* mask with a window per key head, the page table, the list of keys of    *)
(* each sequence, and how many keys the second-level cache holds (l2).     *)
(***************************************************************************)
EXTENDS BlockSplits, FiniteSets, Sequences, SequencesExt

VARIABLES
    call,       \* the call
    tensors,    \* the layouts of its tensors and of those it allocates
    memory      \* the cells of every tensor

Garbage == <<>>

Total(lens)        == FoldLeft(LAMBDA n, len : n + len, 0, lens)
Longest(lens)      == FoldLeft(Most, 0, lens)
CuSeqlens(lens, b) == Total(SubSeq(lens, 1, b))

Batches  == 0 .. Len(call.qlens) - 1
LenQ(b)  == call.qlens[b + 1]
LenK(b)  == call.klens[b + 1]
UsedQ(b) == IF call.usedq = <<>> THEN LenQ(b) ELSE call.usedq[b + 1]
UsedK(b) == IF call.usedk = <<>> THEN LenK(b) ELSE call.usedk[b + 1]

Group    == call.hq \div call.hkv
Pack     == IF call.packed THEN Group ELSE 1
IsSplit  == call.splits > 0
IsPaged  == call.pages # <<>>
IsListed == call.lists # <<>>
IsGated  == call.family = "gated"
Decodes  == call.pass = "dec"

(* HAS_CU_SEQLENS_Q, HAS_CU_SEQLENS_K; the queries of decode are one row   *)
(* per sequence, its keys may still be concatenated.                       *)
CuQ == call.varlen /\ ~Decodes
CuK == call.varlen

-----------------------------------------------------------------------------
(* Layouts.  RowsOfHeads is ([splits,] batch, row, head), HeadsOfRows is   *)
(* ([splits,] batch, head, row); concatenated sequences are one batch.     *)
Batched(lens) == [batches |-> Len(lens), rows |-> Longest(lens)]
Concat(lens)  == [batches |-> 1, rows |-> Total(lens)]

RowsOfHeads(splits, shape, heads) ==
    [size |-> splits * shape.batches * shape.rows * heads,
     s |-> shape.batches * shape.rows * heads, b |-> shape.rows * heads,
     m |-> heads, h |-> 1]

HeadsOfRows(splits, shape, heads) ==
    [RowsOfHeads(splits, shape, heads) EXCEPT !.m = 1, !.h = shape.rows]

(* Where a tensor is allocated: its layout and what it holds at first.     *)
Tensor(layout, holds) == layout @@ [holds |-> holds]

RoundUp(n, to) == ((n + to - 1) \div to) * to

-----------------------------------------------------------------------------
(* seqlen_info.py: where a sequence starts.  Tensors that are padded leave *)
(* room for one more tile per sequence, so that each starts at a tile.     *)
PaddedOffsetNoRoom(offset, b, tile) == (offset \div tile) * tile    \* mutant
PaddedOffset(offset, b, tile) == ((offset + b * tile) \div tile) * tile

SeqlenInfo(lens, used, cu, tile, b) ==
    LET offset == IF cu THEN CuSeqlens(lens, b) ELSE 0
    IN  [offset |-> offset,
         padded |-> IF cu THEN PaddedOffset(offset, b, tile) ELSE 0,
         seqlen |-> used]

SeqlenQ(b) == SeqlenInfo(call.qlens, IF Decodes THEN 1 ELSE UsedQ(b), CuQ, call.tm, b)
SeqlenK(b) == SeqlenInfo(call.klens, UsedK(b), CuK, call.tn, b)

(* offset_batch_Q, offset_batch_K *)
OffsetBatch(t, b, cu, offset) == IF cu THEN offset * t.m ELSE b * t.b

-----------------------------------------------------------------------------
(* The problem of BlockInfo that sequence b poses to the programs of a key *)
(* head; the window is one per key head.                                   *)
Window(kv) ==
    IF call.kind = "local" THEN call.windows[kv + 1]
    ELSE [sink |-> 0, left |-> 0, right |-> 0, near |-> 0]

(* A list of keys takes the place of the keys: entry k stands at slot k,   *)
(* a negative one stands for no key.                                       *)
ListOf(b)   == call.lists[b + 1]
KeyAt(b, k) == IF IsListed THEN ListOf(b)[k + 1] ELSE k
KeySlots(b) == IF IsListed THEN Len(ListOf(b)) ELSE SeqlenK(b).seqlen

Problem(b, kv) ==
    Window(kv) @@
    [sq |-> SeqlenQ(b).seqlen, sk |-> KeySlots(b), tm |-> call.tm, tn |-> call.tn,
     pack |-> Pack, kind |-> call.kind, trunc |-> TRUE, splits |-> call.splits,
     gather |-> IsListed, entries |-> KeySlots(b), kernel |-> call.pass]

-----------------------------------------------------------------------------
(* What the caller's tensors hold. *)
Row(b, h, i) == <<b, h, i>>

RowCell(t, b, h, i, cu, lens) ==
    OffsetBatch(t, b, cu, CuSeqlens(lens, b)) + i * t.m + h * t.h

PageOf(b, k) == call.pages[b + 1][k \div call.tn + 1]

KeyCell(t, b, h, i) ==
    IF IsPaged THEN PageOf(b, i) * t.b + (i % call.tn) * t.m + h * t.h
    ELSE RowCell(t, b, h, i, CuK, call.klens)

QueryRows ==
    UNION {{Row(b, h, i) : h \in 0 .. call.hq - 1,
                           i \in 0 .. (IF Decodes THEN 1 ELSE LenQ(b)) - 1} : b \in Batches}
KeyRows ==
    UNION {{Row(b, h, i) : h \in 0 .. call.hkv - 1, i \in 0 .. LenK(b) - 1} : b \in Batches}

Held(t) ==
    LET queries == {<<RowCell(t, r[1], r[2], r[3], CuQ, call.qlens), r>> : r \in QueryRows}
        keys    == {<<KeyCell(t, r[1], r[2], r[3]), r>> : r \in KeyRows}
        found(at, placed) == {p[2] : p \in {p \in placed : p[1] = at}}
    IN  [at \in 0 .. t.size - 1 |->
            CASE t.holds = "queries" -> found(at, queries)
              [] t.holds = "keys"    -> found(at, keys)
              [] t.holds = "zeros"   -> {}
              [] t.holds = "empty"   -> {Garbage}]

-----------------------------------------------------------------------------
(* Values. *)
Cell(name, at) ==
    IF at \in DOMAIN memory[name] THEN memory[name][at] ELSE {Garbage}

(* The row that all the cells belong to. *)
Owner(cells) ==
    LET rows == UNION cells
    IN  IF Cardinality(rows) = 1 /\ {} \notin cells THEN CHOOSE r \in rows : TRUE
        ELSE Garbage

Contribution(query, key) ==
    IF Garbage \in {query, key} THEN Garbage ELSE <<query, key>>

Sum(cells) ==
    LET once == \A x, y \in cells : x = y \/ x.value \cap y.value = {}
    IN  UNION {x.value : x \in cells} \cup (IF once THEN {} ELSE {Garbage})

(* The effects of a program on the memory: stores and atomic adds.         *)
Store(name, at, value)     == [name |-> name, at |-> at, add |-> FALSE, value |-> value]
AtomicAdd(name, at, value) == [name |-> name, at |-> at, add |-> TRUE, value |-> value]

After(old, effects) ==
    IF effects = {} THEN old
    ELSE LET e == CHOOSE e \in effects : TRUE
         IN  CASE Cardinality(effects) > 1 -> {Garbage}
               [] ~e.add                   -> e.value
               [] e.add -> Sum({[from |-> 0, value |-> old], [from |-> 1, value |-> e.value]})

Written(effects) ==
    [name \in DOMAIN memory |->
        LET here == {e \in effects : e.name = name}
        IN  IF here = {} THEN memory[name]
            ELSE [at \in DOMAIN memory[name] |->
                     After(memory[name][at], {e \in here : e.at = at})]]

Outside(effects) == \E e \in effects : e.at \notin DOMAIN memory[e.name]

=============================================================================
