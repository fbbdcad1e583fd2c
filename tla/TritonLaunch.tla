---------------------------- MODULE TritonLaunch ----------------------------
(***************************************************************************)
(* The calls of the Triton backend: the tensors a host function allocates, *)
(* the grids it launches, the addresses a program computes (scheduler.py,  *)
(* seqlen_info.py, paged_kv.py) and what it writes.  Which pairs a program *)
(* accumulates is that of TritonLoops; no block is dropped.                *)
(***************************************************************************)
EXTENDS LaunchPrograms

-----------------------------------------------------------------------------
(* The host functions: what they are given and allocate, and the kernels   *)
(* they launch, in the order of the stream.                                *)
Gates(a, shape) ==
    [a |-> Tensor(a, "queries"), d |-> Tensor(HeadsOfRows(1, shape, call.hkv), "keys")]
NoGates == <<>>

(* _flash_*_attn_forward: partial results of every split, if it splits. *)
ForwardCall(kernel, q, k, gates, cleared) ==
    LET rows(n)  == RowsOfHeads(n, q, call.hq)
        heads(n) == HeadsOfRows(n, q, call.hq)
        results  == [out |-> Tensor(rows(1), cleared), lse |-> Tensor(heads(1), "empty")]
        partials == [out_partial |-> Tensor(rows(call.splits), "empty"),
                     lse_partial |-> Tensor(heads(call.splits), "empty")]
    IN  [tensors |-> Given(rows(1), gates, k) @@ results
                       @@ (IF IsSplit THEN partials ELSE <<>>),
         plan    |-> <<kernel>> \o (IF IsSplit THEN <<"fwd_combine">> ELSE <<>>)]

ForwardGates(q, k) == Gates(HeadsOfRows(1, q, call.hq), k)

DenseForward        == ForwardCall("fwd_dense", Batched(call.qlens), KeyShape, NoGates, "empty")
DenseVarlenForward  == ForwardCall("fwd_dense", Concat(call.qlens), KeyShape, NoGates, "empty")
SparseForward       == ForwardCall("fwd_sparse", Batched(call.qlens), KeyShape, NoGates, "empty")
SparseVarlenForward == ForwardCall("fwd_sparse", Concat(call.qlens), KeyShape, NoGates, "empty")
GatedForward ==
    ForwardCall("fwd_gated", Batched(call.qlens), KeyShape,
                ForwardGates(Batched(call.qlens), KeyShape), "zeros")
GatedVarlenForward ==
    ForwardCall("fwd_gated", Concat(call.qlens), KeyShape,
                ForwardGates(Concat(call.qlens), KeyShape), "zeros")

(* _flash_*_attn_decode: one row per sequence, always in splits. *)
OneRow == [batches |-> Len(call.qlens), rows |-> 1]
DecodeCall(kernel, k, gates) ==
    LET rows(n) == RowsOfHeads(n, OneRow, call.hq)
    IN  [tensors |-> Given(rows(1), gates, k)
                       @@ [out |-> Tensor(rows(1), "empty"), lse |-> Tensor(rows(1), "empty"),
                           out_partial |-> Tensor(rows(call.splits), "empty"),
                           lse_partial |-> Tensor(rows(call.splits), "empty")],
         plan    |-> <<kernel, "dec_combine">>]

DecodeGates(k) == Gates(RowsOfHeads(1, OneRow, call.hq), k)

DenseDecode        == DecodeCall("dec_dense", KeyShape, NoGates)
DenseVarlenDecode  == DecodeCall("dec_dense", Concat(call.klens), NoGates)
SparseDecode       == DecodeCall("dec_sparse", KeyShape, NoGates)
SparseVarlenDecode == DecodeCall("dec_sparse", Concat(call.klens), NoGates)
GatedDecode        == DecodeCall("dec_gated", KeyShape, DecodeGates(KeyShape))
GatedVarlenDecode  == DecodeCall("dec_gated", Concat(call.klens), DecodeGates(Concat(call.klens)))

(* _flash_*_attn_backward: sums in buffers of their own, those of the      *)
(* queries padded; call.pad is the 128 they are rounded to.                *)
PaddedBatched == [batches |-> Len(call.qlens), rows |-> RoundUp(Longest(call.qlens), call.pad)]
PaddedConcatTight ==     \* mutant: no room for a tile per sequence
    [batches |-> 1, rows |-> RoundUp(Total(call.qlens), call.pad)]
PaddedConcat ==
    [batches |-> 1,
     rows |-> RoundUp(Total(call.qlens) + Len(call.qlens) * call.pad, call.pad)]

BackwardCall(kernel, q, padded, k, gates) ==
    LET qrows   == RowsOfHeads(1, q, call.hq)
        krows(n) == RowsOfHeads(n, k, call.hkv)
        sums    == HeadsOfRows(1, padded, call.hq)
        inputs  == [out |-> Tensor(qrows, "queries"), do |-> Tensor(qrows, "queries"),
                    lse |-> Tensor(HeadsOfRows(1, q, call.hq), "queries")]
        results == [dq |-> Tensor(qrows, "empty"),
                    dk |-> Tensor(krows(1), "empty"), dv |-> Tensor(krows(1), "empty")]
        buffers == [lse_log2 |-> Tensor(sums, "empty"), dpsum |-> Tensor(sums, "empty"),
                    dq_accum |-> Tensor(sums, "empty"),
                    dk_accum |-> Tensor(krows(NumSplits), "zeros"),
                    dv_accum |-> Tensor(krows(NumSplits), "zeros")]
    IN  [tensors |-> Given(qrows, gates, k) @@ inputs @@ results @@ buffers,
         plan    |-> <<"preprocess", kernel, "postprocess", "copy">>]

BackwardGates(q, padded, k) ==
    LET a    == HeadsOfRows(1, q, call.hq)
        d(n) == HeadsOfRows(n, k, call.hkv)
    IN  Gates(a, k) @@
        [da |-> Tensor(a, "empty"), dd |-> Tensor(d(1), "empty"),
         da_accum |-> Tensor(HeadsOfRows(1, padded, call.hq), "zeros"),
         dd_accum |-> Tensor(d(NumSplits), "zeros")]

DenseBackward        == BackwardCall("bwd_dense", Batched(call.qlens), PaddedBatched,
                                     Batched(call.klens), NoGates)
DenseVarlenBackward  == BackwardCall("bwd_dense", Concat(call.qlens), PaddedConcat,
                                     Concat(call.klens), NoGates)
SparseBackward       == BackwardCall("bwd_sparse", Batched(call.qlens), PaddedBatched,
                                     Batched(call.klens), NoGates)
SparseVarlenBackward == BackwardCall("bwd_sparse", Concat(call.qlens), PaddedConcat,
                                     Concat(call.klens), NoGates)
GatedBackward ==
    BackwardCall("bwd_gated", Batched(call.qlens), PaddedBatched, Batched(call.klens),
                 BackwardGates(Batched(call.qlens), PaddedBatched, Batched(call.klens)))
GatedVarlenBackward ==
    BackwardCall("bwd_gated", Concat(call.qlens), PaddedConcat, Concat(call.klens),
                 BackwardGates(Concat(call.qlens), PaddedConcat, Concat(call.klens)))

(* interface.py: the functions with a pass backward, and those that decode  *)
(* with a cache of keys.                                                   *)
PassOf(forward, backward) == IF call.pass = "fwd" THEN forward ELSE backward

FlashDenseAttnFunc        == PassOf(DenseForward, DenseBackward)
FlashDenseAttnVarlenFunc  == PassOf(DenseVarlenForward, DenseVarlenBackward)
FlashSparseAttnFunc       == PassOf(SparseForward, SparseBackward)
FlashSparseAttnVarlenFunc == PassOf(SparseVarlenForward, SparseVarlenBackward)
FlashGatedAttnFunc        == PassOf(GatedForward, GatedBackward)
FlashGatedAttnVarlenFunc  == PassOf(GatedVarlenForward, GatedVarlenBackward)

FlashDenseWithKVCache        == DenseDecode
FlashDenseVarlenWithKVCache  == DenseVarlenDecode
FlashSparseWithKVCache       == SparseDecode
FlashSparseVarlenWithKVCache == SparseVarlenDecode
FlashGatedWithKVCache        == GatedDecode
FlashGatedVarlenWithKVCache  == GatedVarlenDecode

Host ==
    LET of(dense, sparse, gated) ==
            CASE call.family = "dense" -> dense [] call.family = "sparse" -> sparse
              [] call.family = "gated" -> gated
    IN  CASE ~Decodes /\ ~call.varlen ->
               of(FlashDenseAttnFunc, FlashSparseAttnFunc, FlashGatedAttnFunc)
          [] ~Decodes /\ call.varlen ->
               of(FlashDenseAttnVarlenFunc, FlashSparseAttnVarlenFunc, FlashGatedAttnVarlenFunc)
          [] Decodes /\ ~call.varlen ->
               of(FlashDenseWithKVCache, FlashSparseWithKVCache, FlashGatedWithKVCache)
          [] Decodes /\ call.varlen ->
               of(FlashDenseVarlenWithKVCache, FlashSparseVarlenWithKVCache,
                  FlashGatedVarlenWithKVCache)

-----------------------------------------------------------------------------
(* launch_grid.py *)
FwdGrid ==
    GridOf(Tiles(Longest(call.qlens) * Pack, call.tm),
           IF Packed THEN call.hkv ELSE call.hq, Len(call.qlens) * NumSplits)
BwdGrid == GridOf(Tiles(Longest(call.klens), call.tn), call.hq, Len(call.qlens) * NumSplits)
DecGrid == GridOf(call.hkv, Len(call.qlens) * call.splits, 1)
FwdCombineGrid ==
    GridOf(Tiles(IF call.varlen THEN Total(call.qlens) ELSE Longest(call.qlens), call.tc),
           Len(call.qlens) * call.hq, 1)
DecCombineGrid    == GridOf(Len(call.qlens) * call.hq, 1, 1)
BwdPreprocessGrid == GridOf(Tiles(Longest(call.qlens), call.tm), call.hq, Len(call.qlens))
BwdPostprocessGrid == GridOf(Tiles(Longest(call.qlens), call.tm), call.hq, Len(call.qlens))

(* GridIndex.create *)
FwdIndex(pid) ==
    [block |-> pid[1], head |-> pid[2],
     kv    |-> IF Packed THEN pid[2] ELSE pid[2] \div Group,
     batch |-> pid[3] \div NumSplits, split |-> pid[3] % NumSplits]
BwdIndex(pid) ==
    [block |-> pid[1], head |-> pid[2], kv |-> pid[2] \div Group,
     batch |-> pid[3] \div NumSplits, split |-> pid[3] % NumSplits]
DecIndex(pid) ==
    [block |-> 0, head |-> pid[1], kv |-> pid[1],
     batch |-> pid[2] \div call.splits, split |-> pid[2] % call.splits]

-----------------------------------------------------------------------------
(* The addresses of a program. *)
QueryNames == {"q"} \cup (IF IsGated THEN {"a"} ELSE {})
KeyNames   == {"k", "v"} \cup (IF IsGated THEN {"d"} ELSE {})

StartOfKeys(name, x) ==
    x.kv * tensors[name].h + (IF IsPaged THEN 0 ELSE StartK(name, x.batch))

(* AttnFwdPointerScheduler.create *)
FwdPointers(x) ==
    [name \in QueryNames \cup {OutName, LseName} |->
        StartQ(name, x.batch) + (IF Packed THEN 0 ELSE x.head * tensors[name].h)
          + (IF name \in QueryNames THEN 0 ELSE x.split * tensors[name].s)]
      @@ [name \in KeyNames |-> StartOfKeys(name, x)]

(* AttnDecPointerScheduler.create: the tile is the query heads of a group. *)
DecPointers(x) ==
    [name \in QueryNames \cup {OutName, LseName} |->
        StartQ(name, x.batch) + x.head * Group * tensors[name].h
          + (IF name \in QueryNames THEN 0 ELSE x.split * tensors[name].s)]
      @@ [name \in KeyNames |-> StartOfKeys(name, x)]
DecRows == {[slot |-> g] : g \in 0 .. Group - 1}
DecCell(ptr, name, r) == ptr[name] + r.slot * tensors[name].h

(* load_k, load_v, load_d; load_paged_k, load_paged_v, load_paged_d *)
PagedCell(x, ptr, name, k) ==
    ptr[name] + PageOf(x.batch, k) * tensors[name].b + (k % call.tn) * tensors[name].m
KeyCellOf(x, ptr, name, k) ==
    IF IsPaged THEN PagedCell(x, ptr, name, k) ELSE ptr[name] + k * tensors[name].m

-----------------------------------------------------------------------------
(* How often a program accumulates a pair: the loops of TritonLoops over   *)
(* the ranges that the block schedulers give to every program of the grid. *)
Loops(p, ranges) ==
    INSTANCE TritonLoops WITH Launches <- {}, c <- p, range <- ranges,
                              pending <- {}, counted <- <<>>
Ranges(p) ==
    IF call.pass = "bwd"
    THEN [r \in (0 .. Tiles(Longest(call.klens), call.tn)) \X (0 .. NumSplits - 1) |->
             Loops(p, <<>>)!ProgramM(r[1], r[2])]
    ELSE [r \in (0 .. Tiles(Longest(call.qlens) * Pack, call.tm))
                  \X (0 .. NumSplits - 1) |->
             Loops(p, <<>>)!ProgramN(r[1], r[2])]

Times(x, p, ranges, slot, k) == Loops(p, ranges)!Times(<<x.block, x.split>>, slot, k)

(* What the rows of a program attend to: keys, or the keys of the list.   *)
Slots(x, p) == {k \in Loops(p, <<>>)!Keys : k < KeySlots(x.batch) => KeyAt(x.batch, k) >= 0}

Results(x, p, ranges, ptr, rows, cell(_, _, _), slots, queries, keys) ==
    LET key == [k \in {k \in slots : k < KeySlots(x.batch)} |->
                   Owner({Cell(n, KeyCellOf(x, ptr, n, KeyAt(x.batch, k))) : n \in keys})]
        query(r)  == Owner({Cell(n, cell(ptr, n, r)) : n \in queries})
        result(r) == Attended([k \in slots |-> Times(x, p, ranges, r.slot, k)], query(r), key)
    IN  StoreRows(ptr, rows, cell, result)

(* AttnFwdConfig.create, AttnBwdConfig.create, AttnDecConfig.create: the    *)
(* lengths, the window and the tiles of the program's sequence and head.   *)
FwdConfig(x) == Problem(x.batch, x.kv)
BwdConfig(x) == Problem(x.batch, x.kv)
DecConfig(x) == Problem(x.batch, x.kv)

Program(x, p, ptr, rows, cell(_, _, _), queries, keys) ==
    Results(x, p, Ranges(p), ptr, rows, cell, Slots(x, p), queries, keys)

FwdProgram(x, queries, keys) ==
    Program(x, FwdConfig(x), FwdPointers(x), FwdRows(x), FwdCell, queries, keys)
DecProgram(x, queries, keys) ==
    Program(x, DecConfig(x), DecPointers(x), DecRows, DecCell, queries, keys)

FwdDense(pid)  == FwdProgram(FwdIndex(pid), {"q"}, {"k", "v"})
FwdSparse(pid) == FwdProgram(FwdIndex(pid), {"q"}, {"k", "v"})
FwdGated(pid)  == FwdProgram(FwdIndex(pid), {"q", "a"}, {"k", "v", "d"})
DecDense(pid)  == DecProgram(DecIndex(pid), {"q"}, {"k", "v"})
DecSparse(pid) == DecProgram(DecIndex(pid), {"q"}, {"k", "v"})
DecGated(pid)  == DecProgram(DecIndex(pid), {"q", "a"}, {"k", "v", "d"})

-----------------------------------------------------------------------------
(* _fwd_combine_kernel, _dec_combine_kernel *)
FwdCombine(pid) == MergeRows(pid[1], pid[2] \div call.hq, pid[2] % call.hq)
DecCombine(pid) == Merge(pid[1] \div call.hq, pid[1] % call.hq, 0)

-----------------------------------------------------------------------------
(* The backward pass.  _bwd_preprocess_kernel *)
TileRowsOf(block, b) == RowsWithin(block, call.tm, SeqlenQ(b).seqlen)
Preprocess(pid) == PreprocessRows(pid[3], pid[2], TileRowsOf(pid[1], pid[3]))

(* AttnBwdPointerScheduler.create *)
BwdPointers(x) ==
    [name \in QueryNames \cup {"do"} |-> RowAt(name, x.batch, x.head, 0)]
      @@ [name \in {"lse_log2", "dpsum", "dq_accum"} \cup (IF IsGated THEN {"da_accum"} ELSE {})
             |-> PaddedAt(name, x.batch, x.head, 0)]
      @@ [name \in KeyNames |-> StartOfKeys(name, x)]
      @@ [name \in {"dk_accum", "dv_accum"} \cup (IF IsGated THEN {"dd_accum"} ELSE {})
             |-> StartOfKeys(name, x) + x.split * tensors[name].s]

BwdTerms(x, p, ranges, ptr, rows, block, queries, keys) ==
    LET of(names, i) == Owner({Cell(n, BwdCell(ptr, n, i)) : n \in names})
        query == [m \in rows |-> of(queries, m)]
        key   == [k \in block |-> of(keys, k)]
    IN  [m \in rows, k \in block |-> Term(Times(x, p, ranges, m, k), query[m], key[k])]

Touched(terms, rows, block) == {m \in rows : RowSum(terms, m, block) # {}}

BwdProgram(x, queries, keys, rowSums, keySums) ==
    LET p     == BwdConfig(x)
        ptr   == BwdPointers(x)
        rows  == 0 .. SeqlenQ(x.batch).seqlen - 1
        block == RowsWithin(x.block, call.tn, SeqlenK(x.batch).seqlen)
        stores(terms) ==
            BwdStores(ptr, terms, Touched(terms, rows, block), block, block, rowSums, keySums)
    IN  stores(BwdTerms(x, p, Ranges(p), ptr, rows, block, queries, keys))

(* A program whose block is past the end of the keys returns at once. *)
BwdDense(pid) ==
    BwdProgram(BwdIndex(pid), {"q", "do", "lse_log2", "dpsum"}, {"k", "v"},
               {"dq_accum"}, {"dk_accum", "dv_accum"})
BwdSparse(pid) ==
    BwdProgram(BwdIndex(pid), {"q", "do", "lse_log2", "dpsum"}, {"k", "v"},
               {"dq_accum"}, {"dk_accum", "dv_accum"})
BwdGated(pid) ==
    BwdProgram(BwdIndex(pid), {"q", "a", "do", "lse_log2", "dpsum"}, {"k", "v", "d"},
               {"dq_accum", "da_accum"}, {"dk_accum", "dv_accum", "dd_accum"})

(* _bwd_postprocess_kernel *)
Postprocess(pid) ==
    LET moved(from, to) == MoveRows(from, to, pid[3], pid[2], TileRowsOf(pid[1], pid[3]))
    IN  moved("dq_accum", "dq") \cup (IF IsGated THEN moved("da_accum", "da") ELSE {})

(* The host adds up the splits and copies the sums. *)
SumSplits ==
    LET moved(from, to) ==
            {Store(to, at, SumOfSplits(from, at)) : at \in 0 .. tensors[to].size - 1}
    IN  moved("dk_accum", "dk") \cup moved("dv_accum", "dv")
          \cup (IF IsGated THEN moved("dd_accum", "dd") ELSE {})

-----------------------------------------------------------------------------
Grid(kernel) ==
    CASE kernel \in {"fwd_dense", "fwd_sparse", "fwd_gated"} -> FwdGrid
      [] kernel \in {"dec_dense", "dec_sparse", "dec_gated"} -> DecGrid
      [] kernel \in {"bwd_dense", "bwd_sparse", "bwd_gated"} -> BwdGrid
      [] kernel = "fwd_combine" -> FwdCombineGrid
      [] kernel = "dec_combine" -> DecCombineGrid
      [] kernel = "preprocess"  -> BwdPreprocessGrid
      [] kernel = "postprocess" -> BwdPostprocessGrid
      [] kernel = "copy"        -> GridOf(1, 1, 1)

Effects(kernel, pid) ==
    CASE kernel = "fwd_dense"  -> FwdDense(pid)
      [] kernel = "fwd_sparse" -> FwdSparse(pid)
      [] kernel = "fwd_gated"  -> FwdGated(pid)
      [] kernel = "dec_dense"  -> DecDense(pid)
      [] kernel = "dec_sparse" -> DecSparse(pid)
      [] kernel = "dec_gated"  -> DecGated(pid)
      [] kernel = "bwd_dense"  -> BwdDense(pid)
      [] kernel = "bwd_sparse" -> BwdSparse(pid)
      [] kernel = "bwd_gated"  -> BwdGated(pid)
      [] kernel = "fwd_combine" -> FwdCombine(pid)
      [] kernel = "dec_combine" -> DecCombine(pid)
      [] kernel = "preprocess"  -> Preprocess(pid)
      [] kernel = "postprocess" -> Postprocess(pid)
      [] kernel = "copy"        -> SumSplits
=============================================================================
