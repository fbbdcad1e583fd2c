----------------------------- MODULE GluonLaunch -----------------------------
(***************************************************************************)
(* The calls of the Gluon backend: the hosts of flash_fwd_sm80.py, of      *)
(* flash_bwd_sm80.py and of flash_dense_fwd_sm90.py, the grids, the order  *)
(* in which a forward grid takes its tiles, the addresses of scheduler.py  *)
(* and what the programs write.  Which pairs a program accumulates is that *)
(* of GluonBlocks; no block is dropped.                                    *)
(***************************************************************************)
EXTENDS LaunchPrograms

Blocks == INSTANCE GluonBlocks

-----------------------------------------------------------------------------
(* The hosts.  Partial results have their heads before their rows.         *)
ForwardCall(kernel) ==
    LET rows     == RowsOfHeads(1, QueryShape, call.hq)
        heads(n) == HeadsOfRows(n, QueryShape, call.hq)
        results  == [out |-> Tensor(rows, "empty"), lse |-> Tensor(heads(1), "empty")]
        partials == [out_partial |-> Tensor(heads(call.splits), "empty"),
                     lse_partial |-> Tensor(heads(call.splits), "empty")]
    IN  [tensors |-> Given(rows, <<>>, KeyShape) @@ results
                       @@ (IF IsSplit THEN partials ELSE <<>>),
         plan    |-> <<kernel>> \o (IF IsSplit THEN <<"fwd_combine">> ELSE <<>>)]

Forward            == ForwardCall("fwd_sm80")
VarlenForward      == ForwardCall("fwd_sm80")
DenseForward       == ForwardCall("fwd_sm90")
DenseVarlenForward == ForwardCall("fwd_sm90")

PaddedBatched(lens, tile) ==
    [batches |-> Len(lens), rows |-> RoundUp(Longest(lens), tile)]
PaddedConcat(lens, tile) ==
    [batches |-> 1, rows |-> ((Total(lens) + Len(lens) * tile - 1) \div tile) * tile]

BackwardCall(paddedQ, paddedK) ==
    LET q    == RowsOfHeads(1, QueryShape, call.hq)
        k    == RowsOfHeads(1, KeyShape, call.hkv)
        sums == Tensor(HeadsOfRows(1, paddedQ, call.hq), "empty")
        keySums == Tensor(HeadsOfRows(NumSplits, paddedK, call.hkv), "zeros")
        inputs  == [out |-> Tensor(q, "queries"), do |-> Tensor(q, "queries"),
                    lse |-> Tensor(HeadsOfRows(1, QueryShape, call.hq), "queries")]
        results == [dq |-> Tensor(q, "empty"), dk |-> Tensor(k, "empty"), dv |-> Tensor(k, "empty")]
        buffers == [lse_log2 |-> sums, dpsum |-> sums, dq_accum |-> sums,
                    dk_accum |-> keySums, dv_accum |-> keySums]
    IN  [tensors |-> Given(q, <<>>, KeyShape) @@ inputs @@ results @@ buffers,
         plan    |-> <<"preprocess", "bwd_sm80", "postprocess", "bwd_combine">>]

Backward ==
    BackwardCall(PaddedBatched(call.qlens, call.tm), PaddedBatched(call.klens, call.tn))
VarlenBackward ==
    BackwardCall(PaddedConcat(call.qlens, call.tm), PaddedConcat(call.klens, call.tn))

(* interface.py calls the hosts for SM80; those for SM90 stand by          *)
(* themselves.                                                             *)
PassOf(forward, backward) == IF call.pass = "fwd" THEN forward ELSE backward

FlashAttnFunc       == PassOf(Forward, Backward)
FlashAttnVarlenFunc == PassOf(VarlenForward, VarlenBackward)

Host ==
    CASE call.backend = "gluon" /\ ~call.varlen      -> FlashAttnFunc
      [] call.backend = "gluon" /\ call.varlen       -> FlashAttnVarlenFunc
      [] call.backend = "gluon_sm90" /\ ~call.varlen -> DenseForward
      [] call.backend = "gluon_sm90" /\ call.varlen  -> DenseVarlenForward

-----------------------------------------------------------------------------
(* launch_grid.py *)
FwdTiles == Tiles(Longest(call.qlens) * Pack, call.tm)
FwdGrid ==
    GridOf(FwdTiles, IF Packed THEN call.hkv ELSE call.hq, Len(call.qlens) * NumSplits)
BwdGrid == GridOf(Tiles(Longest(call.klens), call.tn), call.hq, Len(call.qlens) * NumSplits)
RowsGrid == GridOf(Tiles(Longest(call.qlens), call.tc), Len(call.qlens) * call.hq, 1)
FwdCombineGrid  == RowsGrid
PreprocessGrid  == RowsGrid
PostprocessGrid == RowsGrid
BwdCombineGrid == GridOf(Tiles(Longest(call.klens), call.tc), Len(call.qlens) * call.hkv, 1)

(* AttnFwdGridIndex.create: a grid that is neither packed nor split takes  *)
(* the tiles of a group of heads from the last to the first, those of all  *)
(* its heads in turn; the last group has the heads that are left.  A group *)
(* is the largest power of two of heads whose keys the second-level cache  *)
(* holds (bfind is the highest bit of capacity).                           *)
Swizzled(pid) ==
    LET capacity == Most(call.l2 \div Longest(call.klens), 1)
        swizzle  == CHOOSE n \in {2^i : i \in 0 .. capacity} : n <= capacity /\ capacity < 2 * n
        pairs    == call.hq * Len(call.qlens)
        tile     == pid[1] + FwdTiles * (pid[2] + call.hq * pid[3])
        group    == tile \div (swizzle * FwdTiles)
        within   == tile % (swizzle * FwdTiles)
        heads    == IF group < pairs \div swizzle THEN swizzle ELSE Most(pairs % swizzle, 1)
        pair     == group * swizzle + (within % heads)
    IN  [block |-> FwdTiles - 1 - within \div heads, split |-> 0,
         head |-> pair % call.hq, kv |-> (pair % call.hq) \div Group, batch |-> pair \div call.hq]

Plain(pid) ==
    [block |-> pid[1], head |-> pid[2], kv |-> IF Packed THEN pid[2] ELSE pid[2] \div Group,
     batch |-> pid[3] \div NumSplits, split |-> pid[3] % NumSplits]

FwdIndex(pid) == IF Packed \/ IsSplit THEN Plain(pid) ELSE Swizzled(pid)

(* AttnBwdGridIndex.create; the kernel passes IS_SPT = False. *)
BwdIndex(pid) ==
    [block |-> pid[1], head |-> pid[2], kv |-> pid[2] \div Group,
     batch |-> pid[3] \div NumSplits, split |-> pid[3] % NumSplits]

-----------------------------------------------------------------------------
(* How often the visits of a program accumulate a pair. *)
CountIn(visits, c, tile, slot, k) ==
    Cardinality({i \in DOMAIN visits :
        /\ visits[i].block = tile
        /\ Kept(c, visits[i].seqlen, visits[i].mask, slot \div Pack, k)})

(* AttnFwdPointerScheduler.create *)
FwdPointers(x) ==
    [name \in {"q", OutName, LseName} |->
        StartQ(name, x.batch) + (IF Packed THEN 0 ELSE x.head * tensors[name].h)
          + (IF name = "q" THEN 0 ELSE x.split * tensors[name].s)]
      @@ [name \in {"k", "v"} |-> StartK(name, x.batch) + x.kv * tensors[name].h]

FwdResults(x, keyCell, c, visits, ptr) ==
    LET slots == 0 .. NumN(c) * c.tn - 1
        key   == [k \in 0 .. c.sk - 1 |-> Owner({Cell(n, keyCell[n, k]) : n \in {"k", "v"}})]
        times(slot) == [k \in slots |-> CountIn(visits, c, k \div c.tn, slot, k)]
        result(r)   == Attended(times(r.slot), Owner({Cell("q", FwdCell(ptr, "q", r))}), key)
    IN  StoreRows(ptr, FwdRows(x), FwdCell, result)

(* AttnFwdConfig.create, AttnBwdConfig.create: the lengths, the window and *)
(* the tiles of the program's sequence and head.                           *)
FwdConfig(x) == Problem(x.batch, x.kv)
BwdConfig(x) == Problem(x.batch, x.kv)

FwdProgram(x, keyCell) ==
    LET c == FwdConfig(x)
    IN  FwdResults(x, keyCell, c, Blocks!KeyVisits(c, x.block, x.split), FwdPointers(x))

(* make_k_ptrs, make_v_ptrs; the SM90 kernel gives TMA the coordinates of  *)
(* the block.                                                              *)
KeyCells(x) ==
    [name \in {"k", "v"}, k \in 0 .. Longest(call.klens) - 1 |->
        FwdPointers(x)[name] + k * tensors[name].m]
TmaCells(x) ==
    [name \in {"k", "v"}, k \in 0 .. Longest(call.klens) - 1 |->
        IF CuK THEN (SeqlenK(x.batch).offset + k) * tensors[name].m + x.kv * tensors[name].h
        ELSE x.batch * tensors[name].b + k * tensors[name].m + x.kv * tensors[name].h]

FwdSm80(x) == FwdProgram(x, KeyCells(x))
FwdSm90(x) == FwdProgram(x, TmaCells(x))

FwdCombine(pid) == MergeRows(pid[1], pid[2] \div call.hq, pid[2] % call.hq)

-----------------------------------------------------------------------------
(* _bwd_preprocess_kernel, _bwd_postprocess_kernel *)
HelperRows(pid) == RowsWithin(pid[1], call.tc, SeqlenQ(pid[2] \div call.hq).seqlen)
Preprocess(pid) == PreprocessRows(pid[2] \div call.hq, pid[2] % call.hq, HelperRows(pid))
Postprocess(pid) ==
    MoveRows("dq_accum", "dq", pid[2] \div call.hq, pid[2] % call.hq, HelperRows(pid))

PaddedStartK(name, b) == OffsetBatch(tensors[name], b, CuK, SeqlenK(b).padded)

(* AttnBwdPointerScheduler.create *)
BwdPointers(x) ==
    [name \in {"q", "do"} |-> RowAt(name, x.batch, x.head, 0)]
      @@ [name \in {"lse_log2", "dpsum", "dq_accum"} |-> PaddedAt(name, x.batch, x.head, 0)]
      @@ [name \in {"k", "v"} |-> StartK(name, x.batch) + x.kv * tensors[name].h]
      @@ [name \in {"dk_accum", "dv_accum"} |->
             PaddedStartK(name, x.batch) + x.kv * tensors[name].h + x.split * tensors[name].s]

(* A program without a tile returns.  The sums are stored for every row of *)
(* the tiles and every key of the block, those past the end too: loads     *)
(* find zeros there, so that such a row adds nothing, and such a key adds  *)
(* nothing to the rows; its own sum is of no use.                          *)
BwdTerms(c, visits, ptr, rows, block) ==
    LET of(names, i) == Owner({Cell(n, BwdCell(ptr, n, i)) : n \in names})
        query == [m \in rows |-> of({"q", "do", "lse_log2", "dpsum"}, m)]
        key   == [k \in block |-> IF k < c.sk THEN of({"k", "v"}, k) ELSE Garbage]
    IN  [m \in rows, k \in block |->
            IF m < c.sq THEN Term(CountIn(visits, c, m \div c.tm, m, k), query[m], key[k]) ELSE {}]

BwdProgram(x, c, visits) ==
    LET ptr   == BwdPointers(x)
        rows  == UNION {Block(visits[i].block, c.tm) : i \in DOMAIN visits}
        block == Block(x.block, c.tn)
        keys  == {k \in block : k < c.sk}
    IN  IF visits = <<>> THEN {}
        ELSE BwdStores(ptr, BwdTerms(c, visits, ptr, rows, block), rows, keys, block,
                       {"dq_accum"}, {"dk_accum", "dv_accum"})

BwdSm80(x) ==
    LET c == BwdConfig(x) IN BwdProgram(x, c, Blocks!TileVisits(c, x.block, x.split))

(* _bwd_combine_kernel *)
BwdCombine(pid) ==
    LET b    == pid[2] \div call.hkv
        head == pid[2] % call.hkv
        start(from) == PaddedStartK(from, b) + head * tensors[from].h
        moved(from, to) ==
            {Store(to, StartK(to, b) + head * tensors[to].h + k * tensors[to].m,
                   SumOfSplits(from, start(from) + k * tensors[from].m)) :
                k \in RowsWithin(pid[1], call.tc, SeqlenK(b).seqlen)}
    IN  moved("dk_accum", "dk") \cup moved("dv_accum", "dv")

-----------------------------------------------------------------------------
Grid(kernel) ==
    CASE kernel \in {"fwd_sm80", "fwd_sm90"} -> FwdGrid
      [] kernel = "fwd_combine" -> FwdCombineGrid
      [] kernel = "preprocess"  -> PreprocessGrid
      [] kernel = "bwd_sm80"    -> BwdGrid
      [] kernel = "postprocess" -> PostprocessGrid
      [] kernel = "bwd_combine" -> BwdCombineGrid

Effects(kernel, pid) ==
    CASE kernel = "fwd_sm80"    -> FwdSm80(FwdIndex(pid))
      [] kernel = "fwd_sm90"    -> FwdSm90(FwdIndex(pid))
      [] kernel = "fwd_combine" -> FwdCombine(pid)
      [] kernel = "preprocess"  -> Preprocess(pid)
      [] kernel = "bwd_sm80"    -> BwdSm80(BwdIndex(pid))
      [] kernel = "postprocess" -> Postprocess(pid)
      [] kernel = "bwd_combine" -> BwdCombine(pid)
=============================================================================
