---------------------------- MODULE LaunchPrograms ----------------------------
(***************************************************************************)
(* What the launches of the Triton and of the Gluon backend have in        *)
(* common: the shapes of the caller's tensors, the rows of a tile and what *)
(* a program computes for them from how often it accumulates each pair.    *)
(***************************************************************************)
EXTENDS LaunchMemory

Packed    == call.packed
NumSplits == Most(call.splits, 1)
Tiles(n, tile) == (n + tile - 1) \div tile

(* A program is its identifier <<x, y, z>>. *)
GridOf(x, y, z) == (0 .. x - 1) \X (0 .. y - 1) \X (0 .. z - 1)

QueryShape == IF CuQ THEN Concat(call.qlens) ELSE Batched(call.qlens)
KeyShape   == IF IsPaged THEN [batches |-> call.npages, rows |-> call.tn]
              ELSE IF CuK THEN Concat(call.klens) ELSE Batched(call.klens)

Given(q, k, shape) ==
    [q |-> Tensor(q, "queries"),
     k |-> Tensor(RowsOfHeads(1, shape, call.hkv), "keys"),
     v |-> Tensor(RowsOfHeads(1, shape, call.hkv), "keys")] @@ k

-----------------------------------------------------------------------------
(* Where a sequence, and where a row of a head, starts in a tensor.        *)
StartQ(name, b) == OffsetBatch(tensors[name], b, CuQ, SeqlenQ(b).offset)
StartK(name, b) == OffsetBatch(tensors[name], b, CuK, SeqlenK(b).offset)
PaddedStartQ(name, b) == OffsetBatch(tensors[name], b, CuQ, SeqlenQ(b).padded)

RowAt(name, b, head, m) ==
    StartQ(name, b) + head * tensors[name].h + m * tensors[name].m
PaddedAt(name, b, head, m) ==
    PaddedStartQ(name, b) + head * tensors[name].h + m * tensors[name].m

(* Splits store partial results. *)
OutName == IF IsSplit THEN "out_partial" ELSE "out"
LseName == IF IsSplit THEN "lse_partial" ELSE "lse"

(* The rows of a tile that are within the sequence. *)
Block(block, tile) == block * tile .. (block + 1) * tile - 1
RowsWithin(block, tile, len) == {i \in Block(block, tile) : i < len}

(* make_ptrs and make_pack_gqa_ptrs: such rows of a tile of queries, and   *)
(* the cell of each.                                                       *)
FwdRows(x) ==
    LET row(slot) == [slot |-> slot, row |-> slot \div Pack,
                      head |-> x.kv * Pack + (slot % Pack)]
    IN  {row(slot) : slot \in RowsWithin(x.block, call.tm, SeqlenQ(x.batch).seqlen * Pack)}
FwdCell(ptr, name, r) ==
    ptr[name] + r.row * tensors[name].m + (IF Packed THEN r.head * tensors[name].h ELSE 0)

-----------------------------------------------------------------------------
(* The keys that a row attends to; one that is counted twice, or is past   *)
(* the end, spoils the result.                                             *)
Attended(times, query, key) ==
    LET visited == {k \in DOMAIN times : times[k] > 0}
        spoilt  == \E k \in visited : k \notin DOMAIN key \/ times[k] > 1
    IN  {Contribution(query, key[k]) : k \in visited \cap DOMAIN key}
          \cup (IF spoilt THEN {Garbage} ELSE {})

(* A program stores its rows of the output and of the log-sum-exp, empty   *)
(* ones if it has no block.                                                *)
StoreRows(ptr, rows, cell(_, _, _), result(_)) ==
    UNION {{Store(OutName, cell(ptr, OutName, r), result(r)),
            Store(LseName, cell(ptr, LseName, r), result(r))} : r \in rows}

(* The partial outputs of a row, each weighted with its log-sum-exp.       *)
Merge(b, head, row) ==
    LET at(name, s) == RowAt(name, b, head, row) + s * tensors[name].s
        splits == 0 .. call.splits - 1
        agree  == \A s \in splits : Cell("out_partial", at("out_partial", s))
                                       = Cell("lse_partial", at("lse_partial", s))
        value  == IF agree
                  THEN Sum({[from |-> s, value |-> Cell("out_partial", at("out_partial", s))] :
                               s \in splits})
                  ELSE {Garbage}
    IN  {Store("out", at("out", 0), value), Store("lse", at("lse", 0), value)}

MergeRows(block, b, head) ==
    UNION {Merge(b, head, m) : m \in RowsWithin(block, call.tc, SeqlenQ(b).seqlen)}

-----------------------------------------------------------------------------
(* The backward pass.  Before: the sums over the rows of the outputs.      *)
PreprocessRows(b, head, rows) ==
    LET in(name, m) == Cell(name, RowAt(name, b, head, m))
        store(name, m, value) == Store(name, PaddedAt(name, b, head, m), value)
    IN  UNION {{store("dpsum", m, {Owner({in("out", m), in("do", m)})}),
                store("lse_log2", m, in("lse", m)),
                store("dq_accum", m, {})} : m \in rows}

(* After: the sums of the rows that are within the sequence. *)
MoveRows(from, to, b, head, rows) ==
    {Store(to, RowAt(to, b, head, m), Cell(from, PaddedAt(from, b, head, m))) : m \in rows}

(* The query heads of a group share the sums of a key. *)
PutPlain(name, at, value) == Store(name, at, value)      \* mutant
Put(name, at, value) ==
    IF Group > 1 THEN AtomicAdd(name, at, value) ELSE Store(name, at, value)

(* The sum of the parts that the splits of a tensor hold. *)
SumOfSplits(name, at) ==
    Sum({[from |-> s, value |-> Cell(name, s * tensors[name].s + at)] : s \in 0 .. NumSplits - 1})

(* What a pair adds to the sums of its row and of its key, and these sums. *)
Term(times, query, key) ==
    CASE times = 0 -> {}
      [] times = 1 -> {Contribution(query, key)}
      [] times > 1 -> {Garbage}
RowSum(terms, m, keys) == UNION {terms[m, k] : k \in keys}
KeySum(terms, k, rows) == UNION {terms[m, k] : m \in rows}

BwdCell(ptr, name, i) == ptr[name] + i * tensors[name].m

(* What a program adds to the rows, and stores or adds to its block.       *)
BwdStores(ptr, terms, rows, keys, block, rowSums, keySums) ==
    {AtomicAdd(n, BwdCell(ptr, n, m), RowSum(terms, m, keys)) : n \in rowSums, m \in rows}
      \cup {Put(n, BwdCell(ptr, n, k), KeySum(terms, k, rows)) : n \in keySums, k \in block}
=============================================================================
