------------------------------ MODULE CsrcKernels ------------------------------
(***************************************************************************)
(* The attention kernels of the C++ extension: compute_attn_1rowblock and  *)
(* compute_attn_1rowblock_splitkv of flash_fwd_kernel.h, and               *)
(* compute_dq_dk_dv_1colblock of flash_bwd_kernel.h.  A tile takes part if *)
(* any element of its bias is not negative: the bias of the next tile is   *)
(* copied first, the warps vote, and only then is the rest of it loaded.   *)
(*                                                                         *)
(* l.dropped are the tiles that are voted out, and l.opts what the kernel  *)
(* is instantiated with.  A vote reads the bias while its copy is still in *)
(* flight, so that it may well come out differently; a Peek is a read of   *)
(* that kind.                                                              *)
(***************************************************************************)
EXTENDS GluonSm80

Even(l)      == EvenM(l) /\ EvenN(l)
Active(l, b) == b \notin l.dropped

VoteOn(item) == SyncCta \o Peek({<<"sB", item>>}) \o SyncCta

-----------------------------------------------------------------------------
(* Forward: what both kernels do with a block, and with the one after it.  *)
(* The predicate on the columns of the bias is that of the last block; the *)
(* masking steps apply it to the blocks before it as well.                 *)
Bias(l, n, last, masked) ==
    <<IF masked /\ ~Even(l) /\ n # last /\ l.sk < (last + 1) * l.tn THEN "cut B" ELSE "B", n>>

(* A warp scales its own rows of Q in place. *)
MyQ == <<"sQ", <<"scaled Q", 0>>, <<"Q", 0>>>>

LoadKIfActive(l, n) == When(Active(l, n), Copy("sK", <<"K", n>>) \o CommitGroup)

FwdPrologue(l, n) ==
    Copy("sQ", <<"Q", 0>>) \o Copy("sB", <<"B", n>>) \o VoteOn(<<"B", n>>)
      \o LoadKIfActive(l, n) \o WaitGroup(0) \o SyncCta
      \o Read({<<"sQ", <<"Q", 0>>, <<"scaled Q", 0>>>>}, <<>>) \o Put("sQ", <<"scaled Q", 0>>)

LoadNext(l, n, last, masked) ==
    Copy("sB", Bias(l, n, last, masked)) \o VoteOn(<<"B", n>>) \o LoadKIfActive(l, n)

Block(l, n, min, last, loadsV, masked, mask) ==
    WaitGroup(0) \o SyncCta
      \o When(Active(l, n), Read({<<"sB", <<"B", n>>>>}, <<>>))
      \o When(loadsV, Copy("sV", <<"V", n>>) \o CommitGroup)
      \o When(Active(l, n), Read({MyQ, <<"sK", <<"K", n>>>>}, <<>>)
                              \o WaitGroup(0) \o SyncCta)
      \o When(n > min, LoadNext(l, n - 1, last, masked))
      \o (IF Active(l, n) THEN Read({<<"sV", <<"V", n>>>>}, Product("PV", n, TRUE, mask))
          ELSE Read({}, Product("drop", n, TRUE, mask)))

MaskOf(l) == IF l.kind = "causal" THEN "causal" ELSE "none"

MaskingSteps(l) ==
    IF l.kind = "full" THEN 1
    ELSE CeilDiv(l, l.tm, l.tn) + (IF Even(l) THEN 0 ELSE 1)

(* The blocks a causal tile can see, from the last to the first.           *)
SeenUpTo(l, m) ==
    IF l.kind = "causal" THEN CeilDiv(l, (m + 1) * l.tm + l.sk - l.sq, l.tn) ELSE NumN(l)

-----------------------------------------------------------------------------
(* compute_attn_1rowblock: O goes through the memory of Q.                 *)
MaskedBlock(l, n, last)   == Block(l, n, 0, last, TRUE, TRUE, MaskOf(l))
UnmaskedBlock(l, n, last) == Block(l, n, 0, last, Active(l, n), FALSE, "none")

StoreO == Put("sQ", Out) \o SyncCta \o Read({<<"sQ", Out>>}, <<>>)

RowBlock(l, last) ==
    LET each(step) == IF step <= MaskingSteps(l) THEN MaskedBlock(l, last + 1 - step, last)
                      ELSE UnmaskedBlock(l, last + 1 - step, last)
    IN  When(last >= 0, FwdPrologue(l, last) \o Each(Up(0, last), each) \o StoreO)

(* compute_attn_1rowblock_splitkv: of the values of an inactive block only *)
(* those of the first are loaded; a partial result takes more memory than  *)
(* that of Q.                                                              *)
BlocksPerSplit(l) == CeilDiv(l, NumN(l), Most(l.splits, 1))
SplitMin(l, split)    == split * BlocksPerSplit(l)
SplitMax(l, m, split) == Least((split + 1) * BlocksPerSplit(l), Least(NumN(l), SeenUpTo(l, m)))

MaskedBlockOfSplit(l, n, min, last) ==
    Block(l, n, min, last, n = last \/ Active(l, n), TRUE, MaskOf(l))
UnmaskedBlockOfSplit(l, n, min, last) == Block(l, n, min, last, Active(l, n), FALSE, "none")

StorePartialO(l) ==
    When(l.splits > 0, SyncCta \o Put("sK", Out) \o Put("sV", Out)) \o StoreO

SplitRowBlock(l, min, last) ==
    LET each(step) == IF step <= MaskingSteps(l)
                      THEN MaskedBlockOfSplit(l, last + 1 - step, min, last)
                      ELSE UnmaskedBlockOfSplit(l, last + 1 - step, min, last)
    IN  When(min <= last,
             FwdPrologue(l, last) \o Each(Up(min, last), each) \o StorePartialO(l))

CsrcFwdParts == [sQ |-> Warps, sK |-> Warps, sV |-> Warps, sB |-> Warps]

CsrcFwdCode(l, split) ==
    IF l.kernel = "csrc_fwd" THEN RowBlock(l, Least(NumN(l), SeenUpTo(l, l.tile)) - 1)
    ELSE SplitRowBlock(l, SplitMin(l, split), SplitMax(l, l.tile, split) - 1)

CsrcFwdCta(l, split) == Cta(Same(CsrcFwdCode(l, split)), CsrcFwdParts, <<>>, Same({"PV"}))

-----------------------------------------------------------------------------
(* Backward: the query tiles of key block n, from the last to the first.   *)
(* With two buffers Q of the next tile is loaded before it is voted on.    *)
Double(l) == "double" \in l.opts
SumsBias(l) == "sum" \in l.opts
Deterministic(l) == "deterministic" \in l.opts

BwdMin(l, n) ==
    IF l.kind = "causal" THEN Most(0, Quot(l, n * l.tn + l.sq - l.sk, l.tm)) ELSE 0

QBuffer(l, m) == IF Double(l) THEN Stage(sQs, m) ELSE "sQ0"

BwdPrologue(l, m) ==
    Copy("sdO", <<"dO", m>>) \o Copy(QBuffer(l, m), <<"Q", m>>)
      \o Copy("sB", <<"B", m>>) \o VoteOn(<<"B", m>>)
      \o Copy("sK", <<"K", 0>>) \o Copy("sV", <<"V", 0>>) \o CommitGroup
      \o WaitGroup(0) \o SyncCta
      \o Put("sK", <<"scaled K", 0>>)

(* P replaces the bias; the gradient of the bias is copied out of there,   *)
(* too, where it is not summed up: dS is elsewhere.                        *)
BwdScores(l, m) ==
    Read({<<"sB", <<"B", m>>, <<"P", m>>>>}, <<>>)
      \o Read({<<QBuffer(l, m), <<"Q", m>>>>, <<"sK", <<"scaled K", 0>>>>}, <<>>)
      \o Put("sB", <<"P", m>>)
      \o Read({<<"sdO", <<"dO", m>>>>, <<"sV", <<"V", 0>>>>}, <<>>)

NextQ(l, m) == Copy(QBuffer(l, m), <<"Q", m>>)

BwdValues(l, m, mask) ==
    Put("sdS", <<"dS", m>>) \o SyncCta
      \o When(~SumsBias(l), Peek({<<"sB", <<"dS", m>>>>}))
      \o Read({<<"sB", <<"P", m>>>>, <<"sdO", <<"dO", m>>>>}, Product("dV", m, TRUE, mask))
      \o SyncCta

LoadTileAhead(l, m) ==
    Copy("sB", <<"B", m>>) \o VoteOn(<<"B", m>>)
      \o When(Active(l, m), Copy("sdO", <<"dO", m>>) \o CommitGroup)

BwdGradients(l, m, mask) ==
    Read({<<"sdS", <<"dS", m>>>>, <<"sK", <<"scaled K", 0>>>>}, Product("dQ", m, TRUE, mask))
      \o Read({<<"sdS", <<"dS", m>>>>, <<QBuffer(l, m), <<"Q", m>>>>},
              Product("dK", m, TRUE, mask))
      \o SyncCta

BwdTile(l, m, min, mask) ==
    WaitGroup(0) \o SyncCta
      \o When(Active(l, m), BwdScores(l, m))
      \o When(Double(l) /\ m > min /\ Active(l, m), NextQ(l, m - 1) \o CommitGroup)
      \o When(Active(l, m), BwdValues(l, m, mask))
      \o When(m > min, LoadTileAhead(l, m - 1))
      \o (IF Active(l, m) THEN BwdGradients(l, m, mask)
          ELSE Read({}, Product("drop", m, TRUE, mask)))
      \o When(~Double(l) /\ m > min /\ Active(l, m - 1), NextQ(l, m - 1))
      \o CommitGroup

(* The bias of all queries summed up, in the memory of dS.                 *)
SumBias == SyncCta \o Put("sdS", <<"dB", 0>>) \o SyncCta
             \o Read({<<"sdS", <<"dB", 0>>>>}, <<>>) \o SyncCta

(* dK and dV go through the memory of K and V.                             *)
BwdEpilogue(l) ==
    When(SumsBias(l), SumBias)
      \o SyncCta \o Put("sK", Out) \o Put("sV", Out) \o SyncCta
      \o Read({<<"sK", Out>>, <<"sV", Out>>}, <<>>)

ColBlock(l, min, max) ==
    LET each(i) == BwdTile(l, max - i, min, MaskOf(l))
    IN  When(min < max,
             When(Deterministic(l), SyncCta)
               \o BwdPrologue(l, max - 1) \o Each(Down(max - 1, min), each) \o BwdEpilogue(l))

CsrcBwdParts == [sQ0 |-> Warps, sQ1 |-> Warps, sdO |-> Warps, sK |-> Warps, sV |-> Warps,
                 sdS |-> Warps, sB |-> Warps]

(* A deterministic backward kernel has fewer CTAs than key blocks: this one *)
(* has been through the block before when it comes to the tile.            *)
Silent(code) ==
    [i \in DOMAIN code |-> IF code[i].op = "read" THEN [code[i] EXCEPT !.outs = <<>>] ELSE code[i]]

ColBlocks(l, n) ==
    When(Deterministic(l) /\ n > 0, Silent(ColBlock(l, BwdMin(l, n - 1), NumM(l))))
      \o ColBlock(l, BwdMin(l, n), NumM(l))

CsrcBwdCta(l) ==
    Cta(Same(ColBlocks(l, l.tile)), CsrcBwdParts, <<>>,
        Same({"dV", "dK", "dQ"}))
=============================================================================
