----------------------------- MODULE TritonProgram -----------------------------
(***************************************************************************)
(* The programs of one Triton launch, one block at a time: what a program  *)
(* carries from a block to the next (the prefetched key tile and its       *)
(* indices, or, in the gated kernels, the scores and the verdict of the    *)
(* gate), which blocks the sparse softmax and the gate drop, and the merge *)
(* of the splits.  The programs share nothing before the merge, so they    *)
(* are taken one after the other, in any order.                            *)
(*                                                                         *)
(* Scores are exact: a block has one weight exp2(score) per row, a power   *)
(* of two, and the softmax keeps the sum of the weights of a row, whose    *)
(* logarithm is the LSE (sum 0: minus infinity).                           *)
(***************************************************************************)
EXTENDS TritonLoops, FiniteSetsExt

CONSTANTS
    Weights,    \* weights a row can have in a block
    Threshold   \* a block is dropped when Threshold times its weight is
                \* below the sum of every row: exp2(-softmax_threshold_log2)

ASSUME WeightsAssumption == Weights \subseteq Nat \ {0} /\ Threshold \in Nat \ {0}

VARIABLES
    prog,       \* the program that runs, <<>> if none does
    at, n,      \* its loop, and the block it visits next in it
    tile,       \* the block of the key tile or the scores it carries
    gated,      \* the gate drops the next block (skip_gate_curr)
    sum,        \* row_sum, for the rows of its tile
    kept, left, \* the loops and blocks it has accumulated and dropped
    lse,        \* the sums the programs have stored
    result,     \* the merged sums of the rows
    lost,       \* heaviest weight the softmax has dropped of a row
    uncounted,  \* how often a pair was dropped
    merged      \* the splits are merged
local  == <<prog, at, n, tile, gated, sum, kept, left>>
output == <<counted, uncounted, pending, lse, result, merged>>
vars   == <<c, range, local, output, lost>>

Sort == c.sort  \* "dense", "sparse" or "gated"

-----------------------------------------------------------------------------
cur     == Loops(prog)[at]
Running == prog # <<>>
InLoop  == Running /\ at <= Len(Loops(prog)) /\ n \in cur.from .. cur.to - 1

TileRows      == 0 .. c.tm - 1
RowOf(r)      == prog[1] * c.tm + r
KeysOf(b)     == b * c.tn .. (b + 1) * c.tn - 1
KeptKeys(r)   == {k \in KeysOf(n) : KeptBy(cur, RowOf(r), k)}
LiveRows      == {r \in TileRows : KeptKeys(r) # {}}

(* Rows past the queries have zero scores. *)
BlockWeights ==
    {w \in [TileRows -> Weights \union {1}] : \A r \in TileRows :
        r \notin LiveRows \/ RowOf(r) \notin Rows => w[r] = 1}

(* In a dense kernel the weights decide nothing. *)
EqualWeights == [r \in TileRows |-> 1]

(* The verdict of online_sparse_softmax.  A row that has seen no key has   *)
(* the sum 0 and keeps the block.                                          *)
Negligible(w) == \A r \in LiveRows : Threshold * w[r] < sum[r]

Accumulate(w) ==
    /\ sum' = [r \in TileRows |-> sum[r] + w[r] * Cardinality(KeptKeys(r))]
    /\ kept' = kept \union {<<at, n>>}
    /\ UNCHANGED <<left, lost>>

Drop ==
    /\ left' = left \union {<<at, n>>}
    /\ UNCHANGED <<sum, kept>>

DropNegligible(w) ==
    /\ Drop
    /\ lost' = [row \in Rows |->
          IF RowTile(row) = prog[1] /\ row % c.tm \in LiveRows
          THEN Most(lost[row], w[row % c.tm]) ELSE lost[row]]

SparseSoftmax ==
    \E w \in BlockWeights :
        IF Negligible(w) THEN DropNegligible(w) ELSE Accumulate(w)

PrefetchFromLast ==     \* mutant: tests for the first block, not the last of the loop
    /\ n' = n - 1
    /\ tile' = IF n > 1 THEN n - 1 ELSE tile
    /\ UNCHANGED gated

(* The key tile of the next block is loaded while this one is processed,   *)
(* unless this block is the last of the loop.                              *)
Prefetch ==
    /\ n' = n - 1
    /\ tile' = IF n > cur.from THEN n - 1 ELSE tile
    /\ UNCHANGED gated

(* The gated kernels compute the scores of the next block ahead, unless    *)
(* the gate drops it.                                                      *)
ScoreNext ==
    /\ n' = n - 1
    /\ gated' \in IF n > cur.from THEN BOOLEAN ELSE {TRUE}
    /\ tile' = IF gated' THEN tile ELSE n - 1

Stays == UNCHANGED <<c, range, prog, at, output>>

-----------------------------------------------------------------------------
(* One block of each inner kernel. *)
FwdInnerDense ==
    /\ InLoop
    /\ Accumulate(EqualWeights)
    /\ Prefetch /\ Stays

FwdInnerSparse ==
    /\ InLoop
    /\ SparseSoftmax
    /\ Prefetch /\ Stays

FwdInnerGated ==
    /\ InLoop
    /\ IF gated THEN Drop /\ UNCHANGED lost ELSE SparseSoftmax
    /\ ScoreNext /\ Stays

DecInnerDense ==
    /\ InLoop
    /\ Accumulate(EqualWeights)
    /\ Prefetch /\ Stays

DecInnerSparse ==
    /\ InLoop
    /\ SparseSoftmax
    /\ Prefetch /\ Stays

DecInnerGated ==
    /\ InLoop
    /\ IF gated THEN Drop /\ UNCHANGED lost ELSE SparseSoftmax
    /\ ScoreNext /\ Stays

(* The backward recomputes the weights from the LSE of the forward: which  *)
(* tiles it drops is up to that launch.  It carries nothing but the sums.  *)
BwdVisit(mayDrop) ==
    /\ \/ kept' = kept \union {<<at, n>>} /\ UNCHANGED <<left, sum>>
       \/ mayDrop /\ Drop
    /\ n' = n + 1
    /\ UNCHANGED <<tile, gated, lost>> /\ Stays

BwdInnerDense  == InLoop /\ BwdVisit(FALSE)
BwdInnerSparse == InLoop /\ BwdVisit(TRUE)
BwdInnerGated  == InLoop /\ BwdVisit(TRUE)

-----------------------------------------------------------------------------
(* The kernels around them: a program without blocks stores an empty       *)
(* result; the others go through their loops, each of which loads the tile *)
(* of its first block, which in the gated kernels the gate may drop unless *)
(* it is the first of the program.                                         *)
FirstBlockPast(loop) == IF Kernel = "bwd" THEN loop.from ELSE loop.to  \* mutant
FirstBlock(loop) == IF Kernel = "bwd" THEN loop.from ELSE loop.to - 1
Idle == ~Running /\ ~merged

StoreEmpty(p) ==
    /\ Idle /\ p \in pending /\ Loops(p) = <<>>
    /\ pending' = pending \ {p}
    /\ UNCHANGED <<c, range, local, counted, uncounted, lse, result, merged, lost>>

Begin(p) ==
    /\ Idle /\ p \in pending /\ Loops(p) # <<>>
    /\ prog' = p /\ at' = 1
    /\ n' = FirstBlock(Loops(p)[1])
    /\ tile' = n' /\ gated' = FALSE
    /\ sum' = [r \in TileRows |-> 0] /\ kept' = {} /\ left' = {}
    /\ UNCHANGED <<c, range, output, lost>>

LeavesLoop == Running /\ at <= Len(Loops(prog)) /\ ~InLoop

(* The verdict on the first block of a loop is one of verdicts. *)
EnterLoop(next, verdicts) ==
    /\ at' = next
    /\ IF next > Len(Loops(prog)) THEN UNCHANGED <<n, tile, gated>>
       ELSE LET loop == Loops(prog)[next]
            IN  /\ n' = FirstBlock(loop)
                /\ IF loop.to > loop.from THEN tile' = n' /\ gated' \in verdicts
                   ELSE UNCHANGED <<tile, gated>>
    /\ UNCHANGED <<prog, sum, kept, left, c, range, output, lost>>

NextLoop == LeavesLoop /\ Sort # "gated" /\ EnterLoop(at + 1, {FALSE})

(* The scores of a first block are computed even if the gate drops it.     *)
NextGatedLoop ==
    /\ LeavesLoop /\ Sort = "gated"
    /\ EnterLoop(at + 1, IF Kernel = "bwd" THEN {FALSE} ELSE BOOLEAN)

(* How often the blocks vs of the running program cover a pair. *)
Covered(vs, row, k) ==
    IF prog[1] # Outer(row, k) THEN 0
    ELSE Cardinality({v \in vs :
            v[2] = Inner(row, k) /\ KeptBy(Loops(prog)[v[1]], row, k)})

Store ==
    /\ Running /\ at > Len(Loops(prog))
    /\ pending' = pending \ {prog} /\ prog' = <<>>
    /\ counted' = [x \in Pairs |-> counted[x] + Covered(kept, x[1], x[2])]
    /\ uncounted' = [x \in Pairs |-> uncounted[x] + Covered(left, x[1], x[2])]
    /\ lse' = [lse EXCEPT ![prog] = sum]
    /\ UNCHANGED <<c, range, at, n, tile, gated, sum, kept, left, result, merged, lost>>

MergedLast(row) ==      \* mutant: the last split replaces the others
    lse[<<RowTile(row), Most(splits, 1) - 1>>][row % c.tm]

(* The combine kernel, or, without splits, what the program stored.  A     *)
(* split without keys has exp2(lse) = 0.                                   *)
Merged(row) ==
    MapThenSumSet(LAMBDA i : lse[<<RowTile(row), i>>][row % c.tm],
                  0 .. Most(splits, 1) - 1)

Merge ==
    /\ Idle /\ pending = {} /\ Kernel # "bwd"
    /\ result' = [row \in Rows |-> Merged(row)]
    /\ merged' = TRUE
    /\ UNCHANGED <<c, range, local, counted, uncounted, pending, lse, lost>>

Finished == ~Running /\ pending = {} /\ (merged \/ Kernel = "bwd") /\ UNCHANGED vars

-----------------------------------------------------------------------------
Init ==
    /\ c \in Launches /\ range = InitialRange
    /\ prog = <<>> /\ at = 1 /\ n = 0 /\ tile = 0 /\ gated = FALSE
    /\ sum = [r \in TileRows |-> 0] /\ kept = {} /\ left = {}
    /\ pending = Programs /\ merged = FALSE
    /\ counted = [x \in Pairs |-> 0] /\ uncounted = [x \in Pairs |-> 0]
    /\ lse = [p \in Programs |-> [r \in TileRows |-> 0]]
    /\ result = [row \in Rows |-> 0] /\ lost = [row \in Rows |-> 0]

(* The kernels. *)
Around ==
    (\E p \in pending : StoreEmpty(p) \/ Begin(p)) \/ NextLoop \/ NextGatedLoop \/ Store
Is(kernel, sort) == Kernel = kernel /\ Sort = sort

FwdDense  == Is("fwd", "dense")  /\ (FwdInnerDense \/ Around)
FwdSparse == Is("fwd", "sparse") /\ (FwdInnerSparse \/ Around)
FwdGated  == Is("fwd", "gated")  /\ (FwdInnerGated \/ Around)
DecDense  == Is("dec", "dense")  /\ (DecInnerDense \/ Around)
DecSparse == Is("dec", "sparse") /\ (DecInnerSparse \/ Around)
DecGated  == Is("dec", "gated")  /\ (DecInnerGated \/ Around)
BwdDense  == Is("bwd", "dense")  /\ (BwdInnerDense \/ Around)
BwdSparse == Is("bwd", "sparse") /\ (BwdInnerSparse \/ Around)
BwdGated  == Is("bwd", "gated")  /\ (BwdInnerGated \/ Around)

Next ==
    \/ FwdDense \/ FwdSparse \/ FwdGated
    \/ DecDense \/ DecSparse \/ DecGated
    \/ BwdDense \/ BwdSparse \/ BwdGated
    \/ Merge \/ Finished

Spec == Init /\ [][Next]_vars

-----------------------------------------------------------------------------
(* What is accumulated are the scores of the block that the value tile and *)
(* the mask belong to, whatever was prefetched, dropped or computed ahead  *)
(* across the ends of the loops.                                           *)
OwnTile == InLoop /\ Kernel # "bwd" /\ ~gated => tile = n

(* In the merged result a pair that the sparse softmax dropped weighs less *)
(* than the threshold: the sums it was compared with only grow.            *)
DroppedIsNegligible ==
    merged => \A row \in Rows : lost[row] > 0 => Threshold * lost[row] < result[row]

(* When all programs have run, in whatever order, each pair that the mask  *)
(* allows was accumulated or dropped once, and no other pair was: no block *)
(* falls between two loops or two splits, or into both.                    *)
EachPairOnce ==
    pending = {} => \A x \in Pairs :
        counted[x] + uncounted[x] = (IF Allowed(x[1], x[2]) THEN 1 ELSE 0)

(* A launch implements the launch of TritonAttn: a program accumulates or  *)
(* drops each of its pairs, once, and nothing else.                        *)
Launch == INSTANCE TritonAttn WITH
    counted <- [x \in Pairs |-> counted[x] + uncounted[x]]
ImplementsLaunch == Launch!Spec

=============================================================================
