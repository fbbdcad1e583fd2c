# flash-sparse-attention: a verification project

TLA+ models of the parts of flash-sparse-attention where several warps, CTAs
or processes must agree on something without being told, TLC configurations
that check them on small instances, and proofs of the central ones for every
size.  Numbers (scores, products, rounding) are not modelled: the models say
which block is loaded, computed, skipped or added, by whom, when, and in which
order.

## 1. The system

The library computes attention `softmax(Q K^T) V` and its gradients with GPU
kernels that skip key blocks whose contribution is below a threshold, and with
a local mask made of four window sizes: `near` keys up to the diagonal, a gap
of `right` keys, a window of `left` keys, and `sink` keys at the start.  There
are three backends.  `ops/cute` (CuTe DSL: SM8x, SM90, SM12x), `ops/triton`
(all architectures, training and decoding) and `ops/gluon` (Triton's lower
layer).  `csrc` and `deprecated` hold earlier implementations.

### 1.1 Inventory

| Part | State it keeps | Operations | What makes it correct |
|---|---|---|---|
| CuTe pipelines `pipeline.py`, `named_barrier.py` | full and empty mbarrier per stage, index and phase of each side; named barriers | acquire, commit, wait, release, tail; skip branch of `producer_acquire` | a stage is never overwritten while read; a reader gets its block in every lap; nobody waits for ever |
| SM90 sparse forward `flash_fwd_sm90.py`, `softmax.py` | K ring, V stage, vote words over sV, named barriers, `acc_O` and row statistics per group | producer loads; scores, vote, skip, product of each group | all parties act on one outcome; votes and V bytes never meet; kept blocks are added once, with the right scale |
| SM90 sparse backward `flash_bwd_sm90.py` | Q ring, dO stage and its gate, vote words and outcome over sdS, P and dS stages, dQ buffer | loads; vote, five products and hand-over of dQ per group; bulk add of the store warp; epilogue | every operand whole; all act on one outcome; the gradients are those of the kept tiles |
| SM90 deterministic backward `barrier.py` | semaphores in global memory, one dQ buffer per CTA | wait for a value, bulk add, increment | one order of additions whatever the timing; no CTA spins for ever |
| SM8x and SM120 kernels `flash_fwd.py`, `flash_bwd.py` | cp.async groups of each warp, one buffer per operand, vote words over sV or sP | load, wait, vote, multiply, restart at a range, epilogue | as on SM90, without roles: only waits and CTA barriers order the warps |
| Ranges and masks `block_info.py`, `mask.py` | none | key blocks of a query tile, query tiles of a key block, sub-ranges without mask | the pairs computed are those of the reference mask, once each |
| JIT cache `cache_utils.py` | dictionary, object files, lock files | lookup, load, compile, export, clear | never load what is being written; an export stays; calls return |
| Triton ranges and splits `triton/block_info.py` | none | split-KV and split-QO shares | shares are disjoint and complete |
| Triton kernels `triton/flash_*.py`, `scheduler.py`, `activations.py` | prefetched tile, scores and verdict of the gate, row sums, partial result per split | loops of a program, drop of a block, early exit | every allowed pair accumulated or dropped once over all programs; what is dropped is negligible |
| Triton combine, gather, pre- and postprocess | partial results | merge, clear, copy | splits without keys do not count; rows of other sequences are not touched |
| Triton hosts, autotuner `triton/flash_*.py`, `autotuner.py` | arrays of the call, configuration | allocate, clear, launch or tune, store, return | a call returns the result of one launch |
| Triton launch configuration cache `launch_template.py` | JSON file, lock, dictionary per process | get, put, clear | no entry is lost, no lock stays behind |
| Launch grids and addresses `launch_grid.py`, `seqlen_info.py`, `paged_kv.py`, `gluon/*` of the same names | tensors of a call | index to tile, head, batch, split; offsets | every row written by its program only, from its own rows |
| Gluon backend `gluon/` | as Triton; shared memory with cp.async, TMA and mbarriers written by hand | kernels for SM80 and SM90, ranges that start with the last block | buffers read whole; every pair once; no partition waits for ever |
| C++ extension `csrc/` | shared memory with cp.async, votes on the bias | forward, split forward, backward | as Gluon |
| Interface `cute/interface.py`, CuTe tile schedulers, block sparsity, paging, tooling; Python layers `modules/`, `integrations/`, `utils/`; `deprecated/`, scripts, tests | compile cache | checks, launches, wrappers | not modelled, see section 6 |
| SM100 kernels, dense CuTe classes | | | not reachable, see section 6 |

### 1.2 How the parts interact, and what is hard

* Within a CTA warps talk through mbarriers of which a waiter sees one parity
  bit, and through named barriers that count threads and do not know who
  arrived.  Shared memory is reused: the words the groups vote with lie over
  the V stage (over dS or P in the backward), so the protocol of the votes and
  that of the loads depend on each other.  On SM8x there are no roles, and a
  buffer is whole only when every warp's copies are covered by a wait of its
  own and all have passed a barrier.
* Producer and consumers compute the order of blocks each for themselves.  So
  do the forward ranges and the backward ranges, and the deterministic backward
  computes from the one how often the other will increment a semaphore.
* CTAs spin on semaphores that other CTAs increment: the schedule must launch
  the other ones first.
* Splits share three block ranges by integer arithmetic with remainders; the
  partial results are merged by another kernel.  Every program of a grid
  computes its addresses from one index, and several add to the same rows.
* A host function pads its buffers for a tile that it knows only after a
  lookup, or that the autotuner chooses while it launches the kernel over and
  over on the arrays of the call.
* Processes share two caches, of compiled objects and of launch configurations,
  through file locks that can be deleted, and can be killed at any point.

`PROJECT.json` lists each of these hazards at its line with the properties
that would show it, or the reason why none does.

## 2. Modules

```
GpuBarriers                    <- TmaPipeline   <- SparseFwdProofs    implements BlockStream
GpuBarriers                    <- SparseFwdSm90 <- MCSparseFwdSm90, SparseFwdProofs  implements SkipFold
GpuBarriers                    <- SparseBwdSm90 <- MCSparseBwdSm90, SparseBwdProofs
CpAsync, GpuBarriers           <- SparseSm80    <- MCSparseSm80, SparseSm80Proofs
BlockInfo <- FwdWalkSm90       <- FwdWalkProofs
BlockInfo <- DetBackwardSm90   <- MCDetBackwardSm90, DetBackwardProofs
LaunchConfigCache <- TritonCall <- MCTritonCall, CacheProofs          implements LaunchConfigCache
JitCache                       <- CacheProofs
BlockInfo <- BlockSplits <- TritonLoops <- TritonAttn
                            TritonLoops <- TritonProgram <- MCTritonProgram, TritonProofs  implements TritonAttn
BlockInfo, BlockSplits <- BlockInfoProofs <- FwdWalkProofs, DetBackwardProofs, TritonProofs
AsyncCode, BlockSplits <- GluonBlocks <- GluonSm80, GluonDenseSm90; GluonSm80 <- CsrcKernels
AsyncCode, GpuBarriers, CpAsync <- AsyncMachine <- AsyncAttention
                        AsyncAttention with the three sets of kernels <- MCAsyncAttention
BlockSplits <- LaunchMemory <- LaunchPrograms <- TritonLaunch (uses TritonLoops)
                               LaunchPrograms <- GluonLaunch  (uses GluonBlocks)
                LaunchMemory with both <- KernelLaunches <- MCKernelLaunches
```

Operators and actions carry the names of the code where there is one; the
comment in front of each says the rest, and `map` in `PROJECT.json` gives the
lines.  The kernels are modelled for a set of launches (`Launches`, of which
`Init` picks one); the MC modules define small sets of them.  Operators marked
as mutants are not part of the model: they are the bugs that the properties are
known to catch.

**GpuBarriers** and **CpAsync** are hardware: phase, pending arrivals and
transactions of an mbarrier (`Passed` is `try_wait` with its parity bit); a
named barrier that counts arrivals; a queue of groups of copies of which a wait
covers all but the last few.

**TmaPipeline** is the ring of `pipeline.py` as `pipeline_k` uses it:
`ProducerAcquire` (wait for empty, arm full with the expected bytes),
`ProducerLoad`, `TmaComplete` (any later moment, loads in any order),
`ConsumerWait`, `ConsumerRelease`, with `Index`, `Phase` and `Advance` on the
packed counter of the code.  **BlockStream** is what it promises: blocks are
delivered in order to every consumer.  `Stream` in TmaPipeline maps the one to
the other.  Names that SparseFwdSm90 has as well have `Ring` in them, since one
module proves both.

**SparseFwdSm90** is the mainloop of one query tile.  One actor is the
producer warp (`ProducerLoadK`, `ProducerAwaitVote`, `ProducerReadVote`,
`ProducerAcquireV`, `ProducerLoadV`, `ProducerTail`); each warp group is one
more, from `TakeTurn`, `NextBlock`, `WaitK`, `FinishScores` over the vote
(`CastVote`, `ReduceVotes`, `ReadVote`, `AwaitProducer`) to `OnlineSoftmax`,
`WaitV`, `FinishMma`, `ReleaseV`.  The outcome of a group's own vote is free.
`sSkip` and `sV` are the two parts of the V stage: a V load writes both, a
vote writes `sSkip`.  **SkipFold** is the abstract result: the kept blocks
merged in order, the same for all groups.

**SparseBwdSm90** is the mainloop of one key tile with four kinds of actors:
the producer (`LoadQ`, and `AwaitVote`, `ReadOutcome`, `AcquireDO`, `LoadDO`
for dO), two or more warp groups, the warp that adds dQ (`FreeDQ`, `TakeDQ`,
`AddDQ`) and the engines (`QLands`, `DOLands`, `AddReads`).  A group goes from
`WaitQ` and `FinishScores` through the vote to `SkipTile`/`MarkSkipped` or to
`KeepTile`, `WriteP`, `WriteDS`, `FinishDV`, `FinishDQ`, `HandOverDQ`,
`FinishDK`, and ends in the epilogue.  `words` are the first words of sdS: a
vote, the flag for the producer or dS bytes, whichever was written last.

**SparseSm80** is a CTA of the SM8x and SM120 kernels.  All warps run the same
code; each fills its part of a buffer, by cp.async or by a store, and reads all
parts.  `LoadKV`, `LoadQ`, `LoadFirst`, `Restart`, `WaitTile`, the vote, and
then the forward (`SkipKeys`, `LoadV`, `FinishPV`) or the backward branch
(`SkipQueries`, `LoadDO`, `WriteP` ... `LoadNextQ`), and the epilogue over the
operands' memory (`EnterEpilogue`, `WriteOut`, `StoreOut`).

**BlockInfo** is the arithmetic of the ranges as functions of a problem
(lengths, tile sizes, packing, mask, windows).  `RawN`/`ClampN` and
`RawM`/`ClampM` are the two halves of `get_n_block_min_max` and
`get_m_block_min_max`; the splits of the Triton and Gluon kernels
(**BlockSplits**) come between them.  `Attends` is the mask the kernels are
tested against (`tests/test_utils.py`), `Kept` what `apply_mask` keeps of a
block under the flags of a loop.  Whether a negative quotient is rounded
towards zero or down depends on the compiler: `trunc` says which; FwdWalkSm90
checks both, the other modules use Triton's.

**FwdWalkSm90** is the order of blocks in the SM90 forward: the loads of the
producer as it issues them (with intra-warp-group overlap K is one block
ahead of V), the visits of the consumers with their masks, and two bounded
queues between them.

**DetBackwardSm90** is the deterministic backward over CTAs: `Launch` (in the
order of `SingleTileLPTBwdScheduler`, as many as fit), the dQ warp
(`AcquireTile`, `StartAdd`, `FinishAdd`), the MMA warps (`ComputeTile`,
`Epilogue`, and `AcquireK` ... `FinishV` when query heads share a key head).
`lock` is the value the code computes from the forward ranges, `visited` the
tiles that the backward ranges give.  It is also where the deterministic branch
of `dQaccum_store` is, which SparseBwdSm90 leaves out.

**JitCache** is one key of `JITPersistentCache`: `OpenLock`, `Acquire`,
`JitTimeOut`, `Release`, `Lookup`, `Find`, `Load`, `Check`, `StartExport`,
`Export` (or `ExportRaises`, which leaves part of the file and gives the lock
back), the steps of `clear`, and `Crash`, which may come between any two.  A lock
belongs to the file that was behind the path when it was opened.  Names that
the launch configuration cache has as well begin with `Jit`.

**LaunchConfigCache** is the configuration cache of one device: `StartGet`,
`LockForGet`, `ReadFile`, `FinishGet` of `get`; `StartPut`, `LockForPut`,
`ReadUnlocked` (or `ReadFails`), `WriteTemporary`, `Replace`, `FinishPut` of
`put`; `RaisesUnderLock`, `TimeOut`, `Clear`, `Kill`.  `Fitting` says which
configurations have the `TILE_N` a key asks for: `get` answers with no other,
and `put` does not store them.  **TritonCall** composes it
with the host functions: the eighteen of them are records (`DenseForward` ...
`GatedVarlenBackward`) that say which arrays they allocate, which they clear,
which the kernel stores to and which it adds to; `Begin`, `CallTuned` or
`CallTiled`, `TakeConfig`, `Prepare`, `Launch` or `Trial` ... `LaunchBest`,
`Store`, `Finish` take a call through.

**TritonLoops** are the blocks and loops of every program of a launch,
**TritonAttn** the launch as an abstract machine whose programs are one step
each.  **TritonProgram** refines it: a program goes block by block through the
nine kernels (`FwdInnerDense` ... `BwdInnerGated`, framed by `Begin`,
`NextLoop`, `NextGatedLoop`, `Store`, `StoreEmpty`), carries the prefetched
tile or the scores and verdict of the gate, drops blocks, and `Merge` merges
the splits.  Scores are powers of two so that sums are exact.

**AsyncCode** is straight-line code of a kernel over shared memory (reads,
writes, copies, groups, barriers, mbarriers, TMA, asynchronous products), and
**AsyncMachine** the machine that runs the code of all warps or roles of a CTA
in any interleaving, with copies and products that finish late.  A copy that is
masked off still fills its buffer with zeros (`Prefetch`, `Zeros`).  Of two
copies of one thread into one buffer either may be written last, unless the
problem is `InOrder`: then it is the one of the later group.  The kernels
are functions from a launch to code: **GluonSm80** and **GluonDenseSm90** over
the block order of **GluonBlocks**, **CsrcKernels** for the C++ extension.
**AsyncAttention** says what they have to compute.

**LaunchMemory** are the tensors of a call and the addresses of a row in them;
**TritonLaunch** and **GluonLaunch** are the hosts, the grids, the decoding of
a program's index, its pointers and what it writes, with **LaunchPrograms** for
what both have in common.  **KernelLaunches** runs a call kernel by kernel,
program by program, in any order.

## 3. Runs

Safety runs use `Spec`; runs with liveness properties use `FairSpec`.
`CHECK_DEADLOCK FALSE` stands where the modelled program ends.

| Run | Configuration | Shows |
|---|---|---|
| `ring` | 2 stages, 3 consumers, 7 blocks (three laps and one) | one parity bit is enough; no overwrite; implements BlockStream; terminates |
| `sparse_fwd` | five launches: 3 groups, 4 blocks, one segment, turns; 2 groups, 4 blocks in 3 segments, turns; 2 groups, 5 blocks in 3 segments, wide head; 2 groups and 1 group, 4 blocks in 2 segments, no overlap | loads never hit V in use, and in one segment neither do votes; one outcome for all; the scale agrees; terminates; implements SkipFold |
| `sparse_bwd` | 2 groups, 3 query tiles in the four stage configurations of `_tile_size_bwd_sm90`, and none | operands are whole; unless an outcome is misread all actors follow it and dK, dV, dQ are those of the kept tiles |
| `sparse_sm80` | forward: 2 and 3 warps, 3 and 4 tiles, 0 to 2 restarts; backward: 2 and 3 warps, 0 to 3 tiles, 1 and 2 stages of Q, with and without grouped heads | operands are whole; warps agree, in the backward always; ends with exactly the kept tiles |
| `fwd_walk` | lengths to 7, tiles of 2, packing 1 and 3, both roundings | stages carry the block the consumers expect; the softmax gets the reference mask exactly; neither side is left waiting (the deadlock check) |
| `det_backward` | one head, 4 or 5 key blocks, 2 query tiles, all kinds, and gaps where the last tile is full; 3 heads on one key head in L2 sections of 2 and 1; 2 resident CTAs | additions to dQ, dK and dV in one order; no endless spin |
| `jit_cache` | 3 processes, one kill, one export that raises, one clear, short and long waits | loads and writes exclude each other until a clear; a found object is whole unless a process was killed or its export raised; exports stay; calls end |
| `triton_call` | 2 processes, 2 calls, 2 configurations, 2 keys, one mishap (kill, failed read or write, timeout), file empty or not, all host functions | entries stay; memory is backed by the file; untuned calls return one launch; calls return |
| `triton_first_call` | the same | **violated**: finding 1 |
| `triton_program` | forward, decode and backward, dense, sparse and gated: lengths to 9, tiles of 2, 0 to 4 splits, 3 packed heads, windows to 4, lists of keys; every verdict of softmax and gate for the sparse and gated kernels | scores belong to their block; dropped weight is below the threshold; each pair accumulated or dropped once; implements TritonAttn |
| `async_kernels` | Gluon forward, dense forward and backward: lengths 3 to 8, tiles of 2, full, causal and three windows, no and 2 splits, tiles dropped or not; C++ kernels for the launches of section 5; groups of copies written in order where there is a window (section 6) | nothing is read before it is whole or after it was overwritten; every pair exactly once in every result; nobody is stuck |
| `launches` | batches of one to three sequences, some empty or used in part; 1 to 3 heads, grouped and packed or not; up to 3 splits; pages permuted; lists of keys; Gluon orders of tiles for second-level caches of different capacity; all windows to 3 on one sequence | results are exactly the pairs of the mask; programs of a grid do not race; nothing is written outside a tensor |

The violated run checks what a test of the code expects without condition.
Where a promise holds under a condition the passing run checks the conditional
form (`OneSegmentIntactV`, `UnclearedExcludesWrite`,
`UndisturbedMeansExported`, `UntunedReturnsOneLaunch`, and every property with
a disjunct `misread`); launches for which a property fails are left out of the
passing runs and kept in the MC modules under a name of their own (section 5).

### 3.1 Why the bounds are enough

A ring of two stages over three laps takes every parity on both sides twice
and lets a fast consumer be a lap ahead of a slow one; the proofs cover the
other sizes.  Three groups are the most the kernels have; four or five blocks
give every order of kept and skipped neighbours, first and last blocks, and
segments of one block.  In the backward three tiles are one more than there are
stages.  The range arithmetic only depends on residues modulo the tile sizes
and on the signs of differences: tiles of two with lengths from one to nine
give full and partial tiles, empty ranges, more queries than keys and the
reverse, sinks past the end, and windows that start, end or vanish at either
side of a block border; splits up to four with ranges of zero to five blocks
give all remainders and more splits than blocks.  Two resident CTAs are the
fewest that can be in each other's way, and the fewest that make a wrong launch
order a deadlock.  Two processes suffice for a lost entry or a lock left
behind, three for a lock file that was unlinked.  A sequence with a partial
tile, an empty one and one after it are what padded offsets and row bounds can
get wrong; two heads per key head and two key heads what index decoding can.

`MaxCrashes`, `MaxFailures`, `MaxClears`, `MaxCalls` and `MaxMishaps` bound
kills, failed exports, clears, calls and mishaps of any kind; `MaxWarps` names the actors whose fairness is stated.

### 3.2 Fairness

The warps of a resident CTA are all scheduled by the hardware, a load that was
issued lands, and a bulk add reads its buffer: weak fairness of every warp's
step and of the engines.  A barrier or semaphore wait is a guard, not a step,
so nothing is assumed about waits being satisfied.  DetBackwardSm90 needs only
weak fairness of `Next`: each step is progress and there are finitely many, so
it ends unless all are stuck.  For the same reason `async_kernels` and
`fwd_walk` state no fairness: every step takes an actor or a copy further, and
`NeverStuck`, or the deadlock check, says that some step is possible until all
have ended.  CTAs are launched in the order of their index, on which the code
relies and which the hardware does in practice.

In JitCache and TritonCall weak fairness of what a process does inside a call
is assumed; whether it calls again, clears or is killed is free.  In JitCache
each process takes its lock finitely often unless loads fail: a failed load
forgets the function and the process looks it up again, so after a kill, or an
export that raised, others can keep a waiting process out until its timeout.  `slow` says whether waits
can last until the timeout; `CallsEnd` states the exception for behaviours in
which none does.  In TritonCall every path gives the lock back and the number of
calls is bounded, so a waiting process gets it in the end.

## 4. What is proved

TLAPS checks every proof; the assumptions are only those on constants in the
modules.

**SparseFwdProofs**, for one query tile of any number of blocks and segments,
one to three groups, with and without overlap and turns, and whatever the
votes: `TypeCorrect`, `OneOutcome` (`SkipAgreement`), `AccumulatorScaled`
(`ScalesAgree`), `SegmentIntact` (`OneSegmentIntactV`) and
`MainloopImplementsFold`: every step is a step of SkipFold or none.  The order
of votes, V loads and products is kept by three barriers of the CTA that count
arrivals and know no blocks.  The invariant (`IInv`) says it with the *gate* of
an actor: the block and the barrier of the CTA it is blocked at or, if it is
not, the one it comes to next.  The groups have one gate, and the producer's,
which takes part in two of the barriers only, is a function of it (`GateInv`,
`Follows`), because a barrier is left by all of them at once (`Arrival`,
`Passes`).  From the place of a group follow how many blocks it has scored,
voted on, waited for, released and multiplied (`Scored` ... `Multiplied`), and
from its gate the places of the others (`Back`).  So the outcome is recorded
when all words are votes on the same block (`VoteInv`), a group's register and
the producer's are the outcome of the block it is at (`SkipInv`,
`ProducerInv`), and no V load is under way while anybody is at a vote
(`NotVoting`).  The two mbarriers of `pipeline_v` are counted: the phase of
the empty one is the number of blocks all groups have released, that of the
full one the number of blocks loaded or announced as skipped (`VFullInv`,
`VEmptyInv`), and the two are so close that a parity stands for one phase
(`Freed`, `WaitsV`).  `ScaleInv` names the states in which `acc_O` lags behind
the row maximum (`Lagging`), none of them at a product.  `IntactInv` is that V
of a kept block stays whole until the groups have met behind its use, which
holds inside a segment only (observation 2).  Accumulated is what was
multiplied and kept (`AccInv`), which gives the refinement (`FoldStep`).

The same module proves the ring of K, TmaPipeline, for any number of stages,
consumers and blocks.
`RingTypeCorrect`: barriers never take more arrivals or bytes than a phase has.
`ReadsCorrectBlock`: a consumer that passed its wait reads its own block.
`NeverOverwritesReader`: no load is under way into a stage being read.
`PipelineImplementsStream`: every step is a step of BlockStream or none.
None of the properties is inductive: parity says "this lap or two laps on",
and to exclude the latter one must know how far producer and consumers can be
apart.  `RingInv` adds that: the producer is at most `Stages` blocks ahead of
the slowest consumer (`WindowInv`); the full barrier of a stage counts the
loads that landed (`FullInv`), the empty barrier the blocks all consumers
released, its pending count being the consumers yet to release (`EmptyInv`);
and which block is in flight or in a stage follows from these.  A parity then
stands for one lap only, which is the lemma `AcquireIsSafe` for the producer
and its twin for consumers.  The arithmetic of stages and laps is in the
lemmas `ItemOfBlock` to `ItemSlot`, the packed counter of the code in
`ProducerIndexPhase` and `ConsumerIndexPhase`.

**CacheProofs**, first about LaunchConfigCache, for any number of processes,
kernels, configurations, kills, failures and timeouts.  `WritesAlone`: between
reading the file back and replacing it a process is alone.  From that, and as
long as no read failed, `NothingLost` (`OthersStay`) and `MemoryStaysBacked` (`MemoryIsBacked`).
Neither is inductive: `put` carries a copy of the table over several steps, so
the invariant adds that every copy under the write lock equals the file but for
the entry being stored (`CopiesAgree`), and that what is in memory or in a copy
on its way to it has an entry in the file (`Backed`); both need `Locks`: a write
lock excludes every other.

Then about TritonCall, for any kernels, configurations and calls.
`ImplementsCache`: every step of a host function is a step of the cache or
leaves it alone, so all of the above holds in every call (`CallsLoseNothing`).
`UntunedIsRight` is about what calls return that do not tune.  Its invariant
says, for each point of a call, which launches each of its arrays
holds and in which layout.

At the end about JitCache, for any number of processes, kills and timeouts.
`JitTypeCorrect` holds always.  `ReadersExcludeWriter` and `ExportIsPermanent`
hold until somebody calls `clear`, `FoundIsWhole` until moreover a process is
killed or an export raises.  The inductive invariant (`OneLockFile`) is that until then every open
descriptor is on the one lock file, that a process is in the critical steps
only while it holds the lock in the mode the step needs, and that an exclusive
lock excludes every other; `PartialIsExported` adds that a partial object has a
process that is exporting it.  `clear` makes the first false and a kill or a
failed export the last, which are observations 5 and 4 below.

**BlockInfoProofs** are lemmas about the ranges, for any lengths, tiles and
windows: rounding (`CeilAbove`, `DividedTiles`), what each half of
`get_n_block_min_max` and `get_m_block_min_max` returns in each kind of
attention, and the shares of a range among splits, which are disjoint
(`SharesApart`) and complete (`SharesCover`).

**FwdWalkProofs**, for any problem, query tile and depth of the pipelines, with
and without overlap.  What producer and consumers do is laid out before they
start, and both layouts follow one sequence of blocks (`TheBlocks`), which has
every block with a pair of the tile and none twice (`BlocksOnce`).  `Serves`
says how many K and V blocks the first loads bring, `Plays` how many scores and
products the first jobs take; `ServesJoined` and `PlaysJoined` put the segments
of local attention together.  The inductive invariant (`WalkInv`) is that at
any moment each pipeline holds the part of that sequence between two such
counts, and that the pairs accounted for are those of the visits so far.  From
it `WalkStagesAgree`.  `WalkExactlyItsPairs` then needs that every visit's mask
is exact in its block (`Exact`), which is where the ranges that drop the mask
are: below the diagonal (`BelowDiagonalExact`), behind the sinks
(`BehindSinksExact`), in the window and in its middle (`WindowExact`,
`MiddleExact`).

**DetBackwardProofs**, for any launch and any number of resident CTAs.
`SemaphoresHeld` is the inductive invariant: a CTA that acquired a semaphore
finds it unchanged until it increments it itself, because the value it waited
for is its own, and the semaphore of a key head counts the heads added so far.
From it `HeadsAddInOrder`.  For dQ the invariant also says that every block
added so far comes before the ones that still wait (`InOrderInv`), for which
lock values must number the visits of a tile.  That is the arithmetic of two
functions of the code: `VisitedBack` says that a key block visits a query tile
only if the forward range of the tile has the block.  It needs `NoPartialGap`,
the negation of observation 6 below, and so does `TilesAddInOrder`, whose
hypothesis holds of every full and causal launch.

**TritonProofs**, for any lengths, tiles, packing, windows, splits and lists of
keys, and for all nine kernels.  `ScoresOwnTile`: the prefetched tile, or the
scores and the verdict carried from one block to the next, are those of the
block that is accounted for.  The invariant says where in its loops a program
is, which tile it holds there and what it has counted so far (`Place`,
`Progress`).  `LaunchImplemented`: with that, a program's steps are stutters
of TritonAttn until it stores, which is the one step of the program there; how
often a pair is counted in between is the number of the loops' blocks that
reach it.  `PairsCountedOnce` is then about the arithmetic only: each pair has
one program, loop and block that reaches it (`KeyOwner`, `TileOwner`,
`KeyTimes`, `TileTimes`), that is, the ranges cover what `Attends` allows, the
loops do not overlap, the masks keep exactly the allowed pairs also in blocks
two ranges share, and splits are disjoint.  Its hypothesis `WellDealt` is the
negation of observations 7 and 8.

**SparseSm80Proofs**, for any number of warps and tiles, any ranges, one or two
stages, and whatever the votes: `WarpsAgreeHolds` and `ReadsWholeHolds`.  The
operands of a product are parts that the other warps have copied or written,
so the invariant must know where these are.  It says so with one notion, the
*gate* of a warp: the barrier it is blocked at or, if it is not, the one it
comes to next.  All warps have the same gate (`GateInv`), because a barrier is
left by all of them at once (`Arrival`).  What a warp's part of each buffer
holds and which of its copies are under way follows from its own place
(`PlaceOK`, `QueueOK`, `MemOK`), so from the gate of one warp one knows enough
of all (`Company`, `LastCompany`).  The next barrier after an outcome depends on
the outcome, so the invariant has the words and the decisions, too: a warp that
is not blocked can rely on them (`FactInv`), one that still has to read them
finds its word (`CastInv`), and those on the way to the first barrier of the
next tile remember the last outcome (`SkipInv`).  In the forward kernel an
outcome can be misread (observation 9); the theorems are about behaviours up to
there, as the properties say.

**SparseBwdProofs**, for any number of query tiles, two or three groups, any
stages, P and dS in registers or not, one group with dQ or all, and whatever
the votes: `TypeCorrect`, `OperandsWhole` (`ReadsWhole`) and `OneOutcome`
(`SkipAgreement`).  Gates again: the groups have one gate among the barriers of
the CTA, and the gate of the producer, which takes part in two of them only, is
a function of it (`Follows`).  `Arrival` is the
step at a barrier: the last to arrive lets all of them through, so that the
gate of each moves from before the barrier to behind it at once
(`GroupArrives`, `ProducerArrives`).  What a group has voted (`VoteInv`) and
written of P and dS (`PartsInv`) follows from its own place, and
`Company` turns the gate of one into the places of the others: a group that has
met the others over P and dS finds all their parts (`WholeParts`), also when
the fast ones are at the vote of the next tile already, for until the barrier
before the votes is left nobody writes over dS.  What passes between the roles
is counted.  Each group has waited for and released dO as often as its place
says, which is the phase of `pipeline_dO` or one more, and the parity then
stands for one phase (`DOFullInv`, `DOEmptyInv`).  The two barriers of a dQ
buffer have two parties, so that the one that waits is the one that is ahead
(`Between`): the store warp frees a buffer at most one tile ahead of the group
that fills it, and what it takes is what was handed over last (`DQInv`), mark
or dQ.  Where an outcome can be misread (observation 3) the theorems follow
everybody up to that step.

Only model-checked:

* liveness, fairness and ENABLED (`RingTerminates`, `Terminates`, `CallsEnd`,
  `CallsReturn`, `GradientsComplete`, `Completes`, `NeverStuck`), which are
  beyond the prover;
* `DroppedIsNegligible`: a bound on a sum that a fold computes over data, which
  takes induction over data;
* the straight-line code of the Gluon and C++ kernels, and the launches;
* that nobody waits for ever in the runs that check deadlock, FwdWalkSm90 among
  them, which is a matter of ENABLED.

## 5. What the models show to go wrong

1. *The first backward call* (run `triton_first_call`, a finding).  With
   `is_autotune`, the default, and no stored configuration the autotuner
   launches the backward kernel several times on the arrays of the call.  What
   the kernel adds up with atomics, `dq` first of all, is then the sum of all
   these launches: nothing resets it in between (autotuner.py:297).

The others are not runs of the project.  Each is seen by running the module
with a configuration that names the given constant and invariant only,
everything else as in the configuration of the module's run.

| | Module | Constants | Invariant |
|---|---|---|---|
| 2 | MCSparseFwdSm90 | `Launches <- MCLocalLaunch` | `ReadsIntactV` |
| 3 | MCSparseBwdSm90 | `Launches <- MCOneLaunch` | `GroupsGoTogether` |
| 4 | JitCache | 2 processes, `MaxClears = 0`, one of `MaxCrashes`, `MaxFailures` 1 and the other 0 | `ExistsMeansExported` |
| 5 | JitCache | 3 processes, `MaxCrashes = 0`, `MaxFailures = 0`, `MaxClears = 1` | `LoadExcludesWrite` |
| 6 | MCDetBackwardSm90 | `Launches <- GapLaunch` | `AddsInOrder` |
| 7 | MCTritonProgram | `Launches <- DecodeGaps` | `EachPairOnce` |
| 8 | MCTritonProgram | `Launches <- ListTails` | `EachPairOnce` |
| 9 | MCSparseSm80 | `Launches <- MCTwoTiles` | `ReadsVote` |
| 10 | MCSparseSm80 | `Launches <- MCEmpty` | `StoresResult` |
| 11 | MCKernelLaunches | `Calls <- ShortKeys` | `ResultsExact` |
| 12 | MCAsyncAttention | `InOrder <- UnorderedLoads` | `ReadsWhole` |

2. *Votes at the start of a segment* (flash_fwd_sm90.py:3123).  Inside a
   segment all groups meet at a barrier between the last product with a V block
   and the next vote over the same memory.  At the end of a segment they do
   not: the first vote of the window or sink segment can be written into V that
   another group is still multiplying with.
3. *The outcome over the vote* (flash_bwd_sm90.py:3603).  `cta_reduce` ends
   with every thread reading the first word of sdS; without another barrier the
   first MMA thread then stores the outcome for the producer in that word.  A
   warp that reads late finds an integer 1 in place of the vote and keeps the
   tile the others skip.
4. *Partial exports* (cache_utils.py:242).  A process killed during an export,
   or an export that raises, leaves a file that every later process takes for an
   export.
5. *Clearing under a lock* (cache_utils.py:261).  `clear` unlinks lock files
   that are held; the next process locks a new file and loads what is being
   written.
6. *Semaphore values of local windows* (flash_bwd_sm90.py:4059).  With
   `right > 0` and a partial last query tile the backward visits that tile from
   a key block that the forward range does not contain.  Its increment is not
   counted in the values the others wait for: two CTAs add at the same time, or
   one waits for ever.
7. *Near keys of a decode split* (triton/block_info.py:59).  For one query with
   split-KV the near range starts at a block border rounded up, because the
   window range covers the rest of that block.  With `right > 0` it does not,
   and up to `TILE_N - 1` near keys are never visited (`DecodeGap` of
   MCKernelLaunches shows the same in the result).
8. *Lists of keys that do not fill their last block*
   (triton/topk_gather_kv.py:12).  The last block is loaded without a bound:
   the entries that follow the list in memory are gathered, too (`ListTails` of
   MCKernelLaunches).
9. *V over the outcome on SM8x* (flash_fwd.py:2656).  After the last barrier of
   the vote every warp reads the outcome from the first words of sV, and may
   start loading V over them while another has not read it yet.
10. *Key tiles without queries on SM8x* (flash_bwd.py:3162).  K and V were
    requested but no wait covers their copies, which may land over the zeros
    that the epilogue has written to the same memory.
11. *Short sequences in the Gluon backward* (gluon/flash_bwd_sm80.py:1033).
    The kernel never checks that its key block lies within the sequence (the
    Triton kernel returns, flash_dense_bwd.py:277) and stores without a mask,
    so in a batch of concatenated sequences it writes past the rows of a short
    one, into those of the next.
12. *Masked prefetches of Gluon* (gluon/flash_fwd_sm80.py:150,
    flash_bwd_sm80.py:207).  At the last block of a range the prefetch of the
    next is masked off, which fills the buffer with zeros instead of leaving it
    alone.  The next range (flash_fwd_sm80.py:548, flash_bwd_sm80.py:771) loads
    its first tile into the same buffer with only a barrier in between, and one
    wait covers both.  The code is right if the groups of a thread write in the
    order they were committed; the PTX documentation orders when they count as
    complete, not the writes themselves.  `async_kernels` assumes the order for
    launches with a window and needs it nowhere else.

In the deprecated C++ kernels (flash_fwd_kernel.h, flash_bwd_kernel.h) the
launches of `async_kernels` are restricted to those that come out right.  Left
out are: votes taken while the copies of the bias are in flight (`PeeksWhole`
fails, flash_fwd_kernel.h:383); launches that drop a middle or the first key
block, where copies of the bias or of Q are not committed when they are waited
for; the double-buffered backward with a dropped tile before an active one,
where Q of that tile is never loaded (flash_bwd_kernel.h:878); and key lengths
that are no multiple of the block, where the predicate of the last block is
kept for the others (flash_fwd_kernel.h:344).

## 6. What is not modelled

* Numbers: scores, rescaling as arithmetic, rounding, quantisation.  A vote is
  free, a partial result is the set of pairs it contains; only TritonProgram
  has weights, one per row and block, 1 or 4 in the sparse and gated kernels
  and equal in the dense ones, with a threshold of 1/2.
* Memory ordering below the barriers: fences between the generic and the
  asynchronous proxy are taken as written correctly.
* In the SM90 kernels the cp.async path (paged KV), block sparsity, cluster
  launches, variable-length offsets.  A warp group is one actor, so races
  within a group are not seen.  After an outcome was misread nobody is followed
  any further.
* In SparseSm80 a copy lands at the wait that covers it, and until then its
  buffer holds nothing; a warp is one actor.  Configurations are those of
  interface.py: one stage of K and V, Q and V not in registers, P and dS in
  memory.
* The dense CuTe classes and SM100: the interface instantiates the sparse
  classes only and rejects SM10x, and these classes unpack two values from
  `get_n_block_min_max` and `get_m_block_min_max`, which return six
  (flash_fwd.py:1358, flash_bwd.py:644, flash_fwd_sm90.py:775,
  flash_bwd_sm90.py:929, flash_fwd_sm100.py:1664, flash_bwd_sm100.py:1688), so
  that they cannot be traced.  There is no behaviour to be faithful to in these
  more than 14,000 lines.  The same holds of the dynamic persistent scheduler,
  which only they use.  Split-KV of the CuTe ranges is rejected by the
  interface on every live architecture.
* In TritonCall the calls of one process follow each other; the cache directory
  deleted by hand is not modelled; the file lock is taken to exclude.
* TritonProgram takes programs one after the other, which is enough because
  they share nothing before the merge, except what they add to, which is
  `NoRace`.  In the backward the verdicts of softmax and gate are free.
* In AsyncMachine the barriers that the Gluon compiler inserts between
  conflicting accesses (`Membar`) are where its documentation promises them; a
  partition of warps is one actor; with a window the groups of copies of one
  warp are taken to be written in order (observation 12).
  The C++ kernels are modelled without paging and without operands kept in
  registers or sharing memory.
* In the launches a row of `head_dim` numbers is one cell and a program one
  step.  `NoRace` shows that no two programs of a grid write one cell but by
  atomic adds; it does not compare reads with writes of other programs, which
  show in `ResultsExact` only.  No block is dropped; kernels run in stream
  order; rows past the end of a sequence contribute nothing, keys past the end
  spoil a result; the granularity of padding is scaled from 128 to 4; the units
  of log-sum-exp are not told apart; helper kernels use one tile `tc`.  A decode
  window has `right = 0` and a list of keys fills its blocks (observations 7
  and 8), and the varlen backward of Gluon gets sequences with equally many key
  blocks (observation 11).
* In FwdWalkSm90 the branch that takes the first block from the window is
  never taken: if the main range is empty so is the window.  The model has it
  because the code does.
* CuTe interface, static tile schedulers, block sparsity, paging, combine,
  pre- and postprocess and tooling, Triton quantisation and argument checks,
  Python layers, deprecated Triton kernels, tests and scripts: index
  arithmetic, element-wise code or glue without state of its own.

`components` in `PROJECT.json` has the same list by file.

## 7. Plan

Modelled: everything the sections above name.  What is left to prove are the
copies and barriers of AsyncMachine, for any code.  And, of the models: the
cp.async path of the SM90 forward and block sparsity as variants of
SparseFwdSm90 and FwdWalkSm90.
