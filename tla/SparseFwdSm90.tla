---------------------------- MODULE SparseFwdSm90 ----------------------------
(***************************************************************************)
(* The mainloop of the SM90 sparse forward kernel (FlashSparseAttention-   *)
(* ForwardSm90 of cute/flash_fwd_sm90.py) for one query tile: a producer   *)
(* warp that loads K and V blocks, MMA warp groups that compute scores,    *)
(* vote on skipping the block, and accumulate P V, and the feedback by     *)
(* which the vote tells the producer not to load V at all.                 *)
(*                                                                         *)
(* The vote words sSkip have no memory of their own: get_sSkip lays them   *)
(* over the first bytes of sV.  What keeps votes and V bytes apart is only *)
(* the order of three named barriers and of one single-stage pipeline.     *)
(*                                                                         *)
(* K goes through a ring of its own, which TmaPipeline models: here it is  *)
(* the abstract stream of BlockStream.  A warp group is one actor: its     *)
(* warps vote together and meet at every wgmma.  Blocks are numbered in    *)
(* the order they are visited, whatever their n_block.                     *)
(***************************************************************************)
EXTENDS GpuBarriers, Sequences

CONSTANT Launches   \* the launches and tiles that are considered

ASSUME LaunchesAssumption ==
    \A l \in Launches :
        /\ l.groups \in 1 .. 3             \* MMA warp groups, tile_m / 64
        /\ l.blocks \in Nat \ {0}         \* blocks the tile visits
        \* blocks that open a segment: main, window, sink
        /\ 0 \in l.starts /\ l.starts \subseteq 0 .. l.blocks - 1
        /\ l.stages \in Nat \ {0}         \* stages of pipeline_k
        /\ l.overlap \in BOOLEAN          \* intra_wg_overlap
        /\ l.wide \in BOOLEAN             \* tile_hdim > 128

VARIABLE launch

NumGroups == launch.groups
NumBlocks == launch.blocks
KStages   == launch.stages
Starts    == launch.starts
Overlap   == launch.overlap

(* use_scheduler_barrier, rescale_O_before_gemm *)
UseScheduler ==
    IF Overlap THEN NumGroups >= 2 /\ ~launch.wide ELSE NumGroups = 2
RescaleBefore == launch.wide /\ Overlap

Groups   == 0 .. NumGroups - 1
Producer == NumGroups           \* also producer_skip_idx
Blocks   == 0 .. NumBlocks - 1
Words    == 0 .. NumGroups      \* the words of sSkip

VARIABLES
    \* producer warp
    kq, vq,     \* next K and next V block
    ppc,        \* where the producer is
    pskip,      \* is_skip of producer_acquire
    \* shared memory and pipelines
    kLanded,    \* K blocks landed
    kTaken,     \* K blocks released, per group
    vfull, vempty,
    vflight,    \* V loads issued and not landed
    sV,         \* the part of the V buffer no vote word lies on
    sSkip,      \* the words that are vote words or V bytes
    bar,        \* named barriers
    \* MMA groups
    pc, blk,
    vote,       \* warp_skip, of the group's own scores
    rSkip,      \* the outcome of the last vote, in a register
    ver,        \* blocks merged into row_max and row_sum
    over,       \* the number of those acc_O is scaled for
    \* history
    decision,   \* outcome of every vote so far
    acc         \* blocks accumulated in acc_O, per group

producerVars == <<kq, vq, ppc, pskip>>
kVars   == <<kLanded, kTaken>>
vVars   == <<vfull, vempty, vflight>>
memVars == <<sV, sSkip>>
softVars == <<vote, rSkip, ver, over>>
histVars == <<decision, acc>>
vars == <<launch, producerVars, kVars, vVars, memVars, bar, pc, blk, softVars, histVars>>

-----------------------------------------------------------------------------
(* Named barriers: the last arrival lets everybody blocked on it through. *)

PFull   == <<"PFull", 0>>
PEmpty  == <<"PEmpty", 0>>
Softmax == <<"Softmax", 0>>
WarpScheduler(g) == <<"WarpScheduler", g>>

Barriers == {PFull, PEmpty, Softmax} \union {WarpScheduler(g) : g \in Groups}

NumberOfThreads(b) ==
    CASE b \in {PFull, PEmpty} -> NumGroups + 1
      [] b = Softmax -> NumGroups
      [] OTHER -> 2

(* barrier: arrive and block *)
Sync(b, actor) ==
    bar' = [bar EXCEPT ![b] = BarrierSync(@, actor, NumberOfThreads(b))]

(* barrier_arrive: arrive and go on *)
ArriveOn(b) == bar' = [bar EXCEPT ![b] = BarrierArrive(@, NumberOfThreads(b))]

Running(actor) == \A b \in Barriers : actor \notin bar[b].blocked

(* warp_scheduler_barrier_sync / arrive: groups take turns. *)
SchedulerSync(g) ==
    IF UseScheduler THEN Sync(WarpScheduler(g), g) ELSE UNCHANGED bar
SchedulerArrive(g) ==
    IF UseScheduler THEN ArriveOn(WarpScheduler((g + 1) % NumGroups))
    ELSE UNCHANGED bar

-----------------------------------------------------------------------------
(* Shared memory words: a vote, or bytes of a V block. *)

Vote(flag) == [vote |-> flag]
VBytes(b)  == [block |-> b]
Garbage    == -1

(* What comparing a word with 0 can give: V bytes are any number. *)
Flags(word) == IF "vote" \in DOMAIN word THEN {word.vote} ELSE BOOLEAN

(* Phases of the single-stage pipeline_v. *)
ProducerPhase(b) == (b + 1) % 2
ConsumerPhase(b) == b % 2

(* The block whose P V the group computes next: with overlap the scores    *)
(* run one block ahead, except for the last block of a segment.            *)
EndsSegment(b) == b + 1 = NumBlocks \/ b + 1 \in Starts
Ahead(g)   == Overlap /\ pc[g] \notin {"lastv", "lastpv"}
PVBlock(g) == IF Ahead(g) THEN blk[g] - 1 ELSE blk[g]

-----------------------------------------------------------------------------
Init ==
    /\ launch \in Launches
    /\ kq = 0 /\ vq = 0 /\ ppc = "next" /\ pskip = FALSE
    /\ kLanded = {} /\ kTaken = [g \in Groups |-> 0]
    /\ vfull = MbarInit(1) /\ vempty = MbarInit(NumGroups) /\ vflight = {}
    /\ sV = Garbage /\ sSkip = [w \in Words |-> VBytes(Garbage)]
    \* mma_init: the first group has its turn
    /\ bar = [b \in Barriers |->
                IF UseScheduler /\ b = WarpScheduler(0)
                THEN [NoOne EXCEPT !.count = 1] ELSE NoOne]
    /\ pc = [g \in Groups |-> IF Overlap THEN "k" ELSE "turn"]
    /\ blk = [g \in Groups |-> 0]
    /\ vote = [g \in Groups |-> FALSE] /\ rSkip = [g \in Groups |-> FALSE]
    /\ ver = [g \in Groups |-> 0] /\ over = [g \in Groups |-> 0]
    /\ decision = <<>> /\ acc = [g \in Groups |-> {}]

-----------------------------------------------------------------------------
(* The producer's order of loads.  With overlap K runs one block ahead of  *)
(* V inside a segment; otherwise K and V alternate.                        *)
KComesNext ==
    /\ kq < NumBlocks
    /\ kq = vq \/ (Overlap /\ kq = vq + 1 /\ kq \notin Starts)

ProducerLoadK ==
    /\ ppc = "next" /\ KComesNext
    /\ \A g \in Groups : kq < kTaken[g] + KStages
    /\ kq' = kq + 1
    /\ UNCHANGED <<vq, ppc, pskip, kVars, vVars, memVars, bar, pc, blk, softVars, histVars>>

KLands(b) ==
    /\ b < kq /\ b \notin kLanded
    /\ kLanded' = kLanded \union {b}
    /\ UNCHANGED <<producerVars, kTaken, vVars, memVars, bar, pc, blk, softVars, histVars>>

(* producer_acquire of V, first part: wait for the groups' vote. *)
ProducerAwaitVote ==
    /\ ppc = "next" /\ ~KComesNext /\ vq < NumBlocks
    /\ Sync(PFull, Producer)
    /\ ppc' = "full"
    /\ UNCHANGED <<kq, vq, pskip, kVars, vVars, memVars, pc, blk, softVars, histVars>>

(* Second part: read the vote, keep a copy for load_KV, let the groups go. *)
ProducerReadVote ==
    /\ ppc = "full" /\ Running(Producer)
    /\ pskip' \in Flags(sSkip[0])
    /\ sSkip' = [sSkip EXCEPT ![Producer] = Vote(pskip')]
    /\ Sync(PEmpty, Producer)
    /\ ppc' = "empty"
    /\ UNCHANGED <<kq, vq, kVars, vVars, sV, pc, blk, softVars, histVars>>

(* Mutated form: a load is announced even for a skipped block. *)
ProducerAlwaysExpectsV ==
    /\ ppc = "empty" /\ Running(Producer)
    /\ Passed(vempty, ProducerPhase(vq))
    /\ vfull' = ArriveExpectTx(vfull, 1, 1)
    /\ ppc' = "load"
    /\ UNCHANGED <<kq, vq, pskip, kVars, vempty, vflight, memVars, bar, pc, blk,
                   softVars, histVars>>

(* Third part: wait for the buffer, then announce the load or, for a       *)
(* skipped block, arrive without one (producer_arrive_no_tma).             *)
ProducerAcquireV ==
    /\ ppc = "empty" /\ Running(Producer)
    /\ Passed(vempty, ProducerPhase(vq))
    /\ vfull' = IF pskip THEN Arrive(vfull, 1) ELSE ArriveExpectTx(vfull, 1, 1)
    /\ ppc' = "load"
    /\ UNCHANGED <<kq, vq, pskip, kVars, vempty, vflight, memVars, bar, pc, blk,
                   softVars, histVars>>

(* load_KV reads the copy back from shared memory. *)
ProducerLoadV ==
    /\ ppc = "load"
    /\ \E skip \in Flags(sSkip[Producer]) :
          vflight' = IF skip THEN vflight ELSE vflight \union {vq}
    /\ vq' = vq + 1
    /\ ppc' = "next"
    /\ UNCHANGED <<kq, pskip, kVars, vfull, vempty, memVars, bar, pc, blk, softVars,
                   histVars>>

VLands(b) ==
    /\ sV' = b
    /\ sSkip' = [w \in Words |-> VBytes(b)]
    /\ vfull' = CompleteTx(vfull, 1)
    /\ vflight' = vflight \ {b}
    /\ UNCHANGED <<producerVars, kVars, vempty, bar, pc, blk, softVars, histVars>>

(* Mutated form: the tail does not wait. *)
ProducerTailAtOnce ==
    /\ ppc = "next" /\ vq = NumBlocks
    /\ vfull' = ArriveExpectTx(vfull, 1, 1)
    /\ ppc' = "done"
    /\ UNCHANGED <<kq, vq, pskip, kVars, vempty, vflight, memVars, bar, pc, blk,
                   softVars, histVars>>

(* producer_tail: wait until the last V has been released. *)
ProducerTail ==
    /\ ppc = "next" /\ vq = NumBlocks
    /\ Passed(vempty, ProducerPhase(vq))
    /\ vfull' = ArriveExpectTx(vfull, 1, 1)
    /\ ppc' = "done"
    /\ UNCHANGED <<kq, vq, pskip, kVars, vempty, vflight, memVars, bar, pc, blk,
                   softVars, histVars>>

-----------------------------------------------------------------------------
Goto(g, label) == pc' = [pc EXCEPT ![g] = label]
At(g, label)   == pc[g] = label /\ Running(g)

(* The group is done with block b of the tile. *)
NextBlock(g, afterLast) ==
    IF blk[g] + 1 = NumBlocks
    THEN Goto(g, afterLast) /\ UNCHANGED blk
    ELSE Goto(g, "k") /\ blk' = [blk EXCEPT ![g] = @ + 1]

(* Without overlap a group takes its first turn before its first block. *)
FirstTurn(g) ==
    /\ At(g, "turn")
    /\ SchedulerSync(g)
    /\ Goto(g, "k")
    /\ UNCHANGED <<producerVars, kVars, vVars, memVars, blk, softVars, histVars>>

(* Wait for K and start S = Q K.  Without overlap the turn is passed on    *)
(* at once; with it a block inside a segment first takes its turn.         *)
WaitK(g) ==
    /\ At(g, "k")
    /\ blk[g] \in kLanded
    /\ IF Overlap THEN UNCHANGED bar ELSE SchedulerArrive(g)
    /\ Goto(g, IF Overlap /\ blk[g] \notin Starts THEN "sched" ELSE "qk")
    /\ UNCHANGED <<producerVars, kVars, vVars, memVars, blk, softVars, histVars>>

(* The scores are there: release K.  With overlap P V may still go on. *)
FinishScores(g) ==
    /\ At(g, "qk") \/ At(g, "mma")
    /\ kTaken' = [kTaken EXCEPT ![g] = @ + 1]
    /\ Goto(g, IF pc[g] = "qk" THEN "vote" ELSE "pvrest")
    /\ UNCHANGED <<producerVars, kLanded, vVars, memVars, bar, blk, softVars, histVars>>

(* Mutated form: acc_O is rescaled even if the last block was skipped. *)
TakeTurnRescales(g) ==
    /\ At(g, "sched")
    /\ SchedulerSync(g)
    /\ over' = IF RescaleBefore THEN [over EXCEPT ![g] = @ + 1] ELSE over
    /\ Goto(g, IF Overlap THEN "v" ELSE "pv")
    /\ UNCHANGED <<producerVars, kVars, vVars, memVars, blk, vote, rSkip, ver, histVars>>

(* Take the turn for P V; acc_O is rescaled here if that comes first. *)
TakeTurn(g) ==
    /\ At(g, "sched")
    /\ SchedulerSync(g)
    /\ over' = IF RescaleBefore /\ ~rSkip[g] THEN [over EXCEPT ![g] = @ + 1] ELSE over
    /\ Goto(g, IF Overlap THEN "v" ELSE "pv")
    /\ UNCHANGED <<producerVars, kVars, vVars, memVars, blk, vote, rSkip, ver, histVars>>

(* Wait for V of block PVBlock, loaded or skipped. *)
WaitV(g) ==
    /\ At(g, "v")
    /\ Passed(vfull, ConsumerPhase(PVBlock(g)))
    /\ Goto(g, IF Overlap THEN "pv" ELSE "sched")
    /\ UNCHANGED <<producerVars, kVars, vVars, memVars, bar, blk, softVars, histVars>>

(* The last half block of a segment. *)
WaitLastV(g) ==
    /\ At(g, "lastv")
    /\ Passed(vfull, ConsumerPhase(blk[g]))
    /\ over' = IF RescaleBefore /\ ~rSkip[g] THEN [over EXCEPT ![g] = @ + 1] ELSE over
    /\ Goto(g, "lastpv")
    /\ UNCHANGED <<producerVars, kVars, vVars, memVars, bar, blk, vote, rSkip, ver,
                   histVars>>

(* With overlap P V is issued, the turn passed on, and P V goes on. *)
PassTurn(g) ==
    /\ At(g, "pv") /\ Overlap
    /\ SchedulerArrive(g)
    /\ Goto(g, "mma")
    /\ UNCHANGED <<producerVars, kVars, vVars, memVars, blk, softVars, histVars>>

(* Mutated form: skipped blocks are accumulated too. *)
AccumulateAlways(g) ==
    /\ acc' = [acc EXCEPT ![g] = @ \union {PVBlock(g)}]
    /\ over' = IF PVBlock(g) = 0 THEN [over EXCEPT ![g] = ver[g]] ELSE over

(* O += P V unless the block was skipped.  The first P V of a tile         *)
(* overwrites acc_O (zero_init).                                           *)
Accumulate(g) ==
    IF rSkip[g] THEN UNCHANGED <<acc, over>>
    ELSE /\ acc' = [acc EXCEPT ![g] = @ \union {PVBlock(g)}]
         /\ over' = IF PVBlock(g) = 0 THEN [over EXCEPT ![g] = ver[g]] ELSE over

(* Mutated form: the groups do not meet before V is released. *)
FinishMmaAlone(g) ==
    /\ At(g, "pvrest")
    /\ Accumulate(g)
    /\ Goto(g, "vrel")
    /\ UNCHANGED <<producerVars, kVars, vVars, memVars, bar, blk, vote, rSkip, ver,
                   decision>>

(* P V is complete: meet the other groups before V is released and its     *)
(* memory used for votes.                                                  *)
FinishMma(g) ==
    /\ At(g, "pvrest")
    /\ Accumulate(g)
    /\ Sync(Softmax, g)
    /\ Goto(g, "vrel")
    /\ UNCHANGED <<producerVars, kVars, vVars, memVars, blk, vote, rSkip, ver, decision>>

ReleaseV(g) ==
    /\ At(g, "vrel")
    /\ vempty' = Arrive(vempty, NumGroups)
    /\ Goto(g, "vote")
    /\ UNCHANGED <<producerVars, kVars, vfull, vflight, memVars, bar, blk, softVars,
                   histVars>>

(* P V of the last half block, or of any block without overlap. *)
FinishPV(g) ==
    /\ At(g, "lastpv") \/ (At(g, "pv") /\ ~Overlap)
    /\ Accumulate(g)
    /\ vempty' = Arrive(vempty, NumGroups)
    /\ NextBlock(g, IF Overlap THEN "done" ELSE "yield")
    /\ UNCHANGED <<producerVars, kVars, vfull, vflight, memVars, bar, vote, rSkip, ver,
                   decision>>

LastTurn(g) ==
    /\ At(g, "yield")
    /\ SchedulerArrive(g)
    /\ Goto(g, "done")
    /\ UNCHANGED <<producerVars, kVars, vVars, memVars, blk, softVars, histVars>>

-----------------------------------------------------------------------------
(* Softmax.skip.  The first block of a tile is never skipped: one thread   *)
(* says so to the producer.                                                *)
FirstVote(g) ==
    /\ At(g, "vote") /\ blk[g] = 0
    /\ sSkip' = IF g = 0 THEN [sSkip EXCEPT ![0] = Vote(FALSE)] ELSE sSkip
    /\ decision' = IF g = 0 THEN Append(decision, FALSE) ELSE decision
    /\ rSkip' = [rSkip EXCEPT ![g] = FALSE]
    /\ Sync(PFull, g)
    /\ Goto(g, "full")
    /\ UNCHANGED <<producerVars, kVars, vVars, sV, blk, vote, ver, over, acc>>

(* cta_reduce: every group writes its own word ... *)
CastVote(g) ==
    /\ At(g, "vote") /\ blk[g] > 0
    /\ \E flag \in BOOLEAN :
          /\ vote' = [vote EXCEPT ![g] = flag]
          /\ sSkip' = [sSkip EXCEPT ![g] = Vote(flag)]
    /\ Sync(Softmax, g)
    /\ Goto(g, "reduce")
    /\ UNCHANGED <<producerVars, kVars, vVars, sV, blk, rSkip, ver, over, histVars>>

(* ... the first one combines them in word 0 ... *)
ReduceVotes(g) ==
    /\ At(g, "reduce")
    /\ IF g = 0
       THEN \E flags \in [Groups -> BOOLEAN] :
              /\ \A w \in Groups : flags[w] \in Flags(sSkip[w])
              /\ sSkip' = [sSkip EXCEPT ![0] = Vote(\A w \in Groups : flags[w])]
              /\ decision' = Append(decision, \A w \in Groups : vote[w])
       ELSE UNCHANGED <<sSkip, decision>>
    /\ Sync(Softmax, g)
    /\ Goto(g, "read")
    /\ UNCHANGED <<producerVars, kVars, vVars, sV, blk, softVars, acc>>

(* Mutated form: everybody reads back its own word. *)
ReadOwnVote(g) ==
    /\ At(g, "read")
    /\ \E flag \in Flags(sSkip[g]) : rSkip' = [rSkip EXCEPT ![g] = flag]
    /\ Sync(PFull, g)
    /\ Goto(g, "full")
    /\ UNCHANGED <<producerVars, kVars, vVars, memVars, blk, vote, ver, over, histVars>>

(* ... and everybody reads it, then tells the producer. *)
ReadVote(g) ==
    /\ At(g, "read")
    /\ \E flag \in Flags(sSkip[0]) : rSkip' = [rSkip EXCEPT ![g] = flag]
    /\ Sync(PFull, g)
    /\ Goto(g, "full")
    /\ UNCHANGED <<producerVars, kVars, vVars, memVars, blk, vote, ver, over, histVars>>

AwaitProducer(g) ==
    /\ At(g, "full")
    /\ Sync(PEmpty, g)
    /\ Goto(g, "soft")
    /\ UNCHANGED <<producerVars, kVars, vVars, memVars, blk, softVars, histVars>>

(* online_softmax of a block that is kept, and rescale_O, which the first  *)
(* half block does not need on an empty acc_O.                             *)
OnlineSoftmax(g) ==
    /\ At(g, "soft")
    /\ ver' = IF rSkip[g] THEN ver ELSE [ver EXCEPT ![g] = @ + 1]
    /\ over' = IF rSkip[g] \/ RescaleBefore \/ (Overlap /\ blk[g] = 0) THEN over
               ELSE [over EXCEPT ![g] = @ + 1]
    /\ IF ~Overlap THEN Goto(g, "v") /\ UNCHANGED blk
       ELSE IF EndsSegment(blk[g]) THEN Goto(g, "lastv") /\ UNCHANGED blk
       ELSE NextBlock(g, "done")
    /\ UNCHANGED <<producerVars, kVars, vVars, memVars, bar, vote, rSkip, histVars>>

-----------------------------------------------------------------------------
ProducerStep ==
    /\ \/ ProducerLoadK \/ ProducerAwaitVote \/ ProducerReadVote
       \/ ProducerAcquireV \/ ProducerLoadV \/ ProducerTail
    /\ UNCHANGED launch

KStep == (\E b \in Blocks : KLands(b)) /\ UNCHANGED launch
VStep == (\E b \in vflight : VLands(b)) /\ UNCHANGED launch

GroupStep(g) ==
    /\ \/ FirstTurn(g) \/ WaitK(g) \/ FinishScores(g) \/ TakeTurn(g)
       \/ WaitV(g) \/ WaitLastV(g) \/ PassTurn(g) \/ FinishMma(g)
       \/ ReleaseV(g) \/ FinishPV(g) \/ LastTurn(g)
       \/ FirstVote(g) \/ CastVote(g) \/ ReduceVotes(g) \/ ReadVote(g)
       \/ AwaitProducer(g) \/ OnlineSoftmax(g)
    /\ UNCHANGED launch

Next == ProducerStep \/ KStep \/ VStep \/ \E g \in Groups : GroupStep(g)

Spec == Init /\ [][Next]_vars

(* The warps of a resident CTA are all scheduled and issued loads land. *)
Fairness ==
    /\ WF_vars(ProducerStep) /\ WF_vars(KStep) /\ WF_vars(VStep)
    /\ \A g \in 0 .. 2 : WF_vars(g \in Groups /\ GroupStep(g))

FairSpec == Spec /\ Fairness

-----------------------------------------------------------------------------
Labels == {"turn", "k", "qk", "sched", "v", "pv", "mma", "pvrest", "vrel",
           "lastv", "lastpv", "yield", "vote", "reduce", "read", "full", "soft", "done"}

(* Every variable has its type.  The barriers are the part that could go   *)
(* wrong: no mbarrier or named barrier takes more arrivals than a phase    *)
(* has, pipeline_v has at most one load under way.                         *)
TypeOK ==
    /\ kq \in 0 .. NumBlocks /\ vq \in 0 .. NumBlocks /\ pskip \in BOOLEAN
    /\ ppc \in {"next", "full", "empty", "load", "done"}
    /\ kLanded \subseteq Blocks /\ kTaken \in [Groups -> 0 .. NumBlocks]
    /\ vfull.phase \in Nat /\ vfull.pending + vfull.tx = 1 /\ vfull.tx \in 0 .. 1
    /\ vempty.phase \in Nat /\ vempty.pending \in 1 .. NumGroups /\ vempty.tx = 0
    /\ vflight \subseteq Blocks /\ Cardinality(vflight) <= vfull.tx
    /\ sV \in Blocks \union {Garbage}
    /\ sSkip \in [Words -> {Vote(f) : f \in BOOLEAN}
                           \union {VBytes(b) : b \in Blocks \union {Garbage}}]
    /\ \A b \in Barriers : BarrierOK(bar[b], 0 .. NumGroups, NumberOfThreads(b))
    /\ pc \in [Groups -> Labels] /\ blk \in [Groups -> Blocks]
    /\ vote \in [Groups -> BOOLEAN] /\ rSkip \in [Groups -> BOOLEAN]
    /\ ver \in [Groups -> 0 .. NumBlocks] /\ over \in [Groups -> 0 .. NumBlocks]
    /\ decision \in Seq(BOOLEAN) /\ acc \in [Groups -> SUBSET Blocks]

(* A group is computing P V of a block it keeps. *)
ReadsV(g) ==
    /\ ~rSkip[g]
    /\ pc[g] \in {"pv", "mma", "pvrest", "lastpv"}

(* While a group multiplies with V, all of sV is the V block the group is  *)
(* at: no load of a later block and no vote word has been written over it. *)
ReadsIntactV ==
    \A g \in Groups : ReadsV(g) =>
        sV = PVBlock(g) /\ \A w \in Words : sSkip[w] = VBytes(PVBlock(g))

(* A vote meets V bytes that are still read at the start of a segment, or  *)
(* without overlap: see the finding.  Everywhere else ReadsIntactV holds.  *)
OneSegmentIntactV == Overlap /\ Starts = {0} => ReadsIntactV

(* The block whose outcome rSkip holds. *)
VotedBlock(g) ==
    IF ~Overlap \/ pc[g] \in {"full", "soft", "lastv", "lastpv"} THEN blk[g] ELSE blk[g] - 1

HoldsOutcome(g) ==
    \/ At(g, "full") \/ pc[g] \in {"soft", "lastv", "lastpv"}
    \/ Overlap /\ blk[g] \notin Starts /\ pc[g] \in {"k", "sched", "v", "pv", "mma", "pvrest", "vrel"}
    \/ ~Overlap /\ pc[g] \in {"v", "sched", "pv"}

(* All groups and the producer act on one and the same outcome for each    *)
(* block, the conjunction of that block's votes: no group adds P V of a    *)
(* block whose V the producer did not load.                                *)
SkipAgreement ==
    /\ \A g \in Groups : HoldsOutcome(g) => rSkip[g] = decision[VotedBlock(g) + 1]
    /\ ppc \in {"empty", "load"} => pskip = decision[vq + 1]

(* acc_O is scaled for the same row maximum as the P it is added to, and   *)
(* at the end for the final one, whatever blocks were skipped in between.  *)
ScalesAgree ==
    \A g \in Groups :
        /\ ReadsV(g) /\ PVBlock(g) > 0 => over[g] = ver[g]
        /\ pc[g] = "done" => over[g] = ver[g]

(* Every group ends with all blocks that were kept, and the kernel ends:   *)
(* no interleaving of the four kinds of barriers blocks it.                *)
Terminates ==
    <>[](/\ ppc = "done"
        /\ \A g \in Groups :
              pc[g] = "done" /\ acc[g] = {b \in Blocks : ~decision[b + 1]})

(* What the mainloop promises, see SkipFold. *)
Fold == INSTANCE SkipFold
ImplementsFold == Fold!Spec
=============================================================================
