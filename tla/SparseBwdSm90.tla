---------------------------- MODULE SparseBwdSm90 ----------------------------
(***************************************************************************)
(* The mainloop of the SM90 sparse backward kernel (FlashSparseAttention-  *)
(* BackwardSm90 of cute/flash_bwd_sm90.py) for one key tile: a producer    *)
(* warp that loads Q and dO, MMA warp groups that vote on skipping a query *)
(* tile or add to dK, dV and hand dQ over, and a warp that adds dQ to      *)
(* global memory.                                                          *)
(*                                                                         *)
(* Three things lie on the first bytes of sdS: dS itself, the vote words   *)
(* of cta_reduce (sSkip) and the two words by which the outcome reaches    *)
(* the producer (sdOLoadSkip).  Only the order of the barriers keeps them  *)
(* apart, and for one pair it does not: see GroupsGoTogether.              *)
(*                                                                         *)
(* The ring of Q is the abstract stream of BlockStream.  A warp group is   *)
(* one actor.  Query tiles are numbered in the order they are visited.     *)
(***************************************************************************)
EXTENDS GpuBarriers, Sequences

CONSTANT Launches

ASSUME LaunchesAssumption ==
    \A l \in Launches :
        /\ l.groups \in 2 .. 3           \* MMA warp groups (num_wg_mma)
        /\ l.tiles \in Nat               \* query tiles, none: process_tile is false
        /\ l.stagesQ \in Nat \ {0}       \* Q_stage
        /\ l.stagesPdS \in {1, l.stagesQ}
        /\ l.rs \in BOOLEAN              \* mma_dkv_is_rs: P and dS of dV, dK in registers
        /\ l.single \in BOOLEAN          \* dQ_single_wg

VARIABLE launch

NumGroups == launch.groups
NumTiles  == launch.tiles
Groups    == 0 .. NumGroups - 1
Tiles     == 0 .. NumTiles - 1
DQGroups  == IF launch.single THEN {0} ELSE Groups   \* is_dQ_wg
NumWgDQ   == IF launch.single THEN 1 ELSE NumGroups
Stages    == 0 .. launch.stagesPdS - 1
Producer  == NumGroups
StoreWarp == NumGroups + 1

VARIABLES
    \* producer warp
    qNext, dONext, ppc,
    pskip,      \* is_skip of producer_acquire
    \* dQ store warp
    sTile, sGroup, spc,
    adding,     \* the tile whose dQ a bulk add is still reading, per group
    \* pipelines and barriers
    qLanded, qTaken, dOfull, dOempty, dOflight, bar,
    \* shared memory
    words,      \* the first words of sdS
    sdS, sP,    \* per stage, the tile each group's part is of
    sdO, sdQ, sdQSkip,
    sKV,        \* sK and sV still hold K and V
    \* MMA groups
    pc, tile,
    vote,       \* the group's own vote
    rSkip,      \* is_skip
    accumulate, \* dKV_accumulate
    \* history
    decision,   \* outcome of every vote
    dKV,        \* the tiles in acc_dK and acc_dV, per group
    dQ,         \* the tiles added to global memory, per group
    misread     \* a group has read an outcome that was overwritten

producerVars == <<qNext, dONext, ppc, pskip>>
storeVars    == <<sTile, sGroup, spc, adding>>
qVars        == <<qLanded, qTaken>>
dOVars       == <<dOfull, dOempty, dOflight>>
pdsVars      == <<words, sdS, sP>>
dQVars       == <<sdQ, sdQSkip>>
voteVars     == <<vote, rSkip>>
dKVVars      == <<accumulate, dKV>>
histVars     == <<decision, misread>>
memVars      == <<pdsVars, sdO, dQVars, sKV>>
vars == <<launch, producerVars, storeVars, qVars, dOVars, bar, memVars,
          pc, tile, voteVars, dKVVars, histVars, dQ>>

-----------------------------------------------------------------------------
dOLoadFull  == <<"dOLoadFull", 0>>
dOLoadEmpty == <<"dOLoadEmpty", 0>>
Softmax     == <<"Softmax", 0>>
PdS         == <<"PdS", 0>>
Epilogue    == <<"Epilogue", 0>>
dQFull(g)   == <<"dQFull", g>>
dQEmpty(g)  == <<"dQEmpty", g>>

Barriers == {dOLoadFull, dOLoadEmpty, Softmax, PdS, Epilogue}
            \union {dQFull(g) : g \in DQGroups} \union {dQEmpty(g) : g \in DQGroups}

NumberOfThreads(b) ==
    CASE b \in {dOLoadFull, dOLoadEmpty} -> NumGroups + 1
      [] b \in {Softmax, PdS, Epilogue} -> NumGroups
      [] OTHER -> 2

Sync(b, actor) ==
    bar' = [bar EXCEPT ![b] = BarrierSync(@, actor, NumberOfThreads(b))]
ArriveOn(b) == bar' = [bar EXCEPT ![b] = BarrierArrive(@, NumberOfThreads(b))]
Running(actor) == \A b \in Barriers : actor \notin bar[b].blocked

(* A word over sdS: the vote of a group's warps as a number whose sign     *)
(* counts, an outcome stored as the integer 1 or 0, or bytes of dS.        *)
Vote(flag) == [vote |-> flag]
Flag(flag) == [flag |-> flag]
DS(t)      == [tile |-> t]
Garbage    == -1
None       == -2

Copy == NumGroups            \* sdOLoadSkip[1], on the word of warp 1 of group 0
Words == Groups \union {Copy}

(* What `< 0.0` gives on a word read as a float: the integers 0 and 1 are  *)
(* a zero and a denormal, bytes of dS are any number.                      *)
AsVote(word) ==
    IF "vote" \in DOMAIN word THEN {word.vote}
    ELSE IF "flag" \in DOMAIN word THEN {FALSE} ELSE BOOLEAN

(* What `!= 0` gives on a word read as an integer. *)
AsFlag(word) == IF "flag" \in DOMAIN word THEN {word.flag} ELSE BOOLEAN

StagePdS(t) == t % launch.stagesPdS
PhaseDO(t)  == t % 2                 \* the single stage of pipeline_dO

-----------------------------------------------------------------------------
Init ==
    /\ launch \in Launches
    /\ qNext = 0 /\ dONext = 0 /\ ppc = "q" /\ pskip = FALSE
    /\ sTile = 0 /\ sGroup = 0 /\ spc = "free"
    /\ adding = [g \in DQGroups |-> None]
    /\ qLanded = {} /\ qTaken = [g \in Groups |-> 0]
    /\ dOfull = MbarInit(1) /\ dOempty = MbarInit(NumGroups) /\ dOflight = {}
    /\ bar = [b \in Barriers |-> NoOne]
    /\ words = [w \in Words |-> DS(Garbage)]
    /\ sdS = [s \in Stages |-> [g \in Groups |-> Garbage]]
    /\ sP = [s \in Stages |-> [g \in Groups |-> Garbage]]
    /\ sdO = Garbage /\ sKV = TRUE
    /\ sdQ = [g \in DQGroups |-> Garbage] /\ sdQSkip \in [DQGroups -> BOOLEAN]
    /\ pc = [g \in Groups |-> IF NumTiles = 0 THEN "fill" ELSE "q"]
    /\ tile = [g \in Groups |-> 0]
    /\ vote = [g \in Groups |-> FALSE] /\ rSkip = [g \in Groups |-> FALSE]
    /\ accumulate = [g \in Groups |-> FALSE]
    /\ decision = <<>> /\ dKV = [g \in Groups |-> {Garbage}]
    /\ dQ = [g \in DQGroups |-> {}] /\ misread = FALSE

-----------------------------------------------------------------------------
(* Producer warp: Q of a tile, with the first one K and V ... *)
LoadQ ==
    /\ ppc = "q" /\ qNext < NumTiles
    /\ \A g \in Groups : qNext < qTaken[g] + launch.stagesQ
    /\ qNext' = qNext + 1 /\ ppc' = "vote"
    /\ UNCHANGED <<dONext, pskip, storeVars, qVars, dOVars, bar, memVars, pc, tile,
                   voteVars, dKVVars, histVars, dQ>>

(* ... then producer_acquire of dO: wait for the outcome of the vote, ... *)
AwaitVote ==
    /\ ppc = "vote"
    /\ Sync(dOLoadFull, Producer)
    /\ ppc' = "read"
    /\ UNCHANGED <<qNext, dONext, pskip, storeVars, qVars, dOVars, memVars, pc, tile,
                   voteVars, dKVVars, histVars, dQ>>

(* ... read it, keep a copy for load, let the groups go, ... *)
ReadOutcome ==
    /\ ppc = "read" /\ Running(Producer)
    /\ pskip' \in AsFlag(words[0])
    /\ words' = [words EXCEPT ![Copy] = Flag(pskip')]
    /\ Sync(dOLoadEmpty, Producer)
    /\ ppc' = "acquire"
    /\ UNCHANGED <<qNext, dONext, storeVars, qVars, dOVars, sdS, sP, sdO, dQVars, sKV,
                   pc, tile, voteVars, dKVVars, histVars, dQ>>

(* ... wait for the buffer, announce the load or arrive without one. *)
AcquireDO ==
    /\ ppc = "acquire" /\ Running(Producer)
    /\ Passed(dOempty, PhaseDO(dONext) + 1)
    /\ dOfull' = IF pskip THEN Arrive(dOfull, 1) ELSE ArriveExpectTx(dOfull, 1, 1)
    /\ ppc' = "load"
    /\ UNCHANGED <<qNext, dONext, pskip, storeVars, qVars, dOempty, dOflight, bar,
                   memVars, pc, tile, voteVars, dKVVars, histVars, dQ>>

(* Mutated form: dO is loaded whatever the outcome. *)
LoadDOAlways ==
    /\ ppc = "load"
    /\ dOflight' = dOflight \union {dONext}
    /\ dONext' = dONext + 1 /\ ppc' = "q"
    /\ UNCHANGED <<qNext, pskip, storeVars, qVars, dOfull, dOempty, bar, memVars, pc,
                   tile, voteVars, dKVVars, histVars, dQ>>

(* load reads the copy back and loads dO and dPsum, or not. *)
LoadDO ==
    /\ ppc = "load"
    /\ \E skip \in AsFlag(words[Copy]) :
          dOflight' = IF skip THEN dOflight ELSE dOflight \union {dONext}
    /\ dONext' = dONext + 1 /\ ppc' = "q"
    /\ UNCHANGED <<qNext, pskip, storeVars, qVars, dOfull, dOempty, bar, memVars, pc,
                   tile, voteVars, dKVVars, histVars, dQ>>

QLands(t) ==
    /\ t < qNext /\ t \notin qLanded
    /\ qLanded' = qLanded \union {t}
    /\ UNCHANGED <<producerVars, storeVars, qTaken, dOVars, bar, memVars, pc, tile,
                   voteVars, dKVVars, histVars, dQ>>

DOLands(t) ==
    /\ sdO' = t
    /\ dOfull' = CompleteTx(dOfull, 1)
    /\ dOflight' = dOflight \ {t}
    /\ UNCHANGED <<producerVars, storeVars, qVars, dOempty, bar, pdsVars, dQVars, sKV,
                   pc, tile, voteVars, dKVVars, histVars, dQ>>

-----------------------------------------------------------------------------
Goto(g, label) == pc' = [pc EXCEPT ![g] = label]
At(g, label)   == pc[g] = label /\ Running(g)

(* consumer_release of Q; on to the next tile. *)
ReleaseQ(g) ==
    /\ qTaken' = [qTaken EXCEPT ![g] = @ + 1]
    /\ IF tile[g] + 1 = NumTiles THEN Goto(g, "fill") /\ UNCHANGED tile
       ELSE Goto(g, "q") /\ tile' = [tile EXCEPT ![g] = @ + 1]

(* S = Q K^T *)
WaitQ(g) ==
    /\ At(g, "q") /\ tile[g] \in qLanded
    /\ Goto(g, "s")
    /\ UNCHANGED <<producerVars, storeVars, qVars, dOVars, bar, memVars, tile, voteVars,
                   dKVVars, histVars, dQ>>

(* Mutated form: no barrier between the last tile and the votes. *)
FinishScoresAlone(g) ==
    /\ At(g, "s")
    /\ Goto(g, "cast")
    /\ UNCHANGED <<producerVars, storeVars, qVars, dOVars, bar, memVars, tile, voteVars,
                   dKVVars, histVars, dQ>>

(* S is complete and masked: meet before votes are written over sdS. *)
FinishScores(g) ==
    /\ At(g, "s")
    /\ Sync(Softmax, g)
    /\ Goto(g, "cast")
    /\ UNCHANGED <<producerVars, storeVars, qVars, dOVars, memVars, tile, voteVars,
                   dKVVars, histVars, dQ>>

(* cta_reduce: every group's warps write their words ... *)
CastVote(g) ==
    /\ At(g, "cast")
    /\ \E flag \in BOOLEAN :
          /\ vote' = [vote EXCEPT ![g] = flag]
          /\ words' = [w \in Words |->
                         IF w = g \/ (g = 0 /\ w = Copy) THEN Vote(flag) ELSE words[w]]
    /\ Sync(Softmax, g)
    /\ Goto(g, "reduce")
    /\ UNCHANGED <<producerVars, storeVars, qVars, dOVars, sdS, sP, sdO, dQVars, sKV,
                   tile, rSkip, dKVVars, histVars, dQ>>

(* ... the first one combines them in word 0 ... *)
ReduceVotes(g) ==
    /\ At(g, "reduce")
    /\ IF g = 0
       THEN \E votes \in [Groups -> BOOLEAN] :
              /\ \A w \in Groups : votes[w] \in AsVote(words[w])
              /\ words' = [words EXCEPT ![0] = Vote(\A w \in Groups : votes[w])]
              /\ decision' = Append(decision, \A w \in Groups : vote[w])
       ELSE UNCHANGED <<words, decision>>
    /\ Sync(Softmax, g)
    /\ Goto(g, "read")
    /\ UNCHANGED <<producerVars, storeVars, qVars, dOVars, sdS, sP, sdO, dQVars, sKV,
                   tile, voteVars, dKVVars, misread, dQ>>

(* ... and everybody reads word 0.  The first thread then stores the       *)
(* outcome for the producer, over the word the others may not have read.   *)
ReadVote(g) ==
    /\ At(g, "read")
    /\ \E skip \in AsVote(words[0]) :
          /\ rSkip' = [rSkip EXCEPT ![g] = skip]
          /\ words' = IF g = 0 THEN [words EXCEPT ![0] = Flag(skip)] ELSE words
    /\ misread' = (misread \/ words[0] = Flag(TRUE))
    /\ Sync(dOLoadFull, g)
    /\ Goto(g, "full")
    /\ UNCHANGED <<producerVars, storeVars, qVars, dOVars, sdS, sP, sdO, dQVars, sKV,
                   tile, vote, dKVVars, decision, dQ>>

AwaitProducer(g) ==
    /\ At(g, "full")
    /\ Sync(dOLoadEmpty, g)
    /\ Goto(g, "do")
    /\ UNCHANGED <<producerVars, storeVars, qVars, dOVars, memVars, tile, voteVars,
                   dKVVars, histVars, dQ>>

-----------------------------------------------------------------------------
(* A skipped tile: release dO; a group that has dQ to hand over waits for  *)
(* the buffer, the other one is done with the tile.                        *)
SkipTile(g) ==
    /\ At(g, "do") /\ Passed(dOfull, PhaseDO(tile[g])) /\ rSkip[g]
    /\ dOempty' = Arrive(dOempty, NumGroups)
    /\ IF g \in DQGroups
       THEN Sync(dQEmpty(g), g) /\ Goto(g, "mark") /\ UNCHANGED <<qTaken, tile>>
       ELSE ReleaseQ(g) /\ UNCHANGED bar
    /\ UNCHANGED <<producerVars, storeVars, qLanded, dOfull, dOflight, memVars, voteVars,
                   dKVVars, histVars, dQ>>

(* Mutated form: the store warp is not told. *)
HandOverNothing(g) ==
    /\ At(g, "mark")
    /\ ArriveOn(dQFull(g))
    /\ ReleaseQ(g)
    /\ UNCHANGED <<producerVars, storeVars, qLanded, dOVars, memVars, voteVars, dKVVars,
                   histVars, dQ>>

(* Tell the store warp that there is no dQ. *)
MarkSkipped(g) ==
    /\ At(g, "mark")
    /\ sdQSkip' = [sdQSkip EXCEPT ![g] = TRUE]
    /\ ArriveOn(dQFull(g))
    /\ ReleaseQ(g)
    /\ UNCHANGED <<producerVars, storeVars, qLanded, dOVars, pdsVars, sdO, sdQ, sKV,
                   voteVars, dKVVars, histVars, dQ>>

(* A kept tile: dP = dO V^T is issued.  With a single stage and P in       *)
(* shared memory the groups meet before P is overwritten.                  *)
KeepTile(g) ==
    /\ At(g, "do") /\ Passed(dOfull, PhaseDO(tile[g])) /\ ~rSkip[g]
    /\ IF ~launch.rs /\ launch.stagesPdS = 1 THEN Sync(PdS, g) ELSE UNCHANGED bar
    /\ Goto(g, "p")
    /\ UNCHANGED <<producerVars, storeVars, qVars, dOVars, memVars, tile, voteVars,
                   dKVVars, histVars, dQ>>

(* P; then dP is complete.  Meet before dS is overwritten unless its       *)
(* stages alternate and P stays in registers.                              *)
WriteP(g) ==
    /\ At(g, "p")
    /\ sP' = IF launch.rs THEN sP ELSE [sP EXCEPT ![StagePdS(tile[g])][g] = tile[g]]
    /\ IF ~launch.rs \/ launch.stagesPdS = 1 THEN Sync(PdS, g) ELSE UNCHANGED bar
    /\ Goto(g, "ds")
    /\ UNCHANGED <<producerVars, storeVars, qVars, dOVars, words, sdS, sdO, dQVars, sKV,
                   tile, voteVars, dKVVars, histVars, dQ>>

(* dS; dV += P^T dO is issued; meet before dS of the others is read. *)
WriteDS(g) ==
    /\ At(g, "ds")
    /\ sdS' = [sdS EXCEPT ![StagePdS(tile[g])][g] = tile[g]]
    /\ words' = IF g = 0 /\ StagePdS(tile[g]) = 0
                THEN [w \in Words |-> DS(tile[g])] ELSE words
    /\ Sync(PdS, g)
    /\ Goto(g, "dv")
    /\ UNCHANGED <<producerVars, storeVars, qVars, dOVars, sP, sdO, dQVars, sKV, tile,
                   voteVars, dKVVars, histVars, dQ>>

(* dQ = dS K and then dK += dS^T Q are issued; once dV is complete dO is   *)
(* released.  The group without dQ has only dK to wait for.                *)
FinishDV(g) ==
    /\ At(g, "dv")
    /\ dOempty' = Arrive(dOempty, NumGroups)
    /\ Goto(g, IF g \in DQGroups THEN "dq" ELSE "dk")
    /\ UNCHANGED <<producerVars, storeVars, qVars, dOfull, dOflight, bar, memVars, tile,
                   voteVars, dKVVars, histVars, dQ>>

(* dQ is complete: wait for the buffer ... *)
FinishDQ(g) ==
    /\ At(g, "dq")
    /\ Sync(dQEmpty(g), g)
    /\ Goto(g, "hand")
    /\ UNCHANGED <<producerVars, storeVars, qVars, dOVars, memVars, tile, voteVars,
                   dKVVars, histVars, dQ>>

(* ... and hand it over. *)
HandOverDQ(g) ==
    /\ At(g, "hand")
    /\ sdQ' = [sdQ EXCEPT ![g] = tile[g]]
    /\ sdQSkip' = [sdQSkip EXCEPT ![g] = FALSE]
    /\ ArriveOn(dQFull(g))
    /\ Goto(g, "dk")
    /\ UNCHANGED <<producerVars, storeVars, qVars, dOVars, pdsVars, sdO, sKV, tile,
                   voteVars, dKVVars, histVars, dQ>>

(* Mutated form: every tile adds to what the registers hold. *)
FinishDKAdds(g) ==
    /\ At(g, "dk")
    /\ dKV' = [dKV EXCEPT ![g] = @ \union {tile[g]}]
    /\ accumulate' = [accumulate EXCEPT ![g] = TRUE]
    /\ ReleaseQ(g)
    /\ UNCHANGED <<producerVars, storeVars, qLanded, dOVars, bar, memVars, voteVars,
                   histVars, dQ>>

(* dK is complete.  The first kept tile overwrites dK and dV (zero_init).  *)
FinishDK(g) ==
    /\ At(g, "dk")
    /\ dKV' = [dKV EXCEPT ![g] = (IF accumulate[g] THEN @ ELSE {}) \union {tile[g]}]
    /\ accumulate' = [accumulate EXCEPT ![g] = TRUE]
    /\ ReleaseQ(g)
    /\ UNCHANGED <<producerVars, storeVars, qLanded, dOVars, bar, memVars, voteVars,
                   histVars, dQ>>

(* No tile was kept, or there is none: zeros.  Then meet before sK and sV  *)
(* become the buffers of the epilogue.                                     *)
EnterEpilogue(g) ==
    /\ At(g, "fill")
    /\ dKV' = IF accumulate[g] THEN dKV ELSE [dKV EXCEPT ![g] = {}]
    /\ Sync(Epilogue, g)
    /\ Goto(g, "epilogue")
    /\ UNCHANGED <<producerVars, storeVars, qVars, dOVars, memVars, tile, voteVars,
                   accumulate, histVars, dQ>>

StoreDKV(g) ==
    /\ At(g, "epilogue")
    /\ sKV' = FALSE
    /\ Goto(g, "done")
    /\ UNCHANGED <<producerVars, storeVars, qVars, dOVars, bar, pdsVars, sdO, dQVars, tile,
                   voteVars, dKVVars, histVars, dQ>>

-----------------------------------------------------------------------------
(* dQaccum_store.  First every buffer is freed, once the bulk adds up to   *)
(* its own of the last tile have read theirs; ...                          *)
FreeDQ ==
    /\ spc = "free" /\ sTile < NumTiles
    /\ \A g \in DQGroups : g <= sGroup => adding[g] = None
    /\ ArriveOn(dQEmpty(sGroup))
    /\ sGroup' = (sGroup + 1) % NumWgDQ
    /\ spc' = IF sGroup + 1 = NumWgDQ THEN "take" ELSE "free"
    /\ UNCHANGED <<producerVars, sTile, adding, qVars, dOVars, memVars, pc, tile, voteVars,
                   dKVVars, histVars, dQ>>

(* ... then group by group dQ is awaited ... *)
TakeDQ ==
    /\ spc = "take"
    /\ Sync(dQFull(sGroup), StoreWarp)
    /\ spc' = "add"
    /\ UNCHANGED <<producerVars, sTile, sGroup, adding, qVars, dOVars, memVars, pc, tile,
                   voteVars, dKVVars, histVars, dQ>>

(* ... and, unless the tile was skipped, added. *)
AddDQ ==
    /\ spc = "add" /\ Running(StoreWarp)
    /\ IF sdQSkip[sGroup] THEN UNCHANGED <<adding, dQ>>
       ELSE /\ adding' = [adding EXCEPT ![sGroup] = sTile]
            /\ dQ' = [dQ EXCEPT ![sGroup] = @ \union {sTile}]
    /\ sGroup' = (sGroup + 1) % NumWgDQ
    /\ IF sGroup + 1 = NumWgDQ THEN spc' = "free" /\ sTile' = sTile + 1
       ELSE spc' = "take" /\ UNCHANGED sTile
    /\ UNCHANGED <<producerVars, qVars, dOVars, bar, memVars, pc, tile, voteVars, dKVVars,
                   histVars>>

(* A bulk add has read its buffer. *)
AddReads(g) ==
    /\ adding[g] # None
    /\ adding' = [adding EXCEPT ![g] = None]
    /\ UNCHANGED <<producerVars, sTile, sGroup, spc, qVars, dOVars, bar, memVars, pc, tile,
                   voteVars, dKVVars, histVars, dQ>>

-----------------------------------------------------------------------------
(* A group that misreads an outcome goes its own way through the barriers: *)
(* nobody is followed any further.                                         *)
Following == ~misread /\ UNCHANGED launch

ProducerStep ==
    /\ LoadQ \/ AwaitVote \/ ReadOutcome \/ AcquireDO \/ LoadDO
    /\ Following
QStep  == (\E t \in Tiles : QLands(t)) /\ Following
DOStep == (\E t \in dOflight : DOLands(t)) /\ Following
StoreStep == (FreeDQ \/ TakeDQ \/ AddDQ) /\ Following
AddStep   == (\E g \in DQGroups : AddReads(g)) /\ Following

GroupStep(g) ==
    /\ \/ WaitQ(g) \/ FinishScores(g) \/ CastVote(g) \/ ReduceVotes(g) \/ ReadVote(g)
       \/ AwaitProducer(g) \/ SkipTile(g) \/ MarkSkipped(g) \/ KeepTile(g) \/ WriteP(g)
       \/ WriteDS(g) \/ FinishDV(g) \/ FinishDQ(g) \/ HandOverDQ(g) \/ FinishDK(g)
       \/ EnterEpilogue(g) \/ StoreDKV(g)
    /\ Following

Next == ProducerStep \/ QStep \/ DOStep \/ StoreStep \/ AddStep
        \/ \E g \in Groups : GroupStep(g)

Spec == Init /\ [][Next]_vars

(* The warps of a resident CTA are all scheduled, loads land and bulk adds *)
(* read their buffers.                                                     *)
Fairness ==
    /\ WF_vars(ProducerStep) /\ WF_vars(QStep) /\ WF_vars(DOStep)
    /\ WF_vars(StoreStep) /\ WF_vars(AddStep)
    /\ \A g \in 0 .. 2 : WF_vars(g \in Groups /\ GroupStep(g))

FairSpec == Spec /\ Fairness

-----------------------------------------------------------------------------
Labels == {"q", "s", "cast", "reduce", "read", "full", "do", "mark", "p", "ds", "dv",
           "dq", "hand", "dk", "fill", "epilogue", "done"}
Actors == 0 .. NumGroups + 1
TilesOr(x) == Tiles \union {x}

(* Every variable has its type.  The barriers are the part that could go   *)
(* wrong: none takes more arrivals than a phase has, at most one dO is     *)
(* under way.                                                              *)
TypeOK ==
    /\ qNext \in 0 .. NumTiles /\ dONext \in 0 .. NumTiles /\ pskip \in BOOLEAN
    /\ ppc \in {"q", "vote", "read", "acquire", "load"}
    /\ sTile \in 0 .. NumTiles /\ sGroup \in DQGroups /\ spc \in {"free", "take", "add"}
    /\ adding \in [DQGroups -> TilesOr(None)]
    /\ qLanded \subseteq Tiles /\ qTaken \in [Groups -> 0 .. NumTiles]
    /\ dOfull.phase \in Nat /\ dOfull.pending + dOfull.tx = 1 /\ dOfull.tx \in 0 .. 1
    /\ dOempty.phase \in Nat /\ dOempty.pending \in 1 .. NumGroups /\ dOempty.tx = 0
    /\ dOflight \subseteq Tiles /\ Cardinality(dOflight) <= dOfull.tx
    /\ \A b \in Barriers : BarrierOK(bar[b], Actors, NumberOfThreads(b))
    /\ words \in [Words -> {Vote(f) : f \in BOOLEAN} \union {Flag(f) : f \in BOOLEAN}
                           \union {DS(t) : t \in TilesOr(Garbage)}]
    /\ sdS \in [Stages -> [Groups -> TilesOr(Garbage)]]
    /\ sP \in [Stages -> [Groups -> TilesOr(Garbage)]]
    /\ sdO \in TilesOr(Garbage) /\ sKV \in BOOLEAN
    /\ sdQ \in [DQGroups -> TilesOr(Garbage)] /\ sdQSkip \in [DQGroups -> BOOLEAN]
    /\ pc \in [Groups -> Labels] /\ tile \in [Groups -> TilesOr(0)]
    /\ vote \in [Groups -> BOOLEAN] /\ rSkip \in [Groups -> BOOLEAN]
    /\ accumulate \in [Groups -> BOOLEAN] /\ misread \in BOOLEAN
    /\ decision \in Seq(BOOLEAN)
    /\ dKV \in [Groups -> SUBSET TilesOr(Garbage)] /\ dQ \in [DQGroups -> SUBSET Tiles]

(* Every operand a group multiplies with is whole: K and V until the       *)
(* epilogue, dO and, over all groups, P and dS of its tile, with no vote   *)
(* on dS; and a bulk add reads dQ of its tile.                             *)
ReadsWhole ==
    /\ \A g \in Groups :
        /\ pc[g] \in {"s", "p", "dv", "dq"} => sKV
        /\ pc[g] \in {"p", "dv"} => sdO = tile[g]
        /\ pc[g] = "dv" /\ ~launch.rs => sP[StagePdS(tile[g])] = [h \in Groups |-> tile[g]]
        /\ \/ At(g, "dv") \/ At(g, "dq")
           \/ pc[g] \in {"hand", "dk"} /\ ~launch.rs
           => /\ sdS[StagePdS(tile[g])] = [h \in Groups |-> tile[g]]
              /\ StagePdS(tile[g]) = 0 => words = [w \in Words |-> DS(tile[g])]
    /\ \A g \in DQGroups : adding[g] # None => sdQ[g] = adding[g]

Settled(g) == pc[g] \in {"full", "do", "mark", "p", "ds", "dv", "dq", "hand", "dk"}

(* The groups go through a tile together: none skips a tile another one    *)
(* multiplies, which would leave it alone at the barrier over P and dS.    *)
GroupsGoTogether ==
    \A g, h \in Groups :
        Settled(g) /\ Settled(h) /\ tile[g] = tile[h] => rSkip[g] = rSkip[h]

(* Unless an outcome was misread, the groups, the producer and the store   *)
(* warp act on one outcome for each tile, the conjunction of its votes.    *)
SkipAgreement ==
    misread \/
    /\ \A g \in Groups : Settled(g) => rSkip[g] = decision[tile[g] + 1]
    /\ ppc \in {"acquire", "load"} => pskip = decision[dONext + 1]
    /\ spc = "add" /\ Running(StoreWarp) => sdQSkip[sGroup] = decision[sTile + 1]

Kept == {t \in Tiles : ~decision[t + 1]}

(* Unless an outcome is misread the kernel ends, whatever is skipped, and  *)
(* dK, dV and dQ are made of the kept tiles and of nothing else: zeros     *)
(* when there is none.                                                     *)
GradientsComplete ==
    <>[](misread \/
         /\ \A g \in Groups : pc[g] = "done" /\ dKV[g] = Kept
         /\ sTile = NumTiles /\ \A g \in DQGroups : dQ[g] = Kept /\ adding[g] = None)
=============================================================================
