----------------------------- MODULE SparseSm80 -----------------------------
(***************************************************************************)
(* One CTA of the sparse kernels for SM8x and SM120: FlashSparseAttention- *)
(* ForwardSm80 (cute/flash_fwd.py) and FlashSparseAttentionBackwardSm80    *)
(* (cute/flash_bwd.py).  There are no roles here: all warps load tiles     *)
(* with cp.async, vote on skipping them and multiply.  A warp copies and   *)
(* writes its part of every buffer and reads the parts of all, so that     *)
(* only the waits for its own copies and the barriers between the warps    *)
(* make a buffer whole.                                                    *)
(*                                                                         *)
(* The words of the vote (sSkip) are the first bytes of sV in the forward  *)
(* kernel and of sP in the backward one.                                   *)
(*                                                                         *)
(* Tiles, of keys in the forward and of queries in the backward kernel,    *)
(* are numbered in the order they are visited.  The first tile of the      *)
(* window and of the sink range is a restart of the pipeline.  The two     *)
(* kernels are the two kinds of launch: the vote is theirs in common, the  *)
(* rest of a tile is not.  Modelled is what interface.py launches: one     *)
(* stage of K and V, Q and V not kept in registers, P and dS in memory.    *)
(***************************************************************************)
EXTENDS CpAsync, GpuBarriers

CONSTANTS Launches, MaxWarps

ASSUME LaunchesAssumption ==
    /\ MaxWarps \in Nat
    /\ \A l \in Launches :
          /\ l.kind \in {"forward", "backward"}
          /\ l.warps \in 1 .. MaxWarps
          /\ l.tiles \in Nat
          /\ l.restarts \subseteq 0 .. l.tiles - 1
          /\ l.stages \in 1 .. 2           \* num_stages (of K), num_stages_Q
          /\ l.gqa \in BOOLEAN             \* qhead_per_kvhead > 1
          /\ l.kind = "forward" => /\ l.tiles > 0 /\ 0 \notin l.restarts
                                   /\ l.stages = 1 /\ ~l.gqa

VARIABLE launch

Warps    == 0 .. launch.warps - 1
NumTiles == launch.tiles
Tiles    == 0 .. NumTiles - 1
Forward  == launch.kind = "forward"

VARIABLES
    pc, tile,   \* where a warp is
    queue,      \* its copies no wait has covered
    bar,        \* barrier 0 and the one of the epilogue
    mem,        \* shared memory: what each warp's part of a buffer is of
    words,      \* sSkip
    vote, isSkip,
    acc,        \* the tiles added to acc_O, or to acc_dK and acc_dV
    dQ,         \* the tiles whose dQ is added to global memory
    stored,     \* what the epilogue has stored
    decision,   \* history: the outcome of every vote
    misread     \* history: a warp has read bytes of a tile for an outcome

voteVars == <<words, vote, isSkip, decision, misread>>
outVars  == <<acc, dQ, stored>>
vars == <<launch, pc, tile, queue, bar, mem, voteVars, outVars>>

-----------------------------------------------------------------------------
(* Buffers.  Q, K and V of the tile a CTA is about hold 0; what the        *)
(* epilogue writes over its input is Out.                                  *)
Fixed   == 0
Garbage == -1
Out     == -2
Buffers == IF Forward THEN {"Q", "K", "V"}
           ELSE {"Q0", "Q1", "K", "V", "dO", "P", "dS"}

(* The first tile of the range a tile is in; tiles of a range alternate    *)
(* between the stages of Q (smem_pipe_read_q).                             *)
Starts(t)   == {0} \union {s \in launch.restarts : s <= t}
StageOf(t)  == LET s == CHOOSE s \in Starts(t) : \A r \in Starts(t) : r <= s
               IN  (t - s) % launch.stages
QStage(t)   == IF StageOf(t) = 0 THEN "Q0" ELSE "Q1"
TileBuffer(t) == IF Forward THEN "K" ELSE QStage(t)

(* What the functions that load copy: rows past the end of the sequence    *)
(* are left as they are, LSE and dPsum go with Q and dO.  A warp brings    *)
(* the rows its threads are given.                                         *)
CopyQ       == {<<"Q", Fixed>>}
CopyKeys(t) == {<<"K", t>>}
CopyV(t)    == {<<"V", t>>}
CopyKV      == {<<"K", Fixed>>, <<"V", Fixed>>}
CopyQLSE(t) == {<<QStage(t), t>>}
CopyDO(t)   == {<<"dO", t>>}
CopyTile(t) == IF Forward THEN CopyKeys(t) ELSE CopyQLSE(t)

HasNext(t)  == t + 1 < NumTiles /\ t + 1 \notin launch.restarts

(* The words lie on the part warp 0 copies or writes. *)
VoteBuffer == IF Forward THEN "V" ELSE "P"
Vote(flag) == [vote |-> flag]
Bytes(t)   == [tile |-> t]
AsVote(word) == IF "vote" \in DOMAIN word THEN {word.vote} ELSE BOOLEAN
WordsOver(w, t) == IF w = 0 THEN [v \in Warps |-> Bytes(t)] ELSE words

-----------------------------------------------------------------------------
Goto(w, label) == pc' = [pc EXCEPT ![w] = label]
Blocked(w)     == \E b \in DOMAIN bar : w \in bar[b].blocked
At(w, label)   == pc[w] = label /\ ~Blocked(w)

SyncOn(b, w) == bar' = [bar EXCEPT ![b] = BarrierSync(@, w, launch.warps)]
Sync(w)      == SyncOn("cta", w)

(* acc_O, or acc_dK and acc_dV, before the first tile. *)
NoTile == [w \in Warps |-> {}]

(* The warp closes its groups, then waits for all but n of its copies. *)
Issue(w, q)   == queue' = [queue EXCEPT ![w] = q] /\ UNCHANGED mem
Wait(w, q, n) ==
    /\ queue' = [queue EXCEPT ![w] = Left(q, n)]
    /\ mem' = [b \in Buffers |->
                 [mem[b] EXCEPT ![w] =
                    IF \E t \in Tiles \union {Fixed} : <<b, t>> \in Landed(q, n)
                    THEN CHOOSE t \in Tiles \union {Fixed} : <<b, t>> \in Landed(q, n)
                    ELSE @]]

(* A group with the next tile's K or Q, which may be empty. *)
NextTile(t) == IF HasNext(t) THEN CopyTile(t + 1) ELSE {}

Begin(t) == IF t = NumTiles THEN "epilogue"
            ELSE IF t \in launch.restarts THEN "restart"
            ELSE IF t = 0 THEN "first" ELSE "tile"
Advance(w) == tile' = [tile EXCEPT ![w] = @ + 1] /\ Goto(w, Begin(tile[w] + 1))

Init ==
    /\ launch \in Launches
    /\ pc = [w \in Warps |-> "load"] /\ tile = [w \in Warps |-> 0]
    /\ queue = [w \in Warps |-> <<>>]
    /\ bar = [b \in {"cta", "Epilogue"} |-> NoOne]
    /\ mem = [b \in Buffers |-> [w \in Warps |-> Garbage]]
    /\ words = [w \in Warps |-> Bytes(Garbage)]
    /\ vote = [w \in Warps |-> FALSE] /\ isSkip = [w \in Warps |-> FALSE]
    /\ acc = NoTile /\ dQ = NoTile
    /\ stored = [w \in Warps |-> {Garbage}]
    /\ decision = <<>> /\ misread = FALSE

-----------------------------------------------------------------------------
(* The CTA's own tile: Q, for which the forward kernel waits after K of    *)
(* the first tile is under way; ...                                        *)
LoadQ(w) ==
    /\ pc[w] = "load" /\ Forward
    /\ LET q == Commit(Commit(queue[w], CopyQ), CopyTile(0))
       IN  Wait(w, q, launch.stages)
    /\ Goto(w, "tile")
    /\ UNCHANGED <<tile, bar, voteVars, outVars>>

(* ... or K and V, for which the backward kernel does not wait here. *)
LoadKV(w) ==
    /\ pc[w] = "load" /\ ~Forward
    /\ Issue(w, Commit(queue[w], CopyKV))
    /\ Goto(w, Begin(0))
    /\ UNCHANGED <<tile, bar, voteVars, outVars>>

(* The window or the sink range: everything has landed and nobody uses     *)
(* the buffers any more; ...                                               *)
Restart(w) ==
    /\ At(w, "restart")
    /\ Wait(w, queue[w], 0)
    /\ Sync(w)
    /\ Goto(w, "first")
    /\ UNCHANGED <<tile, voteVars, outVars>>

(* ... load the first K or Q of a range. *)
LoadFirst(w) ==
    /\ At(w, "first")
    /\ Issue(w, Commit(queue[w], CopyTile(tile[w])))
    /\ Goto(w, "tile")
    /\ UNCHANGED <<tile, bar, voteVars, outVars>>

(* compute_one_n_block, compute_one_m_block: S = Q K^T. *)
WaitTile(w) ==
    /\ At(w, "tile")
    /\ Wait(w, queue[w], 0)
    /\ Sync(w)
    /\ Goto(w, "s")
    /\ UNCHANGED <<tile, voteVars, outVars>>

(* The forward kernel keeps the first tile whatever its scores. *)
FirstVote(w) ==
    /\ At(w, "s") /\ Forward /\ tile[w] = 0
    /\ IF w = 0 THEN /\ words' = [words EXCEPT ![0] = Vote(FALSE)]
                     /\ decision' = <<FALSE>>
       ELSE UNCHANGED <<words, decision>>
    /\ isSkip' = [isSkip EXCEPT ![w] = FALSE]
    /\ Sync(w)
    /\ Goto(w, "act")
    /\ UNCHANGED <<tile, queue, mem, vote, misread, outVars>>

(* cta_reduce: every warp writes its word, ... *)
CastVote(w) ==
    /\ At(w, "s") /\ (Forward => tile[w] > 0)
    /\ \E flag \in BOOLEAN :
          /\ vote' = [vote EXCEPT ![w] = flag]
          /\ words' = [words EXCEPT ![w] = Vote(flag)]
    /\ Sync(w)
    /\ Goto(w, "reduce")
    /\ UNCHANGED <<tile, queue, mem, isSkip, decision, misread, outVars>>

(* Mutated form: no barrier before word 0 is read. *)
ReduceVotesAlone(w) ==
    /\ At(w, "reduce")
    /\ IF w = 0
       THEN \E votes \in [Warps -> BOOLEAN] :
              /\ \A v \in Warps : votes[v] \in AsVote(words[v])
              /\ words' = [words EXCEPT ![0] = Vote(\A v \in Warps : votes[v])]
              /\ decision' = Append(decision, \A v \in Warps : vote[v])
       ELSE UNCHANGED <<words, decision>>
    /\ Goto(w, "read")
    /\ UNCHANGED <<tile, queue, bar, mem, vote, isSkip, misread, outVars>>

(* ... the first one combines them in word 0, ... *)
ReduceVotes(w) ==
    /\ At(w, "reduce")
    /\ IF w = 0
       THEN \E votes \in [Warps -> BOOLEAN] :
              /\ \A v \in Warps : votes[v] \in AsVote(words[v])
              /\ words' = [words EXCEPT ![0] = Vote(\A v \in Warps : votes[v])]
              /\ decision' = Append(decision, \A v \in Warps : vote[v])
       ELSE UNCHANGED <<words, decision>>
    /\ Sync(w)
    /\ Goto(w, "read")
    /\ UNCHANGED <<tile, queue, mem, vote, isSkip, misread, outVars>>

(* ... and every warp reads word 0.  Nothing holds the others back until   *)
(* the slowest one has.                                                    *)
ReadVote(w) ==
    /\ At(w, "read")
    /\ \E skip \in AsVote(words[0]) : isSkip' = [isSkip EXCEPT ![w] = skip]
    /\ misread' = (misread \/ words[0] \notin {Vote(f) : f \in BOOLEAN})
    /\ Goto(w, "act")
    /\ UNCHANGED <<tile, queue, bar, mem, words, vote, decision, outVars>>

-----------------------------------------------------------------------------
(* Forward.  A skipped tile: only the next K is loaded; without one no     *)
(* group is closed (load_K_next).                                          *)
SkipKeys(w) ==
    /\ At(w, "act") /\ Forward /\ isSkip[w]
    /\ Issue(w, IF HasNext(tile[w]) THEN Commit(queue[w], NextTile(tile[w])) ELSE queue[w])
    /\ Advance(w)
    /\ UNCHANGED <<bar, voteVars, outVars>>

(* A kept tile: V, over the words, and the next K; wait for V. *)
LoadV(w) ==
    /\ At(w, "act") /\ Forward /\ ~isSkip[w]
    /\ LET t == tile[w]
           q == Commit(queue[w], CopyV(t))
       IN  /\ IF HasNext(t) THEN Wait(w, Commit(q, NextTile(t)), 1) ELSE Wait(w, q, 0)
           /\ words' = WordsOver(w, t)
    /\ Sync(w)
    /\ Goto(w, "pv")
    /\ UNCHANGED <<tile, vote, isSkip, decision, misread, outVars>>

(* O += P V *)
FinishPV(w) ==
    /\ At(w, "pv")
    /\ acc' = [acc EXCEPT ![w] = @ \union {tile[w]}]
    /\ Advance(w)
    /\ UNCHANGED <<queue, bar, mem, voteVars, dQ, stored>>

-----------------------------------------------------------------------------
(* Backward.  A skipped tile: only the next Q is loaded (load_Q_next). *)
SkipQueries(w) ==
    /\ At(w, "act") /\ ~Forward /\ isSkip[w]
    /\ Issue(w, Commit(queue[w], NextTile(tile[w])))
    /\ Advance(w)
    /\ UNCHANGED <<bar, voteVars, outVars>>

(* A kept tile: load dO and wait for it; dP = dO V^T. *)
LoadDO(w) ==
    /\ At(w, "act") /\ ~Forward /\ ~isSkip[w]
    /\ Wait(w, Commit(queue[w], CopyDO(tile[w])), 0)
    /\ Sync(w)
    /\ Goto(w, "dp")
    /\ UNCHANGED <<tile, voteVars, outVars>>

(* With two stages the next Q is loaded meanwhile.  P is written. *)
WriteP(w) ==
    /\ At(w, "dp")
    /\ mem' = [mem EXCEPT !["P"][w] = tile[w]]
    /\ queue' = IF launch.stages = 1 THEN queue
                ELSE [queue EXCEPT ![w] = Commit(@, NextTile(tile[w]))]
    /\ words' = WordsOver(w, tile[w])
    /\ Sync(w)
    /\ Goto(w, "ds")
    /\ UNCHANGED <<tile, vote, isSkip, decision, misread, outVars>>

(* dS is written, ... *)
WriteDS(w) ==
    /\ At(w, "ds")
    /\ mem' = [mem EXCEPT !["dS"][w] = tile[w]]
    /\ Goto(w, "dv")
    /\ UNCHANGED <<tile, queue, bar, voteVars, outVars>>

(* ... dV += P^T dO, and the warps meet before dS is read. *)
FinishDV(w) ==
    /\ At(w, "dv")
    /\ Sync(w)
    /\ Goto(w, IF launch.stages = 1 THEN "dk" ELSE "dq")
    /\ UNCHANGED <<tile, queue, mem, voteVars, outVars>>

(* Two stages: dQ = dS K is added to global memory, then dK += dS^T Q. *)
FinishDQ(w) ==
    /\ At(w, "dq") /\ launch.stages = 2
    /\ dQ' = [dQ EXCEPT ![w] = @ \union {tile[w]}]
    /\ Goto(w, "dk")
    /\ UNCHANGED <<tile, queue, bar, mem, voteVars, acc, stored>>

FinishDK(w) ==
    /\ At(w, "dk") /\ launch.stages = 2
    /\ acc' = [acc EXCEPT ![w] = @ \union {tile[w]}]
    /\ Advance(w)
    /\ UNCHANGED <<queue, bar, mem, voteVars, dQ, stored>>

(* Mutated form: no barrier between dK and the next Q. *)
FinishDKAlone(w) ==
    /\ At(w, "dk") /\ launch.stages = 1
    /\ acc' = [acc EXCEPT ![w] = @ \union {tile[w]}]
    /\ Goto(w, "dqload")
    /\ UNCHANGED <<tile, queue, bar, mem, voteVars, dQ, stored>>

(* One stage: dK first, so that Q can be loaded over while dQ is computed. *)
FinishDKFirst(w) ==
    /\ At(w, "dk") /\ launch.stages = 1
    /\ acc' = [acc EXCEPT ![w] = @ \union {tile[w]}]
    /\ Sync(w)
    /\ Goto(w, "dqload")
    /\ UNCHANGED <<tile, queue, mem, voteVars, dQ, stored>>

LoadNextQ(w) ==
    /\ At(w, "dqload")
    /\ Issue(w, Commit(queue[w], NextTile(tile[w])))
    /\ Goto(w, "dq")
    /\ UNCHANGED <<tile, bar, voteVars, outVars>>

FinishDQLast(w) ==
    /\ At(w, "dq") /\ launch.stages = 1
    /\ dQ' = [dQ EXCEPT ![w] = @ \union {tile[w]}]
    /\ Advance(w)
    /\ UNCHANGED <<queue, bar, mem, voteVars, acc, stored>>

-----------------------------------------------------------------------------
(* Epilogue: with several query heads for a key head dK and dV are added   *)
(* to global memory from registers; ...                                    *)
AddDKV(w) ==
    /\ At(w, "epilogue") /\ launch.gqa
    /\ stored' = [stored EXCEPT ![w] = acc[w]]
    /\ Goto(w, "done")
    /\ UNCHANGED <<tile, queue, bar, mem, voteVars, acc, dQ>>

(* ... otherwise the warps meet, O goes over Q, dK and dV over K and V, ... *)
OutBuffers == IF Forward THEN {"Q"} ELSE {"K", "V"}
EpilogueBarrier == IF Forward THEN "Epilogue" ELSE "cta"

EnterEpilogue(w) ==
    /\ At(w, "epilogue") /\ ~launch.gqa
    /\ SyncOn(EpilogueBarrier, w)
    /\ Goto(w, "write")
    /\ UNCHANGED <<tile, queue, mem, voteVars, outVars>>

(* Mutated form: no barrier between writing and reading back. *)
WriteOutAlone(w) ==
    /\ At(w, "write")
    /\ mem' = [b \in Buffers |->
                 IF b \in OutBuffers THEN [mem[b] EXCEPT ![w] = Out] ELSE mem[b]]
    /\ Goto(w, "store")
    /\ UNCHANGED <<tile, queue, bar, voteVars, outVars>>

WriteOut(w) ==
    /\ At(w, "write")
    /\ mem' = [b \in Buffers |->
                 IF b \in OutBuffers THEN [mem[b] EXCEPT ![w] = Out] ELSE mem[b]]
    /\ SyncOn(EpilogueBarrier, w)
    /\ Goto(w, "store")
    /\ UNCHANGED <<tile, queue, voteVars, outVars>>

(* A buffer a read of all parts finds whole. *)
Holds(b, t) == \A w \in Warps : mem[b][w] = t /\ Quiet(queue[w], b)

(* ... and the warps meet again, read it back in rows and store it. *)
StoreOut(w) ==
    /\ At(w, "store")
    /\ stored' = [stored EXCEPT ![w] = IF \A b \in OutBuffers : Holds(b, Out)
                                       THEN acc[w] ELSE {Garbage}]
    /\ Goto(w, "done")
    /\ UNCHANGED <<tile, queue, bar, mem, voteVars, acc, dQ>>

-----------------------------------------------------------------------------
(* Warps that go different ways meet at barriers they do not share: after  *)
(* a misread outcome nobody is followed any further.                       *)
WarpStep(w) ==
    /\ \/ LoadQ(w) \/ LoadKV(w) \/ Restart(w) \/ LoadFirst(w) \/ WaitTile(w)
       \/ FirstVote(w) \/ CastVote(w) \/ ReduceVotes(w) \/ ReadVote(w)
       \/ SkipKeys(w) \/ LoadV(w) \/ FinishPV(w)
       \/ SkipQueries(w) \/ LoadDO(w) \/ WriteP(w) \/ WriteDS(w) \/ FinishDV(w)
       \/ FinishDQ(w) \/ FinishDK(w) \/ FinishDKFirst(w) \/ LoadNextQ(w) \/ FinishDQLast(w)
       \/ AddDKV(w) \/ EnterEpilogue(w) \/ WriteOut(w) \/ StoreOut(w)
    /\ ~misread
    /\ UNCHANGED launch

Next == \E w \in Warps : WarpStep(w)
Spec == Init /\ [][Next]_vars

(* The warps of a resident CTA are all scheduled. *)
FairSpec == Spec /\ \A w \in 0 .. MaxWarps - 1 : WF_vars(w \in Warps /\ WarpStep(w))

-----------------------------------------------------------------------------
(* Every operand a warp multiplies with is whole: the parts of all warps   *)
(* are of its tile, no copy into the buffer is under way, and the votes    *)
(* have not been written over V or P.                                      *)
ReadsWhole ==
    misread \/
    \A w \in Warps : LET t == tile[w] IN
        /\ At(w, "s")  => Holds(TileBuffer(t), t) /\ Holds(IF Forward THEN "Q" ELSE "K", Fixed)
        /\ At(w, "pv") => Holds("V", t) /\ words = [v \in Warps |-> Bytes(t)]
        /\ At(w, "dp") => Holds("dO", t) /\ Holds("V", Fixed)
        /\ At(w, "dv") => /\ Holds("P", t) /\ Holds("dO", t)
                          /\ words = [v \in Warps |-> Bytes(t)]
        /\ pc[w] \in {"dq", "dqload"} /\ ~Blocked(w) => Holds("dS", t) /\ Holds("K", Fixed)
        /\ At(w, "dk") => Holds("dS", t) /\ Holds(QStage(t), t)

Settled(w) == ~Blocked(w) /\ pc[w] \in {"act", "pv", "dp", "ds", "dv", "dq", "dk", "dqload"}

(* Unless an outcome was misread, every warp goes through a tile as all    *)
(* the warps have voted, so that no barrier is left short of a warp; in    *)
(* the backward kernel an outcome is never misread.                        *)
WarpsAgree ==
    /\ ~Forward => ~misread
    /\ misread \/ \A w \in Warps :
          Settled(w) => /\ tile[w] + 1 \in DOMAIN decision
                        /\ isSkip[w] = decision[tile[w] + 1]

(* What WarpsAgree leaves open: in the forward kernel, too, an outcome is  *)
(* what the warps have voted.                                              *)
ReadsVote == ~misread

Kept == {t \in Tiles : ~decision[t + 1]}
Empty == ~Forward /\ NumTiles = 0

(* Unless an outcome is misread the kernel ends, and what it stores is     *)
(* made of the kept tiles and of nothing else -- if there is a tile at     *)
(* all: see StoresResult.                                                  *)
Completes ==
    <>[](misread \/ \A w \in Warps :
            /\ pc[w] = "done"
            /\ ~Empty => /\ stored[w] = Kept
                         /\ dQ[w] = IF Forward THEN {} ELSE Kept)

(* A key tile that no query attends to gets zeros, like any other result   *)
(* of the epilogue.                                                        *)
StoresResult == \A w \in Warps : pc[w] = "done" => Garbage \notin stored[w]
=============================================================================
