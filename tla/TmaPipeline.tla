---------------------------- MODULE TmaPipeline -----------------------------
(***************************************************************************)
(* One shared-memory ring fed by TMA: pipeline_k and pipeline_q of the     *)
(* SM90 forward kernel (cute/flash_fwd_sm90.py), that is PipelineTmaAsync  *)
(* of cute/pipeline.py without the skip feedback.                          *)
(*                                                                         *)
(* The producer warp walks the blocks of the tile.  For each it waits      *)
(* on the slot's empty barrier, arms the full barrier and issues a TMA     *)
(* load, which lands later and in any order among slots.  Each consumer    *)
(* warp waits on the full barrier, reads the slot and arrives on the empty *)
(* barrier.  Nobody holds a block number in a barrier: every thread relies *)
(* on its own PipelineStateSimple and on a one-bit parity.                 *)
(*                                                                         *)
(* Names that SparseFwdSm90 has as well have Ring in them.                 *)
(***************************************************************************)
EXTENDS GpuBarriers

CONSTANTS
    Stages,     \* number of slots of the ring (num_stages)
    Consumers,  \* consumer warps, one arrival each on the empty barrier
    NumRingBlocks, \* number of blocks the kernel streams through the ring
    Nothing     \* content of a slot no load has reached

ASSUME StagesAssumption == Stages \in Nat \ {0}
ASSUME ConsumersAssumption == Consumers # {} /\ IsFiniteSet(Consumers)
ASSUME NumRingBlocksAssumption == NumRingBlocks \in Nat
ASSUME NothingAssumption == Nothing \notin Nat

VARIABLES
    pblock,   \* the block the producer is at (its loop variable)
    pstate,   \* the producer's PipelineStateSimple._phase_index
    pstep,    \* "acquire" or "load"
    full,     \* full barrier of each slot
    empty,    \* empty barrier of each slot
    inflight, \* TMA loads issued and not landed: [slot, block]
    slot,     \* block held by each slot
    cblock,   \* the block each consumer is at
    cstate,   \* each consumer's _phase_index
    cstep     \* "wait" or "read", of each consumer

ringVars == <<pblock, pstate, pstep, full, empty, inflight, slot,
              cblock, cstate, cstep>>

Slots  == 0 .. Stages - 1
RingBlocks == 0 .. NumRingBlocks - 1
NumConsumers == Cardinality(Consumers)

-----------------------------------------------------------------------------
(* PipelineStateSimple *)

Index(phaseIndex) == IF Stages = 1 THEN 0 ELSE phaseIndex % Stages

Phase(phaseIndex) == IF Stages = 1 THEN phaseIndex ELSE phaseIndex \div Stages

Advance(phaseIndex) ==
    IF Stages = 1 THEN 1 - phaseIndex ELSE phaseIndex + 1

(* Mutated form: the producer starts in the consumers' phase. *)
SamePhaseStart == 0

(* make_pipeline_state: the producer starts one lap ahead of the barrier. *)
ProducerStart == Stages
ConsumerStart == 0

-----------------------------------------------------------------------------
(* Mutated form: the empty barriers are initialised for one consumer. *)
RingInitOneArrival ==
    /\ pblock = 0
    /\ pstate = ProducerStart
    /\ pstep = "acquire"
    /\ full = [s \in Slots |-> MbarInit(1)]
    /\ empty = [s \in Slots |-> MbarInit(1)]
    /\ inflight = {}
    /\ slot = [s \in Slots |-> Nothing]
    /\ cblock = [c \in Consumers |-> 0]
    /\ cstate = [c \in Consumers |-> ConsumerStart]
    /\ cstep = [c \in Consumers |-> "wait"]

RingInit ==
    /\ pblock = 0
    /\ pstate = ProducerStart
    /\ pstep = "acquire"
    /\ full = [s \in Slots |-> MbarInit(1)]
    /\ empty = [s \in Slots |-> MbarInit(NumConsumers)]
    /\ inflight = {}
    /\ slot = [s \in Slots |-> Nothing]
    /\ cblock = [c \in Consumers |-> 0]
    /\ cstate = [c \in Consumers |-> ConsumerStart]
    /\ cstep = [c \in Consumers |-> "wait"]

(* producer_acquire: wait for the slot to be empty, then announce the load *)
(* on the full barrier.                                                    *)
ProducerAcquire ==
    /\ pstep = "acquire"
    /\ pblock < NumRingBlocks
    /\ Passed(empty[Index(pstate)], Phase(pstate))
    /\ full' = [full EXCEPT ![Index(pstate)] = ArriveExpectTx(@, 1, 1)]
    /\ pstep' = "load"
    /\ UNCHANGED <<pblock, pstate, empty, inflight, slot, cblock, cstate, cstep>>

(* load_KV: issue the TMA load and advance.  producer_commit is a no-op    *)
(* for a TMA pipeline: the engine completes the full barrier.              *)
ProducerLoad ==
    /\ pstep = "load"
    /\ inflight' = inflight \union {[slot |-> Index(pstate), block |-> pblock]}
    /\ pblock' = pblock + 1
    /\ pstate' = Advance(pstate)
    /\ pstep' = "acquire"
    /\ UNCHANGED <<full, empty, slot, cblock, cstate, cstep>>

(* A load lands: its bytes are in the slot and its transaction is done. *)
TmaComplete(load) ==
    /\ slot' = [slot EXCEPT ![load.slot] = load.block]
    /\ full' = [full EXCEPT ![load.slot] = CompleteTx(@, 1)]
    /\ inflight' = inflight \ {load}
    /\ UNCHANGED <<pblock, pstate, pstep, empty, cblock, cstate, cstep>>

(* Mutated form: no wait on the full barrier. *)
ConsumerWaitNot(c) ==
    /\ cstep[c] = "wait"
    /\ cblock[c] < NumRingBlocks
    /\ cstep' = [cstep EXCEPT ![c] = "read"]
    /\ UNCHANGED <<pblock, pstate, pstep, full, empty, inflight, slot, cblock, cstate>>

(* consumer_wait: from here to the release the consumer's MMA reads the    *)
(* slot.                                                                   *)
ConsumerWait(c) ==
    /\ cstep[c] = "wait"
    /\ cblock[c] < NumRingBlocks
    /\ Passed(full[Index(cstate[c])], Phase(cstate[c]))
    /\ cstep' = [cstep EXCEPT ![c] = "read"]
    /\ UNCHANGED <<pblock, pstate, pstep, full, empty, inflight, slot, cblock, cstate>>

(* consumer_release and advance *)
ConsumerRelease(c) ==
    /\ cstep[c] = "read"
    /\ empty' = [empty EXCEPT ![Index(cstate[c])] = Arrive(@, NumConsumers)]
    /\ cblock' = [cblock EXCEPT ![c] = @ + 1]
    /\ cstate' = [cstate EXCEPT ![c] = Advance(@)]
    /\ cstep' = [cstep EXCEPT ![c] = "wait"]
    /\ UNCHANGED <<pblock, pstate, pstep, full, inflight, slot>>

RingNext ==
    \/ ProducerAcquire
    \/ ProducerLoad
    \/ \E load \in inflight : TmaComplete(load)
    \/ \E c \in Consumers : ConsumerWait(c) \/ ConsumerRelease(c)

RingSpec == RingInit /\ [][RingNext]_ringVars

(* Warps of a resident CTA are scheduled forever and an issued load lands. *)
RingFairness ==
    /\ WF_ringVars(ProducerAcquire \/ ProducerLoad)
    /\ WF_ringVars(\E load \in inflight : TmaComplete(load))
    /\ \A c \in Consumers : WF_ringVars(ConsumerWait(c) \/ ConsumerRelease(c))

RingFairSpec == RingSpec /\ RingFairness

-----------------------------------------------------------------------------
MbarType(count) ==
    [phase : Nat, pending : 1 .. count, tx : {0}]
        \union [phase : Nat, pending : {0}, tx : {1}]

(* Every variable has its type; in particular a barrier never sees more    *)
(* arrivals in a phase than it was initialised for.                        *)
RingTypeOK ==
    /\ pblock \in 0 .. NumRingBlocks
    /\ pstate \in Nat
    /\ pstep \in {"acquire", "load"}
    /\ full \in [Slots -> MbarType(1)]
    /\ empty \in [Slots -> [phase : Nat, pending : 1 .. NumConsumers, tx : {0}]]
    /\ inflight \subseteq [slot : Slots, block : RingBlocks]
    /\ slot \in [Slots -> RingBlocks \union {Nothing}]
    /\ cblock \in [Consumers -> 0 .. NumRingBlocks]
    /\ cstate \in [Consumers -> Nat]
    /\ cstep \in [Consumers -> {"wait", "read"}]

(* A consumer that consumer_wait let through finds in its slot the very    *)
(* block it is at, although all it checked was one parity bit: the slot    *)
(* cannot hold the block of the lap before or after.                       *)
ReadsItsBlock ==
    \A c \in Consumers :
        cstep[c] = "read" => slot[Index(cstate[c])] = cblock[c]

(* No TMA load is under way into a slot some consumer is still reading:    *)
(* producer_acquire really waited for every consumer's release.            *)
NoOverwriteWhileRead ==
    \A c \in Consumers : \A load \in inflight :
        cstep[c] = "read" => load.slot # Index(cstate[c])

(* Every block reaches every consumer and the kernel ends: no order of     *)
(* arrivals and landings leaves producer and consumers waiting on each     *)
(* other.                                                                  *)
RingTerminates == <>(\A c \in Consumers : cblock[c] = NumRingBlocks)

-----------------------------------------------------------------------------
(* Blocks whose load has landed. *)
Landed ==
    {b \in 0 .. pblock - 1 : [slot |-> b % Stages, block |-> b] \notin inflight}

(* What the ring promises, see BlockStream. *)
Stream == INSTANCE BlockStream WITH
    Window <- Stages, NumBlocks <- NumRingBlocks,
    landed <- Landed, taken <- cblock

(* The barriers and parities implement the abstract stream: a block lands  *)
(* once and only within Stages of the slowest consumer, and a consumer     *)
(* takes the blocks in order, each only once it has landed.                *)
ImplementsStream == Stream!Spec

-----------------------------------------------------------------------------
(* The inductive invariant behind the safety properties.  Block b uses     *)
(* slot SlotOf(b) in lap RoundOf(b); Item(s, k) is the block slot s holds  *)
(* in lap k.  So Item(s, full[s].phase) is the first block of slot s that  *)
(* has not landed, Item(s, empty[s].phase) the first that some consumer    *)
(* has not released.                                                       *)
SlotOf(b)  == b % Stages
RoundOf(b) == b \div Stages
Item(s, k) == k * Stages + s

NextToLand(s)    == Item(s, full[s].phase)
NextToRelease(s) == Item(s, empty[s].phase)

(* A slot is armed between the expect_tx and the landing of its load. *)
Armed(s) == full[s].tx = 1

(* Blocks whose slot the producer has acquired. *)
Acquired == IF pstep = "load" THEN pblock + 1 ELSE pblock

(* The _phase_index that belongs to a block: modulo 2 for a single stage. *)
ProducerStateOf(b) == IF Stages = 1 THEN (b + 1) % 2 ELSE b + Stages
ConsumerStateOf(b) == IF Stages = 1 THEN b % 2 ELSE b

StateInv ==
    /\ pstate = ProducerStateOf(pblock)
    /\ \A c \in Consumers : cstate[c] = ConsumerStateOf(cblock[c])

WindowInv ==
    /\ pstep = "load" => pblock < NumRingBlocks /\ Armed(SlotOf(pblock))
    /\ \A c \in Consumers : cblock[c] <= pblock /\ Acquired <= cblock[c] + Stages

FullInv ==
    \A s \in Slots :
        /\ \A c \in Consumers : cblock[c] <= NextToLand(s)
        /\ Armed(s) => NextToLand(s) < Acquired /\ Acquired <= NextToLand(s) + Stages
        /\ ~Armed(s) => Acquired <= NextToLand(s) /\ NextToLand(s) < Acquired + Stages

Unreleased(s) == {c \in Consumers : cblock[c] <= NextToRelease(s)}

EmptyInv ==
    \A s \in Slots :
        /\ \A c \in Consumers : NextToRelease(s) < cblock[c] + Stages
        /\ Acquired <= NextToRelease(s) + Stages
        /\ empty[s].pending = Cardinality(Unreleased(s))

InflightInv ==
    \A load \in inflight :
        /\ Armed(load.slot)
        /\ load.block = NextToLand(load.slot)
        /\ load.block < pblock

ContentInv ==
    \A s \in Slots :
        ~Armed(s) /\ full[s].phase > 0 => slot[s] = NextToLand(s) - Stages

ReadInv ==
    \A c \in Consumers :
        cstep[c] = "read" =>
            /\ cblock[c] < pblock
            /\ cblock[c] < NextToLand(SlotOf(cblock[c]))

RingInv ==
    /\ StateInv
    /\ WindowInv
    /\ FullInv
    /\ EmptyInv
    /\ InflightInv
    /\ ContentInv
    /\ ReadInv
=============================================================================
