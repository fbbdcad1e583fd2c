---------------------------- MODULE GpuBarriers ----------------------------
(***************************************************************************)
(* The two kinds of barrier of NVIDIA GPUs that ops/cute synchronises      *)
(* with.  The barriers are hardware; modelled is the part of their         *)
(* contracts that the kernels rely on.                                     *)
(***************************************************************************)
EXTENDS Integers, FiniteSets

-----------------------------------------------------------------------------
(***************************************************************************)
(* The transaction barrier (mbarrier) of NVIDIA GPUs, as the pipelines of  *)
(* ops/cute use it through cutlass: sync_object_full, sync_object_empty,   *)
(* mbarrier_arrive.                                                        *)
(*                                                                         *)
(*   phase    number of phases completed so far.  The hardware keeps only  *)
(*            its parity and a waiter only ever looks at its parity, see   *)
(*            Passed: the full count is there for the invariants.          *)
(*   pending  arrivals still missing in the current phase.                 *)
(*   tx       TMA transactions announced and not yet landed.               *)
(***************************************************************************)
(* A barrier initialised for `count` arrivals per phase. *)
MbarInit(count) == [phase |-> 0, pending |-> count, tx |-> 0]

(* The phase completes once nothing is missing; the barrier then re-arms. *)
Settle(phase, pending, tx, count) ==
    IF pending = 0 /\ tx = 0
    THEN [phase |-> phase + 1, pending |-> count, tx |-> 0]
    ELSE [phase |-> phase, pending |-> pending, tx |-> tx]

(* mbarrier.arrive *)
Arrive(bar, count) == Settle(bar.phase, bar.pending - 1, bar.tx, count)

(* mbarrier.arrive.expect_tx: one arrival that also announces n loads. *)
ArriveExpectTx(bar, n, count) ==
    Settle(bar.phase, bar.pending - 1, bar.tx + n, count)

(* complete_tx, performed by the TMA engine when a load has landed. *)
CompleteTx(bar, count) == Settle(bar.phase, bar.pending, bar.tx - 1, count)

(* try_wait.parity(p): true once the phase of parity p is complete, that   *)
(* is while the current phase has the other parity.                        *)
Passed(bar, p) == bar.phase % 2 # p % 2

-----------------------------------------------------------------------------
(***************************************************************************)
(* The named barrier of NVIDIA GPUs (bar.sync, bar.arrive), as ops/cute    *)
(* uses it through cute.arch.barrier, cute.arch.barrier_arrive and         *)
(* cutlass.pipeline.NamedBarrier.  Once n actors have arrived, everybody   *)
(* who blocks on it goes on and it counts from 0 again.                    *)
(***************************************************************************)
NoOne == [count |-> 0, blocked |-> {}]

(* barrier_arrive: arrive and go on. *)
BarrierArrive(b, n) ==
    IF b.count + 1 = n THEN NoOne ELSE [b EXCEPT !.count = @ + 1]

(* barrier: arrive and block; the last arrival lets everybody through. *)
BarrierSync(b, actor, n) ==
    IF b.count + 1 = n THEN NoOne
    ELSE [count |-> b.count + 1, blocked |-> b.blocked \union {actor}]

(* A barrier for n actors between two arrivals. *)
BarrierOK(b, actors, n) ==
    /\ b.count \in 0 .. n - 1
    /\ b.blocked \subseteq actors
    /\ Cardinality(b.blocked) <= b.count
=============================================================================
