------------------------------ MODULE GluonSm80 ------------------------------
(***************************************************************************)
(* The Gluon kernels for SM80: _fwd_sm80_kernel and _bwd_sm80_kernel.  All *)
(* warps load their parts of the tiles with cp.async and multiply; K and Q *)
(* have two stages.  At the last tile of a range the loads ahead are       *)
(* issued and committed with a mask that is false: they fill zeros.        *)
(***************************************************************************)
EXTENDS GluonBlocks

Warps == {"warp0", "warp1"}
Same(x) == [w \in Warps |-> x]
SyncCta == Sync("cta", 2)

(* The barrier the Gluon compiler puts before a copy into a buffer that     *)
(* other warps may still read, where the kernel has none of its own.        *)
Membar == SyncCta

(* Whether the scores drop a tile: l.dropped are the tiles they would.     *)
Drops(l, visit, first) == visit.block \in l.dropped /\ ~first

sQs  == <<"sQ0", "sQ1">>
sKs  == <<"sK0", "sK1">>
sLSEs == <<"sLSE0", "sLSE1">>

Prefetch(visit, buf, item) == Copy(buf, IF visit.ahead THEN item ELSE Zeros)

-----------------------------------------------------------------------------
(* Forward, the i-th visit: _fwd_inner_sm80_kernel.  K is loaded ahead     *)
(* into the other stage and V once it is no longer read.                   *)
LoadK(i, n) == Copy(Stage(sKs, i), <<"K", n>>) \o CommitGroup
LoadV(n)    == Copy("sV", <<"V", n>>) \o CommitGroup

FwdInnerUnheld(l, visit, i) ==    \* mutant: no barrier before V is loaded over
    LET n    == visit.block
        drop == Drops(l, visit, i = 1)
        product(kind) == Product(kind, n, visit.seqlen, visit.mask)
    IN  WaitGroup(1) \o SyncCta
          \o Prefetch(visit, Stage(sKs, i + 1), <<"K", n - 1>>) \o CommitGroup
          \o Read({<<"sQ", <<"Q", 0>>>>, <<Stage(sKs, i), <<"K", n>>>>},
                  When(drop, product("drop")))
          \o WaitGroup(1) \o SyncCta
          \o When(~drop, Read({<<"sV", <<"V", n>>>>}, product("PV")))
          \o Prefetch(visit, "sV", <<"V", n - 1>>) \o CommitGroup

FwdInner(l, visit, i) ==
    LET n    == visit.block
        drop == Drops(l, visit, i = 1)
        product(kind) == Product(kind, n, visit.seqlen, visit.mask)
    IN  WaitGroup(1) \o SyncCta
          \o Prefetch(visit, Stage(sKs, i + 1), <<"K", n - 1>>) \o CommitGroup
          \o Read({<<"sQ", <<"Q", 0>>>>, <<Stage(sKs, i), <<"K", n>>>>},
                  When(drop, product("drop")))
          \o WaitGroup(1) \o SyncCta
          \o When(~drop, Read({<<"sV", <<"V", n>>>>}, product("PV")))
          \o SyncCta
          \o Prefetch(visit, "sV", <<"V", n - 1>>) \o CommitGroup

(* The first tile of the window and of the sink is loaded when everybody   *)
(* is done with the tiles before; that of the main range with Q.           *)
FwdVisit(l, visit, i) ==
    When(visit.start = "main", Copy("sQ", <<"Q", 0>>) \o CommitGroup)
      \o When(visit.start \in {"window", "sink"}, SyncCta)
      \o When(visit.start # "no", LoadK(i, visit.block) \o LoadV(visit.block))
      \o FwdInner(l, visit, i)

(* O goes through the buffer of Q, unless it is a partial result.          *)
FwdEpilogue(l) ==
    When(l.splits = 0, Put("sQ", Out) \o SyncCta
                         \o Read({<<"sQ", Out>>}, <<>>))

FwdParts == [sQ |-> Warps, sK0 |-> Warps, sK1 |-> Warps, sV |-> Warps]

FwdCode(l, visits) ==
    LET each(i) == FwdVisit(l, visits[i], i)
    IN  When(visits # <<>>, Each(visits, each) \o FwdEpilogue(l))

FwdCta(l, split) == Cta(Same(FwdCode(l, KeyVisits(l, l.tile, split))), FwdParts, <<>>,
                        Same({"PV"}))

-----------------------------------------------------------------------------
(* Backward, the i-th visit: _bwd_inner_sm80_kernel.  Q and LSE are loaded *)
(* ahead into the other stage, dO and dPsum once they are no longer read.  *)
Load(i, m) == Copy(Stage(sQs, i), <<"Q", m>>) \o Copy(Stage(sLSEs, i), <<"LSE", m>>)
                \o CommitGroup
                \o Copy("sdO", <<"dO", m>>) \o Copy("sdPsum", <<"dPsum", m>>)
                \o CommitGroup

BwdProducts(l, visit, i) ==
    LET m == visit.block
        product(kind) == Product(kind, m, visit.seqlen, visit.mask)
    IN  Read({<<"sV", <<"V", 0>>>>, <<"sdO", <<"dO", m>>>>, <<"sdPsum", <<"dPsum", m>>>>}, <<>>)
          \o Put("sP", <<"P", m>>) \o Put("sdS", <<"dS", m>>) \o SyncCta
          \o Read({<<"sP", <<"P", m>>>>, <<"sdO", <<"dO", m>>>>}, product("dV"))
          \o Read({<<"sdS", <<"dS", m>>>>, <<Stage(sQs, i), <<"Q", m>>>>}, product("dK"))
          \o Read({<<"sK", <<"K", 0>>>>, <<"sdS", <<"dS", m>>>>}, product("dQ"))

BwdInner(l, visit, i) ==
    LET m    == visit.block
        drop == m \in l.dropped
    IN  WaitGroup(1) \o SyncCta
          \o Read({<<"sK", <<"K", 0>>>>, <<Stage(sQs, i), <<"Q", m>>>>, <<Stage(sLSEs, i), <<"LSE", m>>>>},
                  When(drop, Product("drop", m, visit.seqlen, visit.mask)))
          \o Prefetch(visit, Stage(sQs, i + 1), <<"Q", m + 1>>)
          \o Prefetch(visit, Stage(sLSEs, i + 1), <<"LSE", m + 1>>) \o CommitGroup
          \o WaitGroup(1) \o SyncCta
          \o When(~drop, BwdProducts(l, visit, i))
          \o Membar \o Prefetch(visit, "sdO", <<"dO", m + 1>>)
          \o Prefetch(visit, "sdPsum", <<"dPsum", m + 1>>) \o CommitGroup

(* Before the main range everything has landed, before the window and the  *)
(* sink the warps only meet.                                               *)
BwdVisit(l, visit, i) ==
    When(visit.start = "first", Copy("sK", <<"K", 0>>) \o Copy("sV", <<"V", 0>>)
                                  \o CommitGroup)
      \o When(visit.start = "main", WaitGroup(0))
      \o When(visit.start \in {"main", "window", "sink"}, SyncCta)
      \o When(visit.start # "no", Load(i, visit.block))
      \o BwdInner(l, visit, i)

BwdParts == [sK |-> Warps, sV |-> Warps, sdO |-> Warps, sdPsum |-> Warps, sP |-> Warps,
             sdS |-> Warps, sQ0 |-> Warps, sQ1 |-> Warps, sLSE0 |-> Warps, sLSE1 |-> Warps]

BwdCode(l, visits) == LET each(i) == BwdVisit(l, visits[i], i) IN Each(visits, each)

BwdCta(l, split) == Cta(Same(BwdCode(l, TileVisits(l, l.tile, split))), BwdParts, <<>>,
                        Same({"dV", "dK", "dQ"}))
=============================================================================
