---------------------------- MODULE GluonDenseSm90 ----------------------------
(***************************************************************************)
(* The dense forward Gluon kernel for SM90, _fwd_dense_kernel: a producer  *)
(* partition loads K, in two stages, and V with TMA, a consumer partition  *)
(* multiplies asynchronously, so that P V of one block overlaps Q K^T of   *)
(* the next.  A partition is one actor: the compiler has one of its        *)
(* threads arrive at an mbarrier, after all of them.                       *)
(***************************************************************************)
EXTENDS GluonBlocks

Ready(i)   == Stage(<<"k_ready0", "k_ready1">>, i)
Release(i) == Stage(<<"k_release0", "k_release1">>, i)
KStage(i)  == Stage(<<"sK0", "sK1">>, i)

DenseMbars == [k_ready0 |-> 1, k_ready1 |-> 1, k_release0 |-> 1, k_release1 |-> 1,
               v_ready |-> 1, v_release |-> 1]

(* _fwd_load_dense_kernel *)
LoadTile(buf, item, ready) == Expect(ready, 1) \o Tma(buf, item, ready)

-----------------------------------------------------------------------------
(* The blocks the producer loads, in the order the consumer needs them.    *)
ProducerBlocks(c, m, r) ==
    When(~EmptyN(r),
         Down(r.max - 1, IF IsLocal(c) THEN NoMaskUpTo(c, m, r.min, r.max - 1, 0) ELSE r.min)
           \o When(IsLocal(c), Down(r.wmax - 1, r.wmin) \o Down(r.smax - 1, 0)))

(* _fwd_producer_dense_kernel: V of a block after K of the next one.  The  *)
(* buffers are filled a first time without waiting for their release.      *)
LoadPrevV(prev, kv) ==
    When(kv >= 2, MbarWait("v_release", (kv - 2) % 2)) \o LoadTile("sV", <<"V", prev>>, "v_ready")

LoadKAndPrevV(blocks, kv) ==
    When(kv >= 2, MbarWait(Release(kv), (kv \div 2 - 1) % 2))
      \o LoadTile(KStage(kv), <<"K", blocks[kv + 1]>>, Ready(kv))
      \o When(kv > 0, LoadPrevV(blocks[kv], kv))

ProducerCode(blocks) ==
    LET each(j) == LoadKAndPrevV(blocks, j - 1)
    IN  Each(blocks, each)
          \o When(blocks # <<>>, LoadPrevV(blocks[Len(blocks)], Len(blocks)))

ComputeNoRelease(visits, j) ==    \* mutant
    LET kv == j - 1
        n  == visits[j].block
    IN  MbarWait(Ready(kv), (kv \div 2) % 2)
          \o Issue({<<"sQ", <<"Q", 0>>>>, <<KStage(kv), <<"K", n>>>>}, <<>>)
          \o (IF j = 1 THEN Await(0)
              ELSE LET prev == visits[j - 1]
                   IN  MbarWait("v_ready", (kv - 1) % 2)
                         \o Issue({<<"sV", <<"V", prev.block>>>>},
                                  Product("PV", prev.block, prev.seqlen, prev.mask))
                         \o Await(1))
          \o MbarArrive(Release(kv))
          \o When(j > 1, Await(0))

(* _fwd_compute_dense_kernel: Q K^T of a block, P V of the one before.     *)
Compute(visits, j) ==
    LET kv == j - 1
        n  == visits[j].block
    IN  MbarWait(Ready(kv), (kv \div 2) % 2)
          \o Issue({<<"sQ", <<"Q", 0>>>>, <<KStage(kv), <<"K", n>>>>}, <<>>)
          \o (IF j = 1 THEN Await(0)
              ELSE LET prev == visits[j - 1]
                   IN  MbarWait("v_ready", (kv - 1) % 2)
                         \o Issue({<<"sV", <<"V", prev.block>>>>},
                                  Product("PV", prev.block, prev.seqlen, prev.mask))
                         \o Await(1))
          \o MbarArrive(Release(kv))
          \o When(j > 1, Await(0) \o MbarArrive("v_release"))

(* _fwd_consumer_dense_kernel: Q, the blocks, P V of the last one, and O   *)
(* through the buffer of Q unless it is a partial result.                  *)
ConsumerCode(c, visits) ==
    LET last    == visits[Len(visits)]
        each(j) == Compute(visits, j)
    IN  When(visits # <<>>,
             Copy("sQ", <<"Q", 0>>) \o CommitGroup \o WaitGroup(0) \o Sync("consumer", 1)
               \o Each(visits, each)
               \o MbarWait("v_ready", (Len(visits) - 1) % 2)
               \o Issue({<<"sV", <<"V", last.block>>>>},
                        Product("PV", last.block, last.seqlen, last.mask))
               \o Await(0)
               \o When(c.splits = 0, Put("sQ", Out) \o Sync("consumer", 1)
                                       \o Read({<<"sQ", Out>>}, <<>>)))

DenseCta(l, split) ==
    Cta([consumer |-> ConsumerCode(l, KeyVisits(l, l.tile, split)),
         producer |-> ProducerCode(ProducerBlocks(l, l.tile, ProgramN(l, l.tile, split)))],
        [sQ |-> {"consumer"}, sK0 |-> {"tma"}, sK1 |-> {"tma"}, sV |-> {"tma"}],
        DenseMbars, [consumer |-> {"PV"}, producer |-> {}])
=============================================================================
