-------------------------- MODULE MCKernelLaunches --------------------------
(* The calls that TLC checks: sequences of different lengths, one of them  *)
(* empty or used in part, groups of heads, packed or not, splits that stay *)
(* without a block, windows per head, pages in another order, and tiles    *)
(* that do not divide the lengths.                                         *)
EXTENDS KernelLaunches

OneHead ==
    [backend |-> "triton", pass |-> "fwd", family |-> "dense", varlen |-> FALSE,
     qlens |-> <<3, 3>>, klens |-> <<3, 3>>, usedq |-> <<>>, usedk |-> <<>>,
     hq |-> 1, hkv |-> 1, packed |-> FALSE, splits |-> 0, tm |-> 2, tn |-> 2, tc |-> 4, pad |-> 4,
     kind |-> "causal", windows |-> <<>>, pages |-> <<>>, npages |-> 0,
     lists |-> <<>>, l2 |-> 1]

Uneven    == [OneHead EXCEPT !.varlen = TRUE, !.qlens = <<3, 1>>, !.klens = <<2, 3>>]
Three     == [Uneven EXCEPT !.qlens = <<1, 1, 2>>, !.klens = <<1, 2, 1>>]
WithEmpty == [Uneven EXCEPT !.qlens = <<0, 3>>, !.klens = <<3, 0>>]
UsedInPart == [Uneven EXCEPT !.qlens = <<3, 3>>, !.klens = <<3, 3>>,
                             !.usedq = <<1, 2>>, !.usedk = <<2, 3>>]
Heads(c) == [c EXCEPT !.hq = 2, !.qlens = <<3>>, !.klens = <<3>>]
Pairs(c) == [c EXCEPT !.hq = 2, !.hkv = 2, !.qlens = <<3>>, !.klens = <<3>>]
Grouped  == [OneHead EXCEPT !.varlen = TRUE, !.hq = 2, !.qlens = <<1, 3>>, !.klens = <<3, 2>>]
(* A window per head; the gap that the second leaves after the near keys   *)
(* is left out for a single query, see DecodeGap.                          *)
Windows(gap) == <<[sink |-> 1, left |-> 1, right |-> 0, near |-> 1],
                  [sink |-> 0, left |-> 1, right |-> gap, near |-> 1]>>
LocalHeads == [Pairs(OneHead) EXCEPT !.kind = "local", !.windows = Windows(1)]
Heads2   == [OneHead EXCEPT !.hq = 2]
Packs(c) == [c EXCEPT !.packed = TRUE]
In(n, c) == [c EXCEPT !.splits = n]
Pages(c) == [c EXCEPT !.varlen = FALSE, !.klens = <<4, 4>>, !.usedk = <<3, 1>>,
                      !.pages = <<<<3, 0>>, <<1, 4>>>>, !.npages = 5]
Gate(c)  == [c EXCEPT !.family = "gated"]
Skips(c) == [c EXCEPT !.family = "sparse"]
Full(c)  == [c EXCEPT !.kind = "full"]

Forward == {OneHead, Three, WithEmpty, UsedInPart, LocalHeads, Packs(Grouped),
            Full(Packs(Heads(OneHead))), In(2, Uneven), In(2, WithEmpty), In(2, LocalHeads),
            In(3, Packs(Heads(Uneven))), Pages(OneHead), In(2, Pages(OneHead)),
            Gate(Uneven), Gate(Packs(Grouped)), In(2, Gate(Packs(Heads(Uneven)))),
            Gate(Pages(OneHead)), Gate(Full(Pairs(OneHead))), Skips(Pairs(OneHead)),
            Skips(UsedInPart)}

Back(c) == [c EXCEPT !.pass = "bwd"]
Backward == {Back(c) : c \in {OneHead, Three, WithEmpty, UsedInPart, LocalHeads,
                              Heads(Uneven), Grouped, In(2, OneHead), In(2, Uneven),
                              In(2, Heads(Uneven)), Gate(Uneven), Gate(In(2, Uneven)),
                              Gate(Full(Heads(OneHead))), Skips(Full(Heads(OneHead))),
                              Skips(Uneven)}}

Dec(c) == [c EXCEPT !.pass = "dec", !.qlens = [i \in DOMAIN c.qlens |-> 1], !.usedq = <<>>,
                    !.kind = IF @ = "causal" THEN "full" ELSE @,
                    !.windows = IF @ = <<>> THEN @ ELSE Windows(0),
                    !.packed = TRUE, !.tm = 4, !.splits = Most(@, 1)]
(* Lists of keys that fill their blocks, see ListTails. *)
Lists(ls, c) == [c EXCEPT !.lists = ls]
Decode == {Dec(c) : c \in {OneHead, In(2, Uneven), In(3, WithEmpty), In(2, LocalHeads),
                           In(2, Grouped), Pages(OneHead), Gate(In(2, Pages(Grouped))),
                           Gate(In(2, Grouped)), Skips(Heads(OneHead)), Skips(In(2, Grouped)),
                           Lists(<<<<2, 0>>, <<1, -1, -1, -1>>>>, OneHead),
                           Lists(<<<<2, 1, 0, -1>>, <<0, 2>>>>, In(2, Heads2)),
                           Lists(<<<<0, -1, 2, -1>>, <<-1, -1>>>>, In(3, Gate(Heads2)))}}

(* The Gluon backend.  In a call with concatenated sequences its backward  *)
(* needs as many key blocks of one sequence as of another, see ShortKeys.  *)
Sm80(c)  == [c EXCEPT !.backend = "gluon"]
Sm90(c)  == [c EXCEPT !.backend = "gluon_sm90"]
L2Holds(n, c) == [c EXCEPT !.l2 = n * Longest(c.klens)]
SameBlocks == [Uneven EXCEPT !.klens = <<2, 1>>]

GluonForward ==
    {Sm80(c) : c \in {OneHead, Packs(OneHead), L2Holds(5, Three), WithEmpty, L2Holds(2, UsedInPart),
                       LocalHeads, Packs(Grouped), L2Holds(2, Grouped), Full(Packs(Heads(OneHead))),
                       In(2, Uneven), In(2, WithEmpty), In(2, LocalHeads),
                       In(3, Packs(Heads(Uneven)))}}
      \cup {Sm90(c) : c \in {L2Holds(2, Pairs(OneHead)), Three, In(2, Packs(Grouped))}}

GluonBackward ==
    {Sm80(Back(c)) : c \in {OneHead, SameBlocks, UsedInPart, LocalHeads, Full(OneHead),
                             Heads(SameBlocks), In(2, OneHead), In(2, SameBlocks),
                             In(2, Heads(Full(SameBlocks)))}}

(* A sequence with fewer key blocks than the longest one. *)
ShortKeys == {Sm80(Back([Full(Uneven) EXCEPT !.klens = <<1, 3>>]))}

-----------------------------------------------------------------------------
(* One sequence: all kinds of masks, windows that overlap the sink, the    *)
(* near keys and the ends of the keys, as many splits as blocks and more.  *)
Single(sq, sk, n) == [In(n, OneHead) EXCEPT !.qlens = <<sq>>, !.klens = <<sk>>]
Local(c, w)       == [c EXCEPT !.kind = "local", !.windows = <<w>>]
AllWindows(sinks, lefts, rights, nears) ==
    [sink : sinks, left : lefts, right : rights, near : nears]
(* The interface takes a single query for one without a causal mask.       *)
Masks(sqs, sks, splits) ==
    LET calls == {Single(sq, sk, n) : sq \in sqs, sk \in sks, n \in splits}
    IN  {c \in calls : c.qlens # <<1>>} \cup {Full(c) : c \in calls}
Locals(sqs, sks, splits, windows) ==
    {Local(Single(sq, sk, n), w) : sq \in sqs, sk \in sks, n \in splits, w \in windows}

Narrow == AllWindows({0, 3}, {1, 3}, {0, 1}, {0, 2})
Wide   == AllWindows({0, 1, 3}, {0, 1, 3}, 0 .. 2, 0 .. 2)
NoGap  == AllWindows({0, 1, 3}, {0, 1, 3, 4}, {0}, 0 .. 3)

ForwardLoops ==
    Masks({1, 3, 5}, {2, 5, 7}, {0}) \cup Masks({3}, {5, 7}, {2, 3})
      \cup Locals({5}, {7}, {0}, Wide) \cup Locals({3}, {7}, {2, 3}, Narrow)
BackwardLoops ==
    {Back(c) : c \in Masks({3, 5}, {2, 5}, {0}) \cup Masks({5}, {4}, {2, 3})
                        \cup Locals({3, 5}, {5}, {0}, Narrow) \cup Locals({5}, {3}, {2, 3}, Narrow)}
DecodeLoops ==
    {[Dec(c) EXCEPT !.hq = 3, !.windows = c.windows] :
        c \in Masks({1}, {1, 4, 7, 9}, {1, 2, 3}) \cup Locals({1}, {9}, {2, 3}, NoGap)}
GluonLoops == {Sm80(c) : c \in ForwardLoops \cup BackwardLoops}

(* Decode with a gap between the near keys and the window, and lists that  *)
(* do not fill their last block.                                           *)
DecodeGap ==
    {[Dec(c) EXCEPT !.windows = c.windows] :
        c \in {Local(Single(1, 4, 1), [sink |-> 0, left |-> 0, right |-> 1, near |-> 1])}}
ListTails == {Dec(Lists(<<<<2, 0, 1>>, <<0, 2>>>>, OneHead))}

MCCalls ==
    Forward \cup Backward \cup Decode \cup ForwardLoops \cup BackwardLoops
      \cup DecodeLoops \cup GluonForward \cup GluonBackward \cup GluonLoops
=============================================================================
