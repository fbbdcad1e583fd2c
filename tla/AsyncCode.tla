----------------------------- MODULE AsyncCode -----------------------------
(***************************************************************************)
(* What a kernel does with shared memory, as straight-line code.  Once a   *)
(* launch and the tiles it will drop are fixed, no kernel modelled this    *)
(* way branches on anything else, so that the code of a warp, or of a role *)
(* of warps, is a sequence of the instructions below; AsyncMachine runs    *)
(* it.  All of them are instructions of the hardware or of the languages   *)
(* the kernels are written in.                                             *)
(*                                                                         *)
(* A buffer, named by a string, holds an item, <<name, index>>: the tile   *)
(* of that index of a tensor.  A use is a pair of a buffer and the item it *)
(* has to hold, or, of one's own part of it, a triple: the parts of others *)
(* may hold the third, an item they put there.                             *)
(***************************************************************************)
EXTENDS SequencesExt

Nothing == <<"nothing", 0>>
Zeros   == <<"zeros", 0>>   \* what a copy whose mask is false leaves
Out     == <<"out", 0>>

(* The buffer of the i-th use of a ring of buffers, and its phase. *)
Stage(ring, i) == ring[(i % Len(ring)) + 1]
Round(ring, i) == i \div Len(ring)

(* Ordinary instructions: write one's part of a buffer; multiply, or read  *)
(* otherwise, with what it adds to a result; count a tile without reading. *)
Put(buf, item)   == <<[op |-> "put", buf |-> buf, item |-> item]>>
Read(uses, outs) == <<[op |-> "read", uses |-> uses, outs |-> outs]>>

(* A read that need not find what it looks for: the kernel has no means to *)
(* make sure of it.                                                        *)
Peek(uses) == <<[op |-> "peek", uses |-> uses]>>

(* cp.async *)
Copy(buf, item) == <<[op |-> "copy", buf |-> buf, item |-> item]>>
CommitGroup     == <<[op |-> "commit"]>>
WaitGroup(n)    == <<[op |-> "wait", left |-> n]>>

(* A barrier of n actors: bar.sync. *)
Sync(bar, n) == <<[op |-> "sync", bar |-> bar, n |-> n]>>

(* mbarriers, and TMA loads that complete on one. *)
Expect(mbar, n)      == <<[op |-> "expect", mbar |-> mbar, n |-> n]>>
Tma(buf, item, mbar) == <<[op |-> "tma", buf |-> buf, item |-> item, mbar |-> mbar]>>
MbarWait(mbar, p)    == <<[op |-> "mbwait", mbar |-> mbar, parity |-> p]>>
MbarArrive(mbar)     == <<[op |-> "mbarrive", mbar |-> mbar]>>

(* Asynchronous multiplications, which finish in the order they are issued *)
(* and read their buffers until then.  Await(n) waits until at most n are  *)
(* under way.                                                              *)
Issue(uses, outs) == <<[op |-> "issue", job |-> [uses |-> uses, outs |-> outs]]>>
Await(n)  == <<[op |-> "await", left |-> n]>>

When(condition, code) == IF condition THEN code ELSE <<>>
Each(seq, Code(_)) == FlattenSeq([i \in DOMAIN seq |-> Code(i)])

(* from, from - 1, ..., to and from, from + 1, ..., to *)
Down(from, to) == [i \in 1 .. (IF from >= to THEN from - to + 1 ELSE 0) |-> from - i + 1]
Up(from, to)   == [i \in 1 .. (IF to >= from THEN to - from + 1 ELSE 0) |-> from + i - 1]

(* The code of one CTA: that of its actors, the actors that copy or write  *)
(* a part of each buffer, the arrivals a phase of each mbarrier takes, and *)
(* the results each actor contributes to.                                  *)
Cta(code, parts, mbars, due) ==
    [code |-> code, parts |-> parts, mbars |-> mbars, due |-> due]

(* What the product of a tile adds to a result, under which mask; and that *)
(* it adds nothing, because the tile is dropped.                           *)
Product(kind, block, seqlen, mask) ==
    <<[kind |-> kind, block |-> block, seqlen |-> seqlen, mask |-> mask]>>
=============================================================================
