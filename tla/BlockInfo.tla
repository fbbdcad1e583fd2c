------------------------------- MODULE BlockInfo -------------------------------
(***************************************************************************)
(* Which key blocks a query tile visits, which query tiles a key block     *)
(* visits, and what the masks keep: the arithmetic of cute/block_info.py,  *)
(* which triton/block_info.py repeats, and of apply_mask.                  *)
(*                                                                         *)
(* Everything is a function of a problem c, a record with                  *)
(*   sq, sk   the lengths of the queries and of the keys                   *)
(*   tm, tn   the tile sizes                                               *)
(*   pack     query heads packed into one tile (1: no packing)             *)
(*   kind     "full", "causal" or "local"                                  *)
(*   sink, left, right, near   the window sizes of a local problem         *)
(*   trunc    whether the compiler rounds negative quotients to zero       *)
(* With local attention a query sees the near keys, then nothing for right *)
(* keys, then a window of left keys, and the first sink keys.              *)
(***************************************************************************)
EXTENDS Integers

Least(a, b) == IF a <= b THEN a ELSE b
Most(a, b)  == IF a >= b THEN a ELSE b

Quot(c, a, b)    == IF c.trunc /\ a < 0 THEN -((-a) \div b) ELSE a \div b
CeilDiv(c, a, b) == Quot(c, a + b - 1, b)

IsLocal(c) == c.kind = "local"

IsProblem(c) ==
    /\ {c.sq, c.sk, c.sink, c.left, c.right, c.near} \subseteq Nat
    /\ {c.tm, c.tn, c.pack} \subseteq Nat \ {0}
    /\ c.kind \in {"full", "causal", "local"} /\ c.trunc \in BOOLEAN

-----------------------------------------------------------------------------
(* What may be attended to, and what the masks keep of a block.            *)

Dist(c, q, k) == q + c.sk - c.sq - k

InNear(c, q, k)   == Dist(c, q, k) \in 0 .. c.near - 1
InWindow(c, q, k) == Dist(c, q, k) \in
                        c.near + c.right .. c.near + c.right + c.left - 1
InSink(c, q, k)   == k < c.sink /\ Dist(c, q, k) >= 0

(* The mask the kernels are tested against. *)
Attends(c, q, k) ==
    /\ q < c.sq /\ k < c.sk
    /\ c.kind = "causal" => Dist(c, q, k) >= 0
    /\ IsLocal(c) => InNear(c, q, k) \/ InWindow(c, q, k) \/ InSink(c, q, k)

(* apply_mask with its flags: seqlen, and one of none, causal, local and   *)
(* sink, the last of which also sets the local flag.                       *)
Kept(c, seqlen, mask, q, k) ==
    /\ seqlen => k < c.sk
    /\ CASE mask = "none"   -> TRUE
         [] mask = "causal" -> Dist(c, q, k) >= 0
         [] mask = "local"  -> InNear(c, q, k) \/ InWindow(c, q, k)
         [] mask = "sink"   -> \/ InNear(c, q, k) \/ InWindow(c, q, k)
                               \/ InSink(c, q, k)

-----------------------------------------------------------------------------
(* Key blocks of query tile m. *)

NumN(c)       == CeilDiv(c, c.sk, c.tn)
SinkBlocks(c) == CeilDiv(c, c.sink, c.tn)

RowEnd(c, m)   == Least(CeilDiv(c, (m + 1) * c.tm, c.pack), c.sq)
RowStart(c, m) == (m * c.tm) \div c.pack

(* Keys on the diagonal of the first query of the tile and past the last. *)
KeyStart(c, m) == RowStart(c, m) + c.sk - c.sq
KeyEnd(c, m)   == RowEnd(c, m) + c.sk - c.sq

(* A window block range starts after the sink blocks, which the sink range *)
(* visits.                                                                 *)
AfterSink(c, key) == Most(Most(Quot(c, key, c.tn), 0), SinkBlocks(c))
BlocksUpToFloor(c, key) == Most(Quot(c, key, c.tn), 0)     \* mutant

BlocksUpTo(c, key) == Most(CeilDiv(c, key, c.tn), 0)

RawN(c, m) ==
    LET end   == KeyEnd(c, m)
        start == KeyStart(c, m)
        all   == [min |-> 0, max |-> NumN(c), wmin |-> 0, wmax |-> 0, smax |-> 0]
        seen  == [all EXCEPT !.max = Least(@, CeilDiv(c, end, c.tn))]
    IN  CASE c.kind = "full"   -> all
          [] c.kind = "causal" -> seen
          [] c.kind = "local"  ->
               [seen EXCEPT
                 !.min  = AfterSink(c, start - c.near),
                 !.wmin = AfterSink(c, start - c.near - c.right - c.left),
                 !.wmax = Least(NumN(c), BlocksUpTo(c, end - c.near - c.right)),
                 !.smax = Least(SinkBlocks(c), BlocksUpTo(c, end))]

(* The ranges end up disjoint: the window gives way to the main range. *)
ClampN(c, r) ==
    LET min == Least(r.min, r.max)
    IN  IF IsLocal(c)
        THEN [r EXCEPT !.min = min,
                       !.wmax = Most(Least(@, min), r.wmin),
                       !.smax = Most(@, 0)]
        ELSE [r EXCEPT !.min = min]

(* get_n_block_min_max *)
NBlocks(c, m) == ClampN(c, RawN(c, m))

(* get_n_block_min_causal_local_mask: blocks from here on need a mask for  *)
(* the diagonal, or, for the window, for its right edge.                   *)
MaskFrom(c, m, min, local) ==
    LET key == KeyStart(c, m) - (IF local THEN c.near + c.right ELSE 0)
    IN  Most(min, Quot(c, key, c.tn))

-----------------------------------------------------------------------------
(* Query tiles of key block n. *)

NumM(c) == CeilDiv(c, c.sq, c.tm)

(* Queries on the diagonal of the first key of the block and past the last *)
QueryStart(c, n) == n * c.tn + c.sq - c.sk
QueryEnd(c, n)   == (n + 1) * c.tn + c.sq - c.sk

RawM(c, n) ==
    LET start == QueryStart(c, n)
        end   == QueryEnd(c, n)
        all   == [min |-> 0, max |-> NumM(c), wmin |-> 0, wmax |-> 0,
                  smin |-> 0, smax |-> 0]
        from(q) == Most(Quot(c, q, c.tm), 0)
        upTo(q) == Least(NumM(c), CeilDiv(c, q, c.tm))
    IN  CASE c.kind = "full"   -> all
          [] c.kind = "causal" -> [all EXCEPT !.min = from(start)]
          [] IsLocal(c) /\ n < SinkBlocks(c) ->
               [all EXCEPT !.max = 0, !.smin = from(start), !.smax = NumM(c)]
          [] IsLocal(c) /\ n >= SinkBlocks(c) ->
               [all EXCEPT
                 !.min  = from(start),
                 !.max  = upTo(end + c.near),
                 !.wmin = from(start + c.near + c.right),
                 !.wmax = upTo(end + c.near + c.right + c.left)]

ClampM(c, r) ==
    LET min == Least(r.min, r.max)
    IN  IF IsLocal(c)
        THEN [r EXCEPT !.min = min,
                       !.wmin = Least(Most(@, r.max), r.wmax),
                       !.smin = Least(@, r.smax)]
        ELSE [r EXCEPT !.min = min]

(* get_m_block_min_max *)
MBlocks(c, n) == ClampM(c, RawM(c, n))

=============================================================================
