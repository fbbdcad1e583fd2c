--------------------------- MODULE AsyncAttention ---------------------------
(***************************************************************************)
(* What the CTAs of a launch, run by AsyncMachine, compute: a launch is a  *)
(* problem of BlockInfo with the kernel, its tile (of queries in a         *)
(* forward, of keys in a backward kernel) and the tiles that would be      *)
(* dropped for their scores.  Its CTAs are the splits of that tile.        *)
(***************************************************************************)
EXTENDS AsyncMachine, BlockInfo

Backward(l) == "dV" \in UNION {Now.due[a] : a \in Team}

Rows(l) == IF Backward(l) THEN 0 .. l.sq * l.pack - 1
           ELSE {r \in l.tile * l.tm .. (l.tile + 1) * l.tm - 1 : r \div l.pack < l.sq}
Keys(l) == IF Backward(l)
           THEN {k \in l.tile * l.tn .. (l.tile + 1) * l.tn - 1 : k < l.sk}
           ELSE 0 .. NumN(l) * l.tn - 1
BlockOf(l, row, k) == IF Backward(l) THEN row \div l.tm ELSE k \div l.tn

(* How often an actor has added a pair of a query and a key to a result.   *)
Times(a, kind, row, k) ==
    Cardinality({i \in DOMAIN acc[a] :
        /\ acc[a][i].kind = kind /\ acc[a][i].block = BlockOf(problem, row, k)
        /\ Kept(problem, acc[a][i].seqlen, acc[a][i].mask, row \div problem.pack, k)})

(* Once its CTAs have ended, each pair that attends is in each result      *)
(* once -- unless its tile is dropped, which happens to it once -- and no  *)
(* other pair is in any.                                                   *)
ExactlyOnce ==
    Finished =>
        \A a \in Team : \A kind \in Now.due[a] : \A row \in Rows(problem), k \in Keys(problem) :
            IF Attends(problem, row \div problem.pack, k)
            THEN Times(a, kind, row, k) + Times(a, "drop", row, k) = 1
            ELSE Times(a, kind, row, k) = 0
=============================================================================
