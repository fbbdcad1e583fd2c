--------------------------- MODULE MCSparseBwdSm90 ---------------------------
(* Small launches for SparseBwdSm90. *)
EXTENDS SparseBwdSm90

Launch(tiles, stagesQ, stagesPdS, rs, single) ==
    [groups |-> 2, tiles |-> tiles, stagesQ |-> stagesQ, stagesPdS |-> stagesPdS,
     rs |-> rs, single |-> single]

(* The configurations of _tile_size_bwd_sm90 for head dimensions up to 64   *)
(* and 128, 96, 192 and 256; and a key tile no query attends to.            *)
MCLaunches ==
    {Launch(3, 2, 2, TRUE, FALSE), Launch(3, 2, 2, TRUE, TRUE),
     Launch(3, 2, 1, FALSE, FALSE), Launch(3, 1, 1, FALSE, FALSE),
     Launch(0, 2, 2, TRUE, FALSE)}

MCOneLaunch == {Launch(1, 2, 2, TRUE, FALSE)}
=============================================================================
