--------------------------- MODULE MCSparseFwdSm90 ---------------------------
(* Small launches for SparseFwdSm90. *)
EXTENDS SparseFwdSm90

Launch(groups, blocks, starts, overlap, wide) ==
    [groups |-> groups, blocks |-> blocks, starts |-> starts, stages |-> 2,
     overlap |-> overlap, wide |-> wide]

(* Causal or full attention with three groups as for tile_m = 192; local    *)
(* attention of two and of three segments, with turns and, for a wide head, *)
(* without; a launch without overlap, with and without turns.               *)
MCLaunches ==
    {Launch(3, 4, {0}, TRUE, FALSE),
     Launch(2, 4, {0, 2, 3}, TRUE, FALSE),
     Launch(2, 5, {0, 2, 3}, TRUE, TRUE),
     Launch(2, 4, {0, 2}, FALSE, FALSE),
     Launch(1, 4, {0, 2}, FALSE, TRUE)}

(* Local attention whose second segment follows two blocks. *)
MCLocalLaunch == {Launch(2, 3, {0, 2}, TRUE, FALSE)}
=============================================================================
