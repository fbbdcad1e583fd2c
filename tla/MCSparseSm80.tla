---------------------------- MODULE MCSparseSm80 ----------------------------
(* Small launches for SparseSm80. *)
EXTENDS SparseSm80

LaunchOf(kind, warps, tiles, restarts, stages, gqa) ==
    [kind |-> kind, warps |-> warps, tiles |-> tiles, restarts |-> restarts,
     stages |-> stages, gqa |-> gqa]

(* One range, or three as of local attention, also without a near tile;    *)
(* a key tile without queries; one and two stages.                         *)
MCLaunches ==
    {LaunchOf("forward", 2, 4, {}, 1, FALSE), LaunchOf("forward", 2, 4, {2, 3}, 1, FALSE),
     LaunchOf("forward", 3, 3, {2}, 1, FALSE),
     LaunchOf("backward", 2, 3, {}, 2, FALSE), LaunchOf("backward", 2, 3, {}, 1, TRUE),
     LaunchOf("backward", 2, 3, {0, 2}, 2, TRUE), LaunchOf("backward", 2, 3, {0, 1}, 1, FALSE),
     LaunchOf("backward", 3, 2, {1}, 2, FALSE),
     LaunchOf("backward", 2, 0, {}, 2, FALSE)}

MCEmpty == {LaunchOf("backward", 2, 0, {}, 2, FALSE)}
MCTwoTiles == {LaunchOf("forward", 2, 2, {}, 1, FALSE)}
=============================================================================
