-------------------------- MODULE MCDetBackwardSm90 --------------------------
(* Small launches for DetBackwardSm90, two CTAs resident at a time. *)
EXTENDS DetBackwardSm90

LaunchOf(sq, sk, tn, heads, minor, kind, window) ==
    [sq |-> sq, sk |-> sk, tm |-> 2, tn |-> tn, pack |-> 1, trunc |-> TRUE,
     heads |-> heads, group |-> heads, minor |-> minor, slots |-> 2,
     kind |-> kind, sink |-> window.sink, left |-> window.left,
     right |-> window.right, near |-> window.near]

Windows(sinks, rights) ==
    [sink : sinks, left : {2}, right : rights, near : {1}]
NoWindow == [sink |-> 0, left |-> 0, right |-> 0, near |-> 0]

(* One head, four or five key blocks and a partial last query tile. *)
OneHead ==
    {LaunchOf(3, 4, 1, 1, 1, kind, NoWindow) : kind \in {"full", "causal"}}
      \union {LaunchOf(3, 5, 1, 1, 1, "local", w) : w \in Windows({0, 1}, {0})}

(* Three query heads share a key head and are scheduled two at a time. *)
ThreeHeads == {LaunchOf(2, 3, 2, 3, 2, "causal", NoWindow)}

(* Windows with a gap, and no partial query tile. *)
Aligned == {LaunchOf(4, 5, 1, 1, 1, "local", w) : w \in Windows({1}, {1, 2})}

MCLaunches == OneHead \union ThreeHeads \union Aligned

(* A window with a gap and a partial last query tile. *)
GapLaunch ==
    {LaunchOf(5, 5, 1, 1, 1, "local", [sink |-> 0, left |-> 2, right |-> 2, near |-> 1])}
=============================================================================
