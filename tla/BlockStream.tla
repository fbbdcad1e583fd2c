---------------------------- MODULE BlockStream -----------------------------
(***************************************************************************)
(* What a K, V or Q pipeline promises, without slots, barriers or parities *)
(* (abstract specification of TmaPipeline): a stream of numbered blocks    *)
(* broadcast to a set of consumers through a window.                       *)
(***************************************************************************)
EXTENDS Integers

CONSTANTS
    Window,     \* how far the stream may run ahead of the slowest consumer
    Consumers,
    NumBlocks

VARIABLES
    landed,  \* blocks that are in shared memory or were
    taken    \* number of blocks each consumer is done with

streamVars == <<landed, taken>>

Init ==
    /\ landed = {}
    /\ taken = [c \in Consumers |-> 0]

(* A block lands once, in any order inside the window.  Every block it     *)
(* replaces has been taken by every consumer.                              *)
Land(b) ==
    /\ b \notin landed
    /\ \A c \in Consumers : b < taken[c] + Window
    /\ landed' = landed \union {b}
    /\ UNCHANGED taken

(* A consumer takes its next block, which has landed. *)
Take(c) ==
    /\ taken[c] \in landed
    /\ taken' = [taken EXCEPT ![c] = @ + 1]
    /\ UNCHANGED landed

Next ==
    \/ \E b \in 0 .. NumBlocks - 1 : Land(b)
    \/ \E c \in Consumers : Take(c)

Spec == Init /\ [][Next]_streamVars
=============================================================================
