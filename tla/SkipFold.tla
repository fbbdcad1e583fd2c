------------------------------ MODULE SkipFold -------------------------------
(***************************************************************************)
(* What a sparse forward mainloop promises, without pipelines, barriers or *)
(* shared memory (abstract specification of SparseFwdSm90): the blocks of  *)
(* a tile are decided on one after the other, and every group accumulates  *)
(* the kept ones, each once and in order.                                  *)
(***************************************************************************)
EXTENDS Integers, Sequences

CONSTANT Launches

VARIABLES
    launch,    \* the launch, with its numbers of groups and blocks
    decision,  \* decision[b + 1]: block b is skipped
    acc        \* blocks each group has accumulated

foldVars == <<launch, decision, acc>>

Groups == 0 .. launch.groups - 1

Init ==
    /\ launch \in Launches
    /\ decision = <<>>
    /\ acc = [g \in Groups |-> {}]

(* The first block of a tile is never skipped. *)
Decide(skip) ==
    /\ Len(decision) < launch.blocks
    /\ skip => Len(decision) > 0
    /\ decision' = Append(decision, skip)
    /\ UNCHANGED <<launch, acc>>

Kept == {b \in 0 .. Len(decision) - 1 : ~decision[b + 1]}

Accumulate(g, b) ==
    /\ b \in Kept \ acc[g]
    /\ \A earlier \in Kept : earlier < b => earlier \in acc[g]
    /\ acc' = [acc EXCEPT ![g] = @ \union {b}]
    /\ UNCHANGED <<launch, decision>>

Next ==
    \/ \E skip \in BOOLEAN : Decide(skip)
    \/ \E g \in Groups : \E b \in Kept : Accumulate(g, b)

Spec == Init /\ [][Next]_foldVars
=============================================================================
