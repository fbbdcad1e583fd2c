------------------------------ MODULE TritonAttn ------------------------------
(***************************************************************************)
(* The launches of the Triton attention kernels: which (query, key) pairs  *)
(* the programs of one launch compute.  Programs run in any order, each in *)
(* one step, and their partial results are merged, so the launch is right  *)
(* when every pair the mask allows is counted once over all of them.       *)
(***************************************************************************)
EXTENDS TritonLoops

vars == <<c, range, pending, counted>>

Init ==
    /\ c \in Launches
    /\ range = InitialRange
    /\ pending = Programs
    /\ counted = [x \in Pairs |-> 0]

RunProgram(p) ==
    /\ p \in pending
    /\ pending' = pending \ {p}
    /\ counted' = [x \in Pairs |-> counted[x] + Times(p, x[1], x[2])]
    /\ UNCHANGED <<c, range>>

Done == pending = {} /\ UNCHANGED vars

Next == (\E p \in Programs : RunProgram(p)) \/ Done
Spec == Init /\ [][Next]_vars

=============================================================================
