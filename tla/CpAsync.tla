------------------------------ MODULE CpAsync ------------------------------
(***************************************************************************)
(* cp.async of NVIDIA GPUs (cute.copy of a CopyG2SOp, cp_async_commit_     *)
(* group, cp_async_wait_group): a thread issues copies to shared memory,   *)
(* closes them in groups, and waits until all but its last n groups have   *)
(* landed.  The copies are hardware; modelled is the part of the contract  *)
(* the kernels rely on.  A copy may land at any time after it is issued,   *)
(* so that a buffer with a copy under way holds nothing one can rely on;   *)
(* it is only once a wait has covered the copy that its bytes are there.   *)
(*                                                                         *)
(* A queue is the sequence of a warp's groups that no wait has covered     *)
(* yet, a group a set of pairs of a buffer and what is copied into it.     *)
(***************************************************************************)
EXTENDS Integers, Sequences

(* cp_async_commit_group *)
Commit(queue, group) == Append(queue, group)

(* cp_async_wait_group(n): what has landed then, and what is left. *)
NumLanded(queue, n) == IF Len(queue) > n THEN Len(queue) - n ELSE 0
Landed(queue, n)    == UNION {queue[i] : i \in 1 .. NumLanded(queue, n)}
Left(queue, n)      == SubSeq(queue, NumLanded(queue, n) + 1, Len(queue))

(* No copy into the buffer is under way. *)
Quiet(queue, buffer) == \A i \in DOMAIN queue : \A copy \in queue[i] : copy[1] # buffer
=============================================================================
