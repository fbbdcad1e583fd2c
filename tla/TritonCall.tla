------------------------------ MODULE TritonCall ------------------------------
(***************************************************************************)
(* The host side of a Triton attention call (_flash_*_attn_forward,        *)
(* _decode and _backward, with their varlen forms), composed with the      *)
(* cache of launch configurations: look the configuration up, allocate,    *)
(* clear and preprocess with its tile, launch the kernel or let Triton's   *)
(* autotuner find a configuration by launching it again and again, store   *)
(* what was found, and merge, postprocess and return the results.          *)
(*                                                                         *)
(* An array is the sequence of the launches whose results it holds, each   *)
(* named by its tile: a kernel that stores leaves the last launch only,    *)
(* one that adds leaves all of them.  Cuts: values; the arrays of one call *)
(* that play the same part are one.                                        *)
(***************************************************************************)
EXTENDS LaunchConfigCache, Sequences

CONSTANTS
    Tile,        \* TILE_M of each configuration
    Placeholder, \* TILE_M of the computations before a launch that tunes
    JobSets,     \* sets of calls; Init picks one that the processes make
    MaxCalls     \* bound on the calls made by all processes

ASSUME TileAssumption == Tile \in [Configs -> Nat \ {0}] /\ Placeholder \in Nat \ {0}
ASSUME CallBound == MaxCalls \in Nat

VARIABLES
    jobs,     \* the calls that are made: key of the cache, key of the
              \* autotuner, and what the kernel does
    at,       \* where the call of each process is
    job,      \* the call it makes
    tuning,   \* whether it has no configuration and lets the autotuner choose
    tile,     \* TILE_M the host computes with
    array,    \* the arrays the kernel writes
    tried,    \* configurations the autotuner has launched in this call
    best,     \* the autotuner's choice per process and key
    calls

hostVars == <<jobs, at, job, tuning, tile, array, tried, best, calls>>
vars == <<cacheVars, hostVars>>

(* Content of memory that was allocated and not cleared; no tile has no rows. *)
Junk == <<0>>

-----------------------------------------------------------------------------
(* What the host functions allocate and their kernels write: the arrays    *)
(* the kernel stores, those it adds to with atomics, those of the latter   *)
(* that the host allocates as zeros, and whether the preprocess kernel     *)
(* clears dq.  A varlen call aligns the start of each sequence in the      *)
(* padded arrays to the tile.                                              *)

(* split: the kernel writes partial results, which another one combines.   *)
Forward(split) ==
    [stores |-> IF split THEN {"out_partial", "lse_partial"} ELSE {"out", "lse"},
     adds |-> {}, zeros |-> {}, padded |-> {}]

DenseForward(split) == Forward(split)
DenseVarlenForward(split) == Forward(split)
SparseForward(split) == Forward(split)
SparseVarlenForward(split) == Forward(split)
GatedForward(split) ==
    [Forward(split) EXCEPT !.zeros = {"out", "lse"} \ {x \in {"out", "lse"} : split}]
GatedVarlenForward(split) ==
    [Forward(split) EXCEPT !.zeros = {"out"} \ {x \in {"out"} : split}]

(* Decoding always combines, be it one split. *)
DenseDecode == Forward(TRUE)
DenseVarlenDecode == Forward(TRUE)
SparseDecode == Forward(TRUE)
SparseVarlenDecode == Forward(TRUE)
GatedDecode == Forward(TRUE)
GatedVarlenDecode == Forward(TRUE)

(* grouped: query heads share a key head, and add to its gradients. *)
Backward(grouped) ==
    [stores |-> {"dk", "dv"} \ {x \in {"dk", "dv"} : grouped},
     adds   |-> {"dq"} \cup {x \in {"dk", "dv"} : grouped},
     zeros  |-> {"dk", "dv"},
     padded |-> {}]

DenseBackward(grouped) == Backward(grouped)
SparseBackward(grouped) == Backward(grouped)
GatedBackward(grouped) ==
    [stores |-> {"dk", "dv", "dd"} \ {x \in {"dk", "dv", "dd"} : grouped},
     adds   |-> {"dq", "da"} \cup {x \in {"dk", "dv", "dd"} : grouped},
     zeros  |-> {"dk", "dv", "da", "dd"},
     padded |-> {}]

DenseVarlenBackward(grouped) == [DenseBackward(grouped) EXCEPT !.padded = {"dq"}]
SparseVarlenBackward(grouped) == [SparseBackward(grouped) EXCEPT !.padded = {"dq"}]
GatedVarlenBackward(grouped) == [GatedBackward(grouped) EXCEPT !.padded = {"dq", "da"}]

Arrays(k) == k.stores \cup k.adds

(* _bwd_preprocess_kernel clears dq_accum, in the layout of its own tile. *)
Preprocessed == {"dq"}

(* What a kernel adds to is cleared by the host or by the preprocess. *)
ASSUME JobsAssumption ==
    \A js \in JobSets :
        /\ js # {}
        /\ \A j \in js :
               /\ j.key \in Keys
               /\ j.kernel.adds \subseteq j.kernel.zeros \cup Preprocessed
               /\ j.kernel.stores \cap j.kernel.adds = {}

TunerKeys == {j.tuner : j \in UNION JobSets}

Init ==
    /\ InitCache
    /\ jobs \in JobSets
    /\ at = [p \in Procs |-> "idle"]
    /\ job = [p \in Procs |-> CHOOSE j \in jobs : TRUE]
    /\ tuning = [p \in Procs |-> FALSE]
    /\ tile = [p \in Procs |-> Placeholder]
    /\ array = [p \in Procs |-> <<>>]
    /\ tried = [p \in Procs |-> {}]
    /\ best = [p \in Procs |-> [t \in TunerKeys |-> NoConfig]]
    /\ calls = 0

Step(p, label) == at' = [at EXCEPT ![p] = label]

Begin(p, j) ==
    /\ at[p] = "idle" /\ calls < MaxCalls
    /\ job' = [job EXCEPT ![p] = j]
    /\ calls' = calls + 1

-----------------------------------------------------------------------------
(* is_autotune: ask the cache. *)
CallTuned(p, j) ==
    /\ Begin(p, j)
    /\ StartGet(p, j.key)
    /\ Step(p, "lookup")
    /\ UNCHANGED <<jobs, tuning, tile, array, tried, best>>

(* Not is_autotune: the caller's tile, or the default, which is the same as *)
(* the placeholder and stands for both.                                    *)
CallTiled(p, j) ==
    /\ Begin(p, j)
    /\ Step(p, "prepare")
    /\ UNCHANGED <<cacheVars, jobs, tuning, tile, array, tried, best>>

TakeConfig(p) ==
    /\ at[p] = "lookup" /\ pc[p] = "done"
    /\ Return(p)
    /\ tuning' = [tuning EXCEPT ![p] = config[p] = NoConfig]
    /\ tile' = [tile EXCEPT ![p] =
           IF config[p] = NoConfig THEN Placeholder ELSE Tile[config[p]]]
    /\ Step(p, "prepare")
    /\ UNCHANGED <<jobs, job, array, tried, best, calls>>

(* The locals of a call go with it. *)
Leave(p) ==
    /\ Step(p, "idle")
    /\ job' = [job EXCEPT ![p] = CHOOSE j \in jobs : TRUE]
    /\ tuning' = [tuning EXCEPT ![p] = FALSE]
    /\ tile' = [tile EXCEPT ![p] = Placeholder]
    /\ array' = [array EXCEPT ![p] = <<>>]
    /\ tried' = [tried EXCEPT ![p] = {}]

(* An exception of the cache leaves the call, from whichever side. *)
CacheRaises(p) ==
    /\ at[p] \in {"lookup", "storing"} /\ pc[p] = "raised"
    /\ Return(p)
    /\ Leave(p)
    /\ UNCHANGED <<jobs, best, calls>>

(* Mutated form: dq_accum is allocated, and not cleared by anyone. *)
PrepareUncleared(p) ==
    /\ at[p] = "prepare"
    /\ array' = [array EXCEPT ![p] =
           [a \in Arrays(job[p].kernel) |->
               IF a \in job[p].kernel.zeros THEN <<>> ELSE Junk]]
    /\ tried' = [tried EXCEPT ![p] = {}]
    /\ Step(p, "launch")
    /\ UNCHANGED <<cacheVars, jobs, job, tuning, tile, best, calls>>

(* Allocation, and the preprocess kernel of the backward. *)
Prepare(p) ==
    /\ at[p] = "prepare"
    /\ array' = [array EXCEPT ![p] =
           [a \in Arrays(job[p].kernel) |->
               IF a \in job[p].kernel.zeros \cup Preprocessed THEN <<>> ELSE Junk]]
    /\ tried' = [tried EXCEPT ![p] = {}]
    /\ Step(p, "launch")
    /\ UNCHANGED <<cacheVars, jobs, job, tuning, tile, best, calls>>

(* One launch with tiles of t rows. *)
Pass(p, t) ==
    array' = [array EXCEPT ![p] =
        [a \in DOMAIN array[p] |->
            IF a \in job[p].kernel.adds THEN Append(array[p][a], t) ELSE <<t>>]]

(* kernel[grid](...) with a configuration. *)
Launch(p) ==
    /\ at[p] = "launch" /\ ~tuning[p]
    /\ Pass(p, tile[p])
    /\ Step(p, "finish")
    /\ UNCHANGED <<cacheVars, jobs, job, tuning, tile, tried, best, calls>>

(* The autotuner times a configuration by launching the kernel with it, on *)
(* the arrays of the call: neither reset_to_zero nor restore_value is      *)
(* given to it.  The configurations it has been made with all fit the key. *)
Trial(p, c) ==
    /\ at[p] = "launch" /\ tuning[p] /\ best[p][job[p].tuner] = NoConfig
    /\ c \in Fitting[job[p].key] \ tried[p]
    /\ Pass(p, Tile[c])
    /\ tried' = [tried EXCEPT ![p] = @ \cup {c}]
    /\ UNCHANGED <<cacheVars, jobs, at, job, tuning, tile, best, calls>>

(* It has a choice, now or from an earlier call, and launches it. *)
LaunchBest(p, c) ==
    /\ at[p] = "launch" /\ tuning[p]
    /\ IF best[p][job[p].tuner] = NoConfig THEN c \in tried[p] ELSE c = best[p][job[p].tuner]
    /\ Pass(p, Tile[c])
    /\ best' = [best EXCEPT ![p][job[p].tuner] = c]
    /\ Step(p, "store")
    /\ UNCHANGED <<cacheVars, jobs, job, tuning, tile, tried, calls>>

(* extract_best_config, store_launch_config *)
Store(p) ==
    /\ at[p] = "store"
    /\ StartPut(p, job[p].key, best[p][job[p].tuner])
    /\ Step(p, "storing")
    /\ UNCHANGED <<jobs, job, tuning, tile, array, tried, best, calls>>

Stored(p) ==
    /\ at[p] = "storing" /\ pc[p] = "done"
    /\ Return(p)
    /\ Step(p, "finish")
    /\ UNCHANGED <<jobs, job, tuning, tile, array, tried, best, calls>>

(* Combine, postprocess, sums over splits, and the return. *)
Finish(p) ==
    /\ at[p] = "finish"
    /\ Leave(p)
    /\ UNCHANGED <<cacheVars, jobs, best, calls>>

(* The process dies: the autotuner's choices go with it. *)
Die(p) ==
    /\ Kill(p)
    /\ Leave(p)
    /\ best' = [best EXCEPT ![p] = [t \in TunerKeys |-> NoConfig]]
    /\ UNCHANGED <<jobs, calls>>

(* clear, called by the user between calls. *)
Forget(p) ==
    /\ at[p] = "idle"
    /\ Clear(p)
    /\ UNCHANGED hostVars

CacheWorks(p) == CacheWork(p) /\ UNCHANGED hostVars
LockTimesOut(p) == TimeOut(p) /\ UNCHANGED hostVars

HostWork(p) ==
    \/ TakeConfig(p) \/ CacheRaises(p) \/ Prepare(p) \/ Launch(p)
    \/ \E c \in Configs : Trial(p, c) \/ LaunchBest(p, c)
    \/ Store(p) \/ Stored(p) \/ Finish(p)

Next == \E p \in Procs :
    \/ \E j \in jobs : CallTuned(p, j) \/ CallTiled(p, j)
    \/ HostWork(p) \/ CacheWorks(p) \/ LockTimesOut(p) \/ Die(p) \/ Forget(p)

Spec == Init /\ [][Next]_vars

(* A process inside a call goes on; whether it calls again is free. *)
FairSpec == Spec /\ \A p \in Procs : WF_vars(HostWork(p)) /\ WF_vars(CacheWorks(p))

-----------------------------------------------------------------------------
TypeOK ==
    /\ CacheTypeOK
    /\ at \in [Procs -> {"idle", "lookup", "prepare", "launch", "store", "storing", "finish"}]
    /\ \A p \in Procs : job[p] \in jobs /\ tile[p] \in Nat /\ tried[p] \subseteq Configs

(* The call leaves in each array what one launch computed, in the layout   *)
(* that the host reads it in.                                              *)
HoldsOneLaunch(p) ==
    \A a \in Arrays(job[p].kernel) :
        /\ Len(array[p][a]) = 1 /\ array[p][a] # Junk
        /\ a \in job[p].kernel.padded => array[p][a] = <<tile[p]>>

(* Every call returns the result of one launch: the gradients the tests    *)
(* compare with the reference (tests/test_utils.py, run_backward_case).    *)
ReturnsOneLaunch == \A p \in Procs : at[p] = "finish" => HoldsOneLaunch(p)

(* A call that did not tune returns the result of one launch: buffers are  *)
(* cleared once, in the layout that the kernel adds to and the postprocess *)
(* reads, whoever tuned the configuration, with whatever kernel variant.   *)
UntunedReturnsOneLaunch ==
    \A p \in Procs : at[p] = "finish" /\ ~tuning[p] => HoldsOneLaunch(p)

(* Every call ends, with a result or an exception, unless the process is   *)
(* killed: nobody leaves a lock behind that others wait for.               *)
CallsReturn == \A p \in Procs : at[p] # "idle" ~> at[p] = "idle"

(* The host does with the cache what any caller may do. *)
UsesCache == CacheSpec
=============================================================================
