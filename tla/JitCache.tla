------------------------------ MODULE JitCache ------------------------------
(***************************************************************************)
(* JITPersistentCache of cute/cache_utils.py for one compile key: several  *)
(* processes that share a cache directory look a kernel up, load it from   *)
(* the directory under a shared file lock, or compile it and export it     *)
(* under an exclusive one, while processes are killed, exports raise and   *)
(* the directory is cleared.                                               *)
(*                                                                         *)
(* Keys have files of their own, so one key stands for any number.  A lock *)
(* belongs to an inode and not to a path: lockFile numbers the files that  *)
(* have been behind the lock path, 0 when there is none.                   *)
(*                                                                         *)
(* A name that LaunchConfigCache or TritonCall has as well begins with Jit *)
(* here, so that CacheProofs can extend them all.                          *)
(***************************************************************************)
EXTENDS Naturals

CONSTANTS
    Processes,    \* processes that share the directory
    Nobody,       \* no process
    MaxCrashes,   \* bound on processes killed
    MaxFailures,  \* bound on exports that raise
    MaxClears     \* bound on calls of clear()

ASSUME NobodyAssumption == Nobody \notin Processes
ASSUME BoundsAssumption ==
    MaxCrashes \in Nat /\ MaxFailures \in Nat /\ MaxClears \in Nat

VARIABLES
    \* the directory
    lockFile,  \* number of the file at _lock_path, 0 if there is none
    lockFiles, \* number of lock files created so far
    obj,       \* the object file: "absent", "partial" or "whole"
    writer,    \* the process whose export the object file is, while it lasts
    \* the processes
    jitPc,     \* where each one is
    mem,       \* whether JITCache.cache holds the function
    fd,        \* the lock file each one has open, 0 for none
    held,      \* the lock it holds on that file
    todo,      \* files clear() has listed and not yet unlinked
    \* what happens around them
    slow,      \* whether a wait for a lock can last LOCK_TIMEOUT_SECONDS
    crashes, failures, clears

dirVars   == <<lockFile, lockFiles, obj, writer>>
boundVars == <<slow, crashes, failures, clears>>
jitVars   == <<dirVars, jitPc, mem, fd, held, todo, boundVars>>

JitInit ==
    /\ lockFile = 0 /\ lockFiles = 0
    /\ obj = "absent" /\ writer = Nobody
    /\ jitPc = [p \in Processes |-> "idle"]
    /\ mem = [p \in Processes |-> FALSE]
    /\ fd = [p \in Processes |-> 0]
    /\ held = [p \in Processes |-> "none"]
    /\ todo = [p \in Processes |-> {}]
    /\ slow \in BOOLEAN
    /\ crashes = 0 /\ failures = 0 /\ clears = 0

JitGoto(p, label) == jitPc' = [jitPc EXCEPT ![p] = label]

-----------------------------------------------------------------------------
(* FileLock *)

(* The open of __enter__ creates the lock file if need be. *)
OpenLock(p) ==
    LET file == IF lockFile = 0 THEN lockFiles + 1 ELSE lockFile
    IN  /\ lockFile' = file
        /\ lockFiles' = IF lockFile = 0 THEN file ELSE lockFiles
        /\ fd' = [fd EXCEPT ![p] = file]

(* flock: shared locks on one file go together, an exclusive one does not. *)
Compatible(p, kind) ==
    \A q \in Processes \ {p} :
        \/ held[q] = "none"
        \/ fd[q] # fd[p]
        \/ kind = "shared" /\ held[q] = "shared"

Acquire(p, kind) ==
    /\ Compatible(p, kind)
    /\ held' = [held EXCEPT ![p] = kind]

(* Mutated form: the descriptor leaks with its lock. *)
ReleaseForgotten(p) == UNCHANGED <<fd, held>>

(* __exit__, and the end of a process. *)
Release(p) ==
    /\ fd' = [fd EXCEPT ![p] = 0]
    /\ held' = [held EXCEPT ![p] = "none"]

-----------------------------------------------------------------------------
(* The caller: `if key not in cache: cache[key] = compile()`, `cache[key]()`. *)
Lookup(p) ==
    /\ jitPc[p] = "idle"
    /\ IF mem[p]
       THEN JitGoto(p, "call") /\ UNCHANGED <<lockFile, lockFiles, fd>>
       ELSE JitGoto(p, "shared") /\ OpenLock(p)
    /\ UNCHANGED <<obj, writer, mem, held, todo, boundVars>>

(* _try_load_from_storage *)
LockShared(p) ==
    /\ jitPc[p] = "shared"
    /\ Acquire(p, "shared")
    /\ JitGoto(p, "find")
    /\ UNCHANGED <<dirVars, mem, fd, todo, boundVars>>

Find(p) ==
    /\ jitPc[p] = "find"
    /\ IF obj = "absent"
       THEN JitGoto(p, "compile") /\ Release(p)
       ELSE JitGoto(p, "load") /\ UNCHANGED <<fd, held>>
    /\ UNCHANGED <<dirVars, mem, todo, boundVars>>

(* A whole object gives the function; another one makes load_module raise. *)
Load(p) ==
    /\ jitPc[p] = "load"
    /\ IF obj = "whole"
       THEN mem' = [mem EXCEPT ![p] = TRUE] /\ JitGoto(p, "call")
       ELSE UNCHANGED mem /\ JitGoto(p, "idle")
    /\ Release(p)
    /\ UNCHANGED <<dirVars, todo, boundVars>>

(* cute.compile, then __setitem__, memory first. *)
Compile(p) ==
    /\ jitPc[p] = "compile"
    /\ mem' = [mem EXCEPT ![p] = TRUE]
    /\ OpenLock(p)
    /\ JitGoto(p, "exclusive")
    /\ UNCHANGED <<obj, writer, held, todo, boundVars>>

(* Mutated form: the export takes a shared lock as well. *)
LockExclusiveShared(p) ==
    /\ jitPc[p] = "exclusive"
    /\ Acquire(p, "shared")
    /\ JitGoto(p, "check")
    /\ UNCHANGED <<dirVars, mem, fd, todo, boundVars>>

(* _try_export_to_storage *)
LockExclusive(p) ==
    /\ jitPc[p] = "exclusive"
    /\ Acquire(p, "exclusive")
    /\ JitGoto(p, "check")
    /\ UNCHANGED <<dirVars, mem, fd, todo, boundVars>>

(* Mutated form: the object is written even if it is there. *)
CheckNothing(p) ==
    /\ jitPc[p] = "check"
    /\ JitGoto(p, "start")
    /\ UNCHANGED <<dirVars, mem, fd, held, todo, boundVars>>

(* Skip the export if the object is there. *)
Check(p) ==
    /\ jitPc[p] = "check"
    /\ IF obj # "absent"
       THEN JitGoto(p, "call") /\ Release(p)
       ELSE JitGoto(p, "start") /\ UNCHANGED <<fd, held>>
    /\ UNCHANGED <<dirVars, mem, todo, boundVars>>

(* export_to_c opens the file, over what may have come there meanwhile. *)
StartExport(p) ==
    /\ jitPc[p] = "start"
    /\ obj' = "partial" /\ writer' = p
    /\ JitGoto(p, "export")
    /\ UNCHANGED <<lockFile, lockFiles, mem, fd, held, todo, boundVars>>

(* It raises, before it opened the file or later: what it wrote stays, the *)
(* lock is given back, the function is in memory, and the call ends.       *)
ExportRaises(p) ==
    /\ jitPc[p] \in {"start", "export"}
    /\ failures < MaxFailures
    /\ failures' = failures + 1
    /\ writer' = IF writer = p THEN Nobody ELSE writer
    /\ Release(p)
    /\ JitGoto(p, "idle")
    /\ UNCHANGED <<lockFile, lockFiles, obj, mem, todo, slow, crashes, clears>>

(* Mutated form: the lock is dropped while the object is still written. *)
ReleaseBeforeExport(p) ==
    /\ jitPc[p] = "export"
    /\ IF held[p] = "none"
       THEN /\ IF writer = p THEN obj' = "whole" /\ writer' = Nobody
                              ELSE UNCHANGED <<obj, writer>>
            /\ JitGoto(p, "call") /\ UNCHANGED <<fd, held>>
       ELSE Release(p) /\ UNCHANGED <<jitPc, obj, writer>>
    /\ UNCHANGED <<lockFile, lockFiles, mem, todo, boundVars>>

(* The export is complete: of a file that may have been unlinked. *)
Export(p) ==
    /\ jitPc[p] = "export"
    /\ IF writer = p THEN obj' = "whole" /\ writer' = Nobody
                     ELSE UNCHANGED <<obj, writer>>
    /\ Release(p)
    /\ JitGoto(p, "call")
    /\ UNCHANGED <<lockFile, lockFiles, mem, todo, boundVars>>

Call(p) ==
    /\ jitPc[p] = "call"
    /\ JitGoto(p, "idle")
    /\ UNCHANGED <<dirVars, mem, fd, held, todo, boundVars>>

(* The wait for a lock raises after LOCK_TIMEOUT_SECONDS. *)
JitTimeOut(p) ==
    /\ slow
    /\ jitPc[p] \in {"shared", "exclusive"}
    /\ Release(p)
    /\ JitGoto(p, "idle")
    /\ UNCHANGED <<dirVars, mem, todo, boundVars>>

-----------------------------------------------------------------------------
(* clear(): empty the memory, list the directory, unlink what was listed.  *)
JitClear(p) ==
    /\ jitPc[p] = "idle"
    /\ clears < MaxClears
    /\ clears' = clears + 1
    /\ mem' = [mem EXCEPT ![p] = FALSE]
    /\ todo' = [todo EXCEPT ![p] =
                  {f \in {"lock", "obj"} :
                     \/ f = "lock" /\ lockFile # 0
                     \/ f = "obj" /\ obj # "absent"}]
    /\ JitGoto(p, "clear")
    /\ UNCHANGED <<dirVars, fd, held, slow, crashes, failures>>

UnlinkLock(p) ==
    /\ "lock" \in todo[p]
    /\ lockFile # 0
    /\ lockFile' = 0
    /\ todo' = [todo EXCEPT ![p] = @ \ {"lock"}]
    /\ UNCHANGED <<obj, writer, jitPc>>

UnlinkObj(p) ==
    /\ "obj" \in todo[p]
    /\ obj # "absent"
    /\ obj' = "absent" /\ writer' = Nobody
    /\ todo' = [todo EXCEPT ![p] = @ \ {"obj"}]
    /\ UNCHANGED <<lockFile, jitPc>>

(* Somebody else has unlinked the file: unlink raises, the rest stays. *)
UnlinkMissing(p) ==
    /\ \/ "lock" \in todo[p] /\ lockFile = 0
       \/ "obj" \in todo[p] /\ obj = "absent"
    /\ todo' = [todo EXCEPT ![p] = {}]
    /\ JitGoto(p, "idle")
    /\ UNCHANGED <<lockFile, obj, writer>>

ClearDone(p) ==
    /\ todo[p] = {}
    /\ JitGoto(p, "idle")
    /\ UNCHANGED <<lockFile, obj, writer, todo>>

Unlink(p) ==
    /\ jitPc[p] = "clear"
    /\ UnlinkLock(p) \/ UnlinkObj(p) \/ UnlinkMissing(p) \/ ClearDone(p)
    /\ UNCHANGED <<lockFiles, mem, fd, held, boundVars>>

(* The process is killed and started again: its locks and its memory are   *)
(* gone, what it wrote stays.                                              *)
Crash(p) ==
    /\ jitPc[p] # "idle"
    /\ crashes < MaxCrashes
    /\ crashes' = crashes + 1
    /\ mem' = [mem EXCEPT ![p] = FALSE]
    /\ Release(p)
    /\ writer' = IF writer = p THEN Nobody ELSE writer
    /\ todo' = [todo EXCEPT ![p] = {}]
    /\ JitGoto(p, "idle")
    /\ UNCHANGED <<lockFile, lockFiles, obj, slow, failures, clears>>

-----------------------------------------------------------------------------
(* What a process does by itself once it is in a call. *)
Work(p) ==
    \/ LockShared(p) \/ Find(p) \/ Load(p) \/ Compile(p)
    \/ LockExclusive(p) \/ Check(p) \/ StartExport(p) \/ ExportRaises(p)
    \/ Export(p) \/ Call(p)
    \/ JitTimeOut(p) \/ Unlink(p)

JitNext == \E p \in Processes : Lookup(p) \/ JitClear(p) \/ Crash(p) \/ Work(p)

JitSpec == JitInit /\ [][JitNext]_jitVars

(* A process in a call goes on: it polls its lock, compiles and writes. *)
JitFairSpec == JitSpec /\ \A p \in Processes : WF_jitVars(Work(p))

-----------------------------------------------------------------------------
JitLabels == {"idle", "shared", "find", "load", "compile", "exclusive", "check",
           "start", "export", "call", "clear"}

(* Every variable has its type, and a process holds, or waits for, a lock  *)
(* only on a file it has open.                                             *)
JitTypeOK ==
    /\ lockFiles \in Nat /\ lockFile \in 0 .. lockFiles
    /\ obj \in {"absent", "partial", "whole"}
    /\ writer \in Processes \union {Nobody}
    /\ jitPc \in [Processes -> JitLabels]
    /\ mem \in [Processes -> BOOLEAN]
    /\ fd \in [Processes -> 0 .. lockFiles]
    /\ held \in [Processes -> {"none", "shared", "exclusive"}]
    /\ todo \in [Processes -> SUBSET {"lock", "obj"}]
    /\ slow \in BOOLEAN /\ crashes \in Nat /\ failures \in Nat /\ clears \in Nat
    /\ \A p \in Processes :
          held[p] # "none" \/ jitPc[p] \in {"shared", "exclusive"} => fd[p] # 0

(* While a process looks for the object or loads it under its shared lock, *)
(* no other process is writing it: what the docstring of                   *)
(* _try_load_from_storage promises.                                        *)
LoadExcludesWrite ==
    \A p, q \in Processes :
        jitPc[p] \in {"find", "load"} => jitPc[q] # "export"

(* As long as nobody has called clear(), that is so.                       *)
UnclearedExcludesWrite == clears = 0 => LoadExcludesWrite

(* An object that exists when a process looks for it under a lock has been *)
(* exported to the end, so that it can be loaded: what the comment in      *)
(* _try_export_to_storage takes for granted.                               *)
ExistsMeansExported ==
    \A p \in Processes :
        jitPc[p] \in {"find", "load", "check"} => obj # "partial"

Undisturbed == crashes = 0 /\ failures = 0 /\ clears = 0

(* As long as no process was killed, no export raised and nobody called    *)
(* clear(), that is so.                                                    *)
UndisturbedMeansExported == Undisturbed => ExistsMeansExported

(* Without clear() nobody writes over an object that has been exported:    *)
(* every later process loads the same function.                            *)
ExportedStays == [][obj = "whole" /\ clears' = 0 => obj' = "whole"]_obj

(* Every call ends, by an answer or an exception, and gives its lock back: *)
(* no order of locks, kills and clears makes a process wait for ever.      *)
(* When every wait is short there is one exception: a process can wait for *)
(* its exclusive lock while others fail again and again to load a partial  *)
(* object that a killed process or an export that raised has left.         *)
CallsEnd ==
    \A p \in Processes :
        (jitPc[p] # "idle")
          ~> \/ jitPc[p] = "idle" /\ fd[p] = 0
             \/ ~slow /\ crashes + failures > 0

=============================================================================
