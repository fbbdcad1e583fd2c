-------------------------- MODULE LaunchConfigCache --------------------------
(***************************************************************************)
(* LaunchConfigCache of triton/launch_template.py: the launch              *)
(* configurations that several processes tune and share through one JSON   *)
(* file per device, each with a copy in memory.  The file is read under a  *)
(* read lock and replaced as a whole under a write lock; a lock is waited  *)
(* for 15 seconds; a file that cannot be read or parsed counts as empty;   *)
(* processes are killed.  The file may have entries from the start, also   *)
(* ones that do not fit their key.                                         *)
(*                                                                         *)
(* Devices have files of their own, so one stands for all.  A table is     *)
(* what the JSON text says, NoConfig where it has no entry.                *)
(***************************************************************************)
EXTENDS Naturals

CONSTANTS
    Procs,      \* processes that share the cache directory
    Keys,       \* kernel specialisations: name, length buckets and flags
    Configs,    \* launch configurations
    Fitting,    \* those whose TILE_N is the one a key asks for, if it does
    NoConfig,   \* no entry
    OldFiles,   \* tables that earlier processes may have left in the file
    MaxMishaps  \* bound on kills, failed reads and writes, and timeouts

ASSUME NoConfigAssumption == NoConfig \notin Configs
ASSUME FittingAssumption == Fitting \in [Keys -> SUBSET Configs]
ASSUME KeysAssumption == Keys # {}
ASSUME CacheBounds == MaxMishaps \in Nat

Tables == [Keys -> Configs \cup {NoConfig}]

ASSUME OldFilesAssumption == OldFiles \subseteq Tables

VARIABLES
    file,     \* the table in the JSON file
    locked,   \* the lock each process holds: "no", "read" or "write"
    pc,       \* where its call of get or put is
    key,      \* the key of that call
    config,   \* the configuration put stores, or get has found
    copy,     \* the table it read under the lock
    loaded,   \* the processes whose _memory has a table for the device
    memory,   \* that table
    mishaps, misreads

shared == <<file, locked>>
bounds == <<mishaps, misreads>>
cacheVars == <<shared, pc, key, config, copy, loaded, memory, bounds>>

Empty == [k \in Keys |-> NoConfig]

(* What get answers from a table: an entry that does not fit is none. *)
Found(table, k) == IF table[k] \in Fitting[k] THEN table[k] ELSE NoConfig

(* What a local variable holds between calls. *)
AnyKey == CHOOSE k \in Keys : TRUE

InitCache ==
    /\ file \in OldFiles
    /\ locked = [p \in Procs |-> "no"]
    /\ pc = [p \in Procs |-> "idle"]
    /\ key = [p \in Procs |-> AnyKey]
    /\ config = [p \in Procs |-> NoConfig]
    /\ copy = [p \in Procs |-> Empty]
    /\ loaded = {}
    /\ memory = [p \in Procs |-> Empty]
    /\ mishaps = 0 /\ misreads = 0

Goto(p, label) == pc' = [pc EXCEPT ![p] = label]
Answer(p, c) == Goto(p, "done") /\ config' = [config EXCEPT ![p] = c]

-----------------------------------------------------------------------------
(* ReadWriteLock *)

AcquireRead(p) ==
    /\ \A q \in Procs : locked[q] # "write"
    /\ locked' = [locked EXCEPT ![p] = "read"]

(* Mutated form: the writer lets readers in, and other writers with them. *)
AcquireWriteShared(p) ==
    /\ \A q \in Procs : locked[q] # "read"
    /\ locked' = [locked EXCEPT ![p] = "write"]

AcquireWrite(p) ==
    /\ \A q \in Procs : locked[q] = "no"
    /\ locked' = [locked EXCEPT ![p] = "write"]

(* Mutated form: a failed write leaves the lock behind. *)
UnlockOnSuccess(p) ==
    locked' = IF pc[p] = "write" THEN locked ELSE [locked EXCEPT ![p] = "no"]

Unlock(p) == locked' = [locked EXCEPT ![p] = "no"]

-----------------------------------------------------------------------------
(* get, _load_device *)

StartGet(p, k) ==
    /\ pc[p] = "idle"
    /\ key' = [key EXCEPT ![p] = k]
    /\ IF p \in loaded
       THEN Answer(p, Found(memory[p], k))
       ELSE Goto(p, "wait read") /\ UNCHANGED config
    /\ UNCHANGED <<shared, copy, loaded, memory, bounds>>

LockForGet(p) ==
    /\ pc[p] = "wait read"
    /\ AcquireRead(p)
    /\ Goto(p, "read")
    /\ UNCHANGED <<file, key, config, copy, loaded, memory, bounds>>

(* _read_unlocked, of get or of put: if the file cannot be opened or       *)
(* parsed, or lacks a field, the result is an empty table.                 *)
ReadFile(p) ==
    /\ copy' = [copy EXCEPT ![p] = file]
    /\ UNCHANGED <<mishaps, misreads>>

ReadFails(p) ==
    /\ mishaps < MaxMishaps
    /\ copy' = [copy EXCEPT ![p] = Empty]
    /\ mishaps' = mishaps + 1
    /\ misreads' = misreads + 1

(* Mutated form: put starts from the table in memory. *)
ReadFromMemory(p) ==
    /\ \/ pc[p] = "read" /\ Goto(p, "keep") /\ copy' = [copy EXCEPT ![p] = file]
       \/ pc[p] = "read back" /\ Goto(p, "write")
          /\ copy' = [copy EXCEPT ![p] = memory[p]]
    /\ UNCHANGED <<shared, key, config, loaded, memory, bounds>>

ReadUnlocked(p) ==
    /\ \/ pc[p] = "read" /\ Goto(p, "keep")
       \/ pc[p] = "read back" /\ Goto(p, "write")
    /\ ReadFile(p) \/ ReadFails(p)
    /\ UNCHANGED <<shared, key, config, loaded, memory>>

(* The lock goes and _memory gets the table.  Nobody else sees _memory and  *)
(* the table is in copy already, so that the two are one step.             *)
FinishGet(p) ==
    /\ pc[p] = "keep"
    /\ Unlock(p)
    /\ loaded' = loaded \cup {p}
    /\ memory' = [memory EXCEPT ![p] = copy[p]]
    /\ Answer(p, Found(copy[p], key[p]))
    /\ copy' = [copy EXCEPT ![p] = Empty]
    /\ UNCHANGED <<file, key, bounds>>

-----------------------------------------------------------------------------
(* put *)

StartPut(p, k, c) ==
    /\ pc[p] = "idle"
    /\ key' = [key EXCEPT ![p] = k]
    /\ config' = [config EXCEPT ![p] = c]
    /\ Goto(p, IF c \notin Fitting[k] \/ (p \in loaded /\ memory[p][k] = c)
               THEN "done" ELSE "wait write")
    /\ UNCHANGED <<shared, copy, loaded, memory, bounds>>

LockForPut(p) ==
    /\ pc[p] = "wait write"
    /\ AcquireWrite(p)
    /\ Goto(p, "read back")
    /\ UNCHANGED <<file, key, config, copy, loaded, memory, bounds>>

(* disk_cache[key] = config; _write_unlocked up to os.replace *)
WriteTemporary(p) ==
    /\ pc[p] = "write"
    /\ copy' = [copy EXCEPT ![p][key[p]] = config[p]]
    /\ Goto(p, "replace")
    /\ UNCHANGED <<shared, key, config, loaded, memory, bounds>>

(* An exception under the lock gives it back and goes to the caller: of    *)
(* the write, whose temporary file is unlinked, or of a read, if it is of  *)
(* a kind that _read_unlocked does not catch.                              *)
RaisesUnderLock(p) ==
    /\ pc[p] \in {"read", "read back", "write"}
    /\ mishaps < MaxMishaps
    /\ mishaps' = mishaps + 1
    /\ Unlock(p)
    /\ Goto(p, "raised")
    /\ copy' = [copy EXCEPT ![p] = Empty]
    /\ UNCHANGED <<file, key, config, loaded, memory, misreads>>

Replace(p) ==
    /\ pc[p] = "replace"
    /\ file' = copy[p]
    /\ Goto(p, "unlock")
    /\ UNCHANGED <<locked, key, config, copy, loaded, memory, bounds>>

(* As in FinishGet. *)
FinishPut(p) ==
    /\ pc[p] = "unlock"
    /\ Unlock(p)
    /\ loaded' = loaded \cup {p}
    /\ memory' = [memory EXCEPT ![p] = copy[p]]
    /\ Goto(p, "done")
    /\ copy' = [copy EXCEPT ![p] = Empty]
    /\ UNCHANGED <<file, key, config, bounds>>

-----------------------------------------------------------------------------
TimeOut(p) ==
    /\ pc[p] \in {"wait read", "wait write"}
    /\ mishaps < MaxMishaps
    /\ mishaps' = mishaps + 1
    /\ Goto(p, "raised")
    /\ UNCHANGED <<shared, key, config, copy, loaded, memory, misreads>>

(* clear: this process forgets its tables; the file stays. *)
Clear(p) ==
    /\ pc[p] = "idle"
    /\ loaded' = loaded \ {p}
    /\ memory' = [memory EXCEPT ![p] = Empty]
    /\ UNCHANGED <<shared, pc, key, config, copy, bounds>>

(* The process dies at any point, and with it its lock; a new one starts. *)
Kill(p) ==
    /\ mishaps < MaxMishaps
    /\ mishaps' = mishaps + 1
    /\ Goto(p, "idle")
    /\ Unlock(p)
    /\ loaded' = loaded \ {p}
    /\ memory' = [memory EXCEPT ![p] = Empty]
    /\ key' = [key EXCEPT ![p] = AnyKey]
    /\ config' = [config EXCEPT ![p] = NoConfig]
    /\ copy' = [copy EXCEPT ![p] = Empty]
    /\ UNCHANGED <<file, misreads>>

(* What get or put does once it was called. *)
CacheWork(p) ==
    \/ LockForGet(p) \/ ReadUnlocked(p) \/ FinishGet(p)
    \/ LockForPut(p) \/ WriteTemporary(p) \/ RaisesUnderLock(p)
    \/ Replace(p) \/ FinishPut(p)

(* The caller goes on with the answer or with the exception. *)
Return(p) ==
    /\ pc[p] \in {"done", "raised"}
    /\ Goto(p, "idle")
    /\ key' = [key EXCEPT ![p] = AnyKey]
    /\ config' = [config EXCEPT ![p] = NoConfig]
    /\ UNCHANGED <<shared, copy, loaded, memory, bounds>>

CacheStep(p) ==
    \/ \E k \in Keys : StartGet(p, k)
    \/ \E k \in Keys, c \in Configs : StartPut(p, k, c)
    \/ CacheWork(p) \/ TimeOut(p) \/ Clear(p) \/ Kill(p) \/ Return(p)

CacheNext == \E p \in Procs : CacheStep(p)
CacheSpec == InitCache /\ [][CacheNext]_cacheVars

-----------------------------------------------------------------------------
Labels == {"idle", "wait read", "read", "keep", "wait write", "read back",
           "write", "replace", "unlock", "done", "raised"}

Reading == {"read", "keep"}
Writing == {"read back", "write", "replace", "unlock"}

(* Types; and the lock is held in the steps under it and in no other.      *)
CacheTypeOK ==
    /\ file \in Tables
    /\ locked \in [Procs -> {"no", "read", "write"}]
    /\ pc \in [Procs -> Labels]
    /\ key \in [Procs -> Keys]
    /\ config \in [Procs -> Configs \cup {NoConfig}]
    /\ copy \in [Procs -> Tables]
    /\ loaded \in SUBSET Procs
    /\ memory \in [Procs -> Tables]
    /\ mishaps \in Nat /\ misreads \in Nat
    /\ \A p \in Procs : locked[p] = IF pc[p] \in Reading THEN "read"
                                   ELSE IF pc[p] \in Writing THEN "write" ELSE "no"

(* Between reading the file back and replacing it a process is alone: the  *)
(* temporary file that replaces it is made from its content                *)
(* (launch_template.py, put).                                              *)
WriterAlone ==
    \A p, q \in Procs :
        p # q /\ pc[p] \in Writing => pc[q] \notin Reading \cup Writing

(* Storing a configuration changes no other kernel's entry, whatever other *)
(* processes store meanwhile, unless the file could not be read back:      *)
(* read, change and replace are one step under the write lock              *)
(* (launch_template.py, put).                                              *)
OthersStay ==
    [][misreads = 0 =>
           \A k \in Keys : file'[k] # file[k] =>
               \E p \in Procs : locked[p] = "write" /\ key[p] = k]_file

(* What a process answers from memory is in the file, maybe with a newer   *)
(* configuration, as long as every read succeeded: an entry never leaves   *)
(* the file behind the back of those who loaded it (_load_device and put   *)
(* keep what they read for good).                                          *)
MemoryIsBacked ==
    misreads = 0 =>
        \A p \in loaded, k \in Keys : memory[p][k] # NoConfig => file[k] # NoConfig
=============================================================================
