------------------------------ MODULE CacheProofs ------------------------------
(***************************************************************************)
(* Proofs about the two caches that processes share through files.         *)
(*                                                                         *)
(* LaunchConfigCache, for any number of processes, kernels,                *)
(* configurations, kills, failures and timeouts: type correctness, the     *)
(* exclusion of writers and, as long as no read fails, that no entry is    *)
(* lost from the file.  Then TritonCall, for any calls: the host           *)
(* functions use the cache as its specification allows, so that the same   *)
(* holds in every call; and what a call returns.  At the end JitCache.     *)
(***************************************************************************)
EXTENDS TritonCall, JitCache, TLAPS

(* A writer excludes everybody. *)
Locks == \A p, q \in Procs : p # q /\ locked[p] = "write" => locked[q] = "no"

(* What is on its way to the file is a configuration. *)
Storing == {"wait write", "read back", "write", "replace", "unlock"}
StoresConfigs == \A p \in Procs : pc[p] \in Storing => config[p] \in Configs

(* The copy of a process that holds the lock is the file, except for the   *)
(* entry that the process is about to change.                              *)
CopiesAgree ==
    \A p \in Procs :
        /\ pc[p] \in {"keep", "write", "unlock"} => copy[p] = file
        /\ pc[p] = "replace" => copy[p] = [file EXCEPT ![key[p]] = config[p]]

Backed == \A p \in loaded, k \in Keys : memory[p][k] # NoConfig => file[k] # NoConfig

Inv ==
    /\ CacheTypeOK /\ Locks /\ StoresConfigs
    /\ misreads = 0 => CopiesAgree /\ Backed

-----------------------------------------------------------------------------
LEMMA EmptyIsTable == Empty \in Tables
BY DEF Empty, Tables

LEMMA FoundIsConfig ==
    ASSUME NEW table \in Tables, NEW k \in Keys
    PROVE  Found(table, k) \in Configs \cup {NoConfig}
BY DEF Found, Tables

LEMMA AnyKeyIsKey == AnyKey \in Keys
BY KeysAssumption DEF AnyKey

LEMMA InitInv == InitCache => Inv
<1>. SUFFICES ASSUME InitCache PROVE Inv
  OBVIOUS
<1>1. CacheTypeOK
  BY EmptyIsTable, AnyKeyIsKey, OldFilesAssumption
  DEF InitCache, CacheTypeOK, Labels, Reading, Writing
<1>2. Locks /\ StoresConfigs /\ CopiesAgree /\ Backed
  BY DEF InitCache, Locks, StoresConfigs, Storing, CopiesAgree, Backed
<1>. QED
  BY <1>1, <1>2 DEF Inv

(* Types, one lemma per group of actions. *)
LEMMA GetTyped ==
    ASSUME CacheTypeOK, NEW p \in Procs,
           \/ \E k \in Keys : StartGet(p, k)
           \/ LockForGet(p) \/ FinishGet(p)
    PROVE  CacheTypeOK'
<1>1. CASE \E k \in Keys : StartGet(p, k)
  <2>. PICK k \in Keys : StartGet(p, k)
    BY <1>1
  <2>1. Found(memory[p], k) \in Configs \cup {NoConfig}
    BY FoundIsConfig DEF CacheTypeOK
  <2>2. key' \in [Procs -> Keys] /\ config' \in [Procs -> Configs \cup {NoConfig}]
    BY <2>1 DEF StartGet, Answer, Goto, CacheTypeOK
  <2>3. PICK label \in {"done", "wait read"} : pc[p] = "idle" /\ pc' = [pc EXCEPT ![p] = label]
    BY DEF StartGet, Answer, Goto
  <2>4. UNCHANGED <<shared, copy, loaded, memory, bounds>>
    BY DEF StartGet
  <2>5. pc' \in [Procs -> Labels]
    BY <2>3 DEF CacheTypeOK, Labels
  <2>6. \A q \in Procs : locked'[q] = IF pc'[q] \in Reading THEN "read"
                                      ELSE IF pc'[q] \in Writing THEN "write" ELSE "no"
    BY <2>3, <2>4 DEF shared, CacheTypeOK, Reading, Writing
  <2>. QED
    BY <2>2, <2>4, <2>5, <2>6 DEF shared, bounds, CacheTypeOK
<1>2. CASE LockForGet(p)
  BY <1>2 DEF LockForGet, AcquireRead, Goto, bounds, CacheTypeOK, Labels, Reading, Writing
<1>3. CASE FinishGet(p)
  <2>1. Found(copy[p], key[p]) \in Configs \cup {NoConfig}
    BY FoundIsConfig DEF CacheTypeOK
  <2>2. config' \in [Procs -> Configs \cup {NoConfig}]
    BY <1>3, <2>1 DEF FinishGet, Answer, CacheTypeOK
  <2>. QED
    BY <1>3, <2>2, EmptyIsTable
    DEF FinishGet, Unlock, Answer, Goto, bounds, CacheTypeOK, Labels, Reading, Writing
<1>. QED
  BY <1>1, <1>2, <1>3

LEMMA ReadTyped ==
    ASSUME CacheTypeOK, NEW p \in Procs, ReadUnlocked(p)
    PROVE  CacheTypeOK'
<1>1. CASE ReadFile(p)
  BY <1>1 DEF ReadUnlocked, ReadFile, Goto, shared, CacheTypeOK, Labels, Reading, Writing
<1>2. CASE ReadFails(p)
  <2>1. mishaps' \in Nat /\ misreads' \in Nat
    BY <1>2 DEF ReadFails, CacheTypeOK
  <2>. QED
    BY <1>2, <2>1, EmptyIsTable
    DEF ReadUnlocked, ReadFails, Goto, shared, CacheTypeOK, Labels, Reading, Writing
<1>. QED
  BY <1>1, <1>2 DEF ReadUnlocked

LEMMA PutTyped ==
    ASSUME CacheTypeOK, NEW p \in Procs,
           \/ \E k \in Keys, c \in Configs : StartPut(p, k, c)
           \/ LockForPut(p) \/ WriteTemporary(p) \/ RaisesUnderLock(p)
           \/ Replace(p) \/ FinishPut(p)
    PROVE  CacheTypeOK'
<1>1. CASE \E k \in Keys, c \in Configs : StartPut(p, k, c)
  <2>. PICK k \in Keys, c \in Configs : StartPut(p, k, c)
    BY <1>1
  <2>. DEFINE label == IF c \notin Fitting[k] \/ (p \in loaded /\ memory[p][k] = c)
                          THEN "done" ELSE "wait write"
  <2>1. pc' = [pc EXCEPT ![p] = label] /\ label \in {"done", "wait write"}
    BY DEF StartPut, Goto
  <2>. HIDE DEF label
  <2>. QED
    BY <2>1 DEF StartPut, shared, bounds, CacheTypeOK, Labels, Reading, Writing
<1>2. CASE LockForPut(p)
  BY <1>2 DEF LockForPut, AcquireWrite, Goto, bounds, CacheTypeOK, Labels, Reading, Writing
<1>3. CASE WriteTemporary(p)
  <2>1. [copy[p] EXCEPT ![key[p]] = config[p]] \in Tables
    BY DEF CacheTypeOK, Tables
  <2>2. copy' = [copy EXCEPT ![p] = [copy[p] EXCEPT ![key[p]] = config[p]]]
    BY <1>3 DEF WriteTemporary
  <2>. QED
    BY <1>3, <2>1, <2>2
    DEF WriteTemporary, Goto, shared, bounds, CacheTypeOK, Labels, Reading, Writing
<1>4. CASE RaisesUnderLock(p)
  <2>0. mishaps' = mishaps + 1
    BY <1>4 DEF RaisesUnderLock
  <2>1. mishaps' \in Nat
    BY <2>0 DEF CacheTypeOK
  <2>. QED
    BY <1>4, <2>1, EmptyIsTable
    DEF RaisesUnderLock, Unlock, Goto, CacheTypeOK, Labels, Reading, Writing
<1>5. CASE Replace(p)
  BY <1>5 DEF Replace, Goto, bounds, CacheTypeOK, Labels, Reading, Writing
<1>6. CASE FinishPut(p)
  BY <1>6, EmptyIsTable
  DEF FinishPut, Unlock, Goto, bounds, CacheTypeOK, Labels, Reading, Writing
<1>. QED
  BY <1>1, <1>2, <1>3, <1>4, <1>5, <1>6

LEMMA OtherTyped ==
    ASSUME CacheTypeOK, NEW p \in Procs,
           TimeOut(p) \/ Clear(p) \/ Kill(p) \/ Return(p)
    PROVE  CacheTypeOK'
<1>1. CASE TimeOut(p)
  <2>0. mishaps' = mishaps + 1
    BY <1>1 DEF TimeOut
  <2>1. mishaps' \in Nat
    BY <2>0 DEF CacheTypeOK
  <2>. QED
    BY <1>1, <2>1 DEF TimeOut, Goto, shared, CacheTypeOK, Labels, Reading, Writing
<1>2. CASE Clear(p)
  BY <1>2, EmptyIsTable DEF Clear, shared, bounds, CacheTypeOK, Labels
<1>3. CASE Kill(p)
  <2>1. mishaps' \in Nat
    BY <1>3 DEF Kill, CacheTypeOK
  <2>2. /\ pc' = [pc EXCEPT ![p] = "idle"] /\ locked' = [locked EXCEPT ![p] = "no"]
        /\ key' = [key EXCEPT ![p] = AnyKey] /\ config' = [config EXCEPT ![p] = NoConfig]
        /\ copy' = [copy EXCEPT ![p] = Empty] /\ memory' = [memory EXCEPT ![p] = Empty]
        /\ loaded' \in SUBSET Procs /\ UNCHANGED <<file, misreads>>
    BY <1>3 DEF Kill, Unlock, Goto, CacheTypeOK
  <2>3. /\ file' \in Tables /\ key' \in [Procs -> Keys] /\ misreads' \in Nat
        /\ config' \in [Procs -> Configs \cup {NoConfig}]
        /\ copy' \in [Procs -> Tables] /\ memory' \in [Procs -> Tables]
    BY <2>2, EmptyIsTable, AnyKeyIsKey DEF CacheTypeOK
  <2>. QED
    BY <2>1, <2>2, <2>3 DEF CacheTypeOK, Labels, Reading, Writing
<1>4. CASE Return(p)
  BY <1>4, AnyKeyIsKey
  DEF Return, Goto, shared, bounds, CacheTypeOK, Labels, Reading, Writing
<1>. QED
  BY <1>1, <1>2, <1>3, <1>4

LEMMA NextTyped == CacheTypeOK /\ [CacheNext]_cacheVars => CacheTypeOK'
<1>. SUFFICES ASSUME CacheTypeOK, [CacheNext]_cacheVars PROVE CacheTypeOK'
  OBVIOUS
<1>1. CASE UNCHANGED cacheVars
  BY <1>1 DEF cacheVars, shared, bounds, CacheTypeOK
<1>2. CASE CacheNext
  BY <1>2, GetTyped, ReadTyped, PutTyped, OtherTyped DEF CacheNext, CacheStep, CacheWork
<1>. QED
  BY <1>1, <1>2

(* The cache keeps its types, and a process holds the lock in exactly the  *)
(* steps under it: no path out of get or put, exceptions and kills         *)
(* included, leaves the lock behind (launch_template.py, get, put).        *)
THEOREM TypeCorrect == CacheSpec => []CacheTypeOK
<1>1. InitCache => CacheTypeOK
  BY InitInv DEF Inv
<1>. QED
  BY <1>1, NextTyped, PTL DEF CacheSpec

-----------------------------------------------------------------------------
(* Which lock a step holds. *)
LEMMA LockOfStep ==
    ASSUME CacheTypeOK, NEW p \in Procs
    PROVE  /\ pc[p] \in Reading => locked[p] = "read"
           /\ pc[p] \in Writing => locked[p] = "write"
           /\ locked[p] = "write" => pc[p] \in Writing
BY DEF CacheTypeOK, Reading, Writing

LEMMA NextLocks ==
    ASSUME CacheTypeOK, Locks, CacheNext
    PROVE  Locks'
<1>. PICK p \in Procs : CacheStep(p)
  BY DEF CacheNext
<1>0. locked \in [Procs -> {"no", "read", "write"}]
  BY DEF CacheTypeOK
<1>1. CASE AcquireRead(p)
  BY <1>0, <1>1 DEF AcquireRead, Locks
<1>2. CASE AcquireWrite(p)
  BY <1>0, <1>2 DEF AcquireWrite, Locks
<1>3. CASE Unlock(p) \/ UNCHANGED locked
  BY <1>0, <1>3 DEF Unlock, Locks
<1>4. AcquireRead(p) \/ AcquireWrite(p) \/ Unlock(p) \/ UNCHANGED locked
  BY DEF CacheStep, CacheWork, StartGet, LockForGet, ReadUnlocked, FinishGet, StartPut,
         LockForPut, WriteTemporary, RaisesUnderLock, Replace, FinishPut, TimeOut, Clear,
         Kill, Return, shared
<1>. QED
  BY <1>1, <1>2, <1>3, <1>4

LEMMA NextStoring ==
    ASSUME CacheTypeOK, StoresConfigs, CacheNext
    PROVE  StoresConfigs'
<1>. PICK p \in Procs : CacheStep(p)
  BY DEF CacheNext
<1>0. pc \in [Procs -> Labels] /\ config \in [Procs -> Configs \cup {NoConfig}]
  BY DEF CacheTypeOK
<1>. SUFFICES ASSUME NEW q \in Procs, pc'[q] \in Storing PROVE config'[q] \in Configs
  BY DEF StoresConfigs
<1>1. CASE q # p
  BY <1>0, <1>1
  DEF StoresConfigs, Storing, CacheStep, CacheWork, StartGet, Answer, Goto, LockForGet,
      ReadUnlocked, FinishGet, StartPut, LockForPut, WriteTemporary, RaisesUnderLock, Replace,
      FinishPut, TimeOut, Clear, Kill, Return
<1>2. CASE q = p /\ \E k \in Keys, c \in Configs : StartPut(p, k, c)
  BY <1>0, <1>2 DEF StartPut
<1>3. CASE q = p /\ (LockForPut(p) \/ ReadUnlocked(p) \/ WriteTemporary(p) \/ Replace(p))
  BY <1>0, <1>3
  DEF StoresConfigs, Storing, LockForPut, ReadUnlocked, WriteTemporary, Replace, Goto
<1>4. CASE q = p /\ ~ \/ \E k \in Keys, c \in Configs : StartPut(p, k, c)
                      \/ LockForPut(p) \/ ReadUnlocked(p) \/ WriteTemporary(p) \/ Replace(p)
  BY <1>0, <1>4
  DEF StoresConfigs, Storing, CacheStep, CacheWork, StartGet, Answer, Goto, LockForGet,
      FinishGet, RaisesUnderLock, FinishPut, TimeOut, Clear, Kill, Return
<1>. QED
  BY <1>1, <1>2, <1>3, <1>4

-----------------------------------------------------------------------------
(* Only Replace changes the file, and only the entry of its key. *)
LEMMA FileChange ==
    ASSUME CacheTypeOK, CopiesAgree, NEW p \in Procs, CacheStep(p), file' # file
    PROVE  /\ Replace(p)
           /\ file' = [file EXCEPT ![key[p]] = config[p]]
<1>1. Replace(p)
  <2>1. LockForGet(p) \/ ReadUnlocked(p) \/ FinishGet(p) => UNCHANGED file
    BY DEF LockForGet, ReadUnlocked, FinishGet, shared
  <2>2. LockForPut(p) \/ WriteTemporary(p) \/ RaisesUnderLock(p) \/ FinishPut(p) => UNCHANGED file
    BY DEF LockForPut, WriteTemporary, RaisesUnderLock, FinishPut, shared
  <2>3. TimeOut(p) \/ Clear(p) \/ Kill(p) \/ Return(p) => UNCHANGED file
    BY DEF TimeOut, Clear, Kill, Return, shared
  <2>4. /\ \A k \in Keys : StartGet(p, k) => UNCHANGED file
        /\ \A k \in Keys, c \in Configs : StartPut(p, k, c) => UNCHANGED file
    BY DEF StartGet, StartPut, shared
  <2>. QED
    BY <2>1, <2>2, <2>3, <2>4 DEF CacheStep, CacheWork
<1>. QED
  BY <1>1 DEF Replace, CopiesAgree

(* While no read fails every copy stays true to the file: readers and      *)
(* writers exclude those who would change it.                              *)
LEMMA NextCopies ==
    ASSUME CacheTypeOK, Locks, CopiesAgree, CacheNext, misreads' = 0, misreads = 0
    PROVE  CopiesAgree'
<1>. PICK p \in Procs : CacheStep(p)
  BY DEF CacheNext
<1>0. /\ pc \in [Procs -> Labels] /\ copy \in [Procs -> Tables] /\ file \in Tables
      /\ key \in [Procs -> Keys] /\ config \in [Procs -> Configs \cup {NoConfig}]
  BY DEF CacheTypeOK
<1>1. ASSUME NEW q \in Procs, q # p
      PROVE  /\ pc'[q] = pc[q] /\ copy'[q] = copy[q] /\ key'[q] = key[q] /\ config'[q] = config[q]
  BY <1>0, <1>1
  DEF CacheStep, CacheWork, StartGet, Answer, Goto, LockForGet, ReadUnlocked, ReadFile,
      ReadFails, FinishGet, StartPut, LockForPut, WriteTemporary, RaisesUnderLock, Replace,
      FinishPut, TimeOut, Clear, Kill, Return, shared, bounds
<1>2. CASE Replace(p)
  <2>1. pc[p] = "replace" /\ pc'[p] = "unlock" /\ file' = copy[p] /\ copy'[p] = copy[p]
    BY <1>0, <1>2 DEF Replace, Goto
  <2>2. ASSUME NEW q \in Procs, q # p
        PROVE  pc[q] \notin {"keep", "write", "unlock", "replace"}
    BY <2>1, <2>2, LockOfStep DEF Locks, Reading, Writing
  <2>. QED
    BY <1>1, <2>1, <2>2 DEF CopiesAgree
<1>3. CASE WriteTemporary(p)
  <2>1. /\ pc[p] = "write" /\ pc'[p] = "replace" /\ copy[p] = file /\ UNCHANGED <<file, key, config>>
        /\ copy'[p] = [copy[p] EXCEPT ![key[p]] = config[p]]
    BY <1>0, <1>3 DEF WriteTemporary, Goto, CopiesAgree, shared
  <2>. QED
    BY <1>1, <2>1 DEF CopiesAgree
<1>4. CASE ReadUnlocked(p)
  <2>1. ReadFile(p)
    <3>1. ReadFails(p) => misreads' = misreads + 1
      BY DEF ReadFails
    <3>2. ~ ReadFails(p)
      BY <3>1
    <3>. QED
      BY <1>4, <3>2 DEF ReadUnlocked
  <2>2. copy'[p] = file /\ pc'[p] \in {"keep", "write"} /\ UNCHANGED file
    BY <1>0, <1>4, <2>1 DEF ReadUnlocked, ReadFile, Goto, shared
  <2>. QED
    BY <1>1, <2>2 DEF CopiesAgree
<1>5. CASE ~ (Replace(p) \/ WriteTemporary(p) \/ ReadUnlocked(p))
  <2>1. pc'[p] \notin {"keep", "write", "unlock", "replace"} \/ UNCHANGED pc
    BY <1>0, <1>5
    DEF CacheStep, CacheWork, StartGet, Answer, Goto, LockForGet, FinishGet, StartPut,
        LockForPut, RaisesUnderLock, FinishPut, TimeOut, Clear, Kill, Return
  <2>2. UNCHANGED file
    BY <1>5, FileChange
  <2>3. pc'[p] \in {"keep", "write", "unlock", "replace"} =>
            copy'[p] = copy[p] /\ key'[p] = key[p] /\ config'[p] = config[p] /\ pc'[p] = pc[p]
    BY <1>0, <1>5, <2>1
    DEF CacheStep, CacheWork, StartGet, Answer, Goto, LockForGet, FinishGet, StartPut,
        LockForPut, RaisesUnderLock, FinishPut, TimeOut, Clear, Kill, Return, bounds, Labels
  <2>. QED
    BY <1>1, <2>2, <2>3 DEF CopiesAgree
<1>. QED
  BY <1>2, <1>3, <1>4, <1>5

LEMMA NextBacked ==
    ASSUME CacheTypeOK, StoresConfigs, CopiesAgree, Backed, CacheNext
    PROVE  Backed'
<1>. PICK p \in Procs : CacheStep(p)
  BY DEF CacheNext
<1>0. /\ file \in Tables /\ memory \in [Procs -> Tables] /\ copy \in [Procs -> Tables]
      /\ loaded \subseteq Procs
  BY DEF CacheTypeOK
(* Entries stay in the file. *)
<1>1. \A k \in Keys : file[k] # NoConfig => file'[k] # NoConfig
  <2>1. CASE file' = file
    BY <2>1
  <2>2. CASE file' # file
    <3>1. file' = [file EXCEPT ![key[p]] = config[p]] /\ config[p] \in Configs
      BY <2>2, FileChange DEF Replace, StoresConfigs, Storing
    <3>. QED
      BY <1>0, <3>1, NoConfigAssumption DEF Tables
  <2>. QED
    BY <2>1, <2>2
(* What enters the memory is the file. *)
<1>2. CASE FinishGet(p) \/ FinishPut(p)
  <2>1. copy[p] = file /\ UNCHANGED file
    BY <1>2 DEF FinishGet, FinishPut, CopiesAgree
  <2>2. memory' = [memory EXCEPT ![p] = file] /\ loaded' = loaded \cup {p}
    BY <1>2, <2>1 DEF FinishGet, FinishPut
  <2>. QED
    BY <1>0, <2>1, <2>2 DEF Backed
<1>3. CASE Clear(p) \/ Kill(p)
  <2>1. loaded' = loaded \ {p} /\ memory' = [memory EXCEPT ![p] = Empty]
    BY <1>3 DEF Clear, Kill
  <2>. QED
    BY <1>0, <1>1, <2>1 DEF Backed
<1>4. CASE ~ (FinishGet(p) \/ FinishPut(p) \/ Clear(p) \/ Kill(p))
  <2>1. UNCHANGED <<loaded, memory>>
    BY <1>4
    DEF CacheStep, CacheWork, StartGet, LockForGet, ReadUnlocked, StartPut, LockForPut,
        WriteTemporary, RaisesUnderLock, Replace, TimeOut, Return
  <2>. QED
    BY <1>1, <2>1 DEF Backed
<1>. QED
  BY <1>2, <1>3, <1>4

LEMMA NextInv == Inv /\ [CacheNext]_cacheVars => Inv'
<1>. SUFFICES ASSUME Inv, [CacheNext]_cacheVars PROVE Inv'
  OBVIOUS
<1>0. CacheTypeOK'
  BY NextTyped DEF Inv
<1>1. CASE UNCHANGED cacheVars
  BY <1>0, <1>1
  DEF Inv, cacheVars, shared, bounds, Locks, StoresConfigs, CopiesAgree, Backed
<1>2. CASE CacheNext
  <2>1. Locks' /\ StoresConfigs'
    BY <1>2, NextLocks, NextStoring DEF Inv
  <2>2. misreads' = 0 => misreads = 0
    <3>. PICK p \in Procs : CacheStep(p)
      BY <1>2 DEF CacheNext
    <3>1. ReadUnlocked(p) => UNCHANGED misreads \/ misreads' = misreads + 1
      BY DEF ReadUnlocked, ReadFile, ReadFails
    <3>2. LockForGet(p) \/ FinishGet(p) \/ LockForPut(p) \/ WriteTemporary(p) \/ RaisesUnderLock(p)
              \/ Replace(p) \/ FinishPut(p) => UNCHANGED misreads
      BY DEF LockForGet, FinishGet, LockForPut, WriteTemporary, RaisesUnderLock, Replace,
             FinishPut, bounds
    <3>3. TimeOut(p) \/ Clear(p) \/ Kill(p) \/ Return(p) => UNCHANGED misreads
      BY DEF TimeOut, Clear, Kill, Return, bounds
    <3>4. /\ \A k \in Keys : StartGet(p, k) => UNCHANGED misreads
          /\ \A k \in Keys, c \in Configs : StartPut(p, k, c) => UNCHANGED misreads
      BY DEF StartGet, StartPut, bounds
    <3>5. UNCHANGED misreads \/ misreads' = misreads + 1
      BY <3>1, <3>2, <3>3, <3>4 DEF CacheStep, CacheWork
    <3>. QED
      BY <3>5 DEF Inv, CacheTypeOK
  <2>3. misreads' = 0 => CopiesAgree' /\ Backed'
    BY <1>2, <2>2, NextCopies, NextBacked DEF Inv
  <2>. QED
    BY <1>0, <2>1, <2>3 DEF Inv
<1>. QED
  BY <1>1, <1>2

-----------------------------------------------------------------------------
THEOREM Invariance == CacheSpec => []Inv
BY InitInv, NextInv, PTL DEF CacheSpec

(* From reading the file back to replacing it a process is alone           *)
(* (launch_template.py, put).                                              *)
THEOREM WritesAlone == CacheSpec => []WriterAlone
<1>1. Inv => WriterAlone
  <2>. SUFFICES ASSUME Inv, NEW p \in Procs, NEW q \in Procs, p # q, pc[p] \in Writing
                PROVE  pc[q] \notin Reading \cup Writing
    BY DEF WriterAlone
  <2>. QED
    BY LockOfStep DEF Inv, Locks
<1>. QED
  BY <1>1, Invariance, PTL

(* Unless a read failed, storing a configuration loses no other entry      *)
(* (launch_template.py, put).                                              *)
THEOREM NothingLost == CacheSpec => OthersStay
<1>. DEFINE A == misreads = 0 =>
                     \A k \in Keys : file'[k] # file[k] =>
                         \E p \in Procs : locked[p] = "write" /\ key[p] = k
<1>1. Inv /\ [CacheNext]_cacheVars => [A]_file
  <2>. SUFFICES ASSUME Inv, CacheNext, misreads = 0, NEW k \in Keys, file'[k] # file[k]
                PROVE  \E p \in Procs : locked[p] = "write" /\ key[p] = k
    BY DEF cacheVars, shared
  <2>1. PICK p \in Procs : CacheStep(p)
    BY DEF CacheNext
  <2>2. Replace(p) /\ file' = [file EXCEPT ![key[p]] = config[p]]
    BY <2>1, FileChange DEF Inv
  <2>3. key[p] = k
    BY <2>2 DEF Inv, CacheTypeOK, Tables
  <2>4. locked[p] = "write"
    BY <2>2, LockOfStep DEF Inv, Replace, Writing
  <2>. QED
    BY <2>3, <2>4
<1>. QED
  BY <1>1, Invariance, PTL DEF CacheSpec, OthersStay

(* Unless a read failed, what a process answers from memory has an entry   *)
(* in the file (launch_template.py, _load_device, put).                    *)
THEOREM MemoryStaysBacked == CacheSpec => []MemoryIsBacked
<1>1. Inv => MemoryIsBacked
  BY DEF Inv, Backed, MemoryIsBacked
<1>. QED
  BY <1>1, Invariance, PTL

-----------------------------------------------------------------------------
(* The calls. *)

Places == {"idle", "lookup", "prepare", "launch", "store", "storing", "finish"}
Tiles == Nat \ {0}

HostTyped ==
    /\ jobs \in JobSets
    /\ at \in [Procs -> Places]
    /\ job \in [Procs -> jobs]
    /\ tuning \in [Procs -> BOOLEAN]
    /\ tile \in [Procs -> Tiles]
    /\ DOMAIN array = Procs
    /\ best \in [Procs -> [TunerKeys -> Configs \cup {NoConfig}]]

(* Only a call that tunes stores, and then its autotuner has a choice. *)
StoresChoice ==
    \A p \in Procs :
        /\ at[p] \in {"store", "storing"} => tuning[p]
        /\ at[p] = "store" => best[p][job[p].tuner] \in Configs

(* The arrays of a call, before the launch and after. *)
Fresh(p) ==
    array[p] = [a \in Arrays(job[p].kernel) |->
                   IF a \in job[p].kernel.zeros \cup Preprocessed THEN <<>> ELSE Junk]
Launched(p) == array[p] = [a \in Arrays(job[p].kernel) |-> <<tile[p]>>]

Content ==
    \A p \in Procs :
        /\ at[p] \in {"launch", "store", "storing", "finish"} =>
               DOMAIN array[p] = Arrays(job[p].kernel)
        /\ at[p] = "launch" /\ ~ tuning[p] => Fresh(p)
        /\ at[p] = "finish" /\ ~ tuning[p] => Launched(p)

HostInv == HostTyped /\ StoresChoice /\ Content

-----------------------------------------------------------------------------
LEMMA JobOfSet ==
    ASSUME NEW js \in JobSets
    PROVE  /\ (CHOOSE j \in js : TRUE) \in js
           /\ \A j \in js : j.key \in Keys /\ j.tuner \in TunerKeys
           /\ \A j \in js : j.kernel.adds \subseteq j.kernel.zeros \cup Preprocessed
           /\ \A j \in js : j.kernel.stores \cap j.kernel.adds = {}
<1>1. js # {} /\ \A j \in js : j.key \in Keys
  BY JobsAssumption
<1>2. \A j \in js : j.tuner \in TunerKeys
  BY DEF TunerKeys
<1>. QED
  BY <1>1, <1>2, JobsAssumption

LEMMA InitHost == Init => HostInv
<1>. SUFFICES ASSUME Init PROVE HostInv
  OBVIOUS
<1>1. HostTyped
  BY JobOfSet, TileAssumption DEF Init, HostTyped, Places, Tiles
<1>2. StoresChoice /\ Content
  BY DEF Init, StoresChoice, Content
<1>. QED
  BY <1>1, <1>2 DEF HostInv

(* A step of one process leaves the calls of the others alone. *)
LEMMA OthersKept ==
    ASSUME HostInv, UNCHANGED jobs, NEW p \in Procs,
           DOMAIN array' = Procs,
           \A q \in Procs \ {p} :
               /\ at'[q] = at[q] /\ job'[q] = job[q] /\ tuning'[q] = tuning[q]
               /\ tile'[q] = tile[q] /\ array'[q] = array[q] /\ best'[q] = best[q],
           at'[p] \in {"idle", "lookup", "prepare"}
    PROVE  StoresChoice' /\ Content'
<1>1. StoresChoice'
  BY DEF HostInv, StoresChoice
<1>2. ASSUME NEW q \in Procs, q # p
      PROVE  /\ at'[q] \in {"launch", "store", "storing", "finish"} =>
                    DOMAIN array'[q] = Arrays(job'[q].kernel)
             /\ at'[q] = "launch" /\ ~ tuning'[q] => Fresh(q)'
             /\ at'[q] = "finish" /\ ~ tuning'[q] => Launched(q)'
  <2>1. Fresh(q) => Fresh(q)'
    BY <1>2 DEF Fresh
  <2>2. Launched(q) => Launched(q)'
    BY <1>2 DEF Launched
  <2>. QED
    BY <1>2, <2>1, <2>2 DEF HostInv, Content
<1>. QED
  BY <1>1, <1>2 DEF Content

LEMMA PassArrays ==
    ASSUME HostInv, NEW p \in Procs, NEW t \in Tiles, Pass(p, t), at[p] = "launch"
    PROVE  /\ DOMAIN array' = Procs
           /\ \A q \in Procs \ {p} : array'[q] = array[q]
           /\ DOMAIN array'[p] = Arrays(job[p].kernel)
           /\ ~ tuning[p] =>
                  array'[p] = [a \in Arrays(job[p].kernel) |-> <<t>>]
<1>. DEFINE k == job[p].kernel
<1>1. job[p] \in jobs /\ jobs \in JobSets /\ DOMAIN array = Procs
  BY DEF HostInv, HostTyped
<1>2. k.adds \subseteq k.zeros \cup Preprocessed /\ k.stores \cap k.adds = {}
  BY <1>1, JobOfSet
<1>3. DOMAIN array[p] = Arrays(k)
  BY DEF HostInv, Content
<1>4. array'[p] = [a \in Arrays(k) |->
                      IF a \in k.adds THEN Append(array[p][a], t) ELSE <<t>>]
  BY <1>1, <1>3 DEF Pass
<1>5. ASSUME ~ tuning[p], NEW a \in k.adds
      PROVE  Append(array[p][a], t) = <<t>>
  <2>1. array[p][a] = <<>>
    BY <1>2, <1>5 DEF HostInv, Content, Fresh, Arrays
  <2>. QED
    BY <2>1 DEF Tiles
<1>6. ~ tuning[p] => array'[p] = [a \in Arrays(k) |-> <<t>>]
  BY <1>4, <1>5
<1>7. DOMAIN array' = Procs /\ \A q \in Procs \ {p} : array'[q] = array[q]
  BY <1>1 DEF Pass
<1>. QED
  BY <1>4, <1>6, <1>7

-----------------------------------------------------------------------------
(* What a call does to the cache is a step of the cache, or none. *)
LEMMA NextUsesCache == HostInv /\ [Next]_vars => [CacheNext]_cacheVars
<1>. SUFFICES ASSUME HostInv, Next PROVE CacheNext \/ UNCHANGED cacheVars
  BY DEF vars
<1>. PICK p \in Procs :
        \/ \E j \in jobs : CallTuned(p, j) \/ CallTiled(p, j)
        \/ HostWork(p) \/ CacheWorks(p) \/ LockTimesOut(p) \/ Die(p) \/ Forget(p)
  BY DEF Next
<1>. SUFFICES CacheStep(p) \/ UNCHANGED cacheVars
  BY DEF CacheNext
<1>0. /\ jobs \in JobSets /\ job[p] \in jobs
      /\ \A j \in jobs : j.key \in Keys
  BY JobOfSet DEF HostInv, HostTyped
<1>1. CASE \E j \in jobs : CallTuned(p, j) \/ CallTiled(p, j)
  BY <1>0, <1>1 DEF CallTuned, CallTiled, CacheStep
<1>2. CASE TakeConfig(p) \/ CacheRaises(p) \/ Stored(p)
  BY <1>2 DEF TakeConfig, CacheRaises, Stored, CacheStep
<1>3. CASE Store(p)
  BY <1>0, <1>3 DEF Store, HostInv, StoresChoice, CacheStep
<1>4. CASE Prepare(p) \/ Launch(p) \/ Finish(p) \/ \E c \in Configs : Trial(p, c) \/ LaunchBest(p, c)
  BY <1>4 DEF Prepare, Launch, Finish, Trial, LaunchBest
<1>5. CASE CacheWorks(p) \/ LockTimesOut(p) \/ Die(p) \/ Forget(p)
  BY <1>5 DEF CacheWorks, LockTimesOut, Die, Forget, CacheStep
<1>. QED
  BY <1>1, <1>2, <1>3, <1>4, <1>5 DEF HostWork

-----------------------------------------------------------------------------
LEMMA BeginHost ==
    ASSUME HostInv, NEW p \in Procs, NEW j \in jobs, CallTuned(p, j) \/ CallTiled(p, j)
    PROVE  HostInv'
<1>1. /\ job' = [job EXCEPT ![p] = j]
      /\ at' = [at EXCEPT ![p] = at'[p]] /\ at'[p] \in {"lookup", "prepare"}
      /\ UNCHANGED <<jobs, tuning, tile, array, best>>
  BY DEF CallTuned, CallTiled, Begin, Step, HostInv, HostTyped
<1>2. HostTyped'
  BY <1>1 DEF HostInv, HostTyped, Places
<1>3. StoresChoice' /\ Content'
  BY <1>1, OthersKept DEF HostInv, HostTyped
<1>. QED
  BY <1>2, <1>3 DEF HostInv

LEMMA TakeConfigHost ==
    ASSUME HostInv, CacheTypeOK, NEW p \in Procs, TakeConfig(p)
    PROVE  HostInv'
<1>. DEFINE t == IF config[p] = NoConfig THEN Placeholder ELSE Tile[config[p]]
<1>1. t \in Tiles
  BY TileAssumption DEF CacheTypeOK, Tiles
<1>2. /\ tuning' = [tuning EXCEPT ![p] = (config[p] = NoConfig)] /\ tile' = [tile EXCEPT ![p] = t]
      /\ at' = [at EXCEPT ![p] = "prepare"] /\ UNCHANGED <<jobs, job, array, best>>
  BY DEF TakeConfig, Step
<1>3. (config[p] = NoConfig) \in BOOLEAN
  OBVIOUS
<1>. HIDE DEF t
<1>4. HostTyped'
  BY <1>1, <1>2, <1>3 DEF HostInv, HostTyped, Places
<1>5. StoresChoice' /\ Content'
  BY <1>2, OthersKept DEF HostInv, HostTyped
<1>. QED
  BY <1>4, <1>5 DEF HostInv

LEMMA LeaveHost ==
    ASSUME HostInv, NEW p \in Procs, Leave(p), UNCHANGED jobs,
           best' \in [Procs -> [TunerKeys -> Configs \cup {NoConfig}]],
           \A q \in Procs \ {p} : best'[q] = best[q]
    PROVE  HostInv'
<1>1. (CHOOSE j \in jobs : TRUE) \in jobs
  BY JobOfSet DEF HostInv, HostTyped
<1>2. HostTyped'
  BY <1>1, TileAssumption DEF Leave, Step, HostInv, HostTyped, Places, Tiles
<1>3. StoresChoice' /\ Content'
  BY OthersKept DEF Leave, Step, HostInv, HostTyped
<1>. QED
  BY <1>2, <1>3 DEF HostInv

LEMMA PrepareHost ==
    ASSUME HostInv, NEW p \in Procs, Prepare(p)
    PROVE  HostInv'
<1>1. /\ at' = [at EXCEPT ![p] = "launch"] /\ UNCHANGED <<jobs, job, tuning, tile, best>>
      /\ DOMAIN array' = Procs /\ Fresh(p)'
      /\ \A q \in Procs \ {p} : array'[q] = array[q]
  BY DEF Prepare, Step, HostInv, HostTyped, Fresh
<1>2. HostTyped'
  BY <1>1 DEF HostInv, HostTyped, Places
<1>3. StoresChoice'
  BY <1>1 DEF HostInv, HostTyped, StoresChoice
<1>4. Content'
  <2>. SUFFICES ASSUME NEW q \in Procs
                PROVE  /\ at'[q] \in {"launch", "store", "storing", "finish"} =>
                              DOMAIN array'[q] = Arrays(job'[q].kernel)
                       /\ at'[q] = "launch" /\ ~ tuning'[q] => Fresh(q)'
                       /\ at'[q] = "finish" /\ ~ tuning'[q] => Launched(q)'
    BY DEF Content
  <2>1. CASE q = p
    BY <1>1, <2>1 DEF HostInv, HostTyped, Fresh
  <2>2. CASE q # p
    BY <1>1, <2>2 DEF HostInv, HostTyped, Content, Fresh, Launched
  <2>. QED
    BY <2>1, <2>2
<1>. QED
  BY <1>2, <1>3, <1>4 DEF HostInv

(* A launch of any kind. *)
LEMMA LaunchHost ==
    ASSUME HostInv, NEW p \in Procs, NEW t \in Tiles, Pass(p, t), at[p] = "launch",
           UNCHANGED <<jobs, job, tuning, tile>>,
           best' \in [Procs -> [TunerKeys -> Configs \cup {NoConfig}]],
           \A q \in Procs \ {p} : best'[q] = best[q],
           \/ /\ ~ tuning[p] /\ t = tile[p] /\ UNCHANGED best
              /\ at' = [at EXCEPT ![p] = "finish"]
           \/ tuning[p] /\ UNCHANGED <<at, best>>
           \/ /\ tuning[p] /\ best'[p][job[p].tuner] \in Configs
              /\ at' = [at EXCEPT ![p] = "store"]
    PROVE  HostInv'
<1>1. HostTyped'
  <2>1. at' \in [Procs -> Places]
    BY DEF HostInv, HostTyped, Places
  <2>2. DOMAIN array' = Procs
    BY PassArrays
  <2>. QED
    BY <2>1, <2>2 DEF HostInv, HostTyped
<1>2. StoresChoice'
  BY DEF HostInv, HostTyped, StoresChoice
<1>3. Content'
  <2>. SUFFICES ASSUME NEW q \in Procs
                PROVE  /\ at'[q] \in {"launch", "store", "storing", "finish"} =>
                              DOMAIN array'[q] = Arrays(job'[q].kernel)
                       /\ at'[q] = "launch" /\ ~ tuning'[q] => Fresh(q)'
                       /\ at'[q] = "finish" /\ ~ tuning'[q] => Launched(q)'
    BY DEF Content
  <2>1. CASE q = p
    <3>1. /\ DOMAIN array'[p] = Arrays(job[p].kernel)
          /\ ~ tuning[p] => array'[p] = [a \in Arrays(job[p].kernel) |-> <<t>>]
      BY PassArrays
    <3>2. at'[p] \in {"finish", "launch", "store"} /\ (at'[p] = "finish" => t = tile[p] /\ ~ tuning[p])
          /\ (at'[p] = "launch" => tuning[p])
      BY DEF HostInv, HostTyped
    <3>. QED
      BY <2>1, <3>1, <3>2 DEF Launched
  <2>2. CASE q # p
    <3>1. array'[q] = array[q] /\ at'[q] = at[q]
      BY <2>2, PassArrays DEF HostInv, HostTyped
    <3>. QED
      BY <2>2, <3>1 DEF HostInv, Content, Fresh, Launched
  <2>. QED
    BY <2>1, <2>2
<1>. QED
  BY <1>1, <1>2, <1>3 DEF HostInv

LEMMA StoreHost ==
    ASSUME HostInv, NEW p \in Procs, Store(p) \/ Stored(p)
    PROVE  HostInv'
<1>1. /\ UNCHANGED <<jobs, job, tuning, tile, array, best>>
      /\ \/ at[p] = "store" /\ at' = [at EXCEPT ![p] = "storing"]
         \/ at[p] = "storing" /\ at' = [at EXCEPT ![p] = "finish"]
  BY DEF Store, Stored, Step
<1>2. HostTyped'
  BY <1>1 DEF HostInv, HostTyped, Places
<1>3. tuning[p]
  BY <1>1 DEF HostInv, StoresChoice
<1>5. StoresChoice'
  BY <1>1, <1>3 DEF HostInv, HostTyped, StoresChoice
<1>4. Content'
  <2>. SUFFICES ASSUME NEW q \in Procs
                PROVE  /\ at'[q] \in {"launch", "store", "storing", "finish"} =>
                              DOMAIN array'[q] = Arrays(job'[q].kernel)
                       /\ at'[q] = "launch" /\ ~ tuning'[q] => Fresh(q)'
                       /\ at'[q] = "finish" /\ ~ tuning'[q] => Launched(q)'
    BY DEF Content
  <2>1. (Fresh(q) <=> Fresh(q)') /\ (Launched(q) <=> Launched(q)')
    BY <1>1 DEF Fresh, Launched
  <2>2. CASE q = p
    BY <1>1, <1>3, <2>1, <2>2 DEF HostInv, HostTyped, Content
  <2>3. CASE q # p
    BY <1>1, <2>1, <2>3 DEF HostInv, HostTyped, Content
  <2>. QED
    BY <2>2, <2>3
<1>. QED
  BY <1>2, <1>4, <1>5 DEF HostInv

LEMMA NextHost == HostInv /\ CacheTypeOK /\ [Next]_vars => HostInv'
<1>. SUFFICES ASSUME HostInv, CacheTypeOK, [Next]_vars PROVE HostInv'
  OBVIOUS
<1>1. CASE UNCHANGED hostVars
  BY <1>1 DEF hostVars, HostInv, HostTyped, StoresChoice, Content, Fresh, Launched
<1>2. CASE Next
  <2>. PICK p \in Procs :
          \/ \E j \in jobs : CallTuned(p, j) \/ CallTiled(p, j)
          \/ HostWork(p) \/ CacheWorks(p) \/ LockTimesOut(p) \/ Die(p) \/ Forget(p)
    BY <1>2 DEF Next
  <2>0. /\ best \in [Procs -> [TunerKeys -> Configs \cup {NoConfig}]]
        /\ job[p] \in jobs /\ job[p].tuner \in TunerKeys /\ tile[p] \in Tiles
    BY JobOfSet DEF HostInv, HostTyped
  <2>1. CASE \E j \in jobs : CallTuned(p, j) \/ CallTiled(p, j)
    BY <2>1, BeginHost
  <2>2. CASE TakeConfig(p)
    BY <2>2, TakeConfigHost
  <2>3. CASE CacheRaises(p) \/ Finish(p)
    BY <2>0, <2>3, LeaveHost DEF CacheRaises, Finish
  <2>4. CASE Die(p)
    <3>1. [t \in TunerKeys |-> NoConfig] \in [TunerKeys -> Configs \cup {NoConfig}]
      OBVIOUS
    <3>. QED
      BY <2>0, <2>4, <3>1, LeaveHost DEF Die
  <2>5. CASE Prepare(p)
    BY <2>5, PrepareHost
  <2>6. CASE Launch(p)
    BY <2>0, <2>6, LaunchHost DEF Launch, Step
  <2>7. CASE \E c \in Configs : Trial(p, c)
    <3>. PICK c \in Configs : Trial(p, c)
      BY <2>7
    <3>1. Tile[c] \in Tiles
      BY TileAssumption DEF Tiles
    <3>. QED
      BY <2>0, <3>1, LaunchHost DEF Trial
  <2>8. CASE \E c \in Configs : LaunchBest(p, c)
    <3>. PICK c \in Configs : LaunchBest(p, c)
      BY <2>8
    <3>1. Tile[c] \in Tiles
      BY TileAssumption DEF Tiles
    <3>2. best' = [best EXCEPT ![p] = [best[p] EXCEPT ![job[p].tuner] = c]]
      BY DEF LaunchBest
    <3>3. best' \in [Procs -> [TunerKeys -> Configs \cup {NoConfig}]] /\ best'[p][job[p].tuner] = c
      BY <2>0, <3>2
    <3>4. \A q \in Procs \ {p} : best'[q] = best[q]
      BY <2>0, <3>2
    <3>. QED
      BY <3>1, <3>3, <3>4, LaunchHost DEF LaunchBest, Step
  <2>9. CASE Store(p) \/ Stored(p)
    BY <2>9, StoreHost
  <2>10. CASE CacheWorks(p) \/ LockTimesOut(p) \/ Forget(p)
    BY <1>1, <2>10 DEF CacheWorks, LockTimesOut, Forget
  <2>. QED
    BY <2>1, <2>2, <2>3, <2>4, <2>5, <2>6, <2>7, <2>8, <2>9, <2>10 DEF HostWork
<1>. QED
  BY <1>1, <1>2 DEF vars

LEMMA NextBoth == HostInv /\ Inv /\ [Next]_vars => (HostInv /\ Inv)'
BY NextHost, NextUsesCache, NextInv DEF Inv

THEOREM HostInvariance == Spec => [](HostInv /\ Inv)
<1>1. Init => HostInv /\ Inv
  BY InitHost, InitInv DEF Init
<1>. QED
  BY <1>1, NextBoth, PTL DEF Spec

-----------------------------------------------------------------------------
(* Each host function does with the cache what any caller may do: whatever *)
(* it looks up or stores is one of the cache's keys and configurations,    *)
(* one call at a time (flash_*_fwd.py, _dec.py, _bwd.py).                  *)
THEOREM ImplementsCache == Spec => UsesCache
<1>1. Init => InitCache
  BY DEF Init
<1>. QED
  BY <1>1, HostInvariance, NextUsesCache, PTL DEF Spec, UsesCache, CacheSpec

(* So no call loses an entry of another kernel, unless a read failed.      *)
THEOREM CallsLoseNothing == Spec => OthersStay
BY ImplementsCache, NothingLost DEF UsesCache

(* And what a process remembers is in the file, unless a read failed.      *)
THEOREM CallsAreBacked == Spec => []MemoryIsBacked
BY ImplementsCache, MemoryStaysBacked DEF UsesCache

(* A call that did not tune returns the result of one launch, whichever    *)
(* process found the configuration, and whatever was called before         *)
(* (flash_*_bwd.py: allocation, preprocess, launch and postprocess).       *)
THEOREM UntunedIsRight == Spec => []UntunedReturnsOneLaunch
<1>1. HostInv => UntunedReturnsOneLaunch
  <2>. SUFFICES ASSUME HostInv, NEW p \in Procs, at[p] = "finish", ~ tuning[p],
                       NEW a \in Arrays(job[p].kernel)
                PROVE  /\ Len(array[p][a]) = 1 /\ array[p][a] # Junk
                       /\ array[p][a] = <<tile[p]>>
    BY DEF UntunedReturnsOneLaunch, HoldsOneLaunch
  <2>1. array[p][a] = <<tile[p]>> /\ tile[p] \in Tiles
    BY DEF HostInv, HostTyped, Content, Launched
  <2>. QED
    BY <2>1 DEF Junk, Tiles
<1>. QED
  BY <1>1, HostInvariance, PTL

-----------------------------------------------------------------------------
(***************************************************************************)
(* JitCache, for any number of processes, of kills and of timeouts: type   *)
(* correctness, and, until somebody clears the directory, the exclusion of *)
(* loads and writes, the permanence of an exported object and, until a     *)
(* process is killed or an export raises, its completeness.                *)
(***************************************************************************)

(* Until somebody calls clear() the lock path leads to one file for good,  *)
(* so a lock that somebody holds is a lock on that file.                   *)
OneLockFile ==
    /\ \A p \in Processes : jitPc[p] # "clear"
    /\ \A p \in Processes : fd[p] # 0 => fd[p] = lockFile
    /\ \A p \in Processes : jitPc[p] \in {"find", "load"} => held[p] = "shared"
    /\ \A p \in Processes : jitPc[p] \in {"check", "start", "export"} => held[p] = "exclusive"
    /\ \A p, q \in Processes : p # q /\ held[p] = "exclusive" => held[q] = "none"

(* A partial object is one that is being exported, or that a process left  *)
(* when it was killed or its export raised.                                *)
PartialIsExported ==
    obj = "partial" =>
        \/ crashes > 0 \/ failures > 0
        \/ \E p \in Processes : jitPc[p] = "export" /\ writer = p

(* There is still no object when the export of one starts.                 *)
StartsFresh == \A p \in Processes : jitPc[p] = "start" => obj = "absent"

LockInv == clears = 0 => OneLockFile /\ StartsFresh
JitInv == JitTypeOK /\ LockInv /\ (clears = 0 => PartialIsExported)

-----------------------------------------------------------------------------
LEMMA JitInitTyped == JitInit => JitTypeOK
BY DEF JitInit, JitTypeOK, JitLabels

LEMMA OpenLockTyped ==
    ASSUME JitTypeOK, NEW p \in Processes, OpenLock(p)
    PROVE  /\ lockFiles' \in Nat
           /\ lockFile' \in 0 .. lockFiles'
           /\ fd' \in [Processes -> 0 .. lockFiles']
           /\ fd'[p] # 0
           /\ \A q \in Processes : fd[q] # 0 => fd'[q] # 0
BY DEF OpenLock, JitTypeOK

LEMMA UnlinkTyped ==
    ASSUME JitTypeOK, NEW p \in Processes, Unlink(p)
    PROVE  JitTypeOK'
<1>0. UNCHANGED <<lockFiles, mem, fd, held, slow, crashes, failures, clears>>
  BY DEF Unlink, boundVars
<1>1. CASE UnlinkLock(p)
  BY <1>0, <1>1 DEF UnlinkLock, JitTypeOK, JitLabels
<1>2. CASE UnlinkObj(p)
  BY <1>0, <1>2 DEF UnlinkObj, JitTypeOK, JitLabels
<1>3. CASE UnlinkMissing(p)
  BY <1>0, <1>3 DEF UnlinkMissing, JitGoto, JitTypeOK, JitLabels
<1>4. CASE ClearDone(p)
  BY <1>0, <1>4 DEF ClearDone, JitGoto, JitTypeOK, JitLabels
<1>. QED
  BY <1>1, <1>2, <1>3, <1>4 DEF Unlink

LEMMA JitNextTyped == JitTypeOK /\ [JitNext]_jitVars => JitTypeOK'
<1>. SUFFICES ASSUME JitTypeOK, [JitNext]_jitVars PROVE JitTypeOK'
  OBVIOUS
<1>0. CASE UNCHANGED jitVars
  BY <1>0 DEF jitVars, dirVars, boundVars, JitTypeOK
<1>. SUFFICES ASSUME NEW p \in Processes,
                     Lookup(p) \/ JitClear(p) \/ Crash(p) \/ Work(p)
              PROVE  JitTypeOK'
  BY <1>0 DEF JitNext
<1>1. CASE Lookup(p)
  BY <1>1, OpenLockTyped DEF Lookup, JitGoto, JitTypeOK, JitLabels, boundVars
<1>2. CASE JitClear(p)
  BY <1>2 DEF JitClear, JitGoto, JitTypeOK, JitLabels, dirVars
<1>3. CASE Crash(p)
  BY <1>3 DEF Crash, Release, JitGoto, JitTypeOK, JitLabels
<1>4. CASE LockShared(p)
  BY <1>4 DEF LockShared, Acquire, JitGoto, JitTypeOK, JitLabels, dirVars, boundVars
<1>5. CASE Find(p)
  BY <1>5 DEF Find, Release, JitGoto, JitTypeOK, JitLabels, dirVars, boundVars
<1>6. CASE Load(p)
  <2>1. mem' \in [Processes -> BOOLEAN]
    BY <1>6, Zenon DEF Load, JitTypeOK
  <2>2. jitPc' \in [Processes -> JitLabels] /\ jitPc'[p] \in {"call", "idle"}
        /\ \A q \in Processes \ {p} : jitPc'[q] = jitPc[q]
    BY <1>6 DEF Load, JitGoto, JitTypeOK, JitLabels
  <2>3. Release(p) /\ UNCHANGED <<dirVars, todo, boundVars>>
    BY <1>6 DEF Load
  <2>. QED
    BY <2>1, <2>2, <2>3 DEF Release, JitTypeOK, dirVars, boundVars
<1>7. CASE Compile(p)
  BY <1>7, OpenLockTyped DEF Compile, JitGoto, JitTypeOK, JitLabels, boundVars
<1>8. CASE LockExclusive(p)
  BY <1>8 DEF LockExclusive, Acquire, JitGoto, JitTypeOK, JitLabels, dirVars, boundVars
<1>9. CASE Check(p)
  BY <1>9 DEF Check, Release, JitGoto, JitTypeOK, JitLabels, dirVars, boundVars
<1>10. CASE Export(p)
  BY <1>10 DEF Export, Release, JitGoto, JitTypeOK, JitLabels, boundVars
<1>11. CASE Call(p)
  BY <1>11 DEF Call, JitGoto, JitTypeOK, JitLabels, dirVars, boundVars
<1>12. CASE JitTimeOut(p)
  BY <1>12 DEF JitTimeOut, Release, JitGoto, JitTypeOK, JitLabels, dirVars, boundVars
<1>13. CASE Unlink(p)
  BY <1>13, UnlinkTyped
<1>14. CASE StartExport(p)
  BY <1>14 DEF StartExport, JitGoto, JitTypeOK, JitLabels, boundVars
<1>15. CASE ExportRaises(p)
  BY <1>15 DEF ExportRaises, Release, JitGoto, JitTypeOK, JitLabels
<1>. QED
  BY <1>1, <1>2, <1>3, <1>4, <1>5, <1>6, <1>7, <1>8, <1>9, <1>10, <1>11,
     <1>12, <1>13, <1>14, <1>15 DEF Work

(* JitCache keeps its types, and no process ever holds a lock on a file it *)
(* has not open, whatever is killed, cleared or timed out.                 *)
THEOREM JitTypeCorrect == JitSpec => []JitTypeOK
BY JitInitTyped, JitNextTyped, PTL DEF JitSpec

-----------------------------------------------------------------------------
(* The exclusion of loads and writes: by the locks, since without clear()  *)
(* all of them are on one file.                                            *)
LEMMA JitInitLocks == JitInit => JitInv
BY JitInitTyped DEF JitInit, JitInv, LockInv, OneLockFile, StartsFresh, PartialIsExported

LEMMA AcquireKeepsExclusion ==
    ASSUME JitTypeOK, OneLockFile, NEW p \in Processes, NEW kind \in {"shared", "exclusive"},
           fd[p] # 0, Acquire(p, kind)
    PROVE  /\ held'[p] = kind
           /\ \A q, r \in Processes :
                 q # r /\ held'[q] = "exclusive" => held'[r] = "none"
<1>1. \A q \in Processes \ {p} : held[q] # "none" => fd[q] = fd[p]
  BY DEF JitTypeOK, OneLockFile
<1>2. \A q \in Processes \ {p} :
         held[q] = "none" \/ (kind = "shared" /\ held[q] = "shared")
  BY <1>1 DEF Acquire, Compatible
<1>3. held' = [held EXCEPT ![p] = kind] /\ held \in [Processes -> {"none", "shared", "exclusive"}]
  BY DEF Acquire, JitTypeOK
<1>. QED
  BY <1>2, <1>3 DEF OneLockFile

LEMMA OpenLockKeepsFile ==
    ASSUME JitTypeOK, OneLockFile, NEW p \in Processes, OpenLock(p)
    PROVE  \A q \in Processes : fd'[q] # 0 => fd'[q] = lockFile'
BY DEF OpenLock, JitTypeOK, OneLockFile

(* Whoever calls clear() ends the reach of OneLockFile. *)
LEMMA ClearsOnlyGrow ==
    ASSUME JitTypeOK, JitNext, clears' = 0
    PROVE  clears = 0 /\ \A p \in Processes : ~JitClear(p)
<1>1. \A p \in Processes : ~JitClear(p)
  BY DEF JitClear, JitTypeOK
<1>. QED
  BY <1>1 DEF JitNext, Work, Lookup, LockShared, Find, Load, Compile, LockExclusive,
     Check, StartExport, ExportRaises, Export, Call, JitTimeOut, Unlink, Crash,
     dirVars, boundVars

LEMMA StepKeepsOneLockFile ==
    ASSUME JitTypeOK, OneLockFile, NEW p \in Processes, Lookup(p) \/ Crash(p) \/ Work(p)
    PROVE  OneLockFile' /\ ~Unlink(p)
<1>1. CASE Lookup(p)
  BY <1>1, OpenLockKeepsFile DEF Lookup, JitGoto, OneLockFile, JitTypeOK, JitLabels, boundVars, Unlink
<1>3. CASE Crash(p)
  BY <1>3 DEF Crash, Release, JitGoto, OneLockFile, JitTypeOK, JitLabels, Unlink
<1>4. CASE LockShared(p)
  <2>1. /\ held'[p] = "shared"
        /\ \A q, r \in Processes : q # r /\ held'[q] = "exclusive" => held'[r] = "none"
    BY <1>4, AcquireKeepsExclusion DEF LockShared, JitTypeOK
  <2>. QED
    BY <1>4, <2>1
       DEF LockShared, Acquire, JitGoto, OneLockFile, JitTypeOK, JitLabels, dirVars, boundVars, Unlink
<1>5. CASE Find(p)
  BY <1>5 DEF Find, Release, JitGoto, OneLockFile, JitTypeOK, JitLabels, dirVars, boundVars, Unlink
<1>6. CASE Load(p)
  BY <1>6 DEF Load, Release, JitGoto, OneLockFile, JitTypeOK, JitLabels, dirVars, boundVars, Unlink
<1>7. CASE Compile(p)
  BY <1>7, OpenLockKeepsFile DEF Compile, JitGoto, OneLockFile, JitTypeOK, JitLabels, boundVars, Unlink
<1>8. CASE LockExclusive(p)
  <2>1. /\ held'[p] = "exclusive"
        /\ \A q, r \in Processes : q # r /\ held'[q] = "exclusive" => held'[r] = "none"
    BY <1>8, AcquireKeepsExclusion DEF LockExclusive, JitTypeOK
  <2>. QED
    BY <1>8, <2>1
       DEF LockExclusive, Acquire, JitGoto, OneLockFile, JitTypeOK, JitLabels, dirVars, boundVars, Unlink
<1>9. CASE Check(p)
  BY <1>9 DEF Check, Release, JitGoto, OneLockFile, JitTypeOK, JitLabels, dirVars, boundVars, Unlink
<1>10. CASE Export(p)
  BY <1>10 DEF Export, Release, JitGoto, OneLockFile, JitTypeOK, JitLabels, boundVars, Unlink
<1>11. CASE Call(p)
  BY <1>11 DEF Call, JitGoto, OneLockFile, JitTypeOK, JitLabels, dirVars, boundVars, Unlink
<1>12. CASE JitTimeOut(p)
  BY <1>12 DEF JitTimeOut, Release, JitGoto, OneLockFile, JitTypeOK, JitLabels, dirVars, boundVars, Unlink
<1>13. CASE Unlink(p)
  BY <1>13 DEF Unlink, OneLockFile
<1>14. CASE StartExport(p)
  BY <1>14 DEF StartExport, JitGoto, OneLockFile, JitTypeOK, JitLabels, boundVars, Unlink
<1>15. CASE ExportRaises(p)
  BY <1>15 DEF ExportRaises, Release, JitGoto, OneLockFile, JitTypeOK, JitLabels, Unlink
<1>. QED
  BY <1>1, <1>3, <1>4, <1>5, <1>6, <1>7, <1>8, <1>9, <1>10, <1>11,
     <1>12, <1>13, <1>14, <1>15 DEF Work

(* Whoever starts an export is alone with its lock, so that no object has  *)
(* come since it looked for one.                                           *)
LEMMA StepKeepsFresh ==
    ASSUME JitTypeOK, OneLockFile, StartsFresh, NEW p \in Processes,
           Lookup(p) \/ Crash(p) \/ Work(p), ~Unlink(p)
    PROVE  StartsFresh'
<1>1. CASE Check(p)
  BY <1>1 DEF Check, JitGoto, StartsFresh, JitTypeOK, JitLabels, dirVars
<1>2. CASE StartExport(p) \/ Export(p)
  <2>1. jitPc[p] \in {"start", "export"} /\ \A q \in Processes \ {p} : jitPc[q] # "start"
    BY <1>2 DEF StartExport, Export, OneLockFile
  <2>. QED
    BY <1>2, <2>1 DEF StartExport, Export, JitGoto, StartsFresh, JitTypeOK
<1>3. ASSUME UNCHANGED obj, \A q \in Processes : jitPc'[q] = "start" => jitPc[q] = "start"
      PROVE  StartsFresh'
  BY <1>3 DEF StartsFresh
<1>4. CASE Lookup(p) \/ LockShared(p) \/ Find(p) \/ Compile(p)
  BY <1>3, <1>4 DEF Lookup, LockShared, Find, Compile, JitGoto, JitTypeOK, dirVars
<1>5. CASE Load(p) \/ LockExclusive(p) \/ Call(p) \/ JitTimeOut(p)
  BY <1>3, <1>5 DEF Load, LockExclusive, Call, JitTimeOut, JitGoto, JitTypeOK, dirVars
<1>6. CASE ExportRaises(p) \/ Crash(p)
  BY <1>3, <1>6 DEF ExportRaises, Crash, JitGoto, JitTypeOK
<1>. QED
  BY <1>1, <1>2, <1>4, <1>5, <1>6 DEF Work

(* Only StartExport makes a partial object; only Export, ExportRaises and  *)
(* Crash end an export.                                                    *)
LEMMA StepKeepsPartial ==
    ASSUME JitTypeOK, PartialIsExported, NEW p \in Processes,
           Lookup(p) \/ Crash(p) \/ Work(p), ~Unlink(p)
    PROVE  PartialIsExported'
<1>1. CASE StartExport(p)
  BY <1>1 DEF StartExport, JitGoto, PartialIsExported, JitTypeOK, JitLabels, boundVars
<1>2. CASE Export(p)
  BY <1>2 DEF Export, JitGoto, PartialIsExported, JitTypeOK, JitLabels, boundVars
<1>3. CASE Crash(p)
  BY <1>3 DEF Crash, PartialIsExported, JitTypeOK
<1>7. CASE ExportRaises(p)
  BY <1>7 DEF ExportRaises, PartialIsExported, JitTypeOK
<1>4. ASSUME UNCHANGED <<obj, writer, crashes, failures>>, jitPc[p] # "export",
             \A q \in Processes \ {p} : jitPc'[q] = jitPc[q]
      PROVE  PartialIsExported'
  BY <1>4 DEF PartialIsExported
<1>5. CASE Lookup(p) \/ LockShared(p) \/ Find(p) \/ Compile(p) \/ Check(p)
  BY <1>4, <1>5 DEF Lookup, LockShared, Find, Compile, Check, JitGoto, JitTypeOK, dirVars, boundVars
<1>6. CASE Load(p) \/ LockExclusive(p) \/ Call(p) \/ JitTimeOut(p)
  BY <1>4, <1>6 DEF Load, LockExclusive, Call, JitTimeOut, JitGoto, JitTypeOK, dirVars, boundVars
<1>. QED
  BY <1>1, <1>2, <1>3, <1>5, <1>6, <1>7 DEF Work

LEMMA JitNextLocks == JitInv /\ [JitNext]_jitVars => JitInv'
<1>. SUFFICES ASSUME JitInv, [JitNext]_jitVars PROVE JitInv'
  OBVIOUS
<1>1. JitTypeOK'
  BY JitNextTyped DEF JitInv
<1>2. CASE UNCHANGED jitVars
  BY <1>1, <1>2 DEF jitVars, dirVars, boundVars, JitInv, LockInv, OneLockFile, StartsFresh,
     PartialIsExported
<1>3. ASSUME JitNext, clears' = 0
      PROVE  OneLockFile' /\ StartsFresh' /\ PartialIsExported'
  <2>1. PICK p \in Processes : Lookup(p) \/ Crash(p) \/ Work(p)
    BY <1>3, ClearsOnlyGrow DEF JitNext, JitInv
  <2>2. OneLockFile /\ StartsFresh /\ PartialIsExported
    BY <1>3, ClearsOnlyGrow DEF JitInv, LockInv
  <2>. QED
    BY <2>1, <2>2, StepKeepsOneLockFile, StepKeepsFresh, StepKeepsPartial DEF JitInv
<1>. QED
  BY <1>1, <1>2, <1>3 DEF JitInv, LockInv

LEMMA JitInvAlways == JitSpec => []JitInv
BY JitInitLocks, JitNextLocks, PTL DEF JitSpec

(* Until the directory is cleared no process looks for or loads the object *)
(* while another one writes it, however many processes there are, are      *)
(* killed or time out.                                                     *)
THEOREM ReadersExcludeWriter == JitSpec => []UnclearedExcludesWrite
<1>1. JitInv => UnclearedExcludesWrite
  BY DEF JitInv, JitTypeOK, LockInv, OneLockFile, LoadExcludesWrite, UnclearedExcludesWrite
<1>. QED
  BY <1>1, JitInvAlways, PTL

(* Until a process is killed, an export raises or the directory is cleared *)
(* an object that a process finds under a lock has been exported to the    *)
(* end.                                                                    *)
THEOREM FoundIsWhole == JitSpec => []UndisturbedMeansExported
<1>1. JitInv => UndisturbedMeansExported
  <2>. SUFFICES ASSUME JitInv, Undisturbed, NEW p \in Processes,
                       jitPc[p] \in {"find", "load", "check"}, obj = "partial"
                PROVE  FALSE
    BY DEF UndisturbedMeansExported, ExistsMeansExported
  <2>1. OneLockFile /\ PartialIsExported
    BY DEF JitInv, LockInv, Undisturbed
  <2>2. PICK q \in Processes : jitPc[q] = "export"
    BY <2>1 DEF PartialIsExported, Undisturbed
  <2>. QED
    BY <2>1, <2>2 DEF OneLockFile
<1>. QED
  BY <1>1, JitInvAlways, PTL

(* Until the directory is cleared an exported object is never written      *)
(* again, not even by a process that compiled it at the same time.         *)
THEOREM ExportIsPermanent == JitSpec => ExportedStays
<1>1. JitInv /\ [JitNext]_jitVars => [obj = "whole" /\ clears' = 0 => obj' = "whole"]_obj
  <2>. SUFFICES ASSUME JitInv, JitNext, obj = "whole", clears' = 0 PROVE obj' = "whole"
    BY DEF jitVars, dirVars
  <2>1. PICK p \in Processes : Lookup(p) \/ Crash(p) \/ Work(p)
    BY ClearsOnlyGrow DEF JitNext, JitInv
  <2>2. OneLockFile /\ StartsFresh
    BY ClearsOnlyGrow DEF JitInv, LockInv
  <2>3. ~Unlink(p) /\ ~StartExport(p)
    BY <2>1, <2>2, StepKeepsOneLockFile DEF JitInv, StartExport, StartsFresh
  <2>. QED
    BY <2>1, <2>3 DEF Lookup, Crash, Work, LockShared, Find, Load, Compile,
       LockExclusive, Check, ExportRaises, Export, Call, JitTimeOut, dirVars
<1>. QED
  BY <1>1, JitInvAlways, PTL DEF JitSpec, ExportedStays
=============================================================================
