---------------------------- MODULE DetBackwardSm90 ----------------------------
(***************************************************************************)
(* The deterministic SM90 backward.  A CTA has a key block n of a query    *)
(* head h and adds to dQ of every query tile it visits, and, when query    *)
(* heads share a key head, to dK and dV of that head.  Semaphores in       *)
(* global memory order these additions between CTAs, so that the sums of   *)
(* floating point numbers come out the same in every run.  A CTA spins     *)
(* until a semaphore is equal to the number of additions that come before  *)
(* its own, which it computes from the block ranges of the forward.        *)
(*                                                                         *)
(* Within a CTA the MMA warps hand dQ tiles to the warp that adds them     *)
(* (dQaccum_store) through one buffer in shared memory; here that buffer   *)
(* and its two named barriers are one variable.  CTAs are launched in the  *)
(* order of SingleTileLPTBwdScheduler, as many as fit at a time.           *)
(***************************************************************************)
EXTENDS BlockInfo, Sequences, FiniteSets

CONSTANT Launches   \* the launches that are considered

(* A launch is a problem of BlockInfo, in which no heads are packed, and   *)
(*   heads   query heads (and batches)                                     *)
(*   group   query heads per key head                                      *)
(*   minor   heads that are scheduled together, l2_minor                   *)
(*   slots   CTAs that are resident at a time                              *)
ASSUME LaunchesAssumption ==
    \A l \in Launches :
        /\ IsProblem(l) /\ l.pack = 1
        /\ {l.heads, l.group, l.minor, l.slots} \subseteq Nat \ {0}
        /\ l.heads % l.group = 0

VARIABLES
    c,              \* the launch
    visited, lock, masked,  \* Visited, LockValue and Masked of it
    launched,       \* how many CTAs have been launched
    store, mma,     \* the two sides of every CTA
    buffer,         \* sdQaccum: "empty", "full", or "skip" for a skipped tile
    semQ, semK, semV,   \* semaphores in global memory
    addsQ, addsK, addsV \* ghost: who added, in order
kv    == <<semK, semV, addsK, addsV>>
fixed == <<c, visited, lock, masked>>
vars  == <<fixed, launched, store, mma, buffer, semQ, addsQ, kv>>

-----------------------------------------------------------------------------
NumHeads == c.heads
Group    == c.group
L2Minor  == c.minor

Heads   == 0 .. NumHeads - 1
KVHeads == 0 .. NumHeads \div Group - 1
Blocks  == 0 .. NumN(c) - 1
Tiles   == 0 .. NumM(c) - 1
Ctas    == Blocks \X Heads

(* shortest processing time first: from the last key block on *)
Spt == c.kind \in {"causal", "local"}

(* SingleTileLPTBwdScheduler.get_current_work: the i-th CTA *)
CtaAscending(i) ==      \* mutant: spt is not passed on
    LET block == (i % (L2Minor * NumN(c))) \div L2Minor
        head  == (i \div (L2Minor * NumN(c))) * L2Minor + (i % L2Minor)
    IN  <<block, head>>

Cta(i) ==
    LET section == i \div (L2Minor * NumN(c))
        mod     == i % (L2Minor * NumN(c))
        minor   == IF section < NumHeads \div L2Minor
                   THEN L2Minor ELSE Most(NumHeads % L2Minor, 1)
        block   == mod \div minor
    IN  <<IF Spt THEN NumN(c) - 1 - block ELSE block,
          section * L2Minor + (mod % minor)>>

(* The query tiles of key block n in the order of the three loops. *)
Up(from, to) == [i \in 1 .. Most(to - from, 0) |-> from + i - 1]
Visited(n) ==
    LET r == MBlocks(c, n)
    IN  Up(r.min, r.max) \o Up(r.wmin, r.wmax) \o Up(r.smin, r.smax)

LockValueMain(n, m) ==      \* mutant: window and sink blocks are not counted
    LET r == NBlocks(c, m) IN IF ~Spt THEN n ELSE Most(r.max - Most(n + 1, r.min), 0)

(* Contributions to dQ of tile m that come before that of block n. *)
LockValue(n, m) ==
    LET r == NBlocks(c, m)
        after(from, to) == Most(to - Most(n + 1, from), 0)
    IN  IF ~Spt THEN n
        ELSE after(r.min, r.max)
               + (IF IsLocal(c)
                  THEN after(r.wmin, Least(r.wmax, r.min)) + after(0, r.smax)
                  ELSE 0)

(* A tile of which the mask leaves nothing is always skipped. *)
Masked(n, m) ==
    ~\E q \in m * c.tm .. (m + 1) * c.tm - 1, k \in n * c.tn .. (n + 1) * c.tn - 1 :
        Attends(c, q, k)

-----------------------------------------------------------------------------
Init ==
    /\ c \in Launches
    /\ visited = [n \in Blocks |-> Visited(n)]
    /\ lock    = [x \in Blocks \X Tiles |-> LockValue(x[1], x[2])]
    /\ masked  = [x \in Blocks \X Tiles |-> Masked(x[1], x[2])]
    /\ launched = 0
    /\ store = [t \in Ctas |-> [at |-> 1, pc |-> "lock"]]
    /\ mma   = [t \in Ctas |-> [at |-> 1, pc |-> "dQ"]]
    /\ buffer = [t \in Ctas |-> "empty"]
    /\ semQ = [x \in Tiles \X Heads |-> 0]
    /\ semK = [x \in Blocks \X KVHeads |-> 0]
    /\ semV = [x \in Blocks \X KVHeads |-> 0]
    /\ addsQ = [x \in Tiles \X Heads |-> <<>>]
    /\ addsK = [x \in Blocks \X KVHeads |-> <<>>]
    /\ addsV = [x \in Blocks \X KVHeads |-> <<>>]

Stored(t)   == store[t].at > Len(visited[t[1]])
Finished(t) == Stored(t) /\ mma[t].pc = "done"
Launched    == {Cta(i) : i \in 0 .. launched - 1}
Resident    == {t \in Launched : ~Finished(t)}

Launch ==
    /\ launched < NumN(c) * NumHeads
    /\ Cardinality(Resident) < c.slots
    /\ launched' = launched + 1
    /\ UNCHANGED <<fixed, store, mma, buffer, semQ, addsQ, kv>>

-----------------------------------------------------------------------------
(* The warp that adds dQ. *)

Tile(t) == <<visited[t[1]][store[t].at], t[2]>>

AcquireTile(t) ==
    /\ ~Stored(t) /\ store[t].pc = "lock"
    /\ semQ[Tile(t)] = lock[<<t[1], Tile(t)[1]>>]
    /\ store' = [store EXCEPT ![t].pc = "full"]
    /\ UNCHANGED <<fixed, launched, mma, buffer, semQ, addsQ, kv>>

(* From here on, unless the tile was skipped, the bulk copy adds it. *)
StartAdd(t) ==
    /\ store[t].pc = "full" /\ buffer[t] # "empty"
    /\ store' = [store EXCEPT ![t].pc = "add"]
    /\ UNCHANGED <<fixed, launched, mma, buffer, semQ, addsQ, kv>>

(* The copy is complete: release the tile and, for the next, the buffer. *)
FinishAdd(t) ==
    /\ store[t].pc = "add"
    /\ addsQ' = IF buffer[t] = "skip" THEN addsQ
                ELSE [addsQ EXCEPT ![Tile(t)] = Append(@, t[1])]
    /\ semQ' = [semQ EXCEPT ![Tile(t)] = @ + 1]
    /\ buffer' = [buffer EXCEPT ![t] = "empty"]
    /\ store' = [store EXCEPT ![t] = [at |-> @.at + 1, pc |-> "lock"]]
    /\ UNCHANGED <<fixed, launched, mma, kv>>

-----------------------------------------------------------------------------
(* The MMA warps. *)

ComputeTile(t) ==
    /\ mma[t].pc = "dQ" /\ mma[t].at <= Len(visited[t[1]])
    /\ buffer[t] = "empty"
    /\ \E skip \in {s \in BOOLEAN : masked[<<t[1], visited[t[1]][mma[t].at]>>] => s} :
         buffer' = [buffer EXCEPT ![t] = IF skip THEN "skip" ELSE "full"]
    /\ mma' = [mma EXCEPT ![t].at = @ + 1]
    /\ UNCHANGED <<fixed, launched, store, semQ, addsQ, kv>>

KVTile(t) == <<t[1], t[2] \div Group>>
Goto(t, pc) ==
    /\ mma' = [mma EXCEPT ![t].pc = pc]
    /\ UNCHANGED <<fixed, launched, store, buffer, semQ, addsQ>>

(* epilogue_dKV: dK and dV of a key head with one query head are stored. *)
Epilogue(t) ==
    /\ mma[t].pc = "dQ" /\ mma[t].at > Len(visited[t[1]])
    /\ Goto(t, IF Group = 1 THEN "done" ELSE "lock K")
    /\ UNCHANGED kv

AcquireKAtOnce(t) ==        \* mutant: dK is not waited for
    /\ mma[t].pc = "lock K"
    /\ Goto(t, "add K")
    /\ UNCHANGED kv

AcquireK(t) ==
    /\ mma[t].pc = "lock K"
    /\ semK[KVTile(t)] = t[2] % Group
    /\ Goto(t, "add K")
    /\ UNCHANGED kv

FinishK(t) ==
    /\ mma[t].pc = "add K"
    /\ addsK' = [addsK EXCEPT ![KVTile(t)] = Append(@, t[2])]
    /\ semK' = [semK EXCEPT ![KVTile(t)] = @ + 1]
    /\ Goto(t, "lock V")
    /\ UNCHANGED <<semV, addsV>>

AcquireV(t) ==
    /\ mma[t].pc = "lock V"
    /\ semV[KVTile(t)] = t[2] % Group
    /\ Goto(t, "add V")
    /\ UNCHANGED kv

FinishV(t) ==
    /\ mma[t].pc = "add V"
    /\ addsV' = [addsV EXCEPT ![KVTile(t)] = Append(@, t[2])]
    /\ semV' = [semV EXCEPT ![KVTile(t)] = @ + 1]
    /\ Goto(t, "done")
    /\ UNCHANGED <<semK, addsK>>

-----------------------------------------------------------------------------
StoreStep(t) == AcquireTile(t) \/ StartAdd(t) \/ FinishAdd(t)
MmaStep(t)   == \/ ComputeTile(t) \/ Epilogue(t)
                \/ AcquireK(t) \/ FinishK(t) \/ AcquireV(t) \/ FinishV(t)

Next == Launch \/ \E t \in Launched : StoreStep(t) \/ MmaStep(t)
Spec == Init /\ [][Next]_vars

(* Resident warps are all scheduled, and a free slot gets the next CTA. *)
FairSpec == Spec /\ WF_vars(Next)

-----------------------------------------------------------------------------
InOrder(s, before(_, _)) == \A i \in 2 .. Len(s) : before(s[i - 1], s[i])

(* The CTAs whose bulk copy is adding to x. *)
Adding(x) == {t \in Launched :
    ~Stored(t) /\ store[t].pc = "add" /\ buffer[t] = "full" /\ Tile(t) = x}

(* The contributions to a dQ tile are added one at a time, and in the one  *)
(* order that depends on no timing: by descending key block, ascending for *)
(* full attention.                                                         *)
AddsInOrder ==
    \A x \in Tiles \X Heads :
        LET before(n1, n2) == IF Spt THEN n1 > n2 ELSE n1 < n2
        IN  /\ Cardinality(Adding(x)) <= 1
            /\ \A t \in Adding(x) : InOrder(Append(addsQ[x], t[1]), before)

(* The same for dK and dV of a key head, which the query heads of its      *)
(* group add in the order of their numbers.                                *)
HeadsInOrder ==
    \A x \in Blocks \X KVHeads :
        LET before(h1, h2) == h1 < h2
            busy(pc) == {t \in Ctas : KVTile(t) = x /\ mma[t].pc = pc}
        IN  /\ Cardinality(busy("add K")) <= 1 /\ Cardinality(busy("add V")) <= 1
            /\ \A t \in busy("add K") : InOrder(Append(addsK[x], t[2]), before)
            /\ \A t \in busy("add V") : InOrder(Append(addsV[x], t[2]), before)

(* No CTA spins for ever, however few are resident: every semaphore takes  *)
(* the value that is waited for, and the CTA that gives it that value has  *)
(* been launched before.                                                   *)
Terminates == <>(\A t \in Ctas : Finished(t))

=============================================================================
